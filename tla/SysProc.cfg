SPECIFICATION FairSpec
CONSTANTS
  Version = "collapse"
  Periodic = TRUE
  Preempt = TRUE
  SlowLink = FALSE
  Budget = 2
INVARIANTS
  ChainAlive
  WaitsForMotion
  BleAlive
  OneChain
PROPERTIES
  KeepsPublishing
