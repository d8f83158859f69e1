\* Every interleaving of interrupts, timers, frames and turns.
SPECIFICATION FairSpec
CONSTANTS
  Cap = 2
INVARIANTS
  Listens
PROPERTIES
  KeepsService
  SamplesGetOut
  KeepsWriting
