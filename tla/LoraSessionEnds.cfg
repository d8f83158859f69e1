SPECIFICATION FairSpec
CONSTANTS
  MaxFails <- UNLIMITED
  FailCap = 1
  SlowLink = FALSE
PROPERTY
  SessionEnds
