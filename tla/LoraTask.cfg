\* The product: no retry limit, replies resolve within a slice, fair timers and
\* a turning main loop.
SPECIFICATION FairSpec
CONSTANTS
  MaxFails <- UNLIMITED
  FailCap = 2
  SlowLink = FALSE
INVARIANTS
  IdleMeansQuiet
PROPERTIES
  AnsweredIsNotLost
  KeepsService
  ConfirmedMeansAnswered
  AttemptsContinue
