\* SoftDevice events between any two statements of the task.
SPECIFICATION FairSpec
CONSTANT Bounded = TRUE
INVARIANTS
  AdvStartSucceeds
  AdvertisingEnds
  NeverDeaf
PROPERTIES
  RetriesLora
CHECK_DEADLOCK FALSE
