\* A disconnection while the connection is being served.
SPECIFICATION FairSpec
CONSTANT Bounded = TRUE
PROPERTIES
  DisconUpdatesState
CHECK_DEADLOCK FALSE
