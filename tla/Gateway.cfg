\* Frames of every kind at any time of a session.  The run may stop in the
\* reset that a long address of another version brings.
SPECIFICATION Spec
CONSTANTS
  Publications <- MCPublications
  Shorts = {"s1", "s2"}
  Longs = {"l1", "l2"}
CHECK_DEADLOCK FALSE
INVARIANTS
  DeafForAReason
  MatchedIsSaved
  ResetAppliesAll
  PeriodReachesMode
PROPERTIES
  NeverTwice
  ConnectionSurvives
