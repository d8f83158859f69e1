\* The time offset a gateway sets is saved.
SPECIFICATION Spec
CONSTANTS
  Publications <- MCPublications
  Shorts = {"s1"}
  Longs = {"l1", "l2"}
INVARIANT OffsetSaved
CHECK_DEADLOCK FALSE
