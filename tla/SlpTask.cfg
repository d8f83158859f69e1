CONSTANTS
  Modulus = 13
  ClearAbove = 5
  Hz = 2
  MaxGap = 7
  Horizon = 12
  Stamps = {5}
  Intervals = {0, 2, 3}
  Offsets = {0, 1}
  TimerWrap = 4
SPECIFICATION Spec
INVARIANTS ClockTrue SleepEnds OneEndPerSleep
PROPERTY WakesOnGrid
CHECK_DEADLOCK FALSE
