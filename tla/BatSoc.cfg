\* A battery of three levels of two units, and a run time of up to 2.
SPECIFICATION GaugeSpec
CONSTANTS
  Levels = 3
  Unit = 2
  MaxClock = 2
CONSTRAINT Bounded
INVARIANTS GaugeTold LevelSaved ResetGivesALevel BleTimeTrue
