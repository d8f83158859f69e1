\* Client writes and power failures at every step of saving.
SPECIFICATION Spec
CONSTANTS
  Params = {"radio"}
  Vals = {"a", "b"}
  DefaultVal = "a"
INVARIANTS
  NothingForgotten
  SavedBeforeReset
  VersionSurvives
PROPERTIES
  KeepsPromise
