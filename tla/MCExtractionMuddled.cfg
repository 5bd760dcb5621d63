\* A chunk raises after a step of it was settled.
CONSTANTS
  long = long  short = short
  LastBody = 1
  Sizes = {long}
  CutInto <- TwoChunks
  Workers = 1
  EditWhile = FALSE
  RaiseIn = {"chunk"}
  CrashIn = {}
  TornIn = {}
  MaxChunks = 2
  MaxRuns = 2
  MaxFaults = 2
SPECIFICATION Spec
INVARIANT StagedAgrees
CHECK_DEADLOCK FALSE
