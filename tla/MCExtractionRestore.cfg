\* The process dies between the two halves of a restore.
CONSTANTS
  long = long  short = short
  LastBody = 1
  Sizes = {long}
  CutInto <- TwoChunks
  Workers = 1
  EditWhile = FALSE
  RaiseIn = {}
  CrashIn <- AnyPoint
  TornIn = {}
  MaxChunks = 2
  MaxRuns = 2
  MaxFaults = 3
SPECIFICATION Spec
INVARIANT OkRowHasAnswer
CHECK_DEADLOCK FALSE
