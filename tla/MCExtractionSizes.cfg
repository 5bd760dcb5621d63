\* A run that failed is repeated with another chunk size.
CONSTANTS
  long = long  short = short
  LastBody = 1
  Sizes = {long, short}
  CutInto <- TwoCuts
  Workers = 1
  EditWhile = FALSE
  RaiseIn = {}
  CrashIn = {}
  TornIn = {}
  MaxChunks = 2
  MaxRuns = 2
  MaxFaults = 2
SPECIFICATION Spec
INVARIANT StagedIsWhole
CHECK_DEADLOCK FALSE
