\* An error after the passes of a re-extraction.
CONSTANTS
  long = long  short = short
  LastBody = 1
  Sizes = {long}
  CutInto <- TwoChunks
  Workers = 1
  EditWhile = FALSE
  RaiseIn = {"merge"}
  CrashIn = {}
  TornIn = {}
  MaxChunks = 2
  MaxRuns = 2
  MaxFaults = 2
SPECIFICATION Spec
PROPERTY FailedReextractCostsNothing
CHECK_DEADLOCK FALSE
