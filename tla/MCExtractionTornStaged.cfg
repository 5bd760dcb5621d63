\* The process dies inside the write of a JSON whose row is ok; the note is resumed.
CONSTANTS
  long = long  short = short
  LastBody = 1
  Sizes = {long}
  CutInto <- TwoChunks
  Workers = 1
  EditWhile = FALSE
  RaiseIn = {}
  CrashIn = {"pass1", "pass2"}
  TornIn = {1}
  MaxChunks = 2
  MaxRuns = 3
  MaxFaults = 2
SPECIFICATION Spec
INVARIANT TornStagedWhole
CHECK_DEADLOCK FALSE
