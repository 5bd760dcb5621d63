\* A note of two bodies in two chunks, two threads, two runs of any command; a
\* chunk or the merge may raise, and the process may die at any point but inside a restore,
\* and for the first body inside the write of a JSON too.
CONSTANTS
  long = long  short = short
  LastBody = 2
  Sizes = {long}
  CutInto <- TwoChunks
  Workers = 2
  EditWhile = FALSE
  RaiseIn = {"chunk", "merge"}
  CrashIn <- NotInRestore
  TornIn = {1}
  MaxChunks = 2
  MaxRuns = 2
  MaxFaults = 2
SPECIFICATION Spec
INVARIANT TypeOK OkRowHasAnswer StagedIsWhole StagedIsClaimed StagedAgreesUnlessMuddled
PROPERTY RefusedReextractCostsNothing CleanRunIsStaged
CHECK_DEADLOCK FALSE
