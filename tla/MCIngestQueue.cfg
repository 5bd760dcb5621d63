\* A --stage-only batch, then a --reextract one of the same files; files and
\* rebuilds that fail, a crash, a retry, a repair.
CONSTANTS
  w1 = w1  w2 = w2  c1 = c1  c2 = c2  f1 = f1  f2 = f2  f3 = f3
  d1 = d1  d2 = d2  i1 = i1  i2 = i2  None = None
  Workers = {w1, w2}
  Clients = {c1}
  Jobs = {1, 2}
  Files = {f1, f2}
  Batch <- OneBatch
  Domains = {d1, d2}
  Domain <- Domain2
  Inodes = {i1, i2}
  StageOnly = {1}
  Reextract = {2}
  Oversized = {}
  RetryFrom = {"processing", "completed", "failed"}
  Failures = TRUE
  DebtMayFail = TRUE
  MaxCrashes = 1
  MaxRetries = 1
  MaxRepairs = 1
SPECIFICATION Spec
INVARIANTS IInv OneWorker CountMatches NoFileLeftBehind CompletedIsInGraph
PROPERTY RetryNeverRacesWorker
SYMMETRY Symmetry
CHECK_DEADLOCK FALSE
