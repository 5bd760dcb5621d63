\* One user retries a job that is still queued, as a worker claims it.
CONSTANTS
  w1 = w1  w2 = w2  c1 = c1  c2 = c2  f1 = f1  f2 = f2  f3 = f3
  d1 = d1  d2 = d2  i1 = i1  i2 = i2  None = None
  Workers = {w1, w2}
  Clients = {c1}
  Jobs = {1}
  Files = {f1, f2}
  Batch <- OneBatch
  Domains = {d1}
  Domain <- Domain1
  Inodes = {i1, i2}
  StageOnly = {}
  Reextract = {}
  Oversized = {}
  RetryFrom = {"queued", "processing", "completed", "failed"}
  Failures = TRUE
  DebtMayFail = FALSE
  MaxCrashes = 0
  MaxRetries = 1
  MaxRepairs = 0
SPECIFICATION Spec
PROPERTY RetryNeverRacesWorker
CHECK_DEADLOCK FALSE
