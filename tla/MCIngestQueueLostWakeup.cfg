\* Two users each submit a job: nobody is left to run one of them.
CONSTANTS
  w1 = w1  w2 = w2  c1 = c1  c2 = c2  f1 = f1  f2 = f2  f3 = f3
  d1 = d1  d2 = d2  i1 = i1  i2 = i2  None = None
  Workers = {w1, w2}
  Clients = {c1, c2}
  Jobs = {1, 2}
  Files = {f1, f2}
  Batch <- Singles
  Domains = {d1}
  Domain <- Domain1
  Inodes = {i1, i2}
  StageOnly = {}
  Reextract = {}
  Oversized = {}
  RetryFrom = {"processing", "completed", "failed"}
  Failures = FALSE
  DebtMayFail = FALSE
  MaxCrashes = 0
  MaxRetries = 0
  MaxRepairs = 0
SPECIFICATION FairSpec
PROPERTY SubmittedJobRuns
CHECK_DEADLOCK FALSE
