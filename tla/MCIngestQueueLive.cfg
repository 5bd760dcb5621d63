\* Two overlapping batches, one with an image docling refuses; failures, a retry.
CONSTANTS
  w1 = w1  w2 = w2  c1 = c1  c2 = c2  f1 = f1  f2 = f2  f3 = f3
  d1 = d1  d2 = d2  i1 = i1  i2 = i2  None = None
  Workers = {w1, w2}
  Clients = {c1}
  Jobs = {1, 2}
  Files = {f1, f2, f3}
  Batch <- TwoBatches
  Domains = {d1, d2}
  Domain <- Domain2
  Inodes = {i1}
  StageOnly = {}
  Reextract = {}
  Oversized = {f3}
  RetryFrom = {"processing", "completed", "failed"}
  Failures = TRUE
  DebtMayFail = FALSE
  MaxCrashes = 0
  MaxRetries = 1
  MaxRepairs = 0
SPECIFICATION FairSpec
INVARIANT OwedOrAboutToBe
PROPERTIES DoneMeansRebuilt QueueDrains
CHECK_DEADLOCK FALSE
