SPECIFICATION Spec
CONSTANTS
  m1 = m1
  m2 = m2
  g1 = g1
  g2 = g2
  Machines = {m1, m2}
  Graphs = {g1, g2}
  GraphOf <- Own
  Unsynced = FALSE
  RestoreGone = FALSE
  RetireGone = TRUE
  MayFail = FALSE
  Overtake = FALSE
  Crossed = FALSE
  Regret = FALSE
  MaxVersions = 2
  MaxCommits = 5
  MaxCommands = 2
INVARIANT RecordDecides
CHECK_DEADLOCK FALSE
