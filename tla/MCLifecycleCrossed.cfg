SPECIFICATION Spec
CONSTANTS
  m1 = m1
  m2 = m2
  g1 = g1
  g2 = g2
  Machines = {m1, m2}
  Graphs = {g1, g2}
  GraphOf <- Own
  Unsynced = FALSE
  RestoreGone = FALSE
  RetireGone = FALSE
  MayFail = FALSE
  Overtake = FALSE
  Crossed = TRUE
  Regret = FALSE
  MaxVersions = 2
  MaxCommits = 4
  MaxCommands = 2
INVARIANT RecordDecides
CHECK_DEADLOCK FALSE
