\* One request to either backend, under fairness.
SPECIFICATION FairSpec
CONSTANTS
  r1 = r1
  r2 = r2
  r3 = r3
  NoOne = NoOne
  Requests <- MCPair
  BackendOf <- MCBackendOf
  LeaveAt = {"start", "queued", "connecting", "replay", "deliver", "query", "stream", "end"}
  FailAt = {"record", "connect", "replay", "drop", "finish", "refresh", "delete", "agent", "server", "sweep_running"}
  CutShort = TRUE
  LateOutput = TRUE
  LongTurns = FALSE
  MaxOps = 2
  MaxFaults = 1
PROPERTY EveryTurnEnds
CHECK_DEADLOCK FALSE
