\* Every place a browser may leave but the two that lose the end of a turn,
\* every failure, one operation of another tab; a disconnect takes the agent's
\* process down and an SDK agent answers without background tasks.
SPECIFICATION Spec
CONSTANTS
  r1 = r1
  r2 = r2
  r3 = r3
  NoOne = NoOne
  Requests <- MCRequests
  BackendOf <- MCBackendOf
  LeaveAt = {"start", "queued", "connecting", "replay", "deliver", "stream"}
  FailAt = {"record", "connect", "replay", "drop", "finish", "refresh", "delete", "agent", "server", "sweep_running"}
  CutShort = FALSE
  LateOutput = FALSE
  LongTurns = FALSE
  MaxOps = 1
  MaxFaults = 1
INVARIANT TypeOK OwnEventsOnly AgentKnowsHistory NoLeakedAgent RunningRowHasTurn DeletedIsForgotten
PROPERTY NotCutOff
SYMMETRY Symmetry
CHECK_DEADLOCK FALSE
