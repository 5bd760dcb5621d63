\* A turn that outlasts the idle timeout.
SPECIFICATION FairSpec
CONSTANTS
  r1 = r1
  r2 = r2
  r3 = r3
  NoOne = NoOne
  Requests <- MCPair
  BackendOf <- MCBackendOf
  LeaveAt = {"start", "queued", "connecting", "replay", "deliver", "stream"}
  FailAt = {"record", "connect", "replay", "drop", "finish", "refresh", "delete", "agent", "server", "sweep_running"}
  CutShort = FALSE
  LateOutput = FALSE
  LongTurns = TRUE
  MaxOps = 2
  MaxFaults = 1
PROPERTY EveryTurnEnds
CHECK_DEADLOCK FALSE
