\* A disconnect that the leaving browser cuts short.
SPECIFICATION Spec
CONSTANTS
  r1 = r1
  r2 = r2
  r3 = r3
  NoOne = NoOne
  Requests <- MCPair
  BackendOf <- MCBackendOf
  LeaveAt = {"start", "queued", "connecting", "replay", "deliver", "stream"}
  FailAt = {"record", "connect", "replay", "drop", "finish", "refresh", "delete", "agent", "server", "sweep_running"}
  CutShort = TRUE
  LateOutput = FALSE
  LongTurns = FALSE
  MaxOps = 1
  MaxFaults = 1
INVARIANT NoLeakedAgent
CHECK_DEADLOCK FALSE
