\* The browser leaves right after turn_done.
SPECIFICATION Spec
CONSTANTS
  r1 = r1
  r2 = r2
  r3 = r3
  NoOne = NoOne
  Requests <- MCRequests
  BackendOf <- MCBackendOf
  LeaveAt = {"start", "queued", "connecting", "replay", "deliver", "stream", "end"}
  FailAt = {"record", "connect", "replay", "drop", "finish", "refresh", "delete", "agent", "server", "sweep_running"}
  CutShort = FALSE
  LateOutput = FALSE
  LongTurns = FALSE
  MaxOps = 2
  MaxFaults = 1
INVARIANT OwnEventsOnly
SYMMETRY Symmetry
CHECK_DEADLOCK FALSE
