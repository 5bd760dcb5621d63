\* Two turns on the SDK, with background tasks.
SPECIFICATION Spec
CONSTANTS
  r1 = r1
  r2 = r2
  r3 = r3
  NoOne = NoOne
  Requests <- MCTwins
  BackendOf <- MCAllSdk
  LeaveAt = {"start", "queued", "connecting", "replay", "deliver", "stream"}
  FailAt = {"record", "connect", "replay", "drop", "finish", "refresh", "delete", "agent", "server", "sweep_running"}
  CutShort = FALSE
  LateOutput = TRUE
  LongTurns = FALSE
  MaxOps = 2
  MaxFaults = 1
INVARIANT OwnEventsOnly
SYMMETRY Symmetry
CHECK_DEADLOCK FALSE
