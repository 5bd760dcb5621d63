\* Two machines that share a graph and write to it in turn; no sync fails.
CONSTANTS
  a = a  b = b  one = one  other = other  note = note
  oldName = oldName  newName = newName  alice = alice  bob = bob
  Machines = {a, b}
  Graphs = {one}
  GraphOf <- Shared
  Docs = {note}
  Folders = {oldName, newName}
  NoFolder = NoFolder
  DocOf <- Renames
  Scopes <- ByDomain
  Keys = {alice, bob}
  Asserts <- Versions
  RemoveEarly = FALSE
  HalfRenames = FALSE
  MayFail = FALSE
  InTurn = {"ingest", "sync"}
  MaxCommits = 4
SPECIFICATION Spec
INVARIANTS TypeOK BookmarkReflects
PROPERTY AdvancedIsRebuilt
CHECK_DEADLOCK TRUE
