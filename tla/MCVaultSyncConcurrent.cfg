\* Two machines that share a graph sync at the same time.
CONSTANTS
  a = a  b = b  one = one  other = other  note = note
  oldName = oldName  newName = newName  alice = alice  bob = bob
  Machines = {a, b}
  Graphs = {one}
  GraphOf <- Shared
  Docs = {note}
  Folders = {oldName, newName}
  NoFolder = NoFolder
  DocOf <- Renames
  Scopes <- WholeVault
  Keys = {alice, bob}
  Asserts <- Versions
  RemoveEarly = FALSE
  HalfRenames = FALSE
  MayFail = FALSE
  InTurn = {"ingest"}
  MaxCommits = 3
SPECIFICATION Spec
INVARIANT BookmarkReflects
CHECK_DEADLOCK TRUE
