\* A document is removed before the graph's bookmark has it.
CONSTANTS
  a = a  b = b  one = one  other = other  note = note
  oldName = oldName  newName = newName  alice = alice  bob = bob
  Machines = {a}
  Graphs = {one}
  GraphOf <- Alone
  Docs = {note}
  Folders = {oldName, newName}
  NoFolder = NoFolder
  DocOf <- Renames
  Scopes <- WholeVault
  Keys = {alice, bob}
  Asserts <- Versions
  RemoveEarly = TRUE
  HalfRenames = FALSE
  MayFail = FALSE
  InTurn = {"ingest", "sync"}
  MaxCommits = 3
SPECIFICATION Spec
INVARIANT BookmarkReflects
CHECK_DEADLOCK TRUE
