\* Two machines with a graph each: what one ingests the other replays; failures anywhere.
CONSTANTS
  a = a  b = b  one = one  other = other  note = note
  oldName = oldName  newName = newName  alice = alice  bob = bob
  Machines = {a, b}
  Graphs = {one, other}
  GraphOf <- Apart
  Docs = {note}
  Folders = {oldName, newName}
  NoFolder = NoFolder
  DocOf <- Renames
  Scopes <- WholeVault
  Keys = {alice, bob}
  Asserts <- Versions
  RemoveEarly = FALSE
  HalfRenames = FALSE
  MayFail = TRUE
  InTurn = {"ingest", "sync"}
  MaxCommits = 4
SPECIFICATION Spec
INVARIANT BookmarkReflects
PROPERTY NoGhosts
CHECK_DEADLOCK TRUE
