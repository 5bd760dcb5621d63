\* A staged file and the file of a chunk, two contents each (a call may write
\* both). Four inodes: at most two folders of two files are on disk at once
\* with nothing shared.
CONSTANTS
  Names = {document, chunk}
  Values = {v1, v2}
  Inodes = {i1, i2, i3, i4}
  NoInode = NoInode
  NoFile = NoFile
  Absent = Absent
  NoCall = NoCall
  Torn = Torn
  HardLinks = TRUE
  PowerLoss = TRUE
  InPlace = {chunk}
  Unrecovered = FALSE
SPECIFICATION Spec
INVARIANTS StagedIsSynced IInv
PROPERTIES AtomicReplace ReaderNeverDisturbed
SYMMETRY Symmetry
CHECK_DEADLOCK TRUE
