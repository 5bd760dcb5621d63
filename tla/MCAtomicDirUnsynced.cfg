\* As MCAtomicDir: the chunk's file was written in place and is carried over.
CONSTANTS
  Names = {document, chunk}
  Values = {v1, v2}
  Inodes = {i1, i2, i3, i4}
  NoInode = NoInode
  NoFile = NoFile
  Absent = Absent
  NoCall = NoCall
  Torn = Torn
  HardLinks = TRUE
  PowerLoss = TRUE
  InPlace = {chunk}
  Unrecovered = FALSE
SPECIFICATION Spec
INVARIANTS PromotedIsSynced
SYMMETRY Symmetry
CHECK_DEADLOCK TRUE
