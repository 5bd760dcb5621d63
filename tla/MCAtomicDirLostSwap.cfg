\* As MCAtomicDir, but an extraction may start on a folder whose swap was cut short.
CONSTANTS
  Names = {document, chunk}
  Values = {v1, v2}
  Inodes = {i1, i2, i3, i4}
  NoInode = NoInode
  NoFile = NoFile
  Absent = Absent
  NoCall = NoCall
  Torn = Torn
  HardLinks = TRUE
  PowerLoss = TRUE
  InPlace = {chunk}
  Unrecovered = TRUE
SPECIFICATION Spec
INVARIANTS OldBesideTargetIsSpent
SYMMETRY Symmetry
CHECK_DEADLOCK TRUE
