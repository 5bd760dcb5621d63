---------------------------- MODULE MCAtomicDir ----------------------------
(* AtomicDir for TLC: inodes are interchangeable, and so are the contents  *)
(* a call may ask for.                                                     *)
EXTENDS AtomicDir, TLC

Symmetry == Permutations(Inodes) \cup Permutations(Values)
=============================================================================
