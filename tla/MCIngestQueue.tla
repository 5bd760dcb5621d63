--------------------------- MODULE MCIngestQueue ---------------------------
(* IngestQueue for TLC: three documents of two domains, and the batches    *)
(* the runs submit.                                                        *)
EXTENDS IngestQueue, TLC

CONSTANTS w1, w2, c1, c2, f1, f2, f3, d1, d2, i1, i2

OneBatch == [j \in Jobs |-> {f1, f2}]
TwoBatches == [j \in Jobs |-> IF j = 1 THEN {f1, f2} ELSE {f2, f3}]
Singles == [j \in Jobs |-> {f2}]
Domain1 == [f \in Files |-> d1]
Domain2 == [f \in Files |-> IF f = f2 THEN d2 ELSE d1]

Symmetry == Permutations(Workers) \cup Permutations(Inodes)
=============================================================================
