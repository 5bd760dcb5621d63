---------------------------- MODULE MCExtraction ----------------------------
EXTENDS Extraction, TLC

CONSTANTS long, short

(* Every body gives two chunks, and one at a larger size.                  *)
TwoChunks == [b \in 1..LastBody |-> long :> 2]
TwoCuts == [b \in 1..LastBody |-> (long :> 1) @@ (short :> 2)]

AnyPoint == Points
NotInRestore == Points \ {"putback", "relist"}
=============================================================================
