-------------------------- MODULE MCSharedSnapshot --------------------------
(* Instance of SharedSnapshot for TLC: documents of one piece and of two,   *)
(* so that each slot is rewritten by one of another length.                 *)
EXTENDS SharedSnapshot

CONSTANTS r1, r2

TwoReaders == {r1, r2}
Sizes == [d \in Documents |-> IF d \in {1, 4} THEN 2 ELSE 1]
=============================================================================
