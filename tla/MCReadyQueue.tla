---------------------------- MODULE MCReadyQueue ----------------------------
(* Instances of ReadyQueue for TLC. *)
EXTENDS ReadyQueue

CONSTANTS w1, w2

TwoWorkers == {w1, w2}
=============================================================================
