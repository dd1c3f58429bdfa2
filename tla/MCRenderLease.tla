---------------------------- MODULE MCRenderLease ----------------------------
(* Instances of RenderLease for TLC. *)
EXTENDS RenderLease, TLC

CONSTANTS w1, w2, k

TwoWorkers == {w1, w2}
OneKey == {k}
SlotZero == {0}
StartAtZero == [x \in Keys |-> 0]
OneMinute == {0}
WorkerSymmetry == Permutations(Workers)
==============================================================================
