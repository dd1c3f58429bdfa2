--------------------------- MODULE MCRenderWorker ---------------------------
(* Instances of RenderWorker for TLC. *)
EXTENDS RenderWorker

OneThenTwo == [j \in Jobs |-> IF j = 1 THEN 1 ELSE 2]
SecondOnly == {2}
=============================================================================
