---------------------------- MODULE MCQueueKeeper ----------------------------
(* One key, which this node owns in a cluster of two nodes and loses when a  *)
(* third joins.                                                              *)
EXTENDS QueueKeeper, TLC
CONSTANTS pair, trio, early, null
MCOwned == pair :> {1} @@ trio :> {}
=============================================================================
