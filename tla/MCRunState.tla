----------------------------- MODULE MCRunState ------------------------------
(* Instances of RunState; its parameters are all numbers.                    *)
EXTENDS RunState
=============================================================================
