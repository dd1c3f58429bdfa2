------------------------------ MODULE MCCorpus ------------------------------
(* Instances of Corpus for TLC. *)
EXTENDS Corpus
=============================================================================
