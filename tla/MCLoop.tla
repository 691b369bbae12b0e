------------------------------- MODULE MCLoop -------------------------------
(* Model-checking instance of Loop. *)
EXTENDS Loop, TLC
=============================================================================
