------------------------------ MODULE MCStress ------------------------------
(* Model-checking instance of Stress. *)
EXTENDS Stress, TLC
=============================================================================
