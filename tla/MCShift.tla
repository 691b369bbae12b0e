------------------------------ MODULE MCShift ------------------------------
(* Model-checking instance of Shift: two experts, what they may cite. *)
EXTENDS Shift

\* The ids of the round: 1, 2 declarations, 3 framing, 4, 5 arguments, 6 stress
\* test, then responses.
MCCast == <<"e1", "e2">>
MCClaims == {{}, {2}, {1, 4}, {99}}
=============================================================================
