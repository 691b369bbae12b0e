------------------------------ MODULE MCFanIn ------------------------------
(* Model-checking instance of FanIn: one or two spawned agents, and stray ones. *)
EXTENDS FanIn

CONSTANTS a1, a2, a3, p1, p2

\* Distinct ids, with different personas or the same one, as transport-init
\* accepts.
ValidOrders ==
  {<<[id |-> a1, persona |-> p1]>>,
   <<[id |-> a1, persona |-> p1], [id |-> a2, persona |-> p2]>>,
   <<[id |-> a1, persona |-> p1], [id |-> a2, persona |-> p1]>>}

=============================================================================
