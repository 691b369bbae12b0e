---------------------------- MODULE MCTransport ----------------------------
(* Model-checking instance of Transport: a persona spawned alone, respawned *)
(* under another id, or spawned together with a second persona.             *)
EXTENDS Transport

CONSTANTS a1, a2, a3, p1, p2

Orders ==
  {<<[id |-> a1, persona |-> p1]>>,
   <<[id |-> a2, persona |-> p1]>>,
   <<[id |-> a1, persona |-> p1], [id |-> a3, persona |-> p2]>>}
=============================================================================
