------------------------------ MODULE RoundLog ------------------------------
(***************************************************************************)
(* What the rounds directory of a discussion promises to its readers: each *)
(* round is a log of messages that only grows, with ids 1, 2, 3, ..., until*)
(* it is closed, after which it never changes; and round r takes messages  *)
(* only once round r - 1 is closed.                                        *)
(***************************************************************************)
EXTENDS Naturals, Sequences

CONSTANTS Rounds,   \* 1..n
          Bodies    \* what a message says

VARIABLES log,      \* log[r]: the messages of round r
          closed    \* closed[r]: round r is committed

Init ==
  /\ log = [r \in Rounds |-> <<>>]
  /\ closed = [r \in Rounds |-> FALSE]

\* Round r may change: it is not closed, the one before it is.
Open(r) == ~ closed[r] /\ (r > 1 => closed[r - 1])

\* A message joins round r under the next id.
Post(r, b) ==
  /\ Open(r)
  /\ log' = [log EXCEPT ![r] = Append(@, [seq |-> Len(@) + 1, body |-> b])]
  /\ UNCHANGED closed

\* Round r is committed.
Close(r) ==
  /\ Open(r)
  /\ closed' = [closed EXCEPT ![r] = TRUE]
  /\ UNCHANGED log

Next == \E r \in Rounds : Close(r) \/ \E b \in Bodies : Post(r, b)

Spec == Init /\ [][Next]_<<log, closed>>
=============================================================================
