------------------------------- MODULE Prompt -------------------------------
(***************************************************************************)
(* What runtime/swarm/prompt.py lets a persona see of a round: prompt-build*)
(* maps the ids of the messages it is given to "full" or "gist"; an id it  *)
(* leaves out of the map is not in the prompt.                             *)
(*                                                                         *)
(* A message is its sender, type and role, and the number of characters of *)
(* its full rendering (size); its id is its place in the round's log.      *)
(***************************************************************************)
EXTENDS Integers, Sequences

CONSTANT Budget    \* visibilityBudget of the response phase, in characters

ASSUME BudgetAssumption == Budget \in Nat

PinnedSenders ==
  {"moderator", "contrarian", "cross-domain", "historian", "quality-gate"}

PinnedTypes ==
  {"moderator_opening", "stress_test", "cross_domain", "quality_gate",
   "historian_note"}

\* ArgumentationTypes, faulty: with the arguments of the step itself.
ArgumentationTypesAll == {"position_declaration", "moderator_opening", "argument"}

ArgumentationTypes == {"position_declaration", "moderator_opening"}

FixedRolePhases == {"moderator-opening", "contrarian", "cross-domain", "quality-gate"}

-----------------------------------------------------------------------------
\* IsPinned, faulty: only the messages marked as a fixed role's.
IsPinnedByRole(m) == m.role = "fixed"

\* _is_pinned_message
IsPinned(m) ==
  \/ m.role = "fixed"
  \/ m.type \in PinnedTypes
  \/ m.from \in PinnedSenders /\ m.type \notin {"argument", "response"}

\* A message the window of persona e may elide.
IsPeer(m, e) == m.from # e /\ ~ IsPinned(m)

\* Spent, faulty: the window ends at the first message that does not fit.
SpentAnyway(m, e, left) ==
  IF ~ IsPeer(m, e) THEN left ELSE IF m.size <= left THEN left - m.size ELSE 0

\* What message m leaves of the budget for the messages older than it.
Spent(m, e, left) == IF IsPeer(m, e) /\ m.size <= left THEN left - m.size ELSE left

\* The budget each message finds, newest first.
BudgetAt(msgs, e) ==
  LET n == Len(msgs)
      left[i \in 0 .. n] ==
        IF i = n THEN Budget ELSE Spent(msgs[i + 1], e, left[i + 1])
  IN  left

\* _response_visibility
ResponseVisibility(msgs, e) ==
  LET left == BudgetAt(msgs, e)
  IN  [i \in DOMAIN msgs |->
         IF IsPeer(msgs[i], e) /\ msgs[i].size > left[i] THEN "gist" ELSE "full"]

\* build_prompt: the visibility map of each phase.
Visibility(phase, msgs, e) ==
  CASE phase = "declaration" -> <<>>
    [] phase = "argumentation" ->
         [i \in {j \in DOMAIN msgs : msgs[j].type \in ArgumentationTypes} |-> "full"]
    [] phase = "response" -> ResponseVisibility(msgs, e)
    [] phase \in FixedRolePhases -> [i \in DOMAIN msgs |-> "full"]
=============================================================================
