------------------------------- MODULE FanIn -------------------------------
(***************************************************************************)
(* Every history of wait batches a host can deliver to collect_merge for a *)
(* spawn order: batches arrive one at a time, in any order, with duplicate *)
(* and contradictory reports, late reports, and reports of other agents.   *)
(***************************************************************************)
EXTENDS Collect, FiniteSets, Functions

CONSTANTS
  SpawnOrders,  \* the spawn orders considered
  MaxBatches    \* bound: number of batches delivered

ASSUME SpawnAssumption == SpawnOrders \subseteq Seq(Spec)
ASSUME MaxBatchesAssumption == MaxBatches \in Nat

VARIABLES
  spawn,    \* the spawn order of the phase
  batches   \* the wait batches delivered so far, in order of arrival

vars == <<spawn, batches>>

\* The batches of the runs carry at most one report each: a batch of several
\* has the effect of one batch for each of them.
Delivered ==
  [kind : {"batch"}, timedOut : {FALSE},
   status : UNION {[{a} -> Entry] : a \in Agents}]
    \cup [kind : {"batch"}, timedOut : {TRUE}, status : {<<>>}]
    \cup [kind : {"notObject", "badStatus"}, timedOut : {FALSE},
          status : {<<>>}]

Init ==
  /\ spawn \in SpawnOrders
  /\ batches = <<>>

\* append-batch: one more wait result of the host is recorded.
Deliver(b) ==
  /\ Len(batches) < MaxBatches
  /\ batches' = Append(batches, b)
  /\ UNCHANGED spawn

Next == \E b \in Delivered : Deliver(b)

FanInSpec == Init /\ [][Next]_vars

-----------------------------------------------------------------------------
(* Reference notions, which do not follow the merge.                       *)

merged == Merge(spawn, batches)

\* The payloads agent a ever reported as completed.
Reported(a) ==
  {batches[i].status[a] :
     i \in {j \in DOMAIN batches : /\ batches[j].kind = "batch"
                                   /\ a \in DOMAIN batches[j].status
                                   /\ batches[j].status[a].kind = "ok"}}

\* The agents whose status entry was null in some batch.
Nulled ==
  {a \in Agents : \E i \in DOMAIN batches :
     /\ batches[i].kind = "batch"
     /\ a \in DOMAIN batches[i].status
     /\ batches[i].status[a].kind = "null"}

SpawnedIds == {spawn[i].id : i \in DOMAIN spawn}

-----------------------------------------------------------------------------
(* Properties.                                                             *)

\* Every variable has its type, and every spawned agent is accounted for exactly
\* once: by a result, as missing, or by an error that names it.
TypeOK ==
  /\ spawn \in SpawnOrders
  /\ batches \in Seq(Batches)
  /\ LET named == {e \in merged.errors :
                     e[1] \in {"ambiguous_fallback_match", "invalid_completed_payload"}}
     IN  Len(merged.results) + Len(merged.missing) + Cardinality(named) = Len(spawn)

\* One agent's payload is never bound to two spawned agents, in a spawn order
\* that transport-init accepts.
NoPayloadReuse ==
  \A i, j \in DOMAIN merged.results :
    merged.results[i].agent = merged.results[j].agent => i = j

\* A payload reported under a spawned id is bound to that agent or to none; one
\* bound across ids claims the persona it is bound to.
BoundToItsOwner ==
  \A i \in DOMAIN merged.results :
    LET r == merged.results[i]
    IN  \/ \E k \in DOMAIN spawn : /\ spawn[k].id = r.agent
                                   /\ spawn[k].persona = r.persona
        \/ r.agent \notin SpawnedIds /\ r.payload.who = r.persona

\* A complete merge has, for each spawned agent in spawn order, the only payload
\* its source ever reported.
CompleteIsSound ==
  merged.complete =>
    /\ Len(merged.results) = Len(spawn)
    /\ \A i \in DOMAIN spawn :
         /\ merged.results[i].persona = spawn[i].persona
         /\ Reported(merged.results[i].agent) = {merged.results[i].payload}

\* An agent that ever completed is not polled for again.
AnsweredNotMissing ==
  \A i \in DOMAIN merged.missing : Reported(merged.missing[i]) = {}

\* The order in which batches arrive, and a batch that arrives twice, decide
\* neither whether the fan-in is complete nor, when it is, what each agent is
\* taken to have said.  That is not so of a null: coming last it undoes what its
\* agent reported before, and a fallback may then answer for that agent.
DeliveryIrrelevant ==
  LET Same(other) == /\ other.complete = merged.complete
                     /\ merged.complete => other.results = merged.results
  IN  SpawnedIds \cap Nulled = {} =>
        /\ \A p \in {f \in [DOMAIN batches -> DOMAIN batches] : IsInjective(f)} :
             Same(Merge(spawn, [i \in DOMAIN batches |-> batches[p[i]]]))
        /\ \A i \in DOMAIN batches : Same(Merge(spawn, Append(batches, batches[i])))
=============================================================================
