------------------------------ MODULE Collect ------------------------------
(***************************************************************************)
(* The fan-in merge of runtime/swarm/collect.py: collect_merge takes the   *)
(* spawn order of a phase and the wait batches in the order they arrived,  *)
(* and binds one completed payload to every spawned agent.                 *)
(*                                                                         *)
(* A status entry is abstracted to what the merge tells apart.  Which of   *)
(* the payload's name, persona and token fields match a spawned agent is   *)
(* abstracted to the one persona the payload claims (who).                 *)
(***************************************************************************)
EXTENDS Integers, Sequences

CONSTANTS
  Agents,     \* keys of a status object: ids of spawned and of other agents
  Personas,   \* personas of spawned agents
  NoPersona,  \* a payload that claims no persona
  Values      \* what a payload says otherwise

ASSUME NoPersonaAssumption == NoPersona \notin Personas

\* A status entry: JSON null, an object without "completed", one whose
\* "completed" is not a JSON object (or no object at all), or a payload.
Entry ==
  [kind : {"null", "incomplete", "bad"}, who : {NoPersona}, val : {"none"}]
    \cup [kind : {"ok"}, who : Personas \cup {NoPersona}, val : Values]

Unparsed(kind) == [kind |-> kind, who |-> NoPersona, val |-> "none"]

\* A wait batch: not an object, an object whose status is not one, or a batch.
Batches ==
  [kind : {"notObject", "badStatus", "batch"}, timedOut : BOOLEAN,
   status : UNION {[D -> Entry] : D \in SUBSET Agents}]

\* A spawned agent.
Spec == [id : Agents, persona : Personas]

-----------------------------------------------------------------------------
(* Faulty forms, one plausible bug each; none is part of the model.        *)

\* NextEntry: the last report wins, even over a completed one.
LastReportWins(prev, e) == e

\* Conflicting: two payloads conflict when they claim different personas.
OtherPersona(prev, e) ==
  prev.kind = "ok" /\ e.kind = "ok" /\ prev.who # e.who

\* OwnedIds: nobody's report is reserved, a fallback may take any.
NothingReserved(spawn, status) == {}

\* BindOwn: an unparseable payload is passed over without an error.
BadIsSkipped(acc, spec, status) ==
  CASE status[spec.id].kind = "ok" ->
         [acc EXCEPT !.results = Append(@, [persona |-> spec.persona, agent |-> spec.id,
                                            payload |-> status[spec.id]])]
    [] status[spec.id].kind = "incomplete" ->
         [acc EXCEPT !.missing = Append(@, spec.id)]
    [] OTHER -> acc

\* Consume: a report bound by fallback stays available.
NeverConsumed(consumed, a) == consumed

-----------------------------------------------------------------------------
(* First pass: the last word of every agent, over all batches.             *)

\* What is kept of an agent when e arrives after prev.
NextEntry(prev, e) ==
  IF prev.kind = "ok" /\ e.kind # "ok" THEN prev ELSE e

\* Two different completed payloads of one agent.
Conflicting(prev, e) == prev.kind = "ok" /\ e.kind = "ok" /\ prev # e

\* One batch is folded into what was gathered before it.
Absorb(acc, batch) ==
  CASE batch.kind = "notObject" ->
         [acc EXCEPT !.errors = @ \cup {<<"invalid_wait_result">>}]
    [] batch.kind = "badStatus" ->
         [acc EXCEPT !.timedOut = @ \/ batch.timedOut,
                     !.errors = @ \cup {<<"invalid_status">>}]
    [] batch.kind = "batch" ->
         LET old == acc.status
             new == batch.status
             both == DOMAIN old \cap DOMAIN new
         IN  [status |-> [a \in DOMAIN old \cup DOMAIN new |->
                            IF a \in both THEN NextEntry(old[a], new[a])
                            ELSE IF a \in DOMAIN new THEN new[a] ELSE old[a]],
              timedOut |-> acc.timedOut \/ batch.timedOut,
              errors |-> acc.errors \cup
                {<<"conflicting_completed_payload", a>> :
                   a \in {x \in both : Conflicting(old[x], new[x])}}]

\* Before the first batch.
Nothing ==
  [status |-> [a \in {} |-> Unparsed("null")], timedOut |-> FALSE, errors |-> {}]

\* What was gathered after each batch.
Gathered(batches) ==
  LET g[n \in 0 .. Len(batches)] ==
        IF n = 0 THEN Nothing ELSE Absorb(g[n - 1], batches[n])
  IN  g

Gather(batches) == Gathered(batches)[Len(batches)]

-----------------------------------------------------------------------------
(* Second pass: a report for every spawned agent, in spawn order.          *)

\* The reports no fallback may take: those made under a spawned id.
OwnedIds(spawn, status) ==
  {spawn[i].id : i \in DOMAIN spawn} \cap DOMAIN status

Consume(consumed, a) == consumed \cup {a}

\* The reports that claim the persona of an agent that made none itself.
Matches(status, consumed, persona) ==
  {a \in DOMAIN status \ consumed :
     status[a].kind = "ok" /\ status[a].who = persona}

Result(spec, a, status) ==
  [persona |-> spec.persona, agent |-> a, payload |-> status[a]]

\* The agent spec itself has an entry that is not null.
BindOwn(acc, spec, status) ==
  LET e == status[spec.id]
  IN  CASE e.kind = "ok" ->
             [acc EXCEPT !.results = Append(@, Result(spec, spec.id, status))]
        [] e.kind = "incomplete" ->
             [acc EXCEPT !.missing = Append(@, spec.id)]
        [] e.kind = "bad" ->
             [acc EXCEPT !.errors =
                @ \cup {<<"invalid_completed_payload", spec.id>>}]

\* It has none: look for an unclaimed report under another id.
BindFallback(acc, spec, status) ==
  LET found == Matches(status, acc.consumed, spec.persona)
      match == CHOOSE a \in found : TRUE
  IN  IF found = {}
      THEN [acc EXCEPT !.missing = Append(@, spec.id)]
      ELSE IF \E a, b \in found : a # b
      THEN [acc EXCEPT !.errors =
              @ \cup {<<"ambiguous_fallback_match", spec.id>>}]
      ELSE [acc EXCEPT !.consumed = Consume(@, match),
                       !.results = Append(@, Result(spec, match, status))]

Bind(acc, spec, status) ==
  IF spec.id \in DOMAIN status /\ status[spec.id].kind # "null"
  THEN BindOwn(acc, spec, status)
  ELSE BindFallback(acc, spec, status)

\* What was bound after each spawned agent.
Bound(spawn, gathered) ==
  LET b[n \in 0 .. Len(spawn)] ==
        IF n = 0
        THEN [consumed |-> OwnedIds(spawn, gathered.status),
              results |-> <<>>, missing |-> <<>>, errors |-> gathered.errors]
        ELSE Bind(b[n - 1], spawn[n], gathered.status)
  IN  b

\* collect_merge
Merge(spawn, batches) ==
  LET gathered == Gather(batches)
      bound == Bound(spawn, gathered)[Len(spawn)]
      complete == bound.missing = <<>> /\ bound.errors = {}
  IN  [ok |-> complete /\ ~ gathered.timedOut,
       complete |-> complete,
       timedOut |-> gathered.timedOut,
       missing |-> bound.missing,
       results |-> bound.results,
       errors |-> bound.errors]
=============================================================================
