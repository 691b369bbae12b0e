----------------------------- MODULE FanInProofs -----------------------------
(***************************************************************************)
(* What the fan-in promises after any history of wait batches (FanIn), for *)
(* every set of agents, every spawn order and every number of batches.     *)
(* The history itself only has to be a sequence of batches; the rest is    *)
(* what CollectProofs knows of the merge.                                  *)
(***************************************************************************)
EXTENDS FanIn, CollectProofs

\* The spawn orders are those transport-init accepts.
DistinctOrders == \A s \in SpawnOrders : Distinct(s)

FanInInv == spawn \in SpawnOrders /\ batches \in Seq(Batches)

LEMMA DeliveredAreBatches == Delivered \subseteq Batches
<1>1. \A a \in Agents : [{a} -> Entry] \subseteq Statuses
  <2>1. \A a \in Agents : {a} \in SUBSET Agents
    OBVIOUS
  <2>2. QED
    BY <2>1 DEF Statuses
<1>2. <<>> \in Statuses
  <2>1. <<>> \in [{} -> Entry]
    OBVIOUS
  <2>2. QED
    BY <2>1 DEF Statuses
<1>3. UNION {[{a} -> Entry] : a \in Agents} \subseteq Statuses
  BY <1>1
<1>4. QED
  BY <1>2, <1>3 DEF Delivered, Batches, Statuses

LEMMA InitFanInInv == Init => FanInInv
BY DEF Init, FanInInv

LEMMA StepFanInInv == FanInInv /\ [Next]_vars => FanInInv'
<1> SUFFICES ASSUME FanInInv, [Next]_vars PROVE FanInInv'
  OBVIOUS
<1>1. ASSUME NEW b \in Delivered, Deliver(b) PROVE FanInInv'
  <2>1. b \in Batches
    BY DeliveredAreBatches
  <2>2. Append(batches, b) \in Seq(Batches)
    BY <2>1, AppendIn DEF FanInInv
  <2>3. QED
    BY <1>1, <2>2 DEF Deliver, FanInInv
<1>2. CASE UNCHANGED vars
  BY <1>2 DEF vars, FanInInv
<1>3. QED
  BY <1>1, <1>2 DEF Next

LEMMA FanInAlways == FanInSpec => []FanInInv
BY InitFanInInv, StepFanInInv, PTL DEF FanInSpec

-----------------------------------------------------------------------------
(* From the merge to its properties.                                       *)

\* What MergeIs says, for the merge of the batches delivered so far.
LEMMA MergedIs ==
  ASSUME FanInInv
  PROVE  /\ spawn \in Seq(Spec)
         /\ Gather(batches) \in GatherState
         /\ Kept(batches, Len(batches), Gather(batches))
         /\ \E b \in BindState :
              /\ BoundKept(spawn, Gather(batches), Len(spawn), b)
              /\ Distinct(spawn) => CountKept(Len(spawn), b)
              /\ merged.results = b.results /\ merged.missing = b.missing
              /\ merged.errors = b.errors
              /\ merged.complete <=> b.missing = <<>> /\ b.errors = {}
<1>1. spawn \in Seq(Spec) /\ batches \in Seq(Batches)
  BY SpawnAssumption DEF FanInInv
<1>2. QED
  BY <1>1, GatherIs, MergeIs DEF merged

\* An agent reported as completed what the first pass heard it say.
LEMMA ReportedIsSaid ==
  ASSUME FanInInv, NEW a
  PROVE  Reported(a) = Said(batches, Len(batches), a)
<1>1. DOMAIN batches = 1 .. Len(batches)
  BY DEF FanInInv
<1>2. QED
  BY <1>1 DEF Reported, Said, Heard, About

LEMMA EveryoneCounted == DistinctOrders /\ FanInInv => TypeOK
<1> SUFFICES ASSUME DistinctOrders, FanInInv PROVE TypeOK
  OBVIOUS
<1>1. PICK b \in BindState :
             /\ CountKept(Len(spawn), b)
             /\ merged.results = b.results /\ merged.missing = b.missing
             /\ merged.errors = b.errors
  BY MergedIs DEF DistinctOrders, FanInInv
<1>2. Len(merged.results) + Len(merged.missing) + Cardinality(Named(merged.errors))
        = Len(spawn)
  BY <1>1 DEF CountKept
<1>3. QED
  BY <1>2 DEF TypeOK, FanInInv, Named

\* Every spawned agent is accounted for exactly once: bound to a payload, missing,
\* or named by an error, whatever the host delivered.
THEOREM CountedAlways == ASSUME DistinctOrders PROVE FanInSpec => []TypeOK
BY FanInAlways, EveryoneCounted, PTL

LEMMA NeverReused == DistinctOrders /\ FanInInv => NoPayloadReuse
BY MergedIs DEF DistinctOrders, FanInInv, BoundKept, NoPayloadReuse

\* One agent's payload never answers for two spawned agents, by their own ids, by
\* fallback or by both.
THEOREM NeverReusedAlways == ASSUME DistinctOrders PROVE FanInSpec => []NoPayloadReuse
BY FanInAlways, NeverReused, PTL

LEMMA OwnersKept == FanInInv => BoundToItsOwner
<1> SUFFICES ASSUME FanInInv, NEW i \in DOMAIN merged.results
    PROVE  LET r == merged.results[i]
           IN  \/ \E k \in DOMAIN spawn : /\ spawn[k].id = r.agent
                                          /\ spawn[k].persona = r.persona
               \/ r.agent \notin SpawnedIds /\ r.payload.who = r.persona
  BY DEF BoundToItsOwner
<1>1. PICK b \in BindState :
             /\ BoundKept(spawn, Gather(batches), Len(spawn), b)
             /\ merged.results = b.results
  BY MergedIs
<1>2. Rightful(spawn, Gather(batches).status, Len(spawn), merged.results[i], b.consumed)
  BY <1>1 DEF BoundKept
<1>3. DOMAIN spawn = 1 .. Len(spawn)
  BY MergedIs
<1>4. QED
  BY <1>2, <1>3 DEF Rightful, IdsOf, SpawnedIds

\* A payload reported under a spawned id never answers for another agent.
THEOREM OwnersKeptAlways == FanInSpec => []BoundToItsOwner
BY FanInAlways, OwnersKept, PTL

LEMMA CompleteSound == FanInInv => CompleteIsSound
<1> SUFFICES ASSUME FanInInv, merged.complete
    PROVE  /\ Len(merged.results) = Len(spawn)
           /\ \A i \in DOMAIN spawn :
                /\ merged.results[i].persona = spawn[i].persona
                /\ Reported(merged.results[i].agent) = {merged.results[i].payload}
  BY DEF CompleteIsSound
<1> DEFINE g == Gather(batches)
           N == Len(batches)
<1>1. PICK b \in BindState :
             /\ BoundKept(spawn, g, Len(spawn), b)
             /\ merged.results = b.results
             /\ b.missing = <<>> /\ b.errors = {}
  BY MergedIs
<1>2. /\ spawn \in Seq(Spec) /\ DOMAIN spawn = 1 .. Len(spawn)
      /\ g \in GatherState /\ Kept(batches, N, g)
  BY MergedIs
<1>3. Len(b.results) = Len(spawn) /\ \A i \in 1 .. Len(spawn) :
        b.results[i].persona = spawn[i].persona
  BY <1>1 DEF BoundKept, AnswersFor
<1>4. g.errors = {}
  BY <1>1 DEF BoundKept
<1>5. ASSUME NEW i \in DOMAIN spawn
      PROVE  Reported(merged.results[i].agent) = {merged.results[i].payload}
  <2> DEFINE r == merged.results[i]
             said == Said(batches, N, r.agent)
  <2>1. i \in DOMAIN b.results
    <3>1. b.results \in Seq(Results)
      BY DEF BindState
    <3>2. QED
      BY <1>2, <1>3, <3>1
  <2>2. Rightful(spawn, g.status, Len(spawn), r, b.consumed)
    BY <1>1, <2>1 DEF BoundKept
  <2>3. r.agent \in DOMAIN g.status /\ r.payload = g.status[r.agent] /\ r.payload.kind = "ok"
    BY <2>2 DEF Rightful, Completed
  <2>4. r.agent \in Agents
    BY <1>2, <2>3, StatusIs DEF GatherState
  <2>5. AgentKept(batches, N, g, r.agent)
    BY <1>2, <2>4 DEF Kept
  <2>6. r.payload \in Heard(batches, N, r.agent) /\ said \subseteq {r.payload}
    BY <1>4, <2>3, <2>5 DEF AgentKept
  <2>7. said = {r.payload}
    BY <2>3, <2>6 DEF Said
  <2>8. QED
    BY <2>7, ReportedIsSaid
<1>6. QED
  BY <1>1, <1>2, <1>3, <1>5

\* A complete fan-in has, for each spawned agent in spawn order, the only payload
\* its source ever reported.
THEOREM CompleteSoundAlways == FanInSpec => []CompleteIsSound
BY FanInAlways, CompleteSound, PTL

LEMMA AnswersAreFinal == FanInInv => AnsweredNotMissing
<1> SUFFICES ASSUME FanInInv, NEW i \in DOMAIN merged.missing
    PROVE  Reported(merged.missing[i]) = {}
  BY DEF AnsweredNotMissing
<1> DEFINE g == Gather(batches)
           N == Len(batches)
           a == merged.missing[i]
<1>1. PICK b \in BindState :
             BoundKept(spawn, g, Len(spawn), b) /\ merged.missing = b.missing
  BY MergedIs
<1>2. ~ Completed(g.status, a)
  BY <1>1 DEF BoundKept
<1>3. a \in Agents
  <2>1. b.missing \in Seq(Agents)
    BY DEF BindState
  <2>2. QED
    BY <1>1, <2>1
<1>4. AgentKept(batches, N, g, a)
  BY <1>3, MergedIs DEF Kept
<1>5. Said(batches, N, a) = {}
  BY <1>2, <1>4 DEF AgentKept, Completed, Said
<1>6. QED
  BY <1>5, ReportedIsSaid

\* An agent that ever completed is never polled for again, however late or empty
\* the reports that follow.
THEOREM AnswersAreFinalAlways == FanInSpec => []AnsweredNotMissing
BY FanInAlways, AnswersAreFinal, PTL

-----------------------------------------------------------------------------
(* The order of arrival.                                                   *)

\* A null of a spawned agent is all that the first pass may hear and forget.
LEMMA NulledIsHeard ==
  ASSUME FanInInv, SpawnedIds \cap Nulled = {}
  PROVE  \A a \in IdsOf(spawn) : \A e \in Heard(batches, Len(batches), a) : e.kind # "null"
<1>1. DOMAIN batches = 1 .. Len(batches)
  BY DEF FanInInv
<1>2. IdsOf(spawn) = SpawnedIds /\ IdsOf(spawn) \subseteq Agents
  <2>1. \A i \in DOMAIN spawn : spawn[i] \in Spec
    BY MergedIs
  <2>2. \A x \in Spec : x.id \in Agents
    BY DEF Spec
  <2>3. QED
    BY <2>1, <2>2 DEF IdsOf, SpawnedIds
<1>3. QED
  BY <1>1, <1>2 DEF Heard, About, Nulled

LEMMA OrderDoesNotMatter == FanInInv => DeliveryIrrelevant
<1> SUFFICES ASSUME FanInInv, SpawnedIds \cap Nulled = {}
    PROVE  /\ \A p \in {f \in [DOMAIN batches -> DOMAIN batches] : IsInjective(f)} :
                LET other == Merge(spawn, [i \in DOMAIN batches |-> batches[p[i]]])
                IN  /\ other.complete = merged.complete
                    /\ merged.complete => other.results = merged.results
           /\ \A i \in DOMAIN batches :
                LET other == Merge(spawn, Append(batches, batches[i]))
                IN  /\ other.complete = merged.complete
                    /\ merged.complete => other.results = merged.results
  BY DEF DeliveryIrrelevant
<1> DEFINE N == Len(batches)
<1>1. spawn \in Seq(Spec) /\ batches \in Seq(Batches)
  BY MergedIs DEF FanInInv
<1>2. N \in Nat /\ DOMAIN batches = 1 .. N
  BY <1>1
<1>3. ASSUME NEW cs \in Seq(Batches), BatchesOf(cs) = BatchesOf(batches)
      PROVE  /\ Merge(spawn, cs).complete = merged.complete
             /\ merged.complete => Merge(spawn, cs).results = merged.results
  BY <1>1, <1>3, NulledIsHeard, SameBatchesSameMerge DEF merged
<1>4. ASSUME NEW p \in [DOMAIN batches -> DOMAIN batches], IsInjective(p)
      PROVE  LET cs == [i \in DOMAIN batches |-> batches[p[i]]]
             IN  cs \in Seq(Batches) /\ BatchesOf(cs) = BatchesOf(batches)
  <2> DEFINE cs == [i \in DOMAIN batches |-> batches[p[i]]]
  <2>1. cs \in Seq(Batches)
    <3>1. \A i \in 1 .. N : batches[p[i]] \in Batches
      BY <1>1, <1>2
    <3>2. cs = [i \in 1 .. N |-> batches[p[i]]]
      BY <1>2
    <3> HIDE DEF cs, N
    <3>3. QED
      BY <1>2, <3>1, <3>2
  <2>2. p \in Injection(1 .. N, 1 .. N)
    BY <1>2, <1>4 DEF Injection
  <2>3. p \in Surjection(1 .. N, 1 .. N)
    <3>1. IsFiniteSet(1 .. N)
      BY <1>2, FS_Interval
    <3> HIDE DEF N
    <3>2. QED
      BY <2>2, <3>1, FS_Injection
  <2>4. \A j \in 1 .. N : \E i \in 1 .. N : p[i] = j
    BY <2>3 DEF Surjection
  <2>5. QED
    BY <1>2, <2>1, <2>4 DEF BatchesOf
<1>5. ASSUME NEW i \in DOMAIN batches
      PROVE  LET cs == Append(batches, batches[i])
             IN  cs \in Seq(Batches) /\ BatchesOf(cs) = BatchesOf(batches)
  <2> DEFINE cs == Append(batches, batches[i])
  <2>1. batches[i] \in Batches
    BY <1>1
  <2>2. cs \in Seq(Batches)
    BY <1>1, <2>1, AppendIn
  <2>3. /\ DOMAIN cs = 1 .. (N + 1) /\ cs[N + 1] = batches[i]
        /\ \A j \in 1 .. N : cs[j] = batches[j]
    BY <1>1
  <2>4. BatchesOf(cs) = BatchesOf(batches)
    <3> HIDE DEF cs, N
    <3>1. 1 .. (N + 1) = 1 .. N \cup {N + 1}
      BY <1>2
    <3>2. QED
      BY <1>2, <2>3, <3>1 DEF BatchesOf
  <2>5. QED
    BY <2>2, <2>4
<1>6. QED
  BY <1>3, <1>4, <1>5

\* However the batches arrive, in another order or one of them twice, the fan-in
\* is complete or not just the same, and a complete one binds the same payloads,
\* provided no spawned agent was reported as null.
THEOREM OrderDoesNotMatterAlways == FanInSpec => []DeliveryIrrelevant
BY FanInAlways, OrderDoesNotMatter, PTL
=============================================================================
