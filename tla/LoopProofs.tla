----------------------------- MODULE LoopProofs -----------------------------
(***************************************************************************)
(* What holds of the judgement of a discussion (Loop) for every set of     *)
(* phases and every bound.  The audit files speak of the discussion they   *)
(* were built from for as long as nothing else is written (AuditFresh), a  *)
(* projected agent has left its projection manifest behind                 *)
(* (ProjectedIsKnown), and a collect result is of a phase that has all its *)
(* files, and is what the batches merge to until another batch says        *)
(* otherwise (ResultsAreMerges); with the types, that is all certification *)
(* rests on.                                                               *)
(***************************************************************************)
EXTENDS Loop, FiniteSetTheorems, TLAPS

\* An audit file that counts as built says what the discussion still is.
AuditFresh ==
  /\ "trace" \in built => trace = Stable
  /\ "evidence" \in built => evidence = Stable

\* Projected agents are spawned with a projection manifest.
ProjectedIsKnown == \A p \in Projected : stage[p] # "absent" => cleanup # "absent"

\* A result was collected from batches, and a current one is what they merge to.
ResultsAreMerges ==
  /\ \A p \in WithResult : stage[p] = "ready"
  /\ \A p \in current : result[p] = heard[p]

LoopInv == TypeOK /\ AuditFresh /\ ProjectedIsKnown /\ ResultsAreMerges

-----------------------------------------------------------------------------
LEMMA InitLoopInv == Init => LoopInv
<1> SUFFICES ASSUME Init PROVE LoopInv
  OBVIOUS
<1>1. TypeOK
  BY BoundsAssumption DEF Init, TypeOK, Stages, Merges, WithResult
<1>2. AuditFresh
  BY DEF Init, AuditFresh
<1>3. ProjectedIsKnown
  BY ProjectionAssumption DEF Init, ProjectedIsKnown
<1>4. ResultsAreMerges
  BY DEF Init, ResultsAreMerges, WithResult
<1>5. QED
  BY <1>1, <1>2, <1>3, <1>4 DEF LoopInv

LEMMA StepTypeOK == TypeOK /\ [Next]_vars => TypeOK'
<1> SUFFICES ASSUME TypeOK, [Next]_vars PROVE TypeOK'
  OBVIOUS
<1> USE BoundsAssumption
    DEF TypeOK, NotAudited, Stages, Merges, WithResult, discussion, transport, log
<1>1. CASE BuildPrompt
  BY <1>1 DEF BuildPrompt
<1>2. ASSUME NEW p \in Phases, NEW s \in Stages, Spawn(p, s) PROVE TypeOK'
  BY <1>2 DEF Spawn
<1>3. ASSUME NEW p \in Phases, NEW h \in Merges, NEW same \in BOOLEAN,
             AppendBatch(p, h, same)
      PROVE  TypeOK'
  <2>1. batches' \in Nat /\ mishaps' \in 0 .. MaxMishaps
    BY <1>3 DEF AppendBatch
  <2>2. current' \subseteq WithResult'
    BY <1>3 DEF AppendBatch
  <2>3. stage' \in [Phases -> Stages] /\ heard' \in [Phases -> Merges]
    BY <1>3 DEF AppendBatch
  <2>4. QED
    BY <1>3, <2>1, <2>2, <2>3 DEF AppendBatch
<1>4. ASSUME NEW p \in Phases, Collect(p) PROVE TypeOK'
  <2>1. result' \in [Phases -> Merges \cup {"none"}]
    BY <1>4 DEF Collect
  <2>2. current' \subseteq WithResult'
    BY <1>4 DEF Collect
  <2>3. QED
    BY <1>4, <2>1, <2>2 DEF Collect
<1>5. ASSUME NEW r \in Rounds, OpenRound(r) PROVE TypeOK'
  BY <1>5 DEF OpenRound
<1>6. ASSUME NEW r \in Rounds, NEW killed \in BOOLEAN, FinalizeRound(r, killed)
      PROVE  TypeOK'
  BY <1>6 DEF FinalizeRound
<1>7. ASSUME NEW size \in Sizes, Synthesize(size) PROVE TypeOK'
  BY <1>7 DEF Synthesize
<1>8. CASE Complete
  BY <1>8 DEF Complete
<1>9. ASSUME NEW s \in {"partial", "clean"}, CleanUp(s) PROVE TypeOK'
  BY <1>9 DEF CleanUp
<1>10. ASSUME NEW granted \in BOOLEAN, UseTool(granted) PROVE TypeOK'
  BY <1>10 DEF UseTool, CapabilityFiles
<1>11. CASE LoseArtifact
  BY <1>11 DEF LoseArtifact
<1>12. CASE BuildTrace
  BY <1>12 DEF BuildTrace
<1>13. CASE BuildEvidence
  BY <1>13 DEF BuildEvidence
<1>14. CASE UNCHANGED vars
  BY <1>14 DEF vars, audit
<1>15. QED
  BY <1>1, <1>2, <1>3, <1>4, <1>5, <1>6, <1>7, <1>8, <1>9, <1>10, <1>11, <1>12, <1>13,
     <1>14
  DEF Next

\* Stable reads the discussion and the cleanup, and nothing else.
LEMMA StableIsOfTheWork ==
  UNCHANGED <<discussion, cleanup>> => Stable' = Stable
BY DEF discussion, transport, log, Stable, Health, NextAction, ByteTotal, Total,
       TraceValid, ResumeSource, CapabilitiesOk, RecordAccepted, Hosted, WithResult

LEMMA StepAuditFresh == AuditFresh /\ [Next]_vars => AuditFresh'
<1> SUFFICES ASSUME AuditFresh, [Next]_vars PROVE AuditFresh'
  OBVIOUS
<1>1. CASE NotAudited
  BY <1>1 DEF NotAudited, AuditFresh
<1>2. CASE BuildTrace
  <2>1. Stable' = Stable
    BY <1>2, StableIsOfTheWork DEF BuildTrace
  <2>2. QED
    BY <1>2, <2>1 DEF BuildTrace, AuditFresh
<1>3. CASE BuildEvidence
  <2>1. Stable' = Stable
    BY <1>3, StableIsOfTheWork DEF BuildEvidence
  <2>2. QED
    BY <1>3, <2>1 DEF BuildEvidence, AuditFresh
<1>4. CASE UNCHANGED vars
  <2>1. Stable' = Stable
    BY <1>4, StableIsOfTheWork DEF vars
  <2>2. QED
    BY <1>4, <2>1 DEF vars, audit, AuditFresh
<1>5. QED
  BY <1>1, <1>2, <1>3, <1>4
  DEF Next, BuildPrompt, Spawn, AppendBatch, Collect, OpenRound, FinalizeRound,
      Synthesize, Complete, CleanUp, UseTool, LoseArtifact

LEMMA StepProjectedIsKnown ==
  TypeOK /\ ProjectedIsKnown /\ [Next]_vars => ProjectedIsKnown'
<1> SUFFICES ASSUME TypeOK, ProjectedIsKnown, [Next]_vars PROVE ProjectedIsKnown'
  OBVIOUS
<1> USE ProjectionAssumption DEF TypeOK, ProjectedIsKnown
<1>1. ASSUME NEW p \in Phases, NEW s \in Stages, Spawn(p, s) PROVE ProjectedIsKnown'
  BY <1>1 DEF Spawn
<1>2. ASSUME NEW p \in Phases, NEW h \in Merges, NEW same \in BOOLEAN,
             AppendBatch(p, h, same)
      PROVE  ProjectedIsKnown'
  BY <1>2 DEF AppendBatch, Hosted
<1>3. ASSUME NEW s \in {"partial", "clean"}, CleanUp(s) PROVE ProjectedIsKnown'
  BY <1>3 DEF CleanUp, discussion, transport
<1>4. CASE UNCHANGED <<stage, cleanup>>
  BY <1>4
<1>5. QED
  BY <1>1, <1>2, <1>3, <1>4
  DEF Next, BuildPrompt, Collect, OpenRound, FinalizeRound, Synthesize, Complete,
      UseTool, LoseArtifact, BuildTrace, BuildEvidence, vars, discussion, transport

LEMMA StepResultsAreMerges ==
  TypeOK /\ ResultsAreMerges /\ [Next]_vars => ResultsAreMerges'
<1> SUFFICES ASSUME TypeOK, ResultsAreMerges, [Next]_vars PROVE ResultsAreMerges'
  OBVIOUS
<1> USE DEF TypeOK, ResultsAreMerges, WithResult
<1>1. ASSUME NEW p \in Phases, NEW s \in Stages, Spawn(p, s) PROVE ResultsAreMerges'
  BY <1>1 DEF Spawn
<1>2. ASSUME NEW p \in Phases, NEW h \in Merges, NEW same \in BOOLEAN,
             AppendBatch(p, h, same)
      PROVE  ResultsAreMerges'
  <2>1. \A q \in WithResult' : stage'[q] = "ready"
    BY <1>2 DEF AppendBatch
  <2>2. \A q \in current' : result'[q] = heard'[q]
    BY <1>2 DEF AppendBatch
  <2>3. QED
    BY <2>1, <2>2
<1>3. ASSUME NEW p \in Phases, Collect(p) PROVE ResultsAreMerges'
  BY <1>3 DEF Collect
<1>4. CASE UNCHANGED <<stage, heard, result, current>>
  BY <1>4
<1>5. QED
  BY <1>1, <1>2, <1>3, <1>4
  DEF Next, BuildPrompt, OpenRound, FinalizeRound, Synthesize, Complete, CleanUp,
      UseTool, LoseArtifact, BuildTrace, BuildEvidence, vars, discussion, transport

LEMMA StepLoopInv == LoopInv /\ [Next]_vars => LoopInv'
BY StepTypeOK, StepAuditFresh, StepProjectedIsKnown, StepResultsAreMerges DEF LoopInv

\* Whatever the coordinator, the parent, a kill and a lost artifact do, the files
\* of a discussion stay what the validators expect; an event speaks of a committed
\* round.
THEOREM LoopTyped == Spec => []TypeOK
<1>1. LoopInv => TypeOK
  BY DEF LoopInv
<1>2. QED
  BY InitLoopInv, StepLoopInv, <1>1, PTL DEF Spec

-----------------------------------------------------------------------------
\* An on-track discussion that is not to be continued is valid, completed and
\* has no tool evidence that fails.
LEMMA OnTrackIsDone ==
  ASSUME Health = "on-track", NextAction = "none"
  PROVE  TraceValid /\ CapabilitiesOk /\ status = "completed"
BY DEF Health, NextAction

LEMMA CertifiedMeansFinished == TypeOK => CertifiedIsFinished
<1> SUFFICES ASSUME TypeOK, NEW require \in BOOLEAN, Certified(require)
    PROVE  /\ \A p \in Hosted : heard[p] = "ok" /\ result[p] = "ok"
           /\ partial = {} /\ final # {}
           /\ "record" \in tools => {"profile", "artifact"} \subseteq tools
           /\ require => cleanup = "clean"
  BY DEF CertifiedIsFinished
<1> USE DEF Certified, LoopAccepts
<1>1. TraceValid /\ CapabilitiesOk /\ status = "completed"
  BY OnTrackIsDone
<1>2. partial = {} /\ final # {}
  BY <1>1 DEF DirectoryValid
<1>3. require => cleanup = "clean"
  BY DEF ProjectionAccepts
<1>4. \A p \in Hosted : heard[p] = "ok" /\ result[p] = "ok"
  BY DEF SmokeReplays, TransportComplete
<1>5. QED
  BY <1>1, <1>2, <1>3, <1>4 DEF CapabilitiesOk, RecordAccepted

\* What certify-adapter accepts has nothing left to do: its four checks, each of
\* which looks at a part, leave no gap between them.
THEOREM CertifiedIsFinishedAlways == Spec => []CertifiedIsFinished
BY LoopTyped, CertifiedMeansFinished, PTL

LEMMA AuditedIsCertified == LoopInv => AuditedLastIsCertified
<1> SUFFICES ASSUME LoopInv, NEW require \in BOOLEAN, Finished(require),
                    built = {"trace", "evidence"}
    PROVE  Certified(require)
  BY DEF AuditedLastIsCertified
<1> USE DEF LoopInv, Finished
<1>1. trace = Stable /\ evidence = Stable
  BY DEF AuditFresh
<1>2. final # {}
  BY DEF TypeOK
<1>3. ResumeSource = "final"
  BY <1>2 DEF ResumeSource
<1>4. \A p \in Hosted : p \in WithResult /\ result[p] = "ok"
  BY DEF ResultsAreMerges, WithResult, TypeOK
<1> /\ WithResult \subseteq Hosted
    /\ WithResult # {}
  BY <1>4 DEF ResultsAreMerges, WithResult, Hosted
<1>5. TraceValid /\ DirectoryValid
  BY <1>2 DEF TraceValid, DirectoryValid
<1>6. NextAction = "none"
  BY <1>3, <1>4, <1>5 DEF NextAction
<1>7. Health = "on-track"
  BY <1>5, <1>6 DEF Health
<1>8. ProjectionAccepts(require)
  BY <1>4 DEF ProjectionAccepts, ProjectedIsKnown, ProjectedPhases, Hosted
<1>9. TransportComplete /\ SmokeReplays
  BY <1>4 DEF TransportComplete, SmokeReplays
<1>10. QED
  BY <1>1, <1>5, <1>6, <1>7, <1>8, <1>9 DEF Certified, LoopAccepts

\* A trace and an evidence built last are enough to certify a finished discussion:
\* no order of the audits and no stale file stands in the way.
THEOREM AuditedLastIsCertifiedAlways == Spec => []AuditedLastIsCertified
BY InitLoopInv, StepLoopInv, AuditedIsCertified, PTL DEF Spec

-----------------------------------------------------------------------------
\* The phases transport-init has begun with.
Begun == {p \in Phases : stage[p] # "absent"}

\* The sizes of the files are numbers.
LEMMA SizesAreNumbers ==
  ASSUME TypeOK
  PROVE  /\ Cardinality(Begun) \in Nat /\ IsFiniteSet(Begun)
         /\ Cardinality(Hosted) \in Nat
         /\ Cardinality(WithResult) \in Nat
         /\ Cardinality({p \in Phases : result[p] = "ok"}) \in Nat
         /\ Cardinality(partial) \in Nat
         /\ Cardinality(final) \in Nat
         /\ Cardinality(logged) \in Nat
         /\ Cardinality(tools) \in Nat
<1>1. IsFiniteSet(Rounds) /\ IsFiniteSet(CapabilityFiles)
  <2>1. IsFiniteSet(1 .. MaxRound)
    BY FS_Interval, BoundsAssumption
  <2>2. IsFiniteSet({}) /\ IsFiniteSet({"profile"})
    BY FS_EmptySet, FS_Singleton
  <2>3. IsFiniteSet({"profile"} \cup {"artifact"} \cup {"record"})
    BY FS_Singleton, FS_Union
  <2>4. {"profile"} \cup {"artifact"} \cup {"record"} = CapabilityFiles
    BY DEF CapabilityFiles
  <2>5. QED
    BY <2>1, <2>3, <2>4 DEF Rounds
<1>2. /\ IsFiniteSet(Begun) /\ IsFiniteSet(Hosted) /\ IsFiniteSet(WithResult)
      /\ IsFiniteSet({p \in Phases : result[p] = "ok"})
  BY PhasesAssumption, FS_Subset DEF Begun, Hosted, WithResult
<1>3. /\ IsFiniteSet(partial) /\ IsFiniteSet(final) /\ IsFiniteSet(logged)
      /\ IsFiniteSet(tools)
  <2>1. logged \subseteq Rounds
    BY DEF TypeOK
  <2>2. QED
    BY <1>1, <2>1, FS_Subset DEF TypeOK
<1>4. QED
  BY <1>2, <1>3, FS_CardinalityType

\* The files that one step adds one of, or makes longer.
Grown == Cardinality(Begun) + batches + prompts + synthesis

\* If the rest stays, the audit files do not speak of the discussion any more.
LEMMA GrowthIsCounted ==
  ASSUME TypeOK, TypeOK', Hosted' = Hosted,
         UNCHANGED <<result, partial, final, logged, tools, status>>,
         Grown' # Grown
  PROVE  Stable' # Stable
<1> DEFINE begun == Cardinality(Begun)
           host == Cardinality(Hosted)
           with == Cardinality(WithResult)
           good == Cardinality({p \in Phases : result[p] = "ok"})
           open == Cardinality(partial)
           closed == Cardinality(final)
           events == Cardinality(logged)
           caps == Cardinality(tools)
           mark == IF status = "completed" THEN 1 ELSE 0
<1>1. /\ begun \in Nat /\ host \in Nat /\ with \in Nat /\ good \in Nat
      /\ open \in Nat /\ closed \in Nat /\ events \in Nat /\ caps \in Nat
      /\ mark \in Nat /\ begun' \in Nat
  <2>1. begun' \in Nat
    <3>1. IsFiniteSet(Begun')
      BY PhasesAssumption, FS_Subset DEF Begun
    <3>2. QED
      BY <3>1, FS_CardinalityType
  <2>2. QED
    BY <2>1, SizesAreNumbers
<1>2. /\ batches \in Nat /\ prompts \in Nat /\ synthesis \in Nat
      /\ batches' \in Nat /\ prompts' \in Nat /\ synthesis' \in Nat
  BY BoundsAssumption DEF TypeOK, Sizes
<1>3. Total = begun + host + batches + with + good + prompts + open + closed
              + events + caps + synthesis + mark
  BY DEF Total, Begun
<1>4. Total' = begun' + host + batches' + with + good + prompts' + open + closed
               + events + caps + synthesis' + mark
  <2>1. WithResult' = WithResult
    BY DEF WithResult
  <2>2. QED
    BY <2>1 DEF Total, Begun
<1>5. begun' + batches' + prompts' + synthesis' # begun + batches + prompts + synthesis
  BY DEF Grown
<1>6. Total' # Total
  <2> DEFINE sum == batches + prompts + synthesis
             rest == host + with + good + open + closed + events + caps + mark
             grown == begun'
             later == batches' + prompts' + synthesis'
  <2>1. sum \in Nat /\ later \in Nat /\ rest \in Nat /\ begun \in Nat /\ grown \in Nat
    <3>1. sum \in Nat /\ later \in Nat
      <4>1. \A x, y, z \in Nat : x + y + z \in Nat
        OBVIOUS
      <4>2. QED
        BY <1>2, <4>1, Zenon
    <3>2. grown \in Nat
      BY <1>1
    <3> HIDE DEF begun, host, with, good, open, closed, events, caps, mark, sum, grown,
                 later
    <3>3. rest \in Nat
      BY <1>1
    <3>4. QED
      BY <1>1, <3>1, <3>2, <3>3
  <2>2. Total = begun + sum + rest
    <3> HIDE DEF begun, host, with, good, open, closed, events, caps, mark
    <3>1. QED
      BY <1>1, <1>2, <1>3
  <2>3. Total' = grown + later + rest
    <3>1. Total' = grown + host + batches' + with + good + prompts' + open + closed
                   + events + caps + synthesis' + mark
      BY <1>4
    <3>2. grown \in Nat
      BY <1>1
    <3> HIDE DEF grown, host, with, good, open, closed, events, caps, mark
    <3>3. QED
      BY <1>1, <1>2, <3>1, <3>2
  <2>4. grown + later # begun + sum
    <3>1. grown + batches' + prompts' + synthesis' # begun + batches + prompts + synthesis
      BY <1>5
    <3>2. \A w, x, y, z \in Nat : w + x + y + z = w + (x + y + z)
      OBVIOUS
    <3>3. /\ grown + batches' + prompts' + synthesis' = grown + later
          /\ begun + batches + prompts + synthesis = begun + sum
      <4>1. grown + batches' + prompts' + synthesis' = grown + later
        <5> HIDE DEF grown
        <5>1. QED
          BY <1>2, <2>1, <3>2
      <4>2. begun + batches + prompts + synthesis = begun + sum
        <5> HIDE DEF begun
        <5>1. QED
          BY <1>2, <2>1, <3>2
      <4>3. QED
        BY <4>1, <4>2
    <3>4. QED
      BY <3>1, <3>3, Zenon
  <2>5. \A x, y, m, n, k \in Nat : x + m # y + n => x + m + k # y + n + k
    OBVIOUS
  <2> HIDE DEF begun, grown, sum, rest
  <2>6. QED
    BY <2>1, <2>2, <2>3, <2>4, <2>5
<1>7. Stable.bytes = Total /\ Stable'.bytes = Total'
  BY DEF Stable, ByteTotal
<1>8. QED
  BY <1>6, <1>7

LEMMA WorkRevokes ==
  ASSUME LoopInv, [Next]_vars, NEW require \in BOOLEAN, Certified(require),
         <<discussion, cleanup>>' # <<discussion, cleanup>>
  PROVE  ~ Certified(require)'
<1> USE DEF LoopInv
<1>1. TraceValid /\ CapabilitiesOk /\ status = "completed"
  BY OnTrackIsDone DEF Certified, LoopAccepts
<1>2. /\ \A p \in Hosted : p \in current /\ stage[p] = "ready"
      /\ \A p \in Phases : p \in Hosted \/ stage[p] \in {"absent", "ordered"}
  <2>1. \A p \in Hosted : p \in current /\ stage[p] = "ready"
    BY DEF Certified, SmokeReplays, ResultsAreMerges
  <2>2. \A p \in Phases : p \in Hosted \/ stage[p] \in {"absent", "ordered"}
    BY DEF TypeOK, Stages, Hosted
  <2>3. QED
    BY <2>1, <2>2
<1>3. partial = {}
  BY <1>1 DEF Certified, LoopAccepts, DirectoryValid
<1>4. trace = Stable
  BY DEF Certified, LoopAccepts
<1>5. TypeOK'
  BY StepTypeOK
<1>6. /\ Cardinality(Begun) \in Nat /\ IsFiniteSet(Begun)
      /\ batches \in Nat /\ prompts \in Nat /\ synthesis \in Nat
  BY SizesAreNumbers, BoundsAssumption DEF TypeOK, Sizes
<1>7. ASSUME NotAudited, Hosted' = Hosted,
             UNCHANGED <<result, partial, final, logged, tools, status>>,
             Grown' # Grown
      PROVE  ~ Certified(require)'
  <2>1. Stable' # Stable
    BY <1>5, <1>7, GrowthIsCounted
  <2>2. trace' # Stable'
    BY <1>4, <1>7, <2>1 DEF NotAudited
  <2>3. QED
    BY <2>2 DEF Certified, LoopAccepts
<1>8. ASSUME BuildPrompt PROVE ~ Certified(require)'
  <2>1. prompts' = prompts + 1 /\ UNCHANGED <<batches, synthesis>> /\ Begun' = Begun
    BY <1>8 DEF BuildPrompt, transport, Begun
  <2>2. Grown' # Grown
    BY <1>6, <2>1 DEF Grown
  <2>3. QED
    BY <1>7, <1>8, <2>2 DEF BuildPrompt, transport, log, Hosted
<1>9. ASSUME NEW p \in Phases, NEW s \in Stages, Spawn(p, s)
      PROVE  ~ Certified(require)'
  <2>1. stage[p] \in {"absent", "ordered"} /\ result[p] = "none"
    BY <1>2, <1>9 DEF Spawn, ResultsAreMerges, WithResult
  <2>2. stage' = [stage EXCEPT ![p] = s] /\ s \in {"ordered", "hosted", "ready"}
    BY <1>9 DEF Spawn
  <2>3. CASE s # "ordered"
    <3>1. p \in Hosted' /\ p \notin WithResult'
      BY <1>9, <2>1, <2>2, <2>3 DEF Spawn, Hosted, WithResult, TypeOK
    <3>2. QED
      BY <3>1 DEF Certified, SmokeReplays
  <2>4. CASE s = "ordered" /\ stage[p] = "ordered"
    <3>1. stage' = stage
      BY <2>2, <2>4 DEF TypeOK
    <3>2. UNCHANGED <<discussion, cleanup>>
      BY <1>9, <2>4, <3>1 DEF Spawn, discussion, transport, log
    <3>3. QED
      BY <3>2
  <2>5. CASE s = "ordered" /\ stage[p] = "absent"
    <3>1. Begun' = Begun \cup {p} /\ p \notin Begun
      BY <2>2, <2>5 DEF Begun, TypeOK
    <3>2. Cardinality(Begun') = Cardinality(Begun) + 1
      BY <1>6, <3>1, FS_AddElement
    <3>3. Grown' # Grown
      BY <1>6, <1>9, <3>2 DEF Grown, Spawn
    <3>4. Hosted' = Hosted
      BY <2>2, <2>5 DEF Hosted, TypeOK
    <3>5. QED
      BY <1>7, <1>9, <3>3, <3>4 DEF Spawn, log
  <2>6. QED
    BY <2>1, <2>2, <2>3, <2>4, <2>5
<1>10. ASSUME NEW p \in Phases, NEW h \in Merges, NEW same \in BOOLEAN,
              AppendBatch(p, h, same)
       PROVE  ~ Certified(require)'
  <2>1. stage[p] = "ready"
    BY <1>2, <1>10 DEF AppendBatch
  <2>2. stage' = stage
    BY <1>10, <2>1 DEF AppendBatch, TypeOK
  <2>3. Begun' = Begun /\ Hosted' = Hosted
    BY <2>2 DEF Begun, Hosted
  <2>4. batches' = batches + 1 /\ UNCHANGED <<prompts, synthesis>>
    BY <1>10 DEF AppendBatch
  <2>5. Grown' # Grown
    BY <1>6, <2>3, <2>4 DEF Grown
  <2>6. QED
    BY <1>7, <1>10, <2>3, <2>5 DEF AppendBatch, log
<1>11. ASSUME NEW p \in Phases, Collect(p) PROVE FALSE
  BY <1>2, <1>11 DEF Collect, Hosted
<1>12. ASSUME NEW r \in Rounds, OpenRound(r) PROVE ~ Certified(require)'
  BY <1>1, <1>12 DEF OpenRound, Certified, LoopAccepts, DirectoryValid
<1>13. ASSUME NEW r \in Rounds, NEW killed \in BOOLEAN, FinalizeRound(r, killed)
       PROVE  FALSE
  BY <1>3, <1>13 DEF FinalizeRound
<1>14. ASSUME NEW size \in Sizes, Synthesize(size) PROVE ~ Certified(require)'
  <2>1. /\ synthesis' \in Nat /\ synthesis' # synthesis
        /\ UNCHANGED <<batches, prompts>> /\ Begun' = Begun
    BY <1>14 DEF Synthesize, transport, Begun, Sizes
  <2>2. Grown' # Grown
    BY <1>6, <2>1 DEF Grown
  <2>3. QED
    BY <1>7, <1>14, <2>2 DEF Synthesize, transport, log, Hosted
<1>15. ASSUME Complete PROVE FALSE
  BY <1>1, <1>15 DEF Complete
<1>16. ASSUME NEW s \in {"partial", "clean"}, CleanUp(s) PROVE ~ Certified(require)'
  <2>1. Stable.projection = cleanup /\ Stable'.projection = cleanup'
    BY DEF Stable
  <2>2. trace' # Stable'
    BY <1>4, <1>16, <2>1 DEF CleanUp, NotAudited
  <2>3. QED
    BY <2>2 DEF Certified, LoopAccepts
<1>17. ASSUME NEW granted \in BOOLEAN, UseTool(granted) PROVE FALSE
  BY <1>1, <1>17 DEF UseTool
<1>18. ASSUME LoseArtifact PROVE ~ Certified(require)'
  <2>1. "record" \in tools' /\ "artifact" \notin tools'
    BY <1>18 DEF LoseArtifact, CapabilityFiles
  <2>2. (~ CapabilitiesOk)'
    BY <2>1 DEF CapabilitiesOk, RecordAccepted
  <2>3. (Health # "on-track")'
    BY <2>2 DEF Health
  <2>4. QED
    BY <2>3 DEF Certified, LoopAccepts
<1>19. ASSUME BuildTrace \/ BuildEvidence \/ UNCHANGED vars PROVE FALSE
  BY <1>19 DEF BuildTrace, BuildEvidence, vars
<1>20. QED
  BY <1>8, <1>9, <1>10, <1>11, <1>12, <1>13, <1>14, <1>15, <1>16, <1>17, <1>18, <1>19
  DEF Next

\* Any work or cleanup after the certificate takes it away: a prompt, a batch, a
\* longer synthesis and a spawn order by the byte total, a deletion by the
\* projection summary, the rest by the checks themselves.
THEOREM NewWorkRevokesAlways == Spec => NewWorkRevokes
<1>1. LoopInv /\ [Next]_vars =>
        [\A require \in BOOLEAN :
           Certified(require) /\ <<discussion, cleanup>>' # <<discussion, cleanup>>
             => ~ Certified(require)']_vars
  BY WorkRevokes
<1>2. QED
  BY InitLoopInv, StepLoopInv, <1>1, PTL DEF Spec, NewWorkRevokes
=============================================================================
