---------------------------- MODULE StressProofs ----------------------------
(***************************************************************************)
(* Theorems about Stress: what a coordinator that keeps to the contract is *)
(* promised, and what the gates promise of every coordinator, for any      *)
(* number of messages, relations, mishaps and steps off the contract.      *)
(***************************************************************************)
EXTENDS Stress, TLAPS

\* No analogy comes after the debate.
NoAnalogy == CrossDomain = FALSE

\* What stress-check answers now.
Answer == [required |-> StressRequired, digest |-> ArgumentDigest]

\* A decision asked for but not recorded yet is still the current one; a stress
\* pass runs only where the recorded decision asks for it; a round is only closed
\* after its debate; and nothing happens before init.
InOrder ==
  /\ told # NoQuality /\ ~ Recorded => told = Answer
  /\ Triggered => Recorded /\ quality.required
  /\ closed => DebateDone
  /\ policy = Unset => msgs = <<>> /\ told = NoQuality /\ ~ Recorded /\ ~ closed

GateInv == TypeOK /\ RecordAccepts /\ RecheckAgrees /\ InOrder

\* What holds as long as the coordinator has kept to the contract.
KeptInv == TypeOK /\ (Kept => GateInv)

-----------------------------------------------------------------------------
(* Lemmas.                                                                 *)

\* The answer of stress-check is a decision with a digest.
LEMMA AnswerType ==
  ASSUME TypeOK
  PROVE  /\ Answer \in Quality
         /\ Answer # NoQuality
         /\ Answer.required \in BOOLEAN
         /\ Answer.required = StressRequired
         /\ Answer.digest = ArgumentDigest
         /\ Answer.digest # NoDigest
<1>1. Present \subseteq Ids
  BY BoundAssumption DEF TypeOK, Present, Ids
<1>2. IdsOfType(ArgumentTypes) \subseteq Ids
  BY <1>1 DEF IdsOfType
<1>3. ArgumentEdges \subseteq Edge
  BY DEF ArgumentEdges, TypeOK
<1>4. ArgumentDigest \in Digest
  BY <1>2, <1>3 DEF ArgumentDigest, Digest
<1>5. ArgumentDigest.ids # NoDigest.ids
  BY <1>2, BoundAssumption DEF ArgumentDigest, NoDigest, Ids
<1>6. ArgumentDigest # NoDigest
  BY <1>5
<1>7. StressRequired \in BOOLEAN
  BY DEF StressRequired
<1>8. Answer.required # Unset
  BY <1>7, UnsetAssumption DEF Answer
<1>9. NoQuality.required = Unset
  BY DEF NoQuality
<1>10. QED
  BY <1>4, <1>6, <1>7, <1>8, <1>9 DEF Answer, Quality

\* Who has kept to the contract after a step had done so before, and the step was
\* one of the contract.
LEMMA KeptBefore ==
  ASSUME TypeOK, NEW inContract \in BOOLEAN, Step(inContract), Kept'
  PROVE  inContract /\ Kept
BY BoundAssumption DEF TypeOK, Step, Kept

\* Steps off the contract are counted up to their bound.
LEMMA StraysBounded ==
  ASSUME TypeOK, NEW inContract \in BOOLEAN, Step(inContract)
  PROVE  strays' \in 0 .. MaxStrays
BY BoundAssumption DEF TypeOK, Step

\* append-message keeps the types.
LEMMA AppendType ==
  ASSUME TypeOK, NEW t \in Types,
         NEW refs \in {{}} \cup {{ref} : ref \in References},
         AppendMessage(t, refs)
  PROVE  TypeOK'
<1>1. refs \subseteq References
  OBVIOUS
<1>2. [type |-> t, refs |-> refs] \in Message
  BY <1>1 DEF Message
<1>3. msgs' \in Seq(Message) /\ Len(msgs') = Len(msgs) + 1
  BY <1>2 DEF AppendMessage, TypeOK
<1>4. Len(msgs') <= MaxMsgs
  BY <1>3, BoundAssumption DEF AppendMessage, TypeOK
<1>5. Len(msgs) + 1 \in Ids
  BY <1>3, <1>4, BoundAssumption DEF Ids, TypeOK
<1>6. \A ref \in refs : <<Len(msgs) + 1, ref[1], ref[2]>> \in Edge
  BY <1>1, <1>5 DEF Edge, References
<1>7. graph' \subseteq Edge
  BY <1>6 DEF AppendMessage, TypeOK
<1>8. strays' \in 0 .. MaxStrays
  <2>1. IsNext(t, refs) \in BOOLEAN
    BY DEF IsNext
  <2>2. QED
    BY <2>1, StraysBounded DEF AppendMessage
<1>9. QED
  BY <1>3, <1>4, <1>7, <1>8 DEF AppendMessage, TypeOK

\* What append-message accepts, finalize-round accepts.
LEMMA AppendCommittable ==
  ASSUME TypeOK, RecordAccepts, NEW t, NEW refs, AppendMessage(t, refs)
  PROVE  RecordAccepts'
<1>1. /\ Present' = Present \cup {Len(msgs) + 1}
      /\ \A i \in Present : msgs'[i] = msgs[i]
      /\ msgs'[Len(msgs) + 1] = [type |-> t, refs |-> refs]
  BY DEF AppendMessage, TypeOK, Present
<1>2. \A e \in graph' : {e[1], e[2]} \subseteq Present' /\ e[3] \in Relations
  BY <1>1 DEF AppendMessage, AppendAccepts, RecordAccepts
<1>3. \A i \in Present' : \A ref \in msgs'[i].refs :
        ref[1] \in Present' /\ ref[2] \in Relations
  <2>1. SUFFICES ASSUME NEW i \in Present', NEW ref \in msgs'[i].refs
                 PROVE  ref[1] \in Present /\ ref[2] \in Relations
    BY <1>1
  <2>2. CASE i \in Present
    BY <1>1, <2>2 DEF RecordAccepts
  <2>3. CASE i = Len(msgs) + 1
    BY <1>1, <2>3 DEF AppendMessage, AppendAccepts
  <2>4. QED
    BY <1>1, <2>2, <2>3
<1>4. QED
  BY <1>2, <1>3 DEF RecordAccepts

\* A message of a later phase leaves signal and digest of the arguments alone:
\* its edges start at itself.
LEMMA LaterPhase ==
  ASSUME TypeOK, RecordAccepts, NEW t, NEW refs, AppendMessage(t, refs),
         t \notin ArgumentTypes
  PROVE  Answer' = Answer
<1>1. /\ Present' = Present \cup {Len(msgs) + 1}
      /\ Len(msgs) + 1 \notin Present
      /\ \A i \in Present : msgs'[i] = msgs[i]
      /\ msgs'[Len(msgs) + 1].type = t
  BY DEF AppendMessage, TypeOK, Present
<1>2. IdsOfType(ArgumentTypes)' = IdsOfType(ArgumentTypes)
  BY <1>1 DEF IdsOfType
<1>3. Len(msgs) + 1 \notin IdsOfType(ArgumentTypes)
  BY <1>1 DEF IdsOfType
<1>4. ArgumentEdges' = ArgumentEdges
  BY <1>2, <1>3 DEF ArgumentEdges, AppendMessage
<1>5. policy' = policy
  BY DEF AppendMessage
<1>6. QED
  BY <1>2, <1>4, <1>5
     DEF Answer, StressRequired, PreStressChallenges, ArgumentDigest

\* A step that leaves the round alone leaves alone what it says.
LEMMA SameRound ==
  ASSUME UNCHANGED <<policy, msgs, graph>>
  PROVE  /\ Answer' = Answer
         /\ RecordAccepts' = RecordAccepts
         /\ Triggered' = Triggered
         /\ Answered' = Answered
  BY DEF Answer, StressRequired, PreStressChallenges, ArgumentDigest,
         ArgumentEdges, IdsOfType, Present, RecordAccepts, Triggered, Answered

-----------------------------------------------------------------------------
(* The inductive invariant.                                                *)

LEMMA GateInit == ASSUME Init PROVE GateInv
<1>1. Present = {}
  BY DEF Init, Present
<1>2. TypeOK
  <2>1. NoQuality \in Quality
    BY DEF Quality, Digest, NoQuality
  <2>2. msgs \in Seq(Message) /\ Len(msgs) <= MaxMsgs
    BY BoundAssumption DEF Init
  <2>3. mishaps \in 0 .. MaxMishaps /\ strays \in 0 .. MaxStrays
    BY BoundAssumption DEF Init
  <2>4. policy \in Policies \cup {Unset} /\ graph \subseteq Edge /\ closed \in BOOLEAN
    BY DEF Init
  <2>5. quality \in Quality /\ told \in Quality
    BY <2>1 DEF Init
  <2>6. QED
    BY <2>2, <2>3, <2>4, <2>5 DEF TypeOK
<1>3. RecordAccepts
  BY <1>1 DEF Init, RecordAccepts
<1>4. ~ Recorded /\ told = NoQuality /\ ~ closed
  BY DEF Init, Recorded, NoQuality
<1>5. ~ Triggered
  BY <1>1 DEF Triggered, IdsOfType
<1>6. QED
  BY <1>2, <1>3, <1>4, <1>5 DEF GateInv, RecheckAgrees, InOrder, Init

LEMMA GateAppend ==
  ASSUME NoAnalogy, GateInv, Kept, Kept', NEW t \in Types,
         NEW refs \in {{}} \cup {{ref} : ref \in References},
         AppendMessage(t, refs)
  PROVE  GateInv'
<1>1. TypeOK' /\ RecordAccepts'
  BY AppendType, AppendCommittable DEF GateInv
<1>2. UNCHANGED <<quality, told, closed>> /\ ~ closed
  BY DEF AppendMessage
<1>3. Recorded' = Recorded
  BY <1>2 DEF Recorded
<1> IsNext(t, refs)
  <2>1. IsNext(t, refs) \in BOOLEAN
    BY DEF IsNext
  <2>2. QED
    BY <2>1, KeptBefore DEF AppendMessage, GateInv
<1>4. CASE t = "argument"
  <2>1. ~ Recorded /\ told = NoQuality /\ policy' # Unset
    BY <1>4 DEF AppendMessage, IsNext
  <2>2. ~ Triggered'
    <3>1. ~ Triggered
      BY <2>1 DEF GateInv, InOrder
    <3>2. QED
      BY <1>4, <3>1
         DEF GateInv, TypeOK, AppendMessage, Triggered, IdsOfType, Present
  <2>3. QED
    BY <1>1, <1>2, <1>3, <2>1, <2>2 DEF GateInv, RecheckAgrees, InOrder
<1>5. CASE t \in {"stress_test", "response"}
  <2>1. Answer' = Answer
    BY <1>5, LaterPhase DEF GateInv, ArgumentTypes
  <2>2. Recorded /\ quality.required
    <3>1. CASE t = "stress_test"
      BY <3>1 DEF IsNext
    <3>2. CASE t = "response"
      BY <3>2 DEF IsNext, GateInv, InOrder
    <3>3. QED
      BY <1>5, <3>1, <3>2
  <2>3. policy' # Unset
    BY <2>2 DEF GateInv, InOrder, AppendMessage
  <2>4. QED
    BY <1>1, <1>2, <1>3, <2>1, <2>2, <2>3
       DEF GateInv, RecheckAgrees, InOrder, Answer
<1>6. t # "analogy"
  BY DEF IsNext, NoAnalogy
<1>7. QED
  BY <1>4, <1>5, <1>6 DEF Types

LEMMA GateStep ==
  ASSUME NoAnalogy, GateInv, Kept, Kept', [Next]_vars
  PROVE  GateInv'
<1>1. ASSUME NEW t \in Types,
             NEW refs \in {{}} \cup {{ref} : ref \in References},
             AppendMessage(t, refs)
      PROVE  GateInv'
  BY <1>1, GateAppend
<1>2. CASE StressCheck
  <2>1. UNCHANGED <<policy, msgs, graph>>
    BY <1>2 DEF StressCheck
  <2>2. told' = Answer /\ UNCHANGED <<quality, closed, mishaps>> /\ policy # Unset
    BY <1>2 DEF StressCheck, Answer, GateInv, InOrder
  <2>3. TypeOK'
    <3>1. strays' \in 0 .. MaxStrays
      BY <1>2, StraysBounded DEF StressCheck, GateInv
    <3>2. QED
      BY <2>1, <2>2, <3>1, AnswerType DEF GateInv, TypeOK
  <2>4. QED
    BY <2>1, <2>2, <2>3, SameRound
       DEF GateInv, RecheckAgrees, InOrder, Recorded, DebateDone, Answer
<1>3. ASSUME NEW r \in BOOLEAN, NEW d \in {told.digest, NoDigest},
             RecordDecision([required |-> r, digest |-> d])
      PROVE  GateInv'
  <2>1. UNCHANGED <<policy, msgs, graph, told, closed, mishaps>>
    BY <1>3 DEF RecordDecision
  <2>2. quality' = told /\ told # NoQuality /\ ~ Recorded /\ ~ closed
    BY <1>3, KeptBefore DEF RecordDecision, GateInv
  <2>6. policy # Unset
    BY <2>2 DEF GateInv, InOrder
  <2>3. quality' = Answer
    BY <2>2 DEF GateInv, InOrder
  <2>4. TypeOK'
    <3>1. strays' \in 0 .. MaxStrays
      BY <1>3, StraysBounded DEF RecordDecision, GateInv
    <3>2. QED
      BY <2>1, <2>2, <3>1 DEF GateInv, TypeOK
  <2>5. ~ Triggered
    BY <2>2 DEF GateInv, InOrder
  <2>7. QED
    BY <2>1, <2>2, <2>3, <2>4, <2>5, <2>6, SameRound, AnswerType, UnsetAssumption
       DEF GateInv, RecheckAgrees, InOrder, Recorded, Answer
<1>4. ASSUME NEW killed \in BOOLEAN, Finalize(killed)
      PROVE  GateInv'
  <2>1. UNCHANGED <<policy, msgs, graph, told>>
    BY <1>4 DEF Finalize
  <2>2. DebateDone /\ Recorded /\ policy # Unset
    BY <1>4, KeptBefore DEF Finalize, DebateDone, GateInv, InOrder
  <2>3. quality' = quality
    BY <1>4, <2>2 DEF Finalize, BuiltQuality, Recorded, GateInv, TypeOK, Quality
  <2>4. TypeOK'
    <3>1. strays' \in 0 .. MaxStrays
      BY <1>4, StraysBounded DEF Finalize, DebateDone, GateInv
    <3>2. QED
      BY <1>4, <2>1, <2>3, <3>1, BoundAssumption DEF GateInv, TypeOK, Finalize
  <2>5. QED
    BY <2>1, <2>2, <2>3, <2>4, SameRound
       DEF GateInv, RecheckAgrees, InOrder, Recorded, DebateDone, Answer
<1>5. CASE Restart
  <2>1. UNCHANGED <<policy, msgs, graph, quality, closed>> /\ told' = NoQuality
    BY <1>5 DEF Restart
  <2>2. TypeOK'
    BY <1>5, <2>1, BoundAssumption
       DEF GateInv, TypeOK, Restart, Quality, Digest, NoQuality
  <2>3. QED
    BY <2>1, <2>2, SameRound
       DEF GateInv, RecheckAgrees, InOrder, Recorded, DebateDone, Answer
<1>6. ASSUME NEW e \in Edge, EditGraph(e)
      PROVE  GateInv'
  BY <1>6, KeptBefore DEF EditGraph, GateInv
<1>7. ASSUME NEW mode \in Modes, NEW asked, InitDiscussion(mode, asked)
      PROVE  GateInv'
  <2>1. /\ UNCHANGED <<msgs, graph, quality, told, closed, mishaps, strays>>
        /\ policy' \in Policies
    BY <1>7 DEF InitDiscussion
  <2>2. told = NoQuality /\ ~ Recorded /\ ~ closed /\ ~ Triggered
    BY <1>7 DEF InitDiscussion, GateInv, InOrder
  <2>3. TypeOK'
    BY <2>1 DEF GateInv, TypeOK
  <2>4. RecordAccepts' /\ ~ Triggered' /\ ~ Recorded'
    BY <2>1, <2>2 DEF GateInv, RecordAccepts, Triggered, IdsOfType, Present, Recorded
  <2>5. policy' # Unset
    BY <2>1, PolicyAssumption, UnsetAssumption
  <2>6. QED
    BY <2>1, <2>2, <2>3, <2>4, <2>5 DEF GateInv, RecheckAgrees, InOrder
<1>8. CASE UNCHANGED vars
  <2>1. UNCHANGED <<policy, msgs, graph, quality, told, closed, mishaps, strays>>
    BY <1>8 DEF vars
  <2>2. QED
    BY <2>1, SameRound
       DEF GateInv, TypeOK, RecheckAgrees, InOrder, Recorded, DebateDone, Answer
<1>9. QED
  BY <1>1, <1>2, <1>3, <1>4, <1>5, <1>6, <1>7, <1>8 DEF Next, Proceed

-----------------------------------------------------------------------------
(* Types, whatever the coordinator does.                                   *)

LEMMA TypeInit == Init => TypeOK
BY GateInit DEF GateInv

LEMMA TypeStep == ASSUME TypeOK, [Next]_vars PROVE TypeOK'
<1>1. ASSUME NEW t \in Types,
             NEW refs \in {{}} \cup {{ref} : ref \in References},
             AppendMessage(t, refs)
      PROVE  TypeOK'
  BY <1>1, AppendType
<1>2. CASE StressCheck
  <2>1. strays' \in 0 .. MaxStrays
    BY <1>2, StraysBounded DEF StressCheck
  <2>2. QED
    BY <1>2, <2>1, AnswerType DEF StressCheck, Answer, TypeOK
<1>3. ASSUME NEW r \in BOOLEAN, NEW d \in {told.digest, NoDigest},
             RecordDecision([required |-> r, digest |-> d])
      PROVE  TypeOK'
  <2>1. d \in Digest
    BY DEF TypeOK, Quality, Digest
  <2>2. [required |-> r, digest |-> d] \in Quality
    BY <2>1 DEF Quality
  <2>3. strays' \in 0 .. MaxStrays
    BY <1>3, StraysBounded DEF RecordDecision
  <2>4. QED
    BY <1>3, <2>2, <2>3 DEF RecordDecision, TypeOK
<1>4. ASSUME NEW killed \in BOOLEAN, Finalize(killed)
      PROVE  TypeOK'
  <2>1. StressRequired \in BOOLEAN
    BY DEF StressRequired
  <2>2. BuiltQuality \in Quality
    BY <2>1 DEF BuiltQuality, TypeOK, Quality
  <2>3. strays' \in 0 .. MaxStrays
    BY <1>4, StraysBounded DEF Finalize, DebateDone
  <2>4. QED
    BY <1>4, <2>2, <2>3, BoundAssumption DEF Finalize, TypeOK
<1>5. CASE Restart
  <2>1. NoQuality \in Quality
    BY DEF Quality, Digest, NoQuality
  <2>2. QED
    BY <1>5, <2>1, BoundAssumption DEF Restart, TypeOK
<1>6. ASSUME NEW e \in Edge, EditGraph(e)
      PROVE  TypeOK'
  <2>1. strays' \in 0 .. MaxStrays
    BY <1>6, StraysBounded DEF EditGraph
  <2>2. QED
    BY <1>6, <2>1 DEF EditGraph, TypeOK
<1>7. ASSUME NEW mode \in Modes, NEW asked, InitDiscussion(mode, asked)
      PROVE  TypeOK'
  BY <1>7 DEF InitDiscussion, TypeOK
<1>8. CASE UNCHANGED vars
  BY <1>8 DEF vars, TypeOK
<1>9. QED
  BY <1>1, <1>2, <1>3, <1>4, <1>5, <1>6, <1>7, <1>8 DEF Next, Proceed

\* Whatever caller, hand and kill do to the round, it keeps its shape: the gates
\* never meet a digest or a decision of another kind than they expect.
THEOREM TypeCorrect == Spec => []TypeOK
BY TypeInit, TypeStep, PTL DEF Spec

\* A coordinator that has left the contract does not come back to it.
LEMMA StraysCount ==
  ASSUME TypeOK, [Next]_vars, Kept'
  PROVE  Kept
<1>1. ASSUME NEW t, NEW refs, AppendMessage(t, refs) PROVE Kept
  <2>1. IsNext(t, refs) \in BOOLEAN
    BY DEF IsNext
  <2>2. QED
    BY <1>1, <2>1, KeptBefore DEF AppendMessage
<1>2. CASE StressCheck
  BY <1>2, KeptBefore DEF StressCheck
<1>3. ASSUME NEW q, RecordDecision(q) PROVE Kept
  BY <1>3, KeptBefore DEF RecordDecision
<1>4. ASSUME NEW killed, Finalize(killed) PROVE Kept
  BY <1>4, KeptBefore DEF Finalize, DebateDone
<1>5. ASSUME NEW e, EditGraph(e) PROVE Kept
  BY <1>5, KeptBefore DEF EditGraph
<1>6. CASE UNCHANGED strays
  BY <1>6 DEF Kept
<1>7. QED
  BY <1>1, <1>2, <1>3, <1>4, <1>5, <1>6
     DEF Next, Proceed, InitDiscussion, Restart, vars

LEMMA KeptInit == Init => KeptInv
BY GateInit DEF GateInv, KeptInv

LEMMA KeptStep == ASSUME NoAnalogy, KeptInv, [Next]_vars PROVE KeptInv'
BY TypeStep, StraysCount, GateStep DEF KeptInv

LEMMA GateAlways == ASSUME NoAnalogy PROVE Spec => []KeptInv
<1>1. Init => KeptInv
  BY KeptInit
<1>2. KeptInv /\ [Next]_vars => KeptInv'
  BY KeptStep
<1>3. QED
  BY <1>1, <1>2, PTL DEF Spec

-----------------------------------------------------------------------------
(* Theorems.                                                               *)

\* A coordinator that keeps to the contract never builds a round that
\* finalize-round refuses (the two validators of wal.py and validation.py).
THEOREM ContractCommits == ASSUME NoAnalogy PROVE Spec => [](Kept => RecordCommittable)
<1>1. KeptInv => (Kept => RecordCommittable)
  BY DEF KeptInv, GateInv, RecordCommittable
<1>2. QED
  BY <1>1, GateAlways, PTL

\* Whoever takes its round over and asks stress-check again gets the recorded
\* answer (disagreement_signal and argument_phase_digest of quality.py).
THEOREM ContractRechecks == ASSUME NoAnalogy PROVE Spec => []RecheckAgrees
<1>1. KeptInv => RecheckAgrees
  BY DEF KeptInv, GateInv, RecheckAgrees
<1>2. QED
  BY <1>1, GateAlways, PTL

\* What it commits passes validate-discussion and validate-loop
\* --require-stress, under every stress policy.
THEOREM ContractPasses == ASSUME NoAnalogy PROVE Spec => []ContractCertifies
<1>1. ASSUME GateInv, Kept, closed
      PROVE  Certified
  <2>1. quality = Answer /\ Recorded
    BY <1>1 DEF GateInv, InOrder, DebateDone, RecheckAgrees, Answer
  <2>2. quality.required => Answered
    BY <1>1 DEF GateInv, InOrder, DebateDone
  <2>3. Answered => Triggered
    BY DEF Answered, Triggered
  <2>4. DiscussionAccepts
    BY <1>1, <2>1 DEF DiscussionAccepts, GateInv, Answer
  <2>5. StressAccepts
    <3>1. Triggered => Answered
      BY <1>1, <2>2 DEF GateInv, InOrder
    <3>2. policy = "required" => Triggered
      BY <1>1, <2>1, <2>2, <2>3, AnswerType DEF GateInv, StressRequired
    <3>3. /\ quality.required # Unset
          /\ quality.digest # NoDigest
          /\ quality.digest = ArgumentDigest
          /\ quality.required => Triggered
      BY <1>1, <2>1, <2>2, <2>3, AnswerType DEF GateInv, Recorded
    <3>4. QED
      BY <3>1, <3>2, <3>3 DEF StressAccepts
  <2>6. QED
    BY <2>4, <2>5 DEF Certified
<1>2. KeptInv => ContractCertifies
  BY <1>1 DEF KeptInv, ContractCertifies
<1>3. QED
  BY <1>2, GateAlways, PTL

\* Whatever the coordinator does, contract or not: what both gates pass has
\* been debated (validate_quality_block and validate_stress together).
THEOREM GatesDebate == Spec => []CertifiedWasDebated
<1>1. ASSUME Certified, policy = "required"
      PROVE  Answered
  BY <1>1, UnsetAssumption DEF Certified, StressAccepts
<1>2. ASSUME Certified, policy = "auto"
      PROVE  Answered \/ PreStressChallenges # {}
  <2>1. CASE quality.required
    BY <1>2, <2>1, UnsetAssumption DEF Certified, StressAccepts
  <2>2. CASE ~ quality.required
    BY <1>2, <2>2, UnsetAssumption
       DEF Certified, StressAccepts, DiscussionAccepts, StressRequired
  <2>3. QED
    BY <2>1, <2>2
<1>3. CertifiedWasDebated
  BY <1>1, <1>2 DEF CertifiedWasDebated
<1>4. QED
  BY <1>3, PTL
=============================================================================
