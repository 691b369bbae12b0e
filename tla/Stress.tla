------------------------------- MODULE Stress -------------------------------
(***************************************************************************)
(* The stress gate of one round (runtime/swarm/quality.py, with the parts  *)
(* of wal.py and validation.py that feed and judge it).                    *)
(*                                                                         *)
(* init_discussion fixes the stress policy of the discussion; nothing      *)
(* makes a caller run it first, and without a manifest the policy is off.  *)
(*                                                                         *)
(* A round collects messages; their references become edges of the         *)
(* argument graph.  stress-check decides, from the messages of the         *)
(* argument phase and the edges among them, whether a contrarian has to    *)
(* attack the consensus before the round is finalized.  The coordinator    *)
(* records the decision in the round's quality block, finalize-round       *)
(* completes the block and commits, and validate-discussion together with  *)
(* validate-loop --require-stress judge the committed record afterwards,   *)
(* when nothing of it can be changed any more.                             *)
(*                                                                         *)
(* Commands are atomic here (Wal has their steps) except finalize-round,   *)
(* which can be killed between its checkpoint and its commit.  Rounds are  *)
(* judged one by one, so one round is modelled.  A message is its type and *)
(* the references it makes; at most one, which is enough for every edge    *)
(* between two messages.  The digest is the value it hashes.               *)
(***************************************************************************)
EXTENDS Integers, Sequences, FiniteSets

CONSTANTS
  Policies,       \* the stress policies a discussion is initialized with
  MaxMsgs,        \* bound: messages in the round
  MaxMishaps,     \* bound: coordinators replaced and finalize-rounds killed
  UsedRelations,  \* the relation words callers write
  MaxStrays,      \* bound: steps off the contract
  CrossDomain,    \* TRUE: a cross-domain analogy follows the debate
  Unset           \* no decision in the block, no manifest, no --stress-policy

ASSUME PolicyAssumption == Policies \subseteq {"auto", "required", "off"}

ASSUME BoundAssumption ==
  MaxMsgs \in Nat /\ MaxMishaps \in Nat /\ MaxStrays \in Nat

ASSUME CrossDomainAssumption == CrossDomain \in BOOLEAN

ASSUME UnsetAssumption == Unset \notin BOOLEAN /\ Unset \notin {"auto", "required", "off"}

\* The modes of _MODE_DEFAULT_STRESS; "other" stands for any other word.
Modes == {"lightweight", "standard", "deep", "other"}

DefaultPolicy(mode) ==
  CASE mode = "standard" -> "auto"
    [] mode = "deep" -> "required"
    [] mode \in {"lightweight", "other"} -> "off"

Relations == {"supports", "counters", "extends", "questions"}

ChallengeRelations == {"counters", "questions"}

\* "argument" stands for position_declaration, opening and argument.
Types == {"argument", "analogy", "stress_test", "response"}

ArgumentTypes == {"argument", "analogy"}

Ids == 1 .. MaxMsgs

References == Ids \X UsedRelations

Message == [type : Types, refs : SUBSET References]

Edge == Ids \X Ids \X UsedRelations

NoDigest == [ids |-> {0}, edges |-> {}]

Digest == [ids : SUBSET Ids, edges : SUBSET Edge] \cup {NoDigest}

\* The part of the quality block that is not recomputed: stressRequired and
\* argumentDigest, each of which may be missing.
Quality == [required : BOOLEAN \cup {Unset}, digest : Digest]

NoQuality == [required |-> Unset, digest |-> NoDigest]

VARIABLES
  policy,   \* manifest.json: stressPolicy; Unset: there is no manifest
  msgs,     \* the round's messages; message i has the id i
  graph,    \* the round's argumentGraph
  quality,  \* the round's quality block
  told,     \* what stress-check last answered to the running coordinator
  closed,   \* TRUE: the round is committed
  mishaps,  \* mishaps so far
  strays    \* steps so far that the contract does not have

vars == <<policy, msgs, graph, quality, told, closed, mishaps, strays>>

-----------------------------------------------------------------------------
(* The disagreement signal.                                                *)

Present == DOMAIN msgs

IdsOfType(ts) == {i \in Present : msgs[i].type \in ts}

\* Faulty: an edge counts when its target argued, whoever drew it.
EdgesToArguments == {e \in graph : e[2] \in IdsOfType(ArgumentTypes)}

\* Edges among the messages of the argument phase.
ArgumentEdges ==
  {e \in graph : {e[1], e[2]} \subseteq IdsOfType(ArgumentTypes)}

\* disagreement_signal(pre_stress=True)["counterEdgeCount"], as the edges.
PreStressChallenges == {e \in ArgumentEdges : e[3] \in ChallengeRelations}

\* argument_phase_digest
ArgumentDigest == [ids |-> IdsOfType(ArgumentTypes), edges |-> ArgumentEdges]

\* stress_required for the policy and the pre-stress signal; without a manifest
\* nothing is required
StressRequired ==
  \/ policy = "required"
  \/ policy = "auto" /\ PreStressChallenges = {}

Triggered == IdsOfType({"stress_test"}) # {}

\* _stress_has_response: by its own reference, an edge is not enough.
Answered ==
  \E i \in IdsOfType({"response"}) : \E ref \in msgs[i].refs :
    ref[1] \in IdsOfType({"stress_test"})

\* Faulty: the block is built anew, without the digest.
BuiltWithoutDigest ==
  [required |-> IF quality.required = Unset THEN StressRequired
                ELSE quality.required]

\* build_round_quality: a recorded decision passes through, a missing one is
\* computed now; the digest is only ever the recorded one.
BuiltQuality ==
  [quality EXCEPT !.required = IF @ = Unset THEN StressRequired ELSE @]

-----------------------------------------------------------------------------
(* The validators.                                                         *)

\* _validate_message_payload: what append-message accepts.
AppendAccepts(refs) ==
  \A ref \in refs : ref[1] \in Present /\ ref[2] \in Relations

\* Faulty: a record in which some message cites nothing is refused.
EveryMessageCites ==
  /\ \A e \in graph : {e[1], e[2]} \subseteq Present /\ e[3] \in Relations
  /\ \A i \in Present : msgs[i].refs # {}

\* validate_round_record: what finalize-round accepts.
RecordAccepts ==
  /\ \A e \in graph : {e[1], e[2]} \subseteq Present /\ e[3] \in Relations
  /\ \A i \in Present : \A ref \in msgs[i].refs :
       ref[1] \in Present /\ ref[2] \in Relations

\* Faulty: the recorded decision is taken on trust.
DecisionTrusted == RecordAccepts

\* validate_discussion_dir: the same, and the decision recomputed.
DiscussionAccepts ==
  /\ RecordAccepts
  /\ quality.required # Unset => quality.required = StressRequired

\* validate_stress with --require-stress
StressAccepts ==
  policy \notin {"off", Unset} =>
    /\ Triggered => Answered
    /\ policy = "required" => Triggered
    /\ policy = "auto" =>
         /\ quality.required # Unset
         /\ quality.digest # NoDigest
         /\ quality.digest = ArgumentDigest
         /\ quality.required => Triggered

Certified == DiscussionAccepts /\ StressAccepts

-----------------------------------------------------------------------------
(* What the coordinator does.  By the contract it argues, asks             *)
(* stress-check, records the answer, runs the stress pass if one is        *)
(* required and has it answered, then finalizes.  The commands accept much *)
(* more, and a step off the contract is counted.                           *)

Recorded == quality.required # Unset

\* The stress pass, if one is required, has run and was answered.
DebateDone == Recorded /\ (quality.required => Answered)

\* The next message by the contract.
IsNext(t, refs) ==
  \/ t = "argument" /\ told = NoQuality /\ ~ Recorded /\ policy # Unset
  \/ t = "stress_test" /\ Recorded /\ quality.required /\ ~ Triggered
  \/ /\ t = "response" /\ Triggered
     /\ \E ref \in refs : ref[1] \in IdsOfType({"stress_test"})
  \/ /\ t = "analogy" /\ CrossDomain /\ DebateDone
     /\ IdsOfType({"analogy"}) = {}

\* A step, which the contract has or does not have.
Step(inContract) ==
  /\ inContract \/ strays < MaxStrays                 \* bound
  /\ strays' = IF inContract THEN strays ELSE strays + 1

\* The coordinator has kept to the contract.
Kept == strays = 0

-----------------------------------------------------------------------------
Init ==
  /\ policy = Unset
  /\ msgs = <<>>
  /\ graph = {}
  /\ quality = NoQuality
  /\ told = NoQuality
  /\ closed = FALSE
  /\ mishaps = 0
  /\ strays = 0

\* InitDiscussion, faulty: an existing manifest is written over.
InitAgain(mode, asked) ==
  /\ policy' = IF asked = Unset THEN DefaultPolicy(mode) ELSE asked
  /\ policy' \in Policies                            \* bound
  /\ UNCHANGED <<msgs, graph, quality, told, closed, mishaps, strays>>

\* init_discussion: refused when there is a manifest, but not when there are
\* rounds.
InitDiscussion(mode, asked) ==
  /\ policy = Unset
  /\ policy' = IF asked = Unset THEN DefaultPolicy(mode) ELSE asked
  /\ policy' \in Policies                            \* bound
  /\ UNCHANGED <<msgs, graph, quality, told, closed, mishaps, strays>>

\* append-message: the message, and an edge for each of its references.
AppendMessage(t, refs) ==
  /\ ~ closed
  /\ Len(msgs) < MaxMsgs                            \* bound
  /\ t = "argument" => Len(msgs) <= MaxMsgs - 3     \* bound: room for the rest
  /\ Step(IsNext(t, refs))
  /\ AppendAccepts(refs)
  /\ msgs' = Append(msgs, [type |-> t, refs |-> refs])
  /\ graph' = graph \cup {<<Len(msgs) + 1, ref[1], ref[2]>> : ref \in refs}
  /\ UNCHANGED <<policy, quality, told, closed, mishaps>>

\* stress-check: reads the round, writes nothing.
StressCheck ==
  /\ msgs # <<>>
  /\ Step(~ Recorded /\ told = NoQuality)
  /\ told' = [required |-> StressRequired, digest |-> ArgumentDigest]
  /\ UNCHANGED <<policy, msgs, graph, quality, closed, mishaps>>

\* checkpoint of the round with a quality block: the answer of stress-check,
\* or one in which a careless coordinator leaves out the digest or writes a
\* decision of its own.
RecordDecision(q) ==
  /\ ~ closed
  /\ told # NoQuality
  /\ q.digest \in {told.digest, NoDigest}
  /\ Step(q = told /\ ~ Recorded)
  /\ quality' = q
  /\ UNCHANGED <<policy, msgs, graph, told, closed, mishaps>>

\* checkpoint of the round with an edge added to its graph or taken out.
EditGraph(e) ==
  /\ ~ closed
  /\ Step(FALSE)
  /\ graph' \in {graph \cup {e}, graph \ {e}}
  /\ UNCHANGED <<policy, msgs, quality, told, closed, mishaps>>

\* finalize-round: the block is built, the record judged, the checkpoint
\* written; the commit follows unless the process is killed in between.
\* The caller leaves the metadata out, so that it is derived (Wal has it).
Finalize(killed) ==
  /\ ~ closed
  /\ msgs # <<>>
  /\ Step(DebateDone)
  /\ RecordAccepts
  /\ killed => mishaps < MaxMishaps                           \* bound
  /\ quality' = BuiltQuality
  /\ closed' = ~ killed
  /\ mishaps' = IF killed THEN mishaps + 1 ELSE mishaps
  /\ UNCHANGED <<policy, msgs, graph, told>>

\* The coordinator is replaced by one that only has the files.
Restart ==
  /\ told # NoQuality
  /\ mishaps < MaxMishaps                           \* bound
  /\ told' = NoQuality
  /\ mishaps' = mishaps + 1
  /\ UNCHANGED <<policy, msgs, graph, quality, closed, strays>>

\* The step in which the coordinator goes on with the round.
Proceed ==
  \/ \E mode \in Modes, asked \in {"auto", "required", "off", Unset} :
       InitDiscussion(mode, asked)
  \/ \E t \in Types, refs \in {{}} \cup {{ref} : ref \in References} :
       AppendMessage(t, refs)
  \/ StressCheck
  \/ \E r \in BOOLEAN, d \in {told.digest, NoDigest} :
       RecordDecision([required |-> r, digest |-> d])
  \/ Finalize(FALSE)

Next ==
  \/ Proceed
  \/ Finalize(TRUE)
  \/ Restart
  \/ \E e \in Edge : EditGraph(e)

Spec == Init /\ [][Next]_vars

\* The coordinator is a loop over its phases: it does not stop half-way.  That
\* holds of the steps of the contract; it never has to leave it.
FairSpec == Spec /\ WF_vars(Proceed /\ UNCHANGED strays)

-----------------------------------------------------------------------------
(* Properties.                                                             *)

\* The variables have their types.
TypeOK ==
  /\ policy \in Policies \cup {Unset}
  /\ msgs \in Seq(Message) /\ Len(msgs) <= MaxMsgs
  /\ graph \subseteq Edge
  /\ quality \in Quality
  /\ told \in Quality
  /\ closed \in BOOLEAN
  /\ mishaps \in 0 .. MaxMishaps
  /\ strays \in 0 .. MaxStrays

\* A round built by append-message alone can be committed at any time: the two
\* validators, in wal.py and validation.py, agree on references and edges, so
\* no accepted message makes the round impossible to finalize.
RecordCommittable == RecordAccepts

\* stress-check asked again, by a coordinator that took the round over at any
\* later point, gives the recorded answer: neither the stress pass nor its
\* responses change the signal or the digest of the argument phase.
RecheckAgrees ==
  Kept /\ Recorded =>
    quality = [required |-> StressRequired, digest |-> ArgumentDigest]

\* What a coordinator that keeps to the contract commits passes both gates.  A
\* committed round is never rewritten, so a refusal would be final.
ContractCertifies == Kept /\ closed => Certified

\* What both gates pass has been debated, whatever the coordinator did: under
\* "required" a stress pass was answered, under "auto" one was or an argument
\* challenges another.
CertifiedWasDebated ==
  closed /\ Certified =>
    /\ policy = "required" => Answered
    /\ policy = "auto" => Answered \/ PreStressChallenges # {}

\* A coordinator that keeps to the contract gets every round certified in the
\* end, however often it is replaced half-way.
EventuallyCertified == <>(Kept => closed /\ Certified)
=============================================================================
