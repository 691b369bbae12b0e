-------------------------------- MODULE Loop --------------------------------
(***************************************************************************)
(* Judging a discussion directory: validate-discussion (validation.py),    *)
(* trace and evidence (audit.py), validate-loop (loop.py, projection.py),  *)
(* adapter-smoke (smoke.py) and certification, which asks all of them.     *)
(*                                                                         *)
(* The directory is what the other components leave behind: the prompts,   *)
(* the phases of the transport, the rounds of the log (Wal), the           *)
(* synthesis, the status in the manifest, the projection manifest, the     *)
(* tool evidence in capabilities/ (capabilities.py), and the two audit     *)
(* files.  The coordinator fills it, the parent cleans up the projected    *)
(* agents, the artifact of a tool call may be lost, and trace.json and     *)
(* evidence.json may be written at any time.  The commands are atomic      *)
(* here, except two: transport-init can be killed between its three files, *)
(* and finalize-round between its commit and its event.                    *)
(*                                                                         *)
(* A file is what the validators can tell of it: that it is there, the     *)
(* fields they read, and its size, which is all they know of a synthesis.  *)
(* The wait batches of a phase are what collect_merge makes of them, and   *)
(* how many there are.  Round files, wait batches and stored collect       *)
(* results are taken to be readable, round files to be valid, a spawn      *)
(* order to stay as it is, the context summary to be written, a            *)
(* profile.json to be a valid one that allows the tools of the records     *)
(* (expert-readonly), and no host step to be malformed: what the           *)
(* validators say of the rest is Wal's, Transport's and Stress's concern.  *)
(***************************************************************************)
EXTENDS Integers, FiniteSets

CONSTANTS
  Phases,             \* the phases agents are spawned for
  MaxRound,           \* bound: rounds 1..MaxRound
  MaxMishaps,         \* bound: commands killed, wait batches but those that complete
                      \* a phase, and artifacts lost
  MaxPrompts,         \* bound: prompts built
  MaxSize,            \* bound: the size of a synthesis
  Projected,          \* the phases whose agents are projected custom agents
  NoFile              \* the audit file does not exist

ASSUME BoundsAssumption ==
  /\ MaxRound \in Nat \ {0} /\ MaxPrompts \in Nat \ {0} /\ MaxSize \in Nat \ {0}
  /\ MaxMishaps \in Nat

ASSUME PhasesAssumption == IsFiniteSet(Phases)

ASSUME ProjectionAssumption == Projected \subseteq Phases

Rounds == 1 .. MaxRound
Sizes == 1 .. MaxSize

VARIABLES
  stage,      \* stage[p]: how far transport-init of p has come
  heard,      \* heard[p]: what collect_merge makes of the wait batches of p
  batches,    \* the number of wait batches of all phases
  result,     \* result[p]: collect-result.json of p, "none": no file
  current,    \* the phases whose result is what their batches merge to
  prompts,    \* the number of prompt-build.json
  partial,    \* rounds with an NNN.json.partial
  final,      \* rounds with an NNN.json
  logged,     \* rounds with a round_finalized event
  synthesis,  \* the size of artifacts/synthesis.md, 0: no file
  status,     \* manifest.json: status
  tools,      \* what there is in capabilities/
  cleanup,    \* projection-manifest.json: deletionStatus, "absent": no file
  trace,      \* artifacts/trace.json, its stable fields
  evidence,   \* artifacts/evidence.json, its stable fields
  built,      \* the audit files built since anything else was written
  mishaps     \* mishaps so far

transport == <<stage, heard, batches, result, current>>
log == <<partial, final, logged>>
discussion == <<transport, prompts, log, synthesis, status, tools>>
audit == <<trace, evidence, built>>
vars == <<discussion, cleanup, audit, mishaps>>

\* absent: no files; ordered: spawn-order.json; hosted: host-step.json too; ready:
\* wait-batches.jsonl too.
Stages == {"absent", "ordered", "hosted", "ready"}

\* incomplete: agents are missing, or answered badly or ambiguously, and may still
\* answer; ok; spoiled: a batch timed out or contradicts another one.  The batches
\* are only ever appended to, so that is not mended.
Merges == {"incomplete", "ok", "spoiled"}

\* profile: profile.json; artifact: the file a tool call left; record: its
\* validated line in tool-evidence.jsonl. A line that cannot be read, or is not
\* validated, is a record without its artifact: all of them make ok false.
CapabilityFiles == {"profile", "artifact", "record"}

\* The phases with a host-step.json.
Hosted == {p \in Phases : stage[p] \in {"hosted", "ready"}}

\* The phases that have a collect-result.json.
WithResult == {p \in Phases : result[p] # "none"}

-----------------------------------------------------------------------------
(* What the validators compute.                                            *)

\* validate_discussion_dir
DirectoryValid ==
  /\ final # {}
  /\ status = "completed" => partial = {} /\ synthesis > 0

\* resume_plan: the source of the top round, its partial preferred.
ResumeSource ==
  LET used == partial \cup final
      top  == CHOOSE r \in used : \A q \in used : q <= r
  IN  IF used = {} THEN "none" ELSE IF top \in partial THEN "partial" ELSE "final"

\* _relax_validation_for_partial: an open first round is not a missing round.
TraceValid ==
  /\ final # {} \/ ResumeSource = "partial"
  /\ status = "completed" => partial = {} /\ synthesis > 0

\* _transport_summary: complete speaks of the collect results there are.
TransportComplete ==
  WithResult # {} /\ \A p \in WithResult : result[p] = "ok"

\* Faulty: an accepted line is not checked against its artifact again.
RecordAllowed == "profile" \in tools

\* validate_tool_evidence_records: without profile.json the effective profile is
\* expert-basic, which allows no tool.
RecordAccepted == {"profile", "artifact"} \subseteq tools

\* _capability_summary: ok; without a line there is nothing to cite.
CapabilitiesOk == "record" \in tools => RecordAccepted

\* _next_action
NextAction ==
  IF ~ TraceValid THEN "inspect_validation"
  ELSE IF \E p \in WithResult : result[p] # "ok" THEN "poll_remaining"
  ELSE IF ResumeSource = "partial" THEN "resume_round"
  ELSE IF ~ CapabilitiesOk THEN "inspect_capabilities"
  ELSE IF status = "completed" /\ ResumeSource = "final" THEN "none"
  ELSE IF ResumeSource = "none" THEN "start_round"
  ELSE "inspect_artifacts"

\* _health
Health ==
  IF ~ TraceValid THEN "off-track"
  ELSE IF ~ CapabilitiesOk THEN "at-risk"
  ELSE IF NextAction \in {"poll_remaining", "resume_round", "start_round",
                          "inspect_artifacts"} THEN "at-risk"
  ELSE "on-track"

\* Each counted file adds its size: the three files of a phase with their batches,
\* the collect results, the prompts, the round files, the events, the synthesis,
\* the manifest with its status, the capability files.
Total == Cardinality({p \in Phases : stage[p] # "absent"}) + Cardinality(Hosted)
         + batches + Cardinality(WithResult)
         + Cardinality({p \in Phases : result[p] = "ok"}) + prompts
         + Cardinality(partial) + Cardinality(final) + Cardinality(logged)
         + Cardinality(tools) + synthesis + (IF status = "completed" THEN 1 ELSE 0)

\* Faulty: the audit files the total is stored in are counted too.
TotalOfAll == Total + Cardinality({f \in {trace, evidence} : f # NoFile})

\* _artifact_total_bytes: neither the audit files nor the projection manifest
\* are counted.
ByteTotal == Total

\* Faulty: off the byte total, and off the stable fields too.
StableNoCleanup == [health |-> Health, next |-> NextAction, bytes |-> ByteTotal]

\* _trace_stable, _evidence_stable: what a stored audit file must still say.
Stable == [health |-> Health, next |-> NextAction, bytes |-> ByteTotal,
           projection |-> cleanup]

\* As the host steps have it.
ProjectedPhases == Hosted \cap Projected

\* validate_projection, with --require-projection or without
ProjectionAccepts(require) ==
  /\ require => ProjectedPhases # {}
  /\ ProjectedPhases # {} =>
       /\ ProjectedPhases \subseteq WithResult
       /\ cleanup # "absent"
       /\ require => cleanup = "clean"

\* validate_minimal_loop
LoopAccepts(require) ==
  /\ DirectoryValid
  /\ prompts > 0
  /\ TransportComplete
  /\ logged # {}
  /\ synthesis > 0
  /\ trace = Stable /\ evidence = Stable
  /\ Health = "on-track" /\ NextAction = "none"
  /\ ProjectionAccepts(require)

\* Faulty: phases without a collect result are not replayed.
SmokeStored == \A p \in WithResult : p \in current /\ heard[p] = "ok"

\* adapter_smoke, its replays: there is a host step, and for every one the stored
\* result is what the batches merge to, which is ok.
SmokeReplays ==
  /\ Hosted # {}
  /\ \A p \in Hosted : p \in WithResult /\ p \in current /\ heard[p] = "ok"

\* certify_adapter: adapter-smoke (which runs the loop too), validate-loop and
\* validate-discussion.
Certified(require) == SmokeReplays /\ LoopAccepts(require)

-----------------------------------------------------------------------------
Init ==
  /\ stage = [p \in Phases |-> "absent"]
  /\ heard = [p \in Phases |-> "incomplete"]
  /\ batches = 0
  /\ result = [p \in Phases |-> "none"]
  /\ current = {}
  /\ prompts = 0
  /\ partial = {} /\ final = {} /\ logged = {}
  /\ synthesis = 0
  /\ status = "active"
  /\ tools = {} /\ cleanup = "absent"
  /\ trace = NoFile /\ evidence = NoFile /\ built = {}
  /\ mishaps = 0

\* A step that is not an audit: what was built speaks of an earlier discussion.
NotAudited == built' = {} /\ UNCHANGED <<trace, evidence>>

\* prompt-build for another agent.
BuildPrompt ==
  /\ prompts < MaxPrompts                           \* bound
  /\ prompts' = prompts + 1
  /\ UNCHANGED <<transport, log, synthesis, status, tools, cleanup, mishaps>>
  /\ NotAudited

\* The parent projects the agents of a phase that uses them, and transport-init
\* writes the phase; killed in between, it gets as far as s.  It is run again until
\* it has come through.
Spawn(p, s) ==
  /\ stage[p] # "ready"
  /\ s \in {"ordered", "hosted", "ready"}
  /\ stage[p] = "hosted" => s # "ordered"
  /\ s # "ready" => mishaps < MaxMishaps            \* bound
  /\ stage' = [stage EXCEPT ![p] = s]
  /\ mishaps' = IF s = "ready" THEN mishaps ELSE mishaps + 1
  /\ cleanup' = IF p \in Projected /\ stage[p] = "absent" THEN "pending" ELSE cleanup
  /\ UNCHANGED <<heard, batches, result, current, prompts, log, synthesis, status, tools>>
  /\ NotAudited

\* What one more batch can make of a merge: an ok one is incomplete again when a
\* second stray claims an answer that was bound by persona.
NextMerge(h) == IF h = "spoiled" THEN {"spoiled"} ELSE Merges

\* transport-append-batch: answers of the agents of p, the same again, late ones,
\* one that timed out or that contradicts another.  same: the merge is the same
\* in every field.
AppendBatch(p, h, same) ==
  /\ p \in Hosted
  /\ h \in NextMerge(heard[p])
  /\ same => h = heard[p]
  /\ LET answers == heard[p] = "incomplete" /\ h = "ok"
     IN  /\ answers \/ mishaps < MaxMishaps            \* bound
         /\ mishaps' = IF answers THEN mishaps ELSE mishaps + 1
  /\ stage' = [stage EXCEPT ![p] = "ready"]
  /\ heard' = [heard EXCEPT ![p] = h]
  /\ batches' = batches + 1
  /\ current' = IF same THEN current ELSE current \ {p}
  /\ UNCHANGED <<result, prompts, log, synthesis, status, tools, cleanup>>
  /\ NotAudited

\* Faulty: a result that is there is left as it is.
CollectOnce(p) ==
  /\ stage[p] = "ready"
  /\ result[p] = "none"
  /\ result' = [result EXCEPT ![p] = heard[p]]
  /\ current' = current \cup {p}
  /\ UNCHANGED <<stage, heard, batches, prompts, log, synthesis, status, tools, cleanup,
                 mishaps>>
  /\ NotAudited

\* transport-collect, refused without wait-batches.jsonl.
Collect(p) ==
  /\ stage[p] = "ready"
  /\ p \notin current
  /\ result' = [result EXCEPT ![p] = heard[p]]
  /\ current' = current \cup {p}
  /\ UNCHANGED <<stage, heard, batches, prompts, log, synthesis, status, tools, cleanup,
                 mishaps>>
  /\ NotAudited

\* append-message opens the next round (round_not_sequential, Wal).
OpenRound(r) ==
  /\ r \notin partial \cup final
  /\ r > 1 => r - 1 \in final
  /\ partial' = partial \cup {r}
  /\ UNCHANGED <<transport, prompts, final, logged, synthesis, status, tools, cleanup, mishaps>>
  /\ NotAudited

\* Faulty: the event is written before the commit.
FinalizeLogsFirst(r, killed) ==
  /\ r \in partial
  /\ killed => mishaps < MaxMishaps                 \* bound
  /\ partial' = IF killed THEN partial ELSE partial \ {r}
  /\ final' = IF killed THEN final ELSE final \cup {r}
  /\ logged' = logged \cup {r}
  /\ mishaps' = IF killed THEN mishaps + 1 ELSE mishaps
  /\ UNCHANGED <<transport, prompts, synthesis, status, tools, cleanup>>
  /\ NotAudited

\* finalize-round commits, then logs, unless it is killed in between.
FinalizeRound(r, killed) ==
  /\ r \in partial
  /\ killed => mishaps < MaxMishaps                 \* bound
  /\ partial' = partial \ {r}
  /\ final' = final \cup {r}
  /\ logged' = IF killed THEN logged ELSE logged \cup {r}
  /\ mishaps' = IF killed THEN mishaps + 1 ELSE mishaps
  /\ UNCHANGED <<transport, prompts, synthesis, status, tools, cleanup>>
  /\ NotAudited

\* The coordinator writes artifacts/synthesis.md, or writes it anew.
Synthesize(size) ==
  /\ size > synthesis                               \* bound: a later one is longer
  /\ synthesis' = size
  /\ UNCHANGED <<transport, prompts, log, status, tools, cleanup, mishaps>>
  /\ NotAudited

\* The coordinator marks the discussion completed in manifest.json.
Complete ==
  /\ status = "active"
  /\ status' = "completed"
  /\ UNCHANGED <<transport, prompts, log, synthesis, tools, cleanup, mishaps>>
  /\ NotAudited

\* The parent deletes the projected agents, all of them or some.
CleanUp(s) ==
  /\ cleanup \in {"pending", "partial"}
  /\ s \in {"partial", "clean"} /\ s # cleanup
  /\ cleanup' = s
  /\ UNCHANGED <<discussion, mishaps>>
  /\ NotAudited

\* A tool call of an expert leaves its artifact and its line, under a profile the
\* parent has granted or without one.
UseTool(granted) ==
  /\ status = "active" /\ tools = {}                \* bound: one call, and early
  /\ tools' = {"artifact", "record"} \cup (IF granted THEN {"profile"} ELSE {})
  /\ UNCHANGED <<transport, prompts, log, synthesis, status, cleanup, mishaps>>
  /\ NotAudited

\* The artifact of an accepted line is removed by hand.
LoseArtifact ==
  /\ tools = CapabilityFiles
  /\ mishaps < MaxMishaps                           \* bound
  /\ tools' = tools \ {"artifact"}
  /\ mishaps' = mishaps + 1
  /\ UNCHANGED <<transport, prompts, log, synthesis, status, cleanup>>
  /\ NotAudited

\* bound: no early audit
AuditTime == status = "completed" /\ DirectoryValid /\ WithResult # {}

\* trace --output artifacts/trace.json
BuildTrace ==
  /\ AuditTime
  /\ trace' = Stable
  /\ built' = built \cup {"trace"}
  /\ UNCHANGED <<discussion, cleanup, evidence, mishaps>>

\* evidence --output artifacts/evidence.json
BuildEvidence ==
  /\ AuditTime
  /\ evidence' = Stable
  /\ built' = built \cup {"evidence"}
  /\ UNCHANGED <<discussion, cleanup, trace, mishaps>>

Next ==
  \/ BuildPrompt
  \/ \E p \in Phases, s \in Stages : Spawn(p, s)
  \/ \E p \in Phases, h \in Merges, same \in BOOLEAN : AppendBatch(p, h, same)
  \/ \E p \in Phases : Collect(p)
  \/ \E r \in Rounds : OpenRound(r)
  \/ \E r \in Rounds, killed \in BOOLEAN : FinalizeRound(r, killed)
  \/ \E size \in Sizes : Synthesize(size)
  \/ Complete
  \/ \E s \in {"partial", "clean"} : CleanUp(s)
  \/ \E granted \in BOOLEAN : UseTool(granted)
  \/ LoseArtifact
  \/ BuildTrace
  \/ BuildEvidence

Spec == Init /\ [][Next]_vars

\* The steps that lead to the end: coordinator and parent go on with what they have
\* begun, agents that can still answer do, and the discussion is audited.
Work ==
  \/ BuildPrompt
  \/ \E p \in Phases :
       \/ Spawn(p, "ready")
       \/ heard[p] = "incomplete" /\ AppendBatch(p, "ok", FALSE)
       \/ Collect(p)
  \/ OpenRound(1)
  \/ \E r \in Rounds : FinalizeRound(r, FALSE)
  \/ Synthesize(1) \/ Complete \/ CleanUp("clean")
  \/ BuildTrace \/ BuildEvidence

\* As long as there is such a step, one is taken: a stored audit file that went
\* stale is built again.
FairSpec == Spec /\ WF_vars(Work)

-----------------------------------------------------------------------------
(* Properties.                                                             *)

\* The variables have their types, and rounds are as Wal leaves them.
TypeOK ==
  /\ stage \in [Phases -> Stages]
  /\ heard \in [Phases -> Merges]
  /\ batches \in Nat
  /\ result \in [Phases -> Merges \cup {"none"}]
  /\ current \subseteq WithResult
  /\ prompts \in 0 .. MaxPrompts
  /\ partial \subseteq Rounds /\ final \subseteq Rounds
  /\ partial \cap final = {} /\ logged \subseteq final
  /\ synthesis \in {0} \cup Sizes
  /\ built \subseteq {"trace", "evidence"}
  /\ status \in {"active", "completed"}
  /\ tools \subseteq CapabilityFiles
  /\ cleanup \in {"absent", "pending", "partial", "clean"}
  /\ mishaps \in 0 .. MaxMishaps

\* A certified discussion is finished, whatever was left unfinished before: every
\* phase with a host step has been answered and collected, no answer has come in
\* since that says otherwise, no round is open, every line of tool evidence still
\* has its profile and its artifact, and no projected agent is left under
\* --require-projection.
CertifiedIsFinished ==
  \A require \in BOOLEAN : Certified(require) =>
    /\ \A p \in Hosted : heard[p] = "ok" /\ result[p] = "ok"
    /\ partial = {} /\ final # {}
    /\ "record" \in tools => {"profile", "artifact"} \subseteq tools
    /\ require => cleanup = "clean"

\* Any work or cleanup done after the certificate is given takes it away: a late
\* batch that changes nothing, another prompt or a longer synthesis as much as a
\* new round or an agent that is spawned.
NewWorkRevokes ==
  [][\A require \in BOOLEAN :
       Certified(require) /\ <<discussion, cleanup>>' # <<discussion, cleanup>>
         => ~ Certified(require)']_vars

\* Everything there is to do has been done.
Finished(require) ==
  /\ status = "completed" /\ synthesis > 0 /\ prompts > 0
  /\ Hosted # {}
  /\ \A p \in Hosted : heard[p] = "ok" /\ p \in current
  /\ partial = {} /\ logged # {} /\ CapabilitiesOk
  /\ require => ProjectedPhases # {} /\ cleanup = "clean"

\* One trace and one evidence built after the last work and cleanup, in
\* whichever order, are all it takes to certify a finished discussion.
AuditedLastIsCertified ==
  \A require \in BOOLEAN :
    Finished(require) /\ built = {"trace", "evidence"} => Certified(require)

\* A discussion that is worked to its end, cleaned up and audited again after
\* that, is certified for good, with three exceptions, none of which is ever
\* repaired: the event of its round was lost to a kill; a wait timed out, or an agent
\* contradicted itself, so that the phase stays at poll_remaining though everybody
\* has answered; tool evidence that does not hold was left in it.
EventuallyCertified ==
  <>[](/\ logged # {}
       /\ \A p \in Phases : heard[p] # "spoiled"
       /\ CapabilitiesOk
       => \A require \in BOOLEAN : Certified(require))
=============================================================================
