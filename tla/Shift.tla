------------------------------- MODULE Shift -------------------------------
(***************************************************************************)
(* Position shifts of one round and their provenance: a shift is committed *)
(* only if its expert was shown every message it cites in full             *)
(* (runtime/swarm/validation.py, called by finalize-round in wal.py).      *)
(* What was shown is on record in prompt-build.json, which prompt-build    *)
(* (runtime/swarm_rt.py) writes after the prompt.txt the agent is given.   *)
(* Both are in prompts/rNNN/response/<persona> (ARCHITECTURE.md:128, the   *)
(* fixtures): an expert that is asked again has its prompt built where its *)
(* earlier one was.                                                        *)
(*                                                                         *)
(* One coordinator plays the round of protocol/PROTOCOL.md with the CLI,   *)
(* one command at a time, and can be killed at any moment; the next one    *)
(* goes on from the files.  It asks an expert again when finalize-round    *)
(* refuses the expert's shift ("fail the round + re-inject").  The         *)
(* coordinator and the experts are the environment: an expert may report a *)
(* shift citing anything, whether it saw it or not.                        *)
(*                                                                         *)
(* A prompt is the length of the log it was built from.  The storage of    *)
(* the round file is the subject of Wal, the collection of answers that of *)
(* Transport.                                                              *)
(***************************************************************************)
EXTENDS Prompt, FiniteSets

CONSTANTS
  Cast,         \* the ids of the dynamic experts, in spawn order
  Sizes,        \* sizes of declarations and arguments
  AnswerSizes,  \* sizes of responses
  Claims,       \* what a response may cite as triggers of a shift
  MaxAttempts,  \* bound: agents asked for the response of one expert
  MaxKills,     \* bound: coordinators killed
  None          \* "no such file", "no shift", "nothing running"

Experts == {Cast[i] : i \in DOMAIN Cast}

\* An expert does not carry the id of a fixed role.
ASSUME CastAssumption ==
  /\ Cast \in Seq(STRING)
  /\ \A i, j \in DOMAIN Cast : Cast[i] = Cast[j] => i = j
  /\ Experts \cap PinnedSenders = {}
ASSUME BoundsAssumption == MaxAttempts \in Nat \ {0} /\ MaxKills \in Nat
ASSUME SizesAssumption == Sizes \subseteq Nat /\ AnswerSizes \subseteq Nat
ASSUME ClaimsAssumption == \A c \in Claims : c \subseteq Nat

Agents == Experts \X (1 .. MaxAttempts)

\* What is kept of a response.
Answers == [by : Agents, claim : Claims \cup {None}]

ASSUME NoneAssumption == None \notin Nat /\ None \notin Claims /\ None \notin Answers

VARIABLES
  msgs,      \* the messages of the round
  text,      \* text[e]: the prompt in prompt.txt of expert e
  artifact,  \* artifact[e]: the prompt that prompt-build.json of e describes
  cmd,       \* the prompt-build between its two writes
  built,     \* agents whose prompt-build returned ok to this coordinator
  asked,     \* asked[a]: the prompt agent a was spawned with
  answer,    \* answer[e]: the last response of e: the agent, and the triggers
             \* of the shift it reports
  redo,      \* experts this coordinator has to ask again
  final,     \* what the committed round says of shifts
  kills      \* number of coordinators killed

vars == <<msgs, text, artifact, cmd, built, asked, answer, redo, final, kills>>

prompts == <<text, artifact, cmd, built>>
responses == <<asked, answer, redo>>

-----------------------------------------------------------------------------
(* Faulty forms, one plausible bug each; none is part of the model.        *)

\* Spawn that takes any prompt.txt it finds.
SpawnUnbuilt(a) ==
  /\ cmd = None
  /\ final = None
  /\ asked[a] = None
  /\ text[a[1]] # None
  /\ asked' = [asked EXCEPT ![a] = text[a[1]]]
  /\ built' = built \ {a}
  /\ UNCHANGED <<msgs, text, artifact, cmd, answer, redo, final, kills>>

\* Unseen without the difference of full and gist.
UnseenUnlogged(shifts, log) ==
  {s.expert : s \in {x \in shifts : x.expert \notin DOMAIN log
                                      \/ ~ (x.trigger \subseteq DOMAIN log[x.expert])}}

\* Unseen in the context log of any expert instead of the shift's own.
UnseenByAnyone(shifts, log) ==
  {s.expert : s \in {x \in shifts :
     \E e \in DOMAIN log : \E t \in x.trigger :
       t \notin DOMAIN log[e] \/ log[e][t] # "full"}}

\* AskAgain that asks nobody: a refused shift is only reported.
AskNobody(refused) == {}

-----------------------------------------------------------------------------
(* The messages before the response phase.                                 *)

\* How many messages of a type the round has.
Posted(type) == Cardinality({i \in DOMAIN msgs : msgs[i].type = type})

\* append-message; the id is minted by the runtime (see Wal).
Post(from, type, size) ==
  /\ final = None
  /\ msgs' = Append(msgs, [from |-> from, type |-> type, role |-> "none",
                           size |-> size])

\* Step k of the round is the next one when the one before it is complete, and
\* an expert posts in it in the order of the spawn.
Everyone == Len(Cast)

Declare(z) ==
  /\ Posted("position_declaration") < Everyone
  /\ Post(Cast[Posted("position_declaration") + 1], "position_declaration", z)
  /\ UNCHANGED <<prompts, responses, final, kills>>

\* The moderator's framing, under the type the protocol or the fixtures give it.
Frame(type) ==
  /\ Posted("position_declaration") = Everyone
  /\ \A i \in DOMAIN msgs : msgs[i].from # "moderator"
  /\ Post("moderator", type, 1)
  /\ UNCHANGED <<prompts, responses, final, kills>>

Argue(z) ==
  /\ \E i \in DOMAIN msgs : msgs[i].from = "moderator"
  /\ Posted("argument") < Everyone
  /\ Post(Cast[Posted("argument") + 1], "argument", z)
  /\ UNCHANGED <<prompts, responses, final, kills>>

Stress ==
  /\ Posted("argument") = Everyone
  /\ Posted("stress_test") = 0
  /\ Post("contrarian", "stress_test", 1)
  /\ UNCHANGED <<prompts, responses, final, kills>>

-----------------------------------------------------------------------------
(* The response phase: prompt-build, spawn, collect.                       *)

\* The visibility map of the prompt built from the first n messages.
Shown(e, n) == Visibility("response", SubSeq(msgs, 1, n), e)

\* The agent that comes after those that have answered for its expert.
IsNext(a) ==
  IF answer[a[1]] = None THEN a[2] = 1 ELSE a[2] = answer[a[1]].by[2] + 1

\* The agent that is to answer, while the coordinator wants an answer.
Turn(a) ==
  /\ final = None
  /\ Posted("stress_test") > 0
  /\ answer[a[1]] = None \/ a[1] \in redo
  /\ IsNext(a)

\* cmd_prompt_build, first write.
BuildText(a) ==
  /\ cmd = None
  /\ Turn(a)
  /\ asked[a] = None
  /\ a \notin built
  /\ cmd' = [agent |-> a, of |-> Len(msgs)]
  /\ text' = [text EXCEPT ![a[1]] = Len(msgs)]
  /\ UNCHANGED <<msgs, artifact, built, responses, final, kills>>

\* Second write; the command returns ok.
BuildArtifact ==
  /\ cmd # None
  /\ artifact' = [artifact EXCEPT ![cmd.agent[1]] = cmd.of]
  /\ built' = built \cup {cmd.agent}
  /\ cmd' = None
  /\ UNCHANGED <<msgs, text, responses, final, kills>>

\* The host spawns an agent with the prompt of a prompt-build that succeeded.
Spawn(a) ==
  /\ cmd = None
  /\ final = None
  /\ a \in built
  /\ asked' = [asked EXCEPT ![a] = text[a[1]]]
  /\ built' = built \ {a}
  /\ UNCHANGED <<msgs, text, artifact, cmd, answer, redo, final, kills>>

\* Every trigger was in the prompt in full.
ShownInFull(trigger, visibility) ==
  \A t \in trigger : t \in DOMAIN visibility /\ visibility[t] = "full"

\* A shift the expert can report truthfully.
Honest(e, n, claim) ==
  claim # None => claim # {} /\ ShownInFull(claim, Shown(e, n))

\* The agent's answer is collected and posted.  The last attempt is honest: it
\* is the one from which on the expert is.
Answer(a, claim, z) ==
  /\ cmd = None
  /\ Turn(a)
  /\ asked[a] # None
  /\ a[2] = MaxAttempts => Honest(a[1], asked[a], claim)
  /\ Post(a[1], "response", z)
  /\ answer' = [answer EXCEPT ![a[1]] = [by |-> a, claim |-> claim]]
  /\ redo' = redo \ {a[1]}
  /\ UNCHANGED <<prompts, asked, final, kills>>

-----------------------------------------------------------------------------
(* The commit.                                                             *)

\* The positionShifts the coordinator passes: one per response that reports one.
Shifts == {[expert |-> e, trigger |-> answer[e].claim] :
             e \in {x \in Experts : answer[x].claim # None}}

\* The personaContextLog it passes for the experts in known: the map in the
\* prompt-build.json of each.
ContextLog(known) == [e \in known |-> Shown(e, artifact[e])]

\* validate_round_record, the part about position shifts: the experts whose
\* shift is refused, for n messages.
Untraced(shifts, n) ==
  {s.expert : s \in {x \in shifts : x.trigger = {} \/ ~ (x.trigger \subseteq 1 .. n)}}

Unseen(shifts, log) ==
  {s.expert : s \in {x \in shifts : x.expert \notin DOMAIN log
                                      \/ ~ ShownInFull(x.trigger, log[x.expert])}}

\* Shifts without any context log are refused as a whole.
Unverifiable(shifts, log) == shifts # {} /\ DOMAIN log = {}

Refused(shifts, log, n) ==
  Untraced(shifts, n) \cup
    (IF Unverifiable(shifts, log) THEN {} ELSE Unseen(shifts, log))

Valid(shifts, log, n) ==
  /\ Refused(shifts, log, n) = {}
  /\ ~ Unverifiable(shifts, log)

\* The coordinator asks the experts again whose shift was refused.
AskAgain(refused) == refused

\* finalize-round with the context log of the experts in known.
Finalize(known) ==
  /\ cmd = None
  /\ final = None
  /\ redo = {}
  /\ \A e \in Experts : answer[e] # None
  /\ LET log == ContextLog(known)
     IN  IF Valid(Shifts, log, Len(msgs))
         THEN /\ final' = [shifts |-> Shifts, log |-> log]
              /\ UNCHANGED redo
         ELSE /\ redo' = AskAgain(Refused(Shifts, log, Len(msgs)))
              /\ UNCHANGED final
  /\ UNCHANGED <<msgs, prompts, asked, answer, kills>>

\* The coordinator is killed, with the command it runs; what it knew is lost.
Kill ==
  /\ kills < MaxKills
  /\ final = None
  /\ cmd # None \/ built # {} \/ redo # {}
  /\ kills' = kills + 1
  /\ cmd' = None
  /\ built' = {}
  /\ redo' = {}
  /\ UNCHANGED <<msgs, text, artifact, asked, answer, final>>

-----------------------------------------------------------------------------
Init ==
  /\ msgs = <<>>
  /\ text = [e \in Experts |-> None]
  /\ artifact = [e \in Experts |-> None]
  /\ cmd = None
  /\ built = {}
  /\ asked = [a \in Agents |-> None]
  /\ answer = [e \in Experts |-> None]
  /\ redo = {}
  /\ final = None
  /\ kills = 0

Discuss ==
  \/ \E z \in Sizes : Declare(z) \/ Argue(z)
  \/ \E type \in {"opening", "moderator_opening"} : Frame(type)
  \/ Stress

Respond ==
  \/ \E a \in Agents :
       \/ BuildText(a)
       \/ Spawn(a)
       \/ \E claim \in Claims \cup {None}, z \in AnswerSizes : Answer(a, claim, z)
  \/ BuildArtifact

Commit == \E known \in {Experts, {}} : Finalize(known)

Next == Discuss \/ Respond \/ Commit \/ Kill

Spec == Init /\ [][Next]_vars

\* A coordinator that is not killed goes on, and asked agents answer.
Fairness == WF_vars(Discuss) /\ WF_vars(Respond) /\ WF_vars(Finalize(Experts))

FairSpec == Spec /\ Fairness
-----------------------------------------------------------------------------
(* Properties.                                                             *)

Senders == Experts \cup {"moderator", "contrarian"}
Types == {"position_declaration", "opening", "moderator_opening", "argument",
          "stress_test", "response"}

Message == [from : Senders, type : Types, role : {"none"}, size : Nat]

\* Every variable has its type.
TypeOK ==
  /\ msgs \in Seq(Message)
  /\ text \in [Experts -> Nat \cup {None}]
  /\ artifact \in [Experts -> Nat \cup {None}]
  /\ cmd \in [agent : Agents, of : Nat] \cup {None}
  /\ built \subseteq Agents
  /\ asked \in [Agents -> Nat \cup {None}]
  /\ answer \in [Experts -> Answers \cup {None}]
  /\ redo \subseteq Experts
  /\ final = None \/ DOMAIN final = {"shifts", "log"}
  /\ kills \in 0 .. MaxKills

\* As long as prompt.txt is what an agent was given, prompt-build.json beside it
\* describes that prompt, although the two are written one after the other and a
\* prompt-build killed in between leaves them apart.
RecordIsOfThePrompt ==
  \A a \in Agents :
    asked[a] # None /\ text[a[1]] = asked[a] => artifact[a[1]] = asked[a]

\* Each trigger of s was in full in the very prompt whose answer reported it.
WasShown(s) ==
  s.trigger # {} /\ ShownInFull(s.trigger, Shown(s.expert, asked[answer[s.expert].by]))

\* A prompt was built over the one whose answer of e counts.
BuiltOver(e) == text[e] # asked[answer[e].by]

\* No shift is committed that its expert was not shown the reasons of, whatever
\* experts cite and however often they are asked again, unless a coordinator was
\* killed when it had begun to ask that very expert again.
ShiftsWereShown ==
  final # None =>
    \A s \in final.shifts : WasShown(s) \/ (kills > 0 /\ BuiltOver(s.expert))

\* What the gate promises, without that exception (protocol/PROTOCOL.md:165):
\* every shift names at least one trigger that "the persona was shown IN FULL".
CommittedShiftsWereShown ==
  final # None =>
    \A s \in final.shifts : \E t \in s.trigger :
      ShownInFull({t}, Shown(s.expert, asked[answer[s.expert].by]))

\* The other way round: the validator refuses no shift whose expert was shown
\* what it cites.
HonestShiftsPass ==
  (\A e \in Experts : answer[e] # None) =>
    \A e \in Experts :
      Honest(e, asked[answer[e].by], answer[e].claim) =>
        e \notin Refused(Shifts, ContextLog(Experts), Len(msgs))

\* The window of e shows message j of a peer in full.
IsFullPeer(e, j) == IsPeer(msgs[j], e) /\ Shown(e, Len(msgs))[j] = "full"

\* The size of the full peer messages that are newer than each message.
NewerInFull(e) ==
  LET n == Len(msgs)
      size[i \in 0 .. n] ==
        IF i = n THEN 0
        ELSE size[i + 1] + (IF IsFullPeer(e, i + 1) THEN msgs[i + 1].size ELSE 0)
  IN  size

\* What the window shows of peers in full stays within the budget, and a peer
\* message is elided only if it does not fit beside the newer ones in full: a
\* long message in between does not end the window.
WindowIsGreedy ==
  \A e \in Experts :
    /\ NewerInFull(e)[0] <= Budget
    /\ \A i \in DOMAIN msgs :
         Shown(e, Len(msgs))[i] = "gist" =>
           msgs[i].size + NewerInFull(e)[i] > Budget

\* Every response prompt shows the stress test and the moderator's framing in
\* full, under either type, however many peer messages compete for the budget.
FixedRolesInFull ==
  \A a \in Agents : asked[a] # None =>
    \A i \in 1 .. asked[a] :
      msgs[i].from \in {"moderator", "contrarian"} => Shown(a[1], asked[a])[i] = "full"

\* An argumentation step that is interrupted and run again shows an expert what
\* the first run showed, nothing its peers argued in the meantime.
ArgumentationReplays ==
  \A e \in Experts : \A n \in 0 .. Len(msgs) :
    (\E i \in 1 .. n : msgs[i].from = "moderator") =>
      Visibility("argumentation", SubSeq(msgs, 1, n), e)
        = Visibility("argumentation", msgs, e)

\* The argumentation prompt carries the moderator's framing.
ArgumentationSeesFraming ==
  \A e \in Experts : \A i \in DOMAIN msgs :
    msgs[i].from = "moderator" => i \in DOMAIN Visibility("argumentation", msgs, e)

\* A round whose shifts are refused is repaired by asking again: it is committed
\* in the end.
EventuallyCommitted == <>(final # None)
=============================================================================
