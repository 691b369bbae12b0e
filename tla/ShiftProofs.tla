---------------------------- MODULE ShiftProofs ----------------------------
(***************************************************************************)
(* Proofs about Shift.  The provenance gate reads what was shown from the  *)
(* prompt-build.json of the expert, which the prompt of a later attempt    *)
(* overwrites.  It is complete all the same, and sound as long as no       *)
(* coordinator is killed while it asks an expert again: an expert is only  *)
(* asked again if its answer cites what it was not shown                   *)
(* (ReaskedIsDishonest), and only a coordinator that has forgotten that it *)
(* asks commits the earlier answer.                                        *)
(***************************************************************************)
EXTENDS Shift, FiniteSetTheorems, WellFoundedInduction, TLAPS

\* The prompts of an expert are built for the agent that is to answer next, and
\* prompt.txt is written before prompt-build.json.
BuildsInOrder ==
  /\ \A a \in built :
       /\ IsNext(a) /\ asked[a] = None
       /\ text[a[1]] # None /\ artifact[a[1]] = text[a[1]]
  /\ cmd # None =>
       /\ IsNext(cmd.agent) /\ asked[cmd.agent] = None
       /\ cmd.agent \notin built
       /\ text[cmd.agent[1]] = cmd.of

\* Prompts are built from messages that are in the log.
PromptsOfTheLog ==
  /\ \A e \in Experts : text[e] # None => text[e] <= Len(msgs)
  /\ \A a \in Agents : asked[a] # None => asked[a] <= Len(msgs)

\* An answer comes from an agent of its expert that was given a prompt.
AnswersWereAsked ==
  \A e \in Experts : answer[e] # None =>
    answer[e].by[1] = e /\ asked[answer[e].by] # None

\* Nobody is asked before its turn.  Those that have had theirs were given a prompt
\* without the answer they gave; the prompt of the one whose turn it is, is still
\* there.
AskedInTurn ==
  \A a \in Agents : asked[a] # None =>
    \/ IsNext(a) /\ text[a[1]] = asked[a]
    \/ /\ answer[a[1]] # None
       /\ a[2] <= answer[a[1]].by[2]
       /\ asked[a] < Len(msgs)

\* The answer of e that counts cites only what its agent was shown.
IsHonest(e) == Honest(e, asked[answer[e].by], answer[e].claim)

\* Only an expert whose answer is not honest is asked again, and only a coordinator
\* that was killed does not know that it asks.
ReaskedIsDishonest ==
  /\ \A e \in redo : answer[e] # None /\ ~ IsHonest(e)
  /\ \A e \in Experts : answer[e] # None /\ BuiltOver(e) =>
       ~ IsHonest(e) /\ (kills = 0 => e \in redo)

IInv ==
  /\ TypeOK
  /\ RecordIsOfThePrompt
  /\ BuildsInOrder
  /\ PromptsOfTheLog
  /\ AnswersWereAsked
  /\ AskedInTurn
  /\ ReaskedIsDishonest
  /\ ShiftsWereShown

-----------------------------------------------------------------------------
(* Facts about the operators.                                              *)

\* An agent has its expert and its number.
LEMMA AgentIs ==
  ASSUME NEW a \in Agents
  PROVE  a[1] \in Experts /\ a[2] \in 1 .. MaxAttempts /\ a = <<a[1], a[2]>>
BY DEF Agents

\* There is one agent of an expert whose turn it is.
LEMMA NextIsUnique ==
  ASSUME NEW a \in Agents, NEW b \in Agents, a[1] = b[1], IsNext(a), IsNext(b)
  PROVE  a = b
<1>1. a[2] = b[2]
  BY DEF IsNext
<1> QED BY <1>1, AgentIs

\* An agent that has been asked and is not the next has had its turn.
LEMMA HadItsTurn ==
  ASSUME TypeOK, AskedInTurn, NEW a \in Agents, NEW b \in Agents,
         asked[a] # None, asked[b] = None, a[1] = b[1], IsNext(b)
  PROVE  /\ answer[a[1]] # None /\ a[2] <= answer[a[1]].by[2]
         /\ asked[a] < Len(msgs)
<1>1. ~ IsNext(a)
  BY NextIsUnique
<1> QED BY <1>1 DEF AskedInTurn

\* The response prompt leaves out no message it was built from.
LEMMA ShownDomain ==
  ASSUME NEW e, NEW n \in Nat, msgs \in Seq(Message), n <= Len(msgs)
  PROVE  DOMAIN Shown(e, n) = 1 .. n
<1> DEFINE prefix == SubSeq(msgs, 1, n)
<1>1. prefix \in Seq(Message) /\ DOMAIN prefix = 1 .. n
  OBVIOUS
<1>2. Shown(e, n) = ResponseVisibility(prefix, e)
  BY DEF Shown, Visibility, FixedRolePhases
<1>3. DOMAIN ResponseVisibility(prefix, e) = DOMAIN prefix
  BY DEF ResponseVisibility
<1> QED BY <1>1, <1>2, <1>3

\* How many messages of a type there are is a number.
LEMMA PostedIsNat ==
  ASSUME msgs \in Seq(Message), NEW type PROVE Posted(type) \in Nat
<1>1. IsFiniteSet(1 .. Len(msgs))
  BY FS_Interval
<1>2. DOMAIN msgs = 1 .. Len(msgs)
  OBVIOUS
<1>3. IsFiniteSet({i \in DOMAIN msgs : msgs[i].type = type})
  BY <1>1, <1>2, FS_Subset
<1> QED BY <1>3, FS_CardinalityType DEF Posted

\* Posting a message appends one message to the log.
LEMMA Appended ==
  ASSUME msgs \in Seq(Message), NEW m \in Message, msgs' = Append(msgs, m)
  PROVE  msgs' \in Seq(Message) /\ Len(msgs') = Len(msgs) + 1 /\ Len(msgs) \in Nat
  OBVIOUS

\* A posted message, and what a posting step leaves alone.
LEMMA Posting ==
  ASSUME NEW from \in Senders, NEW type \in Types, NEW size \in Nat,
         Post(from, type, size)
  PROVE  final = None /\ \E m \in Message : msgs' = Append(msgs, m)
<1> DEFINE m == [from |-> from, type |-> type, role |-> "none", size |-> size]
<1>1. m \in Message
  BY DEF Message
<1>2. final = None /\ msgs' = Append(msgs, m)
  BY DEF Post
<1> QED BY <1>1, <1>2

\* A prompt shows what it was built from, whatever is posted later.
LEMMA ShownStays ==
  ASSUME msgs \in Seq(Message), NEW m \in Message, msgs' = Append(msgs, m),
         NEW e, NEW n \in Nat, n <= Len(msgs)
  PROVE  SubSeq(msgs', 1, n) = SubSeq(msgs, 1, n)
         /\ Visibility("response", SubSeq(msgs', 1, n), e) = Shown(e, n)
<1>1. SubSeq(msgs', 1, n) = SubSeq(msgs, 1, n)
  OBVIOUS
<1> QED BY <1>1 DEF Shown

\* An answer stays honest or dishonest while the log grows.
LEMMA HonestyStays ==
  ASSUME TypeOK, PromptsOfTheLog, AnswersWereAsked,
         NEW m \in Message, msgs' = Append(msgs, m), NEW e \in Experts,
         answer[e] # None, asked' = asked, answer'[e] = answer[e]
  PROVE  IsHonest(e)' <=> IsHonest(e)
<1> DEFINE n == asked[answer[e].by]
<1>1. n \in Nat /\ n <= Len(msgs) /\ msgs \in Seq(Message)
  <2>1. answer[e].by \in Agents /\ n # None
    BY DEF TypeOK, AnswersWereAsked, Answers
  <2> QED BY <2>1 DEF TypeOK, PromptsOfTheLog
<1>2. Visibility("response", SubSeq(msgs', 1, n), e) = Shown(e, n)
  BY <1>1, ShownStays
<1>3. Shown(e, n)' = Shown(e, n)
  <2>1. n' = n
    OBVIOUS
  <2> QED BY <1>2, <2>1 DEF Shown
<1>4. (asked[answer[e].by])' = n /\ (answer[e].claim)' = answer[e].claim
  OBVIOUS
<1>5. IsHonest(e) <=> (answer[e].claim # None =>
                         answer[e].claim # {} /\ ShownInFull(answer[e].claim, Shown(e, n)))
  BY DEF IsHonest, Honest
<1>6. IsHonest(e)' <=> (answer[e].claim # None =>
                         answer[e].claim # {} /\ ShownInFull(answer[e].claim, Shown(e, n)))
  BY <1>3, <1>4 DEF IsHonest, Honest, ShownInFull
<1> QED BY <1>5, <1>6

\* Posting before the responses leaves prompts and responses alone.
LEMMA PostKeeps ==
  ASSUME IInv, NEW m \in Message, final = None, msgs' = Append(msgs, m),
         UNCHANGED <<prompts, responses, final, kills>>
  PROVE  IInv'
<1>1. /\ msgs' \in Seq(Message) /\ Len(msgs') = Len(msgs) + 1
      /\ Len(msgs) \in Nat
  BY Appended DEF IInv, TypeOK
<1> USE DEF prompts, responses
<1>2. TypeOK'
  BY <1>1 DEF IInv, TypeOK
<1>3. RecordIsOfThePrompt'
  BY DEF IInv, RecordIsOfThePrompt
<1>4. BuildsInOrder'
  BY DEF IInv, BuildsInOrder, IsNext
<1>5. PromptsOfTheLog'
  BY <1>1 DEF IInv, PromptsOfTheLog, TypeOK
<1>6. AnswersWereAsked'
  BY DEF IInv, AnswersWereAsked
<1>7. AskedInTurn'
  BY <1>1 DEF IInv, TypeOK, AskedInTurn, IsNext
<1>8. ReaskedIsDishonest'
  <2>1. \A e \in Experts : answer[e] # None => (IsHonest(e)' <=> IsHonest(e))
    BY HonestyStays DEF IInv
  <2>2. redo \subseteq Experts
    BY DEF IInv, TypeOK
  <2> QED BY <2>1, <2>2 DEF IInv, ReaskedIsDishonest, BuiltOver
<1>9. ShiftsWereShown'
  BY DEF ShiftsWereShown
<1> QED BY <1>2, <1>3, <1>4, <1>5, <1>6, <1>7, <1>8, <1>9 DEF IInv

LEMMA PostingKeeps ==
  ASSUME IInv, NEW from \in Senders, NEW type \in Types, NEW size \in Nat,
         Post(from, type, size), UNCHANGED <<prompts, responses, final, kills>>
  PROVE  IInv'
<1>1. PICK m \in Message : msgs' = Append(msgs, m) /\ final = None
  BY Posting
<1> QED BY <1>1, PostKeeps

LEMMA CastTyping == ASSUME NEW i \in DOMAIN Cast PROVE Cast[i] \in Experts
  BY DEF Experts

-----------------------------------------------------------------------------
(* The initial states.                                                     *)

LEMMA InitIInv == Init => IInv
  BY BoundsAssumption, NoneAssumption
  DEF Init, IInv, TypeOK, RecordIsOfThePrompt, BuildsInOrder, PromptsOfTheLog,
      AnswersWereAsked, AskedInTurn, ReaskedIsDishonest, ShiftsWereShown, Answers,
      Message

-----------------------------------------------------------------------------
(* The steps of the response phase.                                        *)

LEMMA BuildTextKeeps ==
  ASSUME IInv, NEW a \in Agents, BuildText(a) PROVE IInv'
<1> USE DEF responses
<1> DEFINE e == a[1]
<1>1. /\ cmd = None /\ asked[a] = None /\ a \notin built /\ final = None
      /\ IsNext(a) /\ (answer[e] = None \/ e \in redo)
      /\ cmd' = [agent |-> a, of |-> Len(msgs)]
      /\ text' = [text EXCEPT ![e] = Len(msgs)]
      /\ UNCHANGED <<msgs, artifact, built, asked, answer, redo, final, kills>>
  BY DEF BuildText, Turn
<1>0. Len(msgs) \in Nat /\ e \in Experts
  BY AgentIs DEF IInv, TypeOK
<1>a. \A b \in Agents : asked[b] # None /\ b[1] = e =>
        /\ answer[e] # None /\ b[2] <= answer[e].by[2] /\ asked[b] < Len(msgs)
  BY <1>1, HadItsTurn DEF IInv
<1>2. TypeOK'
  BY <1>0, <1>1 DEF IInv, TypeOK
<1>3. RecordIsOfThePrompt'
  <2> SUFFICES ASSUME NEW b \in Agents, asked[b] # None, text'[b[1]] = asked[b]
               PROVE  artifact[b[1]] = asked[b]
    BY <1>1 DEF RecordIsOfThePrompt
  <2>1. CASE b[1] = e
    <3>1. text'[e] = Len(msgs) /\ asked[b] < Len(msgs) /\ asked[b] \in Nat
      BY <1>0, <1>1, <1>a, <2>1 DEF IInv, TypeOK
    <3> QED BY <1>0, <2>1, <3>1
  <2>2. CASE b[1] # e
    <3>1. text'[b[1]] = text[b[1]]
      BY <1>1, <2>2, AgentIs DEF IInv, TypeOK
    <3> QED BY <3>1 DEF IInv, RecordIsOfThePrompt
  <2> QED BY <2>1, <2>2
<1>4. BuildsInOrder'
  <2>1. \A b \in built : b[1] # e
    <3>1. built \subseteq Agents
      BY DEF IInv, TypeOK
    <3>2. \A b \in built : IsNext(b)
      BY DEF IInv, BuildsInOrder
    <3> QED BY <1>1, <3>1, <3>2, NextIsUnique
  <2>2. \A b \in built : text'[b[1]] = text[b[1]]
    BY <1>1, <2>1, AgentIs DEF IInv, TypeOK
  <2>3. \A b \in Agents : IsNext(b)' <=> IsNext(b)
    BY <1>1 DEF IsNext
  <2>4. \A b \in built' :
          /\ IsNext(b)' /\ asked'[b] = None
          /\ text'[b[1]] # None /\ artifact'[b[1]] = text'[b[1]]
    BY <1>1, <2>2, <2>3 DEF IInv, TypeOK, BuildsInOrder
  <2>5. /\ cmd'.agent = a /\ cmd'.of = Len(msgs) /\ text'[e] = Len(msgs)
    BY <1>0, <1>1 DEF IInv, TypeOK
  <2>6. /\ IsNext(cmd.agent)' /\ asked'[cmd'.agent] = None
        /\ cmd'.agent \notin built'
        /\ text'[cmd'.agent[1]] = cmd'.of
    BY <1>1, <2>5 DEF IsNext
  <2> QED BY <2>4, <2>6 DEF BuildsInOrder
<1>5. PromptsOfTheLog'
  BY <1>0, <1>1 DEF IInv, TypeOK, PromptsOfTheLog
<1>6. AnswersWereAsked'
  BY <1>1 DEF IInv, AnswersWereAsked
<1>7. AskedInTurn'
  <2> SUFFICES ASSUME NEW b \in Agents, asked[b] # None
               PROVE  \/ IsNext(b) /\ text'[b[1]] = asked[b]
                      \/ /\ answer[b[1]] # None
                         /\ b[2] <= answer[b[1]].by[2]
                         /\ asked[b] < Len(msgs)
    BY <1>1 DEF AskedInTurn, IsNext
  <2>1. CASE b[1] = e
    BY <1>a, <2>1
  <2>2. CASE b[1] # e
    <3>1. text'[b[1]] = text[b[1]]
      BY <1>1, <2>2, AgentIs DEF IInv, TypeOK
    <3> QED BY <3>1 DEF IInv, AskedInTurn
  <2> QED BY <2>1, <2>2
<1>8. ReaskedIsDishonest'
  <2>1. \A x \in Experts : IsHonest(x)' <=> IsHonest(x)
    BY <1>1 DEF IsHonest, Honest, ShownInFull, Shown
  <2>2. \A x \in redo' : answer'[x] # None /\ ~ IsHonest(x)'
    BY <1>1, <2>1 DEF IInv, TypeOK, ReaskedIsDishonest
  <2>3. ASSUME NEW x \in Experts, answer[x] # None, BuiltOver(x)'
        PROVE  ~ IsHonest(x) /\ (kills = 0 => x \in redo)
    <3>1. CASE x = e
      BY <1>1, <2>3, <3>1 DEF IInv, ReaskedIsDishonest
    <3>2. CASE x # e
      <4>1. BuiltOver(x)
        BY <1>1, <2>3, <3>2 DEF IInv, TypeOK, BuiltOver
      <4> QED BY <2>3, <4>1 DEF IInv, ReaskedIsDishonest
    <3> QED BY <3>1, <3>2
  <2> QED BY <1>1, <2>1, <2>2, <2>3 DEF ReaskedIsDishonest
<1>9. ShiftsWereShown'
  BY <1>1 DEF ShiftsWereShown
<1> QED BY <1>2, <1>3, <1>4, <1>5, <1>6, <1>7, <1>8, <1>9 DEF IInv

LEMMA BuildArtifactKeeps ==
  ASSUME IInv, BuildArtifact PROVE IInv'
<1> USE DEF responses
<1> DEFINE a == cmd.agent
           e == a[1]
<1>1. /\ cmd # None /\ a \in Agents /\ e \in Experts /\ cmd.of \in Nat
      /\ IsNext(a) /\ asked[a] = None /\ a \notin built /\ text[e] = cmd.of
      /\ artifact' = [artifact EXCEPT ![e] = cmd.of]
      /\ built' = built \cup {a}
      /\ cmd' = None
      /\ UNCHANGED <<msgs, text, asked, answer, redo, final, kills>>
  <2>1. cmd # None /\ cmd \in [agent : Agents, of : Nat]
    BY DEF BuildArtifact, IInv, TypeOK
  <2> QED BY <2>1, AgentIs DEF BuildArtifact, IInv, BuildsInOrder
<1>2. TypeOK'
  BY <1>1 DEF IInv, TypeOK
<1>3. RecordIsOfThePrompt'
  <2> SUFFICES ASSUME NEW b \in Agents, asked[b] # None, text[b[1]] = asked[b]
               PROVE  artifact'[b[1]] = asked[b]
    BY <1>1 DEF RecordIsOfThePrompt
  <2>1. artifact'[b[1]] = IF b[1] = e THEN text[e] ELSE artifact[b[1]]
    BY <1>1, AgentIs DEF IInv, TypeOK
  <2> QED BY <2>1 DEF IInv, RecordIsOfThePrompt
<1>4. BuildsInOrder'
  <2>1. \A b \in Agents : IsNext(b)' <=> IsNext(b)
    BY <1>1 DEF IsNext
  <2>2. \A b \in built' : b \in Agents /\ IsNext(b) /\ asked[b] = None
    BY <1>1 DEF IInv, TypeOK, BuildsInOrder
  <2>3. ASSUME NEW b \in built' PROVE text[b[1]] # None /\ artifact'[b[1]] = text[b[1]]
    <3>1. CASE b = a
      BY <1>1, <3>1, NoneAssumption DEF IInv, TypeOK
    <3>2. CASE b \in built /\ b # a
      <4>1. b[1] # e
        BY <1>1, <2>2, <3>2, NextIsUnique
      <4>2. artifact'[b[1]] = artifact[b[1]]
        BY <1>1, <2>2, <4>1, AgentIs DEF IInv, TypeOK
      <4> QED BY <3>2, <4>2 DEF IInv, BuildsInOrder
    <3> QED BY <1>1, <3>1, <3>2
  <2> QED BY <1>1, <2>1, <2>2, <2>3 DEF BuildsInOrder
<1>5. PromptsOfTheLog'
  BY <1>1 DEF IInv, PromptsOfTheLog
<1>6. AnswersWereAsked'
  BY <1>1 DEF IInv, AnswersWereAsked
<1>7. AskedInTurn'
  BY <1>1 DEF IInv, AskedInTurn, IsNext
<1>8. ReaskedIsDishonest'
  BY <1>1 DEF IInv, ReaskedIsDishonest, BuiltOver, IsHonest, Honest, ShownInFull, Shown
<1>9. ShiftsWereShown'
  BY <1>1 DEF IInv, ShiftsWereShown, BuiltOver, WasShown, Shown, ShownInFull
<1> QED BY <1>2, <1>3, <1>4, <1>5, <1>6, <1>7, <1>8, <1>9 DEF IInv

LEMMA SpawnKeeps ==
  ASSUME IInv, NEW a \in Agents, Spawn(a) PROVE IInv'
<1> DEFINE e == a[1]
<1>1. /\ cmd = None /\ final = None /\ IsNext(a) /\ e \in Experts
      /\ asked[a] = None /\ text[e] # None /\ artifact[e] = text[e]
      /\ asked' = [asked EXCEPT ![a] = text[e]]
      /\ built' = built \ {a}
      /\ UNCHANGED <<msgs, text, artifact, cmd, answer, redo, final, kills>>
  BY AgentIs DEF Spawn, IInv, BuildsInOrder
<1>a. asked'[a] = text[e] /\ \A b \in Agents : b # a => asked'[b] = asked[b]
  BY <1>1 DEF IInv, TypeOK
<1>2. TypeOK'
  BY <1>1 DEF IInv, TypeOK
<1>3. RecordIsOfThePrompt'
  BY <1>1, <1>a DEF IInv, RecordIsOfThePrompt
<1>4. BuildsInOrder'
  <2>1. \A b \in Agents : IsNext(b)' <=> IsNext(b)
    BY <1>1 DEF IsNext
  <2>2. built \subseteq Agents
    BY DEF IInv, TypeOK
  <2> QED BY <1>1, <1>a, <2>1, <2>2 DEF IInv, BuildsInOrder
<1>5. PromptsOfTheLog'
  BY <1>1, <1>a DEF IInv, TypeOK, PromptsOfTheLog
<1>6. AnswersWereAsked'
  BY <1>1, <1>a DEF IInv, TypeOK, AnswersWereAsked, Answers
<1>7. AskedInTurn'
  BY <1>1, <1>a DEF IInv, AskedInTurn, IsNext
<1>8. ReaskedIsDishonest'
  <2>1. ASSUME NEW x \in Experts, answer[x] # None
        PROVE  asked'[answer[x].by] = asked[answer[x].by]
    BY <1>1, <1>a, <2>1 DEF IInv, TypeOK, AnswersWereAsked, Answers
  <2>2. ASSUME NEW x \in Experts, answer[x] # None
        PROVE  (IsHonest(x)' <=> IsHonest(x)) /\ (BuiltOver(x)' <=> BuiltOver(x))
    BY <1>1, <2>1, <2>2 DEF IsHonest, Honest, ShownInFull, Shown, BuiltOver
  <2>3. redo \subseteq Experts
    BY DEF IInv, TypeOK
  <2> QED BY <1>1, <2>2, <2>3 DEF IInv, ReaskedIsDishonest
<1>9. ShiftsWereShown'
  BY <1>1 DEF ShiftsWereShown
<1> QED BY <1>2, <1>3, <1>4, <1>5, <1>6, <1>7, <1>8, <1>9 DEF IInv

LEMMA AnswerKeeps ==
  ASSUME IInv, NEW a \in Agents, NEW claim \in Claims \cup {None},
         NEW z \in AnswerSizes, Answer(a, claim, z)
  PROVE  IInv'
<1> USE DEF prompts
<1> DEFINE e == a[1]
           m == [from |-> e, type |-> "response", role |-> "none", size |-> z]
<1>1. e \in Experts /\ z \in Nat
  BY SizesAssumption, AgentIs
<1>2. /\ cmd = None /\ final = None /\ IsNext(a) /\ asked[a] # None
      /\ answer' = [answer EXCEPT ![e] = [by |-> a, claim |-> claim]]
      /\ redo' = redo \ {e}
      /\ msgs' = Append(msgs, m)
      /\ UNCHANGED <<text, artifact, cmd, built, asked, final, kills>>
  BY DEF Answer, Turn, Post
<1>3. m \in Message
  BY <1>1 DEF Message, Senders, Types
<1> HIDE DEF m
<1>4. msgs' \in Seq(Message) /\ Len(msgs') = Len(msgs) + 1 /\ Len(msgs) \in Nat
  <2>1. msgs \in Seq(Message)
    BY DEF IInv, TypeOK
  <2> QED BY <1>2, <1>3, <2>1, Appended
<1>a. /\ answer'[e] = [by |-> a, claim |-> claim] /\ answer'[e] # None
      /\ \A x \in Experts : x # e => answer'[x] = answer[x]
  <2>1. answer'[e] = [by |-> a, claim |-> claim]
        /\ \A x \in Experts : x # e => answer'[x] = answer[x]
    BY <1>1, <1>2 DEF IInv, TypeOK
  <2> QED BY <2>1, NoneAssumption DEF Answers
<1>b. text[e] = asked[a]
  <2>1. CASE answer[e] # None /\ a[2] <= answer[e].by[2]
    <3>1. answer[e].by \in Agents
      BY <1>1, <2>1 DEF IInv, TypeOK, Answers
    <3> QED BY <1>2, <2>1, <3>1, AgentIs DEF IsNext
  <2> QED BY <1>2, <2>1 DEF IInv, AskedInTurn
<1>5. TypeOK'
  BY <1>1, <1>2, <1>4 DEF IInv, TypeOK, Answers
<1>6. RecordIsOfThePrompt'
  BY <1>2 DEF IInv, RecordIsOfThePrompt
<1>7. BuildsInOrder'
  <2>1. \A b \in built : b \in Agents /\ b[1] \in Experts /\ b[1] # e
    <3>1. \A b \in built : b \in Agents /\ IsNext(b) /\ b # a
      BY <1>2 DEF IInv, TypeOK, BuildsInOrder
    <3> QED BY <1>2, <3>1, NextIsUnique, AgentIs
  <2>2. \A b \in built : IsNext(b)' <=> IsNext(b)
    BY <1>a, <2>1 DEF IsNext
  <2> QED BY <1>2, <2>2 DEF IInv, BuildsInOrder
<1>8. PromptsOfTheLog'
  BY <1>2, <1>4 DEF IInv, TypeOK, PromptsOfTheLog
<1>9. AnswersWereAsked'
  BY <1>1, <1>2, <1>a DEF IInv, AnswersWereAsked
<1>10. AskedInTurn'
  <2> SUFFICES ASSUME NEW b \in Agents, asked[b] # None
               PROVE  \/ IsNext(b)' /\ text[b[1]] = asked[b]
                      \/ /\ answer'[b[1]] # None
                         /\ b[2] <= answer'[b[1]].by[2]
                         /\ asked[b] < Len(msgs')
    BY <1>2 DEF AskedInTurn
  <2>1. asked[b] < Len(msgs')
    BY <1>4 DEF IInv, TypeOK, PromptsOfTheLog
  <2>2. CASE b[1] = e
    <3>1. b[2] <= a[2]
      <4>1. CASE IsNext(b)
        BY <1>2, <2>2, <4>1, NextIsUnique, AgentIs
      <4>2. CASE answer[e] # None /\ b[2] <= answer[e].by[2]
        <5>1. answer[e].by[2] \in Nat /\ a[2] = answer[e].by[2] + 1
          <6>1. answer[e].by \in Agents
            BY <1>1, <4>2 DEF IInv, TypeOK, Answers
          <6> QED BY <1>2, <4>2, <6>1, AgentIs DEF IsNext
        <5> QED BY <4>2, <5>1, AgentIs
      <4> QED BY <2>2, <4>1, <4>2 DEF IInv, AskedInTurn
    <3> QED BY <1>a, <2>1, <2>2, <3>1
  <2>3. CASE b[1] # e
    <3>1. answer'[b[1]] = answer[b[1]]
      BY <1>a, <2>3, AgentIs
    <3> QED BY <2>1, <3>1 DEF IInv, AskedInTurn, IsNext
  <2> QED BY <2>2, <2>3
<1>11. ReaskedIsDishonest'
  <2>1. ASSUME NEW x \in Experts, x # e, answer[x] # None
        PROVE  (IsHonest(x)' <=> IsHonest(x)) /\ (BuiltOver(x)' <=> BuiltOver(x))
    <3>1. IsHonest(x)' <=> IsHonest(x)
      BY <1>2, <1>3, <1>a, <2>1, HonestyStays DEF IInv
    <3> QED BY <1>2, <1>a, <2>1, <3>1 DEF BuiltOver
  <2>2. ~ BuiltOver(e)'
    BY <1>2, <1>a, <1>b DEF BuiltOver
  <2>3. redo \subseteq Experts
    BY DEF IInv, TypeOK
  <2>4. \A x \in redo' : answer'[x] # None /\ ~ IsHonest(x)'
    BY <1>2, <1>a, <2>1, <2>3 DEF IInv, ReaskedIsDishonest
  <2>5. \A x \in Experts : answer'[x] # None /\ BuiltOver(x)' =>
          ~ IsHonest(x)' /\ (kills' = 0 => x \in redo')
    BY <1>2, <1>a, <2>1, <2>2 DEF IInv, ReaskedIsDishonest
  <2> QED BY <2>4, <2>5 DEF ReaskedIsDishonest
<1>12. ShiftsWereShown'
  BY <1>2 DEF ShiftsWereShown
<1> QED BY <1>5, <1>6, <1>7, <1>8, <1>9, <1>10, <1>11, <1>12 DEF IInv

-----------------------------------------------------------------------------
(* The commit.                                                             *)

\* The context log says of an expert what the prompt it answered showed it,
\* unless another prompt was built over that.
LEMMA LogIsOfThePrompt ==
  ASSUME IInv, NEW known, NEW e \in Experts, e \in known, answer[e] # None,
         ~ BuiltOver(e)
  PROVE  ContextLog(known)[e] = Shown(e, asked[answer[e].by])
<1>1. /\ answer[e].by \in Agents /\ answer[e].by[1] = e
      /\ asked[answer[e].by] # None
  BY DEF IInv, TypeOK, AnswersWereAsked, Answers
<1>2. artifact[e] = asked[answer[e].by]
  BY <1>1 DEF IInv, RecordIsOfThePrompt, BuiltOver
<1> QED BY <1>2 DEF ContextLog

\* What the validator accepts was shown, with the same exception.
LEMMA AcceptedWasShown ==
  ASSUME IInv, NEW known \in SUBSET Experts,
         \A e \in Experts : answer[e] # None,
         Valid(Shifts, ContextLog(known), Len(msgs)),
         NEW s \in Shifts, ~ BuiltOver(s.expert)
  PROVE  WasShown(s)
<1> DEFINE log == ContextLog(known)
<1>1. s.expert \in Experts
  BY DEF Shifts
<1>2. s.expert \notin Refused(Shifts, log, Len(msgs)) /\ ~ Unverifiable(Shifts, log)
  BY DEF Valid
<1>3. s.expert \notin Untraced(Shifts, Len(msgs)) /\ s.expert \notin Unseen(Shifts, log)
  BY <1>2 DEF Refused
<1>4. s.trigger # {}
  BY <1>3 DEF Untraced
<1>5. s.expert \in DOMAIN log /\ ShownInFull(s.trigger, log[s.expert])
  BY <1>3 DEF Unseen
<1>6. s.expert \in known
  BY <1>5 DEF ContextLog
<1> QED BY <1>1, <1>4, <1>5, <1>6, LogIsOfThePrompt DEF WasShown

\* An honest answer was not built over, and its shift is not refused.
LEMMA HonestIsAccepted ==
  ASSUME IInv, NEW known \in SUBSET Experts,
         \A x \in Experts : answer[x] # None,
         NEW e \in Experts, IsHonest(e)
  PROVE  e \notin Refused(Shifts, ContextLog(known), Len(msgs))
         \/ (known # {} /\ e \notin known)
<1> SUFFICES ASSUME e \in Refused(Shifts, ContextLog(known), Len(msgs)),
                    known = {} \/ e \in known
             PROVE  FALSE
  OBVIOUS
<1> DEFINE n == asked[answer[e].by]
           claim == answer[e].claim
           log == ContextLog(known)
<1>1. DOMAIN log = known
  BY DEF ContextLog
<1>2. e \in Untraced(Shifts, Len(msgs)) \/ (e \in known /\ e \in Unseen(Shifts, log))
  <2>1. CASE known = {}
    <3>1. Shifts # {} => Unverifiable(Shifts, log)
      BY <1>1, <2>1 DEF Unverifiable
    <3>2. Shifts = {} => Unseen(Shifts, log) = {}
      BY DEF Unseen
    <3> QED BY <3>1, <3>2 DEF Refused
  <2>2. CASE e \in known
    BY <2>2 DEF Refused
  <2> QED BY <2>1, <2>2
<1>3. PICK s \in Shifts :
        /\ s.expert = e
        /\ \/ s.trigger = {} \/ ~ (s.trigger \subseteq 1 .. Len(msgs))
           \/ e \in known /\ ~ ShownInFull(s.trigger, log[e])
  BY <1>1, <1>2 DEF Untraced, Unseen
<1>4. s.trigger = claim /\ claim # None
  BY <1>3 DEF Shifts
<1>5. claim # {} /\ ShownInFull(claim, Shown(e, n))
  BY <1>4 DEF Honest, IsHonest
<1>6. n \in Nat /\ n <= Len(msgs) /\ msgs \in Seq(Message)
  <2>1. answer[e].by \in Agents /\ n # None
    BY DEF IInv, TypeOK, AnswersWereAsked, Answers
  <2> QED BY <2>1 DEF IInv, TypeOK, PromptsOfTheLog
<1>7. claim \subseteq 1 .. Len(msgs)
  <2>1. claim \subseteq 1 .. n
    BY <1>5, <1>6, ShownDomain DEF ShownInFull
  <2> QED BY <1>6, <2>1
<1>8. ~ BuiltOver(e)
  BY DEF IInv, ReaskedIsDishonest
<1>9. e \in known => log[e] = Shown(e, n)
  BY <1>8, LogIsOfThePrompt
<1> QED BY <1>3, <1>4, <1>5, <1>7, <1>9

LEMMA FinalizeKeeps ==
  ASSUME IInv, NEW known \in {Experts, {}}, Finalize(known) PROVE IInv'
<1> USE DEF prompts
<1> DEFINE log == ContextLog(known)
<1>1. /\ \A e \in Experts : answer[e] # None
      /\ redo = {} /\ final = None
      /\ UNCHANGED <<msgs, text, artifact, cmd, built, asked, answer, kills>>
  BY DEF Finalize
<1>2. \/ /\ Valid(Shifts, log, Len(msgs))
         /\ final' = [shifts |-> Shifts, log |-> log]
         /\ UNCHANGED redo
      \/ /\ final' = None
         /\ redo' = Refused(Shifts, log, Len(msgs))
  BY <1>1 DEF Finalize, AskAgain
<1>a. Refused(Shifts, log, Len(msgs)) \subseteq Experts
  BY DEF Refused, Untraced, Unseen, Shifts
<1>b. \A e \in Experts : (IsHonest(e)' <=> IsHonest(e)) /\ (BuiltOver(e)' <=> BuiltOver(e))
  BY <1>1 DEF IsHonest, Honest, ShownInFull, Shown, BuiltOver
<1>3. TypeOK'
  BY <1>1, <1>2, <1>a DEF IInv, TypeOK
<1>4. RecordIsOfThePrompt'
  BY <1>1 DEF IInv, RecordIsOfThePrompt
<1>5. BuildsInOrder'
  BY <1>1 DEF IInv, BuildsInOrder, IsNext
<1>6. PromptsOfTheLog'
  BY <1>1 DEF IInv, PromptsOfTheLog
<1>7. AnswersWereAsked'
  BY <1>1 DEF IInv, AnswersWereAsked
<1>8. AskedInTurn'
  BY <1>1 DEF IInv, AskedInTurn, IsNext
<1>9. ReaskedIsDishonest'
  <2>1. \A e \in redo' : e \in Experts /\ ~ IsHonest(e)
    <3>1. \A e \in Refused(Shifts, log, Len(msgs)) : e \in Experts /\ ~ IsHonest(e)
      BY <1>1, <1>a, HonestIsAccepted
    <3> QED BY <1>1, <1>2, <3>1
  <2>2. \A e \in Experts : BuiltOver(e) => ~ IsHonest(e) /\ kills # 0
    BY <1>1 DEF IInv, ReaskedIsDishonest
  <2> QED BY <1>1, <1>b, <2>1, <2>2 DEF ReaskedIsDishonest
<1>10. ShiftsWereShown'
  <2>1. CASE Valid(Shifts, log, Len(msgs)) /\ final' = [shifts |-> Shifts, log |-> log]
    <3>1. ASSUME NEW s \in Shifts
          PROVE  WasShown(s) \/ (kills > 0 /\ BuiltOver(s.expert))
      <4>1. s.expert \in Experts
        BY DEF Shifts
      <4>2. CASE ~ BuiltOver(s.expert)
        BY <1>1, <2>1, <4>2, AcceptedWasShown
      <4>3. CASE BuiltOver(s.expert)
        <5>1. kills # 0 /\ kills \in Nat
          BY <1>1, <4>1, <4>3, BoundsAssumption DEF IInv, TypeOK, ReaskedIsDishonest
        <5> QED BY <4>3, <5>1
      <4> QED BY <4>2, <4>3
    <3>2. \A s \in Shifts : (WasShown(s)' <=> WasShown(s))
                             /\ (BuiltOver(s.expert)' <=> BuiltOver(s.expert))
      BY <1>1 DEF WasShown, ShownInFull, Shown, BuiltOver
    <3> QED BY <1>1, <2>1, <3>1, <3>2 DEF ShiftsWereShown
  <2>2. CASE final' = None
    BY <2>2 DEF ShiftsWereShown
  <2> QED BY <1>2, <2>1, <2>2
<1> QED BY <1>3, <1>4, <1>5, <1>6, <1>7, <1>8, <1>9, <1>10 DEF IInv

LEMMA KillKeeps ==
  ASSUME IInv, Kill PROVE IInv'
<1>1. /\ kills < MaxKills /\ final = None /\ kills' = kills + 1 /\ kills \in Nat
      /\ cmd' = None /\ built' = {} /\ redo' = {}
      /\ UNCHANGED <<msgs, text, artifact, asked, answer, final>>
  BY BoundsAssumption DEF Kill, IInv, TypeOK
<1>2. TypeOK'
  BY <1>1, BoundsAssumption DEF IInv, TypeOK
<1>3. RecordIsOfThePrompt'
  BY <1>1 DEF IInv, RecordIsOfThePrompt
<1>4. BuildsInOrder'
  BY <1>1 DEF BuildsInOrder
<1>5. PromptsOfTheLog'
  BY <1>1 DEF IInv, PromptsOfTheLog
<1>6. AnswersWereAsked'
  BY <1>1 DEF IInv, AnswersWereAsked
<1>7. AskedInTurn'
  BY <1>1 DEF IInv, AskedInTurn, IsNext
<1>8. ReaskedIsDishonest'
  <2>1. kills' # 0
    BY <1>1
  <2> QED BY <1>1, <2>1 DEF IInv, ReaskedIsDishonest, BuiltOver, IsHonest, Honest,
             ShownInFull, Shown
<1>9. ShiftsWereShown'
  BY <1>1 DEF ShiftsWereShown
<1> QED BY <1>2, <1>3, <1>4, <1>5, <1>6, <1>7, <1>8, <1>9 DEF IInv

LEMMA StutterKeeps ==
  ASSUME IInv, UNCHANGED vars PROVE IInv'
<1> USE DEF vars
<1>1. TypeOK'
  BY DEF IInv, TypeOK
<1>2. RecordIsOfThePrompt'
  BY DEF IInv, RecordIsOfThePrompt
<1>3. BuildsInOrder' /\ PromptsOfTheLog' /\ AnswersWereAsked' /\ AskedInTurn'
  BY DEF IInv, BuildsInOrder, PromptsOfTheLog, AnswersWereAsked, AskedInTurn, IsNext
<1>4. ReaskedIsDishonest'
  BY DEF IInv, ReaskedIsDishonest, BuiltOver, IsHonest, Honest, ShownInFull, Shown
<1>5. ShiftsWereShown'
  BY DEF IInv, ShiftsWereShown, BuiltOver, WasShown, Shown, ShownInFull
<1> QED BY <1>1, <1>2, <1>3, <1>4, <1>5 DEF IInv

\* Every step keeps the invariant.
LEMMA NextIInv == ASSUME IInv, [Next]_vars PROVE IInv'
<1>0. msgs \in Seq(Message)
  BY DEF IInv, TypeOK
<1>1. CASE Discuss
  <2>1. ASSUME NEW z \in Sizes, Declare(z) PROVE IInv'
    <3> DEFINE k == Posted("position_declaration") + 1
    <3>1. k \in DOMAIN Cast /\ z \in Nat
      BY <1>0, <2>1, PostedIsNat, CastAssumption, SizesAssumption DEF Declare, Everyone
    <3>2. Post(Cast[k], "position_declaration", z)
          /\ UNCHANGED <<prompts, responses, final, kills>>
      BY <2>1 DEF Declare
    <3> HIDE DEF k
    <3>3. Cast[k] \in Senders /\ "position_declaration" \in Types /\ "argument" \in Types
      BY <3>1, CastTyping DEF Senders, Types
    <3> QED BY <3>1, <3>2, <3>3, PostingKeeps
  <2>2. ASSUME NEW type \in {"opening", "moderator_opening"}, Frame(type) PROVE IInv'
    <3>1. Post("moderator", type, 1) /\ UNCHANGED <<prompts, responses, final, kills>>
      BY <2>2 DEF Frame
    <3>2. "moderator" \in Senders /\ type \in Types
      BY DEF Senders, Types
    <3> QED BY <3>1, <3>2, PostingKeeps
  <2>3. ASSUME NEW z \in Sizes, Argue(z) PROVE IInv'
    <3> DEFINE k == Posted("argument") + 1
    <3>1. k \in DOMAIN Cast /\ z \in Nat
      BY <1>0, <2>3, PostedIsNat, CastAssumption, SizesAssumption DEF Argue, Everyone
    <3>2. Post(Cast[k], "argument", z)
          /\ UNCHANGED <<prompts, responses, final, kills>>
      BY <2>3 DEF Argue
    <3> HIDE DEF k
    <3>3. Cast[k] \in Senders /\ "position_declaration" \in Types /\ "argument" \in Types
      BY <3>1, CastTyping DEF Senders, Types
    <3> QED BY <3>1, <3>2, <3>3, PostingKeeps
  <2>4. CASE Stress
    <3>1. Post("contrarian", "stress_test", 1)
          /\ UNCHANGED <<prompts, responses, final, kills>>
      BY <2>4 DEF Stress
    <3>2. "contrarian" \in Senders /\ "stress_test" \in Types
      BY DEF Senders, Types
    <3> QED BY <3>1, <3>2, PostingKeeps
  <2> QED BY <1>1, <2>1, <2>2, <2>3, <2>4 DEF Discuss
<1>2. CASE Respond
  BY <1>2, BuildTextKeeps, BuildArtifactKeeps, SpawnKeeps, AnswerKeeps DEF Respond
<1>3. CASE Commit
  BY <1>3, FinalizeKeeps DEF Commit
<1>4. CASE Kill
  BY <1>4, KillKeeps
<1>5. CASE UNCHANGED vars
  BY <1>5, StutterKeeps
<1> QED BY <1>1, <1>2, <1>3, <1>4, <1>5 DEF Next

LEMMA Inductive == Spec => []IInv
<1>1. Init => IInv
  BY InitIInv
<1>2. IInv /\ [Next]_vars => IInv'
  BY NextIInv
<1> QED BY <1>1, <1>2, PTL DEF Spec

-----------------------------------------------------------------------------
\* Every variable has its type.
THEOREM TypeCorrect == Spec => []TypeOK
<1>1. IInv => TypeOK
  BY DEF IInv
<1> QED BY <1>1, Inductive, PTL

\* As long as the prompt.txt an agent was given is there, the prompt-build.json
\* beside it describes that prompt, wherever a prompt-build was killed.
THEOREM RecordCorrect == Spec => []RecordIsOfThePrompt
<1>1. IInv => RecordIsOfThePrompt
  BY DEF IInv
<1> QED BY <1>1, Inductive, PTL

\* Soundness of the provenance gate: what a committed shift cites was shown in
\* full in the prompt whose answer reported it, whatever the window's rule is,
\* unless a coordinator was killed that had begun to ask its expert again.
THEOREM GateIsSound == Spec => []ShiftsWereShown
<1>1. IInv => ShiftsWereShown
  BY DEF IInv
<1> QED BY <1>1, Inductive, PTL

\* Completeness: a shift that cites what its expert was shown is never refused,
\* although the record of an expert that was asked again is overwritten.
THEOREM GateIsComplete == Spec => []HonestShiftsPass
<1>1. ASSUME IInv PROVE HonestShiftsPass
  <2> SUFFICES ASSUME \A x \in Experts : answer[x] # None,
                      NEW e \in Experts,
                      Honest(e, asked[answer[e].by], answer[e].claim)
               PROVE  e \notin Refused(Shifts, ContextLog(Experts), Len(msgs))
    BY DEF HonestShiftsPass
  <2>1. IsHonest(e)
    BY DEF IsHonest
  <2> QED BY <1>1, <2>1, HonestIsAccepted
<1> QED BY <1>1, Inductive, PTL

-----------------------------------------------------------------------------
(* The fixed roles' messages are shown to everyone.                        *)

\* The moderator and the contrarian post neither arguments nor responses.
FixedRolesPost ==
  \A i \in DOMAIN msgs :
    msgs[i].from \in {"moderator", "contrarian"} =>
      msgs[i].type \notin {"argument", "response"}

\* An appended message disturbs this only if it is a fixed role's own.
LEMMA AppendFixed ==
  ASSUME msgs \in Seq(Message), FixedRolesPost,
         NEW from, NEW type, NEW size, Post(from, type, size),
         from \in {"moderator", "contrarian"} => type \notin {"argument", "response"}
  PROVE  FixedRolesPost'
<1> DEFINE m == [from |-> from, type |-> type, role |-> "none", size |-> size]
<1>1. msgs' = Append(msgs, m)
  BY DEF Post
<1>2. m.from = from /\ m.type = type
  OBVIOUS
<1> HIDE DEF m
<1> SUFFICES ASSUME NEW i \in DOMAIN msgs',
                    msgs'[i].from \in {"moderator", "contrarian"}
             PROVE  msgs'[i].type \notin {"argument", "response"}
  BY DEF FixedRolesPost
<1>3. CASE i \in DOMAIN msgs
  <2>1. msgs'[i] = msgs[i]
    BY <1>1, <1>3
  <2> QED BY <1>3, <2>1 DEF FixedRolesPost
<1>4. CASE i \notin DOMAIN msgs
  <2>1. msgs'[i] = m
    BY <1>1, <1>4
  <2> QED BY <1>2, <2>1
<1> QED BY <1>3, <1>4

LEMMA NextFixed ==
  ASSUME IInv, FixedRolesPost, [Next]_vars PROVE FixedRolesPost'
<1>0. msgs \in Seq(Message)
  BY DEF IInv, TypeOK
<1>1. ASSUME NEW e \in Experts PROVE e \notin {"moderator", "contrarian"}
  BY CastAssumption DEF PinnedSenders
<1>2. CASE Discuss
  <2>1. ASSUME NEW z \in Sizes, Declare(z) PROVE FixedRolesPost'
    <3> DEFINE k == Posted("position_declaration") + 1
    <3>1. k \in DOMAIN Cast
      BY <1>0, <2>1, PostedIsNat, CastAssumption DEF Declare, Everyone
    <3>2. Post(Cast[k], "position_declaration", z)
      BY <2>1 DEF Declare
    <3> HIDE DEF k
    <3> QED BY <1>0, <3>2, AppendFixed
  <2>2. ASSUME NEW type \in {"opening", "moderator_opening"}, Frame(type)
        PROVE  FixedRolesPost'
    BY <1>0, <2>2, AppendFixed DEF Frame
  <2>3. ASSUME NEW z \in Sizes, Argue(z) PROVE FixedRolesPost'
    <3> DEFINE k == Posted("argument") + 1
    <3>1. k \in DOMAIN Cast
      BY <1>0, <2>3, PostedIsNat, CastAssumption DEF Argue, Everyone
    <3>2. Post(Cast[k], "argument", z)
      BY <2>3 DEF Argue
    <3> HIDE DEF k
    <3>3. Cast[k] \notin {"moderator", "contrarian"}
      BY <1>1, <3>1, CastTyping
    <3> QED BY <1>0, <3>2, <3>3, AppendFixed
  <2>4. CASE Stress
    BY <1>0, <2>4, AppendFixed DEF Stress
  <2> QED BY <1>2, <2>1, <2>2, <2>3, <2>4 DEF Discuss
<1>3. CASE Respond
  <2>1. ASSUME NEW a \in Agents, NEW claim \in Claims \cup {None},
               NEW z \in AnswerSizes, Answer(a, claim, z)
        PROVE  FixedRolesPost'
    <3>1. a[1] \in Experts /\ Post(a[1], "response", z)
      BY <2>1 DEF Agents, Answer
    <3> QED BY <1>0, <1>1, <3>1, AppendFixed
  <2>2. ASSUME UNCHANGED msgs PROVE FixedRolesPost'
    BY <2>2 DEF FixedRolesPost
  <2> QED BY <1>3, <2>1, <2>2 DEF Respond, BuildText, BuildArtifact, Spawn
<1>4. CASE Commit \/ Kill \/ UNCHANGED vars
  BY <1>4 DEF Commit, Finalize, Kill, vars, FixedRolesPost
<1> QED BY <1>2, <1>3, <1>4 DEF Next

\* Every response prompt shows the moderator's and the contrarian's messages in
\* full, whatever the budget and the sizes of the peers' messages are.
THEOREM FixedRolesSeen == Spec => []FixedRolesInFull
<1>1. Init => FixedRolesPost
  BY DEF Init, FixedRolesPost
<1>2. IInv /\ FixedRolesPost /\ [Next]_vars => FixedRolesPost'
  BY NextFixed
<1>3. IInv /\ FixedRolesPost => FixedRolesInFull
  <2> SUFFICES ASSUME IInv, FixedRolesPost,
                      NEW a \in Agents, asked[a] # None,
                      NEW i \in 1 .. asked[a],
                      msgs[i].from \in {"moderator", "contrarian"}
               PROVE  Shown(a[1], asked[a])[i] = "full"
    BY DEF FixedRolesInFull
  <2> DEFINE n == asked[a]
             prefix == SubSeq(msgs, 1, n)
  <2>1. msgs \in Seq(Message) /\ n \in Nat /\ n <= Len(msgs)
    BY DEF IInv, TypeOK, PromptsOfTheLog
  <2>2. i \in DOMAIN prefix /\ prefix[i] = msgs[i] /\ i \in DOMAIN msgs
    BY <2>1
  <2>3. ~ IsPeer(prefix[i], a[1])
    BY <2>2 DEF FixedRolesPost, IsPeer, IsPinned, PinnedSenders
  <2>4. Shown(a[1], n) = ResponseVisibility(prefix, a[1])
    BY DEF Shown, Visibility, FixedRolePhases
  <2> HIDE DEF prefix, n
  <2> QED BY <2>2, <2>3, <2>4 DEF ResponseVisibility, n
<1> QED BY <1>1, <1>2, <1>3, Inductive, PTL DEF Spec


-----------------------------------------------------------------------------
(* What a second run of an argumentation step shows.                       *)

\* Who may post what: the order of the round's steps.
MayPost(from, type) ==
  \/ /\ from \in Experts /\ type = "position_declaration"
     /\ Posted("position_declaration") < Everyone
  \/ /\ from = "moderator" /\ type \in {"opening", "moderator_opening"}
     /\ Posted("position_declaration") = Everyone
     /\ \A i \in DOMAIN msgs : msgs[i].from # "moderator"
  \/ from # "moderator" /\ type \in {"argument", "stress_test", "response"}

LEMMA StepPosts ==
  ASSUME msgs \in Seq(Message), [Next]_vars
  PROVE  \/ UNCHANGED msgs
         \/ \E from \in Senders, type \in Types, size \in Nat :
              MayPost(from, type) /\ Post(from, type, size)
<1> DEFINE Posts == \E from \in Senders, type \in Types, size \in Nat :
                      MayPost(from, type) /\ Post(from, type, size)
<1>1. \A e \in Experts : e \in Senders /\ e # "moderator"
  BY CastAssumption DEF Senders, PinnedSenders
<1>2. ASSUME NEW z \in Sizes, Declare(z) PROVE Posts
  <2> DEFINE k == Posted("position_declaration") + 1
  <2>1. k \in DOMAIN Cast /\ z \in Nat
    BY <1>2, PostedIsNat, CastAssumption, SizesAssumption DEF Declare, Everyone
  <2>2. Post(Cast[k], "position_declaration", z)
    BY <1>2 DEF Declare
  <2>3. Posted("position_declaration") < Everyone
    BY <1>2 DEF Declare
  <2> HIDE DEF k
  <2>4. Cast[k] \in Experts
    BY <2>1, CastTyping
  <2>5. MayPost(Cast[k], "position_declaration")
    BY <2>3, <2>4 DEF MayPost
  <2>6. "position_declaration" \in Types
    BY DEF Types
  <2>7. QED
    BY <1>1, <2>1, <2>2, <2>4, <2>5, <2>6
<1>3. ASSUME NEW z \in Sizes, Argue(z) PROVE Posts
  <2> DEFINE k == Posted("argument") + 1
  <2>1. k \in DOMAIN Cast /\ z \in Nat
    BY <1>3, PostedIsNat, CastAssumption, SizesAssumption DEF Argue, Everyone
  <2>2. Post(Cast[k], "argument", z)
    BY <1>3 DEF Argue
  <2> HIDE DEF k
  <2>3. Cast[k] \in Experts
    BY <2>1, CastTyping
  <2>4. MayPost(Cast[k], "argument") /\ "argument" \in Types
    BY <1>1, <2>3 DEF MayPost, Types
  <2>5. QED
    BY <1>1, <2>1, <2>2, <2>3, <2>4
<1>4. ASSUME NEW type \in {"opening", "moderator_opening"}, Frame(type) PROVE Posts
  <2>1. MayPost("moderator", type) /\ Post("moderator", type, 1)
    BY <1>4 DEF Frame, MayPost
  <2>2. "moderator" \in Senders /\ type \in Types /\ 1 \in Nat
    BY DEF Senders, Types
  <2>3. QED
    BY <2>1, <2>2
<1>5. CASE Stress
  <2>1. MayPost("contrarian", "stress_test") /\ Post("contrarian", "stress_test", 1)
    BY <1>5 DEF Stress, MayPost
  <2>2. "contrarian" \in Senders /\ "stress_test" \in Types /\ 1 \in Nat
    BY DEF Senders, Types
  <2>3. QED
    BY <2>1, <2>2
<1>6. ASSUME NEW a \in Agents, NEW claim \in Claims \cup {None}, NEW z \in AnswerSizes,
             Answer(a, claim, z)
      PROVE  Posts
  <2>1. a[1] \in Experts /\ z \in Nat /\ Post(a[1], "response", z)
    BY <1>6, SizesAssumption DEF Agents, Answer
  <2>2. MayPost(a[1], "response") /\ "response" \in Types
    BY <1>1, <2>1 DEF MayPost, Types
  <2>3. QED
    BY <1>1, <2>1, <2>2
<1>7. CASE UNCHANGED msgs
  BY <1>7
<1>8. QED
  BY <1>2, <1>3, <1>4, <1>5, <1>6, <1>7
  DEF Next, Discuss, Respond, Commit, BuildText, BuildArtifact, Spawn, Finalize, Kill, vars

\* What the argumentation prompt shows was posted no later than the framing.
ArgumentsSee == {j \in DOMAIN msgs : msgs[j].type \in ArgumentationTypes}

FramingLast ==
  /\ msgs \in Seq(Message)
  /\ (\E i \in DOMAIN msgs : msgs[i].from = "moderator") =>
       Posted("position_declaration") >= Everyone
  /\ \A i \in DOMAIN msgs : msgs[i].from = "moderator" =>
       \A j \in ArgumentsSee : j <= i

LEMMA StepFramingLast == FramingLast /\ [Next]_vars => FramingLast'
<1> SUFFICES ASSUME FramingLast, [Next]_vars PROVE FramingLast'
  OBVIOUS
<1>1. msgs \in Seq(Message)
  BY DEF FramingLast
<1>2. CASE UNCHANGED msgs
  BY <1>2 DEF FramingLast, ArgumentsSee, Posted
<1>3. ASSUME NEW from \in Senders, NEW type \in Types, NEW size \in Nat,
             MayPost(from, type), Post(from, type, size)
      PROVE  FramingLast'
  <2> DEFINE m == [from |-> from, type |-> type, role |-> "none", size |-> size]
             n == Len(msgs)
             kind == "position_declaration"
             now == {i \in DOMAIN msgs : msgs[i].type = kind}
             after == {i \in DOMAIN msgs' : msgs'[i].type = kind}
  <2>1. m \in Message /\ m.from = from /\ m.type = type
    BY DEF Message
  <2>2. msgs' = Append(msgs, m)
    BY <1>3 DEF Post
  <2> HIDE DEF m
  <2>3. /\ msgs' \in Seq(Message) /\ n \in Nat
        /\ DOMAIN msgs = 1 .. n /\ DOMAIN msgs' = 1 .. (n + 1)
        /\ msgs'[n + 1] = m /\ \A i \in 1 .. n : msgs'[i] = msgs[i]
    BY <1>1, <2>1, <2>2
  <2>4. Posted(kind)' >= Posted(kind)
    <3>1. IsFiniteSet(after)
      <4>1. IsFiniteSet(1 .. (n + 1))
        BY <2>3, FS_Interval
      <4>2. QED
        BY <2>3, <4>1, FS_Subset
    <3>2. now \subseteq after
      BY <2>3
    <3>3. Cardinality(now) <= Cardinality(after)
      BY <3>1, <3>2, FS_Subset
    <3>4. Cardinality(now) \in Nat /\ Cardinality(after) \in Nat
      BY <3>1, <3>2, FS_Subset, FS_CardinalityType
    <3>5. QED
      BY <3>3, <3>4 DEF Posted
  <2>5. Posted(kind) \in Nat /\ Posted(kind)' \in Nat /\ Everyone \in Nat
    <3>1. IsFiniteSet(1 .. (n + 1))
      BY <2>3, FS_Interval
    <3>2. IsFiniteSet(after)
      BY <2>3, <3>1, FS_Subset
    <3>3. Cardinality(after) \in Nat
      BY <3>2, FS_CardinalityType
    <3>4. Posted(kind)' \in Nat
      BY <3>3 DEF Posted
    <3>5. Everyone \in Nat
      BY CastAssumption DEF Everyone
    <3>6. QED
      BY <1>1, <3>4, <3>5, PostedIsNat
  <2>6. (\E i \in DOMAIN msgs' : msgs'[i].from = "moderator") => Posted(kind)' >= Everyone
    <3>1. CASE \E i \in DOMAIN msgs : msgs[i].from = "moderator"
      BY <2>4, <2>5, <3>1 DEF FramingLast
    <3>2. CASE from = "moderator"
      <4>1. from \notin Experts
        BY <3>2, CastAssumption DEF PinnedSenders
      <4>2. QED
        BY <1>3, <2>4, <2>5, <3>2, <4>1 DEF MayPost
    <3>3. QED
      BY <2>1, <2>3, <3>1, <3>2
  <2>7. ASSUME NEW i \in DOMAIN msgs', msgs'[i].from = "moderator",
               NEW j \in ArgumentsSee'
        PROVE  j <= i
    <3>1. /\ i \in 1 .. (n + 1) /\ j \in 1 .. (n + 1)
          /\ msgs'[j].type \in ArgumentationTypes
      BY <2>3 DEF ArgumentsSee
    <3>2. CASE i = n + 1
      BY <2>3, <3>1, <3>2
    <3>3. CASE i \in 1 .. n /\ j \in 1 .. n
      BY <2>3, <2>7, <3>1, <3>3 DEF FramingLast, ArgumentsSee
    <3>4. CASE i \in 1 .. n /\ j = n + 1
      <4>1. msgs[i].from = "moderator" /\ type \in ArgumentationTypes
        BY <2>1, <2>3, <2>7, <3>1, <3>4
      <4>2. Posted(kind) >= Everyone
        BY <2>3, <3>4, <4>1 DEF FramingLast
      <4>3. QED
        BY <1>3, <2>3, <2>5, <3>4, <4>1, <4>2 DEF MayPost, ArgumentationTypes
    <3>5. QED
      BY <2>3, <3>1, <3>2, <3>3, <3>4
  <2>8. QED
    BY <2>3, <2>6, <2>7 DEF FramingLast
<1>4. QED
  BY <1>1, <1>2, <1>3, StepPosts

LEMMA ArgumentationIs ==
  ASSUME NEW ms, NEW e
  PROVE  Visibility("argumentation", ms, e) =
           [i \in {j \in DOMAIN ms : ms[j].type \in ArgumentationTypes} |-> "full"]
BY DEF Visibility, FixedRolePhases

LEMMA FramingLastReplays == FramingLast => ArgumentationReplays
<1> SUFFICES ASSUME FramingLast, NEW e \in Experts, NEW n \in 0 .. Len(msgs),
                    \E i \in 1 .. n : msgs[i].from = "moderator"
    PROVE  Visibility("argumentation", SubSeq(msgs, 1, n), e)
             = Visibility("argumentation", msgs, e)
  BY DEF ArgumentationReplays
<1> DEFINE prefix == SubSeq(msgs, 1, n)
           seen == {j \in DOMAIN prefix : prefix[j].type \in ArgumentationTypes}
<1>1. msgs \in Seq(Message) /\ n \in Nat /\ n <= Len(msgs) /\ DOMAIN msgs = 1 .. Len(msgs)
  BY DEF FramingLast
<1>2. DOMAIN prefix = 1 .. n /\ \A j \in 1 .. n : prefix[j] = msgs[j]
  BY <1>1
<1>3. PICK i \in 1 .. n : msgs[i].from = "moderator"
  OBVIOUS
<1>4. i \in DOMAIN msgs /\ i <= n
  BY <1>1
<1>5. \A j \in ArgumentsSee : j \in 1 .. n
  <2>1. \A j \in ArgumentsSee : j <= i /\ j \in 1 .. Len(msgs)
    BY <1>1, <1>3, <1>4 DEF FramingLast, ArgumentsSee
  <2>2. QED
    BY <1>1, <1>4, <2>1
<1>6. seen = ArgumentsSee
  <2> HIDE DEF prefix
  <2>1. QED
    BY <1>1, <1>2, <1>5 DEF ArgumentsSee
<1>7. /\ Visibility("argumentation", prefix, e) = [j \in seen |-> "full"]
      /\ Visibility("argumentation", msgs, e) = [j \in ArgumentsSee |-> "full"]
  BY ArgumentationIs DEF ArgumentsSee
<1>8. QED
  <2> HIDE DEF prefix, seen
  <2>1. QED
    BY <1>6, <1>7 DEF prefix

\* However often an argumentation step is run again, and whatever was posted since,
\* an expert is shown the same declarations and framing.
THEOREM ReplayShowsTheSame == Spec => []ArgumentationReplays
<1>1. Init => FramingLast
  BY DEF Init, FramingLast, ArgumentsSee
<1>2. QED
  BY <1>1, StepFramingLast, FramingLastReplays, PTL DEF Spec


-----------------------------------------------------------------------------
(* The window: recursion from the newest message back.                     *)

\* A set that holds N and, with a number above 0, the one before, holds 0 .. N.
LEMMA DownTo ==
  ASSUME NEW N \in Nat, NEW T, N \in T,
         \A i \in 1 .. N : i \in T => i - 1 \in T
  PROVE  0 .. N \subseteq T
<1> DEFINE Gap == {k \in 0 .. N : N - k \notin T}
<1>1. SUFFICES ASSUME Gap # {} PROVE FALSE
  <2>1. ASSUME NEW i \in 0 .. N, Gap = {} PROVE i \in T
    <3>1. N - i \in 0 .. N /\ N - (N - i) = i
      OBVIOUS
    <3>2. QED
      BY <2>1, <3>1
  <2>2. QED
    BY <2>1
<1>2. \A p \in Nat \X Nat : p \in OpToRel(<, Nat) <=> p[1] < p[2]
  BY Zenon DEF OpToRel
<1>3. PICK k \in Gap : \A m \in Gap : ~ (<<m, k>> \in OpToRel(<, Nat))
  <2>1. Gap \subseteq Nat
    OBVIOUS
  <2> HIDE DEF Gap
  <2>2. QED
    BY <1>1, <2>1, NatLessThanWellFounded, WFMin
<1>4. k \in 1 .. N
  <2>1. N - 0 = N
    OBVIOUS
  <2>2. k \in 0 .. N /\ k # 0
    BY <2>1
  <2>3. QED
    BY <2>2
<1>5. k - 1 \in Nat /\ k \in Nat /\ k - 1 < k
  BY <1>4
<1>6. k - 1 \notin Gap
  <2>1. <<k - 1, k>> \in OpToRel(<, Nat)
    BY <1>2, <1>5
  <2> HIDE DEF Gap
  <2>2. QED
    BY <1>3, <2>1
<1>7. N - (k - 1) \in T /\ N - (k - 1) \in 1 .. N
  BY <1>4, <1>6
<1>8. (N - (k - 1)) - 1 \in T
  BY <1>7
<1>9. (N - (k - 1)) - 1 = N - k
  BY <1>4
<1>10. QED
  BY <1>3, <1>8, <1>9

\* g ends with base and goes back by F.
GoesBack(g, N, base, F) ==
  g[N] = base /\ \A i \in 0 .. (N - 1) : g[i] = F[<<i, g[i + 1]>>]

\* A function can be defined by recursion from the end of a sequence.
LEMMA BackRecursion ==
  ASSUME NEW N \in Nat, NEW V, NEW base \in V,
         NEW F \in [(0 .. (N - 1)) \X V -> V]
  PROVE  \E g \in [0 .. N -> V] : GoesBack(g, N, base, F)
<1> DEFINE T == {k \in 0 .. N : \E g \in [0 .. N -> V] :
                  g[N] = base /\ \A i \in k .. (N - 1) : g[i] = F[<<i, g[i + 1]>>]}
<1>1. N \in T
  <2> DEFINE h == [n \in 0 .. N |-> base]
  <2>1. h \in [0 .. N -> V] /\ h[N] = base
    OBVIOUS
  <2>2. \A i \in N .. (N - 1) : h[i] = F[<<i, h[i + 1]>>]
    OBVIOUS
  <2>3. N \in 0 .. N
    OBVIOUS
  <2> HIDE DEF h
  <2>4. QED
    BY <2>1, <2>2, <2>3
<1>2. ASSUME NEW k \in 1 .. N, k \in T PROVE k - 1 \in T
  <2>1. PICK g \in [0 .. N -> V] :
               g[N] = base /\ \A i \in k .. (N - 1) : g[i] = F[<<i, g[i + 1]>>]
    BY <1>2
  <2> DEFINE v == F[<<k - 1, g[k]>>]
             h == [n \in 0 .. N |-> IF n = k - 1 THEN v ELSE g[n]]
  <2>2. v \in V
    OBVIOUS
  <2>3. h \in [0 .. N -> V] /\ h[N] = base
    BY <2>1, <2>2
  <2>4. ASSUME NEW i \in (k - 1) .. (N - 1) PROVE h[i] = F[<<i, h[i + 1]>>]
    <3>1. h[i + 1] = g[i + 1]
      OBVIOUS
    <3>2. CASE i = k - 1
      <4>1. i + 1 = k /\ h[i] = v
        BY <3>2
      <4>2. QED
        BY <3>1, <3>2, <4>1
    <3>3. CASE i # k - 1
      <4>1. i \in k .. (N - 1) /\ h[i] = g[i]
        BY <3>3
      <4>2. QED
        BY <2>1, <3>1, <4>1
    <3>4. QED
      BY <3>2, <3>3
  <2>5. k - 1 \in 0 .. N
    OBVIOUS
  <2> HIDE DEF h
  <2>6. QED
    BY <2>3, <2>4, <2>5
<1>3. 0 \in T
  <2> HIDE DEF T
  <2>1. 0 .. N \subseteq T
    BY <1>1, <1>2, DownTo
  <2>2. QED
    BY <2>1
<1>4. QED
  BY <1>3 DEF GoesBack


\* The budget left for each message, step by step.
LEMMA BudgetIs ==
  ASSUME NEW ms \in Seq(Message), NEW e
  PROVE  LET left == BudgetAt(ms, e)
         IN  /\ left \in [0 .. Len(ms) -> Nat]
             /\ left[Len(ms)] = Budget
             /\ \A i \in 1 .. Len(ms) : left[i - 1] = Spent(ms[i], e, left[i])
<1> DEFINE N == Len(ms)
           F == [p \in (0 .. (N - 1)) \X Nat |-> Spent(ms[p[1] + 1], e, p[2])]
           Is(g) == g = [i \in 0 .. N |-> IF i = N THEN Budget
                                           ELSE Spent(ms[i + 1], e, g[i + 1])]
           left == CHOOSE g : Is(g)
<1>1. N \in Nat /\ \A i \in 1 .. N : ms[i] \in Message
  OBVIOUS
<1>2. \A i \in 1 .. N : \A b \in Nat : Spent(ms[i], e, b) \in Nat
  <2> HIDE DEF N
  <2>1. QED
    BY <1>1 DEF Spent, Message
<1>3. F \in [(0 .. (N - 1)) \X Nat -> Nat]
  <2>1. \A i \in 0 .. (N - 1) : i + 1 \in 1 .. N
    BY <1>1
  <2> HIDE DEF N
  <2>2. QED
    BY <1>2, <2>1
<1>4. PICK g \in [0 .. N -> Nat] : GoesBack(g, N, Budget, F)
  <2>1. Budget \in Nat
    BY BudgetAssumption
  <2> HIDE DEF F, N
  <2>2. QED
    BY <1>1, <1>3, <2>1, BackRecursion, Zenon
<1>5. g[N] = Budget /\ \A i \in 0 .. (N - 1) : g[i] = Spent(ms[i + 1], e, g[i + 1])
  <2>1. \A i \in 0 .. (N - 1) : g[i + 1] \in Nat
    BY <1>1
  <2> HIDE DEF N
  <2>2. QED
    BY <1>4, <2>1 DEF GoesBack
<1>6. Is(g)
  <2> HIDE DEF N
  <2>1. QED
    BY <1>1, <1>4, <1>5
<1>7. Is(left)
  BY <1>6, Zenon
<1>8. BudgetAt(ms, e) = left
  BY Zenon DEF BudgetAt
<1> HIDE DEF left
<1>9. left[N] = Budget /\ \A i \in 0 .. (N - 1) : left[i] = Spent(ms[i + 1], e, left[i + 1])
  <2>1. N \in 0 .. N /\ \A i \in 0 .. (N - 1) : i \in 0 .. N /\ i # N
    BY <1>1
  <2> HIDE DEF N
  <2>2. \A i \in 0 .. N : left[i] = IF i = N THEN Budget
                                     ELSE Spent(ms[i + 1], e, left[i + 1])
    BY <1>7, Zenon
  <2>3. QED
    BY <2>1, <2>2
<1>10. \A i \in 1 .. N : left[i - 1] = Spent(ms[i], e, left[i])
  <2>1. \A i \in 1 .. N : i - 1 \in 0 .. (N - 1) /\ (i - 1) + 1 = i
    BY <1>1
  <2> HIDE DEF N
  <2>2. QED
    BY <1>9, <2>1
<1> DEFINE T == {i \in 0 .. N : left[i] \in Nat}
<1>11. N \in T
  BY <1>1, <1>9, BudgetAssumption
<1>12. ASSUME NEW i \in 1 .. N, i \in T PROVE i - 1 \in T
  <2>1. i - 1 \in 0 .. N
    BY <1>1
  <2> HIDE DEF N
  <2>2. QED
    BY <1>2, <1>10, <1>12, <2>1
<1>13. 0 .. N \subseteq T
  <2> HIDE DEF T, N
  <2>1. QED
    BY <1>1, <1>11, <1>12, DownTo
<1>14. left \in [0 .. N -> Nat]
  <2>1. \A i \in 0 .. N : left[i] \in Nat
    BY <1>13
  <2>2. DOMAIN left = 0 .. N /\ left = [i \in 0 .. N |-> left[i]]
    BY <1>7
  <2>3. QED
    BY <2>1, <2>2
<1>15. QED
  BY <1>8, <1>9, <1>10, <1>14


\* What message j adds to the size of the full peer messages.
Weight(e, j) == IF IsFullPeer(e, j) THEN msgs[j].size ELSE 0

LEMMA NewerIs ==
  ASSUME msgs \in Seq(Message), NEW e
  PROVE  LET newer == NewerInFull(e)
         IN  /\ newer \in [0 .. Len(msgs) -> Nat]
             /\ newer[Len(msgs)] = 0
             /\ \A i \in 1 .. Len(msgs) : newer[i - 1] = newer[i] + Weight(e, i)
<1> DEFINE N == Len(msgs)
           F == [p \in (0 .. (N - 1)) \X Nat |-> p[2] + Weight(e, p[1] + 1)]
           Is(g) == g = [i \in 0 .. N |-> IF i = N THEN 0
                                           ELSE g[i + 1] + Weight(e, i + 1)]
           newer == CHOOSE g : Is(g)
<1>1. N \in Nat /\ \A i \in 1 .. N : msgs[i] \in Message
  OBVIOUS
<1>2. \A i \in 1 .. N : Weight(e, i) \in Nat
  <2> HIDE DEF N
  <2>1. QED
    BY <1>1 DEF Weight, Message
<1>3. F \in [(0 .. (N - 1)) \X Nat -> Nat]
  <2>1. \A i \in 0 .. (N - 1) : i + 1 \in 1 .. N
    BY <1>1
  <2> HIDE DEF N
  <2>2. \A i \in 0 .. (N - 1) : \A b \in Nat : b + Weight(e, i + 1) \in Nat
    BY <1>2, <2>1
  <2>3. QED
    BY <2>2
<1>4. PICK g \in [0 .. N -> Nat] : GoesBack(g, N, 0, F)
  <2> HIDE DEF F, N
  <2>1. 0 \in Nat
    OBVIOUS
  <2>2. QED
    BY <1>1, <1>3, <2>1, BackRecursion, Zenon
<1>5. g[N] = 0 /\ \A i \in 0 .. (N - 1) : g[i] = g[i + 1] + Weight(e, i + 1)
  <2>1. \A i \in 0 .. (N - 1) : g[i + 1] \in Nat
    BY <1>1
  <2> HIDE DEF N
  <2>2. QED
    BY <1>4, <2>1 DEF GoesBack
<1>6. Is(g)
  <2> HIDE DEF N
  <2>1. QED
    BY <1>1, <1>4, <1>5
<1>7. Is(newer)
  BY <1>6, Zenon
<1>8. NewerInFull(e) = newer
  BY Zenon DEF NewerInFull, Weight
<1> HIDE DEF newer
<1>9. newer[N] = 0 /\ \A i \in 0 .. (N - 1) : newer[i] = newer[i + 1] + Weight(e, i + 1)
  <2>1. N \in 0 .. N /\ \A i \in 0 .. (N - 1) : i \in 0 .. N /\ i # N
    BY <1>1
  <2> HIDE DEF N
  <2>2. \A i \in 0 .. N : newer[i] = IF i = N THEN 0
                                     ELSE newer[i + 1] + Weight(e, i + 1)
    BY <1>7, Zenon
  <2>3. QED
    BY <2>1, <2>2
<1>10. \A i \in 1 .. N : newer[i - 1] = newer[i] + Weight(e, i)
  <2>1. \A i \in 1 .. N : i - 1 \in 0 .. (N - 1) /\ (i - 1) + 1 = i
    BY <1>1
  <2> HIDE DEF N
  <2>2. QED
    BY <1>9, <2>1
<1> DEFINE T == {i \in 0 .. N : newer[i] \in Nat}
<1>11. N \in T
  BY <1>1, <1>9
<1>12. ASSUME NEW i \in 1 .. N, i \in T PROVE i - 1 \in T
  <2>1. i - 1 \in 0 .. N
    BY <1>1
  <2> HIDE DEF N
  <2>2. newer[i - 1] = newer[i] + Weight(e, i) /\ Weight(e, i) \in Nat
    BY <1>2, <1>10
  <2>3. QED
    BY <1>12, <2>1, <2>2
<1>13. 0 .. N \subseteq T
  <2> HIDE DEF T, N
  <2>1. QED
    BY <1>1, <1>11, <1>12, DownTo
<1>14. newer \in [0 .. N -> Nat]
  <2>1. \A i \in 0 .. N : newer[i] \in Nat
    BY <1>13
  <2>2. DOMAIN newer = 0 .. N /\ newer = [i \in 0 .. N |-> newer[i]]
    BY <1>7
  <2>3. QED
    BY <2>1, <2>2
<1>15. QED
  BY <1>8, <1>9, <1>10, <1>14

\* The rule of the window, of a message and the budget it finds.
LEMMA WindowIs ==
  ASSUME msgs \in Seq(Message), NEW e, NEW i \in 1 .. Len(msgs)
  PROVE  Shown(e, Len(msgs))[i] =
           IF IsPeer(msgs[i], e) /\ msgs[i].size > BudgetAt(msgs, e)[i]
           THEN "gist" ELSE "full"
<1>1. SubSeq(msgs, 1, Len(msgs)) = msgs /\ i \in DOMAIN msgs
  OBVIOUS
<1>2. Shown(e, Len(msgs)) = ResponseVisibility(msgs, e)
  BY <1>1 DEF Shown, Visibility, FixedRolePhases
<1>3. QED
  BY <1>1, <1>2 DEF ResponseVisibility

\* What the window has spent on newer peers, and what it has left, is the budget.
LEMMA WindowIsBalanced ==
  ASSUME msgs \in Seq(Message), NEW e
  PROVE  \A i \in 0 .. Len(msgs) : BudgetAt(msgs, e)[i] + NewerInFull(e)[i] = Budget
<1> DEFINE N == Len(msgs)
           left == BudgetAt(msgs, e)
           newer == NewerInFull(e)
           T == {i \in 0 .. N : left[i] + newer[i] = Budget}
<1>1. N \in Nat /\ Budget \in Nat /\ \A i \in 1 .. N : msgs[i].size \in Nat
  <2>1. \A m \in Message : m.size \in Nat
    BY DEF Message
  <2>2. QED
    BY <2>1, BudgetAssumption
<1>2. /\ left \in [0 .. N -> Nat] /\ left[N] = Budget
      /\ \A i \in 1 .. N : left[i - 1] = Spent(msgs[i], e, left[i])
  BY BudgetIs
<1>3. /\ newer \in [0 .. N -> Nat] /\ newer[N] = 0
      /\ \A i \in 1 .. N : newer[i - 1] = newer[i] + Weight(e, i)
  BY NewerIs
<1>4. N \in T
  <2> HIDE DEF left, newer, N
  <2>1. QED
    BY <1>1, <1>2, <1>3
<1>5. ASSUME NEW i \in 1 .. N, i \in T PROVE i - 1 \in T
  <2> DEFINE x == msgs[i].size
             l == left[i]
             w == newer[i]
  <2>1. l \in Nat /\ w \in Nat /\ x \in Nat /\ l + w = Budget
    <3> HIDE DEF left, newer
    <3>1. QED
      BY <1>1, <1>2, <1>3, <1>5
  <2>2. left[i - 1] = IF IsPeer(msgs[i], e) /\ x <= l THEN l - x ELSE l
    BY <1>2 DEF Spent
  <2>3. Shown(e, N)[i] = IF IsPeer(msgs[i], e) /\ x > l THEN "gist" ELSE "full"
    BY WindowIs
  <2>4. newer[i - 1] = w + (IF IsPeer(msgs[i], e) /\ x <= l THEN x ELSE 0)
    <3>1. newer[i - 1] = w + Weight(e, i)
      BY <1>3
    <3>2. IsFullPeer(e, i) <=> IsPeer(msgs[i], e) /\ ~ (x > l)
      <4> HIDE DEF x, l
      <4>1. QED
        BY <2>3, Zenon DEF IsFullPeer
    <3> HIDE DEF l, w, left, newer
    <3>3. Weight(e, i) = IF IsPeer(msgs[i], e) /\ x <= l THEN x ELSE 0
      BY <2>1, <3>2 DEF Weight
    <3>4. QED
      BY <3>1, <3>3
  <2> HIDE DEF x, l, w, left, newer
  <2>5. left[i - 1] + newer[i - 1] = Budget
    BY <1>1, <2>1, <2>2, <2>4
  <2>6. i - 1 \in 0 .. N
    BY <1>1
  <2>7. QED
    BY <2>5, <2>6
<1>6. 0 .. N \subseteq T
  <2> HIDE DEF T, N
  <2>1. QED
    BY <1>1, <1>4, <1>5, DownTo
<1>7. QED
  BY <1>6

LEMMA Greedy == FramingLast => WindowIsGreedy
<1> SUFFICES ASSUME FramingLast, NEW e \in Experts
    PROVE  /\ NewerInFull(e)[0] <= Budget
           /\ \A i \in DOMAIN msgs : Shown(e, Len(msgs))[i] = "gist" =>
                msgs[i].size + NewerInFull(e)[i] > Budget
  BY DEF WindowIsGreedy
<1> DEFINE N == Len(msgs)
           left == BudgetAt(msgs, e)
           newer == NewerInFull(e)
<1>1. /\ msgs \in Seq(Message) /\ N \in Nat /\ DOMAIN msgs = 1 .. N
      /\ Budget \in Nat
  BY BudgetAssumption DEF FramingLast
<1>2. \A i \in 0 .. N : left[i] \in Nat /\ newer[i] \in Nat /\ left[i] + newer[i] = Budget
  <2>1. left \in [0 .. N -> Nat] /\ newer \in [0 .. N -> Nat]
    BY <1>1, BudgetIs, NewerIs
  <2>2. QED
    BY <1>1, <2>1, WindowIsBalanced
<1>3. \A i \in 1 .. N : Shown(e, N)[i] = "gist" => msgs[i].size > left[i]
  BY <1>1, WindowIs
<1>4. \A i \in 1 .. N : msgs[i].size \in Nat
  <2>1. \A m \in Message : m.size \in Nat
    BY DEF Message
  <2>2. QED
    BY <1>1, <2>1
<1> HIDE DEF left, newer, N
<1>5. newer[0] <= Budget
  BY <1>1, <1>2
<1>6. \A i \in 1 .. N : Shown(e, N)[i] = "gist" => msgs[i].size + newer[i] > Budget
  <2>1. ASSUME NEW i \in 1 .. N, Shown(e, N)[i] = "gist"
        PROVE  msgs[i].size + newer[i] > Budget
    <3>1. i \in 0 .. N
      BY <1>1
    <3>2. QED
      BY <1>1, <1>2, <1>3, <1>4, <2>1, <3>1
  <2>2. QED
    BY <2>1
<1>7. QED
  BY <1>1, <1>5, <1>6 DEF newer, N

\* Whatever the messages' sizes, a response prompt's full peer messages fit in
\* the budget, and an elided one does not fit beside the newer ones.
THEOREM WindowStaysGreedy == Spec => []WindowIsGreedy
<1>1. Init => FramingLast
  BY DEF Init, FramingLast, ArgumentsSee
<1>2. QED
  BY <1>1, StepFramingLast, Greedy, PTL DEF Spec
=============================================================================
