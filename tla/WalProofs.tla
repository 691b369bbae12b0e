----------------------------- MODULE WalProofs -----------------------------
(***************************************************************************)
(* Theorems about Wal, for any set of writers and any bounds.              *)
(***************************************************************************)
EXTENDS Wal, TLAPS, SequenceTheorems, WellFoundedInduction

\* What a running command holds: a state, and if it appends, a last message.
Holding ==
  \A w \in Writers :
    /\ cmd[w].pc # "idle" => cmd[w].st \in State
    /\ cmd[w].pc = "mint" => cmd[w].op = "append"
    /\ cmd[w].pc = "msgEvent" => cmd[w].op = "append"
    /\ cmd[w].op = "append" => cmd[w].st.msgs # <<>>

TypeInv == TypeOK /\ Holding

\* A command past the guard and before its rename found the round before its
\* own committed; it still is, since no step removes a final file.
Admitted ==
  \A w \in Writers :
    cmd[w].pc \in {"open", "write", "rename"} /\ cmd[w].round > 1
      => Exists(final[cmd[w].round - 1])

SeqInv == TypeInv /\ SequentialRounds /\ Admitted

-----------------------------------------------------------------------------
(* Lemmas about the terms the steps are written in.                        *)

LEMMA EmptyStateType ==
  \A r \in Rounds : EmptyState(r) \in State
  BY BoundsAssumption, EmptySeq DEF EmptyState, State, Rounds, NoMeta

LEMMA IdleType == Idle \in Process /\ Idle.pc = "idle" /\ Idle.op = "none"
  BY BoundsAssumption DEF Idle, Process, PCs, Ops, Places, Rounds

\* Whatever the reader finds instead of a missing file is a round state.
LEMMA DiskType ==
  ASSUME TypeOK, NEW r \in Rounds, Disk(r) # Torn
  PROVE  (IF Exists(Disk(r)) THEN Disk(r) ELSE EmptyState(r)) \in State
  BY EmptyStateType DEF TypeOK, Disk, Exists

LEMMA SeqsType ==
  ASSUME NEW s \in State
  PROVE  Seqs(s) \subseteq 1 .. MaxMsgs
<1>1. s.msgs \in Seq(Msg)
  BY DEF State
<1>2. \A i \in DOMAIN s.msgs : s.msgs[i] \in Msg
  BY <1>1, ElementOfSeq, LenProperties
<1>3. \A m \in Msg : m.seq \in 1 .. MaxMsgs
  BY DEF Msg
<1>4. QED
  BY <1>2, <1>3 DEF Seqs

LEMMA MsgsLen ==
  ASSUME NEW s \in State
  PROVE  Len(s.msgs) \in Nat
  BY DEF State

LEMMA DeriveType ==
  ASSUME NEW s \in State
  PROVE  DeriveMetadata(s) \in State
  BY MsgsLen DEF DeriveMetadata, State

LEMMA ExtendedType ==
  ASSUME NEW s \in State, NEW m \in Msg
  PROVE  /\ [s EXCEPT !.msgs = Append(@, m)] \in State
         /\ [s EXCEPT !.msgs = Append(@, m)].msgs # <<>>
<1>1. s.msgs \in Seq(Msg)
  BY DEF State
<1>2. Append(s.msgs, m) \in Seq(Msg) /\ Append(s.msgs, m) # <<>>
  BY <1>1, AppendProperties
<1>3. [s EXCEPT !.msgs = Append(@, m)].msgs = Append(s.msgs, m)
  BY DEF State
<1>4. QED
  BY <1>2, <1>3 DEF State

LEMMA LastType ==
  ASSUME NEW s \in State, s.msgs # <<>>
  PROVE  s.msgs[Len(s.msgs)] \in Msg
<1>1. s.msgs \in Seq(Msg)
  BY DEF State
<1>2. Len(s.msgs) \in 1 .. Len(s.msgs)
  BY <1>1, EmptySeq, LenProperties
<1>3. QED
  BY <1>1, <1>2, ElementOfSeq

\* Renumbering the last message of a state leaves a state.
LEMMA RenumberedType ==
  ASSUME NEW s \in State, s.msgs # <<>>, NEW n \in 1 .. MaxMsgs
  PROVE  /\ [s EXCEPT !.msgs[Len(s.msgs)].seq = n] \in State
         /\ [s EXCEPT !.msgs[Len(s.msgs)].seq = n].msgs # <<>>
<1> DEFINE k == Len(s.msgs)
           m == [s.msgs[k] EXCEPT !.seq = n]
           q == [s.msgs EXCEPT ![k] = m]
<1>1. s.msgs \in Seq(Msg)
  BY DEF State
<1>2. k \in 1 .. Len(s.msgs)
  BY <1>1, EmptySeq, LenProperties
<1>3. s.msgs[k] \in Msg
  BY <1>1, <1>2, ElementOfSeq
<1>4. m \in Msg
  BY <1>3 DEF Msg
<1>5. q \in Seq(Msg) /\ Len(q) = Len(s.msgs)
  BY <1>1, <1>2, <1>4, ExceptSeq
<1>6. q # <<>>
  BY <1>2, <1>5, EmptySeq
<1>7. [s EXCEPT !.msgs[Len(s.msgs)].seq = n] = [s EXCEPT !.msgs = q]
  OBVIOUS
<1>8. [s EXCEPT !.msgs = q].msgs = q
  BY DEF State
<1>9. QED
  BY <1>5, <1>6, <1>7, <1>8 DEF State

LEMMA RelinkedType ==
  ASSUME cmd \in [Writers -> Process], NEW w \in Writers,
         NEW from \in Places, NEW to \in Places, NEW pc \in PCs
  PROVE  /\ Relinked(w, from, to, pc) \in [Writers -> Process]
         /\ \A v \in Writers :
              /\ Relinked(w, from, to, pc)[v].op = cmd[v].op
              /\ Relinked(w, from, to, pc)[v].st = cmd[v].st
              /\ Relinked(w, from, to, pc)[v].round = cmd[v].round
              /\ Relinked(w, from, to, pc)[v].pc = IF v = w THEN pc ELSE cmd[v].pc
  BY DEF Relinked, Process, Places

\* A rename that a command goes on from leaves what every command holds.
LEMMA RelinkedHolding ==
  ASSUME TypeOK, Holding, NEW w \in Writers, cmd[w].pc # "idle",
         NEW from \in Places, NEW to \in Places,
         NEW pc \in {"progress", "finalEvent"},
         cmd' = Relinked(w, from, to, pc)
  PROVE  cmd' \in [Writers -> Process] /\ Holding'
<1>1. pc \in PCs /\ pc \notin {"mint", "msgEvent"}
  BY DEF PCs
<1>2. cmd \in [Writers -> Process]
  BY DEF TypeOK
<1>3. /\ cmd' \in [Writers -> Process]
      /\ \A v \in Writers :
           /\ cmd'[v].op = cmd[v].op
           /\ cmd'[v].st = cmd[v].st
           /\ cmd'[v].pc = IF v = w THEN pc ELSE cmd[v].pc
  BY <1>1, <1>2, RelinkedType
<1>4. QED
  BY <1>1, <1>3 DEF Holding

-----------------------------------------------------------------------------
LEMMA InitTypeInv == Init => TypeInv
  BY BoundsAssumption, IdleType
  DEF Init, TypeInv, TypeOK, Holding

\* One step per action; each changes few of the variables.
LEMMA StepTypeInv == TypeInv /\ [Next]_vars => TypeInv'
<1> SUFFICES ASSUME TypeInv, [Next]_vars
             PROVE  TypeInv'
  OBVIOUS
<1> USE DEF TypeInv
<1>i. Idle \in Process /\ Idle.pc = "idle" /\ Idle.op = "none"
  BY IdleType
<1>r. ASSUME NEW w \in Writers, Return(w)
      PROVE  cmd' \in [Writers -> Process] /\ Holding'
  BY <1>r, <1>i DEF Return, TypeOK, Holding
<1>1. ASSUME NEW w \in Writers, NEW r \in Rounds, ReadState(w, r)
      PROVE  TypeInv'
  BY <1>1, DiskType DEF ReadState, TypeOK, Holding, files
<1>2. ASSUME NEW w \in Writers, NEW r \in Rounds, NEW b \in Bodies,
             StartAppend(w, r, b)
      PROVE  TypeInv'
  <2> DEFINE s == IF Exists(Disk(r)) THEN Disk(r) ELSE EmptyState(r)
             m == [seq |-> 1, body |-> b]
             t == [s EXCEPT !.msgs = Append(@, m)]
             p == [Idle EXCEPT !.pc = "mint", !.op = "append", !.round = r,
                               !.st = t]
  <2>1. s \in State
    BY <1>2, DiskType DEF StartAppend
  <2>2. m \in Msg
    BY BoundsAssumption DEF Msg
  <2>3. t \in State /\ t.msgs # <<>>
    BY <2>1, <2>2, ExtendedType
  <2>4. /\ p \in Process
        /\ p.pc = "mint" /\ p.op = "append" /\ p.st \in State /\ p.st.msgs # <<>>
    BY <2>3, <1>i DEF Process, PCs, Ops
  <2>5. cmd' = [cmd EXCEPT ![w] = p]
    BY <1>2 DEF StartAppend
  <2>6. snap' \in [Writers -> State \cup {NoFile}]
    BY <1>2 DEF StartAppend, Kept, TypeOK
  <2>7. QED
    BY <1>2, <2>4, <2>5, <2>6 DEF StartAppend, TypeOK, Holding, files
<1>3. ASSUME NEW w \in Writers, NEW r \in Rounds, StartCheckpoint(w, r)
      PROVE  TypeInv'
  <2> DEFINE p == [Idle EXCEPT !.pc = "guard", !.op = "checkpoint",
                               !.round = r, !.st = snap[w]]
  <2>1. snap[w] \in State
    BY <1>3 DEF StartCheckpoint, TypeOK, Exists
  <2>2. /\ p \in Process
        /\ p.pc = "guard" /\ p.op = "checkpoint" /\ p.st \in State
    BY <2>1, <1>i DEF Process, PCs, Ops
  <2>3. cmd' = [cmd EXCEPT ![w] = p]
    BY <1>3 DEF StartCheckpoint
  <2>4. snap' \in [Writers -> State \cup {NoFile}]
    BY <1>3 DEF StartCheckpoint, Kept, TypeOK
  <2>5. QED
    BY <1>3, <2>2, <2>3, <2>4 DEF StartCheckpoint, TypeOK, Holding, files
<1>4. ASSUME NEW w \in Writers, NEW r \in Rounds, NEW omit \in BOOLEAN,
             StartFinalize(w, r, omit)
      PROVE  TypeInv'
  <2> DEFINE given == IF omit THEN [snap[w] EXCEPT !.meta = NoMeta] ELSE snap[w]
             p == [Idle EXCEPT !.pc = "guard", !.op = "finalize",
                               !.round = r, !.st = DeriveMetadata(given)]
  <2>1. snap[w] \in State
    BY <1>4 DEF StartFinalize, TypeOK, Exists
  <2>2. given \in State
    BY <2>1 DEF State, NoMeta
  <2>3. DeriveMetadata(given) \in State
    BY <2>2, DeriveType
  <2>4. /\ p \in Process
        /\ p.pc = "guard" /\ p.op = "finalize" /\ p.st \in State
    BY <2>3, <1>i DEF Process, PCs, Ops
  <2>5. cmd' = [cmd EXCEPT ![w] = p]
    BY <1>4 DEF StartFinalize
  <2>6. snap' \in [Writers -> State \cup {NoFile}]
    BY <1>4 DEF StartFinalize, Kept, TypeOK
  <2>7. QED
    BY <1>4, <2>4, <2>5, <2>6 DEF StartFinalize, TypeOK, Holding, files
<1>5. ASSUME NEW w \in Writers, Mint(w)
      PROVE  TypeInv'
  <2> DEFINE k == Len(cmd[w].st.msgs)
             st == [cmd[w].st EXCEPT !.msgs[k].seq = NextSeq(cmd[w].round)]
             p == [cmd[w] EXCEPT !.pc = "guard", !.st = st]
  <2>1. CASE Return(w)
    BY <1>5, <2>1, <1>r DEF Mint, TypeOK, Holding, files
  <2>2. CASE ~ Return(w)
    <3>1. /\ NextSeq(cmd[w].round) \in 1 .. MaxMsgs
          /\ cmd' = [cmd EXCEPT ![w].pc = "guard",
                                ![w].st.msgs[k].seq = NextSeq(cmd[w].round)]
      BY <1>5, <2>2 DEF Mint
    <3>2. cmd[w] \in Process /\ cmd[w].st \in State /\ cmd[w].st.msgs # <<>>
      BY <1>5 DEF Mint, Holding, TypeOK
    <3>3. st \in State /\ st.msgs # <<>>
      BY <3>1, <3>2, RenumberedType
    <3>4. cmd' = [cmd EXCEPT ![w] = p]
      BY <3>1, <3>2 DEF TypeOK, Process
    <3>5. p \in Process /\ p.pc = "guard" /\ p.st = st /\ p.op = cmd[w].op
      BY <3>2, <3>3 DEF Process, PCs
    <3>6. QED
      BY <1>5, <3>3, <3>4, <3>5 DEF Mint, TypeOK, Holding, files
  <2>3. QED
    BY <2>1, <2>2
<1>6. ASSUME NEW w \in Writers, Admit(w)
      PROVE  TypeInv'
  BY <1>6 DEF Admit, TypeOK, Holding, Process, PCs, files
<1>7. ASSUME NEW w \in Writers, Refuse(w)
      PROVE  TypeInv'
  <2>1. CASE cmd[w].op = "append"
    BY <1>7, <2>1 DEF Refuse, TypeOK, Holding, Process, PCs, files
  <2>2. CASE cmd[w].op # "append"
    BY <1>7, <2>2, <1>r DEF Refuse, TypeOK, files
  <2>3. QED
    BY <2>1, <2>2
<1>8. ASSUME NEW w \in Writers, OpenTmp(w)
      PROVE  TypeInv'
  BY <1>8 DEF OpenTmp, TypeOK, Holding, Process, PCs, Places
<1>9. ASSUME NEW w \in Writers, WriteTmp(w)
      PROVE  TypeInv'
  <2> DEFINE r == cmd[w].round
             new == [cmd[w].st EXCEPT !.round = r]
  <2>1. r \in Rounds /\ new \in State
    BY <1>9 DEF WriteTmp, TypeOK, Holding, Process, State
  <2>2. ASSUME NEW file \in [Rounds -> State \cup {NoFile, Torn}],
               NEW c \in Overwritten(file[r], new)
        PROVE  [file EXCEPT ![r] = c] \in [Rounds -> State \cup {NoFile, Torn}]
    BY <2>1, <2>2 DEF Overwritten
  <2>3. /\ partial' \in [Rounds -> State \cup {NoFile, Torn}]
        /\ final' \in [Rounds -> State \cup {NoFile, Torn}]
        /\ tmp' \in [Rounds -> State \cup {NoFile, Torn}]
    BY <1>9, <2>2 DEF WriteTmp, TypeOK, files
  <2>4. cmd' \in [Writers -> Process] /\ Holding'
    BY <1>9 DEF WriteTmp, TypeOK, Holding, Process, PCs, Places
  <2>5. QED
    BY <1>9, <2>3, <2>4 DEF WriteTmp, TypeOK
<1>10. ASSUME NEW w \in Writers, RenameTmp(w)
       PROVE  TypeInv'
  <2>1. CASE Exists(tmp[cmd[w].round])
    <3>1. cmd' = Relinked(w, "tmp", "partial", "progress")
      BY <1>10, <2>1 DEF RenameTmp
    <3>2. cmd' \in [Writers -> Process] /\ Holding'
      BY <1>10, <3>1, RelinkedHolding DEF RenameTmp, Places
    <3>3. QED
      BY <1>10, <2>1, <3>2 DEF RenameTmp, TypeOK, Process
  <2>2. CASE ~ Exists(tmp[cmd[w].round])
    BY <1>10, <2>2, <1>r DEF RenameTmp, TypeOK
  <2>3. QED
    BY <2>1, <2>2
<1>11. ASSUME NEW w \in Writers, WriteProgress(w)
       PROVE  TypeInv'
  <2>1. cmd[w].st \in State /\ cmd[w].round \in Rounds
    BY <1>11 DEF WriteProgress, TypeOK, Holding, Process
  <2>2. progress' \subseteq Rounds \X (1 .. MaxMsgs)
    BY <1>11, <2>1, SeqsType DEF WriteProgress, TypeOK
  <2>3. cmd' \in [Writers -> Process] /\ Holding'
    BY <1>11 DEF WriteProgress, TypeOK, Holding, Process, PCs
  <2>4. QED
    BY <1>11, <2>2, <2>3 DEF WriteProgress, TypeOK, files
<1>12. ASSUME NEW w \in Writers, LogCheckpoint(w)
       PROVE  TypeInv'
  <2>1. cmd[w].st \in State /\ cmd[w].round \in Rounds
    BY <1>12 DEF LogCheckpoint, TypeOK, Holding, Process
  <2>2. events' \subseteq Event
    BY <1>12, <2>1, MsgsLen DEF LogCheckpoint, TypeOK, Event
  <2>3. cmd' \in [Writers -> Process] /\ Holding'
    <3>1. CASE cmd[w].op = "checkpoint"
      BY <1>12, <3>1, <1>r DEF LogCheckpoint
    <3>2. CASE cmd[w].op # "checkpoint"
      BY <1>12, <3>2 DEF LogCheckpoint, TypeOK, Holding, Process, PCs
    <3>3. QED
      BY <3>1, <3>2
  <2>4. QED
    BY <1>12, <2>2, <2>3 DEF LogCheckpoint, TypeOK, files
<1>13. ASSUME NEW w \in Writers, LogAppend(w)
       PROVE  TypeInv'
  <2> DEFINE st == cmd[w].st
             m == st.msgs[Len(st.msgs)]
  <2>1. /\ st \in State /\ st.msgs # <<>> /\ cmd[w].round \in Rounds
        /\ cmd[w].wrote \in BOOLEAN
    BY <1>13 DEF LogAppend, TypeOK, Holding, Process
  <2>2. m \in Msg
    BY <2>1, LastType
  <2>3. events' \subseteq Event
    BY <1>13, <2>1, <2>2 DEF LogAppend, TypeOK, Event, Msg
  <2>4. acked' \subseteq [round : Rounds, msg : Msg, stored : BOOLEAN]
    BY <1>13, <2>1, <2>2 DEF LogAppend, TypeOK
  <2>5. QED
    BY <1>13, <1>r, <2>3, <2>4 DEF LogAppend, TypeOK, files
<1>14. ASSUME NEW w \in Writers, Promote(w)
       PROVE  TypeInv'
  <2>1. CASE Exists(partial[cmd[w].round])
    <3>1. cmd' = Relinked(w, "partial", "final", "finalEvent")
      BY <1>14, <2>1 DEF Promote
    <3>2. cmd' \in [Writers -> Process] /\ Holding'
      BY <1>14, <3>1, RelinkedHolding DEF Promote, Places
    <3>3. QED
      BY <1>14, <2>1, <3>2 DEF Promote, TypeOK, Process
  <2>2. CASE ~ Exists(partial[cmd[w].round])
    BY <1>14, <2>2, <1>r DEF Promote, TypeOK
  <2>3. QED
    BY <2>1, <2>2
<1>15. ASSUME NEW w \in Writers, LogFinalize(w)
       PROVE  TypeInv'
  <2>1. cmd[w].st \in State /\ cmd[w].round \in Rounds
    BY <1>15 DEF LogFinalize, TypeOK, Holding, Process
  <2>2. events' \subseteq Event
    BY <1>15, <2>1, MsgsLen DEF LogFinalize, TypeOK, Event
  <2>3. QED
    BY <1>15, <1>r, <2>2 DEF LogFinalize, TypeOK, files
<1>16. ASSUME NEW w \in Writers, Crash(w)
       PROVE  TypeInv'
  <2>1. crashes' \in 0 .. MaxCrashes
    BY <1>16, BoundsAssumption DEF Crash, TypeOK
  <2>2. snap' \in [Writers -> State \cup {NoFile}]
    BY <1>16 DEF Crash, TypeOK
  <2>3. QED
    BY <1>16, <1>r, <2>1, <2>2 DEF Crash, TypeOK, files
<1>17. CASE UNCHANGED vars
  BY <1>17 DEF TypeOK, Holding, vars
<1>18. QED
  BY <1>1, <1>2, <1>3, <1>4, <1>5, <1>6, <1>7, <1>8, <1>9, <1>10, <1>11,
     <1>12, <1>13, <1>14, <1>15, <1>16, <1>17
  DEF Next, Caller, Step

\* Type correctness, for any number of writers and any bounds.
THEOREM TypeCorrect == Spec => []TypeOK
<1>1. TypeInv => TypeOK
  BY DEF TypeInv
<1>2. QED
  BY InitTypeInv, StepTypeInv, <1>1, PTL DEF Spec

-----------------------------------------------------------------------------
(* Rounds are opened in order.  The guard that checks it is read long before*)
(* the file is written, so the argument needs that a committed round stays  *)
(* committed whatever other processes do in between.                        *)

LEMMA InitSeqInv == Init => SeqInv
<1>1. Init => TypeInv
  BY InitTypeInv
<1>2. Init => SequentialRounds /\ Admitted
  BY IdleType DEF Init, SequentialRounds, Admitted, Exists, Rounds
<1>3. QED
  BY <1>1, <1>2 DEF SeqInv

\* No step removes a final file.
LEMMA FinalsStay ==
  ASSUME TypeInv, [Next]_vars, NEW r \in Rounds, Exists(final[r])
  PROVE  Exists(final'[r])
<1> USE DEF TypeInv
<1>1. ASSUME NEW w \in Writers, WriteTmp(w)
      PROVE  Exists(final'[r])
  <2> DEFINE q == cmd[w].round
             new == [cmd[w].st EXCEPT !.round = q]
  <2>1. q \in Rounds /\ new \in State
    BY <1>1 DEF WriteTmp, TypeOK, Holding, Process, State
  <2>2. CASE final' = final
    BY <2>2
  <2>3. CASE \E c \in Overwritten(final[q], new) : final' = [final EXCEPT ![q] = c]
    BY <2>1, <2>3, MarkerAssumption DEF Overwritten, Exists, TypeOK
  <2>4. QED
    BY <1>1, <2>2, <2>3 DEF WriteTmp, files
<1>2. ASSUME NEW w \in Writers, Promote(w)
      PROVE  Exists(final'[r])
  BY <1>2 DEF Promote, Exists, TypeOK
<1>3. CASE UNCHANGED final
  BY <1>3
<1>4. ASSUME NEW w \in Writers, Caller(w)
      PROVE  UNCHANGED final
  BY <1>4 DEF Caller, ReadState, StartAppend, StartCheckpoint, StartFinalize, files
<1>5. ASSUME NEW w \in Writers, Step(w), ~ WriteTmp(w), ~ Promote(w)
      PROVE  UNCHANGED final
  BY <1>5 DEF Step, Mint, Admit, Refuse, OpenTmp, RenameTmp, WriteProgress,
              LogCheckpoint, LogAppend, LogFinalize, files
<1>6. ASSUME NEW w \in Writers, Crash(w)
      PROVE  UNCHANGED final
  BY <1>6 DEF Crash, files
<1>7. CASE UNCHANGED vars
  BY <1>7 DEF vars
<1>8. QED
  BY <1>1, <1>2, <1>3, <1>4, <1>5, <1>6, <1>7 DEF Next

LEMMA RenamedSame ==
  ASSUME TypeInv, NEW w \in Writers, NEW v \in Writers,
         NEW from \in Places, NEW to \in Places,
         NEW pc \in {"progress", "finalEvent"},
         cmd' = Relinked(w, from, to, pc),
         cmd'[v].pc \in {"open", "write", "rename"}
  PROVE  cmd[v].pc = cmd'[v].pc /\ cmd'[v].round = cmd[v].round
<1>1. pc \in PCs /\ pc \notin {"open", "write", "rename"}
  BY DEF PCs
<1>2. cmd \in [Writers -> Process]
  BY DEF TypeInv, TypeOK
<1>3. QED
  BY <1>1, <1>2, RelinkedType

\* An admitted command is one that was admitted before, or has just passed the
\* guard, which found the round before committed.
LEMMA StepAdmitted ==
  ASSUME TypeInv, Admitted, [Next]_vars
  PROVE  Admitted'
<1> USE DEF TypeInv
<1> SUFFICES ASSUME NEW v \in Writers,
                    cmd'[v].pc \in {"open", "write", "rename"}, cmd'[v].round > 1
             PROVE  Exists(final'[cmd'[v].round - 1])
  BY DEF Admitted
<1> DEFINE Same == /\ cmd[v].pc \in {"open", "write", "rename"}
                   /\ cmd'[v].round = cmd[v].round
<1>1. CASE Same
  <2>1. cmd[v].round \in Rounds
    BY DEF TypeOK, Process
  <2>4. cmd[v].round - 1 \in Rounds
    BY <1>1, <2>1, BoundsAssumption DEF Rounds
  <2>2. Exists(final[cmd[v].round - 1])
    BY <1>1 DEF Admitted
  <2>3. QED
    BY <1>1, <2>2, <2>4, FinalsStay
<1>2. ASSUME NEW w \in Writers, Caller(w)
      PROVE  Same
  <2>1. CASE v = w
    <3>1. ASSUME NEW r \in Rounds, ReadState(w, r)
          PROVE  Same
      BY <3>1 DEF ReadState
    <3>2. ASSUME NEW r \in Rounds, NEW b \in Bodies, StartAppend(w, r, b)
          PROVE  cmd'[v].pc = "mint"
      BY <2>1, <3>2 DEF StartAppend, TypeOK, Idle
    <3>3. ASSUME NEW r \in Rounds, StartCheckpoint(w, r)
          PROVE  cmd'[v].pc = "guard"
      BY <2>1, <3>3 DEF StartCheckpoint, TypeOK, Idle
    <3>4. ASSUME NEW r \in Rounds, NEW omit \in BOOLEAN, StartFinalize(w, r, omit)
          PROVE  cmd'[v].pc = "guard"
      BY <2>1, <3>4 DEF StartFinalize, TypeOK, Idle
    <3>5. QED
      BY <1>2, <3>1, <3>2, <3>3, <3>4 DEF Caller
  <2>2. CASE v # w
    BY <1>2, <2>2
    DEF Caller, ReadState, StartAppend, StartCheckpoint, StartFinalize, TypeOK
  <2>3. QED
    BY <2>1, <2>2
<1>3. ASSUME NEW w \in Writers, Admit(w)
      PROVE  Same \/ Exists(final'[cmd'[v].round - 1])
  <2>1. CASE v = w
    <3>1. cmd'[v].round = cmd[v].round /\ cmd[v].round > 1
      BY <1>3, <2>1 DEF Admit, TypeOK, Process
    <3>2. Exists(final[cmd[v].round - 1])
      BY <1>3, <2>1, <3>1 DEF Admit, RoundGuard
    <3>3. QED
      BY <1>3, <3>1, <3>2 DEF Admit, files
  <2>2. CASE v # w
    BY <1>3, <2>2 DEF Admit, TypeOK
  <2>3. QED
    BY <2>1, <2>2
<1>4. ASSUME NEW w \in Writers, Return(w)
      PROVE  Same
  BY <1>4, IdleType DEF Return, TypeOK
<1>5. ASSUME NEW w \in Writers, OpenTmp(w) \/ WriteTmp(w)
      PROVE  Same
  BY <1>5 DEF OpenTmp, WriteTmp, TypeOK, Process
<1>6. ASSUME NEW w \in Writers, RenameTmp(w) \/ Promote(w)
      PROVE  Same
  <2>1. CASE Return(w)
    BY <1>4, <2>1
  <2>2. CASE cmd' = Relinked(w, "tmp", "partial", "progress")
    BY <2>2, RenamedSame DEF Places
  <2>3. CASE cmd' = Relinked(w, "partial", "final", "finalEvent")
    BY <2>3, RenamedSame DEF Places
  <2>4. QED
    BY <1>6, <2>1, <2>2, <2>3 DEF RenameTmp, Promote
<1>7. ASSUME NEW w \in Writers, Mint(w)
      PROVE  Same
  <2>1. CASE Return(w)
    BY <1>4, <2>1
  <2>2. CASE ~ Return(w)
    BY <1>7, <2>2 DEF Mint, TypeOK, Process
  <2>3. QED
    BY <2>1, <2>2
<1>8. ASSUME NEW w \in Writers, Refuse(w) \/ LogCheckpoint(w) \/ WriteProgress(w)
      PROVE  Same
  <2>1. CASE Return(w)
    BY <1>4, <2>1
  <2>2. CASE ~ Return(w)
    BY <1>8, <2>2 DEF Refuse, LogCheckpoint, WriteProgress, TypeOK, Process
  <2>3. QED
    BY <2>1, <2>2
<1>9. ASSUME NEW w \in Writers, LogAppend(w) \/ LogFinalize(w) \/ Crash(w)
      PROVE  Same
  BY <1>9, <1>4 DEF LogAppend, LogFinalize, Crash
<1>10. ASSUME UNCHANGED vars
       PROVE  Same
  BY <1>10 DEF vars
<1>11. QED
  BY <1>1, <1>2, <1>3, <1>5, <1>6, <1>7, <1>8, <1>9, <1>10 DEF Next, Step

LEMMA StepSeqInv == SeqInv /\ [Next]_vars => SeqInv'
<1> SUFFICES ASSUME SeqInv, [Next]_vars
             PROVE  SeqInv'
  OBVIOUS
<1> USE DEF SeqInv
<1>1. TypeInv' /\ Admitted'
  BY StepTypeInv, StepAdmitted
<1>2. SequentialRounds'
  <2> SUFFICES ASSUME NEW r \in Rounds \ {1},
                      Exists(partial'[r]) \/ Exists(final'[r])
               PROVE  Exists(final'[r - 1])
    BY DEF SequentialRounds
  <2>1. r \in Rounds /\ r - 1 \in Rounds /\ r > 1
    BY BoundsAssumption DEF Rounds
  <2>2. CASE Exists(final[r - 1])
    BY <2>1, <2>2, FinalsStay
  <2>3. CASE ~ Exists(final[r - 1])
    <3>1. ~ Exists(partial[r]) /\ ~ Exists(final[r])
      BY <2>3 DEF SequentialRounds
    <3>2. ASSUME NEW w \in Writers, WriteTmp(w) \/ RenameTmp(w)
          PROVE  FALSE
      <4>1. cmd[w].pc \in {"open", "write", "rename"} /\ cmd[w].round \in Rounds
        BY <3>2 DEF WriteTmp, RenameTmp, TypeInv, TypeOK, Process
      <4>2. cmd[w].round # r
        BY <2>1, <2>3, <4>1 DEF Admitted
      <4>3. partial'[r] = partial[r] /\ final'[r] = final[r]
        BY <3>2, <4>2 DEF WriteTmp, RenameTmp, files, TypeInv, TypeOK
      <4>4. QED
        BY <3>1, <4>3
    <3>3. ASSUME NEW w \in Writers, Promote(w)
          PROVE  FALSE
      BY <2>1, <3>1, <3>3 DEF Promote, Exists, TypeInv, TypeOK
    <3>4. CASE UNCHANGED <<partial, final>>
      BY <3>1, <3>4
    <3>5. ASSUME NEW w \in Writers, Caller(w)
          PROVE  UNCHANGED <<partial, final>>
      BY <3>5
      DEF Caller, ReadState, StartAppend, StartCheckpoint, StartFinalize, files
    <3>6. ASSUME NEW w \in Writers, Step(w), ~ WriteTmp(w), ~ RenameTmp(w),
                 ~ Promote(w)
          PROVE  UNCHANGED <<partial, final>>
      BY <3>6 DEF Step, Mint, Admit, Refuse, OpenTmp, WriteProgress,
                  LogCheckpoint, LogAppend, LogFinalize, files
    <3>7. ASSUME NEW w \in Writers, Crash(w)
          PROVE  UNCHANGED <<partial, final>>
      BY <3>7 DEF Crash, files
    <3>8. CASE UNCHANGED vars
      BY <3>4, <3>8 DEF vars
    <3>9. QED
      BY <3>2, <3>3, <3>4, <3>5, <3>6, <3>7, <3>8 DEF Next
  <2>4. QED
    BY <2>2, <2>3
<1>3. QED
  BY <1>1, <1>2

\* Rounds are opened in order, for any number of concurrent writers, killed
\* at any point.
THEOREM SequentialAlways == Spec => []SequentialRounds
<1>1. SeqInv => SequentialRounds
  BY DEF SeqInv
<1>2. QED
  BY InitSeqInv, StepSeqInv, <1>1, PTL DEF Spec

-----------------------------------------------------------------------------
(* A commit is announced only after it, and nothing undoes it.             *)

EventInv ==
  /\ TypeInv
  /\ NoFalseFinalEvent
  /\ \A w \in Writers :
       cmd[w].pc = "finalEvent" => Exists(final[cmd[w].round])

LEMMA RelinkedPlace ==
  ASSUME TypeInv, NEW w \in Writers, NEW v \in Writers
  PROVE  /\ LET c == Relinked(w, "partial", "final", "finalEvent")[v]
            IN  /\ c.round = cmd[v].round
                /\ c.pc = IF v = w THEN "finalEvent" ELSE cmd[v].pc
         /\ LET c == Relinked(w, "tmp", "partial", "progress")[v]
            IN  /\ c.round = cmd[v].round
                /\ c.pc = IF v = w THEN "progress" ELSE cmd[v].pc
<1>1. cmd \in [Writers -> Process]
  BY DEF TypeInv, TypeOK
<1>2. /\ {"tmp", "partial", "final"} \subseteq Places
      /\ {"finalEvent", "progress"} \subseteq PCs
  BY DEF Places, PCs
<1>3. QED
  BY <1>1, <1>2, RelinkedType

LEMMA InitEventInv == Init => EventInv
<1>1. Init => TypeInv
  BY InitTypeInv
<1>2. Init => events = {} /\ \A w \in Writers : cmd[w].pc = "idle"
  BY IdleType DEF Init
<1>3. QED
  BY <1>1, <1>2 DEF EventInv, NoFalseFinalEvent

LEMMA StepEventInv == EventInv /\ [Next]_vars => EventInv'
<1> SUFFICES ASSUME EventInv, [Next]_vars
             PROVE  EventInv'
  OBVIOUS
<1> USE DEF EventInv
<1>t. TypeInv /\ TypeInv'
  BY StepTypeInv
<1>1. NoFalseFinalEvent'
  <2> SUFFICES ASSUME NEW e \in events', e.type = "round_finalized"
               PROVE  Exists(final'[e.round])
    BY DEF NoFalseFinalEvent
  <2>1. CASE e \in events
    <3>1. e.round \in Rounds
      BY <1>t, <2>1 DEF TypeInv, TypeOK, Event
    <3>2. QED
      BY <1>t, <2>1, <3>1, FinalsStay DEF NoFalseFinalEvent
  <2>2. ASSUME NEW w \in Writers, LogFinalize(w), e \notin events
        PROVE  Exists(final'[e.round])
    BY <2>2 DEF LogFinalize, files
  <2>3. ASSUME NEW w \in Writers, LogCheckpoint(w) \/ LogAppend(w)
        PROVE  e \in events
    BY <2>3 DEF LogCheckpoint, LogAppend
  <2>4. ASSUME NEW w \in Writers, Caller(w)
        PROVE  UNCHANGED events
    BY <2>4 DEF Caller, ReadState, StartAppend, StartCheckpoint, StartFinalize
  <2>5. ASSUME NEW w \in Writers, Step(w), ~ LogFinalize(w), ~ LogCheckpoint(w),
               ~ LogAppend(w)
        PROVE  UNCHANGED events
    BY <2>5 DEF Step, Mint, Admit, Refuse, OpenTmp, WriteTmp, RenameTmp,
                WriteProgress, Promote
  <2>6. ASSUME NEW w \in Writers, Crash(w)
        PROVE  UNCHANGED events
    BY <2>6 DEF Crash
  <2>7. QED
    BY <2>1, <2>2, <2>3, <2>4, <2>5, <2>6 DEF Next, vars
<1>2. ASSUME NEW v \in Writers, cmd'[v].pc = "finalEvent"
      PROVE  Exists(final'[cmd'[v].round])
  <2>1. CASE cmd[v].pc = "finalEvent" /\ cmd'[v].round = cmd[v].round
    <3>1. cmd[v].round \in Rounds
      BY <1>t DEF TypeInv, TypeOK, Process
    <3>2. QED
      BY <1>t, <2>1, <3>1, FinalsStay
  <2> DEFINE Same == cmd[v].pc = "finalEvent" /\ cmd'[v].round = cmd[v].round
  <2>2. ASSUME NEW w \in Writers, Return(w)
        PROVE  Same
    BY <1>2, <1>t, <2>2, IdleType DEF Return, TypeInv, TypeOK
  <2>3. ASSUME NEW w \in Writers, Promote(w)
        PROVE  Same \/ Exists(final'[cmd'[v].round])
    <3>1. CASE Return(w)
      BY <2>2, <3>1
    <3>2. CASE /\ cmd' = Relinked(w, "partial", "final", "finalEvent")
               /\ Exists(partial[cmd[w].round])
               /\ final' = [final EXCEPT ![cmd[w].round] = partial[cmd[w].round]]
      <4>1. /\ cmd'[v].round = cmd[v].round
            /\ cmd'[v].pc = IF v = w THEN "finalEvent" ELSE cmd[v].pc
        BY <1>t, <3>2, RelinkedPlace
      <4>2. CASE v = w
        <5>1. cmd[w].round \in Rounds
          BY <1>t DEF TypeInv, TypeOK, Process
        <5>2. QED
          BY <1>t, <3>2, <4>1, <4>2, <5>1 DEF TypeInv, TypeOK
      <4>3. CASE v # w
        BY <1>2, <4>1, <4>3
      <4>4. QED
        BY <4>2, <4>3
    <3>3. QED
      BY <2>3, <3>1, <3>2 DEF Promote
  <2>4. ASSUME NEW w \in Writers, RenameTmp(w)
        PROVE  Same
    <3>1. CASE Return(w)
      BY <2>2, <3>1
    <3>2. CASE cmd' = Relinked(w, "tmp", "partial", "progress")
      BY <1>2, <1>t, <3>2, RelinkedPlace
    <3>3. QED
      BY <2>4, <3>1, <3>2 DEF RenameTmp
  <2>5. ASSUME NEW w \in Writers, Caller(w)
        PROVE  Same
    <3>1. ASSUME NEW r \in Rounds, ReadState(w, r)
          PROVE  Same
      BY <1>2, <3>1 DEF ReadState
    <3>2. ASSUME NEW r \in Rounds, NEW b \in Bodies, StartAppend(w, r, b)
          PROVE  Same
      BY <1>2, <1>t, <3>2 DEF StartAppend, TypeInv, TypeOK, Idle
    <3>3. ASSUME NEW r \in Rounds, StartCheckpoint(w, r)
          PROVE  Same
      BY <1>2, <1>t, <3>3 DEF StartCheckpoint, TypeInv, TypeOK, Idle
    <3>4. ASSUME NEW r \in Rounds, NEW omit \in BOOLEAN, StartFinalize(w, r, omit)
          PROVE  Same
      BY <1>2, <1>t, <3>4 DEF StartFinalize, TypeInv, TypeOK, Idle
    <3>5. QED
      BY <2>5, <3>1, <3>2, <3>3, <3>4 DEF Caller
  <2>6. ASSUME NEW w \in Writers,
               Mint(w) \/ Admit(w) \/ Refuse(w) \/ OpenTmp(w) \/ WriteTmp(w)
                 \/ WriteProgress(w) \/ LogCheckpoint(w)
        PROVE  Same
    <3>1. CASE Return(w)
      BY <2>2, <3>1
    <3>2. CASE ~ Return(w)
      BY <1>2, <1>t, <2>6, <3>2
      DEF Mint, Admit, Refuse, OpenTmp, WriteTmp, WriteProgress, LogCheckpoint,
          TypeInv, TypeOK, Process
    <3>3. QED
      BY <3>1, <3>2
  <2>7. ASSUME NEW w \in Writers, LogAppend(w) \/ LogFinalize(w) \/ Crash(w)
        PROVE  Same
    BY <2>2, <2>7 DEF LogAppend, LogFinalize, Crash
  <2>8. ASSUME UNCHANGED vars
        PROVE  Same
    BY <1>2, <2>8 DEF vars
  <2>9. QED
    BY <2>1, <2>3, <2>4, <2>5, <2>6, <2>7, <2>8 DEF Next, Step
<1>3. QED
  BY <1>t, <1>1, <1>2

\* A round_finalized event names a committed round, for any number of writers.
THEOREM EventsTrue == Spec => []NoFalseFinalEvent
<1>1. EventInv => NoFalseFinalEvent
  BY DEF EventInv
<1>2. QED
  BY InitEventInv, StepEventInv, <1>1, PTL DEF Spec

-----------------------------------------------------------------------------
(* With one process at a time, which is what the orchestrator of a         *)
(* discussion runs, a round has one whole file and a committed one is never*)
(* touched again.  With two it does not hold: a process that passed the    *)
(* guard can write after another one has committed the round.              *)

SoleWriter == \A v, w \in Writers : v = w

\* What only the writer itself could invalidate: where the file it has open
\* is linked, what the tmp file of its round holds, and that the guard it
\* passed still holds.
Exclusive ==
  \A w \in Writers :
    LET r == cmd[w].round
    IN  /\ cmd[w].at = IF cmd[w].pc = "write" THEN "tmp" ELSE "none"
        /\ cmd[w].pc = "write" => tmp[r] = Torn
        /\ cmd[w].pc = "rename" => Readable(tmp[r])
        /\ cmd[w].pc \in {"open", "write", "rename"} => ~ Exists(final[r])

OneInv == TypeInv /\ OneFilePerRound /\ WholeRoundFiles /\ Exclusive

LEMMA InitOneInv == Init => OneInv
<1>1. Init => TypeInv
  BY InitTypeInv
<1>2. Init => OneFilePerRound /\ WholeRoundFiles
  BY MarkerAssumption DEF Init, OneFilePerRound, WholeRoundFiles, Exists
<1>3. Init => Exclusive
  BY DEF Init, Exclusive, Idle
<1>4. QED
  BY <1>1, <1>2, <1>3 DEF OneInv

LEMMA StepOneInv ==
  ASSUME SoleWriter, OneInv, [Next]_vars
  PROVE  /\ OneInv'
         /\ \A r \in Rounds : Exists(final[r]) => final'[r] = final[r]
<1> DEFINE Goal == /\ OneFilePerRound' /\ WholeRoundFiles' /\ Exclusive'
                   /\ \A r \in Rounds : Exists(final[r]) => final'[r] = final[r]
<1>t. TypeInv /\ TypeInv'
  BY StepTypeInv DEF OneInv
<1> USE DEF OneInv
\* A step that leaves the round files alone and its writer outside the window
\* between the opening and the renaming of the tmp file.
<1>q. ASSUME NEW w \in Writers, UNCHANGED files,
             cmd'[w].at = "none",
             cmd'[w].pc \notin {"open", "write", "rename"}
      PROVE  Goal
  <2>1. OneFilePerRound' /\ WholeRoundFiles'
    BY <1>q DEF files, OneFilePerRound, WholeRoundFiles
  <2>2. Exclusive'
    BY <1>q DEF Exclusive, SoleWriter
  <2>3. QED
    BY <1>q, <2>1, <2>2 DEF files
<1>r. ASSUME NEW w \in Writers, Return(w), UNCHANGED files
      PROVE  Goal
  <2>1. cmd'[w].at = "none" /\ cmd'[w].pc = "idle"
    BY <1>r, <1>t DEF Return, Idle, TypeInv, TypeOK
  <2>2. QED
    BY <1>q, <1>r, <2>1
<1>1. ASSUME NEW w \in Writers, NEW r \in Rounds, ReadState(w, r)
      PROVE  Goal
  BY <1>1, <1>q DEF ReadState, Exclusive
<1>2. ASSUME NEW w \in Writers, NEW r \in Rounds, NEW b \in Bodies,
             StartAppend(w, r, b)
      PROVE  Goal
  <2>1. cmd'[w].at = "none" /\ cmd'[w].pc = "mint"
    BY <1>2, <1>t DEF StartAppend, Idle, TypeInv, TypeOK
  <2>2. QED
    BY <1>q, <1>2, <2>1 DEF StartAppend
<1>3. ASSUME NEW w \in Writers, NEW r \in Rounds, StartCheckpoint(w, r)
      PROVE  Goal
  <2>1. cmd'[w].at = "none" /\ cmd'[w].pc = "guard"
    BY <1>3, <1>t DEF StartCheckpoint, Idle, TypeInv, TypeOK
  <2>2. QED
    BY <1>q, <1>3, <2>1 DEF StartCheckpoint
<1>4. ASSUME NEW w \in Writers, NEW r \in Rounds, NEW omit \in BOOLEAN,
             StartFinalize(w, r, omit)
      PROVE  Goal
  <2>1. cmd'[w].at = "none" /\ cmd'[w].pc = "guard"
    BY <1>4, <1>t DEF StartFinalize, Idle, TypeInv, TypeOK
  <2>2. QED
    BY <1>q, <1>4, <2>1 DEF StartFinalize
<1>5. ASSUME NEW w \in Writers, Mint(w)
      PROVE  Goal
  <2>1. CASE Return(w)
    BY <1>5, <1>r, <2>1 DEF Mint
  <2>2. CASE ~ Return(w)
    <3>1. cmd'[w].at = cmd[w].at /\ cmd'[w].pc = "guard"
      BY <1>5, <1>t, <2>2 DEF Mint, TypeInv, TypeOK, Process
    <3>2. QED
      BY <1>5, <1>q, <3>1 DEF Mint, Exclusive
  <2>3. QED
    BY <2>1, <2>2
<1>6. ASSUME NEW w \in Writers, Admit(w)
      PROVE  Goal
  <2>1. /\ cmd'[w].at = "none" /\ cmd'[w].pc = "open"
        /\ cmd'[w].round = cmd[w].round
        /\ ~ Exists(final[cmd[w].round])
    BY <1>6, <1>t DEF Admit, RoundGuard, Exclusive, TypeInv, TypeOK, Process
  <2>2. Exclusive'
    BY <1>6, <2>1 DEF Admit, Exclusive, SoleWriter, files
  <2>3. QED
    BY <1>6, <2>2 DEF Admit, files, OneFilePerRound, WholeRoundFiles
<1>7. ASSUME NEW w \in Writers, Refuse(w)
      PROVE  Goal
  <2>1. CASE Return(w)
    BY <1>7, <1>r, <2>1 DEF Refuse
  <2>2. CASE ~ Return(w)
    <3>1. cmd'[w].at = "none" /\ cmd'[w].pc = "msgEvent"
      BY <1>7, <1>t, <2>2 DEF Refuse, Exclusive, TypeInv, TypeOK, Process
    <3>2. QED
      BY <1>7, <1>q, <3>1 DEF Refuse
  <2>3. QED
    BY <2>1, <2>2
<1>8. ASSUME NEW w \in Writers, OpenTmp(w)
      PROVE  Goal
  <2>1. /\ cmd'[w].at = "tmp" /\ cmd'[w].pc = "write"
        /\ cmd'[w].round = cmd[w].round /\ cmd[w].round \in Rounds
        /\ tmp'[cmd[w].round] = Torn
        /\ ~ Exists(final'[cmd[w].round])
    BY <1>8, <1>t DEF OpenTmp, Exclusive, TypeInv, TypeOK, Process
  <2>2. Exclusive'
    BY <2>1 DEF Exclusive, SoleWriter
  <2>3. QED
    BY <1>8, <2>2 DEF OpenTmp, OneFilePerRound, WholeRoundFiles
<1>9. ASSUME NEW w \in Writers, WriteTmp(w)
      PROVE  Goal
  <2> DEFINE r == cmd[w].round
             new == [cmd[w].st EXCEPT !.round = r]
  <2>1. r \in Rounds /\ new \in State /\ cmd[w].at = "tmp" /\ tmp[r] = Torn
    BY <1>9, <1>t DEF WriteTmp, Exclusive, TypeInv, TypeOK, Holding, Process, State
  <2>2. UNCHANGED <<partial, final>> /\ tmp' = [tmp EXCEPT ![r] = new]
    BY <1>9, <2>1 DEF WriteTmp, Overwritten
  <2>3. cmd'[w].at = "none" /\ cmd'[w].pc = "rename" /\ cmd'[w].round = r
    BY <1>9, <1>t DEF WriteTmp, TypeInv, TypeOK, Process
  <2>4. Readable(tmp'[r])
    BY <1>t, <2>1, <2>2, MarkerAssumption DEF Readable, TypeInv, TypeOK
  <2>5. ~ Exists(final'[r])
    BY <1>9, <2>2 DEF WriteTmp, Exclusive
  <2>6. Exclusive'
    BY <2>3, <2>4, <2>5 DEF Exclusive, SoleWriter
  <2>7. QED
    BY <2>2, <2>6 DEF OneFilePerRound, WholeRoundFiles
<1>10. ASSUME NEW w \in Writers, RenameTmp(w)
       PROVE  Goal
  <2> DEFINE r == cmd[w].round
  <2>1. r \in Rounds /\ Readable(tmp[r]) /\ ~ Exists(final[r])
    BY <1>10, <1>t DEF RenameTmp, Exclusive, TypeInv, TypeOK, Process
  <2>2. /\ partial' = [partial EXCEPT ![r] = tmp[r]] /\ final' = final
        /\ cmd' = Relinked(w, "tmp", "partial", "progress")
    BY <1>10, <2>1 DEF RenameTmp, Readable, Exists
  <2>3. cmd'[w].at = "none" /\ cmd'[w].pc = "progress"
    BY <1>10, <1>t, <2>2
    DEF RenameTmp, Exclusive, Relinked, TypeInv, TypeOK, Process
  <2>4. Exclusive'
    BY <2>3 DEF Exclusive, SoleWriter
  <2>5. OneFilePerRound' /\ WholeRoundFiles'
    BY <1>t, <2>1, <2>2
    DEF OneFilePerRound, WholeRoundFiles, Readable, TypeInv, TypeOK
  <2>6. QED
    BY <2>2, <2>4, <2>5
<1>11. ASSUME NEW w \in Writers, Promote(w)
       PROVE  Goal
  <2> DEFINE r == cmd[w].round
  <2>1. CASE Exists(partial[r])
    <3>1. r \in Rounds /\ ~ Exists(final[r]) /\ partial[r] # Torn
      BY <1>t, <2>1
      DEF OneFilePerRound, WholeRoundFiles, TypeInv, TypeOK, Process
    <3>2. /\ final' = [final EXCEPT ![r] = partial[r]]
          /\ partial' = [partial EXCEPT ![r] = NoFile]
          /\ cmd' = Relinked(w, "partial", "final", "finalEvent")
      BY <1>11, <2>1 DEF Promote
    <3>3. cmd'[w].at = "none" /\ cmd'[w].pc = "finalEvent"
      BY <1>11, <1>t, <3>2
      DEF Promote, Exclusive, Relinked, TypeInv, TypeOK, Process
    <3>4. Exclusive'
      BY <3>3 DEF Exclusive, SoleWriter
    <3>5. OneFilePerRound' /\ WholeRoundFiles'
      BY <1>t, <3>1, <3>2, MarkerAssumption
      DEF OneFilePerRound, WholeRoundFiles, Exists, TypeInv, TypeOK
    <3>6. \A q \in Rounds : Exists(final[q]) => final'[q] = final[q]
      BY <1>t, <3>1, <3>2 DEF TypeInv, TypeOK
    <3>7. QED
      BY <3>4, <3>5, <3>6
  <2>2. CASE ~ Exists(partial[r])
    BY <1>11, <1>r, <2>2 DEF Promote, files
  <2>3. QED
    BY <2>1, <2>2
<1>12. ASSUME NEW w \in Writers, WriteProgress(w)
       PROVE  Goal
  <2>1. cmd'[w].at = "none" /\ cmd'[w].pc = "ckptEvent"
    BY <1>12, <1>t DEF WriteProgress, Exclusive, TypeInv, TypeOK, Process
  <2>2. QED
    BY <1>12, <1>q, <2>1 DEF WriteProgress
<1>13. ASSUME NEW w \in Writers, LogCheckpoint(w)
       PROVE  Goal
  <2>1. CASE Return(w)
    BY <1>13, <1>r, <2>1 DEF LogCheckpoint
  <2>2. CASE ~ Return(w)
    <3>1. cmd'[w].at = "none" /\ cmd'[w].pc \in {"msgEvent", "promote"}
      BY <1>13, <1>t, <2>2 DEF LogCheckpoint, Exclusive, TypeInv, TypeOK, Process
    <3>2. QED
      BY <1>13, <1>q, <3>1 DEF LogCheckpoint
  <2>3. QED
    BY <2>1, <2>2
<1>14. ASSUME NEW w \in Writers, LogAppend(w) \/ LogFinalize(w) \/ Crash(w)
       PROVE  Goal
  BY <1>14, <1>r DEF LogAppend, LogFinalize, Crash
<1>15. ASSUME UNCHANGED vars
       PROVE  Goal
  BY <1>15 DEF vars, OneFilePerRound, WholeRoundFiles, Exclusive
<1>16. Goal
  <2>1. ASSUME NEW w \in Writers, Caller(w)
        PROVE  Goal
    BY <1>1, <1>2, <1>3, <1>4, <2>1 DEF Caller
  <2>2. ASSUME NEW w \in Writers, Step(w)
        PROVE  Goal
    BY <1>5, <1>6, <1>7, <1>8, <1>9, <1>10, <1>11, <1>12, <1>13, <1>14, <2>2
    DEF Step
  <2>3. QED
    BY <1>14, <1>15, <2>1, <2>2 DEF Next
<1>17. QED
  BY <1>t, <1>16

\* A sole writer leaves each round either open or committed, never both.
THEOREM OneFileAlways ==
  ASSUME SoleWriter
  PROVE  Spec => []OneFilePerRound
<1>1. OneInv /\ [Next]_vars => OneInv'
  BY StepOneInv
<1>2. OneInv => OneFilePerRound
  BY DEF OneInv
<1>3. QED
  BY InitOneInv, <1>1, <1>2, PTL DEF Spec

\* A sole writer, killed anywhere, leaves no half-written round file.
THEOREM WholeAlways ==
  ASSUME SoleWriter
  PROVE  Spec => []WholeRoundFiles
<1>1. OneInv /\ [Next]_vars => OneInv'
  BY StepOneInv
<1>2. OneInv => WholeRoundFiles
  BY DEF OneInv
<1>3. QED
  BY InitOneInv, <1>1, <1>2, PTL DEF Spec

\* A sole writer never rewrites or removes a committed round.
THEOREM FinalsImmutableAlways ==
  ASSUME SoleWriter
  PROVE  Spec => FinalsImmutable
<1>1. OneInv /\ [Next]_vars => OneInv'
  BY StepOneInv
<1>2. OneInv /\ [Next]_vars
        => [\A r \in Rounds : Exists(final[r]) => final'[r] = final[r]]_final
  BY StepOneInv
<1>3. QED
  BY InitOneInv, <1>1, <1>2, PTL DEF Spec, FinalsImmutable

-----------------------------------------------------------------------------
(* With one process at a time, and a caller that reads the state again     *)
(* before each command that takes one, the rounds directory is the log     *)
(* that RoundLog describes.                                                *)

\* What a caller has after it read round r.
Loaded(r) == IF Exists(Disk(r)) THEN Disk(r) ELSE EmptyState(r)

\* The file of a round declares it, and numbers its messages by position.
FilesNumbered ==
  \A r \in Rounds : Exists(Disk(r)) =>
    /\ Disk(r).round = r
    /\ \A i \in DOMAIN Disk(r).msgs : Disk(r).msgs[i].seq = i

\* A caller has a draft only between reading it and the next command.
DraftIsCurrent(w) ==
  snap[w] # NoFile => cmd[w].pc = "idle" /\ snap[w] = Loaded(snap[w].round)

\* The state w holds is the log of its round and one message with id n.
HoldsOneMore(w, n) ==
  \E b \in Bodies : cmd[w].st.msgs = Append(RoundMsgs(cmd[w].round),
                                            [seq |-> n, body |-> b])

\* What a command holds until its rename: the round as it is, or one message
\* more if it appends.
HeldBefore(w) ==
  LET r == cmd[w].round
      s == cmd[w].st
  IN  /\ cmd[w].pc = "mint" => s.round = r /\ HoldsOneMore(w, 1)
      /\ cmd[w].pc \in {"guard", "open", "write", "rename"} =>
           IF cmd[w].op = "append"
           THEN s.round = r /\ HoldsOneMore(w, Len(RoundMsgs(r)) + 1)
           ELSE s.round = r => s.msgs = RoundMsgs(r)
      /\ cmd[w].pc \in {"open", "write", "rename"} => s.round = r
      /\ cmd[w].pc = "rename" => tmp[r] = s

\* After its rename the round is what the command holds.
HeldAfter(w) ==
  LET r == cmd[w].round
      s == cmd[w].st
  IN  /\ cmd[w].pc \in {"progress", "ckptEvent", "promote"}
           \/ (cmd[w].pc = "msgEvent" /\ cmd[w].wrote)
         => partial[r] = s
      /\ cmd[w].pc \in {"ckptEvent", "promote"} =>
           \A n \in Seqs(s) : <<r, n>> \in progress

\* The commands differ in where they go, and only finalize-round has checked
\* its state.
Running(w) ==
  /\ cmd[w].pc # "idle" => cmd[w].op # "none"
  /\ cmd[w].op = "finalize" => ValidRecord(cmd[w].st)
  /\ cmd[w].pc = "promote" => cmd[w].op = "finalize"
  /\ cmd[w].wrote => cmd[w].pc \in {"msgEvent", "promote", "finalEvent"}

Held(w) == HeldBefore(w) /\ HeldAfter(w) /\ Running(w)

LogInv ==
  /\ OneInv /\ SeqInv
  /\ FilesNumbered
  /\ \A w \in Writers : DraftIsCurrent(w) /\ Held(w)
  /\ FinalsValid /\ FinalInProgress /\ StoredAcksKept

-----------------------------------------------------------------------------
LEMMA NatLeast ==
  ASSUME NEW T \in SUBSET Nat, T # {}
  PROVE  \E n \in T : \A m \in T : n <= m
<1> DEFINE Less == {p \in Nat \X Nat : p[1] < p[2]}
<1>1. IsWellFoundedOn(OpToRel(<, Nat), Nat)
  BY NatLessThanWellFounded, Zenon
<1>2. OpToRel(<, Nat) = Less
  BY Zenon DEF OpToRel
<1>3. \E n \in T : \A m \in T : ~ (<<m, n>> \in Less)
  BY <1>1, <1>2, WFMin, Zenon
<1>4. PICK n \in T : \A m \in T : ~ (<<m, n>> \in Less)
  BY <1>3, Zenon
<1>5. ASSUME NEW m \in T
      PROVE  n <= m
  <2>1. ~ (<<m, n>> \in Less)
    BY <1>4, Zenon
  <2>2. m \in Nat /\ n \in Nat
    OBVIOUS
  <2>3. ~ (m < n)
    BY <2>1, <2>2
  <2>4. QED
    BY <2>2, <2>3
<1>6. QED
  BY <1>5

\* Under OneFilePerRound and WholeRoundFiles a round is read from its one file.
LEMMA DiskIs ==
  ASSUME OneInv, NEW r \in Rounds
  PROVE  /\ Disk(r) \in State \cup {NoFile}
         /\ Exists(Disk(r)) <=> Disk(r) \in State
         /\ Exists(Disk(r)) <=> Readable(Disk(r))
         /\ Exists(partial[r]) => Disk(r) = partial[r] /\ final[r] = NoFile
         /\ Exists(final[r]) => Disk(r) = final[r] /\ partial[r] = NoFile
  BY MarkerAssumption
  DEF OneInv, TypeInv, TypeOK, OneFilePerRound, WholeRoundFiles, Disk, Exists, Readable

LEMMA RoundMsgsType ==
  ASSUME OneInv, NEW r \in Rounds
  PROVE  /\ RoundMsgs(r) \in Seq(Msg)
         /\ Len(RoundMsgs(r)) \in Nat
         /\ DOMAIN RoundMsgs(r) = 1 .. Len(RoundMsgs(r))
<1>1. RoundMsgs(r) \in Seq(Msg)
  BY DiskIs, EmptySeq DEF RoundMsgs, State
<1>2. QED
  BY <1>1, LenProperties

LEMMA LoadedIs ==
  ASSUME OneInv, FilesNumbered, NEW r \in Rounds
  PROVE  /\ Loaded(r) \in State
         /\ Loaded(r).round = r
         /\ Loaded(r).msgs = RoundMsgs(r)
<1>1. CASE Exists(Disk(r))
  BY <1>1, DiskIs DEF Loaded, RoundMsgs, FilesNumbered
<1>2. CASE ~ Exists(Disk(r))
  BY <1>2, DiskIs, EmptyStateType DEF Loaded, RoundMsgs, EmptyState
<1>3. QED
  BY <1>1, <1>2

\* The ids of a round are the positions of its messages.
LEMMA IdsOfRound ==
  ASSUME OneInv, FilesNumbered, NEW r \in Rounds
  PROVE  /\ SeqsOf(partial[r]) \cup SeqsOf(final[r]) = 1 .. Len(RoundMsgs(r))
         /\ \A i \in 1 .. Len(RoundMsgs(r)) : RoundMsgs(r)[i].seq = i
<1>1. \A i \in 1 .. Len(RoundMsgs(r)) : RoundMsgs(r)[i].seq = i
  BY DiskIs, RoundMsgsType DEF FilesNumbered, RoundMsgs
<1>2. {RoundMsgs(r)[i].seq : i \in DOMAIN RoundMsgs(r)} = 1 .. Len(RoundMsgs(r))
  BY <1>1, RoundMsgsType
<1>3. CASE Exists(Disk(r))
  <2>1. SeqsOf(Disk(r)) = 1 .. Len(RoundMsgs(r))
    BY <1>2, <1>3, DiskIs DEF SeqsOf, Seqs, RoundMsgs
  <2>2. SeqsOf(NoFile) = {}
    BY DEF SeqsOf, Readable
  <2>3. QED
    BY <1>1, <1>3, <2>1, <2>2, DiskIs DEF Disk, Exists
<1>4. CASE ~ Exists(Disk(r))
  <2>1. partial[r] = NoFile /\ final[r] = NoFile
    BY <1>4 DEF Disk, Exists
  <2>2. RoundMsgs(r) = <<>>
    BY <1>4, DiskIs DEF RoundMsgs
  <2>3. QED
    BY <1>1, <2>1, <2>2 DEF SeqsOf, Readable
<1>5. QED
  BY <1>3, <1>4

\* The id that next_message_id mints is the next free one.
LEMMA NextIsFree ==
  ASSUME OneInv, FilesNumbered, NEW r \in Rounds
  PROVE  NextSeq(r) = Len(RoundMsgs(r)) + 1
<1> DEFINE n == Len(RoundMsgs(r))
           ids == SeqsOf(partial[r]) \cup SeqsOf(final[r])
<1>1. n \in Nat /\ ids = 1 .. n
  BY IdsOfRound, RoundMsgsType
<1>2. n \in {0} \cup ids /\ \A m \in ids : m <= n
  BY <1>1
<1>3. \A k \in {0} \cup ids : (\A m \in ids : m <= k) => k = n
  BY <1>1
<1>4. {0} \cup SeqsOf(partial[r]) \cup SeqsOf(final[r]) = {0} \cup ids
  OBVIOUS
<1>5. MaxSeq(r) = n
  BY <1>2, <1>3, <1>4, Zenon DEF MaxSeq
<1>6. QED
  BY <1>1, <1>5 DEF NextSeq

\* Minting turns the message with a provisional id into the next of the round.
LEMMA Renumbered ==
  ASSUME NEW q \in Seq(Msg), NEW m \in Msg, NEW e \in Msg,
         NEW old, old = Append(q, m)
  PROVE  /\ old[Len(old)] = m
         /\ [old EXCEPT ![Len(old)] = e] = Append(q, e)
<1> DEFINE new == [old EXCEPT ![Len(old)] = e]
<1>1. Len(q) \in Nat
  BY LenProperties
<1>2. /\ old \in Seq(Msg) /\ Len(old) = Len(q) + 1
      /\ \A i \in 1 .. Len(q) : old[i] = q[i]
      /\ old[Len(q) + 1] = m
  BY AppendProperties
<1>3. Len(old) \in 1 .. Len(old)
  BY <1>1, <1>2
<1>4. /\ new \in Seq(Msg) /\ Len(new) = Len(old)
      /\ \A i \in 1 .. Len(old) : new[i] = IF i = Len(old) THEN e ELSE old[i]
  <2>1. new \in Seq(Msg) /\ Len(new) = Len(old)
    BY <1>2, <1>3, ExceptSeq
  <2>2. old \in [1 .. Len(old) -> Msg]
    BY <1>2, LenProperties
  <2>3. QED
    BY <2>1, <2>2
<1>5. /\ Append(q, e) \in Seq(Msg) /\ Len(Append(q, e)) = Len(q) + 1
      /\ \A i \in 1 .. Len(q) : Append(q, e)[i] = q[i]
      /\ Append(q, e)[Len(q) + 1] = e
  BY AppendProperties
<1>6. \A i \in 1 .. Len(new) : new[i] = Append(q, e)[i]
  BY <1>1, <1>2, <1>4, <1>5
<1>7. QED
  BY <1>2, <1>4, <1>5, <1>6, SeqEqual

\* A step that leaves the round files alone leaves the logs alone.
LEMMA LogsStay ==
  ASSUME UNCHANGED <<partial, final>>
  PROVE  \A r : /\ RoundMsgs(r)' = RoundMsgs(r)
                /\ Disk(r)' = Disk(r)
                /\ Loaded(r)' = Loaded(r)
  BY DEF RoundMsgs, Disk, Loaded

\* What a caller starts is about the round as it is.
LEMMA StartHeld ==
  ASSUME LogInv, NEW w \in Writers, Caller(w), Fresh
  PROVE  Held(w)' /\ DraftIsCurrent(w)'
<1> USE DEF LogInv
<1>t. TypeOK
  BY DEF OneInv, TypeInv
<1>1. ASSUME NEW r \in Rounds, ReadState(w, r)
      PROVE  Held(w)' /\ DraftIsCurrent(w)'
  <2>1. cmd' = cmd /\ UNCHANGED files /\ cmd[w].pc = "idle" /\ progress' = progress
    BY <1>1 DEF ReadState
  <2>2. Held(w)'
    BY <2>1 DEF Held, HeldBefore, HeldAfter, Running, HoldsOneMore, files
  <2>3. snap'[w] = Loaded(r)
    BY <1>1, <1>t DEF ReadState, Loaded, TypeOK
  <2>4. snap'[w].round = r
    BY <2>3, LoadedIs
  <2>5. Loaded(r)' = Loaded(r)
    BY <2>1, LogsStay DEF files
  <2>6. QED
    BY <2>1, <2>2, <2>3, <2>4, <2>5 DEF DraftIsCurrent
<1>2. ASSUME NEW r \in Rounds, NEW b \in Bodies, StartAppend(w, r, b)
      PROVE  Held(w)' /\ snap'[w] = NoFile
  <2> DEFINE m == [seq |-> 1, body |-> b]
             s == [Loaded(r) EXCEPT !.msgs = Append(@, m)]
  <2>1. /\ cmd'[w] = [Idle EXCEPT !.pc = "mint", !.op = "append", !.round = r, !.st = s]
        /\ snap'[w] = NoFile
        /\ UNCHANGED <<partial, final>>
    BY <1>2, <1>t DEF StartAppend, Loaded, Kept, TypeOK, files
  <2>2. s.round = r /\ s.msgs = Append(RoundMsgs(r), m)
    BY LoadedIs DEF State
  <2>3. /\ cmd'[w].pc = "mint" /\ cmd'[w].op = "append" /\ cmd'[w].round = r
        /\ cmd'[w].st = s /\ cmd'[w].wrote = FALSE
    BY <2>1 DEF Idle
  <2> HIDE DEF s
  <2>4. RoundMsgs(r)' = RoundMsgs(r)
    BY <2>1, LogsStay
  <2>5. HeldBefore(w)'
    BY <2>2, <2>3, <2>4 DEF HeldBefore, HoldsOneMore
  <2>6. QED
    BY <2>1, <2>3, <2>5 DEF Held, HeldAfter, Running
<1>3. ASSUME NEW r \in Rounds, StartCheckpoint(w, r)
      PROVE  Held(w)' /\ snap'[w] = NoFile
  <2>1. /\ cmd'[w].pc = "guard" /\ cmd'[w].op = "checkpoint" /\ cmd'[w].round = r
        /\ cmd'[w].st = snap[w] /\ cmd'[w].wrote = FALSE
        /\ snap'[w] = NoFile /\ snap[w] # NoFile
        /\ UNCHANGED <<partial, final>>
    BY <1>3, <1>t DEF StartCheckpoint, Idle, Kept, Exists, TypeOK, files
  <2>2. snap[w].round \in Rounds /\ snap[w].msgs = RoundMsgs(snap[w].round)
    BY <1>t, <2>1, LoadedIs DEF DraftIsCurrent, TypeOK, State
  <2>3. RoundMsgs(r)' = RoundMsgs(r)
    BY <2>1, LogsStay
  <2>4. HeldBefore(w)'
    BY <2>1, <2>2, <2>3 DEF HeldBefore
  <2>5. QED
    BY <2>1, <2>4 DEF Held, HeldAfter, Running
<1>4. ASSUME NEW r \in Rounds, NEW omit \in BOOLEAN, StartFinalize(w, r, omit)
      PROVE  Held(w)' /\ snap'[w] = NoFile
  <2> DEFINE given  == IF omit THEN [snap[w] EXCEPT !.meta = NoMeta] ELSE snap[w]
             record == DeriveMetadata(given)
  <2>1. /\ cmd'[w].pc = "guard" /\ cmd'[w].op = "finalize" /\ cmd'[w].round = r
        /\ cmd'[w].st = record /\ cmd'[w].wrote = FALSE
        /\ snap'[w] = NoFile /\ snap[w] # NoFile
        /\ snap[w].round = r /\ ValidRecord(record)
        /\ UNCHANGED <<partial, final>>
    BY <1>4, <1>t DEF StartFinalize, RoundGuard, Idle, Kept, Exists, TypeOK, files
  <2>2. snap[w] \in State /\ snap[w].msgs = RoundMsgs(r)
    BY <1>t, <2>1, LoadedIs DEF DraftIsCurrent, TypeOK
  <2>3. record.msgs = RoundMsgs(r)
    BY <2>2 DEF DeriveMetadata, State
  <2> HIDE DEF record
  <2>4. RoundMsgs(r)' = RoundMsgs(r)
    BY <2>1, LogsStay
  <2>5. HeldBefore(w)'
    BY <2>1, <2>3, <2>4 DEF HeldBefore
  <2>6. QED
    BY <2>1, <2>5 DEF Held, HeldAfter, Running
<1>5. QED
  BY <1>1, <1>2, <1>3, <1>4 DEF Caller, DraftIsCurrent

LEMMA ReturnHeld ==
  ASSUME TypeOK, NEW w \in Writers, Return(w)
  PROVE  Held(w)'
<1>1. cmd'[w].pc = "idle" /\ cmd'[w].op = "none" /\ cmd'[w].wrote = FALSE
  BY DEF TypeOK, Return, Idle
<1>2. QED
  BY <1>1 DEF Held, HeldBefore, HeldAfter, Running

\* Before its rename a command holds what it will make of the round, after it
\* what it has made of it.
LEMMA StepHeld ==
  ASSUME SoleWriter, LogInv, NEW w \in Writers, Step(w)
  PROVE  Held(w)'
<1> USE DEF LogInv
<1> DEFINE r == cmd[w].round
           s == cmd[w].st
<1>t. TypeInv /\ TypeOK /\ Held(w) /\ r \in Rounds
  BY DEF OneInv, TypeInv, TypeOK, Process
<1>1. ASSUME Mint(w) PROVE Held(w)'
  <2>1. CASE Return(w)
    BY <1>t, <2>1, ReturnHeld
  <2>2. CASE ~ Return(w)
    <3> DEFINE n == NextSeq(r)
    <3>1. /\ cmd[w].pc = "mint" /\ n \in 1 .. MaxMsgs
          /\ cmd' = [cmd EXCEPT ![w].pc = "guard",
                                ![w].st.msgs[Len(s.msgs)].seq = n]
          /\ UNCHANGED <<partial, final>>
      BY <1>1, <2>2 DEF Mint, files
    <3>2. s \in State /\ s.msgs # <<>> /\ cmd[w].op = "append" /\ s.round = r
          /\ ~ cmd[w].wrote
      BY <1>t, <3>1 DEF TypeInv, Holding, Held, HeldBefore, Running
    <3>3. /\ cmd'[w].pc = "guard" /\ cmd'[w].op = "append" /\ cmd'[w].round = r
          /\ cmd'[w].wrote = cmd[w].wrote
          /\ cmd'[w].st = [s EXCEPT !.msgs[Len(s.msgs)].seq = n]
      BY <1>t, <3>1, <3>2 DEF TypeOK, Process
    <3>4. PICK b \in Bodies : s.msgs = Append(RoundMsgs(r), [seq |-> 1, body |-> b])
      BY <1>t, <3>1 DEF Held, HeldBefore, HoldsOneMore
    <3>5. [s.msgs EXCEPT ![Len(s.msgs)].seq = n]
            = Append(RoundMsgs(r), [seq |-> n, body |-> b])
      <4> DEFINE m == [seq |-> 1, body |-> b]
                 e == [seq |-> n, body |-> b]
      <4>1. RoundMsgs(r) \in Seq(Msg) /\ m \in Msg /\ e \in Msg
        <5>1. 1 \in 1 .. MaxMsgs
          BY BoundsAssumption
        <5>2. m \in Msg /\ e \in Msg
          BY <3>1, <5>1 DEF Msg
        <5>3. QED
          BY <1>t, <5>2, RoundMsgsType
      <4>2. [m EXCEPT !.seq = n] = e
        OBVIOUS
      <4> HIDE DEF m, e
      <4>3. /\ s.msgs[Len(s.msgs)] = m
            /\ [s.msgs EXCEPT ![Len(s.msgs)] = e] = Append(RoundMsgs(r), e)
        BY <3>4, <4>1, Renumbered DEF m
      <4>4. [s.msgs EXCEPT ![Len(s.msgs)].seq = n]
              = [s.msgs EXCEPT ![Len(s.msgs)] = [s.msgs[Len(s.msgs)] EXCEPT !.seq = n]]
        OBVIOUS
      <4>5. QED
        BY <4>2, <4>3, <4>4 DEF e
    <3>6. /\ cmd'[w].st.msgs = Append(RoundMsgs(r), [seq |-> n, body |-> b])
          /\ cmd'[w].st.round = r
      <4> DEFINE q == [s.msgs EXCEPT ![Len(s.msgs)].seq = n]
      <4>1. [s EXCEPT !.msgs[Len(s.msgs)].seq = n] = [s EXCEPT !.msgs = q]
        OBVIOUS
      <4>2. [s EXCEPT !.msgs = q].msgs = q /\ [s EXCEPT !.msgs = q].round = r
        BY <3>2 DEF State
      <4>3. QED
        BY <3>3, <3>5, <4>1, <4>2
    <3>7. n = Len(RoundMsgs(r)) + 1 /\ RoundMsgs(r)' = RoundMsgs(r)
      BY <1>t, <3>1, <3>3, NextIsFree, LogsStay
    <3>8. HeldBefore(w)'
      BY <3>3, <3>6, <3>7 DEF HeldBefore, HoldsOneMore
    <3>9. QED
      BY <3>2, <3>3, <3>8 DEF Held, HeldAfter, Running
  <2>3. QED
    BY <2>1, <2>2
<1>2. ASSUME Admit(w) PROVE Held(w)'
  <2>1. /\ cmd[w].pc = "guard" /\ s.round = r
        /\ cmd'[w] = [cmd[w] EXCEPT !.pc = "open"]
        /\ UNCHANGED <<partial, final>>
    BY <1>2, <1>t DEF Admit, RoundGuard, TypeOK, files
  <2>2. /\ cmd'[w].pc = "open" /\ cmd'[w].op = cmd[w].op /\ cmd'[w].round = r
        /\ cmd'[w].st = s /\ cmd'[w].wrote = cmd[w].wrote
    BY <1>t, <2>1 DEF TypeOK, Process
  <2>3. RoundMsgs(r)' = RoundMsgs(r)
    BY <2>1, LogsStay
  <2>4. HeldBefore(w)'
    BY <1>t, <2>1, <2>2, <2>3 DEF Held, HeldBefore, HoldsOneMore
  <2>5. QED
    BY <1>t, <2>1, <2>2, <2>4 DEF Held, HeldAfter, Running
<1>3. ASSUME Refuse(w) PROVE Held(w)'
  <2>1. CASE Return(w)
    BY <1>t, <2>1, ReturnHeld
  <2>2. CASE ~ Return(w)
    <3>1. /\ cmd[w].pc = "guard" /\ cmd[w].op = "append"
          /\ cmd'[w] = [cmd[w] EXCEPT !.pc = "msgEvent"]
      BY <1>3, <1>t, <2>2 DEF Refuse, TypeOK
    <3>2. cmd'[w].pc = "msgEvent" /\ cmd'[w].op = "append" /\ ~ cmd'[w].wrote
      BY <1>t, <3>1 DEF TypeOK, Process, Held, Running
    <3>3. QED
      BY <3>2 DEF Held, HeldBefore, HeldAfter, Running
  <2>3. QED
    BY <2>1, <2>2
<1>4. ASSUME OpenTmp(w) PROVE Held(w)'
  <2>1. /\ cmd[w].pc = "open"
        /\ cmd'[w] = [cmd[w] EXCEPT !.pc = "write", !.at = "tmp"]
        /\ UNCHANGED <<partial, final>>
    BY <1>4, <1>t DEF OpenTmp, TypeOK
  <2>2. /\ cmd'[w].pc = "write" /\ cmd'[w].op = cmd[w].op /\ cmd'[w].round = r
        /\ cmd'[w].st = s /\ cmd'[w].wrote = cmd[w].wrote
    BY <1>t, <2>1 DEF TypeOK, Process
  <2>3. RoundMsgs(r)' = RoundMsgs(r)
    BY <2>1, LogsStay
  <2>4. HeldBefore(w)'
    BY <1>t, <2>1, <2>2, <2>3 DEF Held, HeldBefore, HoldsOneMore
  <2>5. QED
    BY <1>t, <2>1, <2>2, <2>4 DEF Held, HeldAfter, Running
<1>5. ASSUME WriteTmp(w) PROVE Held(w)'
  <2>1. /\ cmd[w].pc = "write" /\ s \in State /\ s.round = r
        /\ cmd[w].at = "tmp" /\ tmp[r] = Torn
    BY <1>5, <1>t DEF WriteTmp, OneInv, Exclusive, TypeInv, Holding, Held, HeldBefore
  <2>2. [s EXCEPT !.round = r] = s
    BY <2>1 DEF State
  <2>3. /\ tmp'[r] = s /\ UNCHANGED <<partial, final>>
        /\ cmd'[w] = [cmd[w] EXCEPT !.pc = "rename", !.at = "none"]
    BY <1>5, <1>t, <2>1, <2>2 DEF WriteTmp, Overwritten, TypeOK
  <2>4. /\ cmd'[w].pc = "rename" /\ cmd'[w].op = cmd[w].op /\ cmd'[w].round = r
        /\ cmd'[w].st = s /\ cmd'[w].wrote = cmd[w].wrote
    BY <1>t, <2>3 DEF TypeOK, Process
  <2>5. RoundMsgs(r)' = RoundMsgs(r)
    BY <2>3, LogsStay
  <2>6. HeldBefore(w)'
    BY <1>t, <2>1, <2>3, <2>4, <2>5 DEF Held, HeldBefore, HoldsOneMore
  <2>7. QED
    BY <1>t, <2>1, <2>4, <2>6 DEF Held, HeldAfter, Running
<1>6. ASSUME RenameTmp(w) PROVE Held(w)'
  <2>1. cmd[w].pc = "rename" /\ Exists(tmp[r]) /\ tmp[r] = s
    BY <1>6, <1>t
    DEF RenameTmp, OneInv, Exclusive, Readable, Exists, Held, HeldBefore
  <2>2. /\ partial'[r] = s
        /\ cmd'[w].pc = "progress" /\ cmd'[w].op = cmd[w].op /\ cmd'[w].round = r
        /\ cmd'[w].st = s /\ cmd'[w].wrote = cmd[w].wrote
    BY <1>6, <1>t, <2>1 DEF RenameTmp, Relinked, TypeOK, Process
  <2>3. QED
    BY <1>t, <2>1, <2>2 DEF Held, HeldBefore, HeldAfter, Running
<1>7. ASSUME WriteProgress(w) PROVE Held(w)'
  <2>1. /\ cmd[w].pc = "progress" /\ partial'[r] = s
        /\ \A n \in Seqs(s) : <<r, n>> \in progress'
        /\ cmd'[w] = [cmd[w] EXCEPT !.pc = "ckptEvent"]
    BY <1>7, <1>t DEF WriteProgress, TypeOK, files, Held, HeldAfter
  <2>2. /\ cmd'[w].pc = "ckptEvent" /\ cmd'[w].op = cmd[w].op /\ cmd'[w].round = r
        /\ cmd'[w].st = s /\ cmd'[w].wrote = cmd[w].wrote
    BY <1>t, <2>1 DEF TypeOK, Process
  <2>3. HeldAfter(w)'
    BY <2>1, <2>2 DEF HeldAfter, Seqs
  <2>4. QED
    BY <1>t, <2>1, <2>2, <2>3 DEF Held, HeldBefore, Running
<1>8. ASSUME LogCheckpoint(w) PROVE Held(w)'
  <2>1. CASE Return(w)
    BY <1>t, <2>1, ReturnHeld
  <2>2. CASE ~ Return(w)
    <3>1. /\ cmd[w].pc = "ckptEvent" /\ cmd[w].op # "checkpoint"
          /\ partial'[r] = s /\ progress' = progress
          /\ \A n \in Seqs(s) : <<r, n>> \in progress
          /\ cmd'[w] = [cmd[w] EXCEPT !.pc = IF cmd[w].op = "append" THEN "msgEvent"
                                             ELSE "promote",
                                      !.wrote = TRUE]
      BY <1>8, <1>t, <2>2 DEF LogCheckpoint, TypeOK, files, Held, HeldAfter
    <3>2. cmd[w].op \in {"append", "finalize"}
      BY <1>t, <3>1 DEF TypeOK, Process, Ops, Held, Running
    <3>3. /\ cmd'[w].pc = IF cmd[w].op = "append" THEN "msgEvent" ELSE "promote"
          /\ cmd'[w].op = cmd[w].op /\ cmd'[w].round = r
          /\ cmd'[w].st = s /\ cmd'[w].wrote = TRUE
      BY <1>t, <3>1 DEF TypeOK, Process
    <3>4. HeldAfter(w)'
      BY <3>1, <3>3 DEF HeldAfter
    <3>5. HeldBefore(w)'
      BY <3>3 DEF HeldBefore
    <3>6. Running(w)'
      BY <1>t, <3>2, <3>3 DEF Running, Held
    <3>7. QED
      BY <3>4, <3>5, <3>6 DEF Held
  <2>3. QED
    BY <2>1, <2>2
<1>9. ASSUME LogAppend(w) \/ LogFinalize(w) PROVE Held(w)'
  BY <1>9, <1>t, ReturnHeld DEF LogAppend, LogFinalize
<1>10. ASSUME Promote(w) PROVE Held(w)'
  <2>1. CASE Return(w)
    BY <1>t, <2>1, ReturnHeld
  <2>2. CASE ~ Return(w)
    <3>1. /\ cmd[w].pc = "promote" /\ cmd[w].op = "finalize"
          /\ cmd'[w].pc = "finalEvent" /\ cmd'[w].op = cmd[w].op
          /\ cmd'[w].st = s
      BY <1>10, <1>t, <2>2 DEF Promote, Relinked, TypeOK, Process, Held, Running
    <3>2. QED
      BY <1>t, <3>1 DEF Held, HeldBefore, HeldAfter, Running
  <2>3. QED
    BY <2>1, <2>2
<1>11. QED
  BY <1>1, <1>2, <1>3, <1>4, <1>5, <1>6, <1>7, <1>8, <1>9, <1>10 DEF Step

\* A rename puts the state the command holds in place of an open round that the
\* guard let pass: the round as it was, or with one more message.
LEMMA RenameEffect ==
  ASSUME SoleWriter, LogInv, NEW w \in Writers, RenameTmp(w)
  PROVE  LET r == cmd[w].round
             s == cmd[w].st
         IN  /\ r \in Rounds /\ s \in State /\ s.round = r
             /\ partial' = [partial EXCEPT ![r] = s]
             /\ final' = final /\ final[r] = NoFile
             /\ r > 1 => Exists(final[r - 1])
             /\ s.msgs = RoundMsgs(r) \/ HoldsOneMore(w, Len(RoundMsgs(r)) + 1)
             /\ progress' = progress /\ acked' = acked
<1> DEFINE r == cmd[w].round
           s == cmd[w].st
<1>1. r \in Rounds /\ s \in State /\ cmd[w].pc = "rename"
  BY DEF LogInv, OneInv, TypeInv, TypeOK, Holding, Process, RenameTmp
<1>2. Held(w)
  BY DEF LogInv
<1>3. s.round = r /\ tmp[r] = s
  BY <1>1, <1>2 DEF Held, HeldBefore
<1>4. s.msgs = RoundMsgs(r) \/ HoldsOneMore(w, Len(RoundMsgs(r)) + 1)
  BY <1>1, <1>2, <1>3 DEF Held, HeldBefore
<1>5. final[r] = NoFile /\ (r > 1 => Exists(final[r - 1]))
  BY <1>1 DEF LogInv, OneInv, Exclusive, SeqInv, Admitted, Exists
<1>6. Exists(tmp[r])
  BY <1>1, <1>3, MarkerAssumption DEF Exists
<1>7. QED
  BY <1>1, <1>3, <1>4, <1>5, <1>6 DEF RenameTmp

\* finalize-round moves what it validated, and has listed, from the open file of
\* the round to the committed one.
LEMMA PromoteEffect ==
  ASSUME SoleWriter, LogInv, NEW w \in Writers, Promote(w)
  PROVE  LET r == cmd[w].round
             s == cmd[w].st
         IN  /\ r \in Rounds /\ s \in State /\ s.round = r /\ ValidRecord(s)
             /\ partial[r] = s /\ final[r] = NoFile
             /\ final' = [final EXCEPT ![r] = s]
             /\ partial' = [partial EXCEPT ![r] = NoFile]
             /\ \A n \in Seqs(s) : <<r, n>> \in progress
             /\ progress' = progress /\ acked' = acked
<1> DEFINE r == cmd[w].round
           s == cmd[w].st
<1>1. r \in Rounds /\ s \in State /\ cmd[w].pc = "promote"
  BY DEF LogInv, OneInv, TypeInv, TypeOK, Holding, Process, Promote
<1>2. Held(w)
  BY DEF LogInv
<1>3. partial[r] = s /\ \A n \in Seqs(s) : <<r, n>> \in progress
  BY <1>1, <1>2 DEF Held, HeldAfter
<1>4. ValidRecord(s)
  BY <1>1, <1>2 DEF Held, Running
<1>5. Exists(partial[r])
  BY <1>1, <1>3, MarkerAssumption DEF Exists
<1>6. Disk(r) = s /\ final[r] = NoFile
  BY <1>1, <1>3, <1>5, DiskIs DEF LogInv
<1>7. s.round = r
  BY <1>1, <1>5, <1>6 DEF LogInv, FilesNumbered, Disk
<1>8. QED
  BY <1>1, <1>3, <1>4, <1>5, <1>6, <1>7 DEF Promote

\* No other step touches the round files.
LEMMA FilesElse ==
  ASSUME SoleWriter, LogInv, [Next]_vars,
         ~ \E w \in Writers : RenameTmp(w) \/ Promote(w)
  PROVE  UNCHANGED <<partial, final>>
<1>1. ASSUME NEW w \in Writers, WriteTmp(w)
      PROVE  UNCHANGED <<partial, final>>
  <2>1. cmd[w].at = "tmp"
    BY <1>1 DEF WriteTmp, LogInv, OneInv, Exclusive
  <2>2. QED
    BY <1>1, <2>1 DEF WriteTmp
<1>2. ASSUME NEW w \in Writers, Caller(w)
      PROVE  UNCHANGED <<partial, final>>
  BY <1>2 DEF Caller, ReadState, StartAppend, StartCheckpoint, StartFinalize, files
<1>3. ASSUME NEW w \in Writers, Step(w), ~ WriteTmp(w)
      PROVE  UNCHANGED <<partial, final>>
  BY <1>3 DEF Step, Mint, Admit, Refuse, OpenTmp, WriteProgress, LogCheckpoint,
              LogAppend, LogFinalize, files
<1>4. ASSUME NEW w \in Writers, Crash(w)
      PROVE  UNCHANGED <<partial, final>>
  BY <1>4 DEF Crash, files
<1>5. CASE UNCHANGED vars
  BY <1>5 DEF vars
<1>6. QED
  BY <1>1, <1>2, <1>3, <1>4, <1>5 DEF Next

\* The log of a round keeps its messages at their places.
LEMMA LogsGrow ==
  ASSUME SoleWriter, LogInv, [Next]_vars, NEW q \in Rounds
  PROVE  /\ Readable(Disk(q)) => Readable(Disk(q)')
         /\ \A i \in DOMAIN RoundMsgs(q) :
              i \in DOMAIN RoundMsgs(q)' /\ RoundMsgs(q)'[i] = RoundMsgs(q)[i]
<1>1. ASSUME NEW w \in Writers, RenameTmp(w)
      PROVE  /\ Readable(Disk(q)) => Readable(Disk(q)')
             /\ \A i \in DOMAIN RoundMsgs(q) :
                  i \in DOMAIN RoundMsgs(q)' /\ RoundMsgs(q)'[i] = RoundMsgs(q)[i]
  <2> DEFINE r == cmd[w].round
             s == cmd[w].st
  <2>1. /\ r \in Rounds /\ s \in State /\ partial' = [partial EXCEPT ![r] = s]
        /\ final' = final
        /\ s.msgs = RoundMsgs(r) \/ HoldsOneMore(w, Len(RoundMsgs(r)) + 1)
    BY <1>1, RenameEffect
  <2>2. CASE q # r
    BY <2>1, <2>2 DEF Disk, RoundMsgs
  <2>3. CASE q = r
    <3>1. partial \in [Rounds -> State \cup {NoFile, Torn}]
      BY DEF LogInv, OneInv, TypeInv, TypeOK
    <3>2. Disk(q)' = s /\ Readable(s) /\ RoundMsgs(q)' = s.msgs
      BY <2>1, <2>3, <3>1, MarkerAssumption DEF Disk, RoundMsgs, Readable, Exists
    <3>3. s.msgs \in Seq(Msg) /\ DOMAIN s.msgs = 1 .. Len(s.msgs)
      BY <2>1, LenProperties DEF State
    <3>4. RoundMsgs(q) \in Seq(Msg) /\ DOMAIN RoundMsgs(q) = 1 .. Len(RoundMsgs(q))
          /\ Len(RoundMsgs(q)) \in Nat
      BY RoundMsgsType DEF LogInv
    <3>5. CASE s.msgs = RoundMsgs(r)
      BY <2>3, <3>2, <3>5
    <3>6. CASE HoldsOneMore(w, Len(RoundMsgs(r)) + 1)
      <4>1. PICK m : s.msgs = Append(RoundMsgs(q), m)
        BY <2>3, <3>6 DEF HoldsOneMore
      <4>2. /\ Len(s.msgs) = Len(RoundMsgs(q)) + 1
            /\ \A i \in 1 .. Len(RoundMsgs(q)) : s.msgs[i] = RoundMsgs(q)[i]
        BY <3>4, <4>1
      <4>3. QED
        BY <3>2, <3>3, <3>4, <4>2
    <3>7. QED
      BY <2>1, <3>5, <3>6
  <2>4. QED
    BY <2>2, <2>3
<1>2. ASSUME NEW w \in Writers, Promote(w)
      PROVE  Disk(q)' = Disk(q) /\ RoundMsgs(q)' = RoundMsgs(q)
  <2>1. Disk(q)' = Disk(q)
    BY <1>2, PromoteEffect, MarkerAssumption
    DEF Disk, Exists, LogInv, OneInv, TypeInv, TypeOK
  <2>2. QED
    BY <2>1 DEF RoundMsgs
<1>3. CASE UNCHANGED <<partial, final>>
  BY <1>3, LogsStay
<1>4. QED
  BY <1>1, <1>2, <1>3, FilesElse

\* progress.md only grows, and an append that is acknowledged as stored speaks of
\* the last message of its round.
LEMMA OutcomesGrow ==
  ASSUME SoleWriter, LogInv, [Next]_vars
  PROVE  /\ progress \subseteq progress'
         /\ \A a \in acked' : a \in acked \/ (a.stored =>
              /\ a.round \in Rounds /\ Readable(Disk(a.round))
              /\ \E i \in DOMAIN Disk(a.round).msgs : Disk(a.round).msgs[i] = a.msg)
<1>1. ASSUME NEW w \in Writers, LogAppend(w)
      PROVE  \A a \in acked' : a \in acked \/ (a.stored =>
               /\ a.round \in Rounds /\ Readable(Disk(a.round))
               /\ \E i \in DOMAIN Disk(a.round).msgs : Disk(a.round).msgs[i] = a.msg)
  <2> DEFINE r == cmd[w].round
             s == cmd[w].st
             m == s.msgs[Len(s.msgs)]
  <2>1. /\ acked' = acked \cup {[round |-> r, msg |-> m, stored |-> cmd[w].wrote]}
        /\ cmd[w].pc = "msgEvent"
    BY <1>1 DEF LogAppend
  <2>2. r \in Rounds /\ s \in State /\ s.msgs # <<>>
    BY <2>1 DEF LogInv, OneInv, TypeInv, TypeOK, Holding, Process
  <2>3. cmd[w].wrote => Disk(r) = s
    <3>1. cmd[w].wrote => partial[r] = s
      BY <2>1 DEF LogInv, Held, HeldAfter
    <3>2. QED
      BY <2>2, <3>1, MarkerAssumption DEF Disk, Exists
  <2>4. s.msgs \in Seq(Msg) /\ Len(s.msgs) \in DOMAIN s.msgs
    BY <2>2, EmptySeq, LenProperties DEF State
  <2>5. Readable(s)
    BY <2>2, MarkerAssumption DEF Readable
  <2>6. QED
    BY <2>1, <2>2, <2>3, <2>4, <2>5
<1>2. ASSUME NEW w \in Writers, Step(w), ~ LogAppend(w)
      PROVE  acked' = acked
  BY <1>2 DEF Step, Mint, Admit, Refuse, OpenTmp, WriteTmp, RenameTmp, WriteProgress,
              LogCheckpoint, Promote, LogFinalize
<1>3. ASSUME NEW w \in Writers, Caller(w) \/ Crash(w)
      PROVE  acked' = acked /\ progress' = progress
  BY <1>3 DEF Caller, Crash, ReadState, StartAppend, StartCheckpoint, StartFinalize
<1>4. ASSUME NEW w \in Writers, Step(w)
      PROVE  progress \subseteq progress'
  BY <1>4 DEF Step, Mint, Admit, Refuse, OpenTmp, WriteTmp, RenameTmp, WriteProgress,
              LogCheckpoint, LogAppend, Promote, LogFinalize
<1>5. CASE UNCHANGED vars
  BY <1>5 DEF vars
<1>6. QED
  BY <1>1, <1>2, <1>3, <1>4, <1>5 DEF Next

LEMMA StepFiles ==
  ASSUME SoleWriter, LogInv, [Next]_vars
  PROVE  FilesNumbered' /\ FinalsValid' /\ FinalInProgress' /\ StoredAcksKept'
<1>t. TypeOK /\ OneInv /\ FilesNumbered /\ FinalsValid /\ FinalInProgress
  BY DEF LogInv, OneInv, TypeInv
<1>1. StoredAcksKept'
  <2> SUFFICES ASSUME NEW a \in acked', a.stored
               PROVE  /\ Readable(Disk(a.round)')
                      /\ \E i \in DOMAIN Disk(a.round)'.msgs :
                           Disk(a.round)'.msgs[i] = a.msg
    BY DEF StoredAcksKept
  <2>1. /\ a.round \in Rounds /\ Readable(Disk(a.round))
        /\ \E i \in DOMAIN Disk(a.round).msgs : Disk(a.round).msgs[i] = a.msg
    BY <1>t, OutcomesGrow DEF LogInv, StoredAcksKept, TypeOK
  <2>2. Readable(Disk(a.round)')
    BY <2>1, LogsGrow
  <2>3. RoundMsgs(a.round) = Disk(a.round).msgs
    BY <2>1 DEF RoundMsgs
  <2>4. RoundMsgs(a.round)' = Disk(a.round)'.msgs
    BY <2>2 DEF RoundMsgs
  <2>5. QED
    BY <2>1, <2>2, <2>3, <2>4, LogsGrow
<1>2. ASSUME NEW w \in Writers, RenameTmp(w)
      PROVE  FilesNumbered' /\ FinalsValid' /\ FinalInProgress'
  <2> DEFINE r == cmd[w].round
             s == cmd[w].st
  <2>1. /\ r \in Rounds /\ s \in State /\ s.round = r
        /\ partial' = [partial EXCEPT ![r] = s] /\ final' = final
        /\ s.msgs = RoundMsgs(r) \/ HoldsOneMore(w, Len(RoundMsgs(r)) + 1)
        /\ progress' = progress
    BY <1>2, RenameEffect
  <2>2. /\ RoundMsgs(r) \in Seq(Msg) /\ Len(RoundMsgs(r)) \in Nat
        /\ \A i \in 1 .. Len(RoundMsgs(r)) : RoundMsgs(r)[i].seq = i
    BY <1>t, <2>1, RoundMsgsType, IdsOfRound
  <2>3. DOMAIN s.msgs = 1 .. Len(s.msgs)
    BY <2>1, LenProperties DEF State
  <2>4. \A i \in DOMAIN s.msgs : s.msgs[i].seq = i
    <3>1. CASE s.msgs = RoundMsgs(r)
      BY <2>2, <2>3, <3>1
    <3>2. CASE HoldsOneMore(w, Len(RoundMsgs(r)) + 1)
      <4> DEFINE n == Len(RoundMsgs(r))
      <4>1. PICK b \in Bodies :
              s.msgs = Append(RoundMsgs(r), [seq |-> n + 1, body |-> b])
        BY <3>2 DEF HoldsOneMore
      <4>2. /\ Len(s.msgs) = n + 1
            /\ \A i \in 1 .. n : s.msgs[i] = RoundMsgs(r)[i]
            /\ s.msgs[n + 1] = [seq |-> n + 1, body |-> b]
        BY <2>2, <4>1
      <4>3. QED
        BY <2>2, <2>3, <4>2
    <3>3. QED
      BY <2>1, <3>1, <3>2
  <2>5. FilesNumbered'
    <3> SUFFICES ASSUME NEW q \in Rounds, Exists(Disk(q)')
                 PROVE  /\ Disk(q)'.round = q
                        /\ \A i \in DOMAIN Disk(q)'.msgs : Disk(q)'.msgs[i].seq = i
      BY DEF FilesNumbered, Exists
    <3>1. CASE q = r
      <4>1. Disk(q)' = s
        BY <1>t, <2>1, <3>1, MarkerAssumption DEF Disk, Exists, TypeOK
      <4>2. QED
        BY <2>1, <2>4, <3>1, <4>1
    <3>2. CASE q # r
      <4>1. Disk(q)' = Disk(q)
        BY <1>t, <2>1, <3>2 DEF Disk, TypeOK
      <4>2. QED
        BY <1>t, <4>1 DEF FilesNumbered, Exists
    <3>3. QED
      BY <3>1, <3>2
  <2>6. QED
    BY <1>t, <2>1, <2>5 DEF FinalsValid, FinalInProgress
<1>3. ASSUME NEW w \in Writers, Promote(w)
      PROVE  FilesNumbered' /\ FinalsValid' /\ FinalInProgress'
  <2> DEFINE r == cmd[w].round
             s == cmd[w].st
  <2>1. /\ r \in Rounds /\ s \in State /\ s.round = r /\ ValidRecord(s)
        /\ partial[r] = s /\ final[r] = NoFile
        /\ final' = [final EXCEPT ![r] = s]
        /\ partial' = [partial EXCEPT ![r] = NoFile]
        /\ \A n \in Seqs(s) : <<r, n>> \in progress
        /\ progress' = progress
    BY <1>3, PromoteEffect
  <2>2. \A q \in Rounds : Disk(q)' = Disk(q)
    BY <1>t, <2>1, MarkerAssumption DEF Disk, Exists, TypeOK
  <2>3. FilesNumbered'
    BY <1>t, <2>2 DEF FilesNumbered, Exists
  <2>4. \A q \in Rounds : final'[q] = IF q = r THEN s ELSE final[q]
    BY <1>t, <2>1 DEF TypeOK
  <2>5. FinalsValid'
    BY <1>t, <2>1, <2>4 DEF FinalsValid, ValidRecord, CountRecorded, Readable, Seqs
  <2>6. FinalInProgress'
    <3> SUFFICES ASSUME NEW q \in Rounds, NEW n \in SeqsOf(final'[q])
                 PROVE  <<q, n>> \in progress'
      BY DEF FinalInProgress
    <3>1. CASE q = r
      <4>1. n \in Seqs(s)
        BY <2>4, <3>1 DEF SeqsOf
      <4>2. QED
        BY <2>1, <3>1, <4>1
    <3>2. CASE q # r
      BY <1>t, <2>1, <2>4, <3>2 DEF FinalInProgress
    <3>3. QED
      BY <3>1, <3>2
  <2>7. QED
    BY <2>3, <2>5, <2>6
<1>4. CASE UNCHANGED <<partial, final>>
  <2>1. progress \subseteq progress'
    BY OutcomesGrow
  <2>2. FilesNumbered'
    BY <1>t, <1>4, LogsStay DEF FilesNumbered, Exists
  <2>3. FinalsValid'
    BY <1>t, <1>4 DEF FinalsValid
  <2>4. FinalInProgress'
    <3>1. \A q \in Rounds : \A n \in SeqsOf(final[q]) : <<q, n>> \in progress'
      BY <1>t, <2>1 DEF FinalInProgress
    <3>2. QED
      BY <1>4, <3>1 DEF FinalInProgress
  <2>5. QED
    BY <1>1, <2>2, <2>3, <2>4
<1>5. QED
  BY <1>1, <1>2, <1>3, <1>4, FilesElse

LEMMA InitLogInv == Init => LogInv
<1> SUFFICES ASSUME Init PROVE LogInv
  OBVIOUS
<1>1. OneInv /\ SeqInv
  BY InitOneInv, InitSeqInv
<1>2. FilesNumbered
  BY DEF Init, FilesNumbered, Disk, Exists
<1>3. \A w \in Writers : DraftIsCurrent(w)
  BY DEF Init, DraftIsCurrent
<1>4. \A w \in Writers : Held(w)
  BY DEF Init, Idle, Held, HeldBefore, HeldAfter, Running
<1>5. FinalsValid /\ FinalInProgress /\ StoredAcksKept
  BY DEF Init, FinalsValid, FinalInProgress, StoredAcksKept, Readable, SeqsOf
<1>6. QED
  BY <1>1, <1>2, <1>3, <1>4, <1>5 DEF LogInv

LEMMA StepLogInv ==
  ASSUME SoleWriter, Fresh, LogInv, [Next]_vars
  PROVE  LogInv'
<1>t. TypeOK
  BY DEF LogInv, OneInv, TypeInv
<1>1. OneInv' /\ SeqInv'
  BY StepOneInv, StepSeqInv DEF LogInv
<1>2. FilesNumbered' /\ FinalsValid' /\ FinalInProgress' /\ StoredAcksKept'
  BY StepFiles
<1>3. ASSUME NEW w \in Writers
      PROVE  DraftIsCurrent(w)' /\ Held(w)'
  <2>1. CASE Caller(w)
    BY <2>1, StartHeld
  <2>2. CASE Step(w)
    <3>1. cmd[w].pc # "idle" /\ snap' = snap
      BY <2>2 DEF Step, Mint, Admit, Refuse, OpenTmp, WriteTmp, RenameTmp,
                  WriteProgress, LogCheckpoint, LogAppend, Promote, LogFinalize
    <3>2. snap'[w] = NoFile
      BY <3>1 DEF LogInv, DraftIsCurrent
    <3>3. QED
      BY <2>2, <3>2, StepHeld DEF DraftIsCurrent
  <2>3. CASE Crash(w)
    <3>1. snap'[w] = NoFile
      BY <1>t, <2>3 DEF Crash, LogInv, DraftIsCurrent, TypeOK
    <3>2. Held(w)'
      BY <1>t, <2>3, ReturnHeld DEF Crash
    <3>3. QED
      BY <3>1, <3>2 DEF DraftIsCurrent
  <2>4. CASE UNCHANGED vars
    <3>1. Held(w) /\ DraftIsCurrent(w)
      BY DEF LogInv
    <3>2. QED
      BY <2>4, <3>1
      DEF vars, DraftIsCurrent, Loaded, Disk, Held, HeldBefore, HeldAfter, Running,
          HoldsOneMore, RoundMsgs
  <2>5. QED
    BY <2>1, <2>2, <2>3, <2>4 DEF Next, SoleWriter
<1>4. QED
  BY <1>1, <1>2, <1>3 DEF LogInv

\* Every committed round passes the round validator, whenever the one process is
\* killed.
THEOREM FinalsAreValid ==
  ASSUME SoleWriter, Fresh
  PROVE  Spec => []FinalsValid
<1>1. LogInv /\ [Next]_vars => LogInv'
  BY StepLogInv
<1>2. LogInv => FinalsValid
  BY DEF LogInv
<1>3. QED
  BY InitLogInv, <1>1, <1>2, PTL DEF Spec

\* progress.md lists every message of a committed round.
THEOREM FinalsAreListed ==
  ASSUME SoleWriter, Fresh
  PROVE  Spec => []FinalInProgress
<1>1. LogInv /\ [Next]_vars => LogInv'
  BY StepLogInv
<1>2. LogInv => FinalInProgress
  BY DEF LogInv
<1>3. QED
  BY InitLogInv, <1>1, <1>2, PTL DEF Spec

\* An append that reported its checkpoint is in the log for good.
THEOREM AcksAreKept ==
  ASSUME SoleWriter, Fresh
  PROVE  Spec => []StoredAcksKept
<1>1. LogInv /\ [Next]_vars => LogInv'
  BY StepLogInv
<1>2. LogInv => StoredAcksKept
  BY DEF LogInv
<1>3. QED
  BY InitLogInv, <1>1, <1>2, PTL DEF Spec

-----------------------------------------------------------------------------
(* The round resume_plan names.                                            *)

\* A set of rounds that is not empty has a highest one.
LEMMA HighestRound ==
  ASSUME NEW used \in SUBSET Rounds, used # {}
  PROVE  \E top \in used : \A q \in used : q <= top
<1> DEFINE bounds == {n \in Nat : \A q \in used : q <= n}
<1>1. \A q \in used : q \in Nat /\ q >= 1 /\ q <= MaxRound
  BY BoundsAssumption DEF Rounds
<1>2. MaxRound \in bounds
  BY <1>1, BoundsAssumption
<1>3. PICK n \in bounds : \A m \in bounds : n <= m
  BY <1>2, NatLeast
<1>4. CASE n \in used
  BY <1>3, <1>4
<1>5. CASE n \notin used
  <2>1. \A q \in used : q <= n - 1
    BY <1>1, <1>3, <1>5
  <2>2. n - 1 \in Nat
    BY <1>1, <2>1
  <2>3. n - 1 \in bounds
    BY <2>1, <2>2
  <2>4. QED
    BY <1>3, <2>3
<1>6. QED
  BY <1>4, <1>5

LEMMA PlanIsWritable == OneInv /\ SeqInv => ResumeIsWritable
<1> SUFFICES ASSUME OneInv, SeqInv PROVE ResumeIsWritable
  OBVIOUS
<1> DEFINE used == {r \in Rounds : Exists(partial[r]) \/ Exists(final[r])}
           top  == CHOOSE r \in used : \A q \in used : q <= r
<1>1. CASE used = {}
  <2>1. ResumePlan = [action |-> "start_round", round |-> 1]
    BY <1>1 DEF ResumePlan
  <2>2. ResumeRound = 1
    BY <2>1 DEF ResumeRound
  <2>3. RoundGuard(1, 1)
    BY <1>1, BoundsAssumption DEF RoundGuard, Rounds
  <2>4. QED
    BY <2>1, <2>2, <2>3 DEF ResumeIsWritable
<1>2. CASE used # {}
  <2>1. top \in used /\ \A q \in used : q <= top
    BY <1>2, HighestRound
  <2>2. top \in Rounds /\ top \in Nat /\ top >= 1
    BY <2>1, BoundsAssumption DEF Rounds
  <2>3. Torn \notin {partial[top], final[top]}
    BY <2>2 DEF OneInv, WholeRoundFiles
  <2>4. CASE Exists(partial[top])
    <3>1. ResumePlan = [action |-> "resume_round", round |-> top]
      BY <1>2, <2>3, <2>4 DEF ResumePlan
    <3>2. ResumeRound = top
      BY <3>1 DEF ResumeRound
    <3>3. ~ Exists(final[top])
      BY <2>2, <2>4 DEF OneInv, OneFilePerRound
    <3>4. top > 1 => Exists(final[top - 1])
      BY <2>2, <2>4 DEF SeqInv, SequentialRounds
    <3>5. QED
      BY <3>1, <3>2, <3>3, <3>4 DEF ResumeIsWritable, RoundGuard
  <2>5. CASE ~ Exists(partial[top])
    <3>1. ResumePlan = [action |-> "start_next_round", round |-> top]
      BY <1>2, <2>3, <2>5 DEF ResumePlan
    <3>2. ResumeRound = top + 1
      BY <3>1 DEF ResumeRound
    <3>3. Exists(final[top])
      BY <2>1, <2>5
    <3>4. top + 1 \in Rounds => ~ Exists(final[top + 1])
      BY <2>1, <2>2
    <3>5. (top + 1) - 1 = top
      <4> HIDE DEF top
      <4>1. QED
        BY <2>2
    <3> HIDE DEF top
    <3>6. QED
      BY <3>1, <3>2, <3>3, <3>4, <3>5 DEF ResumeIsWritable, RoundGuard
  <2>6. QED
    BY <2>4, <2>5
<1>3. QED
  BY <1>1, <1>2

\* The round that resume_plan names is one that checkpoint accepts: no kill leaves
\* a caller that follows the plan without a next step.
THEOREM PlanAlwaysWritable ==
  ASSUME SoleWriter
  PROVE  Spec => []ResumeIsWritable
<1>1. OneInv /\ [Next]_vars => OneInv'
  BY StepOneInv
<1>2. QED
  BY InitOneInv, <1>1, InitSeqInv, StepSeqInv, PlanIsWritable, PTL DEF Spec

-----------------------------------------------------------------------------
(* The refinement of RoundLog: a rename appends a message or changes       *)
(* nothing, the commit closes a round, and no other step is visible.       *)

LEMMA InitRefines == Init => Abstract!Init
<1> SUFFICES ASSUME Init PROVE Abstract!Init
  OBVIOUS
<1>1. [r \in Rounds |-> RoundMsgs(r)] = [r \in Rounds |-> <<>>]
  <2>1. \A r \in Rounds : RoundMsgs(r) = <<>>
    BY DEF Init, RoundMsgs, Disk, Readable, Exists
  <2>2. QED
    BY <2>1
<1>2. [r \in Rounds |-> Exists(final[r])] = [r \in Rounds |-> FALSE]
  <2>1. \A r \in Rounds : Exists(final[r]) = FALSE
    <3>1. \A r \in Rounds : final[r] = NoFile
      BY DEF Init
    <3>2. QED
      BY <3>1, Zenon DEF Exists
  <2>2. QED
    BY <2>1, Zenon
<1>3. QED
  BY <1>1, <1>2, Zenon DEF Abstract!Init

LEMMA StepRefines ==
  ASSUME SoleWriter, LogInv, [Next]_vars
  PROVE  [Abstract!Next]_<<[r \in Rounds |-> RoundMsgs(r)],
                           [r \in Rounds |-> Exists(final[r])]>>
<1> DEFINE log == [r \in Rounds |-> RoundMsgs(r)]
           closed == [r \in Rounds |-> Exists(final[r])]
<1>t. final \in [Rounds -> State \cup {NoFile, Torn}]
      /\ partial \in [Rounds -> State \cup {NoFile, Torn}]
  BY DEF LogInv, OneInv, TypeInv, TypeOK
<1>1. ASSUME NEW w \in Writers, RenameTmp(w)
      PROVE  [Abstract!Next]_<<log, closed>>
  <2> DEFINE r == cmd[w].round
             s == cmd[w].st
  <2>1. /\ r \in Rounds /\ s \in State
        /\ partial' = [partial EXCEPT ![r] = s]
        /\ final' = final /\ final[r] = NoFile
        /\ r > 1 => Exists(final[r - 1])
        /\ s.msgs = RoundMsgs(r) \/ HoldsOneMore(w, Len(RoundMsgs(r)) + 1)
    BY <1>1, RenameEffect
  <2>2. PICK q \in Rounds : q = r
    BY <2>1
  <2>3. closed' = closed
    BY <2>1
  <2>4. \A p \in Rounds : RoundMsgs(p)' = IF p = q THEN s.msgs ELSE RoundMsgs(p)
    BY <1>t, <2>1, <2>2, MarkerAssumption DEF RoundMsgs, Disk, Readable, Exists
  <2>5. log' = [log EXCEPT ![q] = s.msgs]
    BY <2>4
  <2>6. CASE s.msgs = RoundMsgs(r)
    <3>1. log' = log
      BY <2>2, <2>4, <2>6
    <3>2. QED
      BY <2>3, <3>1
  <2>7. CASE HoldsOneMore(w, Len(RoundMsgs(r)) + 1)
    <3>1. PICK b \in Bodies :
            s.msgs = Append(RoundMsgs(q), [seq |-> Len(RoundMsgs(q)) + 1, body |-> b])
      BY <2>2, <2>7 DEF HoldsOneMore
    <3>2. log' = [log EXCEPT ![q] = Append(log[q], [seq |-> Len(log[q]) + 1, body |-> b])]
      BY <2>5, <3>1
    <3>3. ~ closed[q] /\ (q > 1 => closed[q - 1])
      <4>1. q > 1 => q - 1 \in Rounds
        BY <2>2, BoundsAssumption DEF Rounds
      <4>2. QED
        BY <2>1, <2>2, <4>1 DEF Exists
    <3>4. Abstract!Post(q, b)
      BY <2>3, <3>2, <3>3 DEF Abstract!Post, Abstract!Open
    <3>5. QED
      BY <3>4 DEF Abstract!Next
  <2>8. QED
    BY <2>1, <2>6, <2>7
<1>2. ASSUME NEW w \in Writers, Promote(w)
      PROVE  [Abstract!Next]_<<log, closed>>
  <2> DEFINE r == cmd[w].round
             s == cmd[w].st
  <2>1. /\ r \in Rounds /\ s \in State
        /\ partial[r] = s /\ final[r] = NoFile
        /\ final' = [final EXCEPT ![r] = s]
        /\ partial' = [partial EXCEPT ![r] = NoFile]
    BY <1>2, PromoteEffect
  <2>2. PICK q \in Rounds : q = r
    BY <2>1
  <2>3. \A p \in Rounds : RoundMsgs(p)' = RoundMsgs(p)
    BY <1>t, <2>1, MarkerAssumption DEF RoundMsgs, Disk, Exists
  <2>4. log' = log
    BY <2>3
  <2>5. closed' = [closed EXCEPT ![q] = TRUE]
    BY <1>t, <2>1, <2>2, MarkerAssumption DEF Exists
  <2>6. ~ closed[q] /\ (q > 1 => closed[q - 1])
    <3>1. Exists(partial[q])
      BY <2>1, <2>2, MarkerAssumption DEF Exists
    <3>2. q > 1 => q - 1 \in Rounds /\ Exists(final[q - 1])
      BY <3>1, BoundsAssumption DEF LogInv, SeqInv, SequentialRounds, Rounds
    <3>3. QED
      BY <2>1, <2>2, <3>2 DEF Exists
  <2>7. Abstract!Close(q)
    BY <2>4, <2>5, <2>6 DEF Abstract!Close, Abstract!Open
  <2>8. QED
    BY <2>7 DEF Abstract!Next
<1>3. CASE UNCHANGED <<partial, final>>
  <2>1. \A p \in Rounds : RoundMsgs(p)' = RoundMsgs(p)
    BY <1>3, LogsStay
  <2>2. log' = log /\ closed' = closed
    BY <1>3, <2>1
  <2>3. QED
    BY <2>2
<1>4. QED
  BY <1>1, <1>2, <1>3, FilesElse

\* What readers of the rounds directory see is a log that only grows, one message
\* at a time, round after round, whenever the one process is killed.
THEOREM WalImplementsRoundLog ==
  ASSUME SoleWriter, Fresh
  PROVE  Spec => ImplementsRoundLog
<1>1. LogInv /\ [Next]_vars => LogInv'
  BY StepLogInv
<1>2. LogInv /\ [Next]_vars
        => [Abstract!Next]_<<[r \in Rounds |-> RoundMsgs(r)],
                             [r \in Rounds |-> Exists(final[r])]>>
  BY StepRefines
<1>3. QED
  BY InitLogInv, InitRefines, <1>1, <1>2, PTL
  DEF Spec, ImplementsRoundLog, Abstract!Spec
=============================================================================
