-------------------------------- MODULE Wal --------------------------------
(***************************************************************************)
(* The write-ahead log of a discussion (runtime/swarm/wal.py): the files   *)
(* rounds/NNN.json.partial, rounds/NNN.json, rounds/NNN.json.tmp,          *)
(* progress.md and events.jsonl, written by the commands append-message,   *)
(* checkpoint and finalize-round.                                          *)
(*                                                                         *)
(* Each command is one short-lived process; Writers are the slots in which *)
(* such a process can run.  One slot is the intended deployment (a single  *)
(* orchestrator calling the CLI one command at a time); two slots are an   *)
(* orchestrator that was taken for dead and the one that resumed its work. *)
(* A command runs in the steps between which its process can be killed or  *)
(* another process can run: one step per file it reads or writes.          *)
(*                                                                         *)
(* A message is the id the runtime minted (seq) and an opaque body.        *)
(* JSON text, timestamps, the phase name and the argument graph are left   *)
(* out; a round file keeps the declared roundId, the message count that    *)
(* finalize-round recorded as metadata, and the messages.                  *)
(***************************************************************************)
EXTENDS WalState

-----------------------------------------------------------------------------
(* Faulty forms, one plausible bug each; none is part of the model.        *)

\* RoundGuard without round_not_sequential.
RoundGuardAnyOrder(r, d) == d = r /\ ~ Exists(final[r])

\* RoundGuard without round_finalized: a checkpoint resurrects a final round.
RoundGuardReopens(r, d) == d = r /\ (r > 1 => Exists(final[r - 1]))

\* ValidRecord without the metadata count.
ValidRecordUncounted(s) == Seqs(s) = 1 .. Len(s.msgs)

\* MaxSeq over the final only: the open partial does not count.
MaxSeqOfFinal(r) ==
  CHOOSE n \in {0} \cup SeqsOf(final[r]) : \A m \in SeqsOf(final[r]) : m <= n

\* StartAppend without _load_state: it begins from an empty round.
StartAppendEmpty(w, r, b) ==
  /\ cmd[w].pc = "idle"
  /\ Exists(final[r]) => Exists(partial[r])
  /\ cmd' = [cmd EXCEPT ![w] =
               [Idle EXCEPT !.pc = "mint", !.op = "append", !.round = r,
                            !.st = [EmptyState(r) EXCEPT
                                      !.msgs = <<[seq |-> 1, body |-> b]>>]]]
  /\ snap' = [snap EXCEPT ![w] = Kept(w)]
  /\ UNCHANGED <<files, progress, events, acked, crashes>>

\* OpenTmp with an exclusive create: a leftover tmp file stops every later write.
OpenTmpExclusive(w) ==
  /\ cmd[w].pc = "open"
  /\ IF Exists(tmp[cmd[w].round])
     THEN Return(w) /\ UNCHANGED tmp
     ELSE /\ tmp' = [tmp EXCEPT ![cmd[w].round] = Torn]
          /\ cmd' = [cmd EXCEPT ![w].pc = "write", ![w].at = "tmp"]
  /\ UNCHANGED <<partial, final, progress, events, snap, acked, crashes>>

\* WriteProgress of the newest message only: one missed by a kill stays missing.
WriteProgressNewest(w) ==
  /\ cmd[w].pc = "progress"
  /\ progress' = progress \cup
       {<<cmd[w].round, cmd[w].st.msgs[i].seq>> :
          i \in {Len(cmd[w].st.msgs)} \cap DOMAIN cmd[w].st.msgs}
  /\ cmd' = [cmd EXCEPT ![w].pc = "ckptEvent"]
  /\ UNCHANGED <<files, events, snap, acked, crashes>>

\* LogCheckpoint followed by the round_finalized event, before the commit.
LogCheckpointEarly(w) ==
  /\ cmd[w].pc = "ckptEvent"
  /\ events' = events \cup
       {[type |-> IF cmd[w].op = "finalize" THEN "round_finalized"
                  ELSE "checkpoint_written",
         round |-> cmd[w].round, count |-> Len(cmd[w].st.msgs)]}
  /\ IF cmd[w].op = "checkpoint" THEN Return(w)
     ELSE cmd' = [cmd EXCEPT ![w].pc = IF cmd[w].op = "append" THEN "msgEvent"
                                       ELSE "promote",
                             ![w].wrote = TRUE]
  /\ UNCHANGED <<files, progress, snap, acked, crashes>>

\* Promote by copying: the partial is not removed in the same step.
PromoteByCopy(w) ==
  /\ cmd[w].pc = "promote"
  /\ LET r == cmd[w].round
     IN  IF Exists(partial[r])
         THEN /\ final' = [final EXCEPT ![r] = partial[r]]
              /\ cmd' = [cmd EXCEPT ![w].pc = "finalEvent"]
         ELSE Return(w) /\ UNCHANGED final
  /\ UNCHANGED <<partial, tmp, progress, events, snap, acked, crashes>>

-----------------------------------------------------------------------------
(* What the commands compute from the files.                               *)

\* max_seq: the highest id in the partial and the final of round r, 0 if none.
MaxSeq(r) ==
  CHOOSE n \in {0} \cup SeqsOf(partial[r]) \cup SeqsOf(final[r]) :
    \A m \in SeqsOf(partial[r]) \cup SeqsOf(final[r]) : m <= n

\* next_message_id
NextSeq(r) == MaxSeq(r) + 1

\* _round_guard: may a state that declares round d be written to round r?
RoundGuard(r, d) ==
  /\ d = r
  /\ ~ Exists(final[r])
  /\ r > 1 => Exists(final[r - 1])

\* _derive_round_metadata: fills the metadata in only when it is absent.
DeriveMetadata(s) ==
  IF s.meta = NoMeta THEN [s EXCEPT !.meta = Len(s.msgs)] ELSE s

\* metadata.messageCount is the number of messages.
CountRecorded(s) == s.meta = Len(s.msgs)

\* validate_round_record: ids gapless from 1, and the count.
ValidRecord(s) == Seqs(s) = 1 .. Len(s.msgs) /\ CountRecorded(s)

\* resume_plan: the top round with a file, its partial preferred.
ResumePlan ==
  LET used == {r \in Rounds : Exists(partial[r]) \/ Exists(final[r])}
      top  == CHOOSE r \in used : \A q \in used : q <= r
  IN  IF used = {} THEN [action |-> "start_round", round |-> 1]
      ELSE IF Torn \in {partial[top], final[top]}
           THEN [action |-> "inspect_artifacts", round |-> top]
      ELSE IF Exists(partial[top])
           THEN [action |-> "resume_round", round |-> top]
      ELSE [action |-> "start_next_round", round |-> top]

\* The round in which the plan tells the caller to go on.
ResumeRound ==
  IF ResumePlan.action = "start_next_round"
  THEN ResumePlan.round + 1 ELSE ResumePlan.round

-----------------------------------------------------------------------------
Init ==
  /\ partial = [r \in Rounds |-> NoFile]
  /\ final = [r \in Rounds |-> NoFile]
  /\ tmp = [r \in Rounds |-> NoFile]
  /\ progress = {}
  /\ events = {}
  /\ cmd = [w \in Writers |-> Idle]
  /\ snap = [w \in Writers |-> NoFile]
  /\ acked = {}
  /\ crashes = 0

-----------------------------------------------------------------------------
(* The caller prepares a state and starts commands.  A command that is     *)
(* refused before it writes anything returns an error and changes nothing, *)
(* so only the accepted starts are actions.                                *)

\* The caller loads the state of a round, or prepares an empty one.
ReadState(w, r) ==
  /\ cmd[w].pc = "idle"
  /\ Disk(r) # Torn
  /\ snap' = [snap EXCEPT ![w] =
                IF Exists(Disk(r)) THEN Disk(r) ELSE EmptyState(r)]
  /\ UNCHANGED <<files, progress, events, cmd, acked, crashes>>

\* append_message up to the validated payload: _load_state.
StartAppend(w, r, b) ==
  /\ cmd[w].pc = "idle"
  /\ Disk(r) # Torn
  /\ Exists(final[r]) => Exists(partial[r])
  /\ NextSeq(r) <= MaxMsgs                          \* bound
  /\ LET s == IF Exists(Disk(r)) THEN Disk(r) ELSE EmptyState(r)
         m == [seq |-> 1, body |-> b]      \* the id is minted in the next step
     IN  cmd' = [cmd EXCEPT ![w] =
                   [Idle EXCEPT !.pc = "mint", !.op = "append", !.round = r,
                                !.st = [s EXCEPT !.msgs = Append(@, m)]]]
  /\ snap' = [snap EXCEPT ![w] = Kept(w)]
  /\ UNCHANGED <<files, progress, events, acked, crashes>>

\* checkpoint --state: the caller's state, whatever is on disk by now.
StartCheckpoint(w, r) ==
  /\ cmd[w].pc = "idle"
  /\ Exists(snap[w])
  /\ cmd' = [cmd EXCEPT ![w] =
               [Idle EXCEPT !.pc = "guard", !.op = "checkpoint", !.round = r,
                            !.st = snap[w]]]
  /\ snap' = [snap EXCEPT ![w] = Kept(w)]
  /\ UNCHANGED <<files, progress, events, acked, crashes>>

\* finalize_round up to the validated record.  omit: the caller leaves the
\* metadata out of the state it passes.
StartFinalize(w, r, omit) ==
  /\ cmd[w].pc = "idle"
  /\ Exists(snap[w])
  /\ RoundGuard(r, snap[w].round)
  /\ LET given  == IF omit THEN [snap[w] EXCEPT !.meta = NoMeta] ELSE snap[w]
         record == DeriveMetadata(given)
     IN  /\ ValidRecord(record)
         /\ cmd' = [cmd EXCEPT ![w] =
                      [Idle EXCEPT !.pc = "guard", !.op = "finalize",
                                   !.round = r, !.st = record]]
  /\ snap' = [snap EXCEPT ![w] = Kept(w)]
  /\ UNCHANGED <<files, progress, events, acked, crashes>>

-----------------------------------------------------------------------------
(* The steps of a running command.                                         *)

\* append_message: next_message_id re-reads the round files.
Mint(w) ==
  /\ cmd[w].pc = "mint"
  /\ LET r == cmd[w].round
         n == Len(cmd[w].st.msgs)
     IN  IF Torn \in {partial[r], final[r]}
         THEN Return(w)
         ELSE /\ NextSeq(r) \in 1 .. MaxMsgs        \* bound
              /\ cmd' = [cmd EXCEPT ![w].pc = "guard",
                                    ![w].st.msgs[n].seq = NextSeq(r)]
  /\ UNCHANGED <<files, progress, events, snap, acked, crashes>>

\* checkpoint: _round_guard, accepted.
Admit(w) ==
  /\ cmd[w].pc = "guard"
  /\ RoundGuard(cmd[w].round, cmd[w].st.round)
  /\ cmd' = [cmd EXCEPT ![w].pc = "open"]
  /\ UNCHANGED <<files, progress, events, snap, acked, crashes>>

\* checkpoint: _round_guard, refused.  append_message ignores the refusal and
\* goes on to log the message; the other commands return the error.
Refuse(w) ==
  /\ cmd[w].pc = "guard"
  /\ ~ RoundGuard(cmd[w].round, cmd[w].st.round)
  /\ IF cmd[w].op = "append"
     THEN cmd' = [cmd EXCEPT ![w].pc = "msgEvent"]
     ELSE Return(w)
  /\ UNCHANGED <<files, progress, events, snap, acked, crashes>>

\* open("w") truncates rounds/r.json.tmp, a name all processes share.
OpenTmp(w) ==
  /\ cmd[w].pc = "open"
  /\ tmp' = [tmp EXCEPT ![cmd[w].round] = Torn]
  /\ cmd' = [cmd EXCEPT ![w].pc = "write", ![w].at = "tmp"]
  /\ UNCHANGED <<partial, final, progress, events, snap, acked, crashes>>

\* json.dump, flush, fsync, close.  The payload declares the target round.
\* The bytes go to the open file, under whichever name it is linked now.
WriteTmp(w) ==
  /\ cmd[w].pc = "write"
  /\ LET r   == cmd[w].round
         new == [cmd[w].st EXCEPT !.round = r]
         Rewrite(file) == \E c \in Overwritten(file[r], new) :
                            file' = [file EXCEPT ![r] = c]
     IN  \/ cmd[w].at = "tmp" /\ Rewrite(tmp) /\ UNCHANGED <<partial, final>>
         \/ cmd[w].at = "partial" /\ Rewrite(partial) /\ UNCHANGED <<tmp, final>>
         \/ cmd[w].at = "final" /\ Rewrite(final) /\ UNCHANGED <<tmp, partial>>
         \/ cmd[w].at = "gone" /\ UNCHANGED files
  /\ cmd' = [cmd EXCEPT ![w].pc = "rename", ![w].at = "none"]
  /\ UNCHANGED <<progress, events, snap, acked, crashes>>

\* os.replace(tmp, partial); without a tmp file it raises and the command ends.
RenameTmp(w) ==
  /\ cmd[w].pc = "rename"
  /\ LET r == cmd[w].round
     IN  IF Exists(tmp[r])
         THEN /\ partial' = [partial EXCEPT ![r] = tmp[r]]
              /\ tmp' = [tmp EXCEPT ![r] = NoFile]
              /\ cmd' = Relinked(w, "tmp", "partial", "progress")
         ELSE Return(w) /\ UNCHANGED <<partial, tmp>>
  /\ UNCHANGED <<final, progress, events, snap, acked, crashes>>

\* progress.md gets the ids it does not list yet.
WriteProgress(w) ==
  /\ cmd[w].pc = "progress"
  /\ progress' = progress \cup {<<cmd[w].round, n>> : n \in Seqs(cmd[w].st)}
  /\ cmd' = [cmd EXCEPT ![w].pc = "ckptEvent"]
  /\ UNCHANGED <<files, events, snap, acked, crashes>>

\* append_event("checkpoint_written"); checkpoint() returns ok.
LogCheckpoint(w) ==
  /\ cmd[w].pc = "ckptEvent"
  /\ events' = events \cup {[type |-> "checkpoint_written",
                             round |-> cmd[w].round,
                             count |-> Len(cmd[w].st.msgs)]}
  /\ IF cmd[w].op = "checkpoint" THEN Return(w)
     ELSE cmd' = [cmd EXCEPT ![w].pc = IF cmd[w].op = "append" THEN "msgEvent"
                                       ELSE "promote",
                             ![w].wrote = TRUE]
  /\ UNCHANGED <<files, progress, snap, acked, crashes>>

\* append_event("message_appended"); append_message returns ok with the message
\* it minted and the result of its checkpoint.
LogAppend(w) ==
  /\ cmd[w].pc = "msgEvent"
  /\ LET m == cmd[w].st.msgs[Len(cmd[w].st.msgs)]
     IN  /\ events' = events \cup {[type |-> "message_appended",
                                    round |-> cmd[w].round, count |-> m.seq]}
         /\ acked' = acked \cup {[round |-> cmd[w].round, msg |-> m,
                                  stored |-> cmd[w].wrote]}
  /\ Return(w)
  /\ UNCHANGED <<files, progress, snap, crashes>>

\* finalize_round: os.replace(partial, final); without a partial it is an error.
Promote(w) ==
  /\ cmd[w].pc = "promote"
  /\ LET r == cmd[w].round
     IN  IF Exists(partial[r])
         THEN /\ final' = [final EXCEPT ![r] = partial[r]]
              /\ partial' = [partial EXCEPT ![r] = NoFile]
              /\ cmd' = Relinked(w, "partial", "final", "finalEvent")
         ELSE Return(w) /\ UNCHANGED <<partial, final>>
  /\ UNCHANGED <<tmp, progress, events, snap, acked, crashes>>

\* append_event("round_finalized"); finalize_round returns ok.
LogFinalize(w) ==
  /\ cmd[w].pc = "finalEvent"
  /\ events' = events \cup {[type |-> "round_finalized", round |-> cmd[w].round,
                             count |-> Len(cmd[w].st.msgs)]}
  /\ Return(w)
  /\ UNCHANGED <<files, progress, snap, acked, crashes>>

\* The process is killed between two steps.  Its caller may die with it.
Crash(w) ==
  /\ cmd[w].pc # "idle"
  /\ crashes < MaxCrashes
  /\ crashes' = crashes + 1
  /\ Return(w)
  /\ \/ snap' = [snap EXCEPT ![w] = NoFile]
     \/ UNCHANGED snap
  /\ UNCHANGED <<files, progress, events, acked>>

-----------------------------------------------------------------------------
Caller(w) ==
  \E r \in Rounds :
    \/ ReadState(w, r)
    \/ \E b \in Bodies : StartAppend(w, r, b)
    \/ StartCheckpoint(w, r)
    \/ \E omit \in BOOLEAN : StartFinalize(w, r, omit)

Step(w) ==
  \/ Mint(w)
  \/ Admit(w)
  \/ Refuse(w)
  \/ OpenTmp(w)
  \/ WriteTmp(w)
  \/ RenameTmp(w)
  \/ WriteProgress(w)
  \/ LogCheckpoint(w)
  \/ LogAppend(w)
  \/ Promote(w)
  \/ LogFinalize(w)

Next == \E w \in Writers : Caller(w) \/ Step(w) \/ Crash(w)

Spec == Init /\ [][Next]_vars

\* A started process runs on unless it is killed, and the protocol of a round
\* has finitely many steps, so a caller comes back to the round resume_plan
\* names and tries to finalize it, without the metadata the runtime derives.
Fairness ==
  \A w \in Writers :
    /\ WF_vars(Step(w))
    /\ \A r \in Rounds :
         /\ SF_vars(r = ResumeRound /\ ReadState(w, r))
         /\ SF_vars(r = ResumeRound /\ StartFinalize(w, r, TRUE))

FairSpec == Spec /\ Fairness
-----------------------------------------------------------------------------
(* Properties.                                                             *)

\* Every variable has its type.
TypeOK ==
  /\ partial \in [Rounds -> State \cup {NoFile, Torn}]
  /\ final \in [Rounds -> State \cup {NoFile, Torn}]
  /\ tmp \in [Rounds -> State \cup {NoFile, Torn}]
  /\ progress \subseteq Rounds \X (1 .. MaxMsgs)
  /\ events \subseteq Event
  /\ cmd \in [Writers -> Process]
  /\ snap \in [Writers -> State \cup {NoFile}]
  /\ acked \subseteq [round : Rounds, msg : Msg, stored : BOOLEAN]
  /\ crashes \in 0 .. MaxCrashes

\* Rounds are opened in order: nothing of round r exists, committed or not,
\* before round r - 1 is committed, whoever writes and whenever it is killed
\* (the round_not_sequential guard, read long before the file is written).
SequentialRounds ==
  \A r \in Rounds \ {1} :
    Exists(partial[r]) \/ Exists(final[r]) => Exists(final[r - 1])

\* A round is open or committed, never both (round_finalized guard, and the
\* commit being a rename).
OneFilePerRound == \A r \in Rounds : ~ (Exists(partial[r]) /\ Exists(final[r]))

\* A process killed anywhere leaves whole round files: only the tmp file is
\* ever written in place.
WholeRoundFiles == \A r \in Rounds : Torn \notin {partial[r], final[r]}

\* A committed round passes the round validator: what was validated in memory
\* is what the two renames put on disk.
FinalsValid ==
  \A r \in Rounds : Readable(final[r]) =>
    /\ final[r].round = r
    /\ Seqs(final[r]) = 1 .. Len(final[r].msgs)
    /\ final[r].meta = Len(final[r].msgs)

\* The ids of a committed round are all in progress.md: the flush that lists
\* them comes before the commit, so a kill in between leaves an open round.
FinalInProgress ==
  \A r \in Rounds : \A n \in SeqsOf(final[r]) : <<r, n>> \in progress

\* An append whose result reports the checkpoint path is in the log for good.
StoredAcksKept ==
  \A a \in acked : a.stored =>
    /\ Readable(Disk(a.round))
    /\ \E i \in DOMAIN Disk(a.round).msgs : Disk(a.round).msgs[i] = a.msg

\* resume_plan and _round_guard agree: after any kill the plan names a round
\* that checkpoint accepts.
ResumeIsWritable ==
  /\ ResumePlan.action # "inspect_artifacts"
  /\ ResumeRound \in Rounds => RoundGuard(ResumeRound, ResumeRound)

\* events.jsonl never announces a commit that did not happen.
NoFalseFinalEvent ==
  \A e \in events : e.type = "round_finalized" => Exists(final[e.round])

\* A committed round is never rewritten or removed.
FinalsImmutable ==
  [][\A r \in Rounds : Exists(final[r]) => final'[r] = final[r]]_final

\* Every append reported ok is in the log, whether or not the result mentions a
\* checkpoint.  append_message does not look at what checkpoint returned.
AllAcksKept ==
  \A a \in acked :
    /\ Readable(Disk(a.round))
    /\ \E i \in DOMAIN Disk(a.round).msgs : Disk(a.round).msgs[i] = a.msg

\* Under a caller that follows resume_plan and processes that are killed only
\* finitely often, every round is committed in the end.
EventuallyFinal == <>[](\A r \in Rounds : Exists(final[r]))

\* What the rounds directory promises to its readers: see RoundLog.
RoundMsgs(r) == IF Readable(Disk(r)) THEN Disk(r).msgs ELSE <<>>

Abstract == INSTANCE RoundLog WITH
              log <- [r \in Rounds |-> RoundMsgs(r)],
              closed <- [r \in Rounds |-> Exists(final[r])]

ImplementsRoundLog == Abstract!Spec
=============================================================================
