------------------------------ MODULE WalState ------------------------------
(***************************************************************************)
(* The state of the write-ahead log modelled by Wal: constants, types,     *)
(* variables, and the terms in which its steps are written.                *)
(***************************************************************************)
EXTENDS Integers, Sequences, FiniteSets

CONSTANTS
  Writers,     \* process slots in which CLI commands run
  Bodies,      \* what a message says (opaque)
  MaxRound,    \* bound: rounds 1..MaxRound are used
  MaxMsgs,     \* bound: message ids 1..MaxMsgs are minted in a round
  MaxCrashes,  \* bound: number of processes killed in the middle of a command
  Fresh,       \* TRUE: a caller re-reads the round file before each command
               \* that takes a state; FALSE: it may reuse a draft it kept
  NoFile,      \* "the file does not exist", "the caller has no state"
  Torn         \* a file whose content is not a JSON object

ASSUME BoundsAssumption ==
  /\ MaxRound \in Nat \ {0}
  /\ MaxMsgs \in Nat \ {0}
  /\ MaxCrashes \in Nat

ASSUME FreshAssumption == Fresh \in BOOLEAN

Rounds == 1 .. MaxRound

Msg == [seq : 1 .. MaxMsgs, body : Bodies]

NoMeta == -1    \* the state carries no metadata block

\* A round state, as stored in a round file and as passed on the command line.
State == [round : Rounds, meta : Int, msgs : Seq(Msg)]

ASSUME MarkerAssumption ==
  /\ NoFile \notin State
  /\ Torn \notin State
  /\ NoFile # Torn

PCs == { "idle", "mint", "guard", "open", "write", "rename", "progress",
         "ckptEvent", "msgEvent", "promote", "finalEvent" }

Ops == { "none", "append", "checkpoint", "finalize" }

Places == { "none", "tmp", "partial", "final", "gone" }

\* A process: where it is, which command it runs on which round, the state it
\* holds in memory, whether its checkpoint was accepted, and the name under
\* which the file it has open for writing is now linked ("gone": replaced).
Process == [pc : PCs, op : Ops, round : Rounds, st : State \cup {NoFile},
            wrote : BOOLEAN, at : Places]

Idle == [pc |-> "idle", op |-> "none", round |-> 1, st |-> NoFile,
         wrote |-> FALSE, at |-> "none"]

Event == [type : {"checkpoint_written", "message_appended", "round_finalized"},
          round : Rounds, count : Nat]

VARIABLES
  partial,   \* partial[r]: content of rounds/r.json.partial
  final,     \* final[r]: content of rounds/r.json
  tmp,       \* tmp[r]: content of rounds/r.json.tmp
  progress,  \* ids listed in progress.md, as <<round, seq>>
  events,    \* what events.jsonl records, order left out
  cmd,       \* cmd[w]: the process in slot w
  snap,      \* snap[w]: the state file the caller of slot w prepared
  acked,     \* history: appends that returned ok, with what they told the caller
  crashes    \* number of processes killed so far

files == <<partial, final, tmp>>
vars == <<partial, final, tmp, progress, events, cmd, snap, acked, crashes>>

-----------------------------------------------------------------------------
(* What the files say.                                                     *)

Exists(f) == f # NoFile

Readable(f) == f \notin {NoFile, Torn}

EmptyState(r) == [round |-> r, meta |-> NoMeta, msgs |-> <<>>]

\* The file _load_state reads: the partial if there is one, else the final.
Disk(r) == IF Exists(partial[r]) THEN partial[r] ELSE final[r]

Seqs(s) == {s.msgs[i].seq : i \in DOMAIN s.msgs}

SeqsOf(f) == IF Readable(f) THEN Seqs(f) ELSE {}

-----------------------------------------------------------------------------
(* What processes and callers hold.                                        *)

\* The draft a caller has left after it has issued a command.
Kept(w) == IF Fresh THEN NoFile ELSE snap[w]

\* The process of slot w returns; what it held in memory is gone.
Return(w) == cmd' = [cmd EXCEPT ![w] = Idle]

\* What a file holds after content new was written over old from offset 0:
\* the new content, or it followed by the tail of a longer old one.
Overwritten(old, new) == IF old = Torn THEN {new} ELSE {new, Torn}

\* The processes after w moved the file named from of round r over the name to
\* and went on to pc: files other processes have open move along.
Relinked(w, from, to, pc) ==
  [v \in Writers |->
    IF v = w THEN [cmd[v] EXCEPT !.pc = pc]
    ELSE IF cmd[v].round # cmd[w].round THEN cmd[v]
    ELSE [cmd[v] EXCEPT !.at = CASE cmd[v].at = from -> to
                                 [] cmd[v].at = to -> "gone"
                                 [] OTHER -> cmd[v].at]]
=============================================================================
