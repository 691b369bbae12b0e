----------------------------- MODULE Transport -----------------------------
(***************************************************************************)
(* One phase directory transport/rNNN/<phase> of runtime/swarm/transport.py*)
(* and the host that fills it: transport-init writes spawn-order.json,     *)
(* host-step.json and an empty wait-batches.jsonl, transport-append-batch  *)
(* records what the host's agents report, transport-collect merges it (see *)
(* Collect) into collect-result.json.                                      *)
(*                                                                         *)
(* Commands run one at a time; a command can be interrupted between the    *)
(* files it writes, and an append in the middle of its line (power loss or *)
(* a full disk), after which the host carries on, or a new one that has    *)
(* spawned agents of its own.                                              *)
(***************************************************************************)
EXTENDS Collect

CONSTANTS
  SpawnOrders,  \* what the host can spawn, valid for transport-init
  MaxLines,     \* bound: lines appended to wait-batches.jsonl
  MaxCrashes,   \* bound: interrupted commands
  Timeouts,     \* TRUE: a wait of the host may time out
  NoFile        \* "the file does not exist", "nothing spawned yet"

ASSUME SpawnAssumption ==
  /\ SpawnOrders \subseteq Seq(Spec) \ {<<>>}
  /\ \A s \in SpawnOrders : \A i, j \in DOMAIN s : s[i].id = s[j].id => i = j
ASSUME BoundsAssumption == MaxLines \in Nat /\ MaxCrashes \in Nat
ASSUME TimeoutsAssumption == Timeouts \in BOOLEAN

VARIABLES
  spawnFile,  \* spawn-order.json
  hostFile,   \* the spawn order whose agents host-step.json lists
  waits,      \* wait-batches.jsonl: its lines, with whose agents they are about
  open,       \* its last line is not terminated
  result,     \* collect-result.json, with the spawn order it was computed for
  next,       \* the write transport-init does next; "idle" between commands
  live,       \* the agents the host has spawned
  ready,      \* transport-init returned ok for them
  merged,     \* history: number of lines the last transport-collect read
  acked,      \* history: batches whose append returned ok
  crashes     \* number of interrupted commands

vars == <<spawnFile, hostFile, waits, open, result, next, live, ready, merged,
          acked, crashes>>

files == <<spawnFile, hostFile, waits, open, result>>
host == <<live, ready>>
history == <<merged, acked>>

\* A report of one agent of s, or a wait that timed out without one.
Reports(s) ==
  [kind : {"batch"}, timedOut : {FALSE},
   status : UNION {[{s[i].id} -> {[kind |-> "ok", who |-> s[i].persona, val |-> v] :
                                     v \in Values} \cup {Unparsed("incomplete")}] :
                     i \in DOMAIN s}]
    \cup [kind : {"batch"}, timedOut : {TRUE}, status : IF Timeouts THEN {<<>>} ELSE {}]

\* What a line can hold: whole if it is one JSON text.
Recorded ==
  [batch : UNION {Reports(s) : s \in SpawnOrders}, of : SpawnOrders, whole : BOOLEAN]

ASSUME NoFileAssumption == NoFile \notin SpawnOrders /\ NoFile \notin Seq(Recorded)

Line(b, whole) == [batch |-> b, of |-> live, whole |-> whole]

Lines == IF waits = NoFile THEN <<>> ELSE waits

\* _load_wait_batches: the lines that parse; the others are invalid_jsonl.
ReadLine(batches, line) ==
  IF line.whole THEN Append(batches, line.batch) ELSE batches

Readable(lines) ==
  LET read[n \in 0 .. Len(lines)] ==
        IF n = 0 THEN <<>> ELSE ReadLine(read[n - 1], lines[n])
  IN  read[Len(lines)]

AllWhole(lines) == \A i \in DOMAIN lines : lines[i].whole

-----------------------------------------------------------------------------
(* Faulty forms, one plausible bug each; none is part of the model.        *)

\* MayInit without stale_wait_batches.
MayInitAlways(s) == TRUE

\* MayInit taking its own message at its word: collecting unblocks it.
MayInitCollected(s) == Lines # <<>> /\ result = NoFile => spawnFile = s

\* InitWaits without the check for an existing file.
InitWaitsAnew ==
  /\ next = "waits"
  /\ waits' = <<>>
  /\ open' = FALSE
  /\ next' = "idle"
  /\ ready' = TRUE
  /\ UNCHANGED <<spawnFile, hostFile, result, live, history, crashes>>

\* InitHost as the last write: no wait-batches.jsonl is created.
InitHostOnly ==
  /\ next = "host"
  /\ hostFile' = live
  /\ next' = "idle"
  /\ ready' = TRUE
  /\ UNCHANGED <<spawnFile, waits, open, result, live, history, crashes>>

\* CollectStep that leaves an earlier result alone.
CollectOnce ==
  /\ next = "idle"
  /\ NoFile \notin {spawnFile, waits}
  /\ result' = IF result = NoFile
               THEN [of |-> spawnFile, merge |-> Merge(spawnFile, Readable(Lines))]
               ELSE result
  /\ merged' = Len(waits)
  /\ UNCHANGED <<spawnFile, hostFile, waits, open, next, host, acked, crashes>>

-----------------------------------------------------------------------------
Init ==
  /\ spawnFile = NoFile
  /\ hostFile = NoFile
  /\ waits = NoFile
  /\ open = FALSE
  /\ result = NoFile
  /\ next = "idle"
  /\ live = NoFile
  /\ ready = FALSE
  /\ merged = 0
  /\ acked = {}
  /\ crashes = 0

\* The host spawns the agents of the phase.  It does so again when it has lost
\* them, so nothing limits this to once.
Spawn(s) ==
  /\ next = "idle"
  /\ live # s
  /\ live' = s
  /\ ready' = FALSE
  /\ UNCHANGED <<files, next, history, crashes>>

\* The stale_wait_batches check of transport-init.
MayInit(s) == Lines # <<>> => spawnFile = s

\* write_transport_step, accepted: first spawn-order.json, ...
InitSpawn ==
  /\ next = "idle"
  /\ live # NoFile
  /\ MayInit(live)
  /\ spawnFile' = live
  /\ next' = "host"
  /\ UNCHANGED <<hostFile, waits, open, result, host, history, crashes>>

\* ... then host-step.json, ...
InitHost ==
  /\ next = "host"
  /\ hostFile' = live
  /\ next' = "waits"
  /\ UNCHANGED <<spawnFile, waits, open, result, host, history, crashes>>

\* ... then an empty wait-batches.jsonl unless there is one.
InitWaits ==
  /\ next = "waits"
  /\ waits' = Lines
  /\ next' = "idle"
  /\ ready' = TRUE
  /\ UNCHANGED <<spawnFile, hostFile, open, result, live, history, crashes>>

\* What the file holds after a write at its end: an unterminated last line runs
\* into the new one, and the two are no JSON text.
Extended(line) ==
  IF open
  THEN [Lines EXCEPT ![Len(Lines)].whole = FALSE]
  ELSE Append(Lines, line)

\* append_wait_batch; the host appends after its transport-init.
AppendBatch(b) ==
  /\ next = "idle"
  /\ ready
  /\ NoFile \notin {hostFile, spawnFile}
  /\ Len(Lines) < MaxLines
  /\ waits' = Extended(Line(b, TRUE))
  /\ open' = FALSE
  /\ acked' = acked \cup {Line(b, TRUE)}
  /\ UNCHANGED <<spawnFile, hostFile, result, next, host, merged, crashes>>

\* An append interrupted in its line: part of it is written, or all of it but
\* the newline.
AppendTorn(b) ==
  /\ next = "idle"
  /\ ready
  /\ NoFile \notin {hostFile, spawnFile}
  /\ Len(Lines) < MaxLines
  /\ crashes < MaxCrashes
  /\ crashes' = crashes + 1
  /\ \E whole \in BOOLEAN : waits' = Extended(Line(b, whole))
  /\ open' = TRUE
  /\ UNCHANGED <<spawnFile, hostFile, result, next, host, history>>

\* collect_transport_step past its blocking errors.  A missing host step and
\* lines that do not parse only make the command, not the result, not ok.
CollectStep ==
  /\ next = "idle"
  /\ NoFile \notin {spawnFile, waits}
  /\ result' = [of |-> spawnFile, merge |-> Merge(spawnFile, Readable(Lines))]
  /\ merged' = Len(waits)
  /\ UNCHANGED <<spawnFile, hostFile, waits, open, next, host, acked, crashes>>

\* transport-init is interrupted between two writes.
InitKilled ==
  /\ next # "idle"
  /\ crashes < MaxCrashes
  /\ crashes' = crashes + 1
  /\ next' = "idle"
  /\ UNCHANGED <<files, host, history>>

Next ==
  \/ \E s \in SpawnOrders : Spawn(s)
  \/ InitSpawn
  \/ InitHost
  \/ InitWaits
  \/ live # NoFile /\ \E b \in Reports(live) : AppendBatch(b) \/ AppendTorn(b)
  \/ CollectStep
  \/ InitKilled

TransportSpec == Init /\ [][Next]_vars

-----------------------------------------------------------------------------
(* What adapter-smoke makes of the directory.                              *)

\* The replay of adapter-smoke: the stored result is what the files merge to.
ReplayOk ==
  /\ NoFile \notin {spawnFile, waits, hostFile, result}
  /\ AllWhole(Lines)
  /\ result.merge = Merge(spawnFile, Readable(Lines))
  /\ result.merge.ok

-----------------------------------------------------------------------------
(* Properties.                                                             *)

\* Every variable has its type; after an accepted transport-init its files exist.
TypeOK ==
  /\ {spawnFile, hostFile, live} \subseteq SpawnOrders \cup {NoFile}
  /\ waits = NoFile \/ (waits \in Seq(Recorded) /\ Len(waits) <= MaxLines)
  /\ \A i \in DOMAIN Lines : Lines[i].batch \in Reports(Lines[i].of)
  /\ acked \subseteq Recorded
  /\ open \in BOOLEAN /\ ready \in BOOLEAN
  /\ open => Lines # <<>>
  /\ ready => NoFile \notin {spawnFile, hostFile, waits}
  /\ next \in {"idle", "host", "waits"}
  /\ merged \in 0 .. MaxLines
  /\ crashes \in 0 .. MaxCrashes

\* The batches on file are about the agents spawn-order.json lists, however
\* often the host respawns and wherever transport-init is killed.
BatchesMatchSpawn == \A i \in DOMAIN Lines : Lines[i].of = spawnFile

\* A collect-result that says ok binds, for each agent of the stored spawn
\* order, a payload that agent reported: never one of an earlier spawn order.
OkResultIsCurrent ==
  result # NoFile /\ result.merge.ok =>
    /\ result.of = spawnFile
    /\ \A i \in DOMAIN spawnFile :
         \E n \in DOMAIN Lines :
           /\ Lines[n].batch.status # <<>>
           /\ spawnFile[i].id \in DOMAIN Lines[n].batch.status
           /\ Lines[n].batch.status[spawnFile[i].id] = result.merge.results[i].payload

\* A collect-result with nothing recorded after it is what the files merge to,
\* so adapter-smoke accepts it, whatever was re-initialized or killed since.
CollectReplays ==
  result # NoFile /\ result.merge.ok /\ AllWhole(Lines) /\ Len(Lines) = merged
    => ReplayOk

\* A batch whose append returned ok is lost only to a line that does not parse,
\* which the audit and adapter-smoke report: re-initializing, interrupted or
\* not, never drops one.
LossIsVisible ==
  AllWhole(Lines) => \A a \in acked : \E i \in DOMAIN Lines : Lines[i] = a

=============================================================================
