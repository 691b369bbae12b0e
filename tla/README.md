# A verification model of the swarm-discussion runtime

The runtime (`src/runtime/swarm_rt.py`, `src/runtime/swarm/`) is the part of
swarm-discussion that writes files: an orchestrating coding agent (the
*coordinator*) runs a discussion in rounds, spawns expert agents through a host,
and calls the runtime's commands to record what they said, to commit rounds, and
to have the whole judged afterwards.  Every command is one short-lived process;
all state is files under one discussion directory.  What the runtime promises is
therefore about files: what a kill between two of them leaves behind, what a
second coordinator makes of it, and whether the files that are judged at the end
say what happened.

This directory holds TLA+ modules of that code, the TLC runs that check them on
small instances, and proofs, checked by TLAPS, of what holds on instances of any
size.  `PROJECT.json` is the machine-readable index: which definition models
which source lines (`map`), which property each run checks, which change of the
code would break it (`mutants`), what this code makes hard to test (`hazards`),
and where code and documents disagree (`findings`).

To check: `tlc -config MCWalSingle.cfg MCWal`, and so on for each `.cfg`;
`tlapm WalProofs.tla`, and so on for `StressProofs`, `ShiftProofs`, `VendorProofs`,
`LoopProofs`, `CollectProofs`, `FanInProofs`, `TransportProofs`.


## 1. Inventory

| component | source | state | operations | modelled by |
|---|---|---|---|---|
| write-ahead log | `wal.py` | `rounds/NNN.json.partial`, `NNN.json`, `NNN.json.tmp`, `progress.md`, `events.jsonl` | `append-message`, `checkpoint`, `finalize-round`, `resume-plan`, `init` | `Wal`, implements `RoundLog`; `init` in `Stress` |
| fan-in merge | `collect.py` | none | `collect-merge` | `Collect`, driven by `FanIn` |
| transport | `transport.py` | `transport/rNNN/<phase>/`: `spawn-order.json`, `host-step.json`, `wait-batches.jsonl`, `collect-result.json` | `transport-init`, `transport-append-batch`, `transport-collect` | `Transport` |
| stress gate | `quality.py` | the `quality` block of a round | `stress-check`, the block built by `finalize-round`, `validate-loop --require-stress` | `Stress`, one round |
| validation | `validation.py` | none | `validate-round`, `validate-discussion` | the parts that decide something: in `Wal`, `Stress`, `Shift`, `Loop` |
| trace, evidence | `audit.py` | `artifacts/trace.json`, `evidence.json` | `trace`, `evidence` | `Loop` |
| loop, smoke, certificate | `loop.py`, `smoke.py`, `certify_adapter.py` | none | `validate-loop`, `adapter-smoke`, certification | `Loop`; replay in `Transport` |
| projection | `projection.py` | `projection-manifest.json` (written by the parent) | `--require-projection` | `Loop` |
| prompt builder | `prompt.py` | `prompts/rNNN/<phase>/<persona>/`: `prompt.txt`, `prompt-build.json` | `prompt-build` | `Prompt` |
| shift provenance | part of `validation.py` | `positionShifts`, `personaContextLog` of a round | the shift rules of `finalize-round` | `Shift` |
| capability profiles | `capabilities.py` | `capabilities/`: `profile.json`, `tool-evidence.jsonl`, the artifacts | `capability-doctor`, and what the audit makes of it | `Loop` |
| vendoring | `scripts/vendor.py` | the vendored tree and its `vendor-manifest.json` | `vendor`, `verify` | `Vendor` |
| context, adapter metadata, contract | `context.py`, `adapter.py`, `contract.py` | none | a formatter, checks of one document each | not modelled, see section 7 |

### How they interact

* There is no call between two processes: everything goes through files.  The
  log, the transport and the projection are filled independently; `audit`
  summarises them; `loop` and `smoke` compare what is stored with what they
  recompute; the certificate is the conjunction.
* The coordinator carries data *between* commands: the state file it passes to
  `checkpoint` and `finalize-round`, the decision of `stress-check` that it
  copies into the quality block, the visibility map of `prompt-build` that it
  copies into the context log.  All of them can be old when they are used.
* The vendored tree is outside of all that: an adapter's copy of the runtime,
  written and verified by one script.
* `append-message` and `finalize-round` call `checkpoint`, which reads the round
  directory, writes a tmp file, renames it, appends to `progress.md` and then to
  `events.jsonl`; `finalize-round` then renames the partial to its final name and
  appends an event.  A kill fits between any two.
* `protocol/durability.md:3` expects the host to reap an idle coordinator; its
  replacement resumes from `resume-plan`.  No lock or id keeps the first one's
  last process, or a second coordinator, out of the same round.

### What is hard, and what makes each component correct

* **Log.** Kills between file steps; two processes in one round; drafts that are
  older than the file they replace.  Correct when a round opens only after its
  predecessor is committed, is open or committed and never both, is never torn,
  never changes once committed, keeps what was acknowledged, and can always be
  carried on from `resume-plan`.
* **Merge.** Hosts report agents late, twice, contradictorily, or under ids
  nobody spawned.  Correct when a complete merge has for each agent the only
  thing it said, whatever order it came in.
* **Transport.** Re-initialization after agents were lost; interrupted writes; a
  timeout before the last answer.  Correct when answers of two spawn orders
  never mix, and no loss goes unseen.
* **Stress gate.** The decision is taken in the middle of a round that keeps
  growing, and judged when the round can no longer be changed.  Correct when
  keeping to the contract is enough to pass, and nothing passes undebated.
* **Prompts and shifts.** What an expert was shown is written down in a second file
  after the first, both are written over when the expert is asked again, and the second
  is believed when a shift is judged several steps later, perhaps by another
  coordinator.  Correct when a committed shift cites only what its expert was shown in
  full, an honest shift always passes, and the window neither hides what must be seen
  nor wastes its budget.
* **Vendoring.** A copy is replaced file by file while the repository moves on.
  Correct when a tree that verifies is all of one run's copy, the pin names the
  commit it is of, and vendoring again repairs whatever happened.
* **Certification.** Everything it reads is written by others at other times.
  Correct when it is only given to a finished discussion, any later work takes
  it away, and an audit after the last work suffices.


## 2. Plan

In order of importance; all but step 9 is done.

1. `WalState`, `Wal` over `RoundLog`; `WalProofs`.
2. `Collect`, `FanIn`: the merge as operators, with every history of batches.
3. `Transport`: the phase directory, composed with `Collect`.
4. `Stress`, from `init` to the commit; `StressProofs`.
5. `Loop`: what the certificate reads, over phases with their writes and batches,
   prompts, rounds and tool evidence.
6. `Prompt`: the visibility of each phase as operators, with the greedy window.
7. `Shift`, composed with `Prompt`: `prompt-build`, the answers and the provenance
   rule, with coordinators that are killed; `ShiftProofs`.
8. `Vendor`: `vendor` at every write, and what `verify` says of the result;
   `VendorProofs`.
9. A composition of `Wal` and `Stress` (a decision recorded by a stale draft) and
   of `Transport` and `Loop` (a phase's spawn orders and lines in place of what a merge
   makes of them, `Loop`'s `stage`, `heard` and `result` as a refinement mapping).
10. Proofs of every safety and action property of a passing run: `WalProofs` (the
    refinement among them), `CollectProofs` under `FanInProofs` and
    `TransportProofs`, `LoopProofs`, the window and the argumentation in `ShiftProofs`.

The runs are few on purpose: a new module replaces or merges runs before it adds
one.  A property that is proved and that no run lists (the type invariants of `Wal`,
`Shift` and `Vendor`, `WholeRoundFiles`, `FinalsImmutable`, `RecordCommittable`) was
checked while the modules were built; its proof covers every instance.


## 3. The modules and the code

Definitions commented `Faulty` are not part of a specification: each is one
plausible bug in the definition it names, with which some property fails.
(`Wal`, `Collect` and `Shift` keep theirs in a section of their own.)

Common conventions: a file that does not exist is the model value `NoFile`; a
caller that is free to do anything is an existential over small sets; a command
refused before it writes is no action, because it changes nothing; every bound is
a constant named `Max...` or a guard commented `bound`.

### `WalState`, `Wal`: the log

State: `partial`, `final`, `tmp` (the three names of a round file), `progress`,
`events`; `cmd[w]`, the process in slot `w` (its program counter, its command,
the state it holds in memory, the name its open file is linked under); `snap[w]`,
the state file the caller of that slot prepared; `acked`, what appends returned.

A command is a start action by the caller (`StartAppend`, `StartCheckpoint`,
`StartFinalize`: everything up to the first point where another process or a
kill could matter) and then one action per file it touches:

    append      mint -> guard -> open -> write -> rename -> progress -> ckptEvent -> msgEvent
    checkpoint          guard -> open -> write -> rename -> progress -> ckptEvent
    finalize            guard -> open -> write -> rename -> progress -> ckptEvent -> promote -> finalEvent

`Refuse` is the guard's refusal, which `append-message` ignores.  A file is
opened with truncation (`OpenTmp`), written (`WriteTmp`) and renamed
(`RenameTmp`) in different steps: an open file follows its inode, so a process
whose tmp file another one has renamed writes into the partial (`Relinked`,
`at`), and a short text written over a longer one tears it (`Overwritten`).
`Crash` returns a slot to idle between any two steps.  A power loss between a
rename and the directory's fsync leaves the directory as it was before the
rename, which is the same as a kill one step earlier.

Abstracted: a message is its id and an opaque body; a round state is its declared
round, the message count recorded in its metadata, and its messages.  What
`append-message` checks of a payload before it reads the round is taken to be
accepted.  The order of events is left out.

`RoundLog` says what readers may rely on: rounds are logs that grow by one
message with the next id until closed, in order.  `Wal!ImplementsRoundLog` maps
each round to the file `_load_state` reads and "closed" to "the final exists".

### `Collect`, `FanIn`: the merge

`Collect!Merge` is `collect_merge`: one pass over the batches (`Gathered`, by
`Absorb`), then one over the spawn order (`Bound`, by `BindOwn` and `BindFallback`),
each a recursive function of how far the pass has come, so that there is something to
reason about after each step.  The name, persona and token by
which a fallback matches are one claimed persona.  `FanIn` delivers batches one
at a time; its properties compare the merge with notions that do not follow it
(`Reported`: every payload an agent ever completed with; another order of the
same batches; one batch delivered twice).  `DeliveryIrrelevant` leaves out the
histories in which a spawned agent's entry was null (`Nulled`), where it is not so
(section 6).

### `Transport`: a phase directory

One action per file that `transport-init` writes (`InitSpawn`, `InitHost`,
`InitWaits`), with kills between them (`InitKilled`); `AppendBatch`, and
`AppendTorn` for one interrupted inside its line, after which the next append is
written behind the unterminated text; `CollectStep`, which uses
`Collect!Merge`; and the host's `Spawn`, at any time and as often as it likes.
Each line (`Recorded`) remembers which spawn order it was about, which the code does
not: the properties use it to say that answers do not mix.  The shape checks of a spawn
order, distinct ids among them (`SpawnAssumption`), are a precondition.

### `Prompt`, `Shift`: what an expert sees and what it may claim

`Prompt` is a set of operators.  `Visibility(phase, msgs, e)` is the map of
`build_prompt`; in the response phase it is `ResponseVisibility`, the window: from
the newest message to the oldest, a peer message that fits the rest of the budget is
shown in full and taken off it (`Spent`), one that does not fit is a gist, and own
and pinned messages are free.  A message is its sender, type, role and size.

`Shift` plays one round of `protocol/PROTOCOL.md` with it.  `text` and `artifact` are
the two files of each expert's prompt directory, written one after the other (`BuildText`,
`BuildArtifact`), over what an earlier prompt of the expert left there; `built` and `redo`
are what only the running coordinator knows and `Kill` loses.  An agent that was spawned
answers before its expert is asked again, also when its coordinator was killed.  `Answer` is any answer: a shift may cite anything in `Claims`, shown
or not, an id that does not exist, or nothing at all.  `Finalize` is the shift part
of `validate_round_record` (`Untraced`, `Unseen`, `Unverifiable`), with the context
log the coordinator passes, or none; on a refusal the coordinator asks the experts
again whose shift was refused, with a prompt of the log as it is by then.  What an
asked agent saw is `asked`, which no command reads: the properties compare the
files with it.  A prompt is represented by the length of the log it was built from.

The directory is keyed by the expert (`ARCHITECTURE.md:128`, every fixture).  The
commands in `host-step.json` have `<agent-id>` in its place (`transport.py:196`), and an
agent id is a stable name on Claude (`docs/HOST-ADAPTERS.md:75`), so an expert that is
asked again may well have its record written over, and no code keeps that from happening.
The framing is posted under either of its two types.

### `Stress`: the stress gate of a round

The discussion starts without a manifest; `InitDiscussion` fixes the policy, by
`--stress-policy` or by the mode, and is refused a second time.

`msgs`, `graph`, `quality` and `closed` are the round; `told` is what
`stress-check` last said to the running coordinator, which `Restart` loses.
By the contract of `protocol/PROTOCOL.md` a coordinator argues, asks, records the
answer, runs a stress pass if one is required and has it answered, then finalizes; the
commands accept much more.  A step that the contract does not have, which may also be an
edit of the graph by hand, is counted in `strays` (`Step`), at most `MaxStrays` of them,
and a property of the contract is one of the behaviours without (`Kept`): one
specification has both.  The commands are atomic except
`finalize-round`, which can be killed before it commits.  A digest is modelled as
the value it hashes (the ids and edges of the argument phase).

### `Loop`: what the certificate reads

The discussion is reduced to what the validators can tell of it.  Of a phase: how far
`transport-init` has come (`stage`; `Spawn` can be killed between its three files and is
then run again), what `collect_merge` makes of its batches so far (`heard`), what its
`collect-result.json` says (`result`), and whether that still is the merge (`current`).
`AppendBatch` adds a batch of any effect: the missing answers, the same again, a second
stray that makes an ok merge incomplete, or one that timed out or contradicts another,
after which the merge is `spoiled` for good, since batches are only ever appended
(`collect.py:61`).  A late batch may leave the stored result as it is, outdated (a
collected phase goes back to `poll_remaining` when it is collected again) or even right.
Of the rest: the prompts, of which the loop wants one (`loop.py:128`), which rounds are
partial or final and which have their event, the size of the synthesis, the status, the
tool evidence in `capabilities/`, the state of the cleanup.
`adapter-smoke` sees a phase from its `host-step.json` on (`Hosted`).
Tool evidence holds (`CapabilitiesOk`) if each line still has its artifact and a profile
that allows the tool: without `profile.json` the effective profile is `expert-basic`,
which allows none.  A line that cannot be read or was not validated has the same effect
as one without its artifact, and is not told apart from it.  `Stable` is what a stored trace
or evidence file must still say when it is compared, and the byte total is a sum
of sizes, as in the code: it does not identify a directory.  `require` is
`--require-projection`.  The contract and vendor checks of the certificate are
taken to pass.  `BuildTrace` and `BuildEvidence` wait for the status `completed`
(commented `bound`): an audit taken earlier holds the health `at-risk` or the
total of a smaller directory, and only adds states.


### `Vendor`: the vendored copy

`worktree`, `commits` and `head` are the repository, which developers change at any
time; `dest` and `manifest` are the vendored tree.  A run removes the old tree file by
file in any order, the manifest among them (`RemoveFile`, `RemoveManifest`), lists the
bundle (`List`, which fails on a missing entry), opens, fills and hashes each copy
(`Open`, `Fill`, `Hash`), reads the commit (`Pin`), and opens and writes the manifest.
It can be killed before each of these.  `Local` is an edit, an added or a deleted file
of the copy, between two runs.  `Verified` is `verify`, evaluated in every state.
`copied` and `still` are history: what the last complete run read, and whether the
worktree was the checked out commit all along.  A file is its contents, and so is a
hash.  `Caches` are the places `verify` does not look at.


## 4. The runs

| run | question | bounds, and why they are enough |
|---|---|---|
| `wal_single` | one process at a time: do all promises of the log survive kills, and is every round committed in the end? | 2 rounds (the guard looks one round back), 2 messages (gapless ids, an append after an append), 2 kills (a kill while recovering from a kill) |
| `wal_pair` | what is left of them with two processes in one directory? | 2 writers, 2 rounds, 1 message, old drafts allowed (`Fresh = FALSE`); no kills: a process that never takes another step is one |
| `wal_acks` (violation) | is what `append-message` acknowledges stored? | 1 writer, 2 rounds, no kill |
| `fan_in` | is the merge sound and independent of order and duplication? | 1 or 2 spawned agents with different or equal personas, stray ones, 3 batches: enough for two reports to conflict with a third in between |
| `transport` | do answers of two spawn orders mix, or disappear unseen? | 3 spawn orders (respawned under another id, joined by a second persona), 3 lines, 2 interruptions |
| `stress` | does a coordinator that keeps to the contract always pass, and can anything pass undebated? | 5 messages: two arguments that can support or challenge, stress pass, response, one to spare; 3 relation words, one made up; 2 mishaps; 1 step off the contract, anywhere in the round (`GatesDebate` is proved for any number) |
| `stress_analogy` (violation) | does the cross-domain step of the protocol leave the gate alone? | as `stress`, under `auto`, with the analogy and without mishaps and strays |
| `loop` | what does the certificate say, when is it lost, when is it reached? | 2 phases, one projected (one may be ok while the other is not); 1 round, 1 prompt; 1 mishap: a kill, a late or spoiling batch, a lost artifact; 1 tool call, with a profile or without |
| `shift` | are committed shifts what their experts were shown, honest shifts accepted, windows right, and is the round committed in the end? | 2 experts (own and peer messages); sizes below, at and above the rest of a budget of 5; 2 attempts; 1 kill; claims that are empty, of one peer, of several messages, and of no message |
| `shift_reasked` (violation) | does that hold even if a coordinator is killed while it asks an expert again? | as `shift` |
| `prompt_opening` (violation) | does the argumentation prompt carry the framing? | as `shift` |
| `vendor` | does what verifies hold what it says, and does vendoring repair? | 1 path of each kind (entry, member, stray, excluded), 2 contents; 1 edit, 2 commits, 1 local change, 1 kill |

The passing runs show what their properties say; `PROJECT.json` has, for each
property, a change of the code that breaks it.  Some of them deserve a word.

* `ResumeIsWritable`: `resume_plan` and `_round_guard` are written separately and
  read different files; that the first never names a round the second refuses is
  what makes recovery possible at all.
* `LossIsVisible`: an acknowledged batch *can* be lost (it is written behind a
  line that was cut off), but never while every line still parses.
* `RecheckAgrees`: a coordinator that takes a round over later and asks
  `stress-check` again gets the recorded answer, since neither the stress pass nor
  its responses count towards it.
* `AuditedLastIsCertified`: trace and evidence are stored in the directory they
  describe.  One of each, in either order, after the last work is enough; neither
  makes the other stale.
* `ShiftsWereShown` is about the prompt the answering agent was *given*; the code only
  ever sees `prompt-build.json`.  `RecordIsOfThePrompt` is why that is enough, as long as
  no other prompt was built in the same place.  One is built when the expert is asked
  again, and the coordinator that does so waits for the new answer before it finalizes;
  so the exception of the property is a kill in between, and `shift_reasked` shows that
  it is needed.
* `CertifiedIsFinished` and `NewWorkRevokes` hold with batches that come in after the
  collect: `adapter-smoke` replays them, and the byte total counts even the line that
  changes no answer.
* `HonestShiftsPass` is the other direction, without which the way out of a refused
  round (ask again) would not terminate.
* `FixedRolesInFull`: the stress test and the framing are posted without `role: fixed`;
  they are pinned by type or by sender, under either type of the framing.
* `VerifiedIsWhole`: the old tree, its manifest included, is gone before the first file
  is copied, and the manifest comes last; a tree that verifies is therefore never a
  mixture, wherever the run was killed.
* `PinIsTrue` is conditional: the commit is read after the files, and nothing checks that
  the worktree is clean.

### Fairness

* `Wal!FairSpec`: a started process runs on unless it is killed (weak fairness of
  `Step`), and kills are bounded.  The caller's fairness is strong, because the
  round it works on may be busy with other commands in between, and it is the
  documented recovery loop: read the round that `resume-plan` names, finalize it.
  Nothing is assumed of appends and checkpoints.
* `Stress!FairSpec`: the coordinator goes on with the round, by the contract (`Proceed`
  without a new stray step); nothing is assumed of one that has left it.
* `Loop!FairSpec`: as long as there is a step of `Work`, one is taken: what was begun is
  gone on with, agents that can still answer do, and stale audit files are rebuilt;
  `plans/010-claude-stresspolicy-orchestration.md:42` and
  `plans/009-mode-stresspolicy.md:54` have them regenerated after the cleanup.  Every
  such step makes progress, so it suffices to be fair to their disjunction.  Kills, late
  and spoiling batches are not fair, and nothing in `Work` mends what they spoil:
  `EventuallyCertified` excludes the behaviours in which the event of the only round was
  lost to a kill, a wait timed out or contradicts another one, or the tool evidence
  does not hold.
* `Shift!Fairness`: a coordinator that is not killed goes on with the discussion and the
  responses and finalizes with the context log; asked agents answer.  The last attempt
  of an expert (`MaxAttempts`) is honest: an expert that never cites what it was shown
  keeps the round open for ever, as it should.
* `Vendor!Fairness`: a run that is not killed goes on, and a tree that does not verify
  is vendored again.  `VendoringRepairs` only speaks of bundles that are complete in the
  end.

### Deadlock, symmetry, view

`CHECK_DEADLOCK FALSE` is set where the system may stop: two writers can leave
files that every command refuses (`wal_pair`); the host has
delivered its batches (`fan_in`); the round is committed (`stress`,
`stress_analogy`, `shift`, `shift_reasked`, `prompt_opening`).  The other runs check
it: in `wal_single`, `transport`, `loop` and `vendor` there is always something a caller
can do.

`wal_pair` uses the symmetry of its writers and a view that leaves out
`progress`, `acked` and all events but `round_finalized`.  No guard and no
right-hand side reads those except to add to them, and the two properties of the
run do not mention them, so states that differ only there behave alike.

### What disagrees with a document

Four runs end in a violation, each of one property that a document states.

1. `wal_acks` — *round state is the source of truth* (`ARCHITECTURE.md:142`).  For a
   round whose predecessor is open, `append-message` is refused by its checkpoint,
   ignores that, logs `message_appended` and returns ok with an id.  With one
   process and no fault at all.  (`StoredAcksKept` is what holds: an answer that
   carries the checkpoint's path is durable.)
2. `stress_analogy` — *the argument types exist before a stress pass*
   (`quality.py:23`).  `analogy` is one of them, and the protocol posts one after the
   stress pass, so the digest no longer matches and the committed round is refused
   for good.
3. `prompt_opening` — *argumentation passes the declarations and the moderator's opening
   explicitly* (`protocol/PROTOCOL.md:131`).  The protocol posts that opening as type
   `opening` (`PROTOCOL.md:126`, `SCHEMA.md:32`); `prompt.py:22` only knows
   `moderator_opening`, so the experts argue without the framing.
4. `shift_reasked` — *every shift must name at least one trigger id the persona was shown
   in full, else fail the round and re-inject* (`protocol/PROTOCOL.md:165`).  A shift is
   refused because its trigger was only a gist in the prompt.  The coordinator asks the
   expert again: `prompt-build` writes the new prompt and its record over the old ones
   (`swarm_rt.py:174`), and by now the window is another, with that trigger in full.  The
   coordinator is killed, the next one finds the old answer in the round, passes the new
   record, and the refused shift is committed.  Nothing ties an answer to the prompt it
   answers.


## 5. What is proved

Every safety invariant and action property of the passing runs, the refinement
included, for every value of the constants that satisfies the modules' assumptions: any
set of writers, experts, phases, agents or files, any number of rounds, messages,
batches, kills and mishaps.  Each proof has an inductive invariant, an `Init` lemma,
a lemma per step and a theorem per property.  Where a theorem has a hypothesis it is
one of these, and the run of the property fulfils it:

| hypothesis | where | why the code or its callers justify it |
|---|---|---|
| `SoleWriter`: no two different slots | `WalProofs`, the last eight theorems | one coordinator per discussion; section 6 says what a second one breaks |
| `Fresh`: a caller reads before each command that takes a state | `WalProofs`, the log and the refinement | the recovery loop of `protocol/durability.md`; an old draft drops messages (section 6) |
| `NoAnalogy` | `StressProofs`, all but `TypeCorrect` and `GatesDebate` | the coordinator of `protocol/PROTOCOL.md` without its Step 6; `stress_analogy` says what that breaks |
| `DistinctOrders`: ids of a spawn order are distinct | `FanInProofs`, `CountedAlways`, `NeverReusedAlways` | `transport-init` refuses others; `collect-merge` alone does not (section 6) |

### `WalProofs`

For any number of concurrent processes:

* `TypeCorrect`.  `TypeOK` is not inductive: that a running command holds a state and
  not `NoFile`, and that an appending one has a last message, is `Holding`.
* `SequentialAlways`.  The guard is read long before the file is written, so the
  invariant (`SeqInv`) also says that a command past its guard (`Admitted`) has a
  committed round before its own.  It is kept because no step removes a final file
  (`FinalsStay`): this is why the property, unlike `OneFilePerRound`, survives a
  second process.
* `EventsTrue`.  `EventInv`: a command about to log a commit is in a committed round.

Under `SoleWriter`:

* `OneFileAlways`, `WholeAlways`, `FinalsImmutableAlways`, all from `OneInv`.  Its
  part `Exclusive` says of the one running command what the files of its round
  look like at each step: past its guard and before its rename no final file, the
  tmp file open and torn while it writes and whole when it renames.  Without it the
  guard's answer would not still hold at the rename.
* `PlanAlwaysWritable`, from `OneInv` and `SeqInv`.  `resume_plan` takes the highest
  round there is; a highest round exists (`HighestRound`) and either it is open, or the
  next one has its predecessor committed.

Under `SoleWriter` and `Fresh`, all from `LogInv`:

* `FinalsAreValid`, `FinalsAreListed`, `AcksAreKept`.  `LogInv` adds to the above that
  files number their messages by position (`FilesNumbered`), that a draft is what is on
  disk (`DraftIsCurrent`), and, for each step of each command, how what it holds
  in memory relates to the file: the round as it is, or one message more, until its
  rename (`HeldBefore`), and the round itself after it, listed in `progress.md` once that
  was written (`HeldAfter`).  The minted id is free because ids are positions
  (`NextIsFree`), so renumbering changes nothing (`Renumbered`).
* `WalImplementsRoundLog`.  Two steps of the code change what a reader sees: the rename,
  which is an append of `RoundLog` or changes nothing (`RenameEffect`), and the promotion
  to the final name, which closes the round (`PromoteEffect`).  Every other step, a kill
  among them, leaves the mapped log alone (`FilesElse`).

### `StressProofs`

`TypeCorrect` holds whatever the coordinator does.  Under `NoAnalogy`, of the behaviours
that have kept to the contract (`Kept`): `ContractCommits`, `ContractRechecks`
and `ContractPasses`, all from `GateInv` (`Kept` implies it, and stray steps are never
taken back: `StraysCount`), which is `TypeOK`, the record being acceptable,
`RecheckAgrees`, and the order of the phases (`InOrder`: what stress-check last told is still what it would say, and no
argument follows it).  The heart is `LaterPhase`: a message that is no argument has
no effect on the pre-stress edges, because its edge starts at itself.  `GatesDebate`
needs no invariant: the two gates together imply the debate, for every state.

### `ShiftProofs`

Without hypothesis.  `TypeCorrect`, `RecordCorrect`, `GateIsSound` and `GateIsComplete`
come from one invariant, `IInv`.  Beside the types and the two properties it proves, it
says that a prompt which is built and not yet handed out is on file with its record, and
that a running prompt-build has its own text on file (`BuildsInOrder`); that prompts are of prefixes of the log, which only grows
(`PromptsOfTheLog`); that an answer answers a prompt its agent was given, and that the prompt of an agent that
has not answered yet is still on file (`AnswersWereAsked`, `AskedInTurn`); and that
an expert is only asked again over a refused shift, which was not honest
(`ReaskedIsDishonest`): so the record of an honest answer is never written over before the
commit.  The visibility of a prefix does not change when the log grows.
`FixedRolesSeen` rests on
the window's definition: a pinned message is in full for every budget.  That an expert
does not carry the id of a fixed role (`CastAssumption`) is needed there and nowhere else.

* `ReplayShowsTheSame`, from `FramingLast`: the moderator frames when all declarations
  are posted, and nothing that the argumentation prompt shows is posted after that, so
  every later prefix shows the same.
* `WindowStaysGreedy`, by induction from the newest message to the oldest (`DownTo`).
  `WindowIsBalanced` is the fact it comes to: before each message, the budget left and
  the sizes of the newer peer messages shown in full add up to the budget.

### `VendorProofs`

Without hypothesis: `TypeCorrect`, `VerifyIsSound`, `PinIsSound`.
The invariant follows the order of the run: while there is a manifest that can be read no
file is being replaced (`ManifestComesLast`), the hashes taken so far are of the files
read (`HashesAreOfTheCopies`), and the finished manifest lists what was copied
(`ManifestIsOfTheCopy`).  For the pin, the sources read are those of the commit checked out
as long as the repository is left alone (`StillIsTheCommit`, `PinOfTheCopy`).

### `LoopProofs`

Without hypothesis.  `LoopInv` is the types and three facts: an audit file that counts as
built says what the discussion still is (`AuditFresh`), projected agents left a
projection manifest (`ProjectedIsKnown`), and a result that is current is the merge of
the batches (`ResultsAreMerges`).  `AuditedLastIsCertifiedAlways` follows from it;
`CertifiedIsFinishedAlways` is that the four checks of the certificate, each of a part,
leave no gap between them.  For `NewWorkRevokesAlways` each action is shown either
impossible in a certified discussion or to change something that the stored files say:
a batch, a prompt, a file of a spawned phase or a longer synthesis the byte total
(`GrowthIsCounted`), a deletion the projection summary.

### `CollectProofs`, `FanInProofs`

`CollectProofs` has no theorem of a specification but what `collect_merge` computes, for
every spawn order and every sequence of batches.  Its two passes are recursive functions
of a place in a sequence, and each fact is an induction on that place; the rule (`UpTo`)
and the existence of such functions (`Recursion`) are first proved from the
well-foundedness of the naturals, so no induction theorem with an operator
parameter is needed.

* `GatheredKeeps`: after each batch, what is kept of an agent is a payload it completed
  with if it ever did, one of its other entries if not, and two different payloads have
  left an error behind.
* `BoundKeeps`, `CountKeeps`: after each spawned agent, the results so far are
  of owners or of strays that claim the persona, nothing is bound twice, and everyone so
  far is counted once.
* `SameBatchesSameMerge`: two sequences of the same batches, in any order and with
  any repetitions, complete alike and with the same results.  What the first pass keeps
  may differ (which bad entry came last); what the second makes of it does not.

`FanInProofs` has only to show that the batches keep their type, and cites these:
`CountedAlways`, `NeverReusedAlways`, `OwnersKeptAlways`, `CompleteSoundAlways`,
`AnswersAreFinalAlways`, `OrderDoesNotMatterAlways`.  Without the restriction to histories
without nulls the last cannot be proved, and TLC has a counterexample: the null of section 6.

### `TransportProofs`

Without hypothesis.  The invariants carry each other, so they are proved together
(`TransportInv`): `BatchesMatchSpawn` needs the order of the writes of `transport-init`
(`InitOrder`: no lines before the two files they depend on, and a host that was told it
may go on is the host of the spawn order on file); `OkResultIsCurrent` needs
`BatchesMatchSpawn`, since a report of a respawned agent would do as well, and, from
`CollectProofs`, where the payloads of an ok merge come from (`OkMergeBindsReports`);
`CollectReplays` needs that without new lines the files merge to the stored
result (`StoredMerge`).  Its reading of lines, `Readable`, is once more a recursion on a place.

### Only model-checked

Liveness under fairness, which is out of the prover's reach: `EventuallyFinal`, both
`EventuallyCertified`, `EventuallyCommitted`, `VendoringRepairs`.  And the four
properties that a document states and the code does not keep, which have counterexamples.


## 6. Known limits of the code, without a run

Met while modelling, each reproduced on a variant of the modules or read off the code.

* With a second process in the directory a committed round can be reopened:
  `checkpoint` looks for the final file (`wal.py:236`) and writes the partial several
  steps later (`wal.py:252`); a `finalize-round` in between leaves both, against
  `ACCEPTANCE.md:25`.  (`OneFilePerRound`, added to the
  properties of `wal_pair`, is violated: it holds for one process, in `wal_single`.)
* `finalize-round` killed before its commit leaves the metadata it derived in the
  partial; after one more append the count is wrong and the next `finalize-round` takes
  it for the caller's own and refuses (`wal.py:436`; `docs/HOST-ADAPTERS.md:42`).  A
  caller that strips the metadata gets past it, which is why `EventuallyFinal` holds.
* A null entry for a spawned agent that arrives last undoes what the agent reported
  before, unless that was a payload (`collect.py:79`): the agent then counts as one that
  said nothing, and a stray report that claims its persona answers for it
  (`collect.py:110`).  The other way round the fan-in is incomplete.
* `timedOut` is never cleared (`collect.py:61`): one wait that timed out keeps a complete
  fan-in at `poll_remaining` (`audit.py:414`), with nobody left to poll, against
  `docs/HOST-ADAPTERS.md:61`.  It is an exception of `Loop!EventuallyCertified` for that
  reason, and so are two batches that contradict each other.
* `init` killed between the manifest and its event (`wal.py:405`): the event is missing
  for good.  Nothing requires `init` before the first round; without it the stress
  policy is off.
* `stress-check` asked again after an edge was inserted by hand re-dates the decision and
  the digest with it (`quality.py:248`); without `--round` it takes the last file name,
  `resume-plan` the highest round (`quality.py:238`).
* A phase whose `transport-init` was killed between its spawn order and its host step
  (`transport.py:295`) has agents that neither the trace nor `adapter-smoke` knows of: the
  discussion is certified without them.  `CertifiedIsFinished` is about the phases with a
  host step.
* A vendor run with uncommitted changes pins a commit that does not have them
  (`vendor.py:88`); one that fails on a missing entry has already removed the old tree
  (`vendor.py:74`); hashes are taken of the copies, so an edit of a copy during the run
  would be blessed; `verify` does not look at `__pycache__`, `.DS_Store` and nested files
  named like the manifest.
* A torn line of `tool-evidence.jsonl` makes the capability report not ok but leaves
  `citable` true for the lines that can be read (`audit.py:336`), where
  `docs/CAPABILITY-PROFILES.md` calls evidence non-citable if any condition fails.
* A caller that checkpoints an old draft drops the messages since, and
  `next_message_id` mints their ids again (`wal.py:124`; `protocol/durability.md:42`
  speaks of monotonic ids).  `wal_single` therefore has callers that read before they
  write (`Fresh`).
* `finalize-round` killed between its commit and its event (`wal.py:483`) leaves a
  committed round whose event is never written; `validate-loop` only looks for one such
  event in the discussion, so a discussion with a single round is never certified
  (an exception of `Loop!EventuallyCertified`).
* `append-message` killed before it answers, and retried, posts twice: it carries no
  request id.
* `collect-merge` called on its own does not check that agent ids are distinct, and then
  gives one payload to both (`collect.py:107`); `transport-init` does check.
* A batch appended behind an unterminated line is acknowledged and lost
  (`transport.py:321`), see `LossIsVisible`.
* The error `stale_wait_batches` advises to collect first, and collecting does not lift
  it (`transport.py:289`).
* A stress decision computed by a `finalize-round` that did not commit stays in the
  partial (`quality.py:157`) and passes for a recorded one, without a digest.
* A spawned phase that was never collected is not part of the trace, which says `none` is
  the next action (`audit.py:207`); `adapter-smoke` catches it.
* The byte total is a sum: an edit that keeps the length, or two that cancel out, do not
  make an audit file stale (`audit.py:390`).
* `append-message` with `"references": null` ends in a traceback, before it writes
  (`wal.py:325`).
* `start_round` is never the next action of a trace: without a round the validation fails
  first (`audit.py:464`).


## 7. What is not modelled

* **Payload and field validation** beyond ids, counts, references, edges and the
  directory conditions: whether a string is non-empty or an enum known has no
  behaviour to get wrong.
* **Host adapter metadata** and **runtime contract**: checks of one JSON document each,
  no state.  **Capability profiles**: the field checks, a table; what a profile allows is
  in `Loop`.  **Context**: a formatter whose output nothing reads back except to see that
  it is not empty.
* **The wording of prompts**, the gist's shortening and the output contract of a phase:
  nothing reads them but the agents.  The size of a message is a number, the rendering it
  is of is not modelled.
* **`init`'s file steps**: it is one action of `Stress`; its event is read by nobody.
* **Position shifts across rounds**: provenance is judged round by round.
* **JSON text, timestamps, event sequence, output format**, and the torn last line of
  `events.jsonl` (the same append as the wait batches', where it costs data).
* **More than two writers** in a run (the proofs have any number), **disk full** other
  than as an interrupted write, and **readers** that see two files at different
  moments: the validators are atomic in `Loop` and `Stress`.
