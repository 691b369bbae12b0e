------------------------------- MODULE Vendor -------------------------------
(***************************************************************************)
(* scripts/vendor.py: `vendor` copies the adapter bundle of this repository*)
(* into a directory of a host adapter and pins it by a manifest, `verify`  *)
(* compares the directory with its manifest.                               *)
(*                                                                         *)
(* The repository changes while a bundle is copied, a vendor run fails or  *)
(* is killed between any two of its writes, and between two runs the       *)
(* adapter's developers edit, add and delete files of the copy.            *)
(*                                                                         *)
(* A file is its contents, a sha256 is the contents it is of (no           *)
(* collisions).  A tree maps each path to contents or to Absent.           *)
(***************************************************************************)
EXTENDS Integers, Sequences

CONSTANTS
  Entries,      \* files that are bundle entries themselves: they have to exist
  Members,      \* files of the bundle's directories: those that exist are copied
  Strays,       \* paths outside the bundle
  Caches,       \* paths verify does not look at: under __pycache__, .DS_Store,
                \* and vendor-manifest.json in a subdirectory
  Contents,     \* the contents of files
  MaxEdits,     \* bound: edits of the repository's worktree
  MaxCommits,   \* bound: commits of the repository
  MaxLocals,    \* bound: changes of the copy made by hand
  MaxKills,     \* bound: vendor runs killed
  Absent,       \* no such file
  Torn,         \* a file that is open for writing, or was when its writer died
  Unknown       \* the runtimeSha when git rev-parse fails

Bundle == Entries \cup Members
Paths == Bundle \cup Strays \cup Caches

ASSUME PathsAssumption ==
  /\ Bundle \cap (Strays \cup Caches) = {}
  /\ Strays \cap Caches = {}
  /\ Bundle # {}
ASSUME ContentsAssumption == Contents \cap {Absent, Torn} = {} /\ Absent # Torn
ASSUME UnknownAssumption == Unknown \notin Nat
ASSUME BoundsAssumption ==
  MaxEdits \in Nat /\ MaxCommits \in Nat /\ MaxLocals \in Nat /\ MaxKills \in Nat

Trees == [Paths -> Contents \cup {Absent}]
NoFiles == [p \in Paths |-> Absent]

VARIABLES
  worktree,  \* the files of the repository, those in the excluded places included
             \* (git ignores them: they are the same whatever is checked out)
  commits,   \* its commits
  head,      \* the commit that is checked out
  dest,      \* the vendored tree without its manifest
  manifest,  \* vendor-manifest.json
  pc,        \* where the vendor run is; "idle": there is none
  todo,      \* the bundle files it still has to copy
  cur,       \* the one it is copying
  files,     \* the hashes it has taken
  sha,       \* the runtimeSha it has read
  read,      \* what it has read of the sources
  still,     \* ghost: the worktree was the head commit since it started
  copied,    \* ghost: what the last complete run copied, and whether the
             \* worktree was the head commit all along
  edits, locals, kills

repo == <<worktree, commits, head, edits>>
run == <<todo, cur, files, sha, read>>
vars == <<repo, dest, manifest, pc, run, still, copied, locals, kills>>

-----------------------------------------------------------------------------
(* cmd_verify                                                              *)

Listed == manifest.files

\* Readable JSON; a missing manifest is an error, a torn one an exception.
Manifested == manifest \notin {Absent, Torn}

\* Verified, faulty: it does not look for files outside the manifest.
VerifiedListed ==
  Manifested /\ \A p \in Paths : Listed[p] # Absent => dest[p] = Listed[p]

\* Every listed file has its hash, and every other file is in an excluded place.
Verified ==
  /\ Manifested
  /\ \A p \in Paths : Listed[p] # Absent => dest[p] = Listed[p]
  /\ \A p \in Paths \ Caches : dest[p] # Absent => Listed[p] # Absent

-----------------------------------------------------------------------------
(* The repository.                                                         *)

\* What a change of the repository during a run does to the ghost.
Disturb == still' = (still /\ pc = "idle")

Edit(p, c) ==
  /\ edits < MaxEdits
  /\ worktree[p] # c
  /\ worktree' = [worktree EXCEPT ![p] = c]
  /\ edits' = edits + 1
  /\ Disturb
  /\ UNCHANGED <<commits, head, dest, manifest, pc, run, copied, locals, kills>>

Commit ==
  /\ Len(commits) < MaxCommits
  /\ worktree # commits[head]
  /\ commits' = Append(commits, worktree)
  /\ head' = Len(commits) + 1
  /\ Disturb
  /\ UNCHANGED <<worktree, edits, dest, manifest, pc, run, copied, locals, kills>>

Checkout(c) ==
  /\ worktree # commits[c] \/ head # c
  /\ worktree' = commits[c]
  /\ head' = c
  /\ Disturb
  /\ UNCHANGED <<commits, edits, dest, manifest, pc, run, copied, locals, kills>>

-----------------------------------------------------------------------------
(* The copy, between two runs.                                             *)

Local(p, c) ==
  /\ pc = "idle"
  /\ locals < MaxLocals
  /\ dest[p] # c
  /\ dest' = [dest EXCEPT ![p] = c]
  /\ locals' = locals + 1
  /\ UNCHANGED <<repo, manifest, pc, run, still, copied, kills>>

-----------------------------------------------------------------------------
(* cmd_vendor                                                              *)

Start ==
  /\ pc = "idle"
  /\ pc' = "remove"
  /\ still' = (worktree = commits[head])
  /\ UNCHANGED <<repo, dest, manifest, run, copied, locals, kills>>

\* shutil.rmtree, one file at a time, in the order of the directory.
RemoveFile(p) ==
  /\ pc = "remove"
  /\ dest[p] # Absent
  /\ dest' = [dest EXCEPT ![p] = Absent]
  /\ UNCHANGED <<repo, manifest, pc, run, still, copied, locals, kills>>

RemoveManifest ==
  /\ pc = "remove"
  /\ manifest # Absent
  /\ manifest' = Absent
  /\ UNCHANGED <<repo, dest, pc, run, still, copied, locals, kills>>

\* Listing, faulty: only the entries that are files.
ListingFiles == {p \in Entries : worktree[p] # Absent}

\* The files of the bundle that exist.
Listing == {p \in Bundle : worktree[p] # Absent}

\* _bundle_files, once the directory is gone; a missing entry ends the run.
List ==
  /\ pc = "remove"
  /\ dest = NoFiles /\ manifest = Absent
  /\ IF \E p \in Entries : worktree[p] = Absent
     THEN pc' = "idle" /\ UNCHANGED run
     ELSE /\ pc' = "copy"
          /\ todo' = Listing
          /\ files' = NoFiles
          /\ read' = NoFiles
          /\ UNCHANGED <<cur, sha>>
  /\ UNCHANGED <<repo, dest, manifest, still, copied, locals, kills>>

\* shutil.copyfile opens the source, which stays what it is while it is open, and
\* empties the target; a source that is gone ends the run.
Open(p) ==
  /\ pc = "copy"
  /\ p \in todo
  /\ IF worktree[p] = Absent
     THEN pc' = "idle" /\ UNCHANGED <<dest, run>>
     ELSE /\ pc' = "fill"
          /\ dest' = [dest EXCEPT ![p] = Torn]
          /\ read' = [read EXCEPT ![p] = worktree[p]]
          /\ cur' = p
          /\ todo' = todo \ {p}
          /\ UNCHANGED <<files, sha>>
  /\ UNCHANGED <<repo, manifest, still, copied, locals, kills>>

Fill ==
  /\ pc = "fill"
  /\ dest' = [dest EXCEPT ![cur] = read[cur]]
  /\ pc' = "hash"
  /\ UNCHANGED <<repo, manifest, run, still, copied, locals, kills>>

\* Hash, faulty: taken before the copy is written.
HashUnwritten ==
  /\ pc = "hash"
  /\ files' = [files EXCEPT ![cur] = Torn]
  /\ pc' = "copy"
  /\ UNCHANGED <<repo, dest, manifest, todo, cur, sha, read, still, copied, locals, kills>>

\* _sha256(target)
Hash ==
  /\ pc = "hash"
  /\ files' = [files EXCEPT ![cur] = dest[cur]]
  /\ pc' = "copy"
  /\ UNCHANGED <<repo, dest, manifest, todo, cur, sha, read, still, copied, locals, kills>>

\* _runtime_sha, when all is copied.
Pin(s) ==
  /\ pc = "copy" /\ todo = {}
  /\ sha' = s
  /\ pc' = "pin"
  /\ UNCHANGED <<repo, dest, manifest, todo, cur, files, read, still, copied, locals, kills>>

\* The manifest is opened, which empties it, and then written.
OpenManifest ==
  /\ pc = "pin"
  /\ manifest' = Torn
  /\ pc' = "write"
  /\ UNCHANGED <<repo, dest, run, still, copied, locals, kills>>

WriteManifest ==
  /\ pc = "write"
  /\ manifest' = [runtimeSha |-> sha, files |-> files]
  /\ copied' = [tree |-> read, still |-> still]
  /\ pc' = "idle"
  /\ UNCHANGED <<repo, dest, run, still, locals, kills>>

Kill ==
  /\ pc # "idle"
  /\ kills < MaxKills
  /\ pc' = "idle"
  /\ kills' = kills + 1
  /\ UNCHANGED <<repo, dest, manifest, run, still, copied, locals>>

-----------------------------------------------------------------------------
Init ==
  /\ worktree \in {t \in Trees : \A p \in Paths :
                                 /\ p \in Bundle => t[p] # Absent
                                 /\ p \in Strays => t[p] = Absent}
  /\ commits = <<worktree>>
  /\ head = 1
  /\ dest = NoFiles /\ manifest = Absent
  /\ pc = "idle" /\ todo = {} /\ cur = (CHOOSE p \in Bundle : TRUE) /\ sha = Unknown
  /\ files = NoFiles /\ read = NoFiles
  /\ still = FALSE
  /\ copied = [tree |-> NoFiles, still |-> FALSE]
  /\ edits = 0 /\ locals = 0 /\ kills = 0

Develop ==
  \/ \E p \in Bundle, c \in Contents \cup {Absent} : Edit(p, c)
  \/ Commit
  \/ \E c \in 1 .. Len(commits) : Checkout(c)

Tamper == \E p \in Paths, c \in Contents \cup {Absent} : Local(p, c)

Advance ==
  \/ \E p \in Paths : RemoveFile(p) \/ Open(p)
  \/ RemoveManifest \/ List
  \/ Fill \/ Hash
  \/ Pin(head) \/ Pin(Unknown)
  \/ OpenManifest \/ WriteManifest

Next == Develop \/ Tamper \/ Start \/ Advance \/ Kill

Spec == Init /\ [][Next]_vars

\* A run that is not killed goes on, a tree that does not verify is vendored
\* again.
Fairness ==
  /\ WF_vars(Advance)
  /\ WF_vars(~ Verified /\ Start)

FairSpec == Spec /\ Fairness
-----------------------------------------------------------------------------
(* Properties.                                                             *)

Places == {"idle", "remove", "copy", "fill", "hash", "pin", "write"}
Versions == Nat \cup {Unknown}
Found == [Paths -> Contents \cup {Absent, Torn}]

\* Every variable has its type.
TypeOK ==
  /\ worktree \in Trees
  /\ commits \in Seq(Trees)
  /\ head \in DOMAIN commits
  /\ dest \in Found
  /\ manifest \in [runtimeSha : Versions, files : Found] \cup {Absent, Torn}
  /\ pc \in Places
  /\ todo \subseteq Bundle
  /\ cur \in Bundle
  /\ files \in Found
  /\ sha \in Versions
  /\ read \in Trees
  /\ still \in BOOLEAN
  /\ copied \in [tree : Trees, still : BOOLEAN]
  /\ edits \in 0 .. MaxEdits /\ locals \in 0 .. MaxLocals /\ kills \in 0 .. MaxKills

\* A tree that verifies is, outside the excluded places, what the last complete
\* run copied, all of it and nothing else: no run that failed or was killed, in
\* the middle of the removal of an older tree or of a copy, and no change by
\* hand leaves another tree that verifies.
VerifiedIsWhole ==
  Verified => \A p \in Paths \ Caches : dest[p] = copied.tree[p]

\* The pin is true if the repository was left alone during the run and had no
\* changes that are not committed: the verified tree is the bundle of the commit
\* the manifest names, although the commit is read after the files.
PinIsTrue ==
  Verified /\ copied.still /\ manifest.runtimeSha # Unknown =>
    \A p \in Bundle : dest[p] = commits[manifest.runtimeSha][p]

\* Whatever happens to the copy, it always verifies again later on, once vendored
\* again, if from some time on the worktree is never without a file of the bundle.
VendoringRepairs ==
  <>[](\A p \in Bundle : worktree[p] # Absent) => []<>Verified
=============================================================================
