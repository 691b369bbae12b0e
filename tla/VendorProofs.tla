---------------------------- MODULE VendorProofs ----------------------------
(***************************************************************************)
(* Proofs about Vendor: a tree that verifies is what the last complete run *)
(* copied, and the pin is true if the repository was left alone.           *)
(***************************************************************************)
EXTENDS Vendor, TLAPS

Copying == {"copy", "fill", "hash", "pin", "write"}

\* While a bundle is copied there is no manifest to verify against.
ManifestComesLast == pc \in Copying => ~ Manifested

\* The hashes are those of the sources that were read, the current one excepted.
HashesAreOfTheCopies ==
  pc \in Copying =>
    /\ \A p \in Paths : files[p] = read[p] \/ (p = cur /\ pc \in {"fill", "hash"})
    /\ pc = "hash" => dest[cur] = read[cur]

\* In an undisturbed run the sources are those of the head commit.
StillIsTheCommit ==
  still /\ pc # "idle" =>
    /\ worktree = commits[head]
    /\ pc \in {"copy", "fill", "hash"} =>
         \A p \in Bundle \ todo : read[p] = worktree[p]
    /\ pc \in {"pin", "write"} =>
         sha \in {head, Unknown} /\ \A p \in Bundle : read[p] = worktree[p]

\* A manifest lists what the last complete run copied.
ManifestIsOfTheCopy ==
  Manifested => \A p \in Paths : Listed[p] = copied.tree[p]

\* It names the commit that was copied, if there is one.
PinOfTheCopy ==
  Manifested /\ copied.still /\ manifest.runtimeSha # Unknown =>
    /\ manifest.runtimeSha \in DOMAIN commits
    /\ \A p \in Bundle : copied.tree[p] = commits[manifest.runtimeSha][p]

IInv ==
  /\ TypeOK
  /\ ManifestComesLast
  /\ HashesAreOfTheCopies
  /\ StillIsTheCommit
  /\ ManifestIsOfTheCopy
  /\ PinOfTheCopy

-----------------------------------------------------------------------------
LEMMA InitIInv == Init => IInv
<1> SUFFICES ASSUME Init PROVE IInv
  OBVIOUS
<1>1. /\ worktree \in Trees /\ commits = <<worktree>> /\ head = 1
      /\ manifest = Absent /\ pc = "idle"
  BY DEF Init
<1>2. NoFiles \in Trees /\ NoFiles \in Found
  BY DEF NoFiles, Trees, Found
<1>3. (CHOOSE p \in Bundle : TRUE) \in Bundle
  BY PathsAssumption
<1>4. commits \in Seq(Trees) /\ head \in DOMAIN commits
  BY <1>1
<1>5. /\ cur \in Bundle /\ todo \subseteq Bundle /\ sha \in Versions
      /\ pc \in Places /\ still \in BOOLEAN
      /\ edits \in 0 .. MaxEdits /\ locals \in 0 .. MaxLocals /\ kills \in 0 .. MaxKills
  <2>1. cur \in Bundle /\ todo \subseteq Bundle /\ sha \in Versions
    BY <1>3 DEF Init, Versions
  <2>2. pc \in Places /\ still \in BOOLEAN
    BY DEF Init, Places
  <2>3. edits \in 0 .. MaxEdits /\ locals \in 0 .. MaxLocals /\ kills \in 0 .. MaxKills
    BY BoundsAssumption DEF Init
  <2> QED BY <2>1, <2>2, <2>3
<1>6. dest \in Found /\ files \in Found /\ read \in Trees
      /\ copied \in [tree : Trees, still : BOOLEAN]
  BY <1>2 DEF Init
<1>7. TypeOK
  BY <1>1, <1>4, <1>5, <1>6 DEF TypeOK
<1> QED BY <1>1, <1>7 DEF IInv, ManifestComesLast, HashesAreOfTheCopies,
           StillIsTheCommit, ManifestIsOfTheCopy, PinOfTheCopy, Manifested, Copying

-----------------------------------------------------------------------------
(* Steps of the repository and of the adapter's developers.                *)

\* A step that only adds to the history or changes the worktree.
LEMMA RepoKeeps ==
  ASSUME IInv, TypeOK', Disturb,
         UNCHANGED <<dest, manifest, pc, run, copied>>,
         \A c \in DOMAIN commits : c \in DOMAIN commits' /\ commits'[c] = commits[c]
  PROVE  IInv'
<1> USE DEF run
<1>1. ManifestComesLast' /\ HashesAreOfTheCopies' /\ ManifestIsOfTheCopy'
  BY DEF IInv, ManifestComesLast, HashesAreOfTheCopies, ManifestIsOfTheCopy,
         Manifested, Listed
<1>2. StillIsTheCommit'
  BY DEF Disturb, StillIsTheCommit
<1>3. PinOfTheCopy'
  BY DEF IInv, PinOfTheCopy, Manifested
<1> QED BY <1>1, <1>2, <1>3 DEF IInv

LEMMA EditKeeps ==
  ASSUME IInv, NEW p \in Bundle, NEW c \in Contents \cup {Absent}, Edit(p, c)
  PROVE  IInv'
<1>1. TypeOK'
  BY BoundsAssumption DEF Edit, Disturb, run, IInv, TypeOK, Trees, Bundle, Paths
<1> QED BY <1>1, RepoKeeps DEF Edit

LEMMA CommitKeeps == ASSUME IInv, Commit PROVE IInv'
<1>1. commits \in Seq(Trees) /\ worktree \in Trees /\ commits' = Append(commits, worktree)
  BY DEF Commit, IInv, TypeOK
<1>2. /\ commits' \in Seq(Trees) /\ Len(commits) + 1 \in DOMAIN commits'
      /\ \A c \in DOMAIN commits : c \in DOMAIN commits' /\ commits'[c] = commits[c]
  BY <1>1
<1>3. TypeOK'
  BY <1>1, <1>2 DEF Commit, Disturb, run, IInv, TypeOK
<1> QED BY <1>2, <1>3, RepoKeeps DEF Commit

LEMMA CheckoutKeeps ==
  ASSUME IInv, NEW c \in 1 .. Len(commits), Checkout(c) PROVE IInv'
<1>1. commits \in Seq(Trees)
  BY DEF IInv, TypeOK
<1>2. c \in DOMAIN commits /\ commits[c] \in Trees
  BY <1>1
<1>3. TypeOK'
  BY <1>2 DEF Checkout, Disturb, run, IInv, TypeOK
<1> QED BY <1>3, RepoKeeps DEF Checkout

LEMMA LocalKeeps ==
  ASSUME IInv, NEW p \in Paths, NEW c \in Contents \cup {Absent}, Local(p, c)
  PROVE  IInv'
<1> USE DEF Local, repo, run
<1>1. TypeOK'
  BY BoundsAssumption DEF IInv, TypeOK, Found
<1>2. ManifestComesLast' /\ HashesAreOfTheCopies' /\ StillIsTheCommit'
  BY DEF ManifestComesLast, HashesAreOfTheCopies, StillIsTheCommit, Copying
<1>3. ManifestIsOfTheCopy' /\ PinOfTheCopy'
  BY DEF IInv, ManifestIsOfTheCopy, PinOfTheCopy, Manifested, Listed
<1> QED BY <1>1, <1>2, <1>3 DEF IInv

-----------------------------------------------------------------------------
(* Steps of a run.                                                         *)

\* What a step that writes no manifest leaves of the claims about manifests.
LEMMA ManifestKeeps ==
  ASSUME IInv, UNCHANGED <<commits, copied>>, manifest' = manifest \/ ~ Manifested'
  PROVE  ManifestIsOfTheCopy' /\ PinOfTheCopy'
  BY DEF IInv, ManifestIsOfTheCopy, PinOfTheCopy, Manifested, Listed

LEMMA StartKeeps == ASSUME IInv, Start PROVE IInv'
<1> USE DEF Start, repo, run
<1>1. TypeOK'
  BY DEF IInv, TypeOK, Places
<1>2. ManifestComesLast' /\ HashesAreOfTheCopies' /\ StillIsTheCommit'
  BY DEF ManifestComesLast, HashesAreOfTheCopies, StillIsTheCommit, Copying
<1> QED BY <1>1, <1>2, ManifestKeeps DEF IInv

LEMMA RemoveKeeps ==
  ASSUME IInv, RemoveManifest \/ \E p \in Paths : RemoveFile(p) PROVE IInv'
<1> USE DEF RemoveFile, RemoveManifest, repo, run
<1>1. TypeOK'
  BY DEF IInv, TypeOK, Found
<1>2. ManifestComesLast' /\ HashesAreOfTheCopies'
  BY DEF ManifestComesLast, HashesAreOfTheCopies, Copying
<1>3. StillIsTheCommit'
  BY DEF IInv, StillIsTheCommit
<1>4. manifest' = manifest \/ ~ Manifested'
  BY DEF Manifested
<1> QED BY <1>1, <1>2, <1>3, <1>4, ManifestKeeps DEF IInv

LEMMA ListKeeps == ASSUME IInv, List PROVE IInv'
<1> USE DEF List, repo, run
<1>0. NoFiles \in Trees /\ NoFiles \in Found /\ \A p \in Paths : NoFiles[p] = Absent
  BY DEF NoFiles, Trees, Found
<1>1. TypeOK'
  BY <1>0 DEF IInv, TypeOK, Listing, Places
<1>2. ManifestComesLast'
  BY DEF ManifestComesLast, Manifested
<1>3. HashesAreOfTheCopies'
  <2>1. pc' # "hash" /\ (pc' = "idle" \/ files' = read')
    OBVIOUS
  <2> QED BY ONLY <2>1 DEF HashesAreOfTheCopies, Copying
<1>4. StillIsTheCommit'
  BY <1>0 DEF IInv, StillIsTheCommit, Listing, Bundle, Paths
<1> QED BY <1>1, <1>2, <1>3, <1>4, ManifestKeeps DEF IInv

LEMMA OpenKeeps == ASSUME IInv, NEW p \in Paths, Open(p) PROVE IInv'
<1> USE DEF repo, run
<1>1. CASE worktree[p] = Absent
  <2>1. pc' = "idle" /\ UNCHANGED <<repo, dest, manifest, run, still, copied, locals, kills>>
    BY <1>1 DEF Open
  <2>2. TypeOK'
    BY <2>1 DEF IInv, TypeOK, Places
  <2>3. ManifestComesLast' /\ HashesAreOfTheCopies' /\ StillIsTheCommit'
    BY <2>1 DEF ManifestComesLast, HashesAreOfTheCopies, StillIsTheCommit, Copying
  <2> QED BY <2>1, <2>2, <2>3, ManifestKeeps DEF IInv
<1>2. CASE worktree[p] # Absent
  <2>1. /\ pc = "copy" /\ pc' = "fill" /\ p \in todo
        /\ dest' = [dest EXCEPT ![p] = Torn]
        /\ read' = [read EXCEPT ![p] = worktree[p]]
        /\ cur' = p /\ todo' = todo \ {p}
        /\ UNCHANGED <<repo, manifest, files, sha, still, copied, locals, kills>>
    BY <1>2 DEF Open
  <2>2. TypeOK'
    BY <2>1 DEF IInv, TypeOK, Places, Trees, Found
  <2>3. ManifestComesLast'
    BY <2>1 DEF IInv, ManifestComesLast, Manifested, Copying
  <2>4. HashesAreOfTheCopies'
    BY <2>1 DEF IInv, TypeOK, Trees, HashesAreOfTheCopies, Copying
  <2>5. StillIsTheCommit'
    BY <2>1 DEF IInv, TypeOK, Trees, StillIsTheCommit, Bundle, Paths
  <2> QED BY <2>1, <2>2, <2>3, <2>4, <2>5, ManifestKeeps DEF IInv
<1> QED BY <1>1, <1>2

LEMMA FillKeeps == ASSUME IInv, Fill PROVE IInv'
<1> USE DEF Fill, repo, run
<1>1. TypeOK'
  BY DEF IInv, TypeOK, Places, Trees, Found, Bundle, Paths
<1>2. ManifestComesLast'
  BY DEF IInv, ManifestComesLast, Manifested, Copying
<1>0. pc \in Copying /\ cur \in Paths
  BY DEF IInv, TypeOK, Bundle, Paths, Copying
<1>3. HashesAreOfTheCopies'
  BY <1>0 DEF IInv, TypeOK, Found, HashesAreOfTheCopies
<1>4. StillIsTheCommit'
  BY DEF IInv, StillIsTheCommit
<1> QED BY <1>1, <1>2, <1>3, <1>4, ManifestKeeps DEF IInv

LEMMA HashKeeps == ASSUME IInv, Hash PROVE IInv'
<1> USE DEF Hash, repo, run
<1>1. TypeOK'
  BY DEF IInv, TypeOK, Places, Found, Bundle, Paths
<1>2. ManifestComesLast'
  BY DEF IInv, ManifestComesLast, Manifested, Copying
<1>0. pc \in Copying /\ cur \in Paths
  BY DEF IInv, TypeOK, Bundle, Paths, Copying
<1>3. HashesAreOfTheCopies'
  <2>1. /\ dest[cur] = read[cur]
        /\ \A p \in Paths \ {cur} : files[p] = read[p]
    BY <1>0 DEF IInv, HashesAreOfTheCopies
  <2>2. \A p \in Paths : files'[p] = IF p = cur THEN dest[cur] ELSE files[p]
    BY DEF IInv, TypeOK, Found
  <2>3. /\ pc' # "hash"
        /\ \A p \in Paths : files'[p] = read'[p]
    BY <2>1, <2>2
  <2> QED BY <2>3 DEF HashesAreOfTheCopies
<1>4. StillIsTheCommit'
  BY DEF IInv, StillIsTheCommit
<1> QED BY <1>1, <1>2, <1>3, <1>4, ManifestKeeps DEF IInv

LEMMA PinKeeps == ASSUME IInv, NEW s \in {head, Unknown}, Pin(s) PROVE IInv'
<1> USE DEF Pin, repo, run
<1>1. TypeOK'
  <2>1. s \in Versions
    BY DEF IInv, TypeOK, Versions
  <2> QED BY <2>1 DEF IInv, TypeOK, Places
<1>2. ManifestComesLast'
  BY DEF IInv, ManifestComesLast, Manifested, Copying
<1>3. HashesAreOfTheCopies'
  BY DEF IInv, HashesAreOfTheCopies, Copying
<1>4. StillIsTheCommit'
  BY DEF IInv, StillIsTheCommit
<1> QED BY <1>1, <1>2, <1>3, <1>4, ManifestKeeps DEF IInv

LEMMA OpenManifestKeeps == ASSUME IInv, OpenManifest PROVE IInv'
<1> USE DEF OpenManifest, repo, run
<1>1. TypeOK'
  BY DEF IInv, TypeOK, Places
<1>2. ManifestComesLast' /\ ~ Manifested'
  BY DEF ManifestComesLast, Manifested
<1>3. HashesAreOfTheCopies'
  BY DEF IInv, HashesAreOfTheCopies, Copying
<1>4. StillIsTheCommit'
  BY DEF IInv, StillIsTheCommit
<1> QED BY <1>1, <1>2, <1>3, <1>4, ManifestKeeps DEF IInv

LEMMA WriteManifestKeeps == ASSUME IInv, WriteManifest PROVE IInv'
<1> USE DEF WriteManifest, repo, run
<1>1. TypeOK'
  BY DEF IInv, TypeOK, Places
<1>2. ManifestComesLast' /\ HashesAreOfTheCopies' /\ StillIsTheCommit'
  BY DEF ManifestComesLast, HashesAreOfTheCopies, StillIsTheCommit, Copying
<1>3. ManifestIsOfTheCopy'
  BY DEF IInv, HashesAreOfTheCopies, Copying, ManifestIsOfTheCopy, Listed
<1>4. PinOfTheCopy'
  BY DEF IInv, TypeOK, StillIsTheCommit, PinOfTheCopy
<1> QED BY <1>1, <1>2, <1>3, <1>4 DEF IInv

LEMMA KillKeeps == ASSUME IInv, Kill PROVE IInv'
<1> USE DEF Kill, repo, run
<1>1. TypeOK'
  BY BoundsAssumption DEF IInv, TypeOK, Places
<1>2. ManifestComesLast' /\ HashesAreOfTheCopies' /\ StillIsTheCommit'
  BY DEF ManifestComesLast, HashesAreOfTheCopies, StillIsTheCommit, Copying
<1> QED BY <1>1, <1>2, ManifestKeeps DEF IInv

LEMMA StutterKeeps == ASSUME IInv, UNCHANGED vars PROVE IInv'
<1> USE DEF vars, repo, run
<1>1. TypeOK'
  BY DEF IInv, TypeOK
<1>2. ManifestComesLast' /\ HashesAreOfTheCopies'
  BY DEF IInv, ManifestComesLast, Manifested, HashesAreOfTheCopies
<1>3. StillIsTheCommit'
  BY DEF IInv, StillIsTheCommit
<1> QED BY <1>1, <1>2, <1>3, ManifestKeeps DEF IInv

-----------------------------------------------------------------------------
LEMMA Inductive == Spec => []IInv
<1>1. Init => IInv
  BY InitIInv
<1>2. IInv /\ [Next]_vars => IInv'
  <2> SUFFICES ASSUME IInv, [Next]_vars PROVE IInv'
    OBVIOUS
  <2>1. CASE Develop
    BY <2>1, EditKeeps, CommitKeeps, CheckoutKeeps DEF Develop
  <2>2. CASE Tamper
    BY <2>2, LocalKeeps DEF Tamper
  <2>3. CASE Start
    BY <2>3, StartKeeps
  <2>4. CASE Advance
    BY <2>4, RemoveKeeps, ListKeeps, OpenKeeps, FillKeeps, HashKeeps, PinKeeps,
       OpenManifestKeeps, WriteManifestKeeps DEF Advance
  <2>5. CASE Kill
    BY <2>5, KillKeeps
  <2>6. CASE UNCHANGED vars
    BY <2>6, StutterKeeps
  <2> QED BY <2>1, <2>2, <2>3, <2>4, <2>5, <2>6 DEF Next
<1> QED BY <1>1, <1>2, PTL DEF Spec

-----------------------------------------------------------------------------
\* Every variable has its type.
THEOREM TypeCorrect == Spec => []TypeOK
<1>1. IInv => TypeOK
  BY DEF IInv
<1> QED BY <1>1, Inductive, PTL

\* A tree that verifies is what the last complete run copied, in any repository
\* and after any number of failed, killed and repeated runs.
THEOREM VerifyIsSound == Spec => []VerifiedIsWhole
<1>1. IInv => VerifiedIsWhole
  BY DEF IInv, ManifestIsOfTheCopy, VerifiedIsWhole, Verified
<1> QED BY <1>1, Inductive, PTL

\* The pin of a run that the repository was left alone in is true.
THEOREM PinIsSound == Spec => []PinIsTrue
<1>1. IInv => PinIsTrue
  <2> SUFFICES ASSUME IInv, Verified, copied.still, manifest.runtimeSha # Unknown,
                      NEW p \in Bundle
               PROVE  dest[p] = commits[manifest.runtimeSha][p]
    BY DEF PinIsTrue
  <2>1. p \in Paths \ Caches /\ Manifested
    BY PathsAssumption DEF Paths, Verified
  <2>2. dest[p] = copied.tree[p]
    BY <2>1 DEF IInv, ManifestIsOfTheCopy, Verified
  <2> QED BY <2>1, <2>2 DEF IInv, PinOfTheCopy
<1> QED BY <1>1, Inductive, PTL
=============================================================================
