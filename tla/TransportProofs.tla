--------------------------- MODULE TransportProofs ---------------------------
(***************************************************************************)
(* What one transport directory promises (Transport), for every set of     *)
(* agents and spawn orders and for every bound on lines and crashes.       *)
(*                                                                         *)
(* The invariants of the directory carry each other: a line is about the   *)
(* stored spawn order because transport-init refuses to replace one that   *)
(* has lines, a stored result that is ok is about it because it needs      *)
(* lines, and it replays because nothing but a line can change the merge.  *)
(***************************************************************************)
EXTENDS Transport, CollectProofs

-----------------------------------------------------------------------------
(* What the host reports.                                                  *)

LEMMA SpawnOrderIs ==
  ASSUME NEW s \in SpawnOrders
  PROVE  s \in Seq(Spec) /\ s # <<>> /\ Distinct(s) /\ 1 \in DOMAIN s
<1>1. s \in Seq(Spec) /\ s # <<>> /\ Distinct(s)
  BY SpawnAssumption DEF Distinct
<1>2. QED
  BY <1>1

\* A batch is about agents of the spawn order alone.
LEMMA ReportIs ==
  ASSUME NEW s \in SpawnOrders, NEW b \in Reports(s)
  PROVE  b \in Batches /\ b.kind = "batch" /\ DOMAIN b.status \subseteq IdsOf(s)
<1>1. /\ \A i \in DOMAIN s : s[i].id \in Agents /\ s[i].persona \in Personas
      /\ \A i \in DOMAIN s : s[i].id \in IdsOf(s)
  <2>1. \A i \in DOMAIN s : s[i] \in Spec
    BY SpawnOrderIs
  <2>2. QED
    BY <2>1 DEF Spec, IdsOf
<1>2. b.kind = "batch"
  BY DEF Reports
<1>3. CASE b.status = <<>>
  <2>1. DOMAIN b.status = {} /\ b.status \in [{} -> Entry]
    BY <1>3
  <2>2. b.status \in Statuses
    BY <2>1 DEF Statuses
  <2>3. b \in Batches
    BY <2>2 DEF Reports, Batches, Statuses
  <2>4. QED
    BY <1>2, <2>1, <2>3
<1>4. CASE b.status # <<>>
  <2>1. PICK i \in DOMAIN s :
          b.status \in [{s[i].id} -> {[kind |-> "ok", who |-> s[i].persona, val |-> v] :
                                        v \in Values} \cup {Unparsed("incomplete")}]
    BY <1>4 DEF Reports
  <2>2. Unparsed("incomplete") \in Entry
    BY DEF Unparsed, Entry
  <2>3. \A v \in Values : [kind |-> "ok", who |-> s[i].persona, val |-> v] \in Entry
    BY <1>1 DEF Entry
  <2>4. b.status \in [{s[i].id} -> Entry]
    BY <2>1, <2>2, <2>3
  <2>5. DOMAIN b.status = {s[i].id} /\ {s[i].id} \in SUBSET Agents
    BY <1>1, <2>1
  <2>6. b.status \in Statuses
    BY <2>4, <2>5 DEF Statuses
  <2>7. b \in Batches
    BY <2>6 DEF Reports, Batches, Statuses
  <2>8. QED
    BY <1>1, <1>2, <2>5, <2>7
<1>5. QED
  BY <1>3, <1>4

-----------------------------------------------------------------------------
(* What transport-collect reads.                                           *)

\* The lines are sequences of anything; what is read of them are their batches.
LEMMA ReadableIs ==
  ASSUME NEW ls \in Seq(Recorded)
  PROVE  /\ Readable(ls) \in Seq(Batches)
         /\ \A j \in DOMAIN Readable(ls) :
              \E n \in DOMAIN ls : Readable(ls)[j] = ls[n].batch
<1> DEFINE N == Len(ls)
           Read == {ls[n].batch : n \in DOMAIN ls}
           F == [p \in (1 .. N) \X Seq(Read) |-> ReadLine(p[2], ls[p[1]])]
           Is(g) == g = [n \in 0 .. N |-> IF n = 0 THEN <<>>
                                           ELSE ReadLine(g[n - 1], ls[n])]
           G == CHOOSE g : Is(g)
<1>1. N \in Nat /\ DOMAIN ls = 1 .. N /\ \A n \in 1 .. N : ls[n] \in Recorded
  OBVIOUS
<1>2. \A n \in 1 .. N : ls[n].batch \in Read
  BY <1>1
<1>3. \A q \in Seq(Read) : \A n \in 1 .. N : ReadLine(q, ls[n]) \in Seq(Read)
  <2> HIDE DEF Read
  <2>1. QED
    BY <1>2, AppendIn DEF ReadLine
<1>4. F \in [(1 .. N) \X Seq(Read) -> Seq(Read)]
  <2> HIDE DEF N, Read
  <2>1. QED
    BY <1>3
<1>5. <<>> \in Seq(Read)
  OBVIOUS
<1>6. PICK g \in [0 .. N -> Seq(Read)] : Recursive(g, N, <<>>, F)
  <2>1. N \in Nat
    OBVIOUS
  <2> HIDE DEF F, N, Read
  <2>2. QED
    BY <1>4, <1>5, <2>1, Recursion, Zenon
<1>7. g[0] = <<>> /\ \A n \in 1 .. N : g[n] = ReadLine(g[n - 1], ls[n])
  <2>1. \A n \in 1 .. N : n - 1 \in 0 .. N
    BY <1>1
  <2> HIDE DEF N, Read
  <2>2. QED
    BY <1>6, <2>1 DEF Recursive
<1>8. Is(g)
  <2> HIDE DEF N, Read
  <2>1. QED
    BY <1>1, <1>6, <1>7
<1>9. Is(G)
  BY <1>8, Zenon
<1>10. Readable(ls) = G[N]
  BY Zenon DEF Readable
<1> HIDE DEF G
<1>11. G[0] = <<>> /\ \A n \in 1 .. N : G[n] = ReadLine(G[n - 1], ls[n])
  <2> HIDE DEF N
  <2>1. QED
    BY <1>1, <1>9
<1> DEFINE T == {n \in 0 .. N : G[n] \in Seq(Read)}
<1>12. 0 \in T
  <2>1. 0 \in 0 .. N
    BY <1>1
  <2> HIDE DEF N, Read
  <2>2. QED
    BY <1>5, <1>11, <2>1
<1>13. ASSUME NEW n \in 0 .. (N - 1), n \in T PROVE n + 1 \in T
  <2>1. n + 1 \in 1 .. N /\ n + 1 \in 0 .. N /\ (n + 1) - 1 = n
    BY <1>1
  <2>2. G[n + 1] = ReadLine(G[n], ls[n + 1])
    BY <1>11, <2>1
  <2>3. G[n] \in Seq(Read)
    BY <1>13
  <2>4. G[n + 1] \in Seq(Read)
    <3> HIDE DEF Read, N, T
    <3>1. QED
      BY <1>3, <2>1, <2>2, <2>3
  <2>5. QED
    BY <2>1, <2>4
<1>14. 0 .. N \subseteq T
  <2> HIDE DEF T, N
  <2>1. QED
    BY <1>1, <1>12, <1>13, UpTo
<1>15. Readable(ls) \in Seq(Read)
  <2>1. N \in 0 .. N
    BY <1>1
  <2>2. QED
    BY <1>10, <1>14, <2>1
<1>16. Read \subseteq Batches
  <2>1. \A n \in DOMAIN ls : ls[n].batch \in Batches
    BY <1>1, ReportIs DEF Recorded
  <2>2. QED
    BY <2>1
<1>17. \A j \in DOMAIN Readable(ls) : Readable(ls)[j] \in Read
  <2> HIDE DEF Read
  <2>1. QED
    BY <1>15
<1>18. Readable(ls) \in Seq(Batches)
  <2> HIDE DEF Read
  <2>1. QED
    BY <1>15, <1>16
<1>19. QED
  BY <1>17, <1>18


-----------------------------------------------------------------------------
(* What an ok result binds.                                                *)

\* With batches about spawned agents alone there is nothing to fall back on: each
\* spawned agent is answered for by a report of its own.
LEMMA OkMergeBindsReports ==
  ASSUME NEW s \in Seq(Spec), NEW bs \in Seq(Batches),
         \A n \in DOMAIN bs : DOMAIN bs[n].status \subseteq IdsOf(s),
         Merge(s, bs).ok, NEW i \in DOMAIN s
  PROVE  \E n \in DOMAIN bs :
           /\ s[i].id \in DOMAIN bs[n].status
           /\ bs[n].status[s[i].id] = Merge(s, bs).results[i].payload
<1> DEFINE g == Gather(bs)
           N == Len(bs)
           r == Merge(s, bs).results[i]
<1>1. PICK b \in BindState :
             /\ BoundKept(s, g, Len(s), b)
             /\ Merge(s, bs).results = b.results
             /\ b.missing = <<>> /\ b.errors = {}
  BY MergeIs
<1>2. g \in GatherState /\ Kept(bs, N, g)
  BY GatherIs
<1>3. DOMAIN s = 1 .. Len(s) /\ DOMAIN bs = 1 .. N
  OBVIOUS
<1>4. Len(b.results) = Len(s) /\ AnswersFor(s, i, r)
  BY <1>1, <1>3 DEF BoundKept
<1>5. i \in DOMAIN b.results
  <2>1. b.results \in Seq(Results)
    BY DEF BindState
  <2>2. QED
    BY <1>3, <1>4, <2>1
<1>6. Rightful(s, g.status, Len(s), r, b.consumed)
  BY <1>1, <1>5 DEF BoundKept
<1>7. r.agent \in DOMAIN g.status /\ r.payload = g.status[r.agent]
  BY <1>6 DEF Rightful, Completed
<1>8. r.agent \in Agents
  BY <1>2, <1>7, StatusIs DEF GatherState
<1>9. r.payload \in Heard(bs, N, r.agent)
  BY <1>2, <1>7, <1>8 DEF Kept, AgentKept
<1>10. PICK n \in 1 .. N : r.agent \in DOMAIN bs[n].status /\ bs[n].status[r.agent] = r.payload
  BY <1>9 DEF Heard, About
<1>11. r.agent \in IdsOf(s)
  BY <1>3, <1>10
<1>12. r.agent = s[i].id
  BY <1>4, <1>11 DEF AnswersFor
<1>13. QED
  BY <1>3, <1>10, <1>12

-----------------------------------------------------------------------------
(* The invariant.                                                          *)

\* transport-init works for the agents of the host, in the order of its writes.
InitOrder ==
  /\ next # "idle" => live # NoFile /\ spawnFile = live
  /\ next = "waits" => hostFile # NoFile
  /\ ready => live # NoFile /\ spawnFile = live
  /\ waits # NoFile => NoFile \notin {spawnFile, hostFile}
  /\ result # NoFile => spawnFile # NoFile
  /\ merged <= Len(Lines)

\* Without new lines the files merge to the stored result.
StoredMerge ==
  result # NoFile /\ result.merge.ok /\ AllWhole(Lines) /\ Len(Lines) = merged
    => result.merge = Merge(spawnFile, Readable(Lines))

TransportInv ==
  TypeOK /\ InitOrder /\ BatchesMatchSpawn /\ OkResultIsCurrent /\ StoredMerge
    /\ LossIsVisible

LEMMA InitTransportInv == Init => TransportInv
<1> SUFFICES ASSUME Init PROVE TransportInv
  OBVIOUS
<1>1. Lines = <<>> /\ waits = NoFile /\ result = NoFile /\ acked = {} /\ merged = 0
      /\ spawnFile = NoFile /\ hostFile = NoFile /\ live = NoFile /\ next = "idle"
      /\ ready = FALSE /\ open = FALSE /\ crashes = 0
  BY DEF Init, Lines
<1>2. DOMAIN Lines = {} /\ Len(Lines) = 0
  BY <1>1
<1>3. TypeOK
  <2>1. open \in BOOLEAN /\ ready \in BOOLEAN
    BY <1>1
  <2>2. merged \in 0 .. MaxLines /\ crashes \in 0 .. MaxCrashes
    BY <1>1, BoundsAssumption
  <2>3. QED
    BY <1>1, <1>2, <2>1, <2>2, Zenon DEF TypeOK
<1>4. QED
  BY <1>1, <1>2, <1>3 DEF TransportInv, InitOrder, BatchesMatchSpawn, OkResultIsCurrent,
                         StoredMerge, LossIsVisible

\* The lines are a sequence of at most MaxLines records, file or no file.
LEMMA LinesType ==
  ASSUME TypeOK
  PROVE  /\ Lines \in Seq(Recorded) /\ Len(Lines) \in 0 .. MaxLines
         /\ DOMAIN Lines = 1 .. Len(Lines)
         /\ waits # NoFile => Lines = waits
<1>1. Lines \in Seq(Recorded)
  BY DEF TypeOK, Lines
<1>2. Len(Lines) <= MaxLines
  BY BoundsAssumption DEF TypeOK, Lines
<1>3. QED
  BY <1>1, <1>2, BoundsAssumption DEF Lines

\* An ok result has lines to come from.
LEMMA OkHasLines ==
  ASSUME TypeOK, OkResultIsCurrent, result # NoFile, result.merge.ok,
         spawnFile # NoFile
  PROVE  Lines # <<>>
<1>1. spawnFile \in SpawnOrders
  BY DEF TypeOK
<1>2. 1 \in DOMAIN spawnFile
  BY <1>1, SpawnOrderIs
<1>3. QED
  BY <1>2 DEF OkResultIsCurrent


-----------------------------------------------------------------------------
(* The steps.                                                              *)

Contents == BatchesMatchSpawn /\ OkResultIsCurrent /\ StoredMerge /\ LossIsVisible

\* Where the lines and the stored result stay, and the spawn order too unless
\* there are no lines, what they say of each other stays.
LEMMA ContentsKept ==
  ASSUME TransportInv, Lines' = Lines, result' = result, merged' = merged,
         acked' = acked, spawnFile' = spawnFile \/ Lines = <<>>
  PROVE  Contents'
<1>1. BatchesMatchSpawn'
  BY DEF TransportInv, BatchesMatchSpawn
<1>2. LossIsVisible'
  BY DEF TransportInv, LossIsVisible, AllWhole
<1>3. result # NoFile /\ result.merge.ok => spawnFile' = spawnFile
  <2>1. result # NoFile => spawnFile # NoFile
    BY DEF TransportInv, InitOrder
  <2>2. QED
    BY <2>1, OkHasLines DEF TransportInv
<1>4. OkResultIsCurrent'
  BY <1>3 DEF TransportInv, OkResultIsCurrent
<1>5. StoredMerge'
  BY <1>3 DEF TransportInv, StoredMerge, AllWhole
<1>6. QED
  BY <1>1, <1>2, <1>4, <1>5 DEF Contents

\* A write at the end of the file keeps what its lines are about, and what it
\* leaves whole throughout is the file and one more line.
LEMMA ExtendedIs ==
  ASSUME TypeOK, NEW line \in Recorded, Len(Lines) < MaxLines
  PROVE  /\ Extended(line) \in Seq(Recorded) /\ Len(Extended(line)) <= MaxLines
         /\ Extended(line) # <<>> /\ Len(Lines) <= Len(Extended(line))
         /\ \A i \in DOMAIN Lines :
              /\ i \in DOMAIN Extended(line)
              /\ Extended(line)[i].batch = Lines[i].batch
              /\ Extended(line)[i].of = Lines[i].of
         /\ \A i \in DOMAIN Extended(line) : i \in DOMAIN Lines \/ Extended(line)[i] = line
         /\ AllWhole(Extended(line)) =>
              /\ ~ open /\ Len(Extended(line)) = Len(Lines) + 1
              /\ Extended(line)[Len(Lines) + 1] = line
              /\ \A i \in DOMAIN Lines : Extended(line)[i] = Lines[i]
<1> DEFINE ls == Lines
           n == Len(ls)
           after == Extended(line)
<1>1. ls \in Seq(Recorded) /\ n \in Nat /\ DOMAIN ls = 1 .. n /\ n < MaxLines
  BY LinesType
<1>2. MaxLines \in Nat
  BY BoundsAssumption
<1>3. CASE open
  <2> DEFINE last == [ls[n] EXCEPT !.whole = FALSE]
  <2>1. ls # <<>>
    BY <1>3 DEF TypeOK
  <2>2. n \in 1 .. n
    <3> HIDE DEF ls
    <3>1. QED
      BY <1>1, <2>1
  <2>3. ls[n] \in Recorded
    <3> HIDE DEF ls
    <3>1. QED
      BY <1>1, <2>2
  <2>4. /\ last \in Recorded /\ last.whole = FALSE
        /\ last.batch = ls[n].batch /\ last.of = ls[n].of
    <3> HIDE DEF ls, n
    <3>1. QED
      BY <2>3 DEF Recorded
  <2>5. after = [ls EXCEPT ![n] = last]
    BY <1>3 DEF Extended
  <2> HIDE DEF ls, n, last, after
  <2>6. DOMAIN after = 1 .. n /\ after[n] = last /\ \A i \in 1 .. n : i # n => after[i] = ls[i]
    BY <1>1, <2>2, <2>5
  <2>7. after \in Seq(Recorded) /\ Len(after) = n
    <3>1. after = [i \in 1 .. n |-> after[i]]
      BY <1>1, <2>5
    <3>2. \A i \in 1 .. n : after[i] \in Recorded
      BY <1>1, <2>4, <2>6
    <3>3. [i \in 1 .. n |-> after[i]] \in Seq(Recorded)
      BY <1>1, <3>2
    <3>4. QED
      BY <1>1, <2>6, <3>1, <3>3
  <2>8. ~ AllWhole(after)
    BY <2>2, <2>4, <2>6 DEF AllWhole
  <2>9. \A i \in 1 .. n : after[i].batch = ls[i].batch /\ after[i].of = ls[i].of
    BY <2>4, <2>6
  <2>10. after # <<>>
    BY <2>2, <2>6
  <2>11. QED
    <3>1. \A i \in DOMAIN ls : /\ i \in DOMAIN after
                               /\ after[i].batch = ls[i].batch /\ after[i].of = ls[i].of
      BY <1>1, <2>6, <2>9
    <3>2. Len(after) <= MaxLines /\ n <= Len(after) /\ \A i \in DOMAIN after : i \in DOMAIN ls
      BY <1>1, <1>2, <2>6, <2>7
    <3>3. QED
      BY <2>7, <2>8, <2>10, <3>1, <3>2, Zenon DEF after, n, ls
<1>4. CASE ~ open
  <2>1. after = Append(ls, line)
    BY <1>4 DEF Extended
  <2> HIDE DEF ls, n, after
  <2>2. /\ after \in Seq(Recorded) /\ Len(after) = n + 1 /\ DOMAIN after = 1 .. (n + 1)
        /\ after[n + 1] = line /\ \A i \in 1 .. n : after[i] = ls[i]
    BY <1>1, <2>1 DEF n
  <2>3. \A i \in 1 .. (n + 1) : i \in 1 .. n \/ i = n + 1
    BY <1>1
  <2>4. after # <<>> /\ \A i \in 1 .. n : i \in 1 .. (n + 1)
    BY <1>1, <2>2
  <2>5. QED
    BY <1>1, <1>2, <1>4, <2>2, <2>3, <2>4 DEF after, n, ls
<1>5. QED
  BY <1>3, <1>4


\* Whatever a write at the end of the file leaves there.
LEMMA WriteKeepsInv ==
  ASSUME TransportInv, NEW line \in Recorded, line.batch \in Reports(line.of),
         line.of = live, ready, Len(Lines) < MaxLines, waits' = Extended(line),
         UNCHANGED <<spawnFile, hostFile, result, next, live, ready, merged>>,
         acked' = acked \/ acked' = acked \cup {line},
         open' \in BOOLEAN, crashes' \in 0 .. MaxCrashes
  PROVE  TransportInv'
<1> DEFINE n == Len(Lines)
           after == Extended(line)
<1>1. TypeOK /\ InitOrder /\ Contents
  BY DEF TransportInv, Contents
<1>2. /\ after \in Seq(Recorded) /\ Len(after) <= MaxLines
      /\ after # <<>> /\ n <= Len(after)
      /\ \A i \in DOMAIN Lines : /\ i \in DOMAIN after
                                 /\ after[i].batch = Lines[i].batch
                                 /\ after[i].of = Lines[i].of
      /\ \A i \in DOMAIN after : i \in DOMAIN Lines \/ after[i] = line
      /\ AllWhole(after) =>
           /\ ~ open /\ Len(after) = n + 1 /\ after[n + 1] = line
           /\ \A i \in DOMAIN Lines : after[i] = Lines[i]
  BY <1>1, ExtendedIs
<1>3. waits' # NoFile /\ Lines' = after
  BY <1>2, NoFileAssumption DEF Lines
<1>4. n \in Nat /\ DOMAIN Lines = 1 .. n /\ DOMAIN after = 1 .. Len(after)
  BY <1>1, <1>2, LinesType
<1> HIDE DEF n, after
<1>5. TypeOK'
  <2>1. \A i \in DOMAIN after : after[i].batch \in Reports(after[i].of)
    BY <1>1, <1>2 DEF TypeOK
  <2>2. acked' \subseteq Recorded
    BY <1>1 DEF TypeOK
  <2>3. (waits' \in Seq(Recorded) /\ Len(waits') <= MaxLines) /\ NoFile \notin {waits'}
    BY <1>2, <1>3 DEF after
  <2>4. ready' \in BOOLEAN /\ (ready' => NoFile \notin {spawnFile', hostFile', waits'})
    BY <1>1, <2>3 DEF TypeOK
  <2>5. open' => Lines' # <<>>
    BY <1>2, <1>3
  <2>6. {spawnFile', hostFile', live'} \subseteq SpawnOrders \cup {NoFile}
        /\ next' \in {"idle", "host", "waits"} /\ merged' \in 0 .. MaxLines
    BY <1>1 DEF TypeOK
  <2>7. QED
    BY <1>3, <2>1, <2>2, <2>3, <2>4, <2>5, <2>6, Zenon DEF TypeOK
<1>6. InitOrder'
  <2>1. merged' <= Len(Lines')
    <3>1. merged \in Nat /\ merged <= n /\ Len(after) \in Nat
      BY <1>1, <1>2, BoundsAssumption DEF TypeOK, InitOrder, n
    <3>2. n <= Len(after) /\ merged' = merged
      BY <1>2
    <3> DEFINE m == Len(after)
    <3>3. m \in Nat /\ n <= m
      BY <3>1, <3>2
    <3> HIDE DEF m
    <3>4. merged <= m
      BY <1>4, <3>1, <3>3
    <3>5. QED
      BY <1>3, <3>2, <3>4 DEF m
  <2>2. waits' # NoFile => NoFile \notin {spawnFile', hostFile'}
    BY <1>1 DEF TypeOK
  <2>3. QED
    BY <1>1, <2>1, <2>2 DEF InitOrder
<1>7. BatchesMatchSpawn'
  <2>1. spawnFile = live
    BY <1>1 DEF InitOrder
  <2>2. QED
    BY <1>1, <1>2, <1>3, <2>1 DEF Contents, BatchesMatchSpawn
<1>8. OkResultIsCurrent'
  BY <1>1, <1>2, <1>3 DEF Contents, OkResultIsCurrent
<1>9. StoredMerge'
  <2>1. merged \in Nat /\ merged <= n
    BY <1>1, BoundsAssumption DEF TypeOK, InitOrder, n
  <2>2. AllWhole(after) => Len(after) # merged
    BY <1>2, <1>4, <2>1
  <2>3. QED
    BY <1>3, <2>2 DEF StoredMerge
<1>10. LossIsVisible'
  <2>1. SUFFICES ASSUME AllWhole(after), NEW a \in acked'
        PROVE  \E i \in DOMAIN after : after[i] = a
    BY <1>3 DEF LossIsVisible
  <2>2. AllWhole(Lines)
    BY <1>2, <2>1 DEF AllWhole
  <2>3. CASE a \in acked
    BY <1>1, <1>2, <2>1, <2>2, <2>3 DEF Contents, LossIsVisible
  <2>4. CASE a = line
    <3>1. n + 1 \in DOMAIN after /\ after[n + 1] = line
      BY <1>2, <1>4, <2>1
    <3>2. QED
      BY <2>4, <3>1
  <2>5. QED
    BY <2>3, <2>4
<1>11. QED
  BY <1>5, <1>6, <1>7, <1>8, <1>9, <1>10 DEF TransportInv


LEMMA LineIs ==
  ASSUME live \in SpawnOrders, NEW b \in Reports(live), NEW whole \in BOOLEAN
  PROVE  /\ Line(b, whole) \in Recorded
         /\ Line(b, whole).batch = b /\ Line(b, whole).of = live
<1>1. b \in UNION {Reports(s) : s \in SpawnOrders}
  OBVIOUS
<1>2. QED
  BY <1>1 DEF Line, Recorded

\* transport-collect: a result that says ok is about what it has read.
LEMMA CollectKeepsInv == TransportInv /\ CollectStep => TransportInv'
<1> SUFFICES ASSUME TransportInv, CollectStep PROVE TransportInv'
  OBVIOUS
<1> DEFINE bs == Readable(Lines)
           m == Merge(spawnFile, bs)
<1>1. TypeOK /\ InitOrder /\ BatchesMatchSpawn /\ LossIsVisible
  BY DEF TransportInv
<1>2. /\ NoFile \notin {spawnFile, waits} /\ result' = [of |-> spawnFile, merge |-> m]
      /\ merged' = Len(Lines) /\ Lines' = Lines
      /\ UNCHANGED <<spawnFile, hostFile, waits, open, next, live, ready, acked, crashes>>
  BY DEF CollectStep, host, Lines
<1>3. result'.of = spawnFile /\ result'.merge = m
  <2> HIDE DEF m
  <2>1. QED
    BY <1>2
<1>4. spawnFile \in SpawnOrders
  BY <1>1, <1>2 DEF TypeOK
<1>5. spawnFile \in Seq(Spec)
  BY <1>4, SpawnOrderIs
<1>6. Lines \in Seq(Recorded) /\ Len(Lines) \in 0 .. MaxLines
  BY <1>1, LinesType
<1>7. bs \in Seq(Batches) /\ \A j \in DOMAIN bs : \E n \in DOMAIN Lines : bs[j] = Lines[n].batch
  BY <1>6, ReadableIs
<1>8. \A n \in DOMAIN Lines : DOMAIN Lines[n].batch.status \subseteq IdsOf(spawnFile)
  BY <1>1, <1>4, ReportIs DEF TypeOK, BatchesMatchSpawn
<1>9. \A j \in DOMAIN bs : DOMAIN bs[j].status \subseteq IdsOf(spawnFile)
  <2> HIDE DEF bs
  <2>1. QED
    BY <1>7, <1>8
<1>10. ASSUME m.ok, NEW i \in DOMAIN spawnFile
       PROVE  \E n \in DOMAIN Lines :
                LET status == Lines[n].batch.status
                IN  /\ status # <<>> /\ spawnFile[i].id \in DOMAIN status
                    /\ status[spawnFile[i].id] = m.results[i].payload
  <2>1. PICK j \in DOMAIN bs : /\ spawnFile[i].id \in DOMAIN bs[j].status
                               /\ bs[j].status[spawnFile[i].id] = m.results[i].payload
    <3> HIDE DEF bs
    <3>1. QED
      BY <1>5, <1>7, <1>9, <1>10, OkMergeBindsReports
  <2>2. bs[j].status # <<>>
    BY <2>1
  <2>3. PICK n \in DOMAIN Lines : bs[j] = Lines[n].batch
    BY <1>7
  <2> HIDE DEF bs, m
  <2>4. QED
    BY <2>1, <2>2, <2>3
<1> HIDE DEF bs, m
<1>11. TypeOK'
  BY <1>1, <1>2, <1>6, Zenon DEF TypeOK
<1>12. InitOrder'
  <2>1. merged' <= Len(Lines')
    BY <1>2, <1>6
  <2>2. QED
    BY <1>1, <1>2, <2>1, Zenon DEF InitOrder
<1>13. BatchesMatchSpawn'
  BY <1>1, <1>2 DEF BatchesMatchSpawn
<1>14. OkResultIsCurrent'
  BY <1>2, <1>3, <1>10 DEF OkResultIsCurrent
<1>15. StoredMerge'
  BY <1>2, <1>3 DEF StoredMerge, m, bs
<1>16. LossIsVisible'
  BY <1>1, <1>2 DEF LossIsVisible, AllWhole
<1>17. QED
  BY <1>11, <1>12, <1>13, <1>14, <1>15, <1>16 DEF TransportInv

LEMMA StepTransportInv == TransportInv /\ [Next]_vars => TransportInv'
<1> SUFFICES ASSUME TransportInv, [Next]_vars PROVE TransportInv'
  OBVIOUS
<1>1. TypeOK /\ InitOrder /\ Contents
  BY DEF TransportInv, Contents
<1>2. /\ merged \in Nat /\ merged <= Len(Lines) /\ crashes \in 0 .. MaxCrashes
      /\ MaxCrashes \in Nat
  BY <1>1, BoundsAssumption DEF TypeOK, InitOrder
<1>3. ASSUME NEW s \in SpawnOrders, Spawn(s) PROVE TransportInv'
  <2>1. Lines' = Lines /\ UNCHANGED <<files, next, history, crashes>>
    BY <1>3 DEF Spawn, Lines, files
  <2>2. Contents'
    BY <2>1, ContentsKept DEF files, history
  <2>3. TypeOK'
    <3>1. live' \in SpawnOrders /\ ready' = FALSE /\ ready' \in BOOLEAN
      BY <1>3 DEF Spawn
    <3>2. {spawnFile, hostFile, live'} \subseteq SpawnOrders \cup {NoFile}
      BY <1>1, <3>1 DEF TypeOK
    <3>3. QED
      BY <1>1, <2>1, <3>1, <3>2, Zenon DEF TypeOK, files, history
  <2>4. InitOrder'
    BY <1>1, <1>3, <2>1, NoFileAssumption DEF InitOrder, Spawn, files, history
  <2>5. QED
    BY <2>2, <2>3, <2>4 DEF TransportInv, Contents
<1>4. CASE InitSpawn
  <2>1. /\ Lines' = Lines /\ spawnFile' = live /\ live # NoFile
        /\ UNCHANGED <<hostFile, waits, open, result, live, ready, merged, acked, crashes>>
    BY <1>4 DEF InitSpawn, Lines, host, history
  <2>2. Contents'
    BY <1>4, <2>1, ContentsKept DEF InitSpawn, MayInit
  <2>3. TypeOK'
    BY <1>1, <1>4, <2>1 DEF TypeOK, InitSpawn
  <2>4. InitOrder'
    BY <1>1, <1>4, <2>1 DEF InitOrder, InitSpawn
  <2>5. QED
    BY <2>2, <2>3, <2>4 DEF TransportInv, Contents
<1>5. CASE InitHost
  <2>1. /\ Lines' = Lines
        /\ UNCHANGED <<spawnFile, waits, open, result, live, ready, merged, acked, crashes>>
    BY <1>5 DEF InitHost, Lines, host, history
  <2>2. Contents'
    BY <2>1, ContentsKept
  <2>3. live # NoFile /\ spawnFile = live
    BY <1>1, <1>5 DEF InitOrder, InitHost
  <2>4. TypeOK'
    BY <1>1, <1>5, <2>1, <2>3 DEF TypeOK, InitHost
  <2>5. InitOrder'
    BY <1>1, <1>5, <2>1, <2>3 DEF InitOrder, InitHost
  <2>6. QED
    BY <2>2, <2>4, <2>5 DEF TransportInv, Contents
<1>6. CASE InitWaits
  <2>1. Lines \in Seq(Recorded) /\ Len(Lines) \in 0 .. MaxLines
    BY <1>1, LinesType
  <2>2. /\ waits' = Lines /\ waits' # NoFile /\ Lines' = Lines
        /\ UNCHANGED <<spawnFile, hostFile, open, result, live, merged, acked, crashes>>
    BY <1>6, <2>1, NoFileAssumption DEF InitWaits, Lines, history
  <2>3. Contents'
    BY <2>2, ContentsKept
  <2>4. live # NoFile /\ spawnFile = live /\ hostFile # NoFile
    BY <1>1, <1>6 DEF InitOrder, InitWaits
  <2>5. TypeOK'
    BY <1>1, <1>6, <2>1, <2>2, <2>4 DEF TypeOK, InitWaits
  <2>6. InitOrder'
    BY <1>1, <1>6, <2>2, <2>4 DEF InitOrder, InitWaits
  <2>7. QED
    BY <2>3, <2>5, <2>6 DEF TransportInv, Contents
<1>7. ASSUME live # NoFile, NEW b \in Reports(live), AppendBatch(b) PROVE TransportInv'
  <2> DEFINE line == Line(b, TRUE)
  <2>1. live \in SpawnOrders
    BY <1>1, <1>7 DEF TypeOK
  <2>2. line \in Recorded /\ line.batch = b /\ line.of = live
    BY <2>1, LineIs
  <2>3. /\ ready /\ Len(Lines) < MaxLines /\ waits' = Extended(line) /\ open' = FALSE
        /\ acked' = acked \cup {line}
        /\ UNCHANGED <<spawnFile, hostFile, result, next, live, ready, merged, crashes>>
    BY <1>7 DEF AppendBatch, host
  <2> HIDE DEF line
  <2>4. QED
    BY <1>2, <2>2, <2>3, WriteKeepsInv
<1>8. ASSUME live # NoFile, NEW b \in Reports(live), AppendTorn(b) PROVE TransportInv'
  <2>1. PICK whole \in BOOLEAN : waits' = Extended(Line(b, whole))
    BY <1>8 DEF AppendTorn
  <2> DEFINE line == Line(b, whole)
  <2>2. live \in SpawnOrders
    BY <1>1, <1>8 DEF TypeOK
  <2>3. line \in Recorded /\ line.batch = b /\ line.of = live
    BY <2>2, LineIs
  <2>4. /\ ready /\ Len(Lines) < MaxLines /\ waits' = Extended(line) /\ open' = TRUE
        /\ acked' = acked /\ crashes < MaxCrashes /\ crashes' = crashes + 1
        /\ UNCHANGED <<spawnFile, hostFile, result, next, live, ready, merged>>
    BY <1>8, <2>1 DEF AppendTorn, host, history
  <2>5. crashes' \in 0 .. MaxCrashes
    BY <1>2, <2>4
  <2> HIDE DEF line
  <2>6. QED
    BY <2>3, <2>4, <2>5, WriteKeepsInv
<1>9. CASE CollectStep
  BY <1>9, CollectKeepsInv
<1>10. CASE InitKilled
  <2>1. Lines' = Lines /\ UNCHANGED <<files, host, history>>
    BY <1>10 DEF InitKilled, Lines, files
  <2>2. Contents'
    BY <2>1, ContentsKept DEF files, history
  <2>3. crashes' \in 0 .. MaxCrashes
    BY <1>2, <1>10 DEF InitKilled
  <2>4. TypeOK'
    BY <1>1, <1>10, <2>1, <2>3 DEF TypeOK, InitKilled, files, host, history
  <2>5. InitOrder'
    BY <1>1, <1>10, <2>1 DEF InitOrder, InitKilled, files, host, history
  <2>6. QED
    BY <2>2, <2>4, <2>5 DEF TransportInv, Contents
<1>11. CASE UNCHANGED vars
  <2>1. Lines' = Lines
    BY <1>11 DEF vars, Lines
  <2>2. Contents'
    BY <1>11, <2>1, ContentsKept DEF vars
  <2>3. TypeOK' /\ InitOrder'
    BY <1>1, <1>11, <2>1, Zenon DEF vars, TypeOK, InitOrder
  <2>4. QED
    BY <2>2, <2>3 DEF TransportInv, Contents
<1>12. QED
  BY <1>3, <1>4, <1>5, <1>6, <1>7, <1>8, <1>9, <1>10, <1>11 DEF Next


LEMMA TransportAlways == TransportSpec => []TransportInv
BY InitTransportInv, StepTransportInv, PTL DEF TransportSpec

-----------------------------------------------------------------------------
(* The theorems.                                                           *)

\* Every variable has its type, a line is a report about the agents it names, and
\* what an accepted transport-init promised the host is there.
THEOREM DirectoryTyped == TransportSpec => []TypeOK
BY TransportAlways, PTL DEF TransportInv

\* A phase directory never holds a batch about a spawn order it does not list.
THEOREM BatchesMatchAlways == TransportSpec => []BatchesMatchSpawn
BY TransportAlways, PTL DEF TransportInv

\* A collect-result that says ok has, for each spawned agent on file, a payload
\* which that agent itself reported.
THEOREM OkIsCurrentAlways == TransportSpec => []OkResultIsCurrent
BY TransportAlways, PTL DEF TransportInv

LEMMA Replays == TransportInv => CollectReplays
<1> SUFFICES ASSUME TransportInv, result # NoFile, result.merge.ok, AllWhole(Lines),
                    Len(Lines) = merged
    PROVE  ReplayOk
  BY DEF CollectReplays
<1>1. spawnFile # NoFile
  BY DEF TransportInv, InitOrder
<1>2. Lines # <<>>
  BY <1>1, OkHasLines DEF TransportInv
<1>3. waits # NoFile
  BY <1>2 DEF Lines
<1>4. hostFile # NoFile
  BY <1>3 DEF TransportInv, InitOrder
<1>5. result.merge = Merge(spawnFile, Readable(Lines))
  BY DEF TransportInv, StoredMerge
<1>6. QED
  BY <1>1, <1>3, <1>4, <1>5 DEF ReplayOk

\* adapter-smoke accepts an ok collect-result that nothing was recorded after, no
\* matter what was re-initialized or killed since.
THEOREM CollectReplaysAlways == TransportSpec => []CollectReplays
BY TransportAlways, Replays, PTL

\* An acknowledged batch is on file unless some line does not parse.
THEOREM LossIsVisibleAlways == TransportSpec => []LossIsVisible
BY TransportAlways, PTL DEF TransportInv
=============================================================================
