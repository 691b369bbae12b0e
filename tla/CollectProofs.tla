---------------------------- MODULE CollectProofs ----------------------------
(***************************************************************************)
(* What collect_merge computes, for every spawn order and every sequence   *)
(* of wait batches (Collect).  Both passes are recursive functions of a    *)
(* place in a sequence; the facts about them are proved by induction on    *)
(* that place.  The induction rule and the existence of recursive          *)
(* functions are proved first, from the well-foundedness of the naturals.  *)
(***************************************************************************)
EXTENDS Collect, FiniteSetTheorems, WellFoundedInduction, TLAPS

-----------------------------------------------------------------------------
(* Induction.                                                              *)

LEMMA NatLeast ==
  ASSUME NEW T \in SUBSET Nat, T # {}
  PROVE  \E n \in T : \A m \in T : n <= m
<1> DEFINE Less == {p \in Nat \X Nat : p[1] < p[2]}
<1>1. \E n \in T : \A m \in T : ~ (<<m, n>> \in OpToRel(<, Nat))
  BY NatLessThanWellFounded, WFMin
<1>2. OpToRel(<, Nat) = Less
  BY Zenon DEF OpToRel
<1>3. PICK n \in T : \A m \in T : ~ (<<m, n>> \in Less)
  BY <1>1, <1>2, Zenon
<1>4. ASSUME NEW m \in T PROVE n <= m
  <2>1. ~ (<<m, n>> \in Less)
    BY <1>3, Zenon
  <2>2. m \in Nat /\ n \in Nat
    OBVIOUS
  <2>3. ~ (m < n)
    BY <2>1, <2>2
  <2>4. QED
    BY <2>2, <2>3
<1>5. QED
  BY <1>4

\* A set that holds 0 and, with a number below N, the next one, holds 0 .. N.
LEMMA UpTo ==
  ASSUME NEW N \in Nat, NEW T, 0 \in T,
         \A n \in 0 .. (N - 1) : n \in T => n + 1 \in T
  PROVE  0 .. N \subseteq T
<1> DEFINE Left == {n \in 0 .. N : n \notin T}
<1>1. SUFFICES ASSUME Left # {} PROVE FALSE
  OBVIOUS
<1>2. Left \in SUBSET Nat
  OBVIOUS
<1>3. PICK n \in Left : \A m \in Left : n <= m
  <2> HIDE DEF Left
  <2>1. QED
    BY <1>1, <1>2, NatLeast
<1>4. n # 0 /\ n \in 1 .. N
  BY <1>3
<1>5. n - 1 \in 0 .. (N - 1) /\ n - 1 \notin Left
  BY <1>3, <1>4
<1>6. (n - 1) + 1 \in T
  BY <1>5
<1>7. QED
  BY <1>3, <1>4, <1>6

\* g starts with base and goes on by F.
Recursive(g, N, base, F) ==
  g[0] = base /\ \A n \in 1 .. N : g[n] = F[<<n, g[n - 1]>>]

\* A function can be defined by recursion on a place in a sequence.
LEMMA Recursion ==
  ASSUME NEW N \in Nat, NEW V, NEW base \in V,
         NEW F \in [(1 .. N) \X V -> V]
  PROVE  \E g \in [0 .. N -> V] : Recursive(g, N, base, F)
<1> DEFINE T == {k \in 0 .. N : \E g \in [0 .. N -> V] :
                  g[0] = base /\ \A n \in 1 .. k : g[n] = F[<<n, g[n - 1]>>]}
<1>1. 0 \in T
  <2> DEFINE h == [n \in 0 .. N |-> base]
  <2>1. h \in [0 .. N -> V] /\ h[0] = base
    OBVIOUS
  <2>2. \A n \in 1 .. 0 : h[n] = F[<<n, h[n - 1]>>]
    OBVIOUS
  <2> HIDE DEF h
  <2>3. QED
    BY <2>1, <2>2
<1>2. ASSUME NEW k \in 0 .. (N - 1), k \in T PROVE k + 1 \in T
  <2>1. PICK g \in [0 .. N -> V] :
               g[0] = base /\ \A n \in 1 .. k : g[n] = F[<<n, g[n - 1]>>]
    BY <1>2
  <2> DEFINE v == F[<<k + 1, g[k]>>]
             h == [n \in 0 .. N |-> IF n = k + 1 THEN v ELSE g[n]]
  <2>2. v \in V
    OBVIOUS
  <2>3. h \in [0 .. N -> V] /\ h[0] = base
    BY <2>1, <2>2
  <2>4. ASSUME NEW n \in 1 .. (k + 1) PROVE h[n] = F[<<n, h[n - 1]>>]
    <3>1. h[n - 1] = g[n - 1]
      OBVIOUS
    <3>2. CASE n = k + 1
      <4>1. n - 1 = k /\ h[n] = v
        BY <3>2
      <4>2. QED
        BY <3>1, <3>2, <4>1
    <3>3. CASE n # k + 1
      <4>1. n \in 1 .. k /\ h[n] = g[n]
        BY <3>3
      <4>2. QED
        BY <2>1, <3>1, <4>1
    <3>4. QED
      BY <3>2, <3>3
  <2>5. k + 1 \in 0 .. N
    OBVIOUS
  <2> HIDE DEF h
  <2>6. QED
    BY <2>3, <2>4, <2>5
<1>3. N \in T
  <2> HIDE DEF T
  <2>1. 0 .. N \subseteq T
    BY <1>1, <1>2, UpTo
  <2>2. QED
    BY <2>1
<1>4. QED
  BY <1>3 DEF Recursive

-----------------------------------------------------------------------------
(* The first pass: types, and the recursion step by step.                  *)

Statuses == UNION {[D -> Entry] : D \in SUBSET Agents}

Conflict(a) == <<"conflicting_completed_payload", a>>

GatherErrors ==
  {<<"invalid_wait_result">>, <<"invalid_status">>} \cup {Conflict(a) : a \in Agents}

GatherState == [status : Statuses, timedOut : BOOLEAN, errors : SUBSET GatherErrors]

LEMMA StatusIs ==
  ASSUME NEW s PROVE s \in Statuses <=> DOMAIN s \subseteq Agents /\ s \in [DOMAIN s -> Entry]
BY DEF Statuses

LEMMA ConflictIs ==
  ASSUME NEW a, NEW b
  PROVE  /\ Conflict(a) = Conflict(b) => a = b
         /\ Conflict(a) # <<"invalid_wait_result">>
         /\ Conflict(a) # <<"invalid_status">>
BY DEF Conflict

\* The entries after a batch: an agent it reports has NextEntry, or its first one.
Updated(old, new) ==
  [a \in DOMAIN old \cup DOMAIN new |->
     IF a \in DOMAIN old \cap DOMAIN new THEN NextEntry(old[a], new[a])
     ELSE IF a \in DOMAIN new THEN new[a] ELSE old[a]]

\* The agents a batch contradicts.
Contradicted(old, new) ==
  {a \in DOMAIN old \cap DOMAIN new : Conflicting(old[a], new[a])}

LEMMA AbsorbCases ==
  ASSUME NEW acc \in GatherState, NEW batch \in Batches
  PROVE  /\ batch.kind = "notObject" =>
              Absorb(acc, batch) = [acc EXCEPT !.errors = @ \cup {<<"invalid_wait_result">>}]
         /\ batch.kind = "badStatus" =>
              Absorb(acc, batch) = [acc EXCEPT !.timedOut = @ \/ batch.timedOut,
                                               !.errors = @ \cup {<<"invalid_status">>}]
         /\ batch.kind = "batch" =>
              Absorb(acc, batch) =
                [status |-> Updated(acc.status, batch.status),
                 timedOut |-> acc.timedOut \/ batch.timedOut,
                 errors |-> acc.errors \cup
                   {Conflict(a) : a \in Contradicted(acc.status, batch.status)}]
<1>1. batch.kind = "batch" =>
        Absorb(acc, batch) =
          [status |-> Updated(acc.status, batch.status),
           timedOut |-> acc.timedOut \/ batch.timedOut,
           errors |-> acc.errors \cup
             {Conflict(a) : a \in Contradicted(acc.status, batch.status)}]
  BY Zenon DEF Absorb, Updated, Contradicted, Conflict
<1>2. QED
  BY <1>1 DEF Absorb

\* The same, field by field.
LEMMA AbsorbFields ==
  ASSUME NEW acc \in GatherState, NEW batch \in Batches
  PROVE  /\ batch.kind = "notObject" =>
              /\ Absorb(acc, batch).status = acc.status
              /\ Absorb(acc, batch).errors = acc.errors \cup {<<"invalid_wait_result">>}
         /\ batch.kind = "badStatus" =>
              /\ Absorb(acc, batch).status = acc.status
              /\ Absorb(acc, batch).errors = acc.errors \cup {<<"invalid_status">>}
         /\ batch.kind = "batch" =>
              /\ Absorb(acc, batch).status = Updated(acc.status, batch.status)
              /\ Absorb(acc, batch).errors = acc.errors \cup
                   {Conflict(a) : a \in Contradicted(acc.status, batch.status)}
<1> DEFINE either == acc.timedOut \/ batch.timedOut
           status == Updated(acc.status, batch.status)
           more == {Conflict(a) : a \in Contradicted(acc.status, batch.status)}
<1>0. acc = [status |-> acc.status, timedOut |-> acc.timedOut, errors |-> acc.errors]
  BY DEF GatherState
<1>1. CASE batch.kind = "notObject"
  <2>1. Absorb(acc, batch) = [acc EXCEPT !.errors = @ \cup {<<"invalid_wait_result">>}]
    BY <1>1, AbsorbCases, Zenon
  <2>2. QED
    BY <1>0, <1>1, <2>1
<1>2. CASE batch.kind = "badStatus"
  <2>1. Absorb(acc, batch) = [acc EXCEPT !.timedOut = either,
                                         !.errors = @ \cup {<<"invalid_status">>}]
    BY <1>2, AbsorbCases, Zenon
  <2> HIDE DEF either
  <2>2. QED
    BY <1>0, <1>2, <2>1
<1>3. CASE batch.kind = "batch"
  <2>1. Absorb(acc, batch) = [status |-> status, timedOut |-> either,
                              errors |-> acc.errors \cup more]
    BY <1>3, AbsorbCases, Zenon
  <2> HIDE DEF either, status, more
  <2>2. Absorb(acc, batch).status = status /\ Absorb(acc, batch).errors = acc.errors \cup more
    BY <2>1
  <2>3. QED
    BY <1>3, <2>2 DEF status, more
<1>4. QED
  BY <1>1, <1>2, <1>3 DEF Batches

LEMMA UpdatedType ==
  ASSUME NEW old \in Statuses, NEW new \in Statuses
  PROVE  Updated(old, new) \in Statuses
<1>1. /\ DOMAIN old \subseteq Agents /\ old \in [DOMAIN old -> Entry]
      /\ DOMAIN new \subseteq Agents /\ new \in [DOMAIN new -> Entry]
  BY StatusIs
<1>2. \A x, y \in Entry : NextEntry(x, y) \in Entry
  BY DEF NextEntry
<1>3. DOMAIN Updated(old, new) = DOMAIN old \cup DOMAIN new
  BY DEF Updated
<1>4. ASSUME NEW a \in DOMAIN old \cup DOMAIN new PROVE Updated(old, new)[a] \in Entry
  BY <1>1, <1>2 DEF Updated
<1>5. Updated(old, new) \in [DOMAIN old \cup DOMAIN new -> Entry]
  BY <1>4 DEF Updated
<1>6. QED
  BY <1>1, <1>3, <1>5, StatusIs

LEMMA AbsorbType ==
  ASSUME NEW acc \in GatherState, NEW batch \in Batches
  PROVE  Absorb(acc, batch) \in GatherState
<1> DEFINE either == acc.timedOut \/ batch.timedOut
<1>0. either \in BOOLEAN
  OBVIOUS
<1>1. CASE batch.kind = "notObject"
  <2>1. Absorb(acc, batch) = [acc EXCEPT !.errors = @ \cup {<<"invalid_wait_result">>}]
    BY <1>1, AbsorbCases, Zenon
  <2>2. {<<"invalid_wait_result">>} \subseteq GatherErrors
    BY DEF GatherErrors
  <2>3. QED
    BY <2>1, <2>2 DEF GatherState
<1>2. CASE batch.kind = "badStatus"
  <2>1. Absorb(acc, batch) = [acc EXCEPT !.timedOut = either,
                                         !.errors = @ \cup {<<"invalid_status">>}]
    BY <1>2, AbsorbCases, Zenon
  <2>2. {<<"invalid_status">>} \subseteq GatherErrors
    BY DEF GatherErrors
  <2> HIDE DEF either
  <2>3. QED
    BY <1>0, <2>1, <2>2 DEF GatherState
<1>3. CASE batch.kind = "batch"
  <2>1. acc.status \in Statuses /\ batch.status \in Statuses
    BY DEF GatherState, Batches, Statuses
  <2>2. Updated(acc.status, batch.status) \in Statuses
    BY <2>1, UpdatedType
  <2>3. Contradicted(acc.status, batch.status) \subseteq Agents
    BY <2>1, StatusIs DEF Contradicted
  <2>4. {Conflict(a) : a \in Contradicted(acc.status, batch.status)} \subseteq GatherErrors
    BY <2>3 DEF GatherErrors
  <2> DEFINE status == Updated(acc.status, batch.status)
             more == {Conflict(a) : a \in Contradicted(acc.status, batch.status)}
  <2>5. Absorb(acc, batch) = [status |-> status, timedOut |-> either,
                              errors |-> acc.errors \cup more]
    BY <1>3, AbsorbCases, Zenon
  <2>6. status \in Statuses /\ more \subseteq GatherErrors
    BY <2>2, <2>4
  <2> HIDE DEF status, more, either
  <2>7. QED
    BY <1>0, <2>5, <2>6 DEF GatherState
<1>4. QED
  BY <1>1, <1>2, <1>3 DEF Batches

LEMMA NothingType == Nothing \in GatherState
<1>1. [a \in {} |-> Unparsed("null")] \in Statuses
  BY DEF Statuses
<1>2. QED
  BY <1>1 DEF Nothing, GatherState

\* The recursion of the first pass is what it reads as.
LEMMA GatheredIs ==
  ASSUME NEW bs \in Seq(Batches)
  PROVE  /\ Gathered(bs) \in [0 .. Len(bs) -> GatherState]
         /\ Gathered(bs)[0] = Nothing
         /\ \A n \in 1 .. Len(bs) : Gathered(bs)[n] = Absorb(Gathered(bs)[n - 1], bs[n])
<1> DEFINE N == Len(bs)
           F == [p \in (1 .. N) \X GatherState |-> Absorb(p[2], bs[p[1]])]
           Is(g) == g = [n \in 0 .. N |-> IF n = 0 THEN Nothing
                                           ELSE Absorb(g[n - 1], bs[n])]
<1>1. N \in Nat /\ \A n \in 1 .. N : bs[n] \in Batches
  OBVIOUS
<1>2. F \in [(1 .. N) \X GatherState -> GatherState]
  BY <1>1, AbsorbType
<1>3. PICK g \in [0 .. N -> GatherState] : Recursive(g, N, Nothing, F)
  <2>1. N \in Nat
    OBVIOUS
  <2> HIDE DEF F, N
  <2>2. QED
    BY <1>2, <2>1, NothingType, Recursion, Zenon
<1>4. g[0] = Nothing /\ \A n \in 1 .. N : g[n] = Absorb(g[n - 1], bs[n])
  BY <1>1, <1>3 DEF Recursive
<1>5. Is(g)
  BY <1>1, <1>3, <1>4
<1>6. Is(Gathered(bs))
  BY <1>5, Zenon DEF Gathered
<1>7. Gathered(bs) = [n \in 0 .. N |-> IF n = 0 THEN Nothing
                                       ELSE Absorb(Gathered(bs)[n - 1], bs[n])]
  BY <1>6
<1> DEFINE G == Gathered(bs)
<1> HIDE DEF G
<1>8. G = [n \in 0 .. N |-> IF n = 0 THEN Nothing ELSE Absorb(G[n - 1], bs[n])]
  BY <1>7 DEF G
<1>9. G[0] = Nothing /\ \A n \in 1 .. N : G[n] = Absorb(G[n - 1], bs[n])
  BY <1>1, <1>8
<1> DEFINE T == {n \in 0 .. N : G[n] \in GatherState}
<1>10. 0 \in T
  BY <1>1, <1>9, NothingType
<1>11. ASSUME NEW n \in 0 .. (N - 1), n \in T PROVE n + 1 \in T
  <2>1. n + 1 \in 1 .. N /\ (n + 1) - 1 = n
    BY <1>1
  <2>2. G[n + 1] = Absorb(G[n], bs[n + 1])
    BY <1>9, <2>1
  <2>3. QED
    BY <1>1, <1>11, <2>1, <2>2, AbsorbType
<1>12. 0 .. N \subseteq T
  <2> HIDE DEF T, N
  <2>1. QED
    BY <1>1, <1>10, <1>11, UpTo
<1>13. G \in [0 .. N -> GatherState]
  <2>1. \A n \in 0 .. N : G[n] \in GatherState
    BY <1>12
  <2>2. DOMAIN G = 0 .. N /\ G = [n \in 0 .. N |-> G[n]]
    BY <1>8
  <2>3. QED
    BY <2>1, <2>2
<1>14. QED
  BY <1>9, <1>13 DEF G

-----------------------------------------------------------------------------
(* What the first pass keeps of what was heard of an agent.                *)

\* The first n batches that have an entry of agent a.
About(bs, n, a) ==
  {i \in 1 .. n : bs[i].kind = "batch" /\ a \in DOMAIN bs[i].status}

\* The entries of a in them, and its completed payloads.
Heard(bs, n, a) == {bs[i].status[a] : i \in About(bs, n, a)}
Said(bs, n, a) == {e \in Heard(bs, n, a) : e.kind = "ok"}

\* An agent has an entry if it was heard of, and a completed one if it ever
\* completed; two different payloads of it are on record as a conflict.
AgentKept(bs, n, acc, a) ==
  /\ a \in DOMAIN acc.status <=> Heard(bs, n, a) # {}
  /\ a \in DOMAIN acc.status =>
       /\ acc.status[a] \in Heard(bs, n, a)
       /\ Said(bs, n, a) # {} => acc.status[a].kind = "ok"
       /\ Conflict(a) \notin acc.errors => Said(bs, n, a) \subseteq {acc.status[a]}
  /\ Conflict(a) \in acc.errors => \E x, y \in Said(bs, n, a) : x # y

\* What is no batch is on record too.
Kept(bs, n, acc) ==
  /\ \A a \in Agents : AgentKept(bs, n, acc, a)
  /\ <<"invalid_wait_result">> \in acc.errors <=> \E i \in 1 .. n : bs[i].kind = "notObject"
  /\ <<"invalid_status">> \in acc.errors <=> \E i \in 1 .. n : bs[i].kind = "badStatus"

LEMMA HeardNext ==
  ASSUME NEW bs \in Seq(Batches), NEW n \in 1 .. Len(bs), NEW a
  PROVE  IF bs[n].kind = "batch" /\ a \in DOMAIN bs[n].status
         THEN /\ Heard(bs, n, a) = Heard(bs, n - 1, a) \cup {bs[n].status[a]}
              /\ bs[n].status[a].kind = "ok" =>
                   Said(bs, n, a) = Said(bs, n - 1, a) \cup {bs[n].status[a]}
              /\ bs[n].status[a].kind # "ok" => Said(bs, n, a) = Said(bs, n - 1, a)
         ELSE /\ Heard(bs, n, a) = Heard(bs, n - 1, a)
              /\ Said(bs, n, a) = Said(bs, n - 1, a)
<1>1. n \in Nat /\ 1 .. n = 1 .. (n - 1) \cup {n}
  OBVIOUS
<1>2. CASE bs[n].kind = "batch" /\ a \in DOMAIN bs[n].status
  <2>1. About(bs, n, a) = About(bs, n - 1, a) \cup {n}
    BY <1>1, <1>2 DEF About
  <2>2. Heard(bs, n, a) = Heard(bs, n - 1, a) \cup {bs[n].status[a]}
    BY <2>1 DEF Heard
  <2>3. QED
    BY <1>2, <2>2 DEF Said
<1>3. CASE ~ (bs[n].kind = "batch" /\ a \in DOMAIN bs[n].status)
  <2>1. About(bs, n, a) = About(bs, n - 1, a)
    BY <1>1, <1>3 DEF About
  <2>2. QED
    BY <1>3, <2>1 DEF Heard, Said
<1>4. QED
  BY <1>2, <1>3

LEMMA KeptFirst == ASSUME NEW bs \in Seq(Batches) PROVE Kept(bs, 0, Nothing)
<1>1. \A a : About(bs, 0, a) = {}
  BY DEF About
<1>2. \A a : Heard(bs, 0, a) = {} /\ Said(bs, 0, a) = {}
  BY <1>1 DEF Heard, Said
<1>3. Nothing.errors = {} /\ DOMAIN Nothing.status = {}
  BY DEF Nothing
<1>4. QED
  BY <1>2, <1>3 DEF Kept, AgentKept

\* One agent, one batch.
LEMMA KeptOfAgent ==
  ASSUME NEW bs \in Seq(Batches), NEW n \in 1 .. Len(bs), NEW acc \in GatherState,
         bs[n].kind = "batch", NEW a \in Agents, AgentKept(bs, n - 1, acc, a)
  PROVE  AgentKept(bs, n, Absorb(acc, bs[n]), a)
<1> DEFINE old == acc.status
           new == bs[n].status
           next == Absorb(acc, bs[n])
           heard == Heard(bs, n - 1, a)
           said == Said(bs, n - 1, a)
<1>1. bs[n] \in Batches
  OBVIOUS
<1>2. next.status = Updated(old, new)
  BY <1>1, AbsorbFields
<1>3. Conflict(a) \in next.errors <=>
        Conflict(a) \in acc.errors \/ a \in Contradicted(old, new)
  <2>1. next.errors = acc.errors \cup {Conflict(b) : b \in Contradicted(old, new)}
    BY <1>1, AbsorbFields
  <2> HIDE DEF next, old, new
  <2>2. QED
    BY <2>1, ConflictIs
<1>4. DOMAIN next.status = DOMAIN old \cup DOMAIN new
  BY <1>2 DEF Updated
<1>5. a \in DOMAIN next.status =>
        next.status[a] = IF a \in DOMAIN old \cap DOMAIN new THEN NextEntry(old[a], new[a])
                         ELSE IF a \in DOMAIN new THEN new[a] ELSE old[a]
  BY <1>2, <1>4 DEF Updated
<1>6. a \in Contradicted(old, new) <=>
        a \in DOMAIN old \cap DOMAIN new /\ Conflicting(old[a], new[a])
  BY DEF Contradicted
<1>7. /\ a \in DOMAIN old <=> heard # {}
      /\ a \in DOMAIN old =>
           /\ old[a] \in heard
           /\ said # {} => old[a].kind = "ok"
           /\ Conflict(a) \notin acc.errors => said \subseteq {old[a]}
      /\ Conflict(a) \in acc.errors => \E x, y \in said : x # y
  BY DEF AgentKept
<1>8. said = {e \in heard : e.kind = "ok"}
  BY DEF Said
<1>9. CASE a \in DOMAIN new
  <2>1. /\ Heard(bs, n, a) = heard \cup {new[a]}
        /\ new[a].kind = "ok" => Said(bs, n, a) = said \cup {new[a]}
        /\ new[a].kind # "ok" => Said(bs, n, a) = said
    BY <1>9, HeardNext
  <2> HIDE DEF old, new, next, heard, said
  <2>2. CASE a \in DOMAIN old
    <3>1. next.status[a] = NextEntry(old[a], new[a])
      BY <1>4, <1>5, <1>9, <2>2
    <3>2. CASE new[a].kind = "ok"
      <4>1. next.status[a] = new[a] /\ Said(bs, n, a) = said \cup {new[a]}
        BY <2>1, <3>1, <3>2 DEF NextEntry
      <4>2. a \in Contradicted(old, new) <=> old[a].kind = "ok" /\ old[a] # new[a]
        BY <1>6, <1>9, <2>2, <3>2 DEF Conflicting
      <4>3. Conflict(a) \notin next.errors => Said(bs, n, a) \subseteq {next.status[a]}
        BY <1>3, <1>7, <2>2, <4>1, <4>2
      <4>4. Conflict(a) \in next.errors => \E x, y \in Said(bs, n, a) : x # y
        BY <1>3, <1>7, <1>8, <2>2, <4>1, <4>2
      <4>5. QED
        BY <1>4, <1>9, <2>1, <3>2, <4>1, <4>3, <4>4 DEF AgentKept, next
    <3>3. CASE new[a].kind # "ok"
      <4>1. Said(bs, n, a) = said /\ a \notin Contradicted(old, new)
        BY <1>6, <2>1, <3>3 DEF Conflicting
      <4>2. next.status[a] = IF old[a].kind = "ok" THEN old[a] ELSE new[a]
        BY <3>1, <3>3 DEF NextEntry
      <4>3. next.status[a] \in Heard(bs, n, a)
        BY <1>7, <2>1, <2>2, <4>2
      <4>4. said # {} => next.status[a] = old[a] /\ old[a].kind = "ok"
        BY <1>7, <2>2, <4>2
      <4>5. Conflict(a) \notin next.errors => said \subseteq {next.status[a]}
        BY <1>3, <1>7, <2>2, <4>4
      <4>6. QED
        BY <1>3, <1>4, <1>7, <1>9, <2>1, <4>1, <4>3, <4>4, <4>5 DEF AgentKept, next
    <3>4. QED
      BY <3>2, <3>3
  <2>3. CASE a \notin DOMAIN old
    <3>1. next.status[a] = new[a] /\ said = {} /\ a \notin Contradicted(old, new)
      BY <1>4, <1>5, <1>6, <1>7, <1>8, <1>9, <2>3
    <3>2. Conflict(a) \notin next.errors
      BY <1>3, <1>7, <3>1
    <3>3. QED
      BY <1>4, <1>9, <2>1, <3>1, <3>2 DEF AgentKept, next
  <2>4. QED
    BY <2>2, <2>3
<1>10. CASE a \notin DOMAIN new
  <2>1. Heard(bs, n, a) = heard /\ Said(bs, n, a) = said
    BY <1>10, HeardNext
  <2> HIDE DEF old, new, next, heard, said
  <2>2. /\ a \in DOMAIN next.status <=> a \in DOMAIN old
        /\ a \in DOMAIN next.status => next.status[a] = old[a]
        /\ Conflict(a) \in next.errors <=> Conflict(a) \in acc.errors
    BY <1>3, <1>4, <1>5, <1>6, <1>10
  <2>3. QED
    BY <1>7, <2>1, <2>2 DEF AgentKept, next
<1>11. QED
  BY <1>9, <1>10

LEMMA KeptNext ==
  ASSUME NEW bs \in Seq(Batches), NEW n \in 1 .. Len(bs), NEW acc \in GatherState,
         Kept(bs, n - 1, acc)
  PROVE  Kept(bs, n, Absorb(acc, bs[n]))
<1> DEFINE next == Absorb(acc, bs[n])
<1>1. bs[n] \in Batches
  OBVIOUS
<1>2. 1 .. n = 1 .. (n - 1) \cup {n}
  OBVIOUS
<1>3. CASE bs[n].kind # "batch"
  <2>1. \A a : Heard(bs, n, a) = Heard(bs, n - 1, a) /\ Said(bs, n, a) = Said(bs, n - 1, a)
    BY <1>3, HeardNext
  <2>2. bs[n].kind \in {"notObject", "badStatus"}
    BY <1>1, <1>3 DEF Batches
  <2>3. next.status = acc.status
    BY <1>1, <2>2, AbsorbFields
  <2>4. next.errors = acc.errors \cup (IF bs[n].kind = "notObject"
                                      THEN {<<"invalid_wait_result">>}
                                      ELSE {<<"invalid_status">>})
    BY <1>1, <2>2, AbsorbFields
  <2> HIDE DEF next
  <2>5. \A a : Conflict(a) \in next.errors <=> Conflict(a) \in acc.errors
    BY <2>4, ConflictIs
  <2>6. /\ <<"invalid_wait_result">> \in next.errors <=>
             \E i \in 1 .. n : bs[i].kind = "notObject"
        /\ <<"invalid_status">> \in next.errors <=>
             \E i \in 1 .. n : bs[i].kind = "badStatus"
    BY <1>2, <2>2, <2>4 DEF Kept
  <2>7. ASSUME NEW a \in Agents PROVE AgentKept(bs, n, next, a)
    <3>1. AgentKept(bs, n - 1, acc, a)
      BY DEF Kept
    <3>2. Heard(bs, n, a) = Heard(bs, n - 1, a) /\ Said(bs, n, a) = Said(bs, n - 1, a)
      BY <2>1
    <3>3. next.status = acc.status /\ (Conflict(a) \in next.errors <=> Conflict(a) \in acc.errors)
      BY <2>3, <2>5
    <3>4. QED
      BY <3>1, <3>2, <3>3 DEF AgentKept
  <2>8. QED
    BY <2>6, <2>7 DEF Kept, next
<1>4. CASE bs[n].kind = "batch"
  <2>1. next.errors = acc.errors \cup
          {Conflict(a) : a \in Contradicted(acc.status, bs[n].status)}
    BY <1>1, <1>4, AbsorbFields
  <2>2. \A a \in Agents : AgentKept(bs, n, next, a)
    BY <1>4, KeptOfAgent DEF Kept
  <2> HIDE DEF next
  <2>3. /\ <<"invalid_wait_result">> \in next.errors <=>
             <<"invalid_wait_result">> \in acc.errors
        /\ <<"invalid_status">> \in next.errors <=> <<"invalid_status">> \in acc.errors
    BY <2>1, ConflictIs
  <2>4. /\ <<"invalid_wait_result">> \in next.errors <=>
             \E i \in 1 .. n : bs[i].kind = "notObject"
        /\ <<"invalid_status">> \in next.errors <=>
             \E i \in 1 .. n : bs[i].kind = "badStatus"
    BY <1>2, <1>4, <2>3 DEF Kept
  <2>5. QED
    BY <2>2, <2>4 DEF Kept, next
<1>5. QED
  BY <1>3, <1>4

\* What the first pass has kept after each batch.
LEMMA GatheredKeeps ==
  ASSUME NEW bs \in Seq(Batches)
  PROVE  \A n \in 0 .. Len(bs) : Kept(bs, n, Gathered(bs)[n])
<1> DEFINE N == Len(bs)
           T == {n \in 0 .. N : Kept(bs, n, Gathered(bs)[n])}
<1>1. N \in Nat
  OBVIOUS
<1>2. 0 \in T
  BY <1>1, GatheredIs, KeptFirst
<1>3. ASSUME NEW n \in 0 .. (N - 1), n \in T PROVE n + 1 \in T
  <2>1. n + 1 \in 1 .. N /\ (n + 1) - 1 = n /\ n \in 0 .. N
    BY <1>1
  <2>2. Gathered(bs)[n] \in GatherState
    BY <2>1, GatheredIs
  <2>3. Gathered(bs)[n + 1] = Absorb(Gathered(bs)[n], bs[n + 1])
    BY <2>1, GatheredIs
  <2>4. Kept(bs, n + 1, Gathered(bs)[n + 1])
    BY <1>3, <2>1, <2>2, <2>3, KeptNext
  <2>5. QED
    BY <1>1, <2>4
<1>4. 0 .. N \subseteq T
  <2> HIDE DEF T, N
  <2>1. QED
    BY <1>1, <1>2, <1>3, UpTo
<1>5. QED
  BY <1>4

-----------------------------------------------------------------------------
(* The second pass: types, and the recursion step by step.                 *)

Results == [persona : Personas, agent : Agents, payload : Entry]

Invalid(a) == <<"invalid_completed_payload", a>>
Ambiguous(a) == <<"ambiguous_fallback_match", a>>

BindErrors ==
  GatherErrors \cup {Invalid(a) : a \in Agents} \cup {Ambiguous(a) : a \in Agents}

BindState ==
  [consumed : SUBSET Agents, results : Seq(Results), missing : Seq(Agents),
   errors : SUBSET BindErrors]

Start(spawn, gathered) ==
  [consumed |-> OwnedIds(spawn, gathered.status),
   results |-> <<>>, missing |-> <<>>, errors |-> gathered.errors]

\* The agent has completed, by its own last word.
Completed(status, a) == a \in DOMAIN status /\ status[a].kind = "ok"

\* The four outcomes for a spawned agent.
BindsOwn(acc, spec, status, next) ==
  /\ Completed(status, spec.id)
  /\ next.results = Append(acc.results, Result(spec, spec.id, status))
  /\ next.consumed = acc.consumed /\ next.missing = acc.missing
  /\ next.errors = acc.errors

BindsOther(acc, spec, status, next) ==
  \E match \in Matches(status, acc.consumed, spec.persona) :
    /\ next.results = Append(acc.results, Result(spec, match, status))
    /\ next.consumed = acc.consumed \cup {match} /\ next.missing = acc.missing
    /\ next.errors = acc.errors

Misses(acc, spec, status, next) ==
  /\ ~ Completed(status, spec.id)
  /\ next.missing = Append(acc.missing, spec.id)
  /\ next.consumed = acc.consumed /\ next.results = acc.results
  /\ next.errors = acc.errors

Fails(acc, spec, status, next) ==
  /\ next.errors = acc.errors \cup {Invalid(spec.id)}
     \/ next.errors = acc.errors \cup {Ambiguous(spec.id)}
  /\ next.consumed = acc.consumed /\ next.results = acc.results
  /\ next.missing = acc.missing

Outcome(acc, spec, status, next) ==
  \/ BindsOwn(acc, spec, status, next)
  \/ BindsOther(acc, spec, status, next)
  \/ Misses(acc, spec, status, next)
  \/ Fails(acc, spec, status, next)

LEMMA AppendIn ==
  ASSUME NEW S, NEW q \in Seq(S), NEW x \in S
  PROVE  Append(q, x) \in Seq(S)
OBVIOUS

LEMMA ResultType ==
  ASSUME NEW spec \in Spec, NEW status \in Statuses, NEW a \in DOMAIN status
  PROVE  Result(spec, a, status) \in Results
BY StatusIs DEF Result, Results, Spec

LEMMA BindCases ==
  ASSUME NEW acc \in BindState, NEW spec \in Spec, NEW status \in Statuses
  PROVE  /\ Bind(acc, spec, status) \in BindState
         /\ Outcome(acc, spec, status, Bind(acc, spec, status))
<1> DEFINE next == Bind(acc, spec, status)
           found == Matches(status, acc.consumed, spec.persona)
           match == CHOOSE a \in found : TRUE
           own == Result(spec, spec.id, status)
           other == Result(spec, match, status)
<1>1. spec.id \in Agents /\ DOMAIN status \subseteq Agents
      /\ status \in [DOMAIN status -> Entry]
  BY StatusIs DEF Spec
<1>2. CASE spec.id \in DOMAIN status /\ status[spec.id].kind # "null"
  <2>1. next = BindOwn(acc, spec, status)
    BY <1>2 DEF Bind
  <2>2. status[spec.id].kind \in {"ok", "incomplete", "bad"}
    BY <1>1, <1>2 DEF Entry
  <2>3. CASE status[spec.id].kind = "ok"
    <3>1. next = [acc EXCEPT !.results = Append(@, own)]
      BY <2>1, <2>3 DEF BindOwn
    <3>2. own \in Results
      BY <1>2, ResultType
    <3> HIDE DEF own, next
    <3>3. next \in BindState
      <4>1. acc.results \in Seq(Results)
        BY DEF BindState
      <4>2. Append(acc.results, own) \in Seq(Results)
        BY <3>2, <4>1, AppendIn
      <4>3. QED
        BY <3>1, <4>2 DEF BindState
    <3>4. next.results = Append(acc.results, own) /\ next.consumed = acc.consumed
          /\ next.missing = acc.missing /\ next.errors = acc.errors
      BY <3>1 DEF BindState
    <3>5. BindsOwn(acc, spec, status, next)
      BY <1>2, <2>3, <3>4 DEF BindsOwn, Completed, own
    <3>6. QED
      BY <3>3, <3>5 DEF Outcome, next
  <2>4. CASE status[spec.id].kind = "incomplete"
    <3>1. next = [acc EXCEPT !.missing = Append(@, spec.id)]
      BY <2>1, <2>4 DEF BindOwn
    <3> HIDE DEF next
    <3>2. next \in BindState
      <4>1. acc.missing \in Seq(Agents)
        BY DEF BindState
      <4>2. Append(acc.missing, spec.id) \in Seq(Agents)
        BY <1>1, <4>1, AppendIn
      <4>3. QED
        BY <3>1, <4>2 DEF BindState
    <3>3. Misses(acc, spec, status, next)
      BY <2>4, <3>1 DEF Misses, Completed, BindState
    <3>4. QED
      BY <3>2, <3>3 DEF Outcome, next
  <2>5. CASE status[spec.id].kind = "bad"
    <3>1. next = [acc EXCEPT !.errors = @ \cup {Invalid(spec.id)}]
      BY <2>1, <2>5 DEF BindOwn, Invalid
    <3>2. {Invalid(spec.id)} \subseteq BindErrors
      BY <1>1 DEF BindErrors
    <3> HIDE DEF next
    <3>3. next \in BindState
      BY <3>1, <3>2 DEF BindState
    <3>4. Fails(acc, spec, status, next)
      BY <3>1 DEF Fails, BindState
    <3>5. QED
      BY <3>3, <3>4 DEF Outcome, next
  <2>6. QED
    BY <2>2, <2>3, <2>4, <2>5
<1>3. CASE ~ (spec.id \in DOMAIN status /\ status[spec.id].kind # "null")
  <2>1. next = BindFallback(acc, spec, status)
    BY <1>3 DEF Bind
  <2>2. ~ Completed(status, spec.id)
    BY <1>3 DEF Completed
  <2>3. CASE found = {}
    <3>1. next = [acc EXCEPT !.missing = Append(@, spec.id)]
      BY <2>1, <2>3 DEF BindFallback
    <3> HIDE DEF next
    <3>2. next \in BindState
      <4>1. acc.missing \in Seq(Agents)
        BY DEF BindState
      <4>2. Append(acc.missing, spec.id) \in Seq(Agents)
        BY <1>1, <4>1, AppendIn
      <4>3. QED
        BY <3>1, <4>2 DEF BindState
    <3>3. Misses(acc, spec, status, next)
      BY <2>2, <3>1 DEF Misses, BindState
    <3>4. QED
      BY <3>2, <3>3 DEF Outcome, next
  <2>4. CASE found # {} /\ \E a, b \in found : a # b
    <3>1. next = [acc EXCEPT !.errors = @ \cup {Ambiguous(spec.id)}]
      BY <2>1, <2>4 DEF BindFallback, Ambiguous
    <3>2. {Ambiguous(spec.id)} \subseteq BindErrors
      BY <1>1 DEF BindErrors
    <3> HIDE DEF next
    <3>3. next \in BindState
      BY <3>1, <3>2 DEF BindState
    <3>4. Fails(acc, spec, status, next)
      BY <3>1 DEF Fails, BindState
    <3>5. QED
      BY <3>3, <3>4 DEF Outcome, next
  <2>5. CASE found # {} /\ ~ \E a, b \in found : a # b
    <3>1. match \in found
      BY <2>5
    <3>2. match \in DOMAIN status /\ match \in Agents
      BY <1>1, <3>1 DEF Matches
    <3>3. next = [acc EXCEPT !.consumed = @ \cup {match}, !.results = Append(@, other)]
      BY <2>1, <2>5 DEF BindFallback, Consume
    <3>4. other \in Results
      BY <3>2, ResultType
    <3> HIDE DEF next, other, match
    <3>5. next \in BindState
      <4>1. acc.results \in Seq(Results)
        BY DEF BindState
      <4>2. Append(acc.results, other) \in Seq(Results)
        BY <3>4, <4>1, AppendIn
      <4>3. QED
        BY <3>2, <3>3, <4>2 DEF BindState
    <3>6. next.results = Append(acc.results, other)
          /\ next.consumed = acc.consumed \cup {match}
          /\ next.missing = acc.missing /\ next.errors = acc.errors
      BY <3>3 DEF BindState
    <3>7. BindsOther(acc, spec, status, next)
      BY <3>1, <3>6 DEF BindsOther, other
    <3>8. QED
      BY <3>5, <3>7 DEF Outcome, next
  <2>6. QED
    BY <2>3, <2>4, <2>5
<1>4. QED
  BY <1>2, <1>3

LEMMA StartType ==
  ASSUME NEW s \in Seq(Spec), NEW gathered \in GatherState
  PROVE  Start(s, gathered) \in BindState
<1>1. OwnedIds(s, gathered.status) \subseteq Agents
  <2>1. \A i \in DOMAIN s : s[i].id \in Agents
    <3>1. \A i \in DOMAIN s : s[i] \in Spec
      OBVIOUS
    <3>2. \A x \in Spec : x.id \in Agents
      BY DEF Spec
    <3>3. QED
      BY <3>1, <3>2
  <2>2. QED
    BY <2>1 DEF OwnedIds
<1>2. gathered.errors \subseteq BindErrors
  BY DEF GatherState, BindErrors
<1>3. QED
  BY <1>1, <1>2 DEF Start, BindState

\* The recursion of the second pass is what it reads as.
LEMMA BoundIs ==
  ASSUME NEW s \in Seq(Spec), NEW gathered \in GatherState
  PROVE  /\ Bound(s, gathered) \in [0 .. Len(s) -> BindState]
         /\ Bound(s, gathered)[0] = Start(s, gathered)
         /\ \A n \in 1 .. Len(s) :
              Bound(s, gathered)[n] = Bind(Bound(s, gathered)[n - 1], s[n], gathered.status)
<1> DEFINE N == Len(s)
           status == gathered.status
           start == Start(s, gathered)
           F == [p \in (1 .. N) \X BindState |-> Bind(p[2], s[p[1]], status)]
           Is(g) == g = [n \in 0 .. N |-> IF n = 0 THEN start
                                           ELSE Bind(g[n - 1], s[n], status)]
<1>1. N \in Nat /\ \A n \in 1 .. N : s[n] \in Spec
  OBVIOUS
<1>2. status \in Statuses
  BY DEF GatherState
<1>3. \A n \in 1 .. N, x \in BindState : Bind(x, s[n], status) \in BindState
  <2> HIDE DEF N, status
  <2>1. QED
    BY <1>1, <1>2, BindCases
<1>4. F \in [(1 .. N) \X BindState -> BindState]
  BY <1>3
<1>5. PICK g \in [0 .. N -> BindState] : Recursive(g, N, start, F)
  <2>1. N \in Nat /\ start \in BindState
    BY StartType
  <2> HIDE DEF F, N, start
  <2>2. QED
    BY <1>4, <2>1, Recursion, Zenon
<1>6. g[0] = start /\ \A n \in 1 .. N : g[n] = Bind(g[n - 1], s[n], status)
  BY <1>1, <1>5 DEF Recursive
<1>7. Is(g)
  BY <1>1, <1>5, <1>6
<1>8. Is(Bound(s, gathered))
  BY <1>7, Zenon DEF Bound, Start
<1> DEFINE B == Bound(s, gathered)
<1> HIDE DEF B
<1>9. B = [n \in 0 .. N |-> IF n = 0 THEN start ELSE Bind(B[n - 1], s[n], status)]
  BY <1>8 DEF B
<1>10. B[0] = start /\ \A n \in 1 .. N : B[n] = Bind(B[n - 1], s[n], status)
  BY <1>1, <1>9
<1> DEFINE T == {n \in 0 .. N : B[n] \in BindState}
<1>11. 0 \in T
  BY <1>1, <1>10, StartType
<1>12. ASSUME NEW n \in 0 .. (N - 1), n \in T PROVE n + 1 \in T
  <2>1. n + 1 \in 1 .. N /\ n + 1 \in 0 .. N /\ (n + 1) - 1 = n
    BY <1>1
  <2>2. B[n + 1] = Bind(B[n], s[n + 1], status)
    BY <1>10, <2>1
  <2>3. B[n + 1] \in BindState
    BY <1>3, <1>12, <2>1, <2>2
  <2>4. QED
    BY <2>1, <2>3
<1>13. 0 .. N \subseteq T
  <2> HIDE DEF T, N
  <2>1. QED
    BY <1>1, <1>11, <1>12, UpTo
<1>14. B \in [0 .. N -> BindState]
  <2>1. \A n \in 0 .. N : B[n] \in BindState
    BY <1>13
  <2>2. DOMAIN B = 0 .. N /\ B = [n \in 0 .. N |-> B[n]]
    BY <1>9
  <2>3. QED
    BY <2>1, <2>2
<1>15. QED
  BY <1>10, <1>14 DEF B

-----------------------------------------------------------------------------
(* What the second pass binds.                                             *)

IdsOf(s) == {s[i].id : i \in DOMAIN s}

\* A spawn order that transport-init accepts.
Distinct(s) == \A i, j \in DOMAIN s : s[i].id = s[j].id => i = j

\* A result is a completed payload, of a spawned agent with its persona or of an
\* agent nobody spawned that claims the persona, and is used up by it.
Rightful(s, status, n, r, consumed) ==
  /\ Completed(status, r.agent)
  /\ r.payload = status[r.agent]
  /\ \/ \E k \in 1 .. n : s[k].id = r.agent /\ s[k].persona = r.persona
     \/ r.agent \notin IdsOf(s) /\ r.agent \in consumed /\ r.payload.who = r.persona

\* It is for the i-th spawned agent: that agent's own, or nobody's.
AnswersFor(s, i, r) ==
  r.persona = s[i].persona /\ (r.agent = s[i].id \/ r.agent \notin IdsOf(s))

\* After n spawned agents.
BoundKept(s, gathered, n, b) ==
  /\ OwnedIds(s, gathered.status) \subseteq b.consumed
  /\ gathered.errors \subseteq b.errors
  /\ \A e \in b.errors \ gathered.errors :
       \E k \in 1 .. n : e \in {Invalid(s[k].id), Ambiguous(s[k].id)}
  /\ \A i \in DOMAIN b.results : Rightful(s, gathered.status, n, b.results[i], b.consumed)
  /\ \A i \in DOMAIN b.missing :
       /\ ~ Completed(gathered.status, b.missing[i])
       /\ b.missing[i] \in IdsOf(s)
  /\ b.missing = <<>> /\ b.errors = {} =>
       /\ Len(b.results) = n
       /\ \A i \in 1 .. n : AnswersFor(s, i, b.results[i])
  /\ Distinct(s) =>
       \A i, j \in DOMAIN b.results : b.results[i].agent = b.results[j].agent => i = j

LEMMA BoundFirst ==
  ASSUME NEW s \in Seq(Spec), NEW gathered \in GatherState
  PROVE  BoundKept(s, gathered, 0, Start(s, gathered))
BY DEF BoundKept, Start

\* What an outcome adds.
LEMMA Adds ==
  ASSUME NEW s \in Seq(Spec), NEW gathered \in GatherState, NEW n \in 1 .. Len(s),
         NEW acc \in BindState, NEW next \in BindState,
         OwnedIds(s, gathered.status) \subseteq acc.consumed,
         Outcome(acc, s[n], gathered.status, next)
  PROVE  /\ acc.consumed \subseteq next.consumed
         /\ \/ /\ next.missing = acc.missing /\ next.errors = acc.errors
               /\ \E r \in Results :
                    /\ next.results = Append(acc.results, r)
                    /\ AnswersFor(s, n, r)
                    /\ Rightful(s, gathered.status, n, r, next.consumed)
                    /\ r.agent = s[n].id \/ r.agent \notin acc.consumed
            \/ /\ next.results = acc.results /\ next.errors = acc.errors
               /\ next.missing = Append(acc.missing, s[n].id)
               /\ ~ Completed(gathered.status, s[n].id)
            \/ /\ next.results = acc.results /\ next.missing = acc.missing
               /\ \E e \in {Invalid(s[n].id), Ambiguous(s[n].id)} :
                    next.errors = acc.errors \cup {e}
<1> DEFINE status == gathered.status
           spec == s[n]
<1>1. spec \in Spec /\ status \in Statuses
  BY DEF GatherState
<1>2. CASE BindsOwn(acc, spec, status, next)
  <2> DEFINE r == Result(spec, spec.id, status)
  <2>1. r \in Results
    BY <1>1, <1>2, ResultType DEF BindsOwn, Completed
  <2>2. r.agent = spec.id /\ r.persona = spec.persona /\ r.payload = status[spec.id]
    BY DEF Result
  <2>3. Rightful(s, status, n, r, next.consumed)
    BY <1>2, <2>2 DEF Rightful, BindsOwn
  <2>4. AnswersFor(s, n, r)
    BY <2>2 DEF AnswersFor
  <2> HIDE DEF r
  <2>5. QED
    BY <1>2, <2>1, <2>2, <2>3, <2>4 DEF BindsOwn, r
<1>3. CASE BindsOther(acc, spec, status, next)
  <2>1. PICK match \in Matches(status, acc.consumed, spec.persona) :
               /\ next.results = Append(acc.results, Result(spec, match, status))
               /\ next.consumed = acc.consumed \cup {match} /\ next.missing = acc.missing
               /\ next.errors = acc.errors
    BY <1>3 DEF BindsOther
  <2> DEFINE r == Result(spec, match, status)
  <2>2. /\ match \in DOMAIN status /\ match \notin acc.consumed
        /\ status[match].kind = "ok" /\ status[match].who = spec.persona
    BY DEF Matches
  <2>3. r \in Results
    BY <1>1, <2>2, ResultType
  <2>4. r.agent = match /\ r.persona = spec.persona /\ r.payload = status[match]
    BY DEF Result
  <2>5. match \notin IdsOf(s)
    BY <2>2 DEF OwnedIds, IdsOf
  <2>6. Rightful(s, status, n, r, next.consumed)
    BY <2>1, <2>2, <2>4, <2>5 DEF Rightful, Completed
  <2>7. AnswersFor(s, n, r)
    BY <2>4, <2>5 DEF AnswersFor
  <2> HIDE DEF r
  <2>8. QED
    BY <2>1, <2>2, <2>3, <2>4, <2>6, <2>7 DEF r
<1>4. CASE Misses(acc, spec, status, next)
  BY <1>4 DEF Misses
<1>5. CASE Fails(acc, spec, status, next)
  BY <1>5 DEF Fails
<1>6. QED
  BY <1>2, <1>3, <1>4, <1>5 DEF Outcome

LEMMA BoundNext ==
  ASSUME NEW s \in Seq(Spec), NEW gathered \in GatherState, NEW n \in 1 .. Len(s),
         NEW acc \in BindState, NEW next \in BindState,
         BoundKept(s, gathered, n - 1, acc),
         Outcome(acc, s[n], gathered.status, next)
  PROVE  BoundKept(s, gathered, n, next)
<1> DEFINE status == gathered.status
<1>1. OwnedIds(s, status) \subseteq acc.consumed
  BY DEF BoundKept
<1>2. acc.consumed \subseteq next.consumed
  BY <1>1, Adds
<1>3. /\ acc.results \in Seq(Results) /\ next.results \in Seq(Results)
      /\ acc.missing \in Seq(Agents) /\ next.missing \in Seq(Agents)
  BY DEF BindState
<1>4. n \in Nat /\ n \in DOMAIN s /\ 1 .. n = 1 .. (n - 1) \cup {n}
  OBVIOUS
<1>5. \A r : Rightful(s, status, n - 1, r, acc.consumed)
               => Rightful(s, status, n, r, next.consumed)
  BY <1>2, <1>4 DEF Rightful
<1>6. \A i \in DOMAIN acc.results : Rightful(s, status, n, acc.results[i], next.consumed)
  BY <1>5 DEF BoundKept
<1>7. ASSUME NEW r \in Results, next.missing = acc.missing, next.errors = acc.errors,
             next.results = Append(acc.results, r), AnswersFor(s, n, r),
             Rightful(s, status, n, r, next.consumed),
             r.agent = s[n].id \/ r.agent \notin acc.consumed
      PROVE  BoundKept(s, gathered, n, next)
  <2> DEFINE m == Len(acc.results)
  <2>1. /\ DOMAIN acc.results = 1 .. m /\ m \in Nat
        /\ DOMAIN next.results = 1 .. (m + 1) /\ Len(next.results) = m + 1
        /\ \A i \in 1 .. m : next.results[i] = acc.results[i]
        /\ next.results[m + 1] = r
    BY <1>3, <1>7
  <2>2. \A i \in DOMAIN next.results : Rightful(s, status, n, next.results[i], next.consumed)
    <3> HIDE DEF m
    <3>1. \A i \in 1 .. (m + 1) : i \in 1 .. m \/ i = m + 1
      BY <2>1
    <3>2. QED
      BY <1>6, <1>7, <2>1, <3>1, Zenon
  <2>3. next.missing = <<>> /\ next.errors = {} =>
          /\ Len(next.results) = n
          /\ \A i \in 1 .. n : AnswersFor(s, i, next.results[i])
    <3> HIDE DEF m
    <3>1. SUFFICES ASSUME next.missing = <<>>, next.errors = {}
          PROVE  /\ Len(next.results) = n
                 /\ \A i \in 1 .. n : AnswersFor(s, i, next.results[i])
      OBVIOUS
    <3>2. m = n - 1 /\ \A i \in 1 .. (n - 1) : AnswersFor(s, i, acc.results[i])
      BY <1>7, <3>1 DEF BoundKept, m
    <3>3. QED
      BY <1>4, <1>7, <2>1, <3>2
  <2>4. ASSUME Distinct(s), NEW i \in 1 .. m PROVE acc.results[i].agent # r.agent
    <3> DEFINE q == acc.results[i]
    <3>1. Rightful(s, status, n - 1, q, acc.consumed)
      BY <2>1 DEF BoundKept
    <3>2. Completed(status, q.agent)
      BY <3>1 DEF Rightful
    <3> HIDE DEF q
    <3>3. CASE r.agent \notin acc.consumed
      <4>1. q.agent \in acc.consumed
        <5>1. CASE \E k \in 1 .. (n - 1) : s[k].id = q.agent
          <6>1. q.agent \in OwnedIds(s, status)
            BY <1>4, <3>2, <5>1 DEF OwnedIds, Completed
          <6>2. QED
            BY <1>1, <6>1
        <5>2. CASE q.agent \in acc.consumed
          BY <5>2
        <5>3. QED
          BY <3>1, <5>1, <5>2 DEF Rightful
      <4>2. QED
        BY <3>3, <4>1 DEF q
    <3>4. CASE r.agent = s[n].id
      <4>1. CASE \E k \in 1 .. (n - 1) : s[k].id = q.agent
        <5>1. PICK k \in 1 .. (n - 1) : s[k].id = q.agent
          BY <4>1
        <5>2. k \in DOMAIN s /\ k # n
          BY <1>4
        <5>3. s[k].id # s[n].id
          BY <1>4, <2>4, <5>2 DEF Distinct
        <5>4. QED
          BY <3>4, <5>1, <5>3 DEF q
      <4>2. CASE q.agent \notin IdsOf(s)
        BY <1>4, <3>4, <4>2 DEF IdsOf, q
      <4>3. QED
        BY <3>1, <4>1, <4>2 DEF Rightful
    <3>5. QED
      BY <1>7, <3>3, <3>4
  <2>5. Distinct(s) =>
          \A i, j \in DOMAIN next.results :
            next.results[i].agent = next.results[j].agent => i = j
    <3> HIDE DEF m
    <3>1. SUFFICES ASSUME Distinct(s), NEW i \in 1 .. (m + 1), NEW j \in 1 .. (m + 1),
                          next.results[i].agent = next.results[j].agent
          PROVE  i = j
      BY <2>1
    <3>2. CASE i \in 1 .. m /\ j \in 1 .. m
      BY <2>1, <3>1, <3>2 DEF BoundKept
    <3>3. CASE i = m + 1 /\ j \in 1 .. m
      BY <2>1, <2>4, <3>1, <3>3
    <3>4. CASE j = m + 1 /\ i \in 1 .. m
      BY <2>1, <2>4, <3>1, <3>4
    <3>5. QED
      BY <2>1, <3>2, <3>3, <3>4
  <2>6. \A e \in next.errors \ gathered.errors :
          \E k \in 1 .. n : e \in {Invalid(s[k].id), Ambiguous(s[k].id)}
    BY <1>4, <1>7 DEF BoundKept
  <2> HIDE DEF m
  <2>7. QED
    BY <1>1, <1>2, <1>7, <2>2, <2>3, <2>5, <2>6 DEF BoundKept
<1>8. CASE /\ next.results = acc.results /\ next.errors = acc.errors
           /\ next.missing = Append(acc.missing, s[n].id)
           /\ ~ Completed(status, s[n].id)
  <2> DEFINE m == Len(acc.missing)
  <2>1. /\ DOMAIN acc.missing = 1 .. m /\ m \in Nat
        /\ DOMAIN next.missing = 1 .. (m + 1) /\ next.missing # <<>>
        /\ \A i \in 1 .. m : next.missing[i] = acc.missing[i]
        /\ next.missing[m + 1] = s[n].id
    BY <1>3, <1>8
  <2>2. s[n].id \in IdsOf(s)
    BY <1>4 DEF IdsOf
  <2>3. \A i \in DOMAIN next.missing :
          ~ Completed(status, next.missing[i]) /\ next.missing[i] \in IdsOf(s)
    <3> HIDE DEF m
    <3>1. \A i \in 1 .. (m + 1) : i \in 1 .. m \/ i = m + 1
      BY <2>1
    <3>2. QED
      BY <1>8, <2>1, <2>2, <3>1, Zenon DEF BoundKept
  <2>4. \A e \in next.errors \ gathered.errors :
          \E k \in 1 .. n : e \in {Invalid(s[k].id), Ambiguous(s[k].id)}
    BY <1>4, <1>8 DEF BoundKept
  <2> HIDE DEF m
  <2>5. QED
    BY <1>1, <1>2, <1>6, <1>8, <2>1, <2>3, <2>4 DEF BoundKept
<1>9. ASSUME NEW e \in {Invalid(s[n].id), Ambiguous(s[n].id)},
             next.results = acc.results, next.missing = acc.missing,
             next.errors = acc.errors \cup {e}
      PROVE  BoundKept(s, gathered, n, next)
  <2>1. next.errors # {}
    BY <1>9
  <2>2. \A x \in next.errors \ gathered.errors :
          \E k \in 1 .. n : x \in {Invalid(s[k].id), Ambiguous(s[k].id)}
    BY <1>4, <1>9 DEF BoundKept
  <2>3. QED
    BY <1>1, <1>2, <1>6, <1>9, <2>1, <2>2 DEF BoundKept
<1>10. QED
  BY <1>1, <1>7, <1>8, <1>9, Adds

\* What the second pass has bound after each spawned agent.
LEMMA BoundKeeps ==
  ASSUME NEW s \in Seq(Spec), NEW gathered \in GatherState
  PROVE  \A n \in 0 .. Len(s) : BoundKept(s, gathered, n, Bound(s, gathered)[n])
<1> DEFINE N == Len(s)
           B == Bound(s, gathered)
           T == {n \in 0 .. N : BoundKept(s, gathered, n, B[n])}
<1>1. N \in Nat /\ \A n \in 1 .. N : s[n] \in Spec
  OBVIOUS
<1>2. 0 \in T
  BY <1>1, BoundIs, BoundFirst
<1>3. ASSUME NEW n \in 0 .. (N - 1), n \in T PROVE n + 1 \in T
  <2>1. n + 1 \in 1 .. N /\ (n + 1) - 1 = n /\ n \in 0 .. N /\ n + 1 \in 0 .. N
    BY <1>1
  <2>2. B[n] \in BindState /\ B[n + 1] \in BindState
    BY <2>1, BoundIs
  <2>3. B[n + 1] = Bind(B[n], s[n + 1], gathered.status)
    BY <2>1, BoundIs
  <2>4. s[n + 1] \in Spec /\ gathered.status \in Statuses
    BY <1>1, <2>1 DEF GatherState
  <2>5. Outcome(B[n], s[n + 1], gathered.status, B[n + 1])
    BY <2>2, <2>3, <2>4, BindCases
  <2>6. BoundKept(s, gathered, n, B[n])
    BY <1>3
  <2>7. BoundKept(s, gathered, n + 1, B[n + 1])
    <3> HIDE DEF B, T
    <3>1. QED
      BY <2>1, <2>2, <2>5, <2>6, BoundNext
  <2>8. QED
    BY <2>1, <2>7
<1>4. 0 .. N \subseteq T
  <2> HIDE DEF T, N
  <2>1. QED
    BY <1>1, <1>2, <1>3, UpTo
<1>5. QED
  BY <1>4

-----------------------------------------------------------------------------
(* Everyone is accounted for exactly once.                                 *)

\* The errors that name a spawned agent.
Named(errors) ==
  {e \in errors : e[1] \in {"ambiguous_fallback_match", "invalid_completed_payload"}}

LEMMA NamesDiffer ==
  ASSUME NEW a, NEW b
  PROVE  /\ Invalid(a) = Invalid(b) => a = b
         /\ Ambiguous(a) = Ambiguous(b) => a = b
         /\ Invalid(a) # Ambiguous(b)
         /\ Invalid(a)[1] = "invalid_completed_payload"
         /\ Ambiguous(a)[1] = "ambiguous_fallback_match"
BY DEF Invalid, Ambiguous

LEMMA GatherNamesNobody == \A e \in GatherErrors : Named({e}) = {}
<1>1. /\ <<"invalid_wait_result">>[1] = "invalid_wait_result"
      /\ <<"invalid_status">>[1] = "invalid_status"
      /\ \A a : Conflict(a)[1] = "conflicting_completed_payload"
  BY DEF Conflict
<1>2. ASSUME NEW e \in GatherErrors
      PROVE  e[1] \in {"invalid_wait_result", "invalid_status",
                       "conflicting_completed_payload"}
  BY <1>1, Zenon DEF GatherErrors
<1>3. QED
  BY <1>2 DEF Named

CountKept(n, b) ==
  /\ IsFiniteSet(Named(b.errors))
  /\ Len(b.results) + Len(b.missing) + Cardinality(Named(b.errors)) = n

LEMMA CountFirst ==
  ASSUME NEW s \in Seq(Spec), NEW gathered \in GatherState
  PROVE  CountKept(0, Start(s, gathered))
<1>1. Named(gathered.errors) = {}
  BY GatherNamesNobody DEF GatherState, Named
<1>2. Start(s, gathered).errors = gathered.errors
      /\ Len(Start(s, gathered).results) = 0 /\ Len(Start(s, gathered).missing) = 0
  BY DEF Start
<1>3. Named(Start(s, gathered).errors) = {}
  BY <1>1, <1>2
<1>4. IsFiniteSet({}) /\ Cardinality({}) = 0
  BY FS_EmptySet
<1>5. QED
  BY <1>2, <1>3, <1>4 DEF CountKept

LEMMA CountNext ==
  ASSUME NEW s \in Seq(Spec), NEW gathered \in GatherState, NEW n \in 1 .. Len(s),
         Distinct(s), NEW acc \in BindState, NEW next \in BindState,
         BoundKept(s, gathered, n - 1, acc), CountKept(n - 1, acc),
         Outcome(acc, s[n], gathered.status, next)
  PROVE  CountKept(n, next)
<1> DEFINE r == Len(acc.results)
           m == Len(acc.missing)
           c == Cardinality(Named(acc.errors))
<1>1. /\ acc.results \in Seq(Results) /\ acc.missing \in Seq(Agents)
      /\ r \in Nat /\ m \in Nat /\ c \in Nat /\ n \in Nat /\ r + m + c = n - 1
  <2>1. acc.results \in Seq(Results) /\ acc.missing \in Seq(Agents)
    BY DEF BindState
  <2>2. r \in Nat /\ m \in Nat
    BY <2>1
  <2>3. c \in Nat
    BY FS_CardinalityType DEF CountKept
  <2>4. r + m + c = n - 1
    BY DEF CountKept
  <2>5. n \in Nat
    OBVIOUS
  <2>6. QED
    BY <2>1, <2>2, <2>3, <2>4, <2>5
<1>0. IsFiniteSet(Named(acc.errors))
  BY DEF CountKept
<1>2. CASE next.missing = acc.missing /\ next.errors = acc.errors
           /\ \E x \in Results : next.results = Append(acc.results, x)
  <2>1. /\ Len(next.results) = r + 1 /\ Len(next.missing) = m
        /\ Cardinality(Named(next.errors)) = c /\ IsFiniteSet(Named(next.errors))
    BY <1>0, <1>1, <1>2
  <2> HIDE DEF r, m, c
  <2>2. QED
    BY <1>1, <2>1 DEF CountKept
<1>3. CASE next.results = acc.results /\ next.errors = acc.errors
           /\ next.missing = Append(acc.missing, s[n].id)
  <2>1. /\ Len(next.results) = r /\ Len(next.missing) = m + 1
        /\ Cardinality(Named(next.errors)) = c /\ IsFiniteSet(Named(next.errors))
    BY <1>0, <1>1, <1>3
  <2> HIDE DEF r, m, c
  <2>2. QED
    BY <1>1, <2>1 DEF CountKept
<1>4. ASSUME NEW e \in {Invalid(s[n].id), Ambiguous(s[n].id)},
             next.results = acc.results, next.missing = acc.missing,
             next.errors = acc.errors \cup {e}
      PROVE  CountKept(n, next)
  <2>1. Named(next.errors) = Named(acc.errors) \cup {e}
    BY <1>4, NamesDiffer DEF Named
  <2>2. e \notin acc.errors
    <3>1. e \notin gathered.errors
      <4>1. e \in Named({e})
        BY NamesDiffer DEF Named
      <4>2. QED
        BY <4>1, GatherNamesNobody DEF GatherState
    <3>2. ASSUME NEW k \in 1 .. (n - 1), e \in {Invalid(s[k].id), Ambiguous(s[k].id)}
          PROVE  FALSE
      <4>1. s[k].id = s[n].id
        BY <3>2, NamesDiffer
      <4>2. k \in DOMAIN s /\ n \in DOMAIN s /\ k # n
        OBVIOUS
      <4>3. QED
        BY <4>1, <4>2 DEF Distinct
    <3>3. QED
      BY <3>1, <3>2 DEF BoundKept
  <2>3. e \notin Named(acc.errors)
    BY <2>2 DEF Named
  <2>4. /\ IsFiniteSet(Named(next.errors))
        /\ Cardinality(Named(next.errors)) = Cardinality(Named(acc.errors)) + 1
    BY <2>1, <2>3, FS_AddElement DEF CountKept
  <2>5. /\ Len(next.results) = r /\ Len(next.missing) = m
        /\ Cardinality(Named(next.errors)) = c + 1 /\ IsFiniteSet(Named(next.errors))
    BY <1>4, <2>4
  <2> HIDE DEF r, m, c
  <2>6. QED
    BY <1>1, <2>5 DEF CountKept
<1>5. OwnedIds(s, gathered.status) \subseteq acc.consumed
  BY DEF BoundKept
<1>6. QED
  BY <1>2, <1>3, <1>4, <1>5, Adds

LEMMA CountKeeps ==
  ASSUME NEW s \in Seq(Spec), NEW gathered \in GatherState, Distinct(s)
  PROVE  \A n \in 0 .. Len(s) : CountKept(n, Bound(s, gathered)[n])
<1> DEFINE N == Len(s)
           B == Bound(s, gathered)
           T == {n \in 0 .. N : CountKept(n, B[n])}
<1>1. N \in Nat /\ \A n \in 1 .. N : s[n] \in Spec
  OBVIOUS
<1>2. 0 \in T
  BY <1>1, BoundIs, CountFirst
<1>3. ASSUME NEW n \in 0 .. (N - 1), n \in T PROVE n + 1 \in T
  <2>1. n + 1 \in 1 .. N /\ (n + 1) - 1 = n /\ n \in 0 .. N /\ n + 1 \in 0 .. N
    BY <1>1
  <2>2. B[n] \in BindState /\ B[n + 1] \in BindState
    BY <2>1, BoundIs
  <2>3. B[n + 1] = Bind(B[n], s[n + 1], gathered.status)
    BY <2>1, BoundIs
  <2>4. s[n + 1] \in Spec /\ gathered.status \in Statuses
    BY <1>1, <2>1 DEF GatherState
  <2>5. Outcome(B[n], s[n + 1], gathered.status, B[n + 1])
    BY <2>2, <2>3, <2>4, BindCases
  <2>6. BoundKept(s, gathered, n, B[n]) /\ CountKept(n, B[n])
    BY <1>3, <2>1, BoundKeeps
  <2>7. CountKept(n + 1, B[n + 1])
    <3> HIDE DEF B, T
    <3>1. QED
      BY <2>1, <2>2, <2>5, <2>6, CountNext
  <2>8. QED
    BY <2>1, <2>7
<1>4. 0 .. N \subseteq T
  <2> HIDE DEF T, N
  <2>1. QED
    BY <1>1, <1>2, <1>3, UpTo
<1>5. QED
  BY <1>4

-----------------------------------------------------------------------------
(* collect_merge as a whole.                                               *)

LEMMA GatherIs ==
  ASSUME NEW bs \in Seq(Batches)
  PROVE  Gather(bs) \in GatherState /\ Kept(bs, Len(bs), Gather(bs))
<1>1. Len(bs) \in 0 .. Len(bs)
  OBVIOUS
<1>2. QED
  BY <1>1, GatheredIs, GatheredKeeps DEF Gather

\* The merge is the last state of the second pass over the last one of the first.
LEMMA MergeIs ==
  ASSUME NEW s \in Seq(Spec), NEW bs \in Seq(Batches)
  PROVE  LET b == Bound(s, Gather(bs))[Len(s)]
             m == Merge(s, bs)
         IN  /\ b \in BindState
             /\ BoundKept(s, Gather(bs), Len(s), b)
             /\ Distinct(s) => CountKept(Len(s), b)
             /\ m.results = b.results /\ m.missing = b.missing /\ m.errors = b.errors
             /\ m.complete <=> b.missing = <<>> /\ b.errors = {}
             /\ m.ok => m.complete
<1>1. Len(s) \in 0 .. Len(s)
  OBVIOUS
<1>2. Gather(bs) \in GatherState
  BY GatherIs
<1> DEFINE b == Bound(s, Gather(bs))[Len(s)]
           done == b.missing = <<>> /\ b.errors = {}
           late == Gather(bs).timedOut
<1>3. b \in BindState
  BY <1>1, <1>2, BoundIs
<1>4. BoundKept(s, Gather(bs), Len(s), b)
  BY <1>1, <1>2, BoundKeeps
<1>5. Distinct(s) => CountKept(Len(s), b)
  BY <1>1, <1>2, CountKeeps
<1>6. Merge(s, bs) = [ok |-> done /\ ~ late, complete |-> done, timedOut |-> late,
                      missing |-> b.missing, results |-> b.results, errors |-> b.errors]
  BY Zenon DEF Merge
<1>7. /\ Merge(s, bs).results = b.results /\ Merge(s, bs).missing = b.missing
      /\ Merge(s, bs).errors = b.errors
  <2> HIDE DEF b, done, late
  <2>1. QED
    BY <1>6
<1>8. (Merge(s, bs).complete <=> done) /\ (Merge(s, bs).ok => Merge(s, bs).complete)
  <2> DEFINE ok == done /\ ~ late
  <2>1. Merge(s, bs).complete = done /\ Merge(s, bs).ok = ok
    <3> HIDE DEF b, done, late, ok
    <3>1. Merge(s, bs) = [ok |-> ok, complete |-> done, timedOut |-> late,
                          missing |-> b.missing, results |-> b.results,
                          errors |-> b.errors]
      BY <1>6, Zenon DEF ok
    <3>2. QED
      BY <3>1
  <2>2. QED
    BY <2>1, Zenon
<1>9. QED
  BY <1>3, <1>4, <1>5, <1>7, <1>8

LEMMA MergeComplete == \A s, bs : Merge(s, bs).complete \in BOOLEAN
<1> TAKE s, bs
<1> DEFINE b == Bound(s, Gather(bs))[Len(s)]
           done == b.missing = <<>> /\ b.errors = {}
           late == Gather(bs).timedOut
           ok == done /\ ~ late
<1>1. Merge(s, bs) = [ok |-> ok, complete |-> done, timedOut |-> late,
                      missing |-> b.missing, results |-> b.results, errors |-> b.errors]
  BY Zenon DEF Merge
<1>2. done \in BOOLEAN
  OBVIOUS
<1> HIDE DEF b, done, late, ok
<1>3. QED
  BY <1>1, <1>2

-----------------------------------------------------------------------------
(* What the order of the batches, and saying a thing twice, change.        *)

Clean(b) == b.missing = <<>> /\ b.errors = {}

\* Two statuses that tell the second pass the same, where it binds by them:
\* of spawned agents and of the completed payloads of others.
Agree(s, one, two) ==
  /\ DOMAIN one = DOMAIN two
  /\ \A a \in DOMAIN one :
       /\ one[a].kind = "ok" \/ two[a].kind = "ok" => one[a] = two[a]
       /\ a \in IdsOf(s) => one[a].kind # "null" /\ two[a].kind # "null"

OneOf(found) == CHOOSE a \in found : TRUE

\* A fallback that has found somebody, from whom it found and what they said.
Fallback(acc, spec, found, report) ==
  IF \E a, b \in found : a # b
  THEN [acc EXCEPT !.errors = @ \cup {<<"ambiguous_fallback_match", spec.id>>}]
  ELSE [acc EXCEPT !.consumed = Consume(@, OneOf(found)),
                   !.results = Append(@, report)]

LEMMA FallbackIs ==
  ASSUME NEW acc, NEW spec, NEW status, NEW found,
         Matches(status, acc.consumed, spec.persona) = found, found # {}
  PROVE  BindFallback(acc, spec, status) =
           Fallback(acc, spec, found, Result(spec, OneOf(found), status))
<1>1. QED
  BY Zenon DEF BindFallback, Fallback, OneOf

\* From the same state, a step that leaves it clean is the same step.
LEMMA SameStep ==
  ASSUME NEW s \in Seq(Spec), NEW one \in Statuses, NEW two \in Statuses,
         Agree(s, one, two), NEW n \in 1 .. Len(s), NEW acc \in BindState
  PROVE  LET x == Bind(acc, s[n], one)
             y == Bind(acc, s[n], two)
         IN  Clean(x) \/ Clean(y) => x = y
<1> DEFINE spec == s[n]
           x == Bind(acc, spec, one)
           y == Bind(acc, spec, two)
<1>1. /\ spec \in Spec /\ spec.id \in IdsOf(s)
      /\ acc.missing \in Seq(Agents) /\ spec.id \in Agents
  <2>1. n \in DOMAIN s
    OBVIOUS
  <2>2. spec \in Spec /\ spec.id \in IdsOf(s)
    BY <2>1 DEF IdsOf
  <2>3. QED
    BY <2>2 DEF BindState, Spec
<1>2. \A status : \A a : Result(spec, a, status) =
        [persona |-> spec.persona, agent |-> a, payload |-> status[a]]
  BY DEF Result
<1>3. CASE spec.id \in DOMAIN one
  <2>1. /\ spec.id \in DOMAIN two /\ one[spec.id].kind # "null"
        /\ two[spec.id].kind # "null"
    BY <1>1, <1>3 DEF Agree
  <2>2. x = BindOwn(acc, spec, one) /\ y = BindOwn(acc, spec, two)
    BY <1>3, <2>1 DEF Bind
  <2>3. CASE Completed(one, spec.id) \/ Completed(two, spec.id)
    <3>1. one[spec.id] = two[spec.id] /\ one[spec.id].kind = "ok"
      BY <1>3, <2>3 DEF Agree, Completed
    <3>2. Result(spec, spec.id, one) = Result(spec, spec.id, two)
      BY <1>2, <3>1
    <3>3. x = [acc EXCEPT !.results = Append(@, Result(spec, spec.id, one))]
          /\ y = [acc EXCEPT !.results = Append(@, Result(spec, spec.id, two))]
      BY <2>2, <3>1 DEF BindOwn
    <3>4. QED
      BY <3>2, <3>3, Zenon
  <2>4. ASSUME NEW st \in Statuses, ~ Completed(st, spec.id), spec.id \in DOMAIN st,
               st[spec.id].kind # "null"
        PROVE  ~ Clean(Bind(acc, spec, st))
    <3> DEFINE z == Bind(acc, spec, st)
    <3>1. Outcome(acc, spec, st, z)
      BY <1>1, BindCases
    <3>2. z = BindOwn(acc, spec, st)
      BY <2>4 DEF Bind
    <3>3. st[spec.id].kind \in {"incomplete", "bad"}
      BY <2>4, StatusIs DEF Entry, Completed
    <3>4. CASE st[spec.id].kind = "incomplete"
      <4>1. z = [acc EXCEPT !.missing = Append(@, spec.id)]
        BY <3>2, <3>4 DEF BindOwn
      <4>2. z.missing = Append(acc.missing, spec.id)
        <5> HIDE DEF z
        <5>1. QED
          BY <4>1 DEF BindState
      <4>3. Append(acc.missing, spec.id) # <<>>
        BY <1>1
      <4>4. QED
        BY <4>2, <4>3 DEF Clean
    <3>5. CASE st[spec.id].kind = "bad"
      <4>1. z = [acc EXCEPT !.errors = @ \cup {<<"invalid_completed_payload", spec.id>>}]
        BY <3>2, <3>5 DEF BindOwn
      <4>2. z.errors # {}
        <5> HIDE DEF z
        <5>1. QED
          BY <4>1 DEF BindState
      <4>3. QED
        BY <4>2 DEF Clean
    <3>6. QED
      BY <3>3, <3>4, <3>5
  <2>5. QED
    BY <1>3, <2>1, <2>3, <2>4
<1>4. CASE spec.id \notin DOMAIN one
  <2>1. spec.id \notin DOMAIN two
    BY <1>4 DEF Agree
  <2>2. x = BindFallback(acc, spec, one) /\ y = BindFallback(acc, spec, two)
    BY <1>4, <2>1 DEF Bind
  <2> DEFINE found == Matches(one, acc.consumed, spec.persona)
             match == OneOf(found)
  <2>3. Matches(two, acc.consumed, spec.persona) = found
    BY DEF Matches, Agree
  <2>4. ASSUME NEW a \in found PROVE Result(spec, a, one) = Result(spec, a, two)
    <3>1. a \in DOMAIN one /\ one[a].kind = "ok"
      BY DEF Matches
    <3>2. one[a] = two[a]
      BY <3>1 DEF Agree
    <3>3. QED
      BY <3>2 DEF Result
  <2>5. CASE found = {}
    BY <2>2, <2>3, <2>5 DEF BindFallback
  <2>6. CASE found # {}
    <3>1. Result(spec, match, one) = Result(spec, match, two)
      BY <2>4, <2>6 DEF OneOf
    <3>2. x = Fallback(acc, spec, found, Result(spec, match, one))
      <4>1. found = Matches(one, acc.consumed, spec.persona)
        OBVIOUS
      <4>2. BindFallback(acc, spec, one) =
              Fallback(acc, spec, found, Result(spec, OneOf(found), one))
        <5> HIDE DEF found
        <5>1. QED
          BY <2>6, <4>1, FallbackIs
      <4>3. QED
        BY <2>2, <4>2
    <3>3. y = Fallback(acc, spec, found, Result(spec, match, two))
      <4>1. BindFallback(acc, spec, two) =
              Fallback(acc, spec, found, Result(spec, OneOf(found), two))
        <5> HIDE DEF found
        <5>1. QED
          BY <2>6, <2>3, FallbackIs
      <4>2. QED
        BY <2>2, <4>1
    <3>4. x = y
      <4> HIDE DEF x, y, match, found
      <4>1. QED
        BY <3>1, <3>2, <3>3
    <3>5. QED
      BY <3>4
  <2>7. QED
    BY <2>5, <2>6
<1>5. QED
  BY <1>3, <1>4

\* What a step leaves clean was clean.
LEMMA CleanBefore ==
  ASSUME NEW acc \in BindState, NEW spec \in Spec, NEW status \in Statuses,
         Clean(Bind(acc, spec, status))
  PROVE  Clean(acc)
<1> DEFINE next == Bind(acc, spec, status)
<1>1. Outcome(acc, spec, status, next)
  BY BindCases
<1>2. acc.missing \in Seq(Agents) /\ spec.id \in Agents
  BY DEF BindState, Spec
<1>3. Append(acc.missing, spec.id) # <<>>
  BY <1>2
<1> HIDE DEF next
<1>4. Clean(next)
  BY DEF next
<1>5. QED
  BY <1>1, <1>3, <1>4 DEF Outcome, BindsOwn, BindsOther, Misses, Fails, Clean

LEMMA SameBound ==
  ASSUME NEW s \in Seq(Spec), NEW one \in GatherState, NEW two \in GatherState,
         Agree(s, one.status, two.status), one.errors = two.errors
  PROVE  \A n \in 0 .. Len(s) :
           Clean(Bound(s, one)[n]) \/ Clean(Bound(s, two)[n])
             => Bound(s, one)[n] = Bound(s, two)[n]
<1> DEFINE N == Len(s)
           B == Bound(s, one)
           C == Bound(s, two)
           T == {n \in 0 .. N : Clean(B[n]) \/ Clean(C[n]) => B[n] = C[n]}
<1>1. N \in Nat /\ \A n \in 1 .. N : s[n] \in Spec
  OBVIOUS
<1>2. 0 \in T
  <2>1. OwnedIds(s, one.status) = OwnedIds(s, two.status)
    BY DEF OwnedIds, Agree
  <2>2. Start(s, one) = Start(s, two)
    BY <2>1 DEF Start
  <2>3. B[0] = C[0]
    BY <2>2, BoundIs
  <2>4. QED
    BY <1>1, <2>3
<1>3. ASSUME NEW n \in 0 .. (N - 1), n \in T PROVE n + 1 \in T
  <2>1. n + 1 \in 1 .. N /\ (n + 1) - 1 = n /\ n \in 0 .. N /\ n + 1 \in 0 .. N
    BY <1>1
  <2>2. B[n] \in BindState /\ C[n] \in BindState
    BY <2>1, BoundIs
  <2>3. B[n + 1] = Bind(B[n], s[n + 1], one.status)
        /\ C[n + 1] = Bind(C[n], s[n + 1], two.status)
    BY <2>1, BoundIs
  <2>4. s[n + 1] \in Spec /\ one.status \in Statuses /\ two.status \in Statuses
    BY <1>1, <2>1 DEF GatherState
  <2>5. ASSUME Clean(B[n + 1]) \/ Clean(C[n + 1]) PROVE B[n + 1] = C[n + 1]
    <3>1. Clean(B[n]) \/ Clean(C[n])
      BY <2>2, <2>3, <2>4, <2>5, CleanBefore
    <3>2. B[n] = C[n]
      BY <1>3, <3>1
    <3> HIDE DEF B, C, T
    <3>3. QED
      BY <2>1, <2>2, <2>3, <2>4, <2>5, <3>2, SameStep
  <2>6. QED
    BY <2>1, <2>5
<1>4. 0 .. N \subseteq T
  <2> HIDE DEF T, N
  <2>1. QED
    BY <1>1, <1>2, <1>3, UpTo
<1>5. QED
  BY <1>4

\* The batches of a history, whatever their order and however often they came.
BatchesOf(bs) == {bs[i] : i \in DOMAIN bs}

\* What was heard of an agent is a matter of which batches came.
LEMMA HeardIs ==
  ASSUME NEW bs \in Seq(Batches), NEW a
  PROVE  Heard(bs, Len(bs), a) =
           {b.status[a] : b \in {x \in BatchesOf(bs) : x.kind = "batch" /\ a \in DOMAIN x.status}}
<1>1. DOMAIN bs = 1 .. Len(bs)
  OBVIOUS
<1>2. QED
  BY <1>1 DEF Heard, About, BatchesOf

\* When the first pass is without an error.
LEMMA FaultlessIs ==
  ASSUME NEW bs \in Seq(Batches)
  PROVE  Gather(bs).errors = {} <=>
           /\ \A b \in BatchesOf(bs) : b.kind = "batch"
           /\ \A a \in Agents : \A x, y \in Said(bs, Len(bs), a) : x = y
<1> DEFINE g == Gather(bs)
           N == Len(bs)
<1>1. g \in GatherState /\ Kept(bs, N, g)
  BY GatherIs
<1>2. g.errors \subseteq GatherErrors
  BY <1>1 DEF GatherState
<1>3. DOMAIN bs = 1 .. N /\ \A i \in 1 .. N : bs[i] \in Batches
  OBVIOUS
<1>4. \A b \in BatchesOf(bs) : b.kind \in {"notObject", "badStatus", "batch"}
  BY <1>3 DEF BatchesOf, Batches
<1>5. (\A b \in BatchesOf(bs) : b.kind = "batch") <=>
        /\ <<"invalid_wait_result">> \notin g.errors
        /\ <<"invalid_status">> \notin g.errors
  <2> HIDE DEF g, N
  <2>1. (\A b \in BatchesOf(bs) : b.kind = "batch") <=>
          /\ ~ \E i \in 1 .. N : bs[i].kind = "notObject"
          /\ ~ \E i \in 1 .. N : bs[i].kind = "badStatus"
    BY <1>3, <1>4 DEF BatchesOf
  <2>2. QED
    BY <1>1, <2>1 DEF Kept
<1>6. ASSUME NEW a \in Agents
      PROVE  (\A x, y \in Said(bs, N, a) : x = y) <=> Conflict(a) \notin g.errors
  <2> HIDE DEF g, N
  <2>1. AgentKept(bs, N, g, a)
    BY <1>1 DEF Kept
  <2>2. Said(bs, N, a) # {} => a \in DOMAIN g.status
    BY <2>1 DEF AgentKept, Said
  <2>3. QED
    BY <2>1, <2>2 DEF AgentKept
<1>7. g.errors = {} <=> /\ <<"invalid_wait_result">> \notin g.errors
                        /\ <<"invalid_status">> \notin g.errors
                        /\ \A a \in Agents : Conflict(a) \notin g.errors
  <2> HIDE DEF g
  <2>1. QED
    BY <1>2 DEF GatherErrors
<1>8. QED
  BY <1>5, <1>6, <1>7

\* The same batches, in any order and any number of times, fan in the same way,
\* unless a null was reported of a spawned agent.
LEMMA SameBatchesSameMerge ==
  ASSUME NEW s \in Seq(Spec), NEW bs \in Seq(Batches), NEW cs \in Seq(Batches),
         BatchesOf(bs) = BatchesOf(cs),
         \A a \in IdsOf(s) : \A e \in Heard(bs, Len(bs), a) : e.kind # "null"
  PROVE  /\ Merge(s, cs).complete = Merge(s, bs).complete
         /\ Merge(s, bs).complete => Merge(s, cs).results = Merge(s, bs).results
<1> DEFINE g == Gather(bs)
           h == Gather(cs)
           b == Bound(s, g)[Len(s)]
           c == Bound(s, h)[Len(s)]
<1>1. \A a : Heard(cs, Len(cs), a) = Heard(bs, Len(bs), a)
  BY HeardIs
<1>2. \A a : Said(cs, Len(cs), a) = Said(bs, Len(bs), a)
  BY <1>1 DEF Said
<1>3. g.errors = {} <=> h.errors = {}
  BY <1>2, FaultlessIs
<1>4. /\ g \in GatherState /\ Kept(bs, Len(bs), g)
      /\ h \in GatherState /\ Kept(cs, Len(cs), h)
  BY GatherIs
<1>5. /\ b \in BindState /\ BoundKept(s, g, Len(s), b)
      /\ c \in BindState /\ BoundKept(s, h, Len(s), c)
      /\ Merge(s, bs).results = b.results /\ Merge(s, cs).results = c.results
      /\ Merge(s, bs).complete <=> Clean(b)
      /\ Merge(s, cs).complete <=> Clean(c)
  BY MergeIs DEF Clean
<1>6. CASE g.errors # {}
  <2>1. ~ Clean(b) /\ ~ Clean(c)
    BY <1>3, <1>5, <1>6 DEF BoundKept, Clean
  <2>2. ~ Merge(s, bs).complete /\ ~ Merge(s, cs).complete
    BY <1>5, <2>1
  <2>3. Merge(s, bs).complete \in BOOLEAN /\ Merge(s, cs).complete \in BOOLEAN
    BY MergeComplete
  <2>4. QED
    BY <2>2, <2>3
<1>7. CASE g.errors = {}
  <2>1. ASSUME NEW a \in Agents
        PROVE  /\ a \in DOMAIN g.status <=> a \in DOMAIN h.status
               /\ a \in DOMAIN g.status =>
                    /\ g.status[a].kind = "ok" \/ h.status[a].kind = "ok"
                         => g.status[a] = h.status[a]
                    /\ a \in IdsOf(s) =>
                         g.status[a].kind # "null" /\ h.status[a].kind # "null"
    <3> HIDE DEF g, h
    <3> DEFINE heard == Heard(bs, Len(bs), a)
               said == Said(bs, Len(bs), a)
    <3>1. /\ a \in DOMAIN g.status <=> heard # {}
          /\ a \in DOMAIN g.status =>
               /\ g.status[a] \in heard
               /\ said # {} => g.status[a].kind = "ok"
               /\ said \subseteq {g.status[a]}
      BY <1>4, <1>7 DEF Kept, AgentKept
    <3>2. /\ a \in DOMAIN h.status <=> heard # {}
          /\ a \in DOMAIN h.status =>
               /\ h.status[a] \in heard
               /\ said # {} => h.status[a].kind = "ok"
               /\ said \subseteq {h.status[a]}
      <4>1. AgentKept(cs, Len(cs), h, a) /\ Conflict(a) \notin h.errors
        BY <1>3, <1>4, <1>7 DEF Kept
      <4>2. QED
        BY <1>1, <1>2, <4>1 DEF AgentKept
    <3>3. said = {e \in heard : e.kind = "ok"}
      BY DEF Said
    <3>4. a \in IdsOf(s) => \A e \in heard : e.kind # "null"
      OBVIOUS
    <3> HIDE DEF heard, said
    <3>5. QED
      BY <3>1, <3>2, <3>3, <3>4
  <2>2. DOMAIN g.status \subseteq Agents /\ DOMAIN h.status \subseteq Agents
    BY <1>4, StatusIs DEF GatherState
  <2>3. Agree(s, g.status, h.status)
    <3> HIDE DEF g, h
    <3>1. DOMAIN g.status = DOMAIN h.status
      BY <2>1, <2>2
    <3>2. QED
      BY <2>1, <2>2, <3>1 DEF Agree
  <2>4. Len(s) \in 0 .. Len(s)
    OBVIOUS
  <2>5. Clean(b) \/ Clean(c) => b = c
    <3>1. g.errors = h.errors
      BY <1>3, <1>7
    <3> HIDE DEF g, h
    <3>2. QED
      BY <1>4, <2>3, <2>4, <3>1, SameBound
  <2>6. Merge(s, bs).complete \in BOOLEAN /\ Merge(s, cs).complete \in BOOLEAN
    BY MergeComplete
  <2>7. QED
    <3> HIDE DEF b, c
    <3>1. Merge(s, bs).complete <=> Merge(s, cs).complete
      BY <1>5, <2>5
    <3>2. Merge(s, bs).complete => Merge(s, cs).results = Merge(s, bs).results
      BY <1>5, <2>5
    <3>3. QED
      BY <2>6, <3>1, <3>2
<1>8. QED
  BY <1>6, <1>7
=============================================================================
