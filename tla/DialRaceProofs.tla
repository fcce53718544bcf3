--------------------------- MODULE DialRaceProofs ---------------------------
(***************************************************************************)
(* Proofs about DialRace, for any number of dials and probes, any requests *)
(* and pools, and any width of a batch.                                    *)
(***************************************************************************)
EXTENDS DialRace, FiniteSetTheorems, SequenceTheorems, TLAPS

-----------------------------------------------------------------------------
(* The plans. *)

\* A set of numbers has a least one.
LEMMA Least ==
  ASSUME NEW S \in SUBSET Nat, S # {}
  PROVE  \E x \in S : \A y \in S : x <= y
<1>1. PICK x \in S : \A y \in S : <<y, x>> \notin OpToRel(<, Nat)
  BY NatLessThanWellFounded, WFMin
<1>2. \A y \in S : ~(y < x)
  BY <1>1 DEF OpToRel
<1>. QED
  BY <1>2

\* The positions up to i that belong to S.
UpTo(S, i) == {j \in S : j <= i}

\* They are finitely many, and more for a greater i.
LEMMA UpToFinite ==
  ASSUME NEW L \in Nat, NEW S \in SUBSET (1..L)
  PROVE  /\ IsFiniteSet(S) /\ Cardinality(S) \in Nat
         /\ \A i \in Int : IsFiniteSet(UpTo(S, i)) /\ Cardinality(UpTo(S, i)) \in Nat
         /\ \A i, j \in Int : i <= j => Cardinality(UpTo(S, i)) <= Cardinality(UpTo(S, j))
<1>1. IsFiniteSet(1..L)
  BY FS_Interval
<1>2. IsFiniteSet(S)
  BY <1>1, FS_Subset
<1>3. ASSUME NEW i \in Int
      PROVE  IsFiniteSet(UpTo(S, i)) /\ Cardinality(UpTo(S, i)) \in Nat
  <2>1. UpTo(S, i) \subseteq S
    BY DEF UpTo
  <2>. QED
    BY <1>2, <2>1, FS_Subset, FS_CardinalityType
<1>4. ASSUME NEW i \in Int, NEW j \in Int, i <= j
      PROVE  Cardinality(UpTo(S, i)) <= Cardinality(UpTo(S, j))
  <2>1. UpTo(S, i) \subseteq UpTo(S, j)
    <3>1. \A k \in S : k \in Int
      OBVIOUS
    <3>2. \A k \in S : k <= i => k <= j
      BY <1>4, <3>1
    <3>. QED
      BY <3>2 DEF UpTo
  <2>. QED
    BY <1>3, <2>1, FS_Subset
<1>. QED
  BY <1>2, <1>3, <1>4, FS_CardinalityType

\* One of the positions is the n-th.
LEMMA Nth ==
  ASSUME NEW L \in Nat, NEW S \in SUBSET (1..L), NEW n \in 1..Cardinality(S)
  PROVE  \E i \in S : Cardinality(UpTo(S, i)) = n
<1>1. /\ IsFiniteSet(S) /\ Cardinality(S) \in Nat
      /\ \A i \in Int : IsFiniteSet(UpTo(S, i)) /\ Cardinality(UpTo(S, i)) \in Nat
  BY UpToFinite
<1>0. \A k \in S : k \in Int /\ 1 <= k /\ k <= L
  OBVIOUS
<1>8. n \in Int /\ 1 <= n /\ n <= Cardinality(S)
  BY <1>1
<1>. DEFINE T == {i \in 1..L : Cardinality(UpTo(S, i)) >= n}
<1>10. \A i : i \in T <=> i \in 1..L /\ Cardinality(UpTo(S, i)) >= n
  OBVIOUS
<1>. HIDE DEF T
<1>2. T # {} /\ T \subseteq 1..L
  <2>1. UpTo(S, L) = S
    BY <1>0 DEF UpTo
  <2>2. S # {}
    BY FS_EmptySet
  <2>3. L \in 1..L
    <3>1. PICK k \in S : TRUE
      BY <2>2
    <3>. QED
      BY <1>0, <3>1
  <2>4. Cardinality(UpTo(S, L)) >= n
    BY <1>1, <1>8, <2>1
  <2>. QED
    BY <2>3, <2>4, <1>10
<1>3. PICK i \in T : \A j \in T : i <= j
  BY <1>2, Least
<1>9. i \in Int /\ 1 <= i /\ i <= L /\ Cardinality(UpTo(S, i)) >= n
  BY <1>3, <1>10
<1>4. Cardinality(UpTo(S, i - 1)) < n
  <2>1. CASE i = 1
    <3>1. UpTo(S, i - 1) = {}
      <4>1. \A k \in S : ~(k <= i - 1)
        BY <1>0, <2>1
      <4>. QED
        BY <4>1 DEF UpTo
    <3>. QED
      BY <1>8, <3>1, FS_EmptySet
  <2>2. CASE i # 1
    <3>1. i - 1 \in 1..L /\ ~(i <= i - 1)
      BY <1>9, <2>2
    <3>2. i - 1 \notin T
      BY <1>3, <3>1, Zenon
    <3>. QED
      BY <1>1, <1>8, <1>10, <3>1, <3>2
  <2>. QED
    BY <2>1, <2>2
<1>5. i \in S
  <2>. SUFFICES ASSUME i \notin S PROVE FALSE
    OBVIOUS
  <2>1. \A k \in S : k <= i <=> k <= i - 1
    BY <1>0, <1>9
  <2>2. UpTo(S, i) = UpTo(S, i - 1)
    BY <2>1 DEF UpTo
  <2>. QED
    BY <1>1, <1>8, <1>9, <1>4, <2>2
<1>6. UpTo(S, i) = UpTo(S, i - 1) \cup {i} /\ i \notin UpTo(S, i - 1)
  <2>1. \A k \in S : k <= i <=> k <= i - 1 \/ k = i
    BY <1>0, <1>9
  <2>2. \A k : k \in UpTo(S, i) <=> k \in UpTo(S, i - 1) \cup {i}
    BY <1>5, <1>9, <2>1 DEF UpTo
  <2>3. ~(i <= i - 1)
    BY <1>9
  <2>. QED
    BY <2>2, <2>3 DEF UpTo
<1>7. Cardinality(UpTo(S, i)) = Cardinality(UpTo(S, i - 1)) + 1
  <2>1. i - 1 \in Int
    BY <1>9
  <2>2. IsFiniteSet(UpTo(S, i - 1))
    BY <1>1, <2>1
  <2>. QED
    BY <1>6, <2>2, FS_AddElement
<1>. QED
  BY <1>1, <1>8, <1>9, <1>4, <1>5, <1>7

\* A selection by positions is a sequence of members of the list ...
LEMMA SelectionIsSeq ==
  ASSUME NEW P, NEW seq \in Seq(P), NEW S \in SUBSET (1..Len(seq))
  PROVE  /\ AtPositions(seq, S) \in Seq(P)
         /\ Len(AtPositions(seq, S)) = Cardinality(S)
         /\ \A n \in 1..Cardinality(S) :
              \E i \in S : Cardinality(UpTo(S, i)) = n /\ AtPositions(seq, S)[n] = seq[i]
<1>. DEFINE f == AtPositions(seq, S)
            kth(n) == CHOOSE i \in S : Cardinality(UpTo(S, i)) = n
<1>1. f = [n \in 1..Cardinality(S) |-> seq[kth(n)]]
  BY DEF AtPositions, UpTo
<1>2. \A n \in 1..Cardinality(S) : kth(n) \in S /\ Cardinality(UpTo(S, kth(n))) = n
  <2>. SUFFICES ASSUME NEW n \in 1..Cardinality(S)
                PROVE  \E i \in S : Cardinality(UpTo(S, i)) = n
    OBVIOUS
  <2>. QED
    BY Nth, LenProperties
<1>3. Cardinality(S) \in Nat
  BY UpToFinite, LenProperties
<1>. HIDE DEF f, kth
<1>4. f \in [1..Cardinality(S) -> P]
  BY <1>1, <1>2, ElementOfSeq
<1>5. f \in Seq(P) /\ Len(f) = Cardinality(S)
  BY <1>1, <1>3, <1>4, SeqDef, LenProperties
<1>6. \A n \in 1..Cardinality(S) : f[n] = seq[kth(n)]
  BY <1>1
<1>. QED
  BY <1>2, <1>5, <1>6 DEF f

\* No member that is not a Worker is in front of a Worker.
WorkersLead(p) == \A i, j \in 1..Len(p) : i < j /\ p[j].worker => p[i].worker

\* ... in their order.
LEMMA SelectionKeepsLead ==
  ASSUME NEW P, NEW seq \in Seq(P), NEW S \in SUBSET (1..Len(seq)), WorkersLead(seq)
  PROVE  WorkersLead(AtPositions(seq, S))
<1>. DEFINE f == AtPositions(seq, S)
<1>. SUFFICES ASSUME NEW m \in 1..Len(f), NEW n \in 1..Len(f), m < n, f[n].worker
              PROVE  f[m].worker
  BY DEF WorkersLead
<1>1. m \in 1..Cardinality(S) /\ n \in 1..Cardinality(S) /\ m \in Int /\ n \in Int
  <2>1. Cardinality(S) \in Nat
    BY UpToFinite, LenProperties
  <2>. QED
    BY <2>1, SelectionIsSeq
<1>2. PICK i \in S : Cardinality(UpTo(S, i)) = m /\ f[m] = seq[i]
  BY <1>1, SelectionIsSeq
<1>3. PICK j \in S : Cardinality(UpTo(S, j)) = n /\ f[n] = seq[j]
  BY <1>1, SelectionIsSeq
<1>. HIDE DEF f
<1>4. i < j
  <2>2. i \in Int /\ j \in Int /\ Len(seq) \in Nat
    BY LenProperties
  <2>. SUFFICES ASSUME j <= i PROVE FALSE
    BY <2>2
  <2>1. Cardinality(UpTo(S, j)) <= Cardinality(UpTo(S, i))
    BY <2>2, UpToFinite
  <2>. QED
    BY <1>1, <1>2, <1>3, <2>1
<1>. QED
  BY <1>2, <1>3, <1>4 DEF WorkersLead

\* The leading Workers are Workers, and what follows them is none.
LEMMA Leading ==
  ASSUME NEW p, Len(p) \in Nat
  PROVE  /\ LeadingWorkerCount(p) \in 0..Len(p)
         /\ \A i \in 1..LeadingWorkerCount(p) : p[i].worker
         /\ LeadingWorkerCount(p) < Len(p) => ~p[LeadingWorkerCount(p) + 1].worker
<1>. DEFINE others == {i \in 1..Len(p) : ~p[i].worker}
            n == LeadingWorkerCount(p)
<1>0. \A i : i \in others <=> i \in 1..Len(p) /\ ~p[i].worker
  OBVIOUS
<1>1. CASE others = {}
  <2>1. n = Len(p)
    BY <1>1 DEF LeadingWorkerCount
  <2>. HIDE DEF n, others
  <2>2. \A i \in 1..n : p[i].worker
    BY <1>0, <1>1, <2>1
  <2>. QED
    BY <2>1, <2>2 DEF n
<1>2. CASE others # {}
  <2>1. n = Min(others) - 1
    BY <1>2 DEF LeadingWorkerCount
  <2>. HIDE DEF n, others
  <2>2. others \subseteq 1..Len(p)
    BY <1>0
  <2>3. \E x \in others : \A y \in others : x <= y
    BY <1>2, <2>2, Least
  <2>4. Min(others) \in others /\ \A y \in others : Min(others) <= y
    BY <2>3 DEF Min
  <2>5. Min(others) \in 1..Len(p) /\ n \in 0..Len(p) /\ n + 1 = Min(others)
    <3>1. Min(others) \in 1..Len(p)
      BY <2>2, <2>4
    <3>. QED
      BY <2>1, <3>1
  <2>6. \A i \in 1..n : i \in 1..Len(p) /\ ~(Min(others) <= i)
    BY <2>5
  <2>7. \A i \in 1..n : p[i].worker
    BY <1>0, <2>4, <2>6
  <2>8. ~p[n + 1].worker
    BY <1>0, <2>4, <2>5
  <2>. QED
    BY <2>5, <2>7, <2>8 DEF n
<1>. QED
  BY <1>1, <1>2

\* When no other plan is in front of a Worker, they are all Workers there are.
LEMMA LeadingAreAll ==
  ASSUME NEW p, Len(p) \in Nat, WorkersLead(p)
  PROVE  \A i \in 1..Len(p) : p[i].worker => i <= LeadingWorkerCount(p)
<1>. SUFFICES ASSUME NEW i \in 1..Len(p), p[i].worker, ~(i <= LeadingWorkerCount(p))
              PROVE  FALSE
  OBVIOUS
<1>1. LeadingWorkerCount(p) \in 0..Len(p)
  BY Leading
<1>2. LeadingWorkerCount(p) + 1 \in 1..Len(p) /\ LeadingWorkerCount(p) < Len(p)
  BY <1>1
<1>3. ~p[LeadingWorkerCount(p) + 1].worker
  BY <1>2, Leading
<1>4. LeadingWorkerCount(p) + 1 < i
  <2>1. i # LeadingWorkerCount(p) + 1
    BY <1>3
  <2>. QED
    BY <1>1, <2>1
<1>. QED
  BY <1>2, <1>3, <1>4 DEF WorkersLead

\* A batch is a part of the list without gaps, and the first batch holds the leading
\* Workers when there are any.
LEMMA BatchIs ==
  ASSUME NEW p, Len(p) \in Nat, NEW n \in 1..Len(p)
  PROVE  \E e \in n..Len(p) :
           /\ BatchFrom(p, n) = n..e
           /\ n + Cardinality(BatchFrom(p, n)) = e + 1
           /\ n = 1 /\ LeadingWorkerCount(p) > 0 => e = LeadingWorkerCount(p)
<1>. DEFINE l == LeadingWorkerCount(p)
<1>1. l \in 0..Len(p)
  BY Leading
<1>2. ASSUME NEW e \in n..Len(p) PROVE n + Cardinality(n..e) = e + 1
  BY FS_Interval
<1>3. CASE n = 1 /\ l > 0
  <2>1. BatchFrom(p, n) = n..l
    BY <1>3 DEF BatchFrom
  <2>2. l \in n..Len(p)
    BY <1>1, <1>3
  <2>. HIDE DEF l
  <2>. QED
    BY <1>2, <2>1, <2>2 DEF l
<1>4. CASE ~(n = 1 /\ l > 0)
  <2>. DEFINE m == Min({n + RaceWidth - 1, Len(p)})
  <2>1. BatchFrom(p, n) = n..m
    BY <1>4 DEF BatchFrom
  <2>2. m = IF n + RaceWidth - 1 <= Len(p) THEN n + RaceWidth - 1 ELSE Len(p)
    BY RaceWidthPositive DEF Min
  <2>3. m \in n..Len(p)
    BY <2>2, RaceWidthPositive
  <2>. HIDE DEF m
  <2>. QED
    BY <1>2, <1>4, <2>1, <2>3
<1>. QED
  BY <1>3, <1>4

\* The plans there are.
PlanSet ==
  {p \in [kind : {"tcp", "ws"}, key : Key, sni : Key \cup Worker \cup ({"edge"} \X Int),
          worker : BOOLEAN, cf : Base \cup {"custom", NoBase}] :
     p.worker => p.sni \in Worker}

NoWorkers(p) == \A i \in 1..Len(p) : ~p[i].worker

\* A function on 1..n is a sequence of length n.
LEMMA IsList ==
  ASSUME NEW T, NEW n \in Nat, NEW f \in [1..n -> T]
  PROVE  f \in Seq(T) /\ Len(f) = n
<1>1. f \in Seq(T)
  BY SeqDef
<1>. QED
  BY <1>1, LenProperties

\* Plans without a Worker may be appended.
LEMMA Join ==
  ASSUME NEW p \in Seq(PlanSet), NEW q \in Seq(PlanSet)
  PROVE  /\ p \o q \in Seq(PlanSet)
         /\ WorkersLead(p) /\ NoWorkers(q) => WorkersLead(p \o q)
         /\ NoWorkers(p) /\ NoWorkers(q) => NoWorkers(p \o q)
<1>. DEFINE f == p \o q
<1>1. /\ f \in Seq(PlanSet) /\ Len(f) = Len(p) + Len(q)
      /\ \A i \in 1..(Len(p) + Len(q)) : f[i] = IF i <= Len(p) THEN p[i] ELSE q[i - Len(p)]
  BY ConcatProperties
<1>2. Len(p) \in Nat /\ Len(q) \in Nat
  BY LenProperties
<1>. HIDE DEF f
<1>3. ASSUME NoWorkers(q), NEW i \in 1..Len(f), f[i].worker
      PROVE  i \in 1..Len(p) /\ f[i] = p[i]
  <2>1. CASE i <= Len(p)
    BY <1>1, <1>2, <2>1
  <2>2. CASE ~(i <= Len(p))
    <3>1. f[i] = q[i - Len(p)] /\ i - Len(p) \in 1..Len(q)
      BY <1>1, <1>2, <2>2
    <3>. QED
      BY <1>3, <3>1 DEF NoWorkers
  <2>. QED
    BY <2>1, <2>2
<1>4. ASSUME WorkersLead(p), NoWorkers(q) PROVE WorkersLead(f)
  <2>. SUFFICES ASSUME NEW i \in 1..Len(f), NEW j \in 1..Len(f), i < j, f[j].worker
                PROVE  f[i].worker
    BY DEF WorkersLead
  <2>1. j \in 1..Len(p) /\ f[j] = p[j]
    BY <1>3, <1>4
  <2>2. i \in 1..Len(p)
    BY <1>2, <2>1
  <2>3. f[i] = p[i]
    BY <1>1, <1>2, <2>2
  <2>. QED
    BY <1>4, <2>1, <2>2, <2>3 DEF WorkersLead
<1>5. ASSUME NoWorkers(p), NoWorkers(q) PROVE NoWorkers(f)
  BY <1>3, <1>5 DEF NoWorkers
<1>. QED
  BY <1>1, <1>4, <1>5 DEF f

\* A list without a Worker has none behind another plan.
LEMMA NoneLead ==
  ASSUME NEW p, NoWorkers(p)
  PROVE  WorkersLead(p)
  BY DEF NoWorkers, WorkersLead

\* The empty list.
LEMMA NoPlans == <<>> \in Seq(PlanSet) /\ Len(<<>>) = 0 /\ NoWorkers(<<>>)
<1>1. <<>> \in Seq(PlanSet) /\ Len(<<>>) = 0
  BY EmptySeq
<1>. QED
  BY <1>1 DEF NoWorkers

\* What is not in cool-down of a list, in its order.
LEMMA ReadyPlans ==
  ASSUME NEW p \in Seq(PlanSet), NEW c, NEW w
  PROVE  /\ Ready(p, c, w) \in Seq(PlanSet)
         /\ WorkersLead(p) => WorkersLead(Ready(p, c, w))
         /\ NoWorkers(p) => NoWorkers(Ready(p, c, w))
<1>. DEFINE S == {i \in 1..Len(p) : p[i].key \notin c /\ (p[i].worker => p[i].sni \notin w)}
<1>1. Ready(p, c, w) = AtPositions(p, S)
  BY DEF Ready
<1>2. S \in SUBSET (1..Len(p))
  OBVIOUS
<1>. HIDE DEF S
<1>3. /\ AtPositions(p, S) \in Seq(PlanSet)
      /\ Len(AtPositions(p, S)) = Cardinality(S)
      /\ \A n \in 1..Cardinality(S) : \E i \in S : AtPositions(p, S)[n] = p[i]
  BY <1>2, SelectionIsSeq
<1>4. WorkersLead(p) => WorkersLead(AtPositions(p, S))
  BY <1>2, SelectionKeepsLead
<1>5. NoWorkers(p) => NoWorkers(AtPositions(p, S))
  BY <1>2, <1>3 DEF NoWorkers
<1>. QED
  BY <1>1, <1>3, <1>4, <1>5

\* The fields of a request.
LEMMA RequestFields ==
  ASSUME NEW r \in Requests
  PROVE  /\ r.mode \in {"tcp", "ws", "auto"} /\ r.relay \in Nat
         /\ r.workers \in Seq(STRING)
         /\ r.dc \in DC /\ r.dc \in Int /\ Abs(r.dc) \in Int
         /\ r.probe \in BOOLEAN
<1>1. r.dc \in DC
  BY RequestsType
<1>2. r.dc \in Int
  BY <1>1, PoolIsFinite
<1>. QED
  BY <1>1, <1>2, RequestsType DEF Abs

\* The addresses of a data centre are those that may be in cool-down.
LEMMA Addresses ==
  ASSUME NEW r \in Requests
  PROVE  /\ Len(ResolveDCAll(r)) \in Nat
         /\ \A i \in 1..Len(ResolveDCAll(r)) : ResolveDCAll(r)[i] \in Key
<1>. DEFINE A == {"v4", "v6", "relay"} \X Int
            d == Abs(r.dc)
            known(family, name) == IF d \in family THEN <<<<name, d>>>> ELSE <<>>
            port == r.relay + (IF d = 203 THEN 2 ELSE d) - 1
<1>1. d \in Int /\ r.relay \in Nat
  BY RequestFields
<1>. HIDE DEF d
<1>2. ASSUME NEW name \in {"v4", "v6", "relay"}, NEW n \in Int
      PROVE  <<<<name, n>>>> \in Seq(A)
  <2>1. <<name, n>> \in A
    BY <1>2
  <2>2. <<<<name, n>>>> \in [1..1 -> A]
    BY <2>1
  <2>. HIDE DEF A
  <2>. QED
    BY <2>2, IsList
<1>3. known(V4, "v4") \in Seq(A) /\ known(V6, "v6") \in Seq(A)
  BY <1>1, <1>2, EmptySeq
<1>4. <<<<"relay", port>>>> \in Seq(A)
  BY <1>1, <1>2
<1>5. ResolveDCAll(r) = CASE r.relay # 0 -> <<<<"relay", port>>>>
                          [] r.v6 -> known(V6, "v6") \o known(V4, "v4")
                          [] OTHER -> known(V4, "v4") \o known(V6, "v6")
  BY DEF ResolveDCAll, d
<1>. HIDE DEF A, known, port
<1>6. known(V6, "v6") \o known(V4, "v4") \in Seq(A) /\ known(V4, "v4") \o known(V6, "v6") \in Seq(A)
  BY <1>3, ConcatProperties
<1>7. ResolveDCAll(r) \in Seq(A)
  BY <1>4, <1>5, <1>6
<1>8. Len(ResolveDCAll(r)) \in Nat /\ DOMAIN ResolveDCAll(r) = 1..Len(ResolveDCAll(r))
  BY <1>7, LenProperties
<1>9. \A i \in 1..Len(ResolveDCAll(r)) : ResolveDCAll(r)[i] \in ToSet(ResolveDCAll(r))
  BY <1>8 DEF ToSet
<1>. QED
  BY <1>8, <1>9 DEF Key

\* The plans for Telegram's own addresses, and for the relay.
LEMMA TCPList ==
  ASSUME NEW r \in Requests, NEW c
  PROVE  TCPPlans(r, c) \in Seq(PlanSet) /\ NoWorkers(TCPPlans(r, c))
<1>. DEFINE addresses == ResolveDCAll(r)
            all == [i \in 1..Len(addresses) |-> TCPPlan(addresses[i])]
<1>1. TCPPlans(r, c) = Ready(all, c, {})
  BY DEF TCPPlans
<1>2. Len(addresses) \in Nat /\ \A i \in 1..Len(addresses) : addresses[i] \in Key
  BY Addresses
<1>. HIDE DEF addresses
<1>3. \A i \in 1..Len(addresses) : TCPPlan(addresses[i]) \in PlanSet
  <2>1. \A k \in Key : TCPPlan(k) \in PlanSet
    BY DEF TCPPlan, Plan, PlanSet
  <2>. QED
    BY <1>2, <2>1
<1>4. all \in [1..Len(addresses) -> PlanSet]
  BY <1>3
<1>5. all \in Seq(PlanSet) /\ Len(all) = Len(addresses)
  BY <1>2, <1>4, IsList
<1>6. NoWorkers(all)
  BY <1>5 DEF NoWorkers, TCPPlan, Plan
<1>. HIDE DEF all
<1>. QED
  BY <1>1, <1>5, <1>6, ReadyPlans

\* The plans for the user's own Workers.
LEMMA WorkerList ==
  ASSUME NEW r \in Requests, NEW w
  PROVE  WorkerPlans(r, w) \in Seq(PlanSet) /\ WorkersLead(WorkerPlans(r, w))
<1>. DEFINE all == [i \in 1..Len(r.workers) |-> WorkerPlan(r.workers[i])]
<1>1. r.workers \in Seq(STRING)
  BY RequestFields
<1>2. /\ Len(r.workers) \in Nat /\ DOMAIN r.workers = 1..Len(r.workers)
  BY <1>1, LenProperties
<1>3. \A i \in 1..Len(r.workers) : r.workers[i] \in Worker
  BY <1>2 DEF Worker, ToSet
<1>4. \A v \in Worker : WorkerPlan(v) \in PlanSet
  BY DEF WorkerPlan, Plan, PlanSet, Key
<1>5. all \in [1..Len(r.workers) -> PlanSet]
  BY <1>3, <1>4
<1>6. all \in Seq(PlanSet) /\ Len(all) = Len(r.workers)
  BY <1>2, <1>5, IsList
<1>7. WorkersLead(all)
  BY <1>6 DEF WorkersLead, WorkerPlan, Plan
<1>8. WorkerPlans(r, w) = IF Abs(r.dc) \in V4 THEN Ready(all, {}, w) ELSE <<>>
  BY DEF WorkerPlans
<1>. HIDE DEF all
<1>. QED
  BY <1>6, <1>7, <1>8, ReadyPlans, NoPlans, NoneLead

\* The plans for the native edge.
LEMMA NativeList ==
  ASSUME NEW r \in Requests, NEW c
  PROVE  NativePlans(r, c) \in Seq(PlanSet) /\ NoWorkers(NativePlans(r, c))
<1>. DEFINE two == <<NativePlan(r.dc), NativePlan(-r.dc)>>
<1>1. \A d \in Int : NativePlan(d) \in PlanSet /\ ~NativePlan(d).worker
  BY DEF NativePlan, Plan, PlanSet, Key
<1>2. NativePlan(r.dc) \in PlanSet /\ NativePlan(-r.dc) \in PlanSet
  BY <1>1, RequestFields
<1>3. two \in [1..2 -> PlanSet]
  BY <1>2
<1>4. two \in Seq(PlanSet) /\ Len(two) = 2
  BY <1>3, IsList
<1>5. NoWorkers(two)
  BY <1>1, <1>4, RequestFields DEF NoWorkers
<1>. QED
  BY <1>4, <1>5, NoPlans DEF NativePlans

\* A plan for a domain in front of Telegram is no Worker's.
LEMMA CFIs ==
  ASSUME NEW b \in Base \cup {"custom"}, NEW d \in DC \cup {Abs(e) : e \in DC}
  PROVE  CFPlan(b, d) \in PlanSet /\ ~CFPlan(b, d).worker
<1>1. <<b, d>> \in Key
  BY DEF Key
<1>. QED
  BY <1>1 DEF CFPlan, Plan, PlanSet

\* The plan for the user's own domain.
LEMMA CustomList ==
  ASSUME NEW r \in Requests
  PROVE  <<CustomPlan(r.dc)>> \in Seq(PlanSet) /\ NoWorkers(<<CustomPlan(r.dc)>>)
<1>1. CustomPlan(r.dc) \in PlanSet /\ ~CustomPlan(r.dc).worker
  BY CFIs, RequestFields DEF CustomPlan
<1>2. <<CustomPlan(r.dc)>> \in [1..1 -> PlanSet]
  BY <1>1
<1>3. <<CustomPlan(r.dc)>> \in Seq(PlanSet) /\ Len(<<CustomPlan(r.dc)>>) = 1
  BY <1>2, IsList
<1>. QED
  BY <1>1, <1>3 DEF NoWorkers

\* The plans for the pool.
LEMMA PoolList ==
  ASSUME NEW r \in Requests, NEW cf \in Seq(Base \cup {"custom"})
  PROVE  PoolPlans(r, cf) \in Seq(PlanSet) /\ NoWorkers(PoolPlans(r, cf))
<1>. DEFINE all == [i \in 1..Len(cf) |-> CFPlan(cf[i], r.dc)]
<1>1. Len(cf) \in Nat /\ \A i \in 1..Len(cf) : cf[i] \in Base \cup {"custom"}
  BY LenProperties, ElementOfSeq
<1>2. \A i \in 1..Len(cf) : CFPlan(cf[i], r.dc) \in PlanSet /\ ~CFPlan(cf[i], r.dc).worker
  BY <1>1, CFIs, RequestFields
<1>3. all \in [1..Len(cf) -> PlanSet]
  BY <1>2
<1>4. all \in Seq(PlanSet) /\ Len(all) = Len(cf)
  BY <1>1, <1>3, IsList
<1>5. NoWorkers(all)
  BY <1>2, <1>4 DEF NoWorkers
<1>. QED
  BY <1>4, <1>5, NoPlans DEF PoolPlans

\* The plans of a dial, in an order in which Workers lead unless there is a relay.
LEMMA TransportList ==
  ASSUME NEW r \in Requests, NEW c, NEW w, NEW b \in BOOLEAN,
         NEW cf \in Seq(Base \cup {"custom"})
  PROVE  /\ PlanTransports(r, c, w, b, cf) \in Seq(PlanSet)
         /\ RelayFirst(r) \/ WorkersLead(PlanTransports(r, c, w, b, cf))
<1>. DEFINE tcp == TCPPlans(r, c)
            custom == IF r.custom THEN <<CustomPlan(r.dc)>> ELSE <<>>
            paths == WorkerPlans(r, w) \o NativePlans(r, c) \o custom \o PoolPlans(r, cf)
            ws == IF r.mode = "tcp" \/ b THEN <<>> ELSE paths
            list == CASE r.mode = "tcp" -> tcp
                      [] RelayFirst(r) -> tcp \o ws
                      [] r.mode = "auto" /\ r.relay = 0 -> ws \o tcp
                      [] OTHER -> ws
            Fits(p) == p \in Seq(PlanSet) /\ (RelayFirst(r) \/ WorkersLead(p))
<1>1. tcp \in Seq(PlanSet) /\ NoWorkers(tcp)
  BY TCPList
<1>2. paths \in Seq(PlanSet) /\ WorkersLead(paths)
  <2>. DEFINE p1 == WorkerPlans(r, w)
              p2 == NativePlans(r, c)
              p3 == PoolPlans(r, cf)
  <2>1. p1 \in Seq(PlanSet) /\ WorkersLead(p1)
    BY WorkerList
  <2>2. p2 \in Seq(PlanSet) /\ NoWorkers(p2)
    BY NativeList
  <2>3. custom \in Seq(PlanSet) /\ NoWorkers(custom)
    BY CustomList, NoPlans
  <2>4. p3 \in Seq(PlanSet) /\ NoWorkers(p3)
    BY PoolList
  <2>. HIDE DEF p1, p2, p3, custom
  <2>5. p1 \o p2 \in Seq(PlanSet) /\ WorkersLead(p1 \o p2)
    BY <2>1, <2>2, Join
  <2>6. p1 \o p2 \o custom \in Seq(PlanSet) /\ WorkersLead(p1 \o p2 \o custom)
    BY <2>3, <2>5, Join
  <2>7. p1 \o p2 \o custom \o p3 \in Seq(PlanSet) /\ WorkersLead(p1 \o p2 \o custom \o p3)
    BY <2>4, <2>6, Join
  <2>. QED
    BY <2>7 DEF p1, p2, p3
<1>3. PlanTransports(r, c, w, b, cf) = IF list = <<>> /\ r.mode # "ws" THEN tcp ELSE list
  BY DEF PlanTransports
<1>. HIDE DEF tcp, paths
<1>4. ws \in Seq(PlanSet) /\ WorkersLead(ws)
  BY <1>2, NoPlans, NoneLead
<1>. HIDE DEF ws
<1>5. Fits(tcp) /\ Fits(ws) /\ Fits(ws \o tcp)
  BY <1>1, <1>4, Join, NoneLead
<1>6. RelayFirst(r) => Fits(tcp \o ws)
  BY <1>1, <1>4, Join
<1>. HIDE DEF Fits
<1>7. Fits(list)
  BY <1>5, <1>6
<1>. HIDE DEF list
<1>8. Fits(PlanTransports(r, c, w, b, cf))
  BY <1>3, <1>5, <1>7
<1>. QED
  BY <1>8 DEF Fits

-----------------------------------------------------------------------------
(* The invariant of one call: its request r, its place c, its plans p, the   *)
(* position n of its batch, its goroutines t with their errors e, taken k,   *)
(* the open connections o and the result w.                                  *)

Holding == {"connected", "claimed", "won"}

Typed(r, c, p, n, t, e, k, o, w) ==
  /\ r \in Requests
  /\ c \in {"idle", "pool", "filter", "race", "select", "probe", "over"}
  /\ p \in Seq(PlanSet)
  /\ n \in 1..(Len(p) + 1)
  /\ t \in [1..Len(p) -> Stage]
  /\ e \in [1..Len(p) -> ErrKind \cup {"none"}]
  /\ k \in BOOLEAN
  /\ o = {i \in 1..Len(p) : t[i] \in Holding}
  /\ w \in 0..Len(p)

\* A probe dials all plans at once and returns no connection.
Probing(c, p, n, t, k, w) ==
  /\ c \in {"idle", "probe", "over"}
  /\ c = "idle" => p = <<>>
  /\ \A i \in 1..Len(p) : t[i] \in {"dialing", "failed", "connected", "gone"}
  /\ c = "over" => \A i \in 1..Len(p) : t[i] = "gone"
  /\ n = 1 /\ w = 0

\* Batches before the current one have ended, those behind it have not begun.
Batched(c, p, n, t, w) ==
  /\ c # "probe"
  /\ c \in {"idle", "pool"} => p = <<>>
  /\ c \in {"idle", "pool", "filter"} => n = 1
  /\ c \in {"race", "select"} => n <= Len(p)
  /\ c \in {"idle", "pool", "filter", "race"} =>
       \A i \in 1..Len(p) : IF i < n THEN t[i] \in Ended ELSE t[i] = "wait"
  /\ c = "select" \/ w # 0 =>
       \A i \in 1..Len(p) :
         /\ i < n => t[i] \in Ended
         /\ i \in BatchFrom(p, n) => t[i] # "wait"
         /\ i >= n /\ i \notin BatchFrom(p, n) => t[i] = "wait"
  /\ c = "over" /\ w = 0 => \A i \in 1..Len(p) : t[i] \in Ended
  /\ w # 0 => c = "over" /\ w >= n /\ w \in BatchFrom(p, n) /\ t[w] = "won"

\* One goroutine of a batch claims the call, and the others see that.
OneWinner(c, p, n, t, k) ==
  /\ \A i \in n..Len(p) : t[i] \in {"claimed", "won", "lost", "quiet"} => k = TRUE
  /\ \A i, j \in n..Len(p) : t[i] \in {"claimed", "won"} /\ t[j] \in {"claimed", "won"} => i = j
  /\ c = "select" /\ k = TRUE => \E i \in n..Len(p) : t[i] \in {"claimed", "won"}

\* Who lost has lost to a winner of the same batch: on the same side of the leading Workers.
Beaten(p, t) ==
  \A i \in 1..Len(p) : t[i] \in {"lost", "quiet"} =>
    \E j \in 1..Len(p) :
      /\ t[j] \in {"claimed", "won"}
      /\ i <= LeadingWorkerCount(p) <=> j <= LeadingWorkerCount(p)

\* A dial that has failed has an error.
Explained(p, t, e) ==
  \A i \in 1..Len(p) : t[i] \in {"failed", "recording", "gone"} => e[i] # "none"

\* The leading Workers are all Workers, and a batch of their own.
Led(r, p, n) ==
  /\ RelayFirst(r) \/ WorkersLead(p)
  /\ n = 1 \/ LeadingWorkerCount(p) < n

Call(r, c, p, n, t, e, k, o, w) ==
  /\ Typed(r, c, p, n, t, e, k, o, w)
  /\ IF r.probe THEN Probing(c, p, n, t, k, w)
                ELSE /\ Batched(c, p, n, t, w) /\ OneWinner(c, p, n, t, k)
                     /\ Beaten(p, t) /\ Explained(p, t, e) /\ Led(r, p, n)

CallOf(a) == Call(req[a], pc[a], plans[a], pos[a], at[a], err[a], taken[a], open[a], result[a])

\* The cool-downs that all dials share.
Cools ==
  /\ cool \subseteq Key
  /\ wcool \subseteq Worker
  /\ black \subseteq DC
  /\ pen \subseteq Base \cup {"custom"}
  /\ pin \in [DC -> Base \cup {"custom"}]

Domains ==
  /\ DOMAIN pc = Caller /\ DOMAIN req = Caller /\ DOMAIN plans = Caller /\ DOMAIN pos = Caller
  /\ DOMAIN at = Caller /\ DOMAIN err = Caller /\ DOMAIN taken = Caller
  /\ DOMAIN open = Caller /\ DOMAIN result = Caller
  /\ pc = [a \in Caller |-> pc[a]]
  /\ req = [a \in Caller |-> req[a]]
  /\ taken = [a \in Caller |-> taken[a]]

IInv == Cools /\ Domains /\ \A a \in Caller : CallOf(a)

-----------------------------------------------------------------------------
(* The steps of one call. *)

\* An empty batch list has no positions.
LEMMA EmptyOrNot ==
  ASSUME NEW q \in Seq(PlanSet)
  PROVE  /\ Len(q) \in Nat
         /\ q = <<>> => Len(q) = 0
         /\ q # <<>> => Len(q) >= 1
  BY EmptySeq, LenProperties

\* A dial gets its plans, or keeps those that are ready.
LEMMA NewPlans ==
  ASSUME NEW r, NEW c \in {"idle", "pool", "filter"}, NEW p, NEW n, NEW t, NEW e, NEW k, NEW o,
         NEW w, Call(r, c, p, n, t, e, k, o, w), ~r.probe,
         NEW next \in {"filter", "race"}, NEW q \in Seq(PlanSet), RelayFirst(r) \/ WorkersLead(q)
  PROVE  Call(r, IF q = <<>> THEN "over" ELSE next, q, n, [i \in 1..Len(q) |-> "wait"],
              [i \in 1..Len(q) |-> "none"], k, o, w)
<1>. DEFINE t2 == [i \in 1..Len(q) |-> "wait"]
            e2 == [i \in 1..Len(q) |-> "none"]
            c2 == IF q = <<>> THEN "over" ELSE next
<1>1. /\ Typed(r, c, p, n, t, e, k, o, w) /\ Batched(c, p, n, t, w)
  BY DEF Call
<1>2. n = 1 /\ w = 0 /\ r \in Requests /\ k \in BOOLEAN
  BY <1>1 DEF Typed, Batched
<1>3. Len(q) \in Nat /\ (q = <<>> => Len(q) = 0) /\ (q # <<>> => Len(q) >= 1)
  BY EmptyOrNot
<1>4. o = {}
  <2>1. \A i \in 1..Len(p) : t[i] = "wait"
    <3>1. Len(p) \in Nat
      BY <1>1, LenProperties DEF Typed
    <3>. QED
      BY <1>1, <1>2, <3>1 DEF Batched
  <2>. QED
    BY <1>1, <2>1 DEF Typed, Holding
<1>5. Typed(r, c2, q, n, t2, e2, k, o, w)
  BY <1>2, <1>3, <1>4 DEF Typed, Stage, Holding
<1>6. Batched(c2, q, n, t2, w)
  BY <1>2, <1>3 DEF Batched
<1>7. OneWinner(c2, q, n, t2, k) /\ Beaten(q, t2) /\ Explained(q, t2, e2)
  BY <1>2, <1>3 DEF OneWinner, Beaten, Explained
<1>8. Led(r, q, n)
  BY <1>2 DEF Led
<1>. HIDE DEF t2, e2, c2
<1>9. Call(r, c2, q, n, t2, e2, k, o, w)
  BY <1>5, <1>6, <1>7, <1>8 DEF Call
<1>. QED
  BY <1>9 DEF t2, e2, c2

\* A probe gets its plans and dials them all.
LEMMA NewProbe ==
  ASSUME NEW r, NEW p, NEW n, NEW t, NEW e, NEW k, NEW o,
         NEW w, Call(r, "idle", p, n, t, e, k, o, w), r.probe,
         NEW q \in Seq(PlanSet)
  PROVE  Call(r, IF q = <<>> THEN "over" ELSE "probe", q, n, [i \in 1..Len(q) |-> "dialing"],
              [i \in 1..Len(q) |-> "none"], k, o, w)
<1>. DEFINE t2 == [i \in 1..Len(q) |-> "dialing"]
            e2 == [i \in 1..Len(q) |-> "none"]
            c2 == IF q = <<>> THEN "over" ELSE "probe"
<1>1. Typed(r, "idle", p, n, t, e, k, o, w) /\ Probing("idle", p, n, t, k, w)
  BY DEF Call
<1>2. n = 1 /\ w = 0 /\ r \in Requests /\ k \in BOOLEAN /\ p = <<>>
  BY <1>1 DEF Typed, Probing
<1>3. Len(q) \in Nat /\ (q = <<>> => Len(q) = 0)
  BY EmptyOrNot
<1>4. o = {}
  <2>1. Len(p) = 0
    BY <1>2, NoPlans
  <2>. QED
    BY <1>1, <2>1 DEF Typed
<1>5. Typed(r, c2, q, n, t2, e2, k, o, w)
  BY <1>2, <1>3, <1>4 DEF Typed, Stage, Holding
<1>6. Probing(c2, q, n, t2, k, w)
  BY <1>2, <1>3 DEF Probing
<1>. HIDE DEF t2, e2, c2
<1>7. Call(r, c2, q, n, t2, e2, k, o, w)
  BY <1>5, <1>6 DEF Call
<1>. QED
  BY <1>7 DEF t2, e2, c2

\* A batch begins.
LEMMA BatchBegins ==
  ASSUME NEW r, NEW p, NEW n, NEW t, NEW e, NEW k, NEW o, NEW w,
         Call(r, "race", p, n, t, e, k, o, w), r.probe \in BOOLEAN, NEW t2,
         t2 = [i \in 1..Len(p) |-> IF i \in BatchFrom(p, n) THEN "dialing" ELSE t[i]]
  PROVE  Call(r, "select", p, n, t2, e, FALSE, o, w)
<1>1. /\ Typed(r, "race", p, n, t, e, k, o, w) /\ Batched("race", p, n, t, w)
      /\ Beaten(p, t) /\ Explained(p, t, e) /\ Led(r, p, n) /\ ~r.probe
  BY DEF Call, Probing
<1>2. Len(p) \in Nat /\ n \in 1..Len(p) /\ w = 0
  BY <1>1, LenProperties DEF Typed, Batched
<1>3. PICK l \in n..Len(p) : BatchFrom(p, n) = n..l
  BY <1>2, BatchIs
<1>4. \A i \in 1..Len(p) : IF i < n THEN t[i] \in Ended ELSE t[i] = "wait"
  BY <1>1 DEF Batched
<1>5. \A i \in 1..Len(p) : t2[i] = IF i < n THEN t[i] ELSE IF i <= l THEN "dialing" ELSE "wait"
  BY <1>2, <1>3, <1>4
<1>6. t2 \in [1..Len(p) -> Stage] /\ o = {i \in 1..Len(p) : t2[i] \in Holding}
  <2>1. t2 \in [1..Len(p) -> Stage]
    BY <1>1 DEF Typed, Stage
  <2>2. \A i \in 1..Len(p) : t[i] \in Holding <=> t2[i] \in Holding
    BY <1>4, <1>5 DEF Holding
  <2>. QED
    BY <1>1, <2>1, <2>2 DEF Typed
<1>7. Typed(r, "select", p, n, t2, e, FALSE, o, w)
  BY <1>1, <1>6 DEF Typed
<1>8. Batched("select", p, n, t2, w)
  BY <1>2, <1>3, <1>4, <1>5 DEF Batched
<1>9. OneWinner("select", p, n, t2, FALSE) /\ Explained(p, t2, e)
  BY <1>1, <1>2, <1>4, <1>5 DEF OneWinner, Explained
<1>10. Beaten(p, t2)
  <2>1. \A i \in 1..Len(p) : t2[i] \in {"lost", "quiet"} => t2[i] = t[i]
    BY <1>5
  <2>2. \A i \in 1..Len(p) : t[i] \in {"claimed", "won"} => t2[i] = t[i]
    BY <1>4, <1>5
  <2>. QED
    BY <1>1, <2>1, <2>2 DEF Beaten
<1>. QED
  BY <1>1, <1>7, <1>8, <1>9, <1>10 DEF Call

\* The select receives the connection of the winner.
LEMMA WinnerReturned ==
  ASSUME NEW r, NEW p, NEW n, NEW t, NEW e, NEW k, NEW o, NEW w,
         Call(r, "select", p, n, t, e, k, o, w), r.probe \in BOOLEAN,
         NEW i \in BatchFrom(p, n), t[i] = "won"
  PROVE  Call(r, "over", p, n, t, e, k, o, i)
<1>1. /\ Typed(r, "select", p, n, t, e, k, o, w) /\ Batched("select", p, n, t, w)
      /\ OneWinner("select", p, n, t, k) /\ Beaten(p, t) /\ Explained(p, t, e)
      /\ Led(r, p, n) /\ ~r.probe
  BY DEF Call, Probing
<1>2. Len(p) \in Nat /\ n \in 1..Len(p)
  BY <1>1, LenProperties DEF Typed, Batched
<1>3. i \in 1..Len(p) /\ i >= n
  <2>1. PICK l \in n..Len(p) : BatchFrom(p, n) = n..l
    BY <1>2, BatchIs
  <2>. QED
    BY <1>2, <2>1
<1>4. Typed(r, "over", p, n, t, e, k, o, i)
  BY <1>1, <1>2, <1>3 DEF Typed
<1>5. Batched("over", p, n, t, i)
  BY <1>1, <1>3 DEF Batched
<1>6. OneWinner("over", p, n, t, k)
  BY <1>1 DEF OneWinner
<1>. QED
  BY <1>1, <1>4, <1>5, <1>6 DEF Call

\* All goroutines of a batch have ended: the batch is past.
LEMMA BatchPasses ==
  ASSUME NEW r, NEW p, NEW n, NEW t, NEW e, NEW k, NEW o, NEW w,
         Call(r, "select", p, n, t, e, k, o, w), r.probe \in BOOLEAN,
         \A i \in BatchFrom(p, n) : t[i] \in Ended,
         NEW m, m = n + Cardinality(BatchFrom(p, n))
  PROVE  /\ Call(r, IF m <= Len(p) THEN "race" ELSE "over", p, m, t, e, k, o, w)
         /\ \A i \in 1..Len(p) : IF i < m THEN t[i] \in Ended ELSE t[i] = "wait"
<1>. DEFINE c == IF m <= Len(p) THEN "race" ELSE "over"
<1>1. /\ Typed(r, "select", p, n, t, e, k, o, w) /\ Batched("select", p, n, t, w)
      /\ OneWinner("select", p, n, t, k) /\ Beaten(p, t) /\ Explained(p, t, e)
      /\ Led(r, p, n) /\ ~r.probe
  BY DEF Call, Probing
<1>2. Len(p) \in Nat /\ n \in 1..Len(p) /\ w = 0
  BY <1>1, LenProperties DEF Typed, Batched
<1>3. PICK l \in n..Len(p) : /\ BatchFrom(p, n) = n..l /\ m = l + 1
                             /\ n = 1 /\ LeadingWorkerCount(p) > 0 => l = LeadingWorkerCount(p)
  BY <1>2, BatchIs
<1>4. \A i \in 1..Len(p) : /\ i < n => t[i] \in Ended
                           /\ i \in n..l => t[i] \in Ended
                           /\ i > l => t[i] = "wait"
  BY <1>1, <1>2, <1>3 DEF Batched
<1>6. \A i \in 1..Len(p) : IF i < m THEN t[i] \in Ended ELSE t[i] = "wait"
  BY <1>2, <1>3, <1>4
<1>7. Typed(r, c, p, m, t, e, k, o, w)
  BY <1>1, <1>2, <1>3 DEF Typed
<1>8. Batched(c, p, m, t, w)
  BY <1>2, <1>3, <1>6 DEF Batched
<1>9. OneWinner(c, p, m, t, k)
  <2>1. \A i \in m..Len(p) : t[i] = "wait"
    BY <1>2, <1>3, <1>6
  <2>. QED
    BY <2>1 DEF OneWinner
<1>10. Led(r, p, m)
  <2>1. LeadingWorkerCount(p) \in 0..Len(p)
    BY <1>2, Leading
  <2>. QED
    BY <1>1, <1>2, <1>3, <2>1 DEF Led
<1>. HIDE DEF c
<1>11. Call(r, c, p, m, t, e, k, o, w)
  BY <1>1, <1>7, <1>8, <1>9, <1>10 DEF Call
<1>. QED
  BY <1>6, <1>11 DEF c

\* A batch is on one side of the leading Workers.
LEMMA OneSide ==
  ASSUME NEW r, NEW p, Len(p) \in Nat, NEW n \in 1..Len(p), Led(r, p, n),
         NEW i \in BatchFrom(p, n), NEW j \in BatchFrom(p, n)
  PROVE  i <= LeadingWorkerCount(p) <=> j <= LeadingWorkerCount(p)
<1>. DEFINE l == LeadingWorkerCount(p)
<1>1. l \in 0..Len(p)
  BY Leading
<1>2. PICK e \in n..Len(p) : BatchFrom(p, n) = n..e /\ (n = 1 /\ l > 0 => e = l)
  BY BatchIs
<1>3. n = 1 \/ l < n
  BY DEF Led
<1>. HIDE DEF l
<1>4. i \in n..e /\ j \in n..e
  BY <1>2
<1>5. i <= l <=> j <= l
  BY <1>1, <1>2, <1>3, <1>4
<1>. QED
  BY <1>5 DEF l

\* A goroutine of a dial goes from place u, where taken is k, on to place y with the error x
\* and leaves taken as k2: it claims the call only when nobody else has, and nobody else
\* sets taken.
Moves(u, k, y, x, k2) ==
  /\ u \in {"dialing", "failed", "recording", "connected", "claimed"}
  /\ y \in Stage /\ y # "wait" /\ x \in ErrKind \cup {"none"} /\ k2 \in BOOLEAN
  /\ y \in {"failed", "recording", "gone"} => x # "none"
  /\ k = TRUE => k2 = TRUE
  /\ y \in {"claimed", "won", "lost", "quiet"} => k2 = TRUE
  /\ y \in {"claimed", "won"} => u = "claimed" \/ k = FALSE
  /\ u = "claimed" => y = "won"
  /\ k2 = TRUE /\ k = FALSE => y = "claimed"

\* A step of the goroutine of plan i, of a dial.
LEMMA DialStep ==
  ASSUME NEW r, NEW c, NEW p, NEW n, NEW t, NEW e, NEW k, NEW o, NEW w,
         Call(r, c, p, n, t, e, k, o, w), ~r.probe,
         NEW i \in 1..Len(p), NEW y, NEW x, NEW k2, Moves(t[i], k, y, x, k2),
         NEW t2, t2 = [t EXCEPT ![i] = y], NEW e2, e2 = [e EXCEPT ![i] = x],
         NEW o2, o2 = IF y \in Holding THEN o \cup {i} ELSE o \ {i}
  PROVE  Call(r, c, p, n, t2, e2, k2, o2, w)
<1>1. /\ Typed(r, c, p, n, t, e, k, o, w) /\ Batched(c, p, n, t, w)
      /\ OneWinner(c, p, n, t, k) /\ Beaten(p, t) /\ Explained(p, t, e) /\ Led(r, p, n)
  BY DEF Call
<1>0. /\ t[i] \in {"dialing", "failed", "recording", "connected", "claimed"}
      /\ y \in Stage /\ y # "wait" /\ x \in ErrKind \cup {"none"} /\ k2 \in BOOLEAN
      /\ y \in {"failed", "recording", "gone"} => x # "none"
      /\ k = TRUE => k2 = TRUE
      /\ y \in {"claimed", "won", "lost", "quiet"} => k2 = TRUE
      /\ y \in {"claimed", "won"} => t[i] = "claimed" \/ k = FALSE
      /\ t[i] = "claimed" => y = "won"
      /\ k2 = TRUE /\ k = FALSE => y = "claimed"
  BY DEF Moves
<1>2. /\ \A j \in 1..Len(p) : t2[j] = IF j = i THEN y ELSE t[j]
      /\ \A j \in 1..Len(p) : e2[j] = IF j = i THEN x ELSE e[j]
      /\ t2 \in [1..Len(p) -> Stage] /\ e2 \in [1..Len(p) -> ErrKind \cup {"none"}]
  BY <1>0, <1>1 DEF Typed
<1>3. o2 = {j \in 1..Len(p) : t2[j] \in Holding}
  <2>1. o = {j \in 1..Len(p) : t[j] \in Holding}
    BY <1>0, <1>1 DEF Typed
  <2>. QED
    BY <1>2, <2>1
<1>4. Typed(r, c, p, n, t2, e2, k2, o2, w)
  BY <1>0, <1>1, <1>2, <1>3 DEF Typed
<1>5. c = "select" \/ w # 0
  <2>1. Len(p) \in Nat /\ n \in Int
    BY <1>0, <1>1, LenProperties DEF Typed
  <2>. QED
    BY <1>0, <1>1, <2>1 DEF Batched, Typed, Ended
<1>6. Batched(c, p, n, t2, w)
  <2>1. \A j \in 1..Len(p) :
          /\ j < n => t2[j] \in Ended
          /\ j \in BatchFrom(p, n) => t2[j] # "wait"
          /\ j >= n /\ j \notin BatchFrom(p, n) => t2[j] = "wait"
    <3>1. ~(i < n) /\ ~(i >= n /\ i \notin BatchFrom(p, n))
      BY <1>0, <1>1, <1>5 DEF Batched, Ended
    <3>. QED
      BY <1>0, <1>1, <1>2, <1>5, <3>1 DEF Batched
  <2>2. c \in {"select", "over"}
    BY <1>0, <1>1, <1>5 DEF Batched
  <2>3. w # 0 => t2[w] = "won"
    <3>1. w # 0 => w # i /\ w \in 1..Len(p) /\ t[w] = "won"
      <4>1. Len(p) \in Nat
        BY <1>0, <1>1, LenProperties DEF Typed
      <4>. QED
        BY <1>0, <1>1, <4>1 DEF Batched, Typed
    <3>. QED
      BY <1>2, <3>1
  <2>. QED
    BY <1>0, <1>1, <1>5, <2>1, <2>2, <2>3 DEF Batched
<1>7. OneWinner(c, p, n, t2, k2)
  <2>0. Len(p) \in Nat /\ n \in 1..(Len(p) + 1) /\ i \in n..Len(p) /\ n..Len(p) \subseteq 1..Len(p)
    <3>1. Len(p) \in Nat /\ n \in 1..(Len(p) + 1)
      BY <1>0, <1>1, LenProperties DEF Typed
    <3>2. ~(i < n)
      BY <1>0, <1>1, <1>5 DEF Batched, Ended
    <3>. QED
      BY <3>1, <3>2
  <2>1. \A j \in n..Len(p) : t2[j] \in {"claimed", "won", "lost", "quiet"} => k2 = TRUE
    BY <1>0, <1>1, <1>2, <2>0 DEF OneWinner
  <2>2. ASSUME NEW j \in n..Len(p), NEW l \in n..Len(p),
               t2[j] \in {"claimed", "won"}, t2[l] \in {"claimed", "won"}
        PROVE  j = l
    <3>1. k = FALSE => \A q \in n..Len(p) : t[q] \notin {"claimed", "won"}
      BY <1>0, <1>1 DEF OneWinner
    <3>2. y \in {"claimed", "won"} /\ k = TRUE => t[i] = "claimed"
      BY <1>0
    <3>3. k \in BOOLEAN
      BY <1>0, <1>1 DEF Typed
    <3>. QED
      BY <1>0, <1>1, <1>2, <2>0, <2>2, <3>1, <3>2, <3>3 DEF OneWinner
  <2>3. ASSUME c = "select", k2 = TRUE PROVE \E j \in n..Len(p) : t2[j] \in {"claimed", "won"}
    <3>1. CASE k = TRUE
      <4>1. PICK j \in n..Len(p) : t[j] \in {"claimed", "won"}
        BY <1>0, <1>1, <2>3, <3>1 DEF OneWinner
      <4>. QED
        BY <1>0, <1>2, <2>0, <4>1
    <3>2. CASE k = FALSE
      BY <1>0, <1>2, <2>0, <2>3, <3>2
    <3>. QED
      BY <1>0, <1>1, <3>1, <3>2 DEF Typed
  <2>. QED
    BY <2>1, <2>2, <2>3 DEF OneWinner
<1>8. Explained(p, t2, e2)
  BY <1>0, <1>1, <1>2 DEF Explained
<1>9. Beaten(p, t2)
  <2>. DEFINE side(j) == j <= LeadingWorkerCount(p)
  <2>. SUFFICES ASSUME NEW q \in 1..Len(p), t2[q] \in {"lost", "quiet"}
                PROVE  \E j \in 1..Len(p) : t2[j] \in {"claimed", "won"} /\ (side(q) <=> side(j))
    BY DEF Beaten
  <2>1. \A j \in 1..Len(p) : t[j] \in {"claimed", "won"} => t2[j] \in {"claimed", "won"}
    BY <1>0, <1>2
  <2>2. CASE q # i
    <3>1. t[q] \in {"lost", "quiet"}
      BY <1>2, <2>2
    <3>. QED
      BY <1>1, <2>1, <3>1 DEF Beaten
  <2>3. CASE q = i
    <3>1. y \in {"lost", "quiet"} /\ k = TRUE
      BY <1>0, <1>1, <1>2, <2>3 DEF Typed
    <3>2. Len(p) \in Nat /\ n \in 1..(Len(p) + 1)
      BY <1>1, LenProperties DEF Typed
    <3>3. PICK j \in n..Len(p) : t[j] \in {"claimed", "won"}
      <4>1. CASE c = "select"
        BY <1>1, <3>1, <4>1 DEF OneWinner
      <4>2. CASE w # 0
        BY <1>1, <3>2, <4>2 DEF Batched, Typed
      <4>. QED
        BY <1>5, <4>1, <4>2
    <3>4. /\ j \in 1..Len(p) /\ j \in BatchFrom(p, n) /\ i \in BatchFrom(p, n)
          /\ n \in 1..Len(p)
      BY <1>0, <1>1, <1>5, <3>2, <3>3 DEF Batched, Ended
    <3>5. side(i) <=> side(j)
      BY <1>1, <3>2, <3>4, OneSide
    <3>. QED
      BY <2>1, <2>3, <3>3, <3>4, <3>5
  <2>. QED
    BY <2>2, <2>3
<1>. QED
  BY <1>0, <1>1, <1>4, <1>6, <1>7, <1>8, <1>9 DEF Call

\* A step of the goroutine of plan i, of a probe.
LEMMA ProbeStep ==
  ASSUME NEW r, NEW c, NEW p, NEW n, NEW t, NEW e, NEW k, NEW o, NEW w,
         Call(r, c, p, n, t, e, k, o, w), r.probe,
         NEW i \in 1..Len(p), t[i] # "gone",
         NEW y \in {"failed", "connected", "gone"}, NEW x \in ErrKind \cup {"none"},
         NEW t2, t2 = [t EXCEPT ![i] = y], NEW e2, e2 = [e EXCEPT ![i] = x],
         NEW o2, o2 = IF y \in Holding THEN o \cup {i} ELSE o \ {i}
  PROVE  Call(r, c, p, n, t2, e2, k, o2, w)
<1>1. Typed(r, c, p, n, t, e, k, o, w) /\ Probing(c, p, n, t, k, w)
  BY DEF Call
<1>2. /\ \A j \in 1..Len(p) : t2[j] = IF j = i THEN y ELSE t[j]
      /\ t2 \in [1..Len(p) -> Stage] /\ e2 \in [1..Len(p) -> ErrKind \cup {"none"}]
  BY <1>1 DEF Typed, Stage
<1>3. o2 = {j \in 1..Len(p) : t2[j] \in Holding}
  <2>1. o = {j \in 1..Len(p) : t[j] \in Holding}
    BY <1>1 DEF Typed
  <2>. QED
    BY <1>2, <2>1
<1>4. Typed(r, c, p, n, t2, e2, k, o2, w)
  BY <1>1, <1>2, <1>3 DEF Typed
<1>5. Probing(c, p, n, t2, k, w)
  BY <1>1, <1>2 DEF Probing
<1>. QED
  BY <1>4, <1>5 DEF Call

\* A dial looks for a connection in the pool ...
LEMMA PoolTried ==
  ASSUME NEW r, NEW p, NEW n, NEW t, NEW e, NEW k, NEW o, NEW w,
         Call(r, "idle", p, n, t, e, k, o, w), ~r.probe
  PROVE  Call(r, "pool", p, n, t, e, k, o, w)
<1>1. /\ Typed(r, "idle", p, n, t, e, k, o, w) /\ Batched("idle", p, n, t, w)
      /\ OneWinner("idle", p, n, t, k) /\ Beaten(p, t) /\ Explained(p, t, e) /\ Led(r, p, n)
  BY DEF Call
<1>2. Typed(r, "pool", p, n, t, e, k, o, w)
  BY <1>1 DEF Typed
<1>3. Batched("pool", p, n, t, w)
  BY <1>1 DEF Batched
<1>4. OneWinner("pool", p, n, t, k)
  BY <1>1 DEF OneWinner
<1>. QED
  BY <1>1, <1>2, <1>3, <1>4 DEF Call

\* ... and is over when it gets one.
LEMMA PoolHit ==
  ASSUME NEW r, NEW p, NEW n, NEW t, NEW e, NEW k, NEW o, NEW w,
         Call(r, "pool", p, n, t, e, k, o, w), r.probe \in BOOLEAN
  PROVE  Call(r, "over", p, n, t, e, k, o, w)
<1>1. /\ Typed(r, "pool", p, n, t, e, k, o, w) /\ Batched("pool", p, n, t, w)
      /\ OneWinner("pool", p, n, t, k) /\ Beaten(p, t) /\ Explained(p, t, e)
      /\ Led(r, p, n) /\ ~r.probe
  BY DEF Call, Probing
<1>2. Len(p) = 0 /\ w = 0
  <2>1. p = <<>> /\ w \in 0..Len(p)
    BY <1>1 DEF Batched, Typed
  <2>. QED
    BY <2>1, NoPlans
<1>3. Typed(r, "over", p, n, t, e, k, o, w)
  BY <1>1 DEF Typed
<1>4. Batched("over", p, n, t, w)
  BY <1>1, <1>2 DEF Batched
<1>5. OneWinner("over", p, n, t, k)
  BY <1>1 DEF OneWinner
<1>. QED
  BY <1>1, <1>3, <1>4, <1>5 DEF Call

\* A probe is over when all of its goroutines are.
LEMMA AllProbed ==
  ASSUME NEW r, NEW p, NEW n, NEW t, NEW e, NEW k, NEW o, NEW w,
         Call(r, "probe", p, n, t, e, k, o, w), r.probe \in BOOLEAN,
         \A i \in 1..Len(p) : t[i] = "gone"
  PROVE  Call(r, "over", p, n, t, e, k, o, w)
<1>1. Typed(r, "probe", p, n, t, e, k, o, w) /\ Probing("probe", p, n, t, k, w) /\ r.probe
  BY DEF Call, Batched
<1>2. Typed(r, "over", p, n, t, e, k, o, w)
  BY <1>1 DEF Typed
<1>3. Probing("over", p, n, t, k, w)
  BY <1>1 DEF Probing
<1>. QED
  BY <1>1, <1>2, <1>3 DEF Call

-----------------------------------------------------------------------------
(* The steps of the system: those of one call, and of the cool-downs. *)

\* The fields of a plan.
LEMMA PlanFields ==
  ASSUME NEW p \in Seq(PlanSet), NEW i \in 1..Len(p)
  PROVE  /\ p[i].key \in Key /\ p[i].kind \in {"tcp", "ws"} /\ p[i].worker \in BOOLEAN
         /\ p[i].worker => p[i].sni \in Worker
         /\ p[i].cf \in Base \cup {"custom", NoBase}
<1>1. p[i] \in PlanSet
  BY ElementOfSeq
<1>. QED
  BY <1>1 DEF PlanSet

\* The domains for a data centre.
LEMMA DomainList ==
  ASSUME Cools, NEW d \in DC, NEW cf \in DomainsForDC(d)
  PROVE  cf \in Seq(Base \cup {"custom"})
<1>. DEFINE B == Base \cup {"custom"}
            active == IF pin[d] \in pen THEN <<>> ELSE <<pin[d]>>
            rest == Base \ (pen \cup {pin[d]})
<1>1. PICK s \in SetToSeqs(rest) : cf = active \o s
  BY DEF DomainsForDC
<1>2. s \in [1..Cardinality(rest) -> rest]
  BY <1>1 DEF SetToSeqs
<1>3. Cardinality(rest) \in Nat
  BY PoolIsFinite, FS_Subset, FS_CardinalityType
<1>4. s \in [1..Cardinality(rest) -> B]
  BY <1>2
<1>5. pin[d] \in B
  BY DEF Cools
<1>. HIDE DEF B, rest
<1>6. s \in Seq(B)
  BY <1>3, <1>4, IsList
<1>7. active \in Seq(B)
  <2>1. <<pin[d]>> \in [1..1 -> B]
    BY <1>5
  <2>. QED
    BY <2>1, IsList, EmptySeq
<1>. HIDE DEF active
<1>8. active \o s \in Seq(B)
  BY <1>6, <1>7, ConcatProperties
<1>. QED
  BY <1>1, <1>8 DEF B

\* Only the call a changes.
Else(a) ==
  \A b \in Caller \ {a} :
    /\ pc'[b] = pc[b] /\ req'[b] = req[b] /\ plans'[b] = plans[b] /\ pos'[b] = pos[b]
    /\ at'[b] = at[b] /\ err'[b] = err[b] /\ taken'[b] = taken[b] /\ open'[b] = open[b]
    /\ result'[b] = result[b]

\* Then the invariant is left to that call and to the cool-downs.
LEMMA OneCall ==
  ASSUME IInv, NEW a \in Caller, Else(a), Domains', Cools', CallOf(a)'
  PROVE  IInv'
<1>1. ASSUME NEW b \in Caller PROVE CallOf(b)'
  <2>1. CASE b = a
    BY <2>1
  <2>2. CASE b # a
    BY <2>2 DEF IInv, Else, CallOf
  <2>. QED
    BY <2>1, <2>2
<1>. QED
  BY <1>1 DEF IInv

\* What the invariant says of a call.
LEMMA Facts ==
  ASSUME IInv, NEW a \in Caller
  PROVE  /\ CallOf(a) /\ req[a] \in Requests /\ req[a].probe \in BOOLEAN /\ req[a].dc \in DC
         /\ plans[a] \in Seq(PlanSet) /\ Len(plans[a]) \in Nat
<1>1. req[a] \in Requests /\ plans[a] \in Seq(PlanSet)
  BY DEF IInv, CallOf, Call, Typed
<1>. QED
  BY <1>1, RequestFields, LenProperties DEF IInv

\* The first state.
LEMMA InvInit == Init => IInv
<1>. SUFFICES ASSUME Init PROVE IInv
  OBVIOUS
<1>1. Cools /\ Domains
  BY DEF Init, Cools, Domains
<1>2. ASSUME NEW a \in Caller PROVE CallOf(a)
  <2>1. req[a] \in Requests
    BY DEF Init
  <2>2. /\ <<>> \in Seq(PlanSet) /\ <<>> \in Seq(Stage) /\ <<>> \in Seq(ErrKind \cup {"none"})
        /\ Len(<<>>) = 0
    BY EmptySeq
  <2>3. <<>> \in [1..Len(<<>>) -> Stage] /\ <<>> \in [1..Len(<<>>) -> ErrKind \cup {"none"}]
    BY <2>2, LenProperties
  <2>4. Typed(req[a], "idle", <<>>, 1, <<>>, <<>>, FALSE, {}, 0)
    BY <2>1, <2>2, <2>3 DEF Typed
  <2>5. Probing("idle", <<>>, 1, <<>>, FALSE, 0) /\ Batched("idle", <<>>, 1, <<>>, 0)
    BY <2>2 DEF Probing, Batched
  <2>6. /\ OneWinner("idle", <<>>, 1, <<>>, FALSE)
        /\ Beaten(<<>>, <<>>) /\ Explained(<<>>, <<>>, <<>>)
    BY <2>2 DEF OneWinner, Beaten, Explained
  <2>7. Led(req[a], <<>>, 1)
    BY NoPlans, NoneLead DEF Led
  <2>8. Call(req[a], "idle", <<>>, 1, <<>>, <<>>, FALSE, {}, 0)
    BY <2>4, <2>5, <2>6, <2>7 DEF Call
  <2>. QED
    BY <2>8 DEF Init, CallOf
<1>. QED
  BY <1>1, <1>2 DEF IInv

\* The handler looks for a connection in the pool, and takes one.
LEMMA InvPool ==
  ASSUME IInv, NEW a \in Caller, TryPool(a) \/ FromPool(a)
  PROVE  IInv'
<1>1. Else(a) /\ Domains'
  BY DEF IInv, Domains, Else, TryPool, FromPool, callVars, raceVars
<1>2. Cools'
  BY DEF IInv, Cools, TryPool, FromPool, coolVars
<1>3. /\ req'[a] = req[a] /\ plans'[a] = plans[a] /\ pos'[a] = pos[a] /\ at'[a] = at[a]
      /\ err'[a] = err[a] /\ taken'[a] = taken[a] /\ open'[a] = open[a] /\ result'[a] = result[a]
  BY DEF TryPool, FromPool, raceVars
<1>4. CallOf(a)'
  <2>1. CASE TryPool(a)
    <3>1. pc[a] = "idle" /\ ~req[a].probe /\ pc'[a] = "pool"
      BY <2>1 DEF TryPool, IInv, Domains
    <3>. QED
      BY <1>3, <3>1, Facts, PoolTried DEF CallOf
  <2>2. CASE FromPool(a)
    <3>1. pc[a] = "pool" /\ pc'[a] = "over"
      BY <2>2 DEF FromPool, IInv, Domains
    <3>. QED
      BY <1>3, <3>1, Facts, PoolHit DEF CallOf
  <2>. QED
    BY <2>1, <2>2
<1>. QED
  BY <1>1, <1>2, <1>4, OneCall

\* It plans its dial, and a probe starts to dial.
LEMMA InvPlan ==
  ASSUME IInv, NEW a \in Caller, PlanDial(a) \/ Probe(a)
  PROVE  IInv'
<1>. DEFINE next == IF req[a].probe THEN "probe" ELSE "filter"
            stage == IF req[a].probe THEN "dialing" ELSE "wait"
<1>1. Planned(a, next, stage)
  <2>1. CASE PlanDial(a)
    BY <2>1 DEF PlanDial
  <2>2. CASE Probe(a)
    BY <2>2 DEF Probe
  <2>. QED
    BY <2>1, <2>2
<1>. HIDE DEF next, stage
<1>2. PICK cf \in DomainsForDC(req[a].dc) :
        LET p == PlanTransports(req[a], cool, wcool, req[a].dc \in black, cf) IN
        /\ plans' = [plans EXCEPT ![a] = p]
        /\ pc' = [pc EXCEPT ![a] = IF p = <<>> THEN "over" ELSE next]
        /\ at' = [at EXCEPT ![a] = [i \in 1..Len(p) |-> stage]]
        /\ err' = [err EXCEPT ![a] = [i \in 1..Len(p) |-> "none"]]
  BY <1>1 DEF Planned
<1>3. pc[a] \in {"idle", "pool"} /\ UNCHANGED <<coolVars, req, pos, result, taken, open>>
  BY <1>1 DEF Planned
<1>. DEFINE p == PlanTransports(req[a], cool, wcool, req[a].dc \in black, cf)
<1>4. p \in Seq(PlanSet) /\ (RelayFirst(req[a]) \/ WorkersLead(p))
  <2>1. cf \in Seq(Base \cup {"custom"})
    BY Facts, DomainList DEF IInv
  <2>2. req[a] \in Requests /\ (req[a].dc \in black) \in BOOLEAN
    BY Facts
  <2>. QED
    BY <2>1, <2>2, TransportList
<1>5. /\ plans' = [plans EXCEPT ![a] = p]
      /\ pc' = [pc EXCEPT ![a] = IF p = <<>> THEN "over" ELSE next]
      /\ at' = [at EXCEPT ![a] = [i \in 1..Len(p) |-> stage]]
      /\ err' = [err EXCEPT ![a] = [i \in 1..Len(p) |-> "none"]]
  BY <1>2
<1>. HIDE DEF p
<1>6. Else(a) /\ Domains'
  BY <1>3, <1>5 DEF IInv, Domains, Else
<1>7. Cools'
  BY <1>3 DEF IInv, Cools, coolVars
<1>8. /\ req'[a] = req[a] /\ plans'[a] = p /\ pos'[a] = pos[a]
      /\ pc'[a] = IF p = <<>> THEN "over" ELSE next
      /\ at'[a] = [i \in 1..Len(p) |-> stage] /\ err'[a] = [i \in 1..Len(p) |-> "none"]
      /\ taken'[a] = taken[a] /\ open'[a] = open[a] /\ result'[a] = result[a]
  BY <1>3, <1>5 DEF IInv, Domains
<1>9. CallOf(a)'
  <2>1. CallOf(a)
    BY Facts
  <2>2. CASE req[a].probe
    <3>1. pc[a] = "idle"
      BY <1>3, <2>1, <2>2 DEF CallOf, Call, Probing
    <3>2. Call(req[a], IF p = <<>> THEN "over" ELSE "probe", p, pos[a],
               [i \in 1..Len(p) |-> "dialing"], [i \in 1..Len(p) |-> "none"],
               taken[a], open[a], result[a])
      BY <1>4, <2>1, <2>2, <3>1, NewProbe DEF CallOf
    <3>. QED
      BY <1>8, <2>2, <3>2 DEF CallOf, next, stage
  <2>3. CASE ~req[a].probe
    <3>1. Call(req[a], IF p = <<>> THEN "over" ELSE "filter", p, pos[a],
               [i \in 1..Len(p) |-> "wait"], [i \in 1..Len(p) |-> "none"],
               taken[a], open[a], result[a])
      <4>1. pc[a] \in {"idle", "pool", "filter"} /\ "filter" \in {"filter", "race"}
        BY <1>3
      <4>2. Call(req[a], pc[a], plans[a], pos[a], at[a], err[a], taken[a], open[a], result[a])
        BY <2>1 DEF CallOf
      <4>. QED
        BY <1>4, <2>3, <4>1, <4>2, NewPlans, Zenon
    <3>. QED
      BY <1>8, <2>3, <3>1 DEF CallOf, next, stage
  <2>. QED
    BY <2>2, <2>3
<1>. QED
  BY <1>6, <1>7, <1>9, OneCall

\* It leaves out what has got into cool-down.
LEMMA InvFilter ==
  ASSUME IInv, NEW a \in Caller, Filter(a)
  PROVE  IInv'
<1>. DEFINE q == FilterReadyPlans(plans[a], cool, wcool)
<1>1. /\ pc[a] = "filter"
      /\ plans' = [plans EXCEPT ![a] = q]
      /\ pc' = [pc EXCEPT ![a] = IF q = <<>> THEN "over" ELSE "race"]
      /\ at' = [at EXCEPT ![a] = [i \in 1..Len(q) |-> "wait"]]
      /\ err' = [err EXCEPT ![a] = [i \in 1..Len(q) |-> "none"]]
      /\ UNCHANGED <<coolVars, req, pos, result, taken, open>>
  BY DEF Filter
<1>2. CallOf(a) /\ req[a].probe \in BOOLEAN /\ plans[a] \in Seq(PlanSet)
  BY Facts
<1>3. ~req[a].probe
  BY <1>1, <1>2 DEF CallOf, Call, Probing
<1>4. q \in Seq(PlanSet) /\ (RelayFirst(req[a]) \/ WorkersLead(q))
  <2>1. RelayFirst(req[a]) \/ WorkersLead(plans[a])
    BY <1>2, <1>3 DEF CallOf, Call, Led
  <2>. QED
    BY <1>2, <2>1, ReadyPlans DEF FilterReadyPlans
<1>. HIDE DEF q
<1>5. Else(a) /\ Domains'
  BY <1>1 DEF IInv, Domains, Else
<1>6. Cools'
  BY <1>1 DEF IInv, Cools, coolVars
<1>7. /\ req'[a] = req[a] /\ plans'[a] = q /\ pos'[a] = pos[a]
      /\ pc'[a] = IF q = <<>> THEN "over" ELSE "race"
      /\ at'[a] = [i \in 1..Len(q) |-> "wait"] /\ err'[a] = [i \in 1..Len(q) |-> "none"]
      /\ taken'[a] = taken[a] /\ open'[a] = open[a] /\ result'[a] = result[a]
  BY <1>1 DEF IInv, Domains
<1>8. CallOf(a)'
  <2>1. Call(req[a], IF q = <<>> THEN "over" ELSE "race", q, pos[a],
             [i \in 1..Len(q) |-> "wait"], [i \in 1..Len(q) |-> "none"],
             taken[a], open[a], result[a])
    BY <1>1, <1>2, <1>3, <1>4, NewPlans DEF CallOf
  <2>. QED
    BY <1>7, <2>1 DEF CallOf
<1>. QED
  BY <1>5, <1>6, <1>8, OneCall

\* It starts a batch.
LEMMA InvStartBatch ==
  ASSUME IInv, NEW a \in Caller, StartBatch(a)
  PROVE  IInv'
<1>1. Else(a) /\ Domains'
  BY DEF IInv, Domains, Else, StartBatch
<1>2. Cools'
  BY DEF IInv, Cools, StartBatch, coolVars
<1>3. /\ pc[a] = "race" /\ pc'[a] = "select" /\ taken'[a] = FALSE
      /\ req'[a] = req[a] /\ plans'[a] = plans[a] /\ pos'[a] = pos[a]
      /\ err'[a] = err[a] /\ open'[a] = open[a] /\ result'[a] = result[a]
  BY DEF StartBatch, IInv, Domains
<1>4. at'[a] = [i \in 1..Len(plans[a]) |->
                  IF i \in BatchFrom(plans[a], pos[a]) THEN "dialing" ELSE at[a][i]]
  BY DEF StartBatch, Batch, IInv, Domains
<1>5. CallOf(a)'
  <2>1. Call(req[a], "race", plans[a], pos[a], at[a], err[a], taken[a], open[a], result[a])
    BY <1>3, Facts DEF CallOf
  <2>2. req[a].probe \in BOOLEAN
    BY Facts
  <2>3. Call(req[a], "select", plans[a], pos[a], at'[a], err[a], FALSE, open[a], result[a])
    BY <1>4, <2>1, <2>2, BatchBegins
  <2>. QED
    BY <1>3, <2>3 DEF CallOf
<1>. QED
  BY <1>1, <1>2, <1>5, OneCall

\* It receives the connection of the winner.
LEMMA InvWon ==
  ASSUME IInv, NEW a \in Caller, Won(a)
  PROVE  IInv'
<1>1. PICK i \in Batch(a) : at[a][i] = "won" /\ result' = [result EXCEPT ![a] = i]
  BY DEF Won
<1>2. Else(a) /\ Domains'
  BY <1>1 DEF IInv, Domains, Else, Won, raceVars
<1>3. Cools'
  BY DEF IInv, Cools, Won, coolVars
<1>4. /\ pc[a] = "select" /\ pc'[a] = "over" /\ result'[a] = i
      /\ req'[a] = req[a] /\ plans'[a] = plans[a] /\ pos'[a] = pos[a] /\ at'[a] = at[a]
      /\ err'[a] = err[a] /\ taken'[a] = taken[a] /\ open'[a] = open[a]
  BY <1>1 DEF Won, raceVars, IInv, Domains
<1>5. CallOf(a)'
  BY <1>1, <1>4, Facts, WinnerReturned DEF CallOf, Batch
<1>. QED
  BY <1>2, <1>3, <1>5, OneCall

\* A handler goes on to another batch, or gives up, when all dials have ended.
LEMMA Passed ==
  ASSUME IInv, NEW a \in Caller, AllDone(a), NEW m, m = pos[a] + Cardinality(Batch(a))
  PROVE  /\ Call(req[a], IF m <= Len(plans[a]) THEN "race" ELSE "over", plans[a], m, at[a], err[a],
                 taken[a], open[a], result[a])
         /\ \A i \in 1..Len(plans[a]) : IF i < m THEN at[a][i] \in Ended ELSE at[a][i] = "wait"
<1>1. \A i \in BatchFrom(plans[a], pos[a]) : at[a][i] \in Ended
  BY DEF AllDone, BatchOver, Batch
<1>2. Call(req[a], "select", plans[a], pos[a], at[a], err[a], taken[a], open[a], result[a])
  BY Facts DEF AllDone, CallOf
<1>3. req[a].probe \in BOOLEAN
  BY Facts
<1>. QED
  BY <1>1, <1>2, <1>3, BatchPasses DEF Batch

LEMMA InvAllDone ==
  ASSUME IInv, NEW a \in Caller, AllDone(a)
  PROVE  IInv'
<1>. DEFINE m == pos[a] + Cardinality(Batch(a))
<1>1. Else(a) /\ Domains'
  BY DEF IInv, Domains, Else, AllDone, raceVars
<1>2. Cools'
  <2>1. black' = black \/ black' = black \cup {req[a].dc}
    BY DEF AllDone, GiveUp
  <2>2. black' \subseteq DC
    BY <2>1, Facts DEF IInv, Cools
  <2>. QED
    BY <2>2 DEF IInv, Cools, AllDone
<1>3. /\ pc'[a] = IF m <= Len(plans[a]) THEN "race" ELSE "over"
      /\ pos'[a] = m
      /\ req'[a] = req[a] /\ plans'[a] = plans[a] /\ at'[a] = at[a]
      /\ err'[a] = err[a] /\ taken'[a] = taken[a] /\ open'[a] = open[a] /\ result'[a] = result[a]
  BY DEF AllDone, raceVars, IInv, Domains
<1>4. CallOf(a)'
  <2>. HIDE DEF m
  <2>. QED
    BY <1>3, Passed DEF CallOf, m
<1>. QED
  BY <1>1, <1>2, <1>4, OneCall

\* A probe is over.
LEMMA InvProbeOver ==
  ASSUME IInv, NEW a \in Caller, ProbeOver(a)
  PROVE  IInv'
<1>1. Else(a) /\ Domains'
  BY DEF IInv, Domains, Else, ProbeOver, raceVars
<1>2. Cools'
  BY DEF IInv, Cools, ProbeOver, coolVars
<1>3. /\ pc[a] = "probe" /\ pc'[a] = "over"
      /\ req'[a] = req[a] /\ plans'[a] = plans[a] /\ pos'[a] = pos[a] /\ at'[a] = at[a]
      /\ err'[a] = err[a] /\ taken'[a] = taken[a] /\ open'[a] = open[a] /\ result'[a] = result[a]
      /\ \A i \in 1..Len(plans[a]) : at[a][i] = "gone"
  BY DEF ProbeOver, raceVars, IInv, Domains
<1>4. CallOf(a)'
  BY <1>3, Facts, AllProbed DEF CallOf
<1>. QED
  BY <1>1, <1>2, <1>4, OneCall

\* What a step of the goroutine of plan i changes at most.
Steps(a, i) ==
  /\ Else(a) /\ UNCHANGED callVars
  /\ at'[a] = [at[a] EXCEPT ![i] = at'[a][i]]
  /\ err'[a] = [err[a] EXCEPT ![i] = err'[a][i]]
  /\ open'[a] = IF at'[a][i] \in Holding THEN open[a] \cup {i} ELSE open[a] \ {i}

\* A step of the goroutine of plan i of a dial, and of a probe, when it is one of those the
\* lemmas above are about.
LEMMA InvDialStep ==
  ASSUME IInv, NEW a \in Caller, NEW i \in 1..Len(plans[a]), ~req[a].probe,
         Steps(a, i), Domains', Cools',
         Moves(at[a][i], taken[a], at'[a][i], err'[a][i], taken'[a])
  PROVE  IInv'
<1>. DEFINE r == req[a]
            c == pc[a]
            p == plans[a]
            n == pos[a]
            t == at[a]
            e == err[a]
            k == taken[a]
            o == open[a]
            w == result[a]
            t2 == at'[a]
            e2 == err'[a]
            k2 == taken'[a]
            o2 == open'[a]
            y == at'[a][i]
            x == err'[a][i]
<1>1. Call(r, c, p, n, t, e, k, o, w)
  BY Facts DEF CallOf
<1>2. /\ t2 = [t EXCEPT ![i] = y] /\ e2 = [e EXCEPT ![i] = x]
      /\ o2 = IF y \in Holding THEN o \cup {i} ELSE o \ {i}
  BY DEF Steps
<1>3. /\ pc'[a] = c /\ req'[a] = r /\ plans'[a] = p /\ pos'[a] = n /\ result'[a] = w
  BY DEF Steps, callVars
<1>4. i \in 1..Len(p) /\ ~r.probe /\ Moves(t[i], k, y, x, k2)
  OBVIOUS
<1>. HIDE DEF r, c, p, n, t, e, k, o, w, t2, e2, k2, o2, y, x
<1>5. Call(r, c, p, n, t2, e2, k2, o2, w)
  BY <1>1, <1>2, <1>4, DialStep
<1>6. CallOf(a)'
  BY <1>3, <1>5 DEF CallOf, t2, e2, k2, o2
<1>. QED
  BY <1>6, OneCall DEF Steps

LEMMA InvProbeStep ==
  ASSUME IInv, NEW a \in Caller, NEW i \in 1..Len(plans[a]), req[a].probe,
         Steps(a, i), Domains', Cools',
         at[a][i] # "gone", at'[a][i] \in {"failed", "connected", "gone"},
         err'[a][i] \in ErrKind \cup {"none"}, taken'[a] = taken[a]
  PROVE  IInv'
<1>. DEFINE r == req[a]
            c == pc[a]
            p == plans[a]
            n == pos[a]
            t == at[a]
            e == err[a]
            k == taken[a]
            o == open[a]
            w == result[a]
            t2 == at'[a]
            e2 == err'[a]
            o2 == open'[a]
            y == at'[a][i]
            x == err'[a][i]
<1>1. Call(r, c, p, n, t, e, k, o, w)
  BY Facts DEF CallOf
<1>2. /\ t2 = [t EXCEPT ![i] = y] /\ e2 = [e EXCEPT ![i] = x]
      /\ o2 = IF y \in Holding THEN o \cup {i} ELSE o \ {i}
  BY DEF Steps
<1>3. /\ pc'[a] = c /\ req'[a] = r /\ plans'[a] = p /\ pos'[a] = n /\ result'[a] = w
      /\ taken'[a] = k
  BY DEF Steps, callVars
<1>4. /\ i \in 1..Len(p) /\ r.probe /\ t[i] # "gone"
      /\ y \in {"failed", "connected", "gone"} /\ x \in ErrKind \cup {"none"}
  OBVIOUS
<1>. HIDE DEF r, c, p, n, t, e, k, o, w, t2, e2, o2, y, x
<1>5. Call(r, c, p, n, t2, e2, k, o2, w)
  BY <1>1, <1>2, <1>4, ProbeStep, Zenon
<1>6. CallOf(a)'
  BY <1>3, <1>5 DEF CallOf, t2, e2, o2
<1>. QED
  BY <1>6, OneCall DEF Steps

\* What a goroutine finds.
LEMMA Found ==
  ASSUME IInv, NEW a \in Caller, NEW i \in 1..Len(plans[a])
  PROVE  /\ DOMAIN at[a] = 1..Len(plans[a]) /\ DOMAIN err[a] = 1..Len(plans[a])
         /\ err[a] = [err[a] EXCEPT ![i] = err[a][i]]
         /\ at[a][i] \in Holding => open[a] \cup {i} = open[a]
         /\ at[a][i] \notin Holding => open[a] \ {i} = open[a]
         /\ err[a][i] \in ErrKind \cup {"none"} /\ taken[a] \in BOOLEAN /\ at[a][i] \in Stage
<1>1. Typed(req[a], pc[a], plans[a], pos[a], at[a], err[a], taken[a], open[a], result[a])
  BY DEF IInv, CallOf, Call
<1>2. /\ err[a] = [err[a] EXCEPT ![i] = err[a][i]]
      /\ DOMAIN at[a] = 1..Len(plans[a]) /\ DOMAIN err[a] = 1..Len(plans[a])
  BY <1>1 DEF Typed
<1>3. err[a][i] \in ErrKind \cup {"none"} /\ taken[a] \in BOOLEAN /\ at[a][i] \in Stage
  BY <1>1 DEF Typed
<1>4. open[a] = {j \in 1..Len(plans[a]) : at[a][j] \in Holding}
  BY <1>1 DEF Typed
<1>. QED
  BY <1>2, <1>3, <1>4

\* What a goroutine of a dial finds: a failure is explained, and the claim of the winner
\* is known.
LEMMA DialFound ==
  ASSUME IInv, NEW a \in Caller, NEW i \in 1..Len(plans[a]), ~req[a].probe
  PROVE  /\ at[a][i] \in {"failed", "recording", "gone"} => err[a][i] # "none"
         /\ at[a][i] = "claimed" => taken[a] = TRUE
<1>1. /\ Explained(plans[a], at[a], err[a]) /\ OneWinner(pc[a], plans[a], pos[a], at[a], taken[a])
      /\ Batched(pc[a], plans[a], pos[a], at[a], result[a])
      /\ pos[a] \in 1..(Len(plans[a]) + 1) /\ Len(plans[a]) \in Nat
      /\ pc[a] \in {"idle", "pool", "filter", "race", "select", "probe", "over"}
  BY Facts DEF IInv, CallOf, Call, Typed
<1>2. at[a][i] = "claimed" => i \in pos[a]..Len(plans[a])
  BY <1>1 DEF Batched, Ended
<1>. QED
  BY <1>1, <1>2 DEF Explained, OneWinner

\* A probe records, claims and sends nothing.
LEMMA OnlyDials ==
  ASSUME IInv, NEW a \in Caller, NEW i \in 1..Len(plans[a]), at[a][i] \in {"recording", "claimed"}
  PROVE  ~req[a].probe
<1>1. req[a].probe => Probing(pc[a], plans[a], pos[a], at[a], taken[a], result[a])
  BY DEF IInv, CallOf, Call
<1>. QED
  BY <1>1 DEF Probing

\* A dial fails.
LEMMA InvDialFails ==
  ASSUME IInv, NEW a \in Caller, NEW i \in 1..Len(plans[a]), DialFails(a, i)
  PROVE  IInv'
<1>1. PICK f \in Failures(plans[a][i]) :
        /\ err' = [err EXCEPT ![a][i] = f[1]]
        /\ cool' = IF f[2] THEN cool \cup {plans[a][i].key} ELSE cool
  BY DEF DialFails
<1>. DEFINE x == f[1]
<1>2. x \in ErrKind
  <2>1. f = <<"timeout", TRUE>> \/ f = <<"other", FALSE>> \/ f \in ErrKind \X {FALSE}
    BY DEF Failures
  <2>2. CASE f = <<"timeout", TRUE>>
    BY <2>2 DEF ErrKind
  <2>3. CASE f = <<"other", FALSE>>
    BY <2>3 DEF ErrKind
  <2>4. CASE f \in ErrKind \X {FALSE}
    BY <2>4
  <2>. QED
    BY <2>1, <2>2, <2>3, <2>4
<1>3. /\ at[a][i] = "dialing" /\ at' = [at EXCEPT ![a][i] = "failed"]
      /\ err' = [err EXCEPT ![a][i] = x]
      /\ UNCHANGED <<wcool, black, pen, pin, callVars, taken, open>>
  BY <1>1 DEF DialFails
<1>4. Cools'
  <2>1. plans[a][i].key \in Key
    BY Facts, PlanFields
  <2>. QED
    BY <1>1, <1>3, <2>1 DEF IInv, Cools
<1>. HIDE DEF x
<1>5. Domains'
  BY <1>3 DEF IInv, Domains, callVars
<1>6. /\ at'[a][i] = "failed" /\ at'[a] = [at[a] EXCEPT ![i] = "failed"]
      /\ err'[a][i] = x /\ err'[a] = [err[a] EXCEPT ![i] = x]
      /\ taken'[a] = taken[a] /\ open'[a] = open[a]
  BY <1>3, Found DEF IInv, Domains
<1>7. Steps(a, i)
  <2>1. Else(a) /\ UNCHANGED callVars
    BY <1>3 DEF Else, IInv, Domains, callVars
  <2>. QED
    BY <1>3, <1>6, <2>1, Found DEF Steps, Holding
<1>8. taken[a] \in BOOLEAN /\ x # "none" /\ x \in ErrKind \cup {"none"} /\ "failed" \in Stage
  BY <1>2, Found DEF ErrKind, Stage
<1>9. CASE req[a].probe
  BY <1>3, <1>4, <1>5, <1>6, <1>7, <1>8, <1>9, InvProbeStep
<1>10. CASE ~req[a].probe
  BY <1>3, <1>4, <1>5, <1>6, <1>7, <1>8, <1>10, InvDialStep DEF Moves
<1>. QED
  BY <1>9, <1>10

\* A dial connects.
LEMMA InvDialOK ==
  ASSUME IInv, NEW a \in Caller, NEW i \in 1..Len(plans[a]), DialOK(a, i)
  PROVE  IInv'
<1>1. /\ at[a][i] = "dialing" /\ at' = [at EXCEPT ![a][i] = "connected"]
      /\ open' = [open EXCEPT ![a] = @ \cup {i}]
      /\ UNCHANGED <<coolVars, callVars, err, taken>>
  BY DEF DialOK
<1>2. Cools'
  BY <1>1 DEF IInv, Cools, coolVars
<1>3. Domains'
  BY <1>1 DEF IInv, Domains, callVars
<1>4. /\ at'[a][i] = "connected" /\ at'[a] = [at[a] EXCEPT ![i] = "connected"]
      /\ err'[a] = err[a] /\ taken'[a] = taken[a] /\ open'[a] = open[a] \cup {i}
  BY <1>1, Found DEF IInv, Domains
<1>5. Steps(a, i)
  <2>1. Else(a) /\ UNCHANGED callVars
    BY <1>1 DEF Else, IInv, Domains, callVars
  <2>. QED
    BY <1>4, <2>1, Found DEF Steps, Holding
<1>6. taken[a] \in BOOLEAN /\ err[a][i] \in ErrKind \cup {"none"} /\ "connected" \in Stage
  BY Found DEF Stage
<1>7. CASE req[a].probe
  BY <1>1, <1>2, <1>3, <1>4, <1>5, <1>6, <1>7, InvProbeStep
<1>8. CASE ~req[a].probe
  BY <1>1, <1>2, <1>3, <1>4, <1>5, <1>6, <1>8, InvDialStep DEF Moves
<1>. QED
  BY <1>7, <1>8

\* A goroutine of a probe ends.
LEMMA InvProbeEnds ==
  ASSUME IInv, NEW a \in Caller, NEW i \in 1..Len(plans[a]), ProbeEnds(a, i)
  PROVE  IInv'
<1>1. /\ req[a].probe /\ at[a][i] \in {"failed", "connected"}
      /\ at' = [at EXCEPT ![a][i] = "gone"]
      /\ open' = [open EXCEPT ![a] = @ \ {i}]
      /\ UNCHANGED <<coolVars, callVars, err, taken>>
  BY DEF ProbeEnds
<1>2. Cools'
  BY <1>1 DEF IInv, Cools, coolVars
<1>3. Domains'
  BY <1>1 DEF IInv, Domains, callVars
<1>4. /\ at'[a][i] = "gone" /\ at'[a] = [at[a] EXCEPT ![i] = "gone"]
      /\ err'[a] = err[a] /\ taken'[a] = taken[a] /\ open'[a] = open[a] \ {i}
  BY <1>1, Found DEF IInv, Domains
<1>5. Steps(a, i)
  <2>1. Else(a) /\ UNCHANGED callVars
    BY <1>1 DEF Else, IInv, Domains, callVars
  <2>. QED
    BY <1>4, <2>1, Found DEF Steps, Holding
<1>6. err[a][i] \in ErrKind \cup {"none"}
  BY Found
<1>. QED
  BY <1>1, <1>2, <1>3, <1>4, <1>5, <1>6, InvProbeStep

\* A goroutine whose dial has failed looks whether somebody has won.
LEMMA InvCheckTaken ==
  ASSUME IInv, NEW a \in Caller, NEW i \in 1..Len(plans[a]), CheckTaken(a, i)
  PROVE  IInv'
<1>. DEFINE y == IF taken[a] THEN "quiet" ELSE "recording"
<1>1. /\ ~req[a].probe /\ at[a][i] = "failed" /\ at' = [at EXCEPT ![a][i] = y]
      /\ UNCHANGED <<coolVars, callVars, err, taken, open>>
  BY DEF CheckTaken
<1>2. Cools'
  BY <1>1 DEF IInv, Cools, coolVars
<1>3. taken[a] \in BOOLEAN /\ err[a][i] \in ErrKind \cup {"none"} /\ err[a][i] # "none"
  <2>1. err[a][i] # "none"
    BY <1>1, DialFound
  <2>. QED
    BY <2>1, Found
<1>4. y \in {"quiet", "recording"} /\ (y = "quiet" => taken[a] = TRUE)
  BY <1>3
<1>. HIDE DEF y
<1>5. Domains'
  BY <1>1 DEF IInv, Domains, callVars
<1>6. /\ at'[a][i] = y /\ at'[a] = [at[a] EXCEPT ![i] = y]
      /\ err'[a] = err[a] /\ taken'[a] = taken[a] /\ open'[a] = open[a]
  BY <1>1, Found DEF IInv, Domains
<1>7. Steps(a, i)
  <2>1. Else(a) /\ UNCHANGED callVars
    BY <1>1 DEF Else, IInv, Domains, callVars
  <2>. QED
    BY <1>1, <1>4, <1>6, <2>1, Found DEF Steps, Holding
<1>8. y \in Stage /\ y # "wait" /\ y \notin {"claimed", "won"}
  BY <1>4 DEF Stage
<1>. QED
  BY <1>1, <1>2, <1>3, <1>4, <1>5, <1>6, <1>7, <1>8, InvDialStep DEF Moves

\* It records the failure.
LEMMA InvRecordFailure ==
  ASSUME IInv, NEW a \in Caller, NEW i \in 1..Len(plans[a]), RecordFailure(a, i)
  PROVE  IInv'
<1>1. /\ at[a][i] = "recording" /\ at' = [at EXCEPT ![a][i] = "gone"]
      /\ UNCHANGED <<black, pin, callVars, err, taken, open>>
  BY DEF RecordFailure
<1>2. Cools'
  <2>1. /\ plans[a][i].key \in Key
        /\ plans[a][i].worker => plans[a][i].sni \in Worker
        /\ plans[a][i].cf \in Base \cup {"custom", NoBase}
    BY Facts, PlanFields
  <2>2. cool' \subseteq Key
    BY <2>1 DEF RecordFailure, IInv, Cools
  <2>3. wcool' \subseteq Worker
    BY <2>1 DEF RecordFailure, WorkerPenalize, IInv, Cools
  <2>4. pen' \subseteq Base \cup {"custom"}
    BY <2>1 DEF RecordFailure, IInv, Cools
  <2>. QED
    BY <1>1, <2>2, <2>3, <2>4 DEF IInv, Cools
<1>3. ~req[a].probe
  BY <1>1, OnlyDials
<1>4. taken[a] \in BOOLEAN /\ err[a][i] \in ErrKind \cup {"none"} /\ err[a][i] # "none"
  <2>1. err[a][i] # "none"
    BY <1>1, <1>3, DialFound
  <2>. QED
    BY <2>1, Found
<1>5. Domains'
  BY <1>1 DEF IInv, Domains, callVars
<1>6. /\ at'[a][i] = "gone" /\ at'[a] = [at[a] EXCEPT ![i] = "gone"]
      /\ err'[a] = err[a] /\ taken'[a] = taken[a] /\ open'[a] = open[a]
  BY <1>1, Found DEF IInv, Domains
<1>7. Steps(a, i)
  <2>1. Else(a) /\ UNCHANGED callVars
    BY <1>1 DEF Else, IInv, Domains, callVars
  <2>. QED
    BY <1>1, <1>6, <2>1, Found DEF Steps, Holding
<1>8. "gone" \in Stage
  BY DEF Stage
<1>. QED
  BY <1>1, <1>2, <1>3, <1>4, <1>5, <1>6, <1>7, <1>8, InvDialStep DEF Moves

\* It has a connection, and claims the call or closes it.
LEMMA InvClaim ==
  ASSUME IInv, NEW a \in Caller, NEW i \in 1..Len(plans[a]), Claim(a, i)
  PROVE  IInv'
<1>. DEFINE y == IF taken[a] THEN "lost" ELSE "claimed"
<1>1. /\ ~req[a].probe /\ at[a][i] = "connected" /\ at' = [at EXCEPT ![a][i] = y]
      /\ taken' = [taken EXCEPT ![a] = TRUE]
      /\ open' = [open EXCEPT ![a] = IF taken[a] THEN @ \ {i} ELSE @]
      /\ UNCHANGED <<coolVars, callVars, err>>
  BY DEF Claim
<1>2. Cools'
  BY <1>1 DEF IInv, Cools, coolVars
<1>3. taken[a] \in BOOLEAN /\ err[a][i] \in ErrKind \cup {"none"}
  BY Found
<1>4. /\ y \in {"lost", "claimed"} /\ (y = "claimed" <=> taken[a] = FALSE)
      /\ y = IF taken[a] THEN "lost" ELSE "claimed"
  BY <1>3
<1>. HIDE DEF y
<1>5. Domains'
  BY <1>1 DEF IInv, Domains, callVars
<1>6. /\ at'[a][i] = y /\ at'[a] = [at[a] EXCEPT ![i] = y]
      /\ err'[a] = err[a] /\ taken'[a] = TRUE
      /\ open'[a] = IF taken[a] THEN open[a] \ {i} ELSE open[a]
  BY <1>1, Found DEF IInv, Domains
<1>7. Steps(a, i)
  <2>1. Else(a) /\ UNCHANGED callVars
    BY <1>1 DEF Else, IInv, Domains, callVars
  <2>2. open'[a] = IF y \in Holding THEN open[a] \cup {i} ELSE open[a] \ {i}
    BY <1>1, <1>4, <1>6, Found DEF Holding
  <2>. QED
    BY <1>6, <2>1, <2>2, Found DEF Steps
<1>8. y \in Stage /\ y # "wait" /\ y \notin {"failed", "recording", "gone"}
  BY <1>4 DEF Stage
<1>. QED
  BY <1>1, <1>2, <1>3, <1>4, <1>5, <1>6, <1>7, <1>8, InvDialStep DEF Moves

\* The winner records its success and sends its connection.
LEMMA InvSend ==
  ASSUME IInv, NEW a \in Caller, NEW i \in 1..Len(plans[a]), Send(a, i)
  PROVE  IInv'
<1>1. /\ at[a][i] = "claimed" /\ at' = [at EXCEPT ![a][i] = "won"]
      /\ UNCHANGED <<pen, callVars, err, taken, open>>
  BY DEF Send
<1>2. Cools'
  <2>1. cool' \subseteq cool /\ wcool' \subseteq wcool /\ black' \subseteq black
    BY DEF Send
  <2>2. pin' \in [DC -> Base \cup {"custom"}]
    <3>1. plans[a][i].cf \in Base \cup {"custom", NoBase}
      BY Facts, PlanFields
    <3>2. pin \in [DC -> Base \cup {"custom"}]
      BY DEF IInv, Cools
    <3>3. \/ pin' = pin
          \/ plans[a][i].cf # NoBase /\ pin' = [pin EXCEPT ![req[a].dc] = plans[a][i].cf]
      BY DEF Send
    <3>. QED
      BY <3>1, <3>2, <3>3
  <2>. QED
    BY <1>1, <2>1, <2>2 DEF IInv, Cools
<1>3. ~req[a].probe
  BY <1>1, OnlyDials
<1>4. taken[a] = TRUE /\ err[a][i] \in ErrKind \cup {"none"}
  BY <1>1, <1>3, Found, DialFound
<1>5. Domains'
  BY <1>1 DEF IInv, Domains, callVars
<1>6. /\ at'[a][i] = "won" /\ at'[a] = [at[a] EXCEPT ![i] = "won"]
      /\ err'[a] = err[a] /\ taken'[a] = taken[a] /\ open'[a] = open[a]
  BY <1>1, Found DEF IInv, Domains
<1>7. Steps(a, i)
  <2>1. Else(a) /\ UNCHANGED callVars
    BY <1>1 DEF Else, IInv, Domains, callVars
  <2>. QED
    BY <1>1, <1>6, <2>1, Found DEF Steps, Holding
<1>8. "won" \in Stage /\ taken[a] \in BOOLEAN
  BY <1>4 DEF Stage
<1>. QED
  BY <1>1, <1>3, <1>2, <1>4, <1>5, <1>6, <1>7, <1>8, InvDialStep DEF Moves

\* A refill of the pool of connections puts an address into cool-down, and cool-downs expire.
LEMMA InvShared ==
  ASSUME IInv, RefillTimesOut \/ Expire
  PROVE  IInv'
<1>1. UNCHANGED <<pin, callVars, raceVars>>
  BY DEF RefillTimesOut, Expire
<1>2. Cools'
  <2>1. CASE RefillTimesOut
    <3>1. PICK a \in Caller : \E p \in ToSet(WSPlansForDC(req[a], cool)) :
            cool' = cool \cup {p.key}
      BY <2>1 DEF RefillTimesOut
    <3>2. PICK p \in ToSet(WSPlansForDC(req[a], cool)) : cool' = cool \cup {p.key}
      BY <3>1
    <3>. DEFINE custom == IF req[a].custom THEN <<CustomPlan(req[a].dc)>> ELSE <<>>
    <3>3. WSPlansForDC(req[a], cool) \in Seq(PlanSet)
      <4>1. NativePlans(req[a], cool) \in Seq(PlanSet)
        BY Facts, NativeList
      <4>2. custom \in Seq(PlanSet)
        BY Facts, CustomList, NoPlans
      <4>. HIDE DEF custom
      <4>3. NativePlans(req[a], cool) \o custom \in Seq(PlanSet)
        BY <4>1, <4>2, Join
      <4>. QED
        BY <4>3 DEF WSPlansForDC, custom
    <3>4. p.key \in Key
      <4>1. PICK i \in DOMAIN WSPlansForDC(req[a], cool) : p = WSPlansForDC(req[a], cool)[i]
        BY DEF ToSet
      <4>2. i \in 1..Len(WSPlansForDC(req[a], cool))
        BY <3>3, <4>1, LenProperties
      <4>. QED
        BY <3>3, <4>1, <4>2, PlanFields
    <3>. QED
      BY <2>1, <3>2, <3>4 DEF RefillTimesOut, IInv, Cools
  <2>2. CASE Expire
    <3>1. cool' \subseteq cool /\ wcool' \subseteq wcool /\ pen' \subseteq pen /\ black' \subseteq black
      BY <2>2 DEF Expire
    <3>. QED
      BY <1>1, <3>1 DEF IInv, Cools
  <2>. QED
    BY <2>1, <2>2
<1>3. Domains' /\ \A a \in Caller : CallOf(a)'
  BY <1>1 DEF IInv, Domains, CallOf, callVars, raceVars
<1>. QED
  BY <1>2, <1>3 DEF IInv

\* The invariant holds in every state.
LEMMA InvNext ==
  ASSUME IInv, [Next]_vars
  PROVE  IInv'
<1>1. ASSUME NEW a \in Caller, Main(a) PROVE IInv'
  BY <1>1, InvPool, InvPlan, InvFilter, InvStartBatch, InvWon, InvAllDone, InvProbeOver DEF Main
<1>2. ASSUME NEW a \in Caller, NEW i \in 1..Len(plans[a]), Goroutine(a, i) PROVE IInv'
  BY <1>2, InvDialFails, InvCheckTaken, InvRecordFailure, InvDialOK, InvClaim, InvSend, InvProbeEnds
     DEF Goroutine
<1>3. CASE RefillTimesOut \/ Expire
  BY <1>3, InvShared
<1>4. CASE UNCHANGED vars
  BY <1>4 DEF IInv, Cools, Domains, CallOf, vars, coolVars, callVars, raceVars
<1>. QED
  BY <1>1, <1>2, <1>3, <1>4 DEF Next

LEMMA Invariance == Spec => []IInv
<1>1. Init => IInv
  BY InvInit
<1>2. IInv /\ [Next]_vars => IInv'
  BY InvNext
<1>. QED
  BY <1>1, <1>2, PTL DEF Spec

-----------------------------------------------------------------------------
(* The theorems.                                                           *)

\* Every variable keeps its type: the addresses in cool-down are those of some plan, a
\* batch begins at a plan or right behind the last one.
THEOREM DialTypes == Spec => []TypeOK
<1>1. IInv => TypeOK
  <2>. SUFFICES ASSUME IInv PROVE TypeOK
    OBVIOUS
  <2>1. ASSUME NEW a \in Caller
        PROVE  /\ pc[a] \in {"idle", "pool", "filter", "race", "select", "probe", "over"}
               /\ req[a] \in Requests
               /\ \A i \in 1..Len(plans[a]) : plans[a][i].key \in Key
               /\ pos[a] \in 1..(Len(plans[a]) + 1)
               /\ at[a] \in [1..Len(plans[a]) -> Stage]
               /\ err[a] \in [1..Len(plans[a]) -> ErrKind \cup {"none"}]
               /\ open[a] \subseteq 1..Len(plans[a])
               /\ result[a] \in 0..Len(plans[a])
               /\ taken[a] \in BOOLEAN
    <3>1. Typed(req[a], pc[a], plans[a], pos[a], at[a], err[a], taken[a], open[a], result[a])
      BY DEF IInv, CallOf, Call
    <3>2. \A i \in 1..Len(plans[a]) : plans[a][i].key \in Key
      BY Facts, PlanFields
    <3>. QED
      BY <3>1, <3>2 DEF Typed
  <2>. QED
    BY <2>1 DEF IInv, Cools, Domains, TypeOK
<1>. QED
  BY <1>1, Invariance, PTL

\* The invariant says so.
LEMMA WinnersStay == IInv => WinnersOnly
<1>. SUFFICES ASSUME IInv, NEW a \in Caller, CallOver(a)
              PROVE  /\ open[a] = {i \in 1..Len(plans[a]) : at[a][i] = "won"}
                     /\ result[a] \in open[a] \cup {0}
                     /\ result[a] # 0 => \A i \in open[a] : i = result[a] \/ i < pos[a]
                     /\ req[a].probe => open[a] = {}
  BY DEF WinnersOnly
<1>. DEFINE p == plans[a]
            t == at[a]
            w == result[a]
            n == pos[a]
<1>1. /\ pc[a] = "over" /\ Len(p) \in Nat
      /\ \A i \in 1..Len(p) : t[i] \in Ended \cup {"wait"}
  BY Facts DEF CallOver
<1>2. /\ open[a] = {i \in 1..Len(p) : t[i] \in Holding} /\ w \in 0..Len(p)
      /\ n \in 1..(Len(p) + 1)
  BY DEF IInv, CallOf, Call, Typed
<1>3. open[a] = {i \in 1..Len(p) : t[i] = "won"}
  <2>. HIDE DEF p, t
  <2>1. \A i \in 1..Len(p) : t[i] \in Holding <=> t[i] = "won"
    BY <1>1 DEF Ended, Holding
  <2>. QED
    BY <1>2, <2>1
<1>4. CASE req[a].probe
  <2>1. w = 0 /\ \A i \in 1..Len(p) : t[i] = "gone"
    BY <1>1, <1>4 DEF IInv, CallOf, Call, Probing
  <2>2. open[a] = {}
    BY <1>3, <2>1
  <2>. QED
    BY <1>3, <2>1, <2>2
<1>5. CASE ~req[a].probe
  <2>1. Batched(pc[a], p, n, t, w) /\ OneWinner(pc[a], p, n, t, taken[a])
    BY <1>5 DEF IInv, CallOf, Call
  <2>. HIDE DEF p, t, w, n
  <2>2. w # 0 => t[w] = "won" /\ w \in open[a] /\ n <= w /\ w <= Len(p)
    <3>. SUFFICES ASSUME w # 0 PROVE t[w] = "won" /\ w \in open[a] /\ n <= w /\ w <= Len(p)
      OBVIOUS
    <3>1. w \in 1..Len(p) /\ t[w] = "won" /\ w >= n
      BY <1>1, <1>2, <2>1 DEF Batched
    <3>. QED
      BY <1>1, <1>2, <1>3, <3>1
  <2>3. ASSUME w # 0, NEW i \in open[a], ~(i < n) PROVE i = w
    <3>1. i \in n..Len(p) /\ t[i] = "won" /\ w \in n..Len(p) /\ t[w] = "won"
      BY <1>1, <1>2, <1>3, <2>2, <2>3
    <3>. QED
      BY <2>1, <3>1 DEF OneWinner
  <2>4. /\ w \in open[a] \cup {0}
        /\ w # 0 => \A i \in open[a] : i = w \/ i < n
    BY <2>2, <2>3
  <2>. QED
    BY <1>3, <1>5, <2>4 DEF p, t, w, n
<1>. QED
  BY <1>4, <1>5

\* Whatever the order of the answers of any number of dials, and however late its handler:
\* a loser's connection is closed, by the goroutine that lost, and a probe leaves none; what
\* stays is the connection that was returned and those of batches the handler left by done.
THEOREM LosersAreClosed == Spec => []WinnersOnly
  BY WinnersStay, Invariance, PTL

\* The invariant puts the Workers in a batch before that of another winner: each has failed,
\* or one of them has connected and the others have lost to it.
LEMMA WorkersBefore == IInv => WorkerFirst
<1>. SUFFICES ASSUME IInv, NEW a \in Caller, result[a] # 0, ~RelayFirst(req[a]),
                     ~plans[a][result[a]].worker,
                     NEW i \in 1..Len(plans[a]), plans[a][i].worker
              PROVE  /\ i < pos[a] /\ at[a][i] \in Ended
                     /\ \/ at[a][i] = "gone" /\ err[a][i] # "none"
                        \/ \E j \in 1..Len(plans[a]) : plans[a][j].worker /\ at[a][j] = "won"
  BY DEF WorkerFirst
<1>. DEFINE p == plans[a]
            t == at[a]
            w == result[a]
            n == pos[a]
            l == LeadingWorkerCount(p)
<1>1. ~req[a].probe
  BY DEF IInv, CallOf, Call, Probing
<1>2. /\ Batched(pc[a], p, n, t, w) /\ Led(req[a], p, n)
      /\ Beaten(p, t) /\ Explained(p, t, err[a])
      /\ n \in 1..(Len(p) + 1) /\ w \in 0..Len(p)
  BY <1>1 DEF IInv, CallOf, Call, Typed
<1>3. Len(p) \in Nat
  BY Facts
<1>. HIDE DEF p, t, w, n
<1>4. l \in 0..Len(p) /\ \A j \in 1..l : p[j].worker
  BY <1>3, Leading
<1>5. WorkersLead(p) /\ (n = 1 \/ l < n)
  BY <1>2 DEF Led
<1>6. i \in 1..Len(p) /\ p[i].worker /\ ~p[w].worker /\ w # 0
  BY DEF p, w
<1>7. i <= l
  BY <1>3, <1>5, <1>6, LeadingAreAll
<1>. HIDE DEF l
<1>8. n # 1
  <2>. SUFFICES ASSUME n = 1 PROVE FALSE
    OBVIOUS
  <2>1. l > 0 /\ n \in 1..Len(p)
    BY <1>3, <1>4, <1>6, <1>7
  <2>2. BatchFrom(p, n) = n..l
    BY <1>3, <2>1, BatchIs DEF l
  <2>3. w \in 1..l
    BY <1>2, <1>6, <2>2 DEF Batched
  <2>. QED
    BY <1>4, <1>6, <2>3
<1>9. i < n
  BY <1>2, <1>3, <1>4, <1>5, <1>6, <1>7, <1>8
<1>10. t[i] \in Ended
  BY <1>2, <1>6, <1>9 DEF Batched, Ended
<1>11. (t[i] = "gone" /\ err[a][i] # "none") \/ \E j \in 1..Len(p) : p[j].worker /\ t[j] = "won"
  <2>1. CASE t[i] = "gone"
    BY <1>2, <1>6, <2>1 DEF Explained
  <2>2. CASE t[i] = "won"
    BY <1>6, <2>2
  <2>3. CASE t[i] \in {"lost", "quiet"}
    <3>1. PICK j \in 1..Len(p) : t[j] \in {"claimed", "won"} /\ (i <= l <=> j <= l)
      BY <1>2, <1>6, <2>3 DEF Beaten, l
    <3>2. j \in 1..l /\ j < n
      BY <1>2, <1>3, <1>4, <1>5, <1>7, <1>8, <3>1
    <3>3. t[j] = "won" /\ p[j].worker
      BY <1>2, <1>4, <1>6, <3>1, <3>2 DEF Batched, Ended
    <3>. QED
      BY <3>3
  <2>. QED
    BY <1>10, <2>1, <2>2, <2>3 DEF Ended
<1>. QED
  BY <1>9, <1>10, <1>11 DEF p, t, n

\* The user's own Workers come first, whatever the width of a batch, the order of the answers
\* and the time of the handler: another path wins only when each of them has failed, or one
\* has connected and was left in the channel.
THEOREM WorkersComeFirst == Spec => []WorkerFirst
  BY WorkersBefore, Invariance, PTL

\* A data centre gets onto the blacklist only by a call that is through all of its plans and
\* returns none: not by a batch alone, not by a counted failure of another kind, and not for
\* less than all of its WebSocket plans unless one of its dials has connected.
THEOREM OnlyRedirectsBlacklist == Spec => BlacklistJustified
<1>. DEFINE ws(a) == {i \in 1..Len(plans[a]) : plans[a][i].kind = "ws"}
            counted(a) == {i \in ws(a) : at[a][i] = "gone"}
            Justified(d) ==
              \E a \in Caller :
                /\ req[a].dc = d /\ pc'[a] = "over" /\ result[a] = 0
                /\ \A i \in 1..Len(plans[a]) : at[a][i] \in Ended
                /\ counted(a) # {} /\ \A i \in counted(a) : err[a][i] = "redirect"
                /\ counted(a) = ws(a) \/ \E i \in open[a] : at[a][i] = "won"
<1>1. ASSUME IInv, [Next]_vars, NEW d \in black' \ black PROVE Justified(d)
  <2>1. PICK a \in Caller : AllDone(a)
    <3>1. ASSUME NEW a \in Caller, Main(a), ~AllDone(a) PROVE black' \subseteq black
      BY <3>1 DEF Main, TryPool, FromPool, PlanDial, Probe, Planned, Filter, StartBatch, Won,
                  ProbeOver, coolVars
    <3>2. ASSUME NEW a \in Caller, NEW i \in 1..Len(plans[a]), Goroutine(a, i)
          PROVE  black' \subseteq black
      BY <3>2 DEF Goroutine, DialFails, CheckTaken, RecordFailure, DialOK, Claim, Send, ProbeEnds,
                  coolVars
    <3>3. RefillTimesOut \/ Expire \/ UNCHANGED vars => black' \subseteq black
      BY DEF RefillTimesOut, Expire, vars, coolVars
    <3>. QED
      BY <1>1, <3>1, <3>2, <3>3 DEF Next
  <2>. DEFINE m == pos[a] + Cardinality(Batch(a))
              tried == Tried(a, 1..Len(plans[a]))
  <2>2. /\ ~(m <= Len(plans[a])) /\ pc[a] = "select" /\ pc'[a] = "over"
        /\ tried # {} /\ Redirected(a) = tried /\ d = req[a].dc
    BY <1>1, <2>1 DEF AllDone, GiveUp, IInv, Domains
  <2>3. /\ Len(plans[a]) \in Nat
        /\ \A i \in 1..Len(plans[a]) : IF i < m THEN at[a][i] \in Ended ELSE at[a][i] = "wait"
        /\ open[a] = {i \in 1..Len(plans[a]) : at[a][i] \in Holding}
    BY <1>1, <2>1, Facts, Passed DEF IInv, CallOf, Call, Typed
  <2>4. /\ Batched(pc[a], plans[a], pos[a], at[a], result[a]) /\ Beaten(plans[a], at[a])
        /\ pos[a] \in 1..Len(plans[a]) /\ result[a] = 0
    BY <1>1, <2>2, Facts DEF IInv, CallOf, Call, Typed, Batched, Probing
  <2>5. m \in Int
    <3>1. PICK e \in pos[a]..Len(plans[a]) : m = e + 1
      BY <2>3, <2>4, BatchIs DEF Batch
    <3>. QED
      BY <2>3, <3>1
  <2>. HIDE DEF m
  <2>6. \A i \in 1..Len(plans[a]) : at[a][i] \in Ended
    BY <2>2, <2>3, <2>5
  <2>7. counted(a) = tried /\ \A i \in counted(a) : err[a][i] = "redirect"
    BY <2>2 DEF Tried, Redirected
  <2>8. ASSUME counted(a) # ws(a) PROVE \E i \in open[a] : at[a][i] = "won"
    <3>1. PICK i \in 1..Len(plans[a]) : at[a][i] \in {"won", "lost", "quiet"}
      BY <2>6, <2>8 DEF Ended
    <3>2. PICK j \in 1..Len(plans[a]) : at[a][j] = "won"
      BY <2>4, <2>6, <3>1 DEF Beaten, Ended
    <3>. QED
      BY <2>3, <3>2 DEF Holding
  <2>. QED
    BY <2>2, <2>4, <2>6, <2>7, <2>8
<1>2. IInv /\ [Next]_vars => [\A d \in black' \ black : Justified(d)]_vars
  BY <1>1
<1>3. Spec => [][\A d \in black' \ black : Justified(d)]_vars
  BY <1>2, Invariance, PTL DEF Spec
<1>. QED
  BY <1>3 DEF BlacklistJustified
=============================================================================
