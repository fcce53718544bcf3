----------------------------- MODULE PoolProofs -----------------------------
(***************************************************************************)
(* Proofs about WSPool, for every number of keys, handlers and slots and   *)
(* every target, and about CFBalancer, for every number of dials and any   *)
(* lists of domains.                                                       *)
(***************************************************************************)
EXTENDS WSPool, CFBalancer, FiniteSetTheorems, TLAPS

-----------------------------------------------------------------------------
(* Buckets.                                                                *)

\* What get leaves of a bucket: no more than there was, in the same order, and
\* neither what it dropped nor what it took.
LEMMA CutBucket ==
  ASSUME NEW b \in Seq(Conn), NEW d \in 0..Len(b), IsInjective(b)
  PROVE  LET s == SubSeq(b, d + 2, Len(b))
             dropped == {b[i] : i \in 1..d}
         IN /\ s \in Seq(Conn) /\ Len(s) <= Len(b) /\ IsInjective(s)
            /\ ToSet(s) \subseteq ToSet(b) /\ dropped \subseteq ToSet(b)
            /\ ToSet(s) \cap dropped = {}
            /\ d < Len(b) => b[d + 1] \in ToSet(b) \ (ToSet(s) \cup dropped)
<1>. DEFINE s == SubSeq(b, d + 2, Len(b))
            dropped == {b[i] : i \in 1..d}
<1>1. /\ s \in Seq(Conn)
      /\ Len(s) = IF d < Len(b) THEN Len(b) - d - 1 ELSE 0
      /\ \A i \in 1..Len(s) : s[i] = b[i + d + 1]
  OBVIOUS
<1>2. \A i, j \in 1..Len(b) : b[i] = b[j] => i = j
  BY DEF IsInjective
<1>3. IsInjective(s)
  BY <1>1, <1>2 DEF IsInjective
<1>4. ToSet(s) \subseteq ToSet(b) /\ dropped \subseteq ToSet(b)
  BY <1>1 DEF ToSet
<1>5. ToSet(s) \cap dropped = {}
  BY <1>1, <1>2 DEF ToSet
<1>6. d < Len(b) => b[d + 1] \in ToSet(b) \ (ToSet(s) \cup dropped)
  BY <1>1, <1>2, SMTT(30) DEF ToSet
<1>. QED
  BY <1>1, <1>3, <1>4, <1>5, <1>6

\* Appending a connection that is not in the bucket.
LEMMA AppendToBucket ==
  ASSUME NEW b \in Seq(Conn), NEW c \in Conn, IsInjective(b), c \notin ToSet(b)
  PROVE  /\ Append(b, c) \in Seq(Conn) /\ Len(Append(b, c)) = Len(b) + 1
         /\ IsInjective(Append(b, c))
         /\ ToSet(Append(b, c)) = ToSet(b) \cup {c}
<1>1. /\ Append(b, c) \in Seq(Conn) /\ Len(Append(b, c)) = Len(b) + 1
      /\ \A i \in 1..Len(b) : Append(b, c)[i] = b[i]
      /\ Append(b, c)[Len(b) + 1] = c
  OBVIOUS
<1>2. IsInjective(Append(b, c))
  BY <1>1 DEF IsInjective, ToSet
<1>3. ToSet(Append(b, c)) = ToSet(b) \cup {c}
  BY <1>1 DEF ToSet
<1>. QED
  BY <1>1, <1>2, <1>3

\* The empty bucket.
LEMMA EmptyBucket == <<>> \in Seq(Conn) /\ IsInjective(<<>>) /\ ToSet(<<>>) = {}
BY DEF IsInjective, ToSet

-----------------------------------------------------------------------------
(* Types.                                                                  *)

\* The pool starts with every field in its type.
LEMMA TypeInit == Init => TypeOK
  BY NoConnIsNew DEF Init, TypeOK

\* Every step keeps every field in its type.
LEMMA TypeNext ==
  ASSUME TypeOK, [Next]_vars
  PROVE  TypeOK'
<1>. USE DEF TypeOK, poolVars, refillVars, clientVars
<1>1. ASSUME NEW h \in Client, NEW k \in Key, LoadPool(h, k) PROVE TypeOK'
  BY <1>1 DEF LoadPool
<1>2. ASSUME NEW h \in Client, Get(h) PROVE TypeOK'
  <2>1. PICK d \in 0..Len(idle[ckey[h]]) :
          /\ d < Len(idle[ckey[h]]) => Usable(idle[ckey[h]][d + 1])
          /\ cconn' = [cconn EXCEPT ![h] =
               IF d = Len(idle[ckey[h]]) THEN NoConn ELSE idle[ckey[h]][d + 1]]
          /\ idle' = [idle EXCEPT ![ckey[h]] =
               SubSeq(idle[ckey[h]], d + 2, Len(idle[ckey[h]]))]
          /\ closing' = closing \cup {idle[ckey[h]][i] : i \in 1..d}
    BY <1>2 DEF Get
  <2>. DEFINE b == idle[ckey[h]]
  <2>2. b \in Seq(Conn)
    OBVIOUS
  <2>3. \A i \in 1..Len(b) : b[i] \in Conn
    BY <2>2
  <2>4. SubSeq(b, d + 2, Len(b)) \in Seq(Conn)
    BY <2>2
  <2>. HIDE DEF b
  <2>5. idle' \in [Key -> Seq(Conn)]
    BY <2>1, <2>4 DEF b
  <2>6. cconn' \in [Client -> Conn \cup {NoConn}]
    BY <2>1, <2>3 DEF b
  <2>7. closing' \subseteq Conn
    BY <2>1, <2>3 DEF b
  <2>. QED
    BY <1>2, <2>5, <2>6, <2>7 DEF Get
<1>3. ASSUME NEW h \in Client, ScheduleRefill(h) PROVE TypeOK'
  BY <1>3 DEF ScheduleRefill
<1>4. ASSUME NEW h \in Client, StartDial(h) \/ HandshakeOK(h) PROVE TypeOK'
  BY <1>4 DEF StartDial, HandshakeOK
<1>5. ASSUME NEW h \in Client, HandshakeFails(h) PROVE TypeOK'
  BY <1>5 DEF HandshakeFails, Closed
<1>6. ASSUME NEW h \in Client, RelayEnds(h) PROVE TypeOK'
  BY <1>6 DEF RelayEnds, Closed
<1>7. ASSUME NEW c \in Conn, CloseDiscarded(c) PROVE TypeOK'
  BY <1>7 DEF CloseDiscarded, Closed
<1>8. ASSUME NEW k \in Key, RefillStart(k) PROVE TypeOK'
  BY <1>8 DEF RefillStart
<1>9. ASSUME NEW k \in Key, RefillNeed(k) PROVE TypeOK'
  <2>1. Unused \subseteq Conn
    BY DEF Unused
  <2>2. CASE dials' = dials
    BY <1>9, <2>2 DEF RefillNeed
  <2>3. ASSUME NEW S \in SUBSET Unused, dials' = [dials EXCEPT ![k] = @ \cup S]
        PROVE  TypeOK'
    <3>1. dials' \in [Key -> SUBSET Conn]
      BY <2>1, <2>3
    <3>. QED
      BY <1>9, <3>1 DEF RefillNeed
  <2>. QED
    BY <1>9, <2>2, <2>3 DEF RefillNeed
<1>10. ASSUME NEW k \in Key, NEW c \in Conn, DialOK(k, c) PROVE TypeOK'
  BY <1>10 DEF DialOK
<1>11. ASSUME NEW k \in Key, NEW c \in Conn, DialFails(k, c) PROVE TypeOK'
  BY <1>11 DEF DialFails
<1>12. ASSUME NEW k \in Key, NEW c \in Conn, Receive(k, c) PROVE TypeOK'
  BY <1>12 DEF Receive, Closed
<1>13. ASSUME NEW k \in Key, Append1(k) PROVE TypeOK'
  <2>1. hand[k] \in Conn
    BY <1>13 DEF Append1
  <2>2. Append(idle[k], hand[k]) \in Seq(Conn)
    BY <2>1
  <2>. QED
    BY <1>13, <2>2 DEF Append1
<1>14. ASSUME NEW k \in Key, RefillEnds(k) PROVE TypeOK'
  BY <1>14 DEF RefillEnds
<1>15. CASE Cancel
  BY <1>15 DEF Cancel
<1>16. CASE Drain
  BY <1>16, EmptyBucket DEF Drain, Closed
<1>17. ASSUME NEW c \in Conn, PeerCloses(c) PROVE TypeOK'
  BY <1>17 DEF PeerCloses
<1>18. ASSUME NEW c \in Conn, Ages(c) PROVE TypeOK'
  BY <1>18 DEF Ages
<1>19. ASSUME NEW k \in Key, Blacklisting(k) PROVE TypeOK'
  BY <1>19 DEF Blacklisting
<1>20. CASE UNCHANGED vars
  BY <1>20 DEF vars
<1>. QED
  BY <1>1, <1>2, <1>3, <1>4, <1>5, <1>6, <1>7, <1>8, <1>9, <1>10, <1>11, <1>12,
     <1>13, <1>14, <1>15, <1>16, <1>17, <1>18, <1>19, <1>20
     DEF Next, Handler, RefillGoroutine, Environment

-----------------------------------------------------------------------------
(* The flag.                                                               *)

\* Every step keeps the flag up exactly while the goroutine lives.
LEMMA FlagNext ==
  ASSUME TypeOK, FlagIsGoroutine, [Next]_vars
  PROVE  FlagIsGoroutine'
<1>. USE DEF TypeOK, FlagIsGoroutine, InFlight, poolVars, refillVars, clientVars
<1>1. ASSUME NEW h \in Client, NEW k \in Key, LoadPool(h, k) PROVE FlagIsGoroutine'
  BY <1>1 DEF LoadPool
<1>2. ASSUME NEW h \in Client, Get(h) PROVE FlagIsGoroutine'
  BY <1>2 DEF Get
<1>3. ASSUME NEW h \in Client, ScheduleRefill(h) PROVE FlagIsGoroutine'
  <2>1. CASE refilling[ckey[h]]
    BY <1>3, <2>1 DEF ScheduleRefill
  <2>2. CASE ~refilling[ckey[h]]
    <3>1. PICK k \in Key : k = ckey[h]
      OBVIOUS
    <3>2. /\ refilling' = [refilling EXCEPT ![k] = TRUE]
          /\ refill' = [refill EXCEPT ![k] = "entry"]
          /\ UNCHANGED <<dials, results, hand>>
      BY <1>3, <2>2, <3>1 DEF ScheduleRefill
    <3>3. refill[k] = "none" /\ InFlight(k) = {}
      BY <2>2, <3>1
    <3>4. refilling'[k] = TRUE /\ refill'[k] = "entry"
      BY <3>2
    <3>5. \A l \in Key : l # k => refilling'[l] = refilling[l] /\ refill'[l] = refill[l]
      BY <3>2
    <3>6. \A l \in Key : InFlight(l)' = InFlight(l)
      BY <3>2
    <3>. HIDE DEF InFlight, TypeOK
    <3>. QED
      BY <3>3, <3>4, <3>5, <3>6
  <2>. QED
    BY <2>1, <2>2
<1>4. ASSUME NEW h \in Client,
             StartDial(h) \/ HandshakeOK(h) \/ HandshakeFails(h) \/ RelayEnds(h)
      PROVE FlagIsGoroutine'
  BY <1>4 DEF StartDial, HandshakeOK, HandshakeFails, RelayEnds
<1>7. ASSUME NEW c \in Conn, CloseDiscarded(c) PROVE FlagIsGoroutine'
  BY <1>7 DEF CloseDiscarded
<1>8. ASSUME NEW k \in Key, RefillStart(k) PROVE FlagIsGoroutine'
  <2>1. /\ refill[k] = "entry" /\ refill'[k] \in {"end", "need"}
        /\ UNCHANGED <<refilling, dials, results, hand>>
        /\ \A l \in Key : l # k => refill'[l] = refill[l]
    BY <1>8 DEF RefillStart
  <2>2. \A l \in Key : InFlight(l)' = InFlight(l)
    BY <2>1
  <2>3. refilling[k] = TRUE /\ InFlight(k) = {}
    BY <2>1
  <2>. HIDE DEF InFlight, TypeOK
  <2>. QED
    BY <2>1, <2>2, <2>3
<1>9. ASSUME NEW k \in Key, RefillNeed(k) PROVE FlagIsGoroutine'
  <2>1. /\ refill[k] = "need" /\ UNCHANGED <<refilling, results, hand>>
        /\ \E r \in {"end", "gather"} : refill' = [refill EXCEPT ![k] = r]
        /\ refill'[k] # "gather" => UNCHANGED dials
        /\ \A l \in Key : l # k => dials'[l] = dials[l]
    <3>1. CASE Len(idle[k]) >= Target
      BY <1>9, <3>1 DEF RefillNeed
    <3>2. CASE ~(Len(idle[k]) >= Target)
      BY <1>9, <3>2 DEF RefillNeed
    <3>. QED
      BY <3>1, <3>2
  <2>2. \A l \in Key : l # k => refill'[l] = refill[l] /\ InFlight(l)' = InFlight(l)
    BY <2>1
  <2>3. refilling[k] /\ refill'[k] # "none"
    BY <2>1
  <2>4. refill'[k] # "gather" => InFlight(k)' = {}
    BY <2>1
  <2>5. \A l \in Key : l # k => refilling'[l] = refilling[l]
    BY <2>1
  <2>6. refilling'[k] = TRUE /\ refill'[k] # "none"
    BY <2>1, <2>3
  <2>. HIDE DEF InFlight, TypeOK
  <2>. QED
    BY <2>2, <2>4, <2>5, <2>6
<1>10. ASSUME NEW k \in Key, NEW c \in Conn, DialOK(k, c) PROVE FlagIsGoroutine'
  <2>1. /\ UNCHANGED <<refilling, refill, hand>>
        /\ c \in dials[k]
        /\ \A l \in Key : l # k => dials'[l] = dials[l] /\ results'[l] = results[l]
    BY <1>10 DEF DialOK
  <2>2. c \in InFlight(k)
    BY <2>1
  <2>3. refill[k] = "gather"
    BY <2>2
  <2>4. \A l \in Key : l # k => InFlight(l)' = InFlight(l)
    BY <2>1
  <2>. QED
    BY <2>1, <2>3, <2>4
<1>11. ASSUME NEW k \in Key, NEW c \in Conn, DialFails(k, c) PROVE FlagIsGoroutine'
  <2>1. /\ UNCHANGED <<refilling, refill, results, hand>>
        /\ c \in dials[k]
        /\ \A l \in Key : l # k => dials'[l] = dials[l]
    BY <1>11 DEF DialFails
  <2>2. c \in InFlight(k)
    BY <2>1
  <2>3. refill[k] = "gather"
    BY <2>2
  <2>4. \A l \in Key : l # k => InFlight(l)' = InFlight(l)
    BY <2>1
  <2>. QED
    BY <2>1, <2>3, <2>4
<1>12. ASSUME NEW k \in Key, NEW c \in Conn, Receive(k, c) PROVE FlagIsGoroutine'
  <2>1. /\ refill[k] = "gather" /\ UNCHANGED <<refilling, refill, dials>>
        /\ results' = [results EXCEPT ![k] = @ \ {c}]
        /\ \A l \in Key : l # k => hand'[l] = hand[l]
    BY <1>12 DEF Receive
  <2>2. \A l \in Key : l # k => InFlight(l)' = InFlight(l)
    BY <2>1
  <2>. QED
    BY <2>1, <2>2
<1>13. ASSUME NEW k \in Key, Append1(k) PROVE FlagIsGoroutine'
  <2>1. /\ UNCHANGED <<refilling, refill, dials, results>>
        /\ hand[k] # NoConn
        /\ \A l \in Key : l # k => hand'[l] = hand[l]
    BY <1>13 DEF Append1
  <2>2. hand[k] \in InFlight(k)
    BY <2>1
  <2>3. refill[k] = "gather"
    BY <2>2
  <2>4. \A l \in Key : l # k => InFlight(l)' = InFlight(l)
    BY <2>1
  <2>. QED
    BY <2>1, <2>3, <2>4
<1>14. ASSUME NEW k \in Key, RefillEnds(k) PROVE FlagIsGoroutine'
  <2>1. /\ refill' = [refill EXCEPT ![k] = "none"]
        /\ refilling' = [refilling EXCEPT ![k] = FALSE]
        /\ UNCHANGED <<dials, results, hand>>
    BY <1>14 DEF RefillEnds
  <2>2. InFlight(k) = {}
    BY <1>14 DEF RefillEnds
  <2>3. \A l \in Key : InFlight(l)' = InFlight(l)
    BY <2>1
  <2>4. refilling'[k] = FALSE /\ refill'[k] = "none"
    BY <2>1
  <2>5. \A l \in Key : l # k => refilling'[l] = refilling[l] /\ refill'[l] = refill[l]
    BY <2>1
  <2>. QED
    BY <2>2, <2>3, <2>4, <2>5 DEF FlagIsGoroutine
<1>15. CASE Cancel \/ Drain
  BY <1>15 DEF Cancel, Drain
<1>17. CASE Environment
  BY <1>17 DEF Environment, PeerCloses, Ages, Blacklisting
<1>20. CASE UNCHANGED vars
  BY <1>20 DEF vars
<1>. QED
  BY <1>1, <1>2, <1>3, <1>4, <1>7, <1>8, <1>9, <1>10, <1>11, <1>12,
     <1>13, <1>14, <1>15, <1>17, <1>20 DEF Next, Handler, RefillGoroutine

-----------------------------------------------------------------------------
(* Ownership.                                                              *)

\* A step that brings nothing into a bucket or to a handler keeps the places apart.
LEMMA Shrinks ==
  ASSUME TypeOK, Separate, OwnedOnce,
         \A k \in Key : /\ Pooled(k)' \subseteq Pooled(k) /\ IsInjective(idle'[k])
                        /\ InPool(k)' \cap InFlight(k)' = {}
                        /\ dials'[k] \cap results'[k] = {}
                        /\ hand'[k] \notin dials'[k] \cup results'[k],
         \A h \in Client : HeldBy(h)' \subseteq HeldBy(h),
         closing' \subseteq closing
  PROVE  Separate' /\ OwnedOnce'
<1>1. \A k \in Key : Pooled(k)' \subseteq Pooled(k)
  OBVIOUS
<1>2. Separate'
  <2>1. \A k \in Key : InPool(k)' \cap InFlight(k)' = {}
    BY DEF Separate
  <2>2. \A k, l \in Key : k # l => Pooled(k)' \cap Pooled(l)' = {}
    BY <1>1 DEF Separate
  <2>. QED
    BY <2>1, <2>2 DEF Separate
<1>3. OwnedOnce'
  <2>1. \A g, h \in Client : g # h => HeldBy(g)' \cap HeldBy(h)' = {}
    BY DEF OwnedOnce
  <2>2. \A h \in Client, k \in Key : HeldBy(h)' \cap Pooled(k)' = {}
    BY <1>1 DEF OwnedOnce
  <2>3. \A h \in Client : HeldBy(h)' \cap closing' = {}
    BY DEF OwnedOnce
  <2>4. \A k \in Key : closing' \cap Pooled(k)' = {}
    BY <1>1 DEF OwnedOnce
  <2>. QED
    BY <2>1, <2>2, <2>3, <2>4 DEF OwnedOnce
<1>. QED
  BY <1>2, <1>3

\* The steps of the goroutines that leave every bucket alone.
LEMMA OwnedSame ==
  ASSUME TypeOK, Separate, OwnedOnce,
         UNCHANGED <<idle, dials, results, hand, cconn, closing>>
  PROVE  Separate' /\ OwnedOnce'
<1>1. \A k \in Key : InPool(k)' = InPool(k) /\ InFlight(k)' = InFlight(k)
  BY DEF InPool, InFlight
<1>2. \A h \in Client : HeldBy(h)' = HeldBy(h)
  BY DEF HeldBy
<1>. QED
  BY <1>1, <1>2, Shrinks DEF Separate, OwnedOnce, Pooled

\* get moves one connection to the handler and others to the discarded ones.
LEMMA OwnedGet ==
  ASSUME TypeOK, Separate, OwnedOnce, NEW h \in Client, Get(h)
  PROVE  Separate' /\ OwnedOnce'
<1>a. PICK k \in Key : k = ckey[h]
  BY DEF TypeOK
<1>b. PICK b \in Seq(Conn) : b = idle[k]
  BY DEF TypeOK
<1>1. PICK d \in 0..Len(b) :
        /\ cconn' = [cconn EXCEPT ![h] = IF d = Len(b) THEN NoConn ELSE b[d + 1]]
        /\ idle' = [idle EXCEPT ![k] = SubSeq(b, d + 2, Len(b))]
        /\ closing' = closing \cup {b[i] : i \in 1..d}
  <2>1. PICK d \in 0..Len(idle[ckey[h]]) :
          /\ cconn' = [cconn EXCEPT ![h] =
               IF d = Len(idle[ckey[h]]) THEN NoConn ELSE idle[ckey[h]][d + 1]]
          /\ idle' = [idle EXCEPT ![ckey[h]] =
               SubSeq(idle[ckey[h]], d + 2, Len(idle[ckey[h]]))]
          /\ closing' = closing \cup {idle[ckey[h]][i] : i \in 1..d}
    BY DEF Get
  <2>. QED
    BY <2>1, <1>a, <1>b, ZenonT(60)
<1>. DEFINE s == SubSeq(b, d + 2, Len(b))
            dropped == {b[i] : i \in 1..d}
            taken == IF d = Len(b) THEN {} ELSE {b[d + 1]}
<1>2. k \in Key /\ b \in Seq(Conn) /\ IsInjective(b)
  BY <1>b DEF OwnedOnce
<1>3. /\ IsInjective(s)
      /\ ToSet(s) \subseteq ToSet(b) /\ dropped \subseteq ToSet(b)
      /\ ToSet(s) \cap dropped = {}
      /\ d < Len(b) => b[d + 1] \in ToSet(b) \ (ToSet(s) \cup dropped)
  BY <1>2, CutBucket
<1>4. d # Len(b) => d < Len(b)
  BY <1>2
<1>5. taken \subseteq ToSet(b) \ (ToSet(s) \cup dropped)
  BY <1>3, <1>4
<1>6. ToSet(b) \subseteq Conn
  BY <1>2 DEF ToSet
<1>7. \A l \in Key : InFlight(l)' = InFlight(l)
  BY DEF Get, InFlight, refillVars
<1>8. InPool(k)' = ToSet(s) /\ idle'[k] = s
  <2>1. idle'[k] = s
    BY <1>1, <1>2 DEF TypeOK
  <2>. QED
    BY <2>1 DEF InPool
<1>9. \A l \in Key \ {k} : InPool(l)' = InPool(l) /\ idle'[l] = idle[l]
  BY <1>1 DEF InPool, TypeOK
<1>10. HeldBy(h)' \subseteq taken
  BY <1>1 DEF HeldBy, TypeOK
<1>11. \A g \in Client \ {h} : HeldBy(g)' = HeldBy(g)
  BY <1>1 DEF HeldBy, TypeOK
<1>12. closing' = closing \cup dropped
  BY <1>1
<1>13. ToSet(b) = InPool(k)
  BY <1>b DEF InPool
<1>. HIDE DEF s, dropped, taken
<1>14. Separate'
  <2>1. \A l \in Key : InPool(l)' \subseteq InPool(l)
    BY <1>3, <1>8, <1>9, <1>13
  <2>2. \A l \in Key : InPool(l)' \cap InFlight(l)' = {}
    BY <2>1, <1>7 DEF Separate
  <2>3. \A l \in Key : dials'[l] \cap results'[l] = {} /\ hand'[l] \notin dials'[l] \cup results'[l]
    BY DEF Get, refillVars, Separate
  <2>4. \A l, m \in Key : l # m => Pooled(l)' \cap Pooled(m)' = {}
    BY <2>1, <1>7 DEF Separate, Pooled
  <2>. QED
    BY <2>2, <2>3, <2>4 DEF Separate
<1>15. OwnedOnce'
  <2>0. \A l \in Key : l # k => ToSet(b) \cap Pooled(l) = {}
    BY <1>2, <1>13 DEF Separate, Pooled
  <2>00. ToSet(b) \cap InFlight(k) = {}
    BY <1>2, <1>13 DEF Separate
  <2>1. \A l \in Key : IsInjective(idle'[l])
    BY <1>3, <1>8, <1>9 DEF OwnedOnce
  <2>2. \A g \in Client : HeldBy(g) \cap ToSet(b) = {}
    BY <1>2, <1>13 DEF OwnedOnce, Pooled
  <2>3. \A g, i \in Client : g # i => HeldBy(g)' \cap HeldBy(i)' = {}
    BY <2>2, <1>5, <1>10, <1>11 DEF OwnedOnce
  <2>4. \A l \in Key : HeldBy(h)' \cap Pooled(l)' = {}
    BY <2>0, <2>00, <1>5, <1>7, <1>8, <1>9, <1>10 DEF Pooled
  <2>5. \A g \in Client, l \in Key : g # h => HeldBy(g)' \cap Pooled(l)' = {}
    BY <1>3, <1>7, <1>8, <1>9, <1>11, <1>13 DEF OwnedOnce, Pooled
  <2>6. closing \cap ToSet(b) = {}
    BY <1>2, <1>13 DEF OwnedOnce, Pooled
  <2>7. \A g \in Client : HeldBy(g)' \cap closing' = {}
    BY <2>2, <2>6, <1>3, <1>5, <1>10, <1>11, <1>12 DEF OwnedOnce
  <2>8. \A l \in Key : closing' \cap Pooled(l)' = {}
    BY <2>0, <2>00, <1>3, <1>7, <1>8, <1>9, <1>12, <1>13 DEF OwnedOnce, Pooled
  <2>. QED
    BY <2>1, <2>3, <2>4, <2>5, <2>7, <2>8 DEF OwnedOnce
<1>. QED
  BY <1>14, <1>15

\* The steps of a refill and the close.
LEMMA OwnedRefill ==
  ASSUME TypeOK, FlagIsGoroutine, Separate, OwnedOnce, NEW k \in Key,
         \/ RefillNeed(k)
         \/ \E c \in Conn : DialOK(k, c) \/ DialFails(k, c) \/ Receive(k, c)
         \/ Append1(k)
  PROVE  Separate' /\ OwnedOnce'
<1>. USE DEF poolVars, refillVars, clientVars
<1>1. CASE RefillNeed(k)
  <2>1. CASE dials' = dials
    BY <1>1, <2>1, OwnedSame DEF RefillNeed
  <2>2. ASSUME NEW S \in SUBSET Unused, dials' = [dials EXCEPT ![k] = @ \cup S]
        PROVE  Separate' /\ OwnedOnce'
    <3>1. InFlight(k) = {} /\ UNCHANGED <<idle, results, hand, closing, cconn>>
      BY <1>1 DEF RefillNeed, FlagIsGoroutine
    <3>2. \A l \in Key : l # k => InFlight(l)' = InFlight(l)
      BY <2>2, <3>1 DEF InFlight, TypeOK
    <3>3. dials'[k] = S /\ results'[k] = {} /\ hand'[k] = NoConn /\ InFlight(k)' = S
      BY <2>2, <3>1 DEF InFlight, TypeOK
    <3>4. \A l \in Key : InPool(l)' = InPool(l)
      BY <3>1 DEF InPool
    <3>5. /\ \A l \in Key : S \cap Pooled(l) = {}
          /\ S \cap closing = {} /\ \A h \in Client : S \cap HeldBy(h) = {}
      <4>1. \A l \in Key : Unused \cap Pooled(l) = {}
        <5>1. \A l \in Key : Pooled(l) \subseteq UNION {Pooled(m) : m \in Key}
          BY Zenon
        <5>. QED
          BY <5>1 DEF Unused
      <4>2. \A h \in Client : Unused \cap HeldBy(h) = {}
        <5>1. \A h \in Client : HeldBy(h) \subseteq UNION {HeldBy(g) : g \in Client}
          BY Zenon
        <5>. QED
          BY <5>1 DEF Unused
      <4>3. Unused \cap closing = {}
        BY DEF Unused
      <4>. QED
        BY <2>2, <4>1, <4>2, <4>3
    <3>6. \A l \in Key : l # k => dials'[l] = dials[l]
      BY <2>2 DEF TypeOK
    <3>7. Separate'
      <4>1. \A l \in Key : InPool(l)' \cap InFlight(l)' = {}
        BY <3>2, <3>3, <3>4, <3>5 DEF Separate, Pooled
      <4>2. \A l \in Key : dials'[l] \cap results'[l] = {}
        BY <3>1, <3>3, <3>6 DEF Separate
      <4>3. \A l \in Key : hand'[l] \notin dials'[l] \cup results'[l]
        <5>1. NoConn \notin S
          BY <2>2, NoConnIsNew DEF Unused
        <5>. QED
          BY <5>1, <3>1, <3>3, <3>6 DEF Separate
      <4>4. \A l, m \in Key : l # m => Pooled(l)' \cap Pooled(m)' = {}
        BY <3>2, <3>3, <3>4, <3>5 DEF Separate, Pooled
      <4>. QED
        BY <4>1, <4>2, <4>3, <4>4 DEF Separate
    <3>8. OwnedOnce'
      <4>1. \A h \in Client : HeldBy(h)' = HeldBy(h)
        BY <3>1 DEF HeldBy
      <4>2. \A h \in Client, l \in Key : HeldBy(h)' \cap Pooled(l)' = {}
        BY <4>1, <3>2, <3>3, <3>4, <3>5 DEF OwnedOnce, Pooled
      <4>3. \A l \in Key : closing' \cap Pooled(l)' = {}
        BY <3>1, <3>2, <3>3, <3>4, <3>5 DEF OwnedOnce, Pooled
      <4>4. /\ \A l \in Key : IsInjective(idle'[l])
            /\ \A g, h \in Client : g # h => HeldBy(g)' \cap HeldBy(h)' = {}
            /\ \A h \in Client : HeldBy(h)' \cap closing' = {}
        BY <3>1, <4>1 DEF OwnedOnce
      <4>. QED
        BY <4>2, <4>3, <4>4 DEF OwnedOnce
    <3>. QED
      BY <3>7, <3>8
  <2>. QED
    BY <1>1, <2>1, <2>2 DEF RefillNeed
<1>2. ASSUME NEW c \in Conn, DialOK(k, c) \/ DialFails(k, c) \/ Receive(k, c)
      PROVE  Separate' /\ OwnedOnce'
  <2>1. UNCHANGED <<idle, closing, cconn>>
    BY <1>2 DEF DialOK, DialFails, Receive
  <2>2. \A l \in Key : l # k => dials'[l] = dials[l] /\ results'[l] = results[l] /\ hand'[l] = hand[l]
    BY <1>2 DEF DialOK, DialFails, Receive, TypeOK
  <2>3. /\ InFlight(k)' \subseteq InFlight(k)
        /\ dials'[k] \cap results'[k] = {}
        /\ hand'[k] \notin dials'[k] \cup results'[k]
    <3>1. CASE DialOK(k, c)
      BY <3>1 DEF DialOK, TypeOK, InFlight, Separate
    <3>2. CASE DialFails(k, c)
      BY <3>2 DEF DialFails, TypeOK, InFlight, Separate
    <3>3. CASE Receive(k, c)
      <4>1. results'[k] = results[k] \ {c} /\ dials' = dials /\ c \in results[k] /\ hand[k] = NoConn
        BY <3>3 DEF Receive, TypeOK
      <4>2. hand'[k] \in {c, hand[k]}
        BY <3>3 DEF Receive, TypeOK
      <4>. QED
        BY <4>1, <4>2 DEF InFlight, Separate
    <3>. QED
      BY <1>2, <3>1, <3>2, <3>3
  <2>4. \A l \in Key : InFlight(l)' \subseteq InFlight(l) /\ InPool(l)' = InPool(l)
    BY <2>1, <2>2, <2>3 DEF InFlight, InPool
  <2>5. \A l \in Key : /\ dials'[l] \cap results'[l] = {}
                       /\ hand'[l] \notin dials'[l] \cup results'[l]
    BY <2>2, <2>3 DEF Separate
  <2>6. \A l \in Key : Pooled(l)' \subseteq Pooled(l) /\ InPool(l)' \cap InFlight(l)' = {}
    BY <2>4 DEF Pooled, Separate
  <2>7. \A h \in Client : HeldBy(h)' = HeldBy(h)
    BY <2>1 DEF HeldBy
  <2>. QED
    BY <2>1, <2>5, <2>6, <2>7, Shrinks DEF OwnedOnce
<1>3. CASE Append1(k)
  <2>1. /\ hand[k] \in Conn /\ idle[k] \in Seq(Conn) /\ IsInjective(idle[k])
        /\ UNCHANGED <<dials, results, closing, cconn>>
    BY <1>3 DEF Append1, TypeOK, OwnedOnce
  <2>2. hand[k] \notin InPool(k)
    BY <1>3 DEF Append1, Separate, InFlight
  <2>3. /\ IsInjective(Append(idle[k], hand[k]))
        /\ ToSet(Append(idle[k], hand[k])) = ToSet(idle[k]) \cup {hand[k]}
    BY <2>1, <2>2, AppendToBucket DEF InPool
  <2>4. idle'[k] = Append(idle[k], hand[k]) /\ hand'[k] = NoConn
    BY <1>3 DEF Append1, TypeOK
  <2>5. \A l \in Key : l # k => idle'[l] = idle[l] /\ hand'[l] = hand[l]
    BY <1>3 DEF Append1, TypeOK
  <2>6. InPool(k)' = InPool(k) \cup {hand[k]} /\ InFlight(k)' = InFlight(k) \ {hand[k]}
    <3>1. InFlight(k)' = dials[k] \cup results[k]
      BY <2>1, <2>4 DEF InFlight
    <3>2. hand[k] \notin dials[k] \cup results[k] /\ hand[k] # NoConn
      BY <1>3 DEF Append1, Separate
    <3>. QED
      BY <3>1, <3>2, <2>3, <2>4 DEF InPool, InFlight
  <2>7. \A l \in Key : l # k => InPool(l)' = InPool(l) /\ InFlight(l)' = InFlight(l)
    BY <2>1, <2>5 DEF InPool, InFlight
  <2>8. hand[k] \in InFlight(k)
    BY <1>3 DEF Append1, InFlight
  <2>9. \A l \in Key : Pooled(l)' \subseteq Pooled(l) /\ InPool(l)' \cap InFlight(l)' = {}
    BY <2>6, <2>7, <2>8 DEF Pooled, Separate
  <2>10. \A l \in Key : /\ dials'[l] \cap results'[l] = {}
                        /\ hand'[l] \notin dials'[l] \cup results'[l]
    <3>1. NoConn \notin dials[k] \cup results[k]
      BY NoConnIsNew DEF TypeOK
    <3>. QED
      BY <3>1, <2>1, <2>4, <2>5 DEF Separate
  <2>11. \A l \in Key : IsInjective(idle'[l])
    BY <2>3, <2>4, <2>5 DEF OwnedOnce
  <2>12. \A h \in Client : HeldBy(h)' = HeldBy(h)
    BY <2>1 DEF HeldBy
  <2>. QED
    BY <2>1, <2>9, <2>10, <2>11, <2>12, Shrinks
<1>. QED
  BY <1>1, <1>2, <1>3

\* Every step leaves a connection with one owner.
LEMMA OwnedNext ==
  ASSUME TypeOK, FlagIsGoroutine, Separate, OwnedOnce, [Next]_vars
  PROVE  Separate' /\ OwnedOnce'
<1>. USE DEF poolVars, refillVars, clientVars
<1>1. ASSUME NEW h \in Client, NEW k \in Key, LoadPool(h, k) PROVE Separate' /\ OwnedOnce'
  BY <1>1, OwnedSame DEF LoadPool
<1>2. ASSUME NEW h \in Client, Get(h) PROVE Separate' /\ OwnedOnce'
  BY <1>2, OwnedGet
<1>3. ASSUME NEW h \in Client, StartDial(h) \/ ScheduleRefill(h) \/ HandshakeOK(h)
      PROVE  Separate' /\ OwnedOnce'
  BY <1>3, OwnedSame DEF StartDial, ScheduleRefill, HandshakeOK
<1>4. ASSUME NEW h \in Client, HandshakeFails(h) \/ RelayEnds(h)
      PROVE  Separate' /\ OwnedOnce'
  <2>1. /\ cconn' = [cconn EXCEPT ![h] = NoConn]
        /\ UNCHANGED <<idle, dials, results, hand, closing>>
    BY <1>4 DEF HandshakeFails, RelayEnds
  <2>2. \A k \in Key : /\ Pooled(k)' \subseteq Pooled(k) /\ IsInjective(idle'[k])
                       /\ InPool(k)' \cap InFlight(k)' = {}
                       /\ dials'[k] \cap results'[k] = {}
                       /\ hand'[k] \notin dials'[k] \cup results'[k]
    BY <2>1 DEF Pooled, InPool, InFlight, Separate, OwnedOnce
  <2>3. \A g \in Client : HeldBy(g)' \subseteq HeldBy(g)
    BY <2>1 DEF HeldBy, TypeOK
  <2>. QED
    BY <2>1, <2>2, <2>3, Shrinks
<1>5. ASSUME NEW c \in Conn, CloseDiscarded(c) PROVE Separate' /\ OwnedOnce'
  <2>1. /\ closing' \subseteq closing
        /\ UNCHANGED <<idle, dials, results, hand, cconn>>
    BY <1>5 DEF CloseDiscarded
  <2>2. \A k \in Key : /\ Pooled(k)' \subseteq Pooled(k) /\ IsInjective(idle'[k])
                       /\ InPool(k)' \cap InFlight(k)' = {}
                       /\ dials'[k] \cap results'[k] = {}
                       /\ hand'[k] \notin dials'[k] \cup results'[k]
    BY <2>1 DEF Pooled, InPool, InFlight, Separate, OwnedOnce
  <2>3. \A g \in Client : HeldBy(g)' \subseteq HeldBy(g)
    BY <2>1 DEF HeldBy
  <2>. QED
    BY <2>1, <2>2, <2>3, Shrinks
<1>6. ASSUME NEW k \in Key, RefillStart(k) \/ RefillEnds(k) PROVE Separate' /\ OwnedOnce'
  BY <1>6, OwnedSame DEF RefillStart, RefillEnds
<1>7. ASSUME NEW k \in Key,
             \/ RefillNeed(k)
             \/ \E c \in Conn : DialOK(k, c) \/ DialFails(k, c) \/ Receive(k, c)
             \/ Append1(k)
      PROVE  Separate' /\ OwnedOnce'
  BY <1>7, OwnedRefill
<1>8. CASE Cancel
  BY <1>8, OwnedSame DEF Cancel
<1>9. CASE Drain
  <2>1. /\ \A k \in Key : idle'[k] = <<>>
        /\ UNCHANGED <<dials, results, hand, cconn, closing>>
    BY <1>9 DEF Drain
  <2>2. \A k \in Key : InPool(k)' = {} /\ InFlight(k)' = InFlight(k) /\ IsInjective(idle'[k])
    BY <2>1, EmptyBucket DEF InPool, InFlight
  <2>3. \A k \in Key : /\ Pooled(k)' \subseteq Pooled(k) /\ IsInjective(idle'[k])
                       /\ InPool(k)' \cap InFlight(k)' = {}
                       /\ dials'[k] \cap results'[k] = {}
                       /\ hand'[k] \notin dials'[k] \cup results'[k]
    BY <2>1, <2>2 DEF Pooled, Separate
  <2>4. \A g \in Client : HeldBy(g)' \subseteq HeldBy(g)
    BY <2>1 DEF HeldBy
  <2>. QED
    BY <2>1, <2>3, <2>4, Shrinks
<1>10. CASE Environment
  BY <1>10, OwnedSame DEF Environment, PeerCloses, Ages, Blacklisting
<1>11. CASE UNCHANGED vars
  BY <1>11, OwnedSame DEF vars
<1>. QED
  BY <1>1, <1>2, <1>3, <1>4, <1>5, <1>6, <1>7, <1>8, <1>9, <1>10, <1>11
     DEF Next, Handler, RefillGoroutine

-----------------------------------------------------------------------------
(* The size of the pool.                                                   *)

\* What is on its way into a bucket is finite, and so is each part of it.
LEMMA Finite ==
  ASSUME NEW S, S \subseteq Conn
  PROVE  IsFiniteSet(S) /\ Cardinality(S) \in Nat
BY ConnFinite, FS_Subset, FS_CardinalityType

\* A smaller set on its way to a bucket that is no longer does no harm.
LEMMA BoundShrinks ==
  ASSUME TypeOK, PoolBounded, NEW k \in Key,
         InFlight(k)' \subseteq InFlight(k), Len(idle'[k]) \in Nat,
         Len(idle'[k]) <= Len(idle[k])
  PROVE  Len(idle'[k]) + Cardinality(InFlight(k)') <= Target
<1>1. InFlight(k) \subseteq Conn
  BY DEF TypeOK, InFlight
<1>2. /\ IsFiniteSet(InFlight(k)) /\ Cardinality(InFlight(k)) \in Nat
      /\ IsFiniteSet(InFlight(k)') /\ Cardinality(InFlight(k)') \in Nat
  BY <1>1, Finite
<1>3. Cardinality(InFlight(k)') <= Cardinality(InFlight(k))
  BY <1>2, FS_Subset
<1>4. Len(idle[k]) \in Nat /\ Len(idle[k]) + Cardinality(InFlight(k)) <= Target
  BY DEF TypeOK, PoolBounded
<1>. QED
  BY <1>2, <1>3, <1>4, TargetPositive

\* Every step keeps the pool within its target.
LEMMA BoundNext ==
  ASSUME TypeOK, FlagIsGoroutine, Separate, OwnedOnce, PoolBounded, [Next]_vars
  PROVE  PoolBounded'
<1>. USE DEF poolVars, refillVars, clientVars
<1>0. TypeOK'
  BY TypeNext
<1>1. \A l \in Key : Len(idle[l]) \in Nat /\ Len(idle'[l]) \in Nat
  BY <1>0 DEF TypeOK
<1>2. SUFFICES ASSUME NEW l \in Key
               PROVE  Len(idle'[l]) + Cardinality(InFlight(l)') <= Target
  BY DEF PoolBounded
<1>3. CASE InFlight(l)' \subseteq InFlight(l) /\ Len(idle'[l]) <= Len(idle[l])
  BY <1>1, <1>3, BoundShrinks
<1>4. ASSUME NEW h \in Client, Get(h) PROVE Len(idle'[l]) + Cardinality(InFlight(l)') <= Target
  <2>1. InFlight(l)' = InFlight(l)
    BY <1>4 DEF Get, InFlight
  <2>2. CASE l # ckey[h]
    <3>1. idle'[l] = idle[l]
      BY <1>4, <2>2 DEF Get, TypeOK
    <3>. QED
      BY <1>1, <1>3, <2>1, <3>1
  <2>3. CASE l = ckey[h]
    <3>1. PICK b \in Seq(Conn) : b = idle[l]
      BY DEF TypeOK
    <3>2. PICK d \in 0..Len(b) : idle'[l] = SubSeq(b, d + 2, Len(b))
      BY <1>4, <2>3, <3>1 DEF Get, TypeOK
    <3>3. IsInjective(b)
      BY <3>1 DEF OwnedOnce
    <3>4. Len(idle'[l]) <= Len(idle[l])
      BY <3>1, <3>2, <3>3, CutBucket
    <3>. QED
      BY <1>3, <2>1, <3>4
  <2>. QED
    BY <2>2, <2>3
<1>5. ASSUME NEW k \in Key, RefillNeed(k) PROVE Len(idle'[l]) + Cardinality(InFlight(l)') <= Target
  <2>1. CASE dials' = dials \/ l # k
    <3>1. InFlight(l)' = InFlight(l) /\ idle' = idle
      BY <1>5, <2>1 DEF RefillNeed, InFlight, TypeOK
    <3>. QED
      BY <1>1, <1>3, <3>1
  <2>2. CASE ~(dials' = dials) /\ l = k
    <3>1. PICK S \in SUBSET Unused :
            /\ Cardinality(S) = Target - Len(idle[k])
            /\ dials' = [dials EXCEPT ![k] = @ \cup S]
      BY <1>5, <2>2 DEF RefillNeed
    <3>2. InFlight(k)' = S /\ idle' = idle
      BY <1>5, <3>1 DEF RefillNeed, FlagIsGoroutine, InFlight, TypeOK
    <3>. QED
      BY <1>1, <2>2, <3>1, <3>2, TargetPositive
  <2>. QED
    BY <2>1, <2>2
<1>6. ASSUME NEW k \in Key, NEW c \in Conn, DialOK(k, c) \/ DialFails(k, c) \/ Receive(k, c)
      PROVE  Len(idle'[l]) + Cardinality(InFlight(l)') <= Target
  <2>1. CASE l # k
    <3>1. InFlight(l)' = InFlight(l) /\ idle' = idle
      BY <1>6, <2>1 DEF DialOK, DialFails, Receive, InFlight, TypeOK
    <3>. QED
      BY <1>1, <1>3, <3>1
  <2>2. CASE l = k
    <3>1. InFlight(l)' \subseteq InFlight(l)
      <4>1. CASE DialOK(k, c)
        BY <2>2, <4>1 DEF DialOK, TypeOK, InFlight
      <4>2. CASE DialFails(k, c)
        BY <2>2, <4>2 DEF DialFails, TypeOK, InFlight
      <4>3. CASE Receive(k, c)
        <5>1. results'[k] = results[k] \ {c} /\ dials' = dials /\ c \in results[k]
          BY <4>3 DEF Receive, TypeOK
        <5>2. hand'[k] \in {c, hand[k]}
          BY <4>3 DEF Receive, TypeOK
        <5>. QED
          BY <2>2, <5>1, <5>2 DEF InFlight
      <4>. QED
        BY <1>6, <4>1, <4>2, <4>3
    <3>2. idle' = idle
      BY <1>6 DEF DialOK, DialFails, Receive
    <3>. QED
      BY <1>1, <1>3, <3>1, <3>2
  <2>. QED
    BY <2>1, <2>2
<1>7. ASSUME NEW k \in Key, Append1(k) PROVE Len(idle'[l]) + Cardinality(InFlight(l)') <= Target
  <2>1. CASE l # k
    <3>1. InFlight(l)' = InFlight(l) /\ idle'[l] = idle[l]
      BY <1>7, <2>1 DEF Append1, InFlight, TypeOK
    <3>. QED
      BY <1>1, <1>3, <3>1
  <2>2. CASE l = k
    <3>1. hand[l] \in Conn /\ hand[l] \in InFlight(l)
      BY <1>7, <2>2 DEF Append1, InFlight, TypeOK
    <3>2. idle'[l] = Append(idle[l], hand[l])
      BY <1>7, <2>2 DEF Append1, TypeOK
    <3>3. Len(idle'[l]) = Len(idle[l]) + 1
      BY <3>1, <3>2 DEF TypeOK
    <3>4. InFlight(l)' = InFlight(l) \ {hand[l]}
      <4>1. InFlight(l)' = dials[l] \cup results[l]
        BY <1>7, <2>2 DEF Append1, InFlight, TypeOK
      <4>2. hand[l] \notin dials[l] \cup results[l]
        BY DEF Separate
      <4>. QED
        BY <4>1, <4>2 DEF InFlight
    <3>5. IsFiniteSet(InFlight(l)) /\ Cardinality(InFlight(l)) \in Nat
      <4>1. InFlight(l) \subseteq Conn
        BY DEF TypeOK, InFlight
      <4>. QED
        BY <4>1, Finite
    <3>6. Cardinality(InFlight(l)') = Cardinality(InFlight(l)) - 1
      BY <3>1, <3>4, <3>5, FS_RemoveElement
    <3>7. Len(idle[l]) + Cardinality(InFlight(l)) <= Target
      BY DEF PoolBounded
    <3>. QED
      BY <1>1, <3>3, <3>5, <3>6, <3>7, TargetPositive
  <2>. QED
    BY <2>1, <2>2
<1>8. CASE Drain
  <2>1. idle'[l] = <<>> /\ InFlight(l)' = InFlight(l)
    BY <1>8 DEF Drain, InFlight
  <2>. QED
    BY <1>1, <1>3, <2>1
<1>9. CASE UNCHANGED <<idle, dials, results, hand>>
  <2>1. InFlight(l)' = InFlight(l)
    BY <1>9 DEF InFlight
  <2>. QED
    BY <1>1, <1>3, <1>9, <2>1
<1>10. ASSUME NEW h \in Client,
              \/ ScheduleRefill(h) \/ HandshakeOK(h) \/ HandshakeFails(h) \/ RelayEnds(h)
              \/ StartDial(h) \/ \E k \in Key : LoadPool(h, k)
       PROVE  UNCHANGED <<idle, dials, results, hand>>
  BY <1>10 DEF ScheduleRefill, HandshakeOK, HandshakeFails, RelayEnds, StartDial, LoadPool
<1>11. ASSUME \/ \E c \in Conn : CloseDiscarded(c)
              \/ \E k \in Key : RefillStart(k) \/ RefillEnds(k)
              \/ Cancel \/ Environment \/ UNCHANGED vars
       PROVE  UNCHANGED <<idle, dials, results, hand>>
  BY <1>11 DEF CloseDiscarded, RefillStart, RefillEnds, Cancel, Environment, PeerCloses,
               Ages, Blacklisting, vars
<1>. QED
  BY <1>4, <1>5, <1>6, <1>7, <1>8, <1>9, <1>10, <1>11 DEF Next, Handler, RefillGoroutine

-----------------------------------------------------------------------------
(* After the close.                                                        *)

\* After the drain a bucket gets at most the connection that was in hand.
LEMMA StragglerNext ==
  ASSUME TypeOK, LastStraggler, OwnedOnce, [Next]_vars
  PROVE  LastStraggler'
<1>. USE DEF poolVars, refillVars, clientVars
<1>1. SUFFICES ASSUME life' = "closed", NEW l \in Key
               PROVE  idle'[l] = <<>> \/ (Len(idle'[l]) = 1 /\ hand'[l] = NoConn)
  BY DEF LastStraggler
<1>2. CASE Drain
  BY <1>2 DEF Drain
<1>3. ASSUME ~Drain PROVE life = "closed"
  BY <1>1, <1>3 DEF Next, LoadPool, StartDial, Handler, Get, ScheduleRefill, HandshakeOK, HandshakeFails,
     RelayEnds, CloseDiscarded, RefillGoroutine, RefillStart, RefillNeed, DialOK, DialFails,
     Receive, Append1, RefillEnds, Cancel, Environment, PeerCloses, Ages, Blacklisting, vars
<1>4. CASE life = "closed" /\ UNCHANGED <<idle, hand>>
  BY <1>4 DEF LastStraggler
<1>5. ASSUME life = "closed", NEW h \in Client, Get(h)
      PROVE  idle'[l] = <<>> \/ (Len(idle'[l]) = 1 /\ hand'[l] = NoConn)
  <2>1. CASE l # ckey[h]
    <3>1. idle'[l] = idle[l] /\ hand' = hand
      BY <1>5, <2>1 DEF Get, TypeOK
    <3>. QED
      BY <1>5, <3>1 DEF LastStraggler
  <2>2. CASE l = ckey[h]
    <3>1. PICK b \in Seq(Conn) : b = idle[l]
      BY DEF TypeOK
    <3>2. PICK d \in 0..Len(b) : idle'[l] = SubSeq(b, d + 2, Len(b))
      BY <1>5, <2>2, <3>1 DEF Get, TypeOK
    <3>3. Len(b) <= 1
      <4>1. b = <<>> \/ Len(b) = 1
        BY <1>5, <3>1 DEF LastStraggler
      <4>2. b = <<>> => Len(b) = 0
        OBVIOUS
      <4>. QED
        BY <4>1, <4>2
    <3>4. idle'[l] = <<>>
      BY <3>2, <3>3
    <3>. QED
      BY <3>4
  <2>. QED
    BY <2>1, <2>2
<1>6. ASSUME life = "closed", NEW k \in Key, NEW c \in Conn, Receive(k, c)
      PROVE  UNCHANGED <<idle, hand>>
  BY <1>6 DEF Receive
<1>7. ASSUME life = "closed", NEW k \in Key, Append1(k)
      PROVE  idle'[l] = <<>> \/ (Len(idle'[l]) = 1 /\ hand'[l] = NoConn)
  <2>1. CASE l # k
    <3>1. idle'[l] = idle[l] /\ hand'[l] = hand[l]
      BY <1>7, <2>1 DEF Append1, TypeOK
    <3>. QED
      BY <1>7, <3>1 DEF LastStraggler
  <2>2. CASE l = k
    <3>1. idle[l] = <<>> /\ hand[l] \in Conn
      BY <1>7, <2>2 DEF Append1, LastStraggler, TypeOK
    <3>2. idle'[l] = Append(<<>>, hand[l]) /\ hand'[l] = NoConn
      BY <1>7, <2>2, <3>1 DEF Append1, TypeOK
    <3>. QED
      BY <3>1, <3>2
  <2>. QED
    BY <2>1, <2>2
<1>8. ASSUME NEW h \in Client,
             \/ ScheduleRefill(h) \/ HandshakeOK(h) \/ HandshakeFails(h) \/ RelayEnds(h)
             \/ StartDial(h) \/ \E k \in Key : LoadPool(h, k)
      PROVE  UNCHANGED <<idle, hand>>
  BY <1>8 DEF ScheduleRefill, HandshakeOK, HandshakeFails, RelayEnds, StartDial, LoadPool
<1>9. ASSUME \/ \E c \in Conn : CloseDiscarded(c)
             \/ \E k \in Key : RefillStart(k) \/ RefillNeed(k) \/ RefillEnds(k)
             \/ \E k \in Key, c \in Conn : DialOK(k, c) \/ DialFails(k, c)
             \/ Cancel \/ Environment \/ UNCHANGED vars
      PROVE  UNCHANGED <<idle, hand>>
  BY <1>9 DEF CloseDiscarded, RefillStart, RefillNeed, RefillEnds, DialOK, DialFails, Cancel,
              Environment, PeerCloses, Ages, Blacklisting, vars
<1>10. life = "closed" \/ Drain
  BY <1>3
<1>. QED
  BY <1>2, <1>4, <1>5, <1>6, <1>7, <1>8, <1>9, <1>10 DEF Next, Handler, RefillGoroutine

-----------------------------------------------------------------------------
(* Together.                                                               *)

\* A pool that is being warmed up satisfies the invariant.
LEMMA InvInit == Init => IInv
<1>1. SUFFICES ASSUME Init PROVE IInv
  OBVIOUS
<1>2. \A k \in Key : InPool(k) = {} /\ InFlight(k) = {} /\ Pooled(k) = {} /\ IsInjective(idle[k])
  BY <1>1, EmptyBucket DEF Init, InPool, InFlight, Pooled
<1>3. \A h \in Client : HeldBy(h) = {}
  BY <1>1 DEF Init, HeldBy
<1>4. FlagIsGoroutine
  BY <1>1, <1>2 DEF Init, FlagIsGoroutine
<1>5. ASSUME NEW k \in Key PROVE Len(idle[k]) + Cardinality(InFlight(k)) <= Target
  <2>1. idle[k] = <<>> /\ InFlight(k) = {}
    BY <1>1, <1>2 DEF Init
  <2>2. PICK n \in Nat : n = Len(idle[k])
    BY <2>1
  <2>3. n = 0
    BY <2>1, <2>2
  <2>4. Cardinality(InFlight(k)) = 0
    BY <2>1, FS_EmptySet
  <2>. QED
    BY <2>2, <2>3, <2>4, TargetPositive
<1>6. Separate
  BY <1>1, <1>2 DEF Init, Separate
<1>7. OwnedOnce
  BY <1>2, <1>3 DEF OwnedOnce
<1>8. LastStraggler
  BY <1>1 DEF Init, LastStraggler
<1>. QED
  BY <1>1, <1>4, <1>5, <1>6, <1>7, <1>8, TypeInit DEF IInv, PoolBounded

\* The inductive invariant holds throughout.
THEOREM Invariant == Spec => []IInv
<1>1. IInv /\ [Next]_vars => IInv'
  BY TypeNext, FlagNext, OwnedNext, BoundNext, StragglerNext DEF IInv
<1>. QED
  BY InvInit, <1>1, PTL DEF Spec

\* However handlers, refills and the close interleave, no connection of the pool
\* is ever shared by two owners: two clients, or a client and the pool.
THEOREM OneOwner == Spec => []OwnedOnce
<1>1. IInv => OwnedOnce
  BY DEF IInv
<1>. QED
  BY Invariant, <1>1, PTL

\* The pool of a key never exceeds the target, those on their way included.
THEOREM WithinTarget == Spec => []PoolBounded
<1>1. IInv => PoolBounded
  BY DEF IInv
<1>. QED
  BY Invariant, <1>1, PTL

\* The flag is up exactly while the refill goroutine of the key lives.
THEOREM OneRefill == Spec => []FlagIsGoroutine
<1>1. IInv => FlagIsGoroutine
  BY DEF IInv
<1>. QED
  BY Invariant, <1>1, PTL

\* A closed pool holds at most one connection of a key, which nobody will close.
THEOREM AtMostOneStraggler == Spec => []StragglersBounded
<1>1. IInv => StragglersBounded
  <2>1. SUFFICES ASSUME IInv, life = "closed", NEW k \in Key PROVE Len(idle[k]) <= 1
    BY DEF StragglersBounded
  <2>2. idle[k] = <<>> \/ Len(idle[k]) = 1
    BY <2>1 DEF IInv, LastStraggler
  <2>3. PICK n \in Nat : n = Len(idle[k])
    BY <2>1 DEF IInv, TypeOK
  <2>4. CASE idle[k] = <<>>
    <3>1. n = 0
      BY <2>3, <2>4
    <3>. QED
      BY <2>3, <3>1
  <2>5. CASE Len(idle[k]) = 1
    BY <2>5
  <2>. QED
    BY <2>2, <2>4, <2>5
<1>. QED
  BY Invariant, <1>1, PTL

-----------------------------------------------------------------------------
(* The pool of CF domains. *)

\* Between its load of cfEmergencyRefreshAt and its CompareAndSwap a dial holds a
\* value that is either out of date, so that the swap fails, or from before the
\* period: nobody has begun a refresh since.
CFInv ==
  /\ CFTypeOK
  /\ begun <= 1
  /\ ~fresh => begun = 0 /\ stamp < MaxStamp
  /\ \A c \in Caller :
       /\ prev[c] <= stamp
       /\ pc[c] = "swap" /\ prev[c] = stamp => ~fresh

\* The pool starts with the bundled list, and no refresh.
LEMMA CFInvInit ==
  ASSUME CFInit
  PROVE  CFInv
<1>. USE DefaultType, CustomType, BoundType
<1>1. 0 \in 0..MaxStamp /\ 0 < MaxStamp
  OBVIOUS
<1>2. dc \in [Caller -> DC] /\ perDC \in [DC -> Domain \cup {Custom}]
  BY DEF CFInit
<1>3. CFTypeOK
  BY <1>1, <1>2 DEF CFInit, CFTypeOK
<1>. QED
  BY <1>1, <1>3 DEF CFInit, CFInv

\* A list with enough valid names is not empty.
LEMMA ListNotEmpty ==
  ASSUME NEW list, Cardinality(list) >= MinValid
  PROVE  list # {}
BY FS_EmptySet, BoundType

\* A dial keeps the invariant.
LEMMA CFDial ==
  ASSUME CFInv, NEW c \in Caller, Dial(c)
  PROVE  CFInv'
<1>. USE DefaultType, CustomType, BoundType DEF CFInv, domainVars, refreshVars, dialVars, pinHistory
<1>1. CASE Plan(c)
  <2>1. PICK d \in DC :
          /\ dc' = [dc EXCEPT ![c] = d]
          /\ offer' = [offer EXCEPT ![c] =
                         DomainsForDC(d) \cup IF HasCustom THEN {Custom} ELSE {}]
    BY <1>1 DEF Plan
  <2>2. DomainsForDC(d) \cup (IF HasCustom THEN {Custom} ELSE {}) \subseteq Domain \cup {Custom}
    BY DEF DomainsForDC, CFTypeOK
  <2>. QED
    BY <1>1, <2>1, <2>2 DEF Plan, CFTypeOK
<1>2. ASSUME NEW d \in offer[c], Fails(c, d) PROVE CFInv'
  BY <1>2 DEF Fails, CFTypeOK
<1>3. ASSUME NEW d \in offer[c], Wins(c, d) PROVE CFInv'
  BY <1>3 DEF Wins, CFTypeOK
<1>4. CASE OtherWins(c) \/ GiveUp(c)
  <2>1. pc' \in [Caller -> {"idle", "dial", "load", "swap"}]
        /\ offer' \in [Caller -> SUBSET (Domain \cup {Custom})]
    BY <1>4 DEF OtherWins, GiveUp, CFTypeOK
  <2>2. \A q \in Caller : pc'[q] = "swap" => pc[q] = "swap"
    BY <1>4 DEF OtherWins, GiveUp, CFTypeOK
  <2>3. /\ UNCHANGED <<domainVars, refreshVars, dc, prev, stray>>
        /\ cfFailed' \in [Caller -> BOOLEAN] /\ older' \subseteq Caller
    BY <1>4 DEF OtherWins, GiveUp, CFTypeOK
  <2>4. CFTypeOK'
    BY <2>1, <2>3 DEF CFTypeOK
  <2>. QED
    BY <2>2, <2>3, <2>4
<1>5. CASE Load(c)
  BY <1>5 DEF Load, CFTypeOK
<1>6. CASE Swap(c)
  <2>1. CASE stamp = prev[c] /\ stamp' = stamp + 1
    <3>1. ~fresh /\ begun = 0 /\ stamp < MaxStamp
      BY <1>6, <2>1 DEF Swap
    <3>2. begun' = 1 /\ fresh' = TRUE /\ fetching' = fetching \cup {stamp'}
      BY <1>6, <2>1, <3>1 DEF Swap, CFTypeOK
    <3>3. CFTypeOK'
      <4>1. stamp' \in 0..MaxStamp /\ 1 \in 0..MaxStamp
        BY <2>1, <3>1 DEF CFTypeOK
      <4>2. fetching' \subseteq 0..MaxStamp
        BY <3>2, <4>1 DEF CFTypeOK
      <4>3. /\ pc' \in [Caller -> {"idle", "dial", "load", "swap"}]
            /\ UNCHANGED <<domainVars, dc, offer, cfFailed, pinHistory>>
            /\ prev' \in [Caller -> 0..MaxStamp]
        BY <1>6 DEF Swap, CFTypeOK
      <4>. QED
        BY <3>2, <4>1, <4>2, <4>3 DEF CFTypeOK
    <3>4. \A q \in Caller : prev'[q] <= stamp' /\ prev'[q] # stamp'
      BY <1>6, <2>1 DEF Swap, CFTypeOK
    <3>. QED
      BY <3>2, <3>3, <3>4
  <2>2. CASE UNCHANGED refreshVars
    BY <1>6, <2>2 DEF Swap, CFTypeOK
  <2>. QED
    BY <1>6, <2>1, <2>2 DEF Swap
<1>. QED
  BY <1>1, <1>2, <1>3, <1>4, <1>5, <1>6 DEF Dial

\* A fetch, the clock and the end of a period keep it.
LEMMA CFOthers ==
  ASSUME CFInv,
         \/ \E n \in 0..MaxStamp : FetchEnds(n)
         \/ \E d \in Domain \cup {Custom} : Expire(d)
         \/ Tick \/ WindowOver
  PROVE  CFInv'
<1>. USE DefaultType, CustomType, BoundType DEF CFInv, domainVars, refreshVars, dialVars, pinHistory
<1>1. ASSUME NEW n \in 0..MaxStamp, FetchEnds(n) PROVE CFInv'
  <2>1. domains' \subseteq Domain /\ domains' # {} /\ perDC' \in [DC -> Domain \cup {Custom}]
        /\ older' \subseteq Caller /\ stray' \subseteq DC
    <3>1. CASE UNCHANGED <<domains, perDC, pinHistory>>
      BY <3>1 DEF CFTypeOK
    <3>2. ASSUME NEW list \in SUBSET Domain, Cardinality(list) >= MinValid,
                 UpdateDomainsList(list)
          PROVE  domains' \subseteq Domain /\ domains' # {}
                 /\ perDC' \in [DC -> Domain \cup {Custom}]
                 /\ older' \subseteq Caller /\ stray' \subseteq DC
      <4>1. list # {}
        BY <3>2, ListNotEmpty
      <4>. QED
        BY <3>2, <4>1 DEF UpdateDomainsList, CFTypeOK
    <3>. QED
      BY <1>1, <3>1, <3>2 DEF FetchEnds
  <2>. QED
    BY <1>1, <2>1 DEF FetchEnds, CFTypeOK
<1>2. ASSUME NEW d \in Domain \cup {Custom}, Expire(d) PROVE CFInv'
  BY <1>2 DEF Expire, CFTypeOK
<1>3. CASE Tick
  <2>1. fetching' \subseteq 0..MaxStamp
    BY <1>3 DEF Tick, CFTypeOK
  <2>2. UNCHANGED <<domains, perDC, cooldown, stamp, fresh, begun, pc, dc, offer, cfFailed, prev, pinHistory>>
    BY <1>3 DEF Tick
  <2>3. CFTypeOK'
    BY <2>1, <2>2 DEF CFTypeOK
  <2>. QED
    BY <2>2, <2>3
<1>4. CASE WindowOver
  <2>1. UNCHANGED <<domains, perDC, cooldown, stamp, fetching, pc, dc, offer, cfFailed, prev, pinHistory>>
    BY <1>4 DEF WindowOver
  <2>2. stamp < MaxStamp /\ fresh' = FALSE /\ begun' = 0
    BY <1>4 DEF WindowOver
  <2>3. fresh' \in BOOLEAN /\ begun' \in 0..MaxStamp
    <3>1. 0 \in 0..MaxStamp
      OBVIOUS
    <3>. QED
      BY <2>2, <3>1, Zenon
  <2>4. CFTypeOK'
    BY <2>1, <2>3 DEF CFTypeOK
  <2>. QED
    BY <2>1, <2>2, <2>4
<1>. QED
  BY <1>1, <1>2, <1>3, <1>4

\* The invariant holds throughout.
LEMMA CFInvariant ==
  CFSpec => []CFInv
<1>1. ASSUME CFInv, [CFNext]_cfVars PROVE CFInv'
  <2>1. CASE UNCHANGED cfVars
    BY <1>1, <2>1 DEF CFInv, CFTypeOK, cfVars, domainVars, refreshVars, dialVars, pinHistory
  <2>2. CASE CFNext
    BY <1>1, <2>2, CFDial, CFOthers DEF CFNext
  <2>. QED
    BY <1>1, <2>1, <2>2
<1>. QED
  BY CFInvInit, <1>1, PTL DEF CFSpec

\* Every variable of the pool keeps its type, and the pool is never empty.
THEOREM CFPoolTypes ==
  CFSpec => []CFTypeOK
<1>1. CFInv => CFTypeOK
  BY DEF CFInv
<1>. QED
  BY <1>1, CFInvariant, PTL

\* In each period of cfEmergencyRefreshMin at most one fetch begins, however many
\* dials fail at once (the CompareAndSwap of requestCFPoolRefresh).
THEOREM NoStampedeEver ==
  CFSpec => []NoStampede
<1>1. CFInv => NoStampede
  BY DEF CFInv, NoStampede
<1>. QED
  BY <1>1, CFInvariant, PTL

-----------------------------------------------------------------------------
(* Dropped names. *)

\* A dial keeps what is known of the pins: one that planned since the change offers a
\* dropped name only where one has been pinned already.
LEMMA PinDial ==
  ASSUME CFTypeOK, StrayOnlyByOldDials, OffersKnown, NEW c \in Caller, Dial(c)
  PROVE  StrayOnlyByOldDials' /\ OffersKnown'
<1>. USE DEF CFTypeOK, StrayOnlyByOldDials, OffersKnown, domainVars, refreshVars, pinHistory
<1>1. CASE Plan(c)
  <2>1. PICK d \in DC :
          /\ dc' = [dc EXCEPT ![c] = d]
          /\ offer' = [offer EXCEPT ![c] =
                         DomainsForDC(d) \cup IF HasCustom THEN {Custom} ELSE {}]
    BY <1>1 DEF Plan
  <2>2. /\ UNCHANGED <<domains, perDC, older, stray>>
        /\ \A q \in Caller : q # c => pc'[q] = pc[q] /\ offer'[q] = offer[q] /\ dc'[q] = dc[q]
    BY <1>1, <2>1 DEF Plan
  <2>3. dc'[c] = d /\ offer'[c] \subseteq domains \cup {Custom, perDC[d]}
    BY <2>1 DEF DomainsForDC
  <2>4. perDC[d] \in domains \cup {Custom} \/ d \in stray
    OBVIOUS
  <2>. QED
    BY <2>2, <2>3, <2>4
<1>2. ASSUME NEW d \in offer[c], Fails(c, d) PROVE StrayOnlyByOldDials' /\ OffersKnown'
  BY <1>2 DEF Fails
<1>3. ASSUME NEW d \in offer[c], Wins(c, d) PROVE StrayOnlyByOldDials' /\ OffersKnown'
  <2>1. /\ domains' = domains /\ perDC' = [perDC EXCEPT ![dc[c]] = d] /\ dc' = dc
        /\ pc[c] = "dial" /\ older' = older \ {c} /\ pc'[c] = "idle"
        /\ stray' = IF c \in older /\ d \notin domains \cup {Custom} THEN stray \cup {dc[c]} ELSE stray
        /\ \A q \in Caller : q # c => pc'[q] = pc[q] /\ offer'[q] = offer[q]
    BY <1>3 DEF Wins
  <2>2. d \in domains \cup {Custom} \/ dc[c] \in stray'
    BY <2>1
  <2>. QED
    BY <2>1, <2>2
<1>4. CASE OtherWins(c) \/ GiveUp(c)
  <2>1. /\ UNCHANGED <<domains, perDC, dc, stray>> /\ older' = older \ {c} /\ pc'[c] # "dial"
        /\ \A q \in Caller : q # c => pc'[q] = pc[q] /\ offer'[q] = offer[q]
    BY <1>4 DEF OtherWins, GiveUp
  <2>. QED
    BY <2>1
<1>5. CASE Load(c) \/ Swap(c)
  <2>1. /\ UNCHANGED <<domains, perDC, offer, dc, older, stray>>
        /\ \A q \in Caller : pc'[q] = "dial" => pc[q] = "dial"
    BY <1>5 DEF Load, Swap
  <2>. QED
    BY <2>1
<1>. QED
  BY <1>1, <1>2, <1>3, <1>4, <1>5 DEF Dial

\* So does a refresh: it gives every data centre a name of the new pool, and the dials
\* under way are older from then on.
LEMMA PinFetch ==
  ASSUME CFTypeOK, StrayOnlyByOldDials, OffersKnown, NEW n \in 0..MaxStamp, FetchEnds(n)
  PROVE  StrayOnlyByOldDials' /\ OffersKnown'
<1>. USE DEF CFTypeOK, StrayOnlyByOldDials, OffersKnown, dialVars, pinHistory
<1>1. pc' = pc /\ offer' = offer /\ dc' = dc
  BY DEF FetchEnds
<1>2. CASE UNCHANGED <<domains, perDC, pinHistory>>
  BY <1>1, <1>2
<1>3. ASSUME NEW list \in SUBSET Domain, UpdateDomainsList(list)
      PROVE  StrayOnlyByOldDials' /\ OffersKnown'
  BY <1>1, <1>3 DEF UpdateDomainsList
<1>. QED
  BY <1>2, <1>3 DEF FetchEnds

\* A data centre whose active domain is one that the pool has dropped owes it to a dial
\* that had planned before the pool changed (pin, domainsForDC and updateDomainsList).
THEOREM DroppedNamesStayAway ==
  CFSpec => []StrayOnlyByOldDials
<1>1. CFInit => StrayOnlyByOldDials /\ OffersKnown
  BY DEF CFInit, StrayOnlyByOldDials, OffersKnown
<1>2. ASSUME CFTypeOK, StrayOnlyByOldDials, OffersKnown, [CFNext]_cfVars
      PROVE  StrayOnlyByOldDials' /\ OffersKnown'
  <2>1. CASE \/ \E d \in Domain \cup {Custom} : Expire(d)
             \/ Tick \/ WindowOver \/ UNCHANGED cfVars
    <3>1. UNCHANGED <<domains, perDC, pc, dc, offer, older, stray>>
      BY <2>1 DEF Expire, Tick, WindowOver, cfVars, domainVars, dialVars, pinHistory
    <3>. QED
      BY <1>2, <3>1 DEF StrayOnlyByOldDials, OffersKnown
  <2>. QED
    BY <1>2, <2>1, PinDial, PinFetch DEF CFNext
<1>. QED
  BY <1>1, <1>2, CFPoolTypes, PTL DEF CFSpec
=============================================================================
