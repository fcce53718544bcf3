----------------------------- MODULE RelayProofs -----------------------------
(***************************************************************************)
(* Proofs about Relay, for every amount of traffic, every position of the  *)
(* packet ends, and with or without an idle timeout.                       *)
(***************************************************************************)
EXTENDS Relay, SequenceTheorems, TLAPS

-----------------------------------------------------------------------------
(* The invariant. A copy carries consecutive pieces: what it has delivered, *)
(* what it is about to write and what the splitter holds back are together  *)
(* what it has read. A write that failed breaks this, but then nothing can  *)
(* be written on that side any more: TLS keeps the error.                   *)

Consecutive(s, b) == \A i \in 1..Len(s) : s[i] = b + i

Held(d) == IF d = "up" THEN tail ELSE <<>>

\* Delivered, queued and held back: all that was read, in order.
Whole(d) ==
  /\ Consecutive(queue[d], Len(delivered[d]))
  /\ Consecutive(Held(d), Len(delivered[d]) + Len(queue[d]))
  /\ Len(delivered[d]) + Len(queue[d]) + Len(Held(d)) = got[d]

Stream(d) ==
  /\ Consecutive(delivered[d], 0)
  /\ copy[d] \in {"read", "write"} => Dst(d) \notin failed /\ Whole(d)
  /\ copy[d] = "error" => Dst(d) \in failed \/ Whole(d)
  /\ copy[d] \in {"read", "error"} => queue[d] = <<>>
  /\ got[d] <= sent[d]

Counted(d) ==
  /\ total[d] <= Len(delivered[d])
  /\ d = "down" => total[d] = Len(delivered[d])

Closing ==
  /\ main # "first" => "client" \notin conn
  /\ main \in {"second", "returned"} => conn = {}
  /\ main = "returned" => EndedCopies = Dir /\ result = total

IInv ==
  /\ TypeOK
  /\ \A d \in Dir : Stream(d) /\ Counted(d)
  /\ Split \/ tail = <<>>
  /\ Closing

-----------------------------------------------------------------------------
(* Runs of pieces. *)

\* What a read returns is a run of consecutive pieces.
LEMMA RangeIsRun ==
  ASSUME NEW m \in 0..MaxSent, NEW n \in m..MaxSent
  PROVE  /\ Range1(m, n) \in Pieces /\ Len(Range1(m, n)) = n - m
         /\ Consecutive(Range1(m, n), m)
<1>1. n - m \in Nat /\ \A i \in 1..(n - m) : m + i \in 1..MaxSent
  BY MaxSentNat
<1>2. Range1(m, n) \in [1..(n - m) -> 1..MaxSent]
  BY <1>1 DEF Range1
<1>3. Range1(m, n) \in Seq(1..MaxSent)
  <2>1. Seq(1..MaxSent) = UNION {[1..l -> 1..MaxSent] : l \in Nat}
    BY SeqDef
  <2>. QED
    BY <1>1, <1>2, <2>1, Zenon
<1>4. Len(Range1(m, n)) = n - m
  <2>1. DOMAIN Range1(m, n) = 1..(n - m)
    BY DEF Range1
  <2>2. Len(Range1(m, n)) \in Nat /\ DOMAIN Range1(m, n) = 1..Len(Range1(m, n))
    BY <1>3, LenProperties
  <2>. QED
    BY <1>1, <2>1, <2>2
<1>. QED
  BY <1>1, <1>3, <1>4 DEF Consecutive, Range1, Pieces

\* Two runs, one after the other.
LEMMA JoinRuns ==
  ASSUME NEW s \in Pieces, NEW t \in Pieces, NEW b \in Nat,
         Consecutive(s, b), Consecutive(t, b + Len(s))
  PROVE  /\ s \o t \in Pieces /\ Len(s \o t) = Len(s) + Len(t)
         /\ Consecutive(s \o t, b)
<1>1. /\ s \o t \in Pieces /\ Len(s \o t) = Len(s) + Len(t)
      /\ \A i \in 1..(Len(s) + Len(t)) :
           (s \o t)[i] = IF i <= Len(s) THEN s[i] ELSE t[i - Len(s)]
  BY ConcatProperties DEF Pieces
<1>2. Len(s) \in Nat /\ Len(t) \in Nat
  BY LenProperties DEF Pieces
<1>3. ASSUME NEW i \in 1..(Len(s) + Len(t)) PROVE (s \o t)[i] = b + i
  <2>1. CASE i <= Len(s)
    BY <2>1, <1>1, <1>2 DEF Consecutive
  <2>2. CASE ~(i <= Len(s))
    <3>1. i - Len(s) \in 1..Len(t)
      BY <2>2, <1>2
    <3>. QED
      BY <2>2, <3>1, <1>1, <1>2 DEF Consecutive
  <2>. QED
    BY <2>1, <2>2
<1>. QED
  BY <1>1, <1>3 DEF Consecutive

\* A run cut in two.
LEMMA CutRun ==
  ASSUME NEW s \in Pieces, NEW b \in Nat, Consecutive(s, b), NEW k \in 0..Len(s)
  PROVE  /\ SubSeq(s, 1, k) \in Pieces /\ Len(SubSeq(s, 1, k)) = k
         /\ Consecutive(SubSeq(s, 1, k), b)
         /\ SubSeq(s, k + 1, Len(s)) \in Pieces
         /\ Len(SubSeq(s, k + 1, Len(s))) = Len(s) - k
         /\ Consecutive(SubSeq(s, k + 1, Len(s)), b + k)
<1>1. Len(s) \in Nat /\ \A i \in 1..Len(s) : s[i] \in 1..MaxSent
  BY ElementOfSeq, LenProperties DEF Pieces
<1>2. /\ SubSeq(s, 1, k) \in Pieces /\ Len(SubSeq(s, 1, k)) = k
      /\ \A i \in 1..k : SubSeq(s, 1, k)[i] = s[i]
  <2>1. \A i \in 1..k : s[i] \in 1..MaxSent
    BY <1>1
  <2>. QED
    BY <2>1, <1>1, SubSeqProperties DEF Pieces
<1>3. /\ SubSeq(s, k + 1, Len(s)) \in Pieces
      /\ Len(SubSeq(s, k + 1, Len(s))) = Len(s) - k
      /\ \A i \in 1..(Len(s) - k) : SubSeq(s, k + 1, Len(s))[i] = s[k + i]
  <2>1. \A i \in (k + 1)..Len(s) : s[i] \in 1..MaxSent
    BY <1>1
  <2>2. /\ SubSeq(s, k + 1, Len(s)) \in Seq(1..MaxSent)
        /\ Len(SubSeq(s, k + 1, Len(s))) =
             IF k + 1 <= Len(s) THEN Len(s) - (k + 1) + 1 ELSE 0
        /\ \A i \in 1..(Len(s) - (k + 1) + 1) :
             SubSeq(s, k + 1, Len(s))[i] = s[k + 1 + i - 1]
    BY <2>1, <1>1, SubSeqProperties
  <2>. QED
    BY <2>2, <1>1 DEF Pieces
<1>4. \A i \in 1..(Len(s) - k) : s[k + i] = b + k + i
  BY <1>1 DEF Consecutive
<1>5. \A i \in 1..k : s[i] = b + i
  BY <1>1 DEF Consecutive
<1>. QED
  BY <1>1, <1>2, <1>3, <1>4, <1>5 DEF Consecutive
-----------------------------------------------------------------------------
(* The invariant is inductive. *)

\* The lengths of what a copy holds are numbers.
LEMMA Lengths ==
  ASSUME TypeOK, NEW d \in Dir
  PROVE  /\ queue[d] \in Pieces /\ Held(d) \in Pieces /\ delivered[d] \in Pieces
         /\ tail \in Pieces
         /\ Len(queue[d]) \in Nat /\ Len(Held(d)) \in Nat /\ Len(delivered[d]) \in Nat
         /\ got[d] \in 0..MaxSent /\ sent[d] \in 0..MaxSent /\ total[d] \in 0..MaxSent
         /\ Len(tail) \in Nat
<1>1. <<>> \in Pieces
  BY EmptySeq DEF Pieces
<1>2. queue[d] \in Pieces /\ Held(d) \in Pieces /\ delivered[d] \in Pieces /\ tail \in Pieces
  BY <1>1 DEF TypeOK, Held
<1>3. \A s \in Pieces : Len(s) \in Nat
  BY LenProperties DEF Pieces
<1>. QED
  BY <1>2, <1>3 DEF TypeOK

\* No pieces are a run.
LEMMA EmptyRun == /\ <<>> \in Pieces /\ Len(<<>>) = 0
                  /\ \A b \in Nat : Consecutive(<<>>, b)
BY EmptySeq DEF Consecutive, Pieces

\* A step that leaves a copy and its side alone keeps what holds of the copy; the
\* far end may have sent more.
LEMMA StreamFrame ==
  ASSUME TypeOK, NEW d \in Dir, Stream(d), Counted(d),
         copy'[d] = copy[d], queue'[d] = queue[d], delivered'[d] = delivered[d],
         got'[d] = got[d], total'[d] = total[d], Held(d)' = Held(d),
         (Dst(d) \in failed') = (Dst(d) \in failed),
         sent'[d] \in Nat, sent[d] <= sent'[d]
  PROVE  Stream(d)' /\ Counted(d)'
<1>1. sent[d] \in Nat /\ got[d] \in Nat
  BY MaxSentNat DEF TypeOK
<1>2. Whole(d)' = Whole(d)
  BY DEF Whole
<1>. QED
  BY <1>1, <1>2 DEF Stream, Counted

\* In the beginning nothing was sent.
LEMMA InvInit == Init => IInv
<1>. SUFFICES ASSUME Init PROVE IInv
  OBVIOUS
<1>1. TypeOK
  <2>1. reaper \in {"off", "waiting", "closing", "gone"}
    BY IdleTimeoutType DEF Init
  <2>2. <<>> \in Pieces /\ 0 \in 0..MaxSent
    BY EmptyRun, MaxSentNat
  <2>3. /\ queue \in [Dir -> Pieces] /\ delivered \in [Dir -> Pieces] /\ tail \in Pieces
    BY <2>2 DEF Init
  <2>. QED
    BY <2>1, <2>2, <2>3 DEF Init, TypeOK
<1>2. ASSUME NEW d \in Dir PROVE Stream(d) /\ Counted(d)
  BY <1>2, EmptyRun DEF Init, Stream, Counted, Whole, Held
<1>3. Closing
  BY DEF Init, Closing
<1>. QED
  BY <1>1, <1>2, <1>3 DEF IInv, Init

\* What a copy does to itself: reading.
LEMMA ReadKeeps ==
  ASSUME IInv, NEW d \in Dir, Read(d)
  PROVE  TypeOK' /\ Stream(d)' /\ Counted(d)' /\ (Split \/ tail' = <<>>)
<1>. USE DEF IInv
<1>0. /\ copy[d] = "read" /\ queue[d] = <<>> /\ Dst(d) \notin failed /\ Whole(d)
      /\ Consecutive(delivered[d], 0)
  BY DEF Read, Stream
<1>1. PICK n \in (got[d] + 1)..sent[d] :
        LET chunk == Range1(got[d], n)
            run == tail \o chunk
        IN
        /\ got' = [got EXCEPT ![d] = n]
        /\ IF d = "up" /\ Split
             THEN \E k \in WholePackets(run) :
                    /\ queue' = [queue EXCEPT ![d] = SubSeq(run, 1, k)]
                    /\ tail' = SubSeq(run, k + 1, Len(run))
             ELSE /\ queue' = [queue EXCEPT ![d] = chunk]
                  /\ UNCHANGED tail
  BY DEF Read
<1>. DEFINE chunk == Range1(got[d], n)
            run == tail \o chunk
<1>2. n \in Nat /\ got[d] \in Nat /\ n \in got[d]..MaxSent /\ n <= sent[d] /\ sent[d] <= MaxSent
  BY Lengths, MaxSentNat
<1>3. chunk \in Pieces /\ Len(chunk) = n - got[d] /\ Consecutive(chunk, got[d])
  BY <1>2, Lengths, RangeIsRun
<1>4. /\ Len(delivered[d]) \in Nat /\ Len(Held(d)) \in Nat
      /\ Len(delivered[d]) + Len(Held(d)) = got[d]
      /\ Consecutive(Held(d), Len(delivered[d]))
  BY <1>0, EmptyRun, Lengths DEF Whole
<1>5. /\ copy' = [copy EXCEPT ![d] = "write"] /\ quiet' = FALSE
      /\ UNCHANGED <<endVars, conn, failed, delivered, total, reaper, main, result>>
  BY DEF Read
<1>6. /\ queue' \in [Dir -> Pieces] /\ tail' \in Pieces /\ Whole(d)'
  <2>1. CASE d = "up" /\ Split
    <3>1. Held(d) = tail
      BY <2>1 DEF Held
    <3>2. run \in Pieces /\ Len(run) = Len(tail) + Len(chunk)
          /\ Consecutive(run, Len(delivered[d]))
      BY <3>1, <1>3, <1>4, JoinRuns, Lengths
    <3>3. PICK k \in WholePackets(run) :
            /\ queue' = [queue EXCEPT ![d] = SubSeq(run, 1, k)]
            /\ tail' = SubSeq(run, k + 1, Len(run))
      BY <2>1, <1>1
    <3>4. k \in 0..Len(run)
      BY DEF WholePackets
    <3>. HIDE DEF run, chunk
    <3>5. /\ SubSeq(run, 1, k) \in Pieces /\ Len(SubSeq(run, 1, k)) = k
          /\ Consecutive(SubSeq(run, 1, k), Len(delivered[d]))
          /\ SubSeq(run, k + 1, Len(run)) \in Pieces
          /\ Len(SubSeq(run, k + 1, Len(run))) = Len(run) - k
          /\ Consecutive(SubSeq(run, k + 1, Len(run)), Len(delivered[d]) + k)
      BY <3>2, <3>4, <1>4, CutRun
    <3>6. queue'[d] = SubSeq(run, 1, k) /\ Held(d)' = SubSeq(run, k + 1, Len(run))
          /\ got'[d] = n /\ delivered' = delivered
      BY <3>3, <2>1, <1>1, <1>5 DEF TypeOK, Held
    <3>7. Whole(d)'
      <4>. DEFINE q == SubSeq(run, 1, k)
                  t == SubSeq(run, k + 1, Len(run))
      <4>1. Whole(d)' <=> /\ Consecutive(q, Len(delivered[d]))
                          /\ Consecutive(t, Len(delivered[d]) + Len(q))
                          /\ Len(delivered[d]) + Len(q) + Len(t) = n
        BY <3>6 DEF Whole
      <4>2. Len(q) = k /\ Len(t) = Len(run) - k
        BY <3>5
      <4>3. k \in Nat /\ Len(run) \in Nat /\ Len(delivered[d]) + Len(run) = n
        BY <3>1, <3>2, <3>4, <1>2, <1>3, <1>4
      <4>. HIDE DEF q, t
      <4>4. Len(delivered[d]) + Len(q) + Len(t) = n
        BY <4>2, <4>3, <1>4
      <4>. QED
        BY <3>5, <4>1, <4>2, <4>4 DEF q, t
    <3>. QED
      BY <3>3, <3>5, <3>7 DEF TypeOK
  <2>2. CASE ~(d = "up" /\ Split)
    <3>1. queue' = [queue EXCEPT ![d] = chunk] /\ tail' = tail
      BY <2>2, <1>1
    <3>. HIDE DEF chunk
    <3>2. Held(d) = <<>> /\ Held(d)' = <<>>
      BY <2>2, <3>1 DEF Held
    <3>3. queue'[d] = chunk /\ got'[d] = n /\ delivered' = delivered
      BY <3>1, <1>1, <1>5 DEF TypeOK
    <3>4. Len(delivered[d]) = got[d]
      BY <3>2, <1>4, <1>2, EmptyRun
    <3>5. Whole(d)'
      <4>1. Whole(d)' <=> /\ Consecutive(chunk, Len(delivered[d]))
                          /\ Consecutive(<<>>, Len(delivered[d]) + Len(chunk))
                          /\ Len(delivered[d]) + Len(chunk) + Len(<<>>) = n
        BY <3>2, <3>3 DEF Whole
      <4>. QED
        BY <4>1, <3>4, <1>2, <1>3, EmptyRun
    <3>. QED
      BY <3>1, <3>5, <1>3, Lengths DEF TypeOK
  <2>. QED
    BY <2>1, <2>2
<1>7. Split \/ tail' = <<>>
  BY <1>1
<1>8. TypeOK'
  <2>1. got' \in [Dir -> 0..MaxSent]
    BY <1>1, <1>2 DEF TypeOK
  <2>2. copy' \in [Dir -> {"read", "write", "error", "counted", "ended"}]
    BY <1>5 DEF TypeOK
  <2>. QED
    BY <2>1, <2>2, <1>5, <1>6 DEF TypeOK, endVars
<1>9. Stream(d)'
  BY <1>0, <1>1, <1>2, <1>5, <1>6 DEF Stream, TypeOK, endVars
<1>. QED
  BY <1>5, <1>7, <1>8, <1>9 DEF Counted

\* What a copy does to itself: writing a packet or a chunk.
LEMMA WriteKeeps ==
  ASSUME IInv, NEW d \in Dir, Write(d)
  PROVE  TypeOK' /\ Stream(d)' /\ Counted(d)' /\ (Split \/ tail' = <<>>)
<1>. USE DEF IInv
<1>1. PICK k \in NextWrite(d) :
        /\ delivered' = [delivered EXCEPT ![d] = @ \o SubSeq(queue[d], 1, k)]
        /\ total' = [total EXCEPT ![d] = @ + k]
        /\ queue' = [queue EXCEPT ![d] = SubSeq(@, k + 1, Len(@))]
  BY DEF Write
<1>2. /\ copy[d] = "write"
      /\ UNCHANGED <<endVars, conn, failed, got, tail, copy, quiet, reaper, main, result>>
  BY DEF Write
<1>3. Dst(d) \notin failed /\ Whole(d) /\ Consecutive(delivered[d], 0) /\ got[d] <= sent[d]
  BY <1>2 DEF Stream
<1>. DEFINE q == queue[d]
            g == delivered[d]
            p == SubSeq(q, 1, k)
            r == SubSeq(q, k + 1, Len(q))
<1>4. /\ q \in Pieces /\ g \in Pieces /\ Len(q) \in Nat /\ Len(g) \in Nat
      /\ Len(Held(d)) \in Nat /\ got[d] \in 0..MaxSent /\ total[d] \in 0..MaxSent
  BY Lengths
<1>5. k \in 0..Len(q)
  BY <1>4 DEF NextWrite
<1>6. /\ Consecutive(q, Len(g))
      /\ Consecutive(Held(d), Len(g) + Len(q))
      /\ Len(g) + Len(q) + Len(Held(d)) = got[d]
  BY <1>3 DEF Whole
<1>7. /\ p \in Pieces /\ Len(p) = k /\ Consecutive(p, Len(g))
      /\ r \in Pieces /\ Len(r) = Len(q) - k /\ Consecutive(r, Len(g) + k)
  <2>. HIDE DEF q, g
  <2>. QED
    BY <1>4, <1>5, <1>6, CutRun
<1>8. g \o p \in Pieces /\ Len(g \o p) = Len(g) + k /\ Consecutive(g \o p, 0)
  <2>1. 0 \in Nat /\ 0 + Len(g) = Len(g)
    BY <1>4
  <2>. HIDE DEF q, g, p, r
  <2>. QED
    BY <2>1, <1>3, <1>4, <1>7, JoinRuns DEF g
<1>9. /\ delivered' = [delivered EXCEPT ![d] = g \o p] /\ delivered'[d] = g \o p
      /\ queue' = [queue EXCEPT ![d] = r] /\ queue'[d] = r
      /\ total' = [total EXCEPT ![d] = total[d] + k] /\ total'[d] = total[d] + k
      /\ Held(d)' = Held(d) /\ got' = got
  BY <1>1, <1>2 DEF TypeOK, Held
<1>10. /\ Len(g) + k + (Len(q) - k) = Len(g) + Len(q)
       /\ Len(g) + k <= MaxSent /\ total[d] + k <= Len(g) + k
       /\ d = "down" => total[d] + k = Len(g) + k
       /\ total[d] + k \in 0..MaxSent
  <2>1. total[d] <= Len(g) /\ (d = "down" => total[d] = Len(g))
    BY DEF Counted
  <2>2. Len(g) + Len(q) <= MaxSent
    <3>. HIDE DEF q, g
    <3>. QED
      BY <1>4, <1>6, MaxSentNat
  <2>. HIDE DEF IInv, q, g
  <2>. QED
    BY <2>1, <2>2, <1>4, <1>5, MaxSentNat
<1>. HIDE DEF q, g, p, r
<1>11. TypeOK'
  <2>1. /\ delivered' \in [Dir -> Pieces] /\ queue' \in [Dir -> Pieces]
        /\ total' \in [Dir -> 0..MaxSent]
    BY <1>7, <1>8, <1>9, <1>10 DEF TypeOK
  <2>. QED
    BY <2>1, <1>2 DEF TypeOK, endVars
<1>12. Whole(d)'
  <2>1. Whole(d)' <=> /\ Consecutive(r, Len(g \o p))
                      /\ Consecutive(Held(d), Len(g \o p) + Len(r))
                      /\ Len(g \o p) + Len(r) + Len(Held(d)) = got[d]
    BY <1>9 DEF Whole
  <2>. QED
    BY <2>1, <1>6, <1>7, <1>8, <1>10
<1>13. Stream(d)'
  BY <1>2, <1>3, <1>8, <1>9, <1>12 DEF Stream, endVars
<1>. QED
  BY <1>2, <1>8, <1>9, <1>10, <1>11, <1>13 DEF Counted

\* What a copy does to itself: its ends, the failure of a write, the flush.
LEMMA FlushKeeps ==
  ASSUME IInv, NEW d \in Dir, Flush(d)
  PROVE  TypeOK' /\ Stream(d)' /\ Counted(d)' /\ (Split \/ tail' = <<>>)
<1>. USE DEF IInv
<1>1. /\ copy[d] = "error" /\ copy' = [copy EXCEPT ![d] = "counted"]
      /\ copy'[d] = "counted" /\ queue[d] = <<>>
      /\ UNCHANGED <<endVars, conn, got, queue, total, quiet, reaper, main, result>>
  BY DEF Flush, Stream, TypeOK
<1>2. copy' \in [Dir -> {"read", "write", "error", "counted", "ended"}]
  BY <1>1 DEF TypeOK
<1>3. CASE UNCHANGED <<tail, delivered, failed>>
  <2>1. TypeOK'
    BY <1>1, <1>2, <1>3 DEF TypeOK, endVars
  <2>. QED
    BY <2>1, <1>1, <1>3 DEF Stream, Counted, endVars
<1>4. CASE tail' = <<>> /\ failed' = failed \cup {Dst(d)} /\ UNCHANGED delivered
  <2>1. TypeOK'
    BY <1>1, <1>2, <1>4, EmptyRun DEF TypeOK, endVars, Dst, Side, Dir
  <2>. QED
    BY <2>1, <1>1, <1>4 DEF Stream, Counted, endVars
<1>5. CASE /\ d = "up" /\ tail' = <<>> /\ Writable(Dst(d)) /\ UNCHANGED failed
           /\ delivered' = [delivered EXCEPT ![d] = @ \o tail]
  <2>1. Whole(d) /\ Consecutive(delivered[d], 0) /\ got[d] <= sent[d]
    BY <1>1, <1>5 DEF Stream, Writable
  <2>2. /\ Consecutive(tail, Len(delivered[d]))
        /\ Len(delivered[d]) \in Nat /\ delivered[d] \in Pieces /\ tail \in Pieces
        /\ Len(tail) \in Nat /\ total[d] \in 0..MaxSent
    BY <2>1, <1>1, <1>5, Lengths, EmptyRun DEF Whole, Held
  <2>. DEFINE g == delivered[d]
  <2>3. g \o tail \in Pieces /\ Len(g \o tail) = Len(g) + Len(tail) /\ Consecutive(g \o tail, 0)
    <3>1. 0 \in Nat /\ 0 + Len(g) = Len(g)
      BY <2>2
    <3>2. Consecutive(g, 0) /\ Consecutive(tail, 0 + Len(g)) /\ g \in Pieces /\ tail \in Pieces
      BY <2>1, <2>2, <3>1
    <3>. HIDE DEF g, IInv
    <3>. QED
      BY <3>1, <3>2, JoinRuns
  <2>4. delivered'[d] = g \o tail /\ total'[d] = total[d] /\ got'[d] <= sent'[d]
    BY <1>1, <1>5, <2>1 DEF TypeOK, endVars
  <2>5. TypeOK'
    BY <1>1, <1>2, <1>5, <2>3, EmptyRun DEF TypeOK, endVars
  <2>6. Stream(d)'
    BY <1>1, <2>3, <2>4 DEF Stream
  <2>7. Counted(d)'
    <3>1. total[d] <= Len(g)
      BY DEF Counted
    <3>2. total[d] <= Len(g) + Len(tail)
      BY <3>1, <2>2
    <3>. QED
      BY <3>2, <2>3, <2>4, <1>5 DEF Counted
  <2>. QED
    BY <2>5, <2>6, <2>7, <1>5
<1>. QED
  BY <1>3, <1>4, <1>5, SMTT(30) DEF Flush, Dir

\* What a copy does to itself: the other steps.
LEMMA EndsKeep ==
  ASSUME IInv, NEW d \in Dir, ReadFails(d) \/ Written(d) \/ WriteFails(d) \/ EndCopy(d)
  PROVE  TypeOK' /\ Stream(d)' /\ Counted(d)' /\ (Split \/ tail' = <<>>)
<1>. USE DEF IInv
<1>1. CASE ReadFails(d) \/ Written(d) \/ EndCopy(d)
  <2>1. /\ copy' \in [Dir -> {"read", "write", "error", "counted", "ended"}]
        /\ UNCHANGED <<endVars, conn, failed, got, queue, tail, delivered, total, quiet,
                       reaper, main, result>>
    BY <1>1 DEF ReadFails, Written, EndCopy, TypeOK
  <2>2. TypeOK'
    BY <2>1 DEF TypeOK, endVars
  <2>3. Whole(d)' = Whole(d)
    BY <2>1 DEF Whole, Held
  <2>4. Stream(d)'
    BY <2>1, <2>3, <1>1 DEF Stream, ReadFails, Written, EndCopy, TypeOK, endVars
  <2>. QED
    BY <2>1, <2>2, <2>4 DEF Counted
<1>2. CASE WriteFails(d)
  <2>1. /\ copy' \in [Dir -> {"read", "write", "error", "counted", "ended"}]
        /\ copy'[d] = "error" /\ queue' \in [Dir -> Pieces] /\ queue'[d] = <<>>
        /\ failed' \subseteq Side /\ Dst(d) \in failed'
        /\ UNCHANGED <<endVars, conn, got, tail, delivered, total, quiet, reaper, main, result>>
    BY <1>2, EmptyRun DEF WriteFails, TypeOK, Dst, Side
  <2>2. TypeOK'
    BY <2>1 DEF TypeOK, endVars
  <2>. QED
    BY <2>1, <2>2 DEF Stream, Counted, endVars
<1>. QED
  BY <1>1, <1>2

\* A step of a copy does not touch the other copy.
LEMMA CopyLeavesOther ==
  ASSUME IInv, NEW d \in Dir, NEW e \in Dir \ {d}, Copy(d)
  PROVE  Stream(e)' /\ Counted(e)'
<1>. USE DEF IInv
<1>1. /\ copy'[e] = copy[e] /\ queue'[e] = queue[e] /\ delivered'[e] = delivered[e]
      /\ got'[e] = got[e] /\ total'[e] = total[e]
      /\ sent' = sent
  <2>1. CASE Read(d)
    BY <2>1 DEF Read, TypeOK, endVars
  <2>2. CASE Write(d)
    BY <2>2 DEF Write, TypeOK, endVars
  <2>3. CASE Flush(d)
    BY <2>3 DEF Flush, TypeOK, endVars
  <2>4. CASE ReadFails(d) \/ Written(d) \/ WriteFails(d) \/ EndCopy(d)
    BY <2>4 DEF ReadFails, Written, WriteFails, EndCopy, TypeOK, endVars
  <2>. QED
    BY <2>1, <2>2, <2>3, <2>4 DEF Copy
<1>2. Held(e)' = Held(e)
  <2>1. CASE e = "down"
    BY <2>1 DEF Held
  <2>2. CASE d = "down"
    BY <2>2 DEF Copy, Read, Write, Flush, ReadFails, Written, WriteFails, EndCopy, Held
  <2>. QED
    BY <2>1, <2>2 DEF Dir
<1>3. (Dst(e) \in failed') = (Dst(e) \in failed)
  <2>1. Dst(e) # Dst(d)
    BY DEF Dir, Dst
  <2>2. failed' = failed \/ failed' = failed \cup {Dst(d)}
    BY DEF Copy, Read, Write, Flush, ReadFails, Written, WriteFails, EndCopy
  <2>. QED
    BY <2>1, <2>2
<1>4. sent'[e] \in Nat /\ sent[e] <= sent'[e]
  BY <1>1, Lengths, MaxSentNat
<1>. QED
  BY <1>1, <1>2, <1>3, <1>4, StreamFrame

\* A copy that has ended takes no step, and no copy opens a connection.
LEMMA CopyKeepsClosing ==
  ASSUME IInv, NEW d \in Dir, Copy(d)
  PROVE  Closing'
<1>1. conn' = conn /\ main' = main /\ result' = result
  BY DEF Copy, Read, Write, Flush, ReadFails, Written, WriteFails, EndCopy
<1>2. copy[d] # "ended"
  BY DEF Copy, Read, Write, Flush, ReadFails, Written, WriteFails, EndCopy
<1>3. main # "returned"
  BY <1>2 DEF IInv, Closing, EndedCopies
<1>. QED
  BY <1>1, <1>3 DEF IInv, Closing

\* Every step keeps the invariant.
LEMMA InvNext ==
  ASSUME IInv, [Next]_vars
  PROVE  IInv'
<1>1. ASSUME NEW d \in Dir, Copy(d) PROVE IInv'
  <2>1. TypeOK' /\ Stream(d)' /\ Counted(d)' /\ (Split \/ tail' = <<>>)
    BY <1>1, ReadKeeps, WriteKeeps, FlushKeeps, EndsKeep DEF Copy
  <2>2. \A e \in Dir \ {d} : Stream(e)' /\ Counted(e)'
    BY <1>1, CopyLeavesOther
  <2>3. Closing'
    BY <1>1, CopyKeepsClosing
  <2>. QED
    BY <2>1, <2>2, <2>3 DEF IInv
<1>2. ASSUME copyVars' = copyVars, failed' = failed, TypeOK', Closing',
             \A d \in Dir : sent[d] <= sent'[d]
      PROVE  IInv'
  <2>1. ASSUME NEW d \in Dir PROVE Stream(d)' /\ Counted(d)'
    <3>1. sent'[d] \in Nat
      BY <1>2, MaxSentNat DEF TypeOK
    <3>2. Held(d)' = Held(d)
      BY <1>2 DEF Held, copyVars
    <3>. QED
      BY <1>2, <3>1, <3>2, StreamFrame DEF IInv, copyVars
  <2>. QED
    BY <1>2, <2>1 DEF IInv, copyVars
<1>. USE DEF copyVars, endVars
<1>3. \A d \in Dir : sent[d] \in Nat /\ sent[d] <= sent[d]
  BY Lengths, MaxSentNat DEF IInv
<1>4. ASSUME NEW d \in Dir, Sends(d) PROVE IInv'
  <2>1. TypeOK'
    BY <1>4, MaxSentNat DEF Sends, IInv, TypeOK
  <2>2. \A e \in Dir : sent[e] <= sent'[e]
    BY <1>4, <1>3 DEF Sends, IInv, TypeOK
  <2>. QED
    BY <1>2, <1>4, <2>1, <2>2 DEF Sends, IInv, Closing, EndedCopies
<1>5. CASE Handler
  <2>1. TypeOK'
    BY <1>5 DEF Handler, FirstEnd, CloseDC, Return, IInv, TypeOK
  <2>2. Closing'
    BY <1>5 DEF Handler, FirstEnd, CloseDC, Return, IInv, TypeOK, Closing, EndedCopies, Side
  <2>. QED
    BY <1>2, <1>3, <1>5, <2>1, <2>2 DEF Handler, FirstEnd, CloseDC, Return
<1>6. CASE Reaper \/ GoesQuiet \/ Revoked \/ \E x \in Side : Hangs(x)
  <2>1. TypeOK'
    BY <1>6 DEF Reaper, Reap, Reaped, ReaperStops, GoesQuiet, Revoked, Hangs, IInv, TypeOK
  <2>2. Closing'
    BY <1>6 DEF Reaper, Reap, Reaped, ReaperStops, GoesQuiet, Revoked, Hangs, IInv, Closing,
                EndedCopies
  <2>. QED
    BY <1>2, <1>3, <1>6, <2>1, <2>2
       DEF Reaper, Reap, Reaped, ReaperStops, GoesQuiet, Revoked, Hangs
<1>7. CASE UNCHANGED vars
  BY <1>7 DEF vars, IInv, TypeOK, Stream, Whole, Held, Counted, Closing, EndedCopies, Split
<1>. QED
  BY <1>1, <1>4, <1>5, <1>6, <1>7 DEF Next

\* The invariant holds throughout.
LEMMA Invariance == Spec => []IInv
<1>. QED
  BY InvInit, InvNext, PTL DEF Spec

-----------------------------------------------------------------------------
(* The theorems. *)

\* Every variable of the relay keeps its type.
THEOREM RelayTypes == Spec => []TypeOK
<1>1. IInv => TypeOK
  BY DEF IInv
<1>. QED
  BY <1>1, Invariance, PTL

\* What either side has received is a prefix of what the other has sent, whatever
\* packets were cut, whichever write failed and whoever closed first.
THEOREM StreamsHaveNoGap == Spec => []NoGap
<1>1. IInv => NoGap
  BY DEF IInv, Stream, Consecutive, NoGap
<1>. QED
  BY <1>1, Invariance, PTL

\* The handler returns only after both copies, with both connections closed and
\* with counts that were delivered.
THEOREM ReturnIsComplete == Spec => []ReturnComplete
<1>1. IInv => ReturnComplete
  BY DEF IInv, Counted, Closing, EndedCopies, ReturnComplete, Dir
<1>. QED
  BY <1>1, Invariance, PTL

\* A copy that ends while its destination accepts data has delivered all it read.
THEOREM TailIsFlushed == Spec => NothingHeldBack
<1>1. ASSUME IInv, [Next]_vars, copy["up"] = "error", copy'["up"] = "counted",
             Writable("dc"), "dc" \notin fin \cup stuck
      PROVE  Len(delivered'["up"]) = got["up"]
  <2>1. Flush("up")
    BY <1>1 DEF Next, vars, endVars, copyVars, IInv, TypeOK, Dir, Copy, Read, Write, Flush,
                ReadFails, Written, WriteFails, EndCopy, Sends, Handler, FirstEnd, CloseDC,
                Return, Reaper, Reap, Reaped, ReaperStops, GoesQuiet, Revoked, Hangs
  <2>2. Whole("up") /\ queue["up"] = <<>>
    BY <1>1 DEF IInv, Stream, Dir, Dst, Writable
  <2>3. /\ Len(delivered["up"]) + Len(tail) = got["up"]
        /\ delivered["up"] \in Pieces /\ tail \in Pieces
        /\ Len(delivered["up"]) \in Nat
    BY <1>1, <2>2, Lengths, EmptyRun DEF Whole, Held, IInv, Dir
  <2>4. \/ delivered'["up"] = delivered["up"] \o tail
        \/ tail = <<>> /\ delivered' = delivered
    BY <1>1, <2>1 DEF Flush, Dst, IInv, TypeOK, Dir
  <2>5. Len(delivered["up"] \o tail) = Len(delivered["up"]) + Len(tail)
    BY <2>3, ConcatProperties DEF Pieces
  <2>6. CASE delivered'["up"] = delivered["up"] \o tail
    BY <2>3, <2>5, <2>6
  <2>7. CASE tail = <<>> /\ delivered' = delivered
    <3>1. Len(tail) = 0
      BY <2>7, EmptyRun
    <3>. QED
      BY <2>3, <2>7, <3>1
  <2>. QED
    BY <2>4, <2>6, <2>7
<1>2. IInv /\ [Next]_vars =>
        [copy["up"] = "error" /\ copy'["up"] = "counted" /\ Writable("dc")
           /\ "dc" \notin fin \cup stuck
         => Len(delivered'["up"]) = got["up"]]_vars
  BY <1>1
<1>. QED
  BY <1>2, Invariance, PTL DEF Spec, NothingHeldBack
=============================================================================
