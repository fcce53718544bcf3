----------------------------- MODULE ClientProofs -----------------------------
(***************************************************************************)
(* Proofs about ClientConn and MsgSplitter, for every hello, every stream, *)
(* every way records and reads cut it, and any widths of bytes and ints.   *)
(***************************************************************************)
EXTENDS ClientConn, SequenceTheorems, WellFoundedInduction, TLAPS

-----------------------------------------------------------------------------
(* The invariant. *)

\* What the far side of a masked connection has received, and what the copy holds, is
\* what was read on this side.
Passing(d) ==
  LET g == got[Other(d)] IN
  /\ taken[d] <= pieces[d]
  /\ copy[d] = "off" => g = <<>>
  /\ copy[d] = "read" => g = Upto(taken[d])
  /\ copy[d] = "write" => g \o held[d] = Upto(taken[d])
  /\ g = Upto(Len(g))

\* A client that is not ours is masked or gone, and before the copies start all that
\* was read of it is in the initial bytes.
Masking ==
  hello # "good" =>
    /\ pc \in {"hello", "verify", "over"} \cup Masked
    /\ \A d \in Side : Passing(d)
    /\ pc \in {"hello", "verify", "dialsite", "initial"} =>
         copy = [d \in Side |-> "off"] /\ taken["site"] = 0
    /\ pc \in {"dialsite", "initial"} => initial = Upto(taken["client"])

\* The splitter gets nothing before the frame is complete, and then all it gets is
\* either passed on or kept.
FrameFirst ==
  /\ pc \in Accepting => NoSplitter
  /\ pc \in Accepting => Len(have) < FrameLen
  /\ pc = "relay" => input = sent \o buf

\* Cutting starts from the end of the last message, or ended there at a header that
\* makes no sense.
LastCut ==
  /\ proto # "none"
  /\ ~disabled => Len(sent) \in ends \cup {0} /\ \A q \in ends : q <= Len(sent)
  /\ disabled => \E p \in ends \cup {0} :
                   (\A q \in ends : q <= p) /\ NextLen(From(input, p)) < 0

Cutting == FramesAreMessages /\ (pc = "relay" => LastCut)

IInv == TypeOK /\ Masking /\ FrameFirst /\ StreamKept

-----------------------------------------------------------------------------
(* Numbers and sequences. *)

\* Every set of numbers that is not empty has a least element.
LEMMA Least ==
  ASSUME NEW T \in SUBSET Nat, T # {}
  PROVE  \E n \in T : \A m \in T : n <= m
<1>. DEFINE Less == {x \in Nat \X Nat : x[1] < x[2]}
<1>1. IsWellFoundedOn(Less, Nat)
  BY NatLessThanWellFounded DEF OpToRel
<1>2. PICK n \in T : \A m \in T : ~(<<m, n>> \in Less)
  <2>. HIDE DEF Less
  <2>. QED
    BY <1>1, WFMin
<1>3. \A m \in T : ~(m < n)
  BY <1>2
<1>. QED
  BY <1>3

\* A set of numbers up to n that is not empty has a greatest element.
LEMMA Greatest ==
  ASSUME NEW n \in Nat, NEW T \in SUBSET (0..n), T # {}
  PROVE  \E m \in T : \A k \in T : k <= m
<1>. DEFINE Above == {n - m : m \in T}
<1>1. Above \in SUBSET Nat /\ Above # {}
  <2>1. \A m \in T : n - m \in Nat
    OBVIOUS
  <2>2. PICK m \in T : TRUE
    OBVIOUS
  <2>3. n - m \in Above
    OBVIOUS
  <2>. QED
    BY <2>1, <2>3
<1>2. PICK a \in Above : \A c \in Above : a <= c
  <2>. HIDE DEF Above
  <2>. QED
    BY <1>1, Least
<1>3. PICK m \in T : a = n - m
  BY <1>2
<1>4. \A k \in T : n - m <= n - k
  BY <1>2, <1>3
<1>. QED
  BY <1>4

\* A sequence cut in two is the sequence.
LEMMA Parts ==
  ASSUME NEW S, NEW s \in Seq(S), NEW n \in Nat
  PROVE  /\ First(s, n) \in Seq(S) /\ From(s, n) \in Seq(S)
         /\ First(s, n) \o From(s, n) = s
         /\ Len(First(s, n)) = IF n < Len(s) THEN n ELSE Len(s)
         /\ Len(From(s, n)) = IF n < Len(s) THEN Len(s) - n ELSE 0
         /\ \A i \in 1..(Len(s) - n) : From(s, n)[i] = s[n + i]
<1>. DEFINE m == IF n < Len(s) THEN n ELSE Len(s)
<1>1. Len(s) \in Nat /\ \A i \in 1..Len(s) : s[i] \in S
  BY LenProperties, ElementOfSeq
<1>2. m \in 0..Len(s) /\ m \in Int
  BY <1>1
<1>3. /\ SubSeq(s, 1, m) \in Seq(S)
      /\ Len(SubSeq(s, 1, m)) = m
      /\ \A i \in 1..m : SubSeq(s, 1, m)[i] = s[i]
  <2>1. \A i \in 1..m : s[i] \in S
    BY <1>1, <1>2
  <2>2. /\ SubSeq(s, 1, m) \in Seq(S)
        /\ Len(SubSeq(s, 1, m)) = IF 1 <= m THEN m - 1 + 1 ELSE 0
        /\ \A i \in 1..(m - 1 + 1) : SubSeq(s, 1, m)[i] = s[1 + i - 1]
    <3>. HIDE DEF m
    <3>. QED
      BY <2>1, <1>2, SubSeqProperties
  <2>. HIDE DEF m
  <2>. QED
    BY <2>2, <1>2
<1>4. /\ From(s, n) \in Seq(S)
      /\ Len(From(s, n)) = IF n + 1 <= Len(s) THEN Len(s) - n ELSE 0
      /\ \A i \in 1..(Len(s) - n) : From(s, n)[i] = s[n + i]
  <2>1. \A i \in (n + 1)..Len(s) : s[i] \in S
    BY <1>1
  <2>2. /\ SubSeq(s, n + 1, Len(s)) \in Seq(S)
        /\ Len(SubSeq(s, n + 1, Len(s))) =
             IF n + 1 <= Len(s) THEN Len(s) - (n + 1) + 1 ELSE 0
        /\ \A i \in 1..(Len(s) - (n + 1) + 1) :
             SubSeq(s, n + 1, Len(s))[i] = s[n + 1 + i - 1]
    BY <2>1, <1>1, SubSeqProperties
  <2>. QED
    BY <2>2, <1>1 DEF From
<1>5. First(s, n) = SubSeq(s, 1, m)
  BY DEF First
<1>6. First(s, n) \o From(s, n) = s
  <2>. DEFINE a == SubSeq(s, 1, m)
              b == From(s, n)
  <2>1. /\ a \in Seq(S) /\ Len(a) = m /\ \A i \in 1..m : a[i] = s[i]
        /\ b \in Seq(S) /\ \A i \in 1..(Len(s) - n) : b[i] = s[n + i]
        /\ Len(b) = IF n + 1 <= Len(s) THEN Len(s) - n ELSE 0
    BY <1>3, <1>4
  <2>2. m <= Len(s) /\ (n + 1 <= Len(s) => m = n) /\ (~(n + 1 <= Len(s)) => m = Len(s))
    BY <1>1
  <2>. HIDE DEF a, b, m
  <2>3. Len(a) + Len(b) = Len(s)
    <3>1. Len(a) = m /\ Len(s) \in Nat
      BY <2>1, <1>1
    <3>2. CASE n + 1 <= Len(s)
      <4>1. Len(b) = Len(s) - n /\ m = n
        BY <3>2, <2>1, <2>2
      <4>. QED
        BY <4>1, <3>1
    <3>3. CASE ~(n + 1 <= Len(s))
      <4>1. Len(b) = 0 /\ m = Len(s)
        BY <3>3, <2>1, <2>2
      <4>. QED
        BY <4>1, <3>1
    <3>. QED
      BY <3>2, <3>3
  <2>4. /\ a \o b \in Seq(S) /\ Len(a \o b) = Len(s)
        /\ \A i \in 1..Len(s) : (a \o b)[i] = IF i <= m THEN a[i] ELSE b[i - m]
    <3>1. a \in Seq(S) /\ b \in Seq(S) /\ Len(a) = m
      BY <2>1
    <3>2. /\ a \o b \in Seq(S) /\ Len(a \o b) = Len(a) + Len(b)
          /\ \A i \in 1..(Len(a) + Len(b)) :
               (a \o b)[i] = IF i <= Len(a) THEN a[i] ELSE b[i - Len(a)]
      BY <3>1, ConcatProperties
    <3>. QED
      BY <3>1, <3>2, <2>3
  <2>5. ASSUME NEW i \in 1..Len(s) PROVE (a \o b)[i] = s[i]
    <3>1. CASE i <= m
      BY <3>1, <2>1, <2>4, <1>1, <1>2
    <3>2. CASE ~(i <= m)
      <4>1. m = n /\ i - n \in 1..(Len(s) - n)
        BY <3>2, <2>2, <1>1, <1>2
      <4>. QED
        BY <4>1, <3>2, <2>1, <2>4, <1>1
    <3>. QED
      BY <3>1, <3>2
  <2>6. a \o b = s
    BY <2>4, <2>5, SeqEqual
  <2>. QED
    BY <2>6, <1>5 DEF a, b
<1>. QED
  BY <1>1, <1>3, <1>4, <1>5, <1>6

\* The pieces from the first one.
LEMMA UptoIs ==
  ASSUME NEW n \in Nat
  PROVE  /\ Upto(n) \in Seq(Nat) /\ Len(Upto(n)) = n
         /\ \A i \in 1..n : Upto(n)[i] = i
<1>1. Upto(n) \in Seq(Nat)
  <2>1. Upto(n) \in [1..n -> Nat]
    BY DEF Upto
  <2>. QED
    BY <2>1
<1>2. DOMAIN Upto(n) = 1..n
  BY DEF Upto
<1>. QED
  BY <1>1, <1>2, LenProperties DEF Upto

\* A read that goes on where the last one ended.
LEMMA UptoJoin ==
  ASSUME NEW m \in Nat, NEW n \in Nat, m <= n
  PROVE  /\ SubSeq(Upto(n), m + 1, n) \in Seq(Nat)
         /\ Upto(m) \o SubSeq(Upto(n), m + 1, n) = Upto(n)
<1>1. /\ Upto(n) \in Seq(Nat) /\ Len(Upto(n)) = n /\ \A i \in 1..n : Upto(n)[i] = i
      /\ Upto(m) \in Seq(Nat) /\ Len(Upto(m)) = m /\ \A i \in 1..m : Upto(m)[i] = i
  BY UptoIs
<1>. DEFINE b == From(Upto(n), m)
<1>2. b = SubSeq(Upto(n), m + 1, n)
  BY <1>1 DEF From
<1>3. b \in Seq(Nat) /\ Len(b) = n - m /\ \A i \in 1..(n - m) : b[i] = m + i
  <2>1. /\ b \in Seq(Nat) /\ Len(b) = IF m < n THEN n - m ELSE 0
        /\ \A i \in 1..(n - m) : b[i] = Upto(n)[m + i]
    <3>1. ASSUME NEW u \in Seq(Nat), Len(u) = n
          PROVE  /\ From(u, m) \in Seq(Nat) /\ Len(From(u, m)) = IF m < n THEN n - m ELSE 0
                 /\ \A i \in 1..(n - m) : From(u, m)[i] = u[m + i]
      BY <3>1, Parts
    <3>. QED
      BY <3>1, <1>1
  <2>. HIDE DEF b
  <2>. QED
    BY <2>1, <1>1
<1>4. Upto(m) \o b = Upto(n)
  <2>. HIDE DEF b
  <2>1. /\ Upto(m) \o b \in Seq(Nat) /\ Len(Upto(m) \o b) = n
        /\ \A i \in 1..n : (Upto(m) \o b)[i] = IF i <= m THEN Upto(m)[i] ELSE b[i - m]
    <3>1. /\ Upto(m) \o b \in Seq(Nat) /\ Len(Upto(m) \o b) = Len(Upto(m)) + Len(b)
          /\ \A i \in 1..(Len(Upto(m)) + Len(b)) :
               (Upto(m) \o b)[i] = IF i <= Len(Upto(m)) THEN Upto(m)[i]
                                                       ELSE b[i - Len(Upto(m))]
      BY <1>1, <1>3, ConcatProperties
    <3>2. Len(Upto(m)) = m /\ Len(b) = n - m
      BY <1>1, <1>3
    <3>. QED
      BY <3>1, <3>2
  <2>2. ASSUME NEW i \in 1..n PROVE (Upto(m) \o b)[i] = i
    <3>1. CASE i <= m
      BY <3>1, <2>1, <1>1
    <3>2. CASE ~(i <= m)
      <4>1. i - m \in 1..(n - m)
        BY <3>2
      <4>. QED
        BY <4>1, <3>2, <2>1, <1>3
    <3>. QED
      BY <3>1, <3>2
  <2>. QED
    BY <2>1, <2>2, <1>1, SeqEqual
<1>. QED
  BY <1>2, <1>3, <1>4

\* Both parts of the pieces from the first one, and the beginning of the second part.
LEMMA UptoCut ==
  ASSUME NEW g \in Seq(Nat), NEW h \in Seq(Nat), NEW n \in Nat, g \o h = Upto(n),
         NEW k \in 0..Len(h)
  PROVE  /\ g \o SubSeq(h, 1, k) \in Seq(Nat)
         /\ g \o SubSeq(h, 1, k) = Upto(Len(g \o SubSeq(h, 1, k)))
<1>1. Len(g) \in Nat /\ Len(h) \in Nat /\ k \in Nat
  BY LenProperties
<1>. DEFINE a == First(h, k)
<1>2. a = SubSeq(h, 1, k)
  <2>1. (IF k < Len(h) THEN k ELSE Len(h)) = k
    BY <1>1
  <2>. QED
    BY <2>1 DEF First
<1>3. a \in Seq(Nat) /\ Len(a) = k /\ \A i \in 1..k : a[i] = h[i]
  <2>1. \A i \in 1..k : h[i] \in Nat
    BY <1>1, ElementOfSeq
  <2>2. /\ SubSeq(h, 1, k) \in Seq(Nat)
        /\ Len(SubSeq(h, 1, k)) = IF 1 <= k THEN k - 1 + 1 ELSE 0
        /\ \A i \in 1..(k - 1 + 1) : SubSeq(h, 1, k)[i] = h[1 + i - 1]
    BY <2>1, <1>1, SubSeqProperties
  <2>. HIDE DEF a
  <2>. QED
    BY <2>2, <1>1, <1>2
<1>. HIDE DEF a
<1>4. /\ g \o h \in Seq(Nat)
      /\ \A i \in 1..(Len(g) + Len(h)) : (g \o h)[i] = IF i <= Len(g) THEN g[i] ELSE h[i - Len(g)]
      /\ Len(g \o h) = Len(g) + Len(h)
  BY ConcatProperties
<1>5. n = Len(g) + Len(h)
  BY <1>4, UptoIs
<1>6. \A i \in 1..n : (IF i <= Len(g) THEN g[i] ELSE h[i - Len(g)]) = i
  BY <1>4, <1>5, UptoIs
<1>7. /\ g \o a \in Seq(Nat) /\ Len(g \o a) = Len(g) + k
      /\ \A i \in 1..(Len(g) + k) : (g \o a)[i] = IF i <= Len(g) THEN g[i] ELSE a[i - Len(g)]
  <2>1. /\ g \o a \in Seq(Nat) /\ Len(g \o a) = Len(g) + Len(a)
        /\ \A i \in 1..(Len(g) + Len(a)) :
             (g \o a)[i] = IF i <= Len(g) THEN g[i] ELSE a[i - Len(g)]
    BY <1>3, ConcatProperties
  <2>2. Len(a) = k
    BY <1>3
  <2>. QED
    BY <2>1, <2>2
<1>8. ASSUME NEW i \in 1..(Len(g) + k) PROVE (g \o a)[i] = i
  <2>1. i \in 1..n
    BY <1>1, <1>5
  <2>2. CASE i <= Len(g)
    BY <2>1, <2>2, <1>6, <1>7
  <2>3. CASE ~(i <= Len(g))
    <3>1. i - Len(g) \in 1..k
      BY <2>3, <1>1
    <3>2. h[i - Len(g)] = i
      BY <2>1, <2>3, <1>6
    <3>. QED
      BY <3>1, <3>2, <2>3, <1>3, <1>7
  <2>. QED
    BY <2>2, <2>3
<1>9. g \o a = Upto(Len(g) + k)
  <2>1. /\ Upto(Len(g) + k) \in Seq(Nat) /\ Len(Upto(Len(g) + k)) = Len(g) + k
        /\ \A i \in 1..(Len(g) + k) : Upto(Len(g) + k)[i] = i
    BY <1>1, UptoIs
  <2>. QED
    BY <2>1, <1>7, <1>8, SeqEqual
<1>. QED
  BY <1>2, <1>7, <1>9

-----------------------------------------------------------------------------
(* Positions. *)

\* What is reached from 0 by steps upwards exists: the smallest set closed under them.
LEMMA ReachedExists ==
  ASSUME NEW n \in Nat, NEW R
  PROVE  \E f : f = [p \in 0..n |-> p = 0 \/ \E k \in 0..p - 1 : f[k] /\ <<k, p>> \in R]
<1>. DEFINE Closed(C) ==
              0 \in C /\ \A k \in C, p \in 0..n : k < p /\ <<k, p>> \in R => p \in C
            I == {p \in 0..n : \A C \in SUBSET (0..n) : Closed(C) => p \in C}
<1>1. Closed(I)
  OBVIOUS
<1>2. ASSUME NEW p \in I, p # 0 PROVE \E k \in 0..p - 1 : k \in I /\ <<k, p>> \in R
  <2>. SUFFICES ASSUME \A k \in 0..p - 1 : ~(k \in I /\ <<k, p>> \in R) PROVE FALSE
    OBVIOUS
  <2>1. Closed(I \ {p})
    <3>1. \A k \in I, q \in 0..n : k < q /\ <<k, q>> \in R => q \in I
      BY <1>1
    <3>2. \A k \in I : k < p => k \in 0..p - 1
      OBVIOUS
    <3>3. 0 \in I
      BY <1>1
    <3>. HIDE DEF I
    <3>. QED
      BY <1>2, <3>1, <3>2, <3>3
  <2>2. I \ {p} \in SUBSET (0..n)
    OBVIOUS
  <2>. QED
    BY <2>1, <2>2
<1>3. \A p \in 0..n : p \in I <=> p = 0 \/ \E k \in 0..p - 1 : k \in I /\ <<k, p>> \in R
  <2>1. I \subseteq 0..n
    OBVIOUS
  <2>2. ASSUME NEW p \in 0..n, NEW k \in 0..p - 1, k \in I, <<k, p>> \in R PROVE p \in I
    BY <1>1, <2>2
  <2>3. 0 \in I
    BY <1>1
  <2>. HIDE DEF I
  <2>. QED
    BY <1>2, <2>1, <2>2, <2>3
<1>. HIDE DEF I
<1>4. PICK f : f = [p \in 0..n |-> p \in I]
  OBVIOUS
<1>5. \A p \in 0..n : \A k \in 0..p - 1 : f[k] = (k \in I)
  BY <1>4
<1>6. \A p \in 0..n : (p \in I) = (p = 0 \/ \E k \in 0..p - 1 : f[k] /\ <<k, p>> \in R)
  <2>. TAKE p \in 0..n
  <2>1. (\E k \in 0..p - 1 : f[k] /\ <<k, p>> \in R)
          <=> \E k \in 0..p - 1 : k \in I /\ <<k, p>> \in R
    BY <1>5
  <2>2. p \in I <=> p = 0 \/ \E k \in 0..p - 1 : k \in I /\ <<k, p>> \in R
    BY <1>3
  <2>. QED
    BY <2>1, <2>2
<1>7. f = [p \in 0..n |-> p = 0 \/ \E k \in 0..p - 1 : f[k] /\ <<k, p>> \in R]
  BY <1>4, <1>6, Zenon
<1>. QED
  BY <1>7

\* The loop comes to 0, and from where it is to the end of the next message.
LEMMA PositionsAre ==
  ASSUME NEW s, Len(s) \in Nat
  PROVE  /\ Positions(s) \subseteq 0..Len(s) /\ 0 \in Positions(s)
         /\ \A p \in 0..Len(s) : p \in Positions(s) <=>
              p = 0 \/ \E k \in 0..p - 1 : k \in Positions(s) /\ NextLen(From(s, k)) = p - k
<1>. DEFINE R == {x \in Nat \X Nat : NextLen(From(s, x[1])) = x[2] - x[1]}
            n == Len(s)
            Is(f) == f = [p \in 0..n |->
                           p = 0 \/ \E k \in 0..p - 1 : f[k] /\ NextLen(From(s, k)) = p - k]
            at == CHOOSE f : Is(f)
<1>1. Positions(s) = {p \in 0..n : at[p]}
  BY DEF Positions
<1>2. \E f : Is(f)
  <2>1. PICK f : f = [p \in 0..n |-> p = 0 \/ \E k \in 0..p - 1 : f[k] /\ <<k, p>> \in R]
    <3>. HIDE DEF R
    <3>. QED
      BY ReachedExists
  <2>2. \A p \in 0..n : \A k \in 0..p - 1 : <<k, p>> \in R <=> NextLen(From(s, k)) = p - k
    OBVIOUS
  <2>3. \A p \in 0..n : (p = 0 \/ \E k \in 0..p - 1 : f[k] /\ <<k, p>> \in R) =
                         (p = 0 \/ \E k \in 0..p - 1 : f[k] /\ NextLen(From(s, k)) = p - k)
    BY <2>2
  <2>4. Is(f)
    <3>. HIDE DEF R
    <3>. QED
      BY <2>1, <2>3, Zenon
  <2>. QED
    BY <2>4
<1>3. Is(at)
  <2>. HIDE DEF Is
  <2>. QED
    BY <1>2
<1>4. \A p \in 0..n : at[p] = (p = 0 \/ \E k \in 0..p - 1 : at[k] /\ NextLen(From(s, k)) = p - k)
  <2>. HIDE DEF at
  <2>. QED
    BY <1>3, Zenon
<1>5. \A p \in 0..n : p \in Positions(s) <=> at[p]
  BY <1>1
<1>. HIDE DEF at, R, Is
<1>6. \A p \in 0..n : p \in Positions(s) <=>
         (p = 0 \/ \E k \in 0..p - 1 : k \in Positions(s) /\ NextLen(From(s, k)) = p - k)
  <2>. TAKE p \in 0..n
  <2>1. \A k \in 0..p - 1 : k \in 0..n
    OBVIOUS
  <2>. QED
    BY <2>1, <1>4, <1>5, Zenon
<1>7. 0 \in 0..n /\ Positions(s) \subseteq 0..n
  BY <1>1
<1>. QED
  BY <1>6, <1>7

-----------------------------------------------------------------------------
(* Masking. *)

LEMMA OtherSide == Other("client") = "site" /\ Other("site") = "client"
  BY DEF Other, Side

\* A connection starts with nothing read.
LEMMA InvInit == Init => IInv
<1>. SUFFICES ASSUME Init PROVE IInv
  OBVIOUS
<1>1. \A S : <<>> \in Seq(S) /\ Len(<<>>) = 0
  BY EmptySeq
<1>2. Upto(0) = <<>>
  <2>1. Upto(0) \in Seq(Nat) /\ Len(Upto(0)) = 0
    BY UptoIs
  <2>. QED
    BY <2>1, EmptySeq, SeqEqual
<1>3. frame \in Frames
  <2>1. (CHOOSE f \in Frames : TRUE) \in Frames
    BY FramesType
  <2>. QED
    BY <2>1 DEF Init
<1>4. MaskType
  BY <1>1 DEF Init, MaskType
<1>5. StreamType
  <2>1. SplitterType
    BY <1>1 DEF Init, NoSplitter, SplitterType
  <2>. QED
    BY <1>1, <1>3, <2>1 DEF Init, StreamType
<1>6. TypeOK
  BY <1>4, <1>5 DEF Init, TypeOK, Accepting
<1>7. Masking
  BY <1>1, <1>2, OtherSide DEF Init, Masking, Passing, Side
<1>8. FrameFirst
  BY <1>1, FramesType DEF Init, FrameFirst
<1>9. StreamKept
  <2>1. <<>> = <<>> \o <<>> \o <<>> \o <<>>
    BY <1>1, ConcatEmptySeq
  <2>. QED
    BY <1>1, <2>1 DEF Init, NoSplitter, StreamKept
<1>. QED
  BY <1>6, <1>7, <1>8, <1>9 DEF IInv

\* What a step of the handshake or of the masking leaves alone.
LEMMA StreamAlone ==
  ASSUME IInv, UNCHANGED streamVars, pc' \in Accepting => pc \in Accepting,
         pc' = "relay" => pc = "relay"
  PROVE  StreamType' /\ FrameFirst' /\ StreamKept'
<1>1. UNCHANGED <<frame, have, stream, readBuf, reply, proto, buf, disabled, input, sent, ends>>
  BY DEF streamVars, splitVars
<1>2. StreamType'
  BY <1>1 DEF IInv, TypeOK, StreamType, SplitterType
<1>3. FrameFirst'
  BY <1>1 DEF IInv, FrameFirst, NoSplitter
<1>4. StreamKept'
  BY <1>1 DEF IInv, StreamKept
<1>. QED
  BY <1>2, <1>3, <1>4

\* A handler that returns keeps what was said of the two streams.
LEMMA ReturnKeeps ==
  ASSUME IInv, Return, UNCHANGED streamVars
  PROVE  IInv'
<1>1. pc' = "over" /\ shut' = Side
      /\ UNCHANGED <<hello, deadline, initial, pieces, taken, held, copy, got, gone>>
  BY DEF Return
<1>2. MaskType'
  BY <1>1 DEF IInv, TypeOK, MaskType
<1>3. Masking'
  BY <1>1 DEF IInv, Masking, Passing, Masked
<1>4. StreamType' /\ FrameFirst' /\ StreamKept'
  BY <1>1, StreamAlone DEF Accepting
<1>5. TypeOK'
  BY <1>1, <1>2, <1>4 DEF IInv, TypeOK
<1>. QED
  BY <1>3, <1>4, <1>5 DEF IInv

\* The first n pieces become the initial bytes.
LEMMA MaskKeeps ==
  ASSUME IInv, pc \in {"hello", "verify"}, NEW n \in Nat, Mask(n)
  PROVE  IInv'
<1>1. /\ pc' = "dialsite" /\ initial' = Upto(n)
      /\ pieces' = [pieces EXCEPT !["client"] = n] /\ taken' = [taken EXCEPT !["client"] = n]
      /\ UNCHANGED <<hello, deadline, held, copy, got, gone, shut, streamVars>>
  BY DEF Mask
<1>2. MaskType'
  <2>1. initial' \in Seq(Nat) /\ pieces' \in [Side -> Nat] /\ taken' \in [Side -> Nat]
    BY <1>1, UptoIs DEF IInv, TypeOK, MaskType
  <2>. QED
    BY <1>1, <2>1 DEF IInv, TypeOK, MaskType
<1>3. Masking'
  <2>. SUFFICES ASSUME hello # "good" PROVE Masking'
    BY <1>1 DEF Masking
  <2>1. copy = [d \in Side |-> "off"] /\ taken["site"] = 0 /\ \A d \in Side : Passing(d)
    BY DEF IInv, Masking
  <2>2. taken'["client"] = n /\ taken'["site"] = 0 /\ pieces'["client"] = n
        /\ pieces'["site"] = pieces["site"] /\ taken["site"] = taken'["site"]
    BY <1>1, <2>1 DEF IInv, TypeOK, MaskType, Side
  <2>3. ASSUME NEW d \in Side PROVE Passing(d)'
    <3>1. copy[d] = "off" /\ copy' = copy /\ got' = got
      BY <1>1, <2>1
    <3>2. taken'[d] <= pieces'[d]
      <4>1. CASE d = "client"
        BY <4>1, <2>2
      <4>2. CASE d = "site"
        BY <4>2, <2>1, <2>2 DEF Passing, Side
      <4>. QED
        BY <4>1, <4>2 DEF Side
    <3>. QED
      BY <3>1, <3>2, <2>1 DEF Passing
  <2>. QED
    BY <1>1, <2>1, <2>2, <2>3 DEF Masking, Masked
<1>4. StreamType' /\ FrameFirst' /\ StreamKept'
  BY <1>1, StreamAlone DEF Accepting
<1>5. TypeOK'
  BY <1>1, <1>2, <1>4 DEF IInv, TypeOK, Masked
<1>. QED
  BY <1>3, <1>4, <1>5 DEF IInv

\* The handshake keeps the invariant.
LEMMA InvHandshake ==
  ASSUME IInv, ReadHello \/ Verify \/ Greet \/ HandshakeFails \/ TimedOut
  PROVE  IInv'
<1>1. CASE UNCHANGED <<hello, deadline, maskVars, streamVars>>
           /\ \/ pc = "hello" /\ pc' = "verify"
              \/ pc = "verify" /\ pc' = "greet" /\ hello = "good"
  <2>1. UNCHANGED <<initial, pieces, taken, held, copy, got, gone, shut, hello, deadline>>
    BY <1>1 DEF maskVars
  <2>2. MaskType'
    BY <2>1 DEF IInv, TypeOK, MaskType
  <2>3. Masking'
    BY <1>1, <2>1 DEF IInv, Masking, Passing
  <2>4. StreamType' /\ FrameFirst' /\ StreamKept'
    BY <1>1, StreamAlone DEF Accepting
  <2>5. TypeOK'
    BY <1>1, <2>1, <2>2, <2>4 DEF IInv, TypeOK, Accepting
  <2>. QED
    BY <2>3, <2>4, <2>5 DEF IInv
<1>2. CASE Greet
  <2>1. /\ pc = "greet" /\ pc' = "frame" /\ got' = [got EXCEPT !["client"] = Append(@, 0)]
        /\ UNCHANGED <<hello, deadline, initial, pieces, taken, held, copy, gone, shut, streamVars>>
    BY <1>2 DEF Greet
  <2>2. hello = "good"
    BY <2>1 DEF IInv, Masking, Masked
  <2>3. MaskType'
    <3>1. got' \in [Side -> Seq(Nat)]
      <4>1. Append(got["client"], 0) \in Seq(Nat)
        BY AppendProperties DEF IInv, TypeOK, MaskType, Side
      <4>. QED
        BY <2>1, <4>1 DEF IInv, TypeOK, MaskType
    <3>. QED
      BY <2>1, <3>1 DEF IInv, TypeOK, MaskType
  <2>4. StreamType' /\ FrameFirst' /\ StreamKept'
    BY <2>1, StreamAlone DEF Accepting
  <2>5. TypeOK' /\ Masking'
    BY <2>1, <2>2, <2>3, <2>4 DEF IInv, TypeOK, Accepting, Masking
  <2>. QED
    BY <2>4, <2>5 DEF IInv
<1>3. CASE Return /\ UNCHANGED streamVars
  BY <1>3, ReturnKeeps
<1>4. CASE pc \in {"hello", "verify"} /\ (Mask(1) \/ Mask(2))
  BY <1>4, MaskKeeps
<1>5. CASE ReadHello
  BY <1>1, <1>3, <1>4, <1>5 DEF ReadHello
<1>6. CASE Verify
  BY <1>1, <1>4, <1>6 DEF Verify, InTime
<1>. QED
  BY <1>2, <1>3, <1>5, <1>6 DEF HandshakeFails, TimedOut

\* The masking site is dialled, gets the initial bytes, and both copies end.
LEMMA InvSite ==
  ASSUME IInv, DialSite \/ WriteInitial \/ FirstDone \/ SecondDone
  PROVE  IInv'
<1>1. CASE Return /\ UNCHANGED streamVars
  BY <1>1, ReturnKeeps
<1>2. CASE pc = "dialsite" /\ pc' = "initial" /\ UNCHANGED <<hello, deadline, maskVars, streamVars>>
  <2>1. UNCHANGED <<initial, pieces, taken, held, copy, got, gone, shut, hello, deadline>>
    BY <1>2 DEF maskVars
  <2>2. MaskType' /\ Masking'
    BY <1>2, <2>1 DEF IInv, TypeOK, MaskType, Masking, Passing, Masked
  <2>3. StreamType' /\ FrameFirst' /\ StreamKept'
    BY <1>2, StreamAlone DEF Accepting
  <2>4. TypeOK'
    BY <1>2, <2>1, <2>2, <2>3 DEF IInv, TypeOK, Masked
  <2>. QED
    BY <2>2, <2>3, <2>4 DEF IInv
<1>3. CASE /\ pc = "initial" /\ pc' = "mask" /\ deadline' = FALSE
           /\ got' = [got EXCEPT !["site"] = initial]
           /\ copy' = [d \in Side |-> "read"]
           /\ UNCHANGED <<hello, initial, pieces, taken, held, gone, shut, streamVars>>
  <2>1. MaskType'
    <3>1. got' \in [Side -> Seq(Nat)]
      BY <1>3 DEF IInv, TypeOK, MaskType, Side
    <3>2. copy' \in [Side -> {"off", "read", "write", "done"}]
      BY <1>3
    <3>. QED
      BY <1>3, <3>1, <3>2 DEF IInv, TypeOK, MaskType
  <2>2. Masking'
    <3>. SUFFICES ASSUME hello # "good" PROVE Masking'
      BY <1>3 DEF Masking
    <3>1. /\ copy = [d \in Side |-> "off"] /\ taken["site"] = 0
          /\ initial = Upto(taken["client"]) /\ \A d \in Side : Passing(d)
      BY <1>3 DEF IInv, Masking
    <3>2. /\ got'["site"] = initial /\ got'["client"] = got["client"]
          /\ taken["client"] \in Nat /\ copy' = [d \in Side |-> "read"]
      BY <1>3 DEF IInv, TypeOK, MaskType, Side
    <3>3. Passing("client")'
      <4>1. Upto(taken["client"]) = Upto(Len(Upto(taken["client"])))
        BY <3>2, UptoIs
      <4>. QED
        BY <1>3, <3>1, <3>2, <4>1, OtherSide DEF Passing, Side
    <3>4. Passing("site")'
      <4>1. got["client"] = <<>> /\ Len(got["client"]) = 0 /\ got["client"] = Upto(0)
        BY <3>1, OtherSide, EmptySeq DEF Passing, Side
      <4>2. taken["site"] <= pieces["site"]
        BY <3>1 DEF Passing, Side
      <4>. QED
        BY <1>3, <3>1, <3>2, <4>1, <4>2, OtherSide DEF Passing, Side
    <3>. QED
      BY <1>3, <3>3, <3>4 DEF Masking, Side, Masked
  <2>3. StreamType' /\ FrameFirst' /\ StreamKept'
    BY <1>3, StreamAlone DEF Accepting
  <2>4. TypeOK'
    BY <1>3, <2>1, <2>3 DEF IInv, TypeOK, Masked
  <2>. QED
    BY <2>2, <2>3, <2>4 DEF IInv
<1>4. CASE FirstDone
  <2>1. /\ pc = "mask" /\ shut' = Side /\ pc' = "wait"
        /\ UNCHANGED <<deadline, pieces, taken, held, copy, got, gone, hello, initial, streamVars>>
    BY <1>4 DEF FirstDone, maskRest
  <2>2. MaskType' /\ Masking'
    BY <2>1 DEF IInv, TypeOK, MaskType, Masking, Passing, Masked
  <2>3. StreamType' /\ FrameFirst' /\ StreamKept'
    BY <2>1, StreamAlone DEF Accepting
  <2>4. TypeOK'
    BY <2>1, <2>2, <2>3 DEF IInv, TypeOK, Masked
  <2>. QED
    BY <2>2, <2>3, <2>4 DEF IInv
<1>. QED
  BY <1>1, <1>2, <1>3, <1>4 DEF DialSite, WriteInitial, SecondDone

\* A step on one side leaves the rest of the invariant alone.
LEMMA SideKeeps ==
  ASSUME IInv, MaskType', UNCHANGED <<pc, deadline, hello, initial, streamVars>>,
         NEW d \in Side,
         pc \in {"hello", "verify", "dialsite", "initial"} => UNCHANGED <<copy, taken>>,
         hello # "good" =>
           /\ Passing(d)'
           /\ \A e \in Side \ {d} : Passing(e) => Passing(e)'
  PROVE  IInv'
<1>1. Masking'
  BY DEF IInv, Masking
<1>2. StreamType' /\ FrameFirst' /\ StreamKept'
  BY StreamAlone
<1>3. TypeOK'
  BY <1>2 DEF IInv, TypeOK
<1>. QED
  BY <1>1, <1>2, <1>3 DEF IInv

\* The far ends and the two copies keep the invariant.
LEMMA InvCopies ==
  ASSUME IInv, NEW d \in Side, FarSends(d) \/ FarCloses(d) \/ Copies(d)
  PROVE  IInv'
<1>. USE DEF maskRest
<1>1. MaskType /\ \A e \in Side : Len(got[e]) \in Nat
  BY LenProperties DEF IInv, TypeOK, MaskType
<1>2. ASSUME hello # "good", NEW e \in Side PROVE Passing(e)
  BY <1>2 DEF IInv, Masking
<1>3. Other(d) \in Side /\ \A e \in Side \ {d} : Other(e) = d /\ Other(d) = e
  BY OtherSide DEF Side
<1>4. CASE FarSends(d)
  <2>1. /\ pieces' = [pieces EXCEPT ![d] = @ + 1]
        /\ UNCHANGED <<pc, deadline, taken, held, copy, got, gone, shut, hello, initial, streamVars>>
    BY <1>4 DEF FarSends
  <2>2. MaskType'
    BY <1>1, <2>1 DEF MaskType
  <2>3. \A e \in Side : Passing(e) => Passing(e)'
    <3>1. \A e \in Side : pieces[e] <= pieces'[e] /\ taken[e] \in Nat /\ pieces[e] \in Nat
                           /\ pieces'[e] \in Nat
      BY <1>1, <2>1 DEF MaskType
    <3>2. \A e \in Side : taken[e] <= pieces[e] => taken'[e] <= pieces'[e]
      BY <3>1, <2>1
    <3>. QED
      BY <2>1, <3>2 DEF Passing
  <2>. QED
    BY <1>2, <2>1, <2>2, <2>3, SideKeeps
<1>5. CASE FarCloses(d)
  <2>1. /\ gone' = gone \cup {d}
        /\ UNCHANGED <<pc, deadline, pieces, taken, held, copy, got, shut, hello, initial, streamVars>>
    BY <1>5 DEF FarCloses
  <2>2. MaskType' /\ \A e \in Side : Passing(e) => Passing(e)'
    BY <1>1, <2>1 DEF MaskType, Passing
  <2>. QED
    BY <1>2, <2>1, <2>2, SideKeeps
<1>6. CASE CopyRead(d)
  <2>1. PICK n \in taken[d] + 1..pieces[d] :
          /\ held' = [held EXCEPT ![d] = SubSeq(Upto(n), taken[d] + 1, n)]
          /\ taken' = [taken EXCEPT ![d] = n]
    BY <1>6 DEF CopyRead
  <2>2. /\ copy[d] = "read" /\ copy' = [copy EXCEPT ![d] = "write"]
        /\ UNCHANGED <<pc, deadline, pieces, got, gone, shut, hello, initial, streamVars>>
    BY <1>6 DEF CopyRead
  <2>3. n \in Nat /\ taken[d] \in Nat /\ taken[d] <= n /\ n <= pieces[d]
    BY <1>1 DEF MaskType
  <2>4. /\ SubSeq(Upto(n), taken[d] + 1, n) \in Seq(Nat)
        /\ Upto(taken[d]) \o SubSeq(Upto(n), taken[d] + 1, n) = Upto(n)
    BY <2>3, UptoJoin
  <2>5. /\ held'[d] = SubSeq(Upto(n), taken[d] + 1, n) /\ taken'[d] = n /\ copy'[d] = "write"
        /\ \A e \in Side \ {d} : held'[e] = held[e] /\ taken'[e] = taken[e] /\ copy'[e] = copy[e]
    BY <1>1, <2>1, <2>2 DEF MaskType
  <2>6. MaskType'
    BY <1>1, <2>1, <2>2, <2>3, <2>4 DEF MaskType
  <2>7. \A e \in Side \ {d} : Passing(e) => Passing(e)'
    BY <2>2, <2>5 DEF Passing
  <2>8. hello # "good" => Passing(d)'
    <3>. SUFFICES ASSUME hello # "good" PROVE Passing(d)'
      OBVIOUS
    <3>1. got[Other(d)] = Upto(taken[d]) /\ got[Other(d)] = Upto(Len(got[Other(d)]))
      BY <1>2, <2>2 DEF Passing
    <3>. QED
      BY <3>1, <2>2, <2>3, <2>4, <2>5 DEF Passing
  <2>9. pc \notin {"hello", "verify", "dialsite", "initial"} \/ hello = "good"
    BY <2>2 DEF IInv, Masking
  <2>10. Masking' /\ TypeOK' /\ StreamType' /\ FrameFirst' /\ StreamKept'
    <3>1. StreamType' /\ FrameFirst' /\ StreamKept'
      BY <2>2, StreamAlone
    <3>2. Masking'
      BY <1>2, <2>2, <2>7, <2>8, <2>9 DEF IInv, Masking
    <3>. QED
      BY <2>2, <2>6, <3>1, <3>2 DEF IInv, TypeOK
  <2>. QED
    BY <2>10 DEF IInv
<1>7. CASE CopyEnds(d)
  <2>1. /\ copy[d] = "read" /\ copy' = [copy EXCEPT ![d] = "done"]
        /\ UNCHANGED <<pc, deadline, pieces, taken, held, got, gone, shut, hello, initial, streamVars>>
    BY <1>7 DEF CopyEnds
  <2>2. MaskType' /\ \A e \in Side : Passing(e) => Passing(e)'
    BY <1>1, <2>1 DEF MaskType, Passing
  <2>3. hello # "good" => pc \notin {"hello", "verify", "dialsite", "initial"}
    BY <2>1 DEF IInv, Masking
  <2>4. StreamType' /\ FrameFirst' /\ StreamKept'
    BY <2>1, StreamAlone
  <2>5. Masking'
    BY <1>2, <2>1, <2>2, <2>3 DEF IInv, Masking
  <2>. QED
    BY <2>1, <2>2, <2>4, <2>5 DEF IInv, TypeOK
<1>8. CASE CopyWrite(d)
  <2>. DEFINE n == Len(held[d])
  <2>1. /\ copy[d] = "write" /\ held' = [held EXCEPT ![d] = <<>>]
        /\ UNCHANGED <<pc, deadline, pieces, taken, gone, shut, hello, initial, streamVars>>
    BY <1>8 DEF CopyWrite
  <2>2. held[d] \in Seq(Nat) /\ n \in Nat /\ got[Other(d)] \in Seq(Nat) /\ taken[d] \in Nat
    BY <1>1, <1>3, LenProperties DEF MaskType
  <2>3. PICK w : /\ w \in Seq(Nat) /\ got' = [got EXCEPT ![Other(d)] = @ \o w]
                 /\ \/ w = held[d] /\ copy' = [copy EXCEPT ![d] = "read"]
                    \/ /\ \E k \in 0..n : w = SubSeq(held[d], 1, k)
                       /\ copy' = [copy EXCEPT ![d] = "done"]
    <3>1. CASE got' = [got EXCEPT ![Other(d)] = @ \o held[d]] /\ copy' = [copy EXCEPT ![d] = "read"]
      BY <3>1, <2>2
    <3>2. CASE /\ \E k \in 0..n - 1 : got' = [got EXCEPT ![Other(d)] = @ \o SubSeq(held[d], 1, k)]
               /\ copy' = [copy EXCEPT ![d] = "done"]
      <4>1. PICK k \in 0..n - 1 : got' = [got EXCEPT ![Other(d)] = @ \o SubSeq(held[d], 1, k)]
        BY <3>2
      <4>2. k \in 0..n /\ k \in Nat
        BY <2>2
      <4>3. SubSeq(held[d], 1, k) \in Seq(Nat)
        <5>1. \A i \in 1..k : held[d][i] \in Nat
          BY <2>2, <4>2, ElementOfSeq
        <5>. QED
          BY <5>1, <4>2, SubSeqProperties
      <4>. QED
        BY <3>2, <4>1, <4>2, <4>3
    <3>. QED
      BY <1>8, <3>1, <3>2 DEF CopyWrite
  <2>4. got[Other(d)] \o w \in Seq(Nat)
    BY <2>2, <2>3, ConcatProperties
  <2>5. /\ got'[Other(d)] = got[Other(d)] \o w /\ held'[d] = <<>>
        /\ \A e \in Side \ {d} : got'[Other(e)] = got[Other(e)] /\ held'[e] = held[e]
                                  /\ copy'[e] = copy[e]
    BY <1>1, <1>3, <2>1, <2>3, OtherSide DEF MaskType, Side
  <2>6. MaskType'
    <3>1. held' \in [Side -> Seq(Nat)] /\ got' \in [Side -> Seq(Nat)]
          /\ copy' \in [Side -> {"off", "read", "write", "done"}]
      BY <1>1, <1>3, <2>1, <2>3, <2>4, EmptySeq DEF MaskType
    <3>. QED
      BY <1>1, <2>1, <3>1 DEF MaskType
  <2>7. \A e \in Side \ {d} : Passing(e) => Passing(e)'
    BY <2>1, <2>5 DEF Passing
  <2>8. hello # "good" => Passing(d)'
    <3>. SUFFICES ASSUME hello # "good" PROVE Passing(d)'
      OBVIOUS
    <3>1. got[Other(d)] \o held[d] = Upto(taken[d]) /\ taken[d] <= pieces[d]
      BY <1>2, <2>1 DEF Passing
    <3>2. CASE w = held[d] /\ copy' = [copy EXCEPT ![d] = "read"]
      <4>1. got'[Other(d)] = Upto(taken[d]) /\ copy'[d] = "read"
        BY <1>1, <3>1, <3>2, <2>5 DEF MaskType
      <4>2. Upto(taken[d]) = Upto(Len(Upto(taken[d])))
        BY <2>2, UptoIs
      <4>. QED
        BY <3>1, <4>1, <4>2, <2>1 DEF Passing
    <3>3. CASE /\ \E k \in 0..n : w = SubSeq(held[d], 1, k)
               /\ copy' = [copy EXCEPT ![d] = "done"]
      <4>1. got[Other(d)] \o w = Upto(Len(got[Other(d)] \o w))
        <5>1. PICK k \in 0..n : w = SubSeq(held[d], 1, k)
          BY <3>3
        <5>. DEFINE g == got[Other(d)]
                    h == held[d]
        <5>2. g \in Seq(Nat) /\ h \in Seq(Nat) /\ k \in 0..Len(h) /\ g \o h = Upto(taken[d])
              /\ taken[d] \in Nat
          BY <2>2, <3>1
        <5>. HIDE DEF g, h
        <5>3. g \o SubSeq(h, 1, k) = Upto(Len(g \o SubSeq(h, 1, k)))
          BY <5>2, UptoCut
        <5>. QED
          BY <5>1, <5>3 DEF g, h
      <4>2. copy'[d] = "done"
        BY <1>1, <3>3 DEF MaskType
      <4>. QED
        BY <3>1, <4>1, <4>2, <2>1, <2>5 DEF Passing
    <3>. QED
      BY <2>3, <3>2, <3>3
  <2>9. hello # "good" => pc \notin {"hello", "verify", "dialsite", "initial"}
    BY <2>1 DEF IInv, Masking
  <2>10. StreamType' /\ FrameFirst' /\ StreamKept'
    BY <2>1, StreamAlone
  <2>11. Masking'
    BY <1>2, <2>1, <2>7, <2>8, <2>9 DEF IInv, Masking
  <2>. QED
    BY <2>1, <2>6, <2>10, <2>11 DEF IInv, TypeOK
<1>. QED
  BY <1>4, <1>5, <1>6, <1>7, <1>8 DEF Copies

-----------------------------------------------------------------------------
(* The streams. *)

\* The beginning and the rest of a sequence are the sequence.
LEMMA CutAt ==
  ASSUME NEW S, NEW s \in Seq(S), NEW n \in 0..Len(s)
  PROVE  /\ SubSeq(s, 1, n) \in Seq(S) /\ Len(SubSeq(s, 1, n)) = n
         /\ From(s, n) \in Seq(S) /\ Len(From(s, n)) = Len(s) - n
         /\ SubSeq(s, 1, n) \o From(s, n) = s
<1>1. n \in Nat /\ Len(s) \in Nat
  BY LenProperties
<1>2. First(s, n) = SubSeq(s, 1, n)
  <2>1. (IF n < Len(s) THEN n ELSE Len(s)) = n
    BY <1>1
  <2>. QED
    BY <2>1 DEF First
<1>3. /\ First(s, n) \in Seq(S) /\ From(s, n) \in Seq(S)
      /\ First(s, n) \o From(s, n) = s
      /\ Len(First(s, n)) = IF n < Len(s) THEN n ELSE Len(s)
      /\ Len(From(s, n)) = IF n < Len(s) THEN Len(s) - n ELSE 0
  BY <1>1, Parts
<1>. QED
  BY <1>1, <1>2, <1>3

\* What the loop of split leaves.
LEMMA CutIs ==
  ASSUME NEW s \in Seq(Byte)
  PROVE  /\ Cut(s).ends = Positions(s) \ {0} /\ Cut(s).ends \subseteq 1..Len(s)
         /\ Cut(s).rest \in Positions(s) /\ Cut(s).rest \in 0..Len(s)
         /\ \A p \in Positions(s) : p <= Cut(s).rest
         /\ Cut(s).bad = (NextLen(From(s, Cut(s).rest)) < 0)
<1>1. Len(s) \in Nat
  BY LenProperties
<1>2. Positions(s) \subseteq 0..Len(s) /\ 0 \in Positions(s)
  BY <1>1, PositionsAre
<1>3. \E k \in Positions(s) : \A p \in Positions(s) : p <= k
  BY <1>1, <1>2, Greatest
<1>4. Cut(s).rest = CHOOSE k \in Positions(s) : \A p \in Positions(s) : p <= k
  BY DEF Cut
<1>5. Cut(s).rest \in Positions(s) /\ \A p \in Positions(s) : p <= Cut(s).rest
  BY <1>3, <1>4
<1>6. Cut(s).ends = Positions(s) \ {0} /\ Cut(s).bad = (NextLen(From(s, Cut(s).rest)) < 0)
  BY DEF Cut
<1>. QED
  BY <1>1, <1>2, <1>5, <1>6

\* Whatever the loop finds, what it passes on and what it keeps are what it had and got.
LEMMA SplitKeeps ==
  ASSUME SplitterType, input = sent \o buf, NEW chunk \in Seq(Byte), Split(chunk)
  PROVE  /\ SplitterType' /\ input' = sent' \o buf'
         /\ sent' \o buf' = sent \o buf \o chunk
<1>1. /\ sent \in Seq(Byte) /\ buf \in Seq(Byte) /\ input \in Seq(Byte)
      /\ Len(sent) \in Nat /\ Len(buf) \in Nat /\ Len(chunk) \in Nat
      /\ Len(input) = Len(sent) + Len(buf) /\ ends \subseteq 1..Len(input)
  BY LenProperties, ConcatProperties DEF SplitterType
<1>2. input' = input \o chunk /\ proto' = proto
  BY DEF Split
<1>3. input' \in Seq(Byte) /\ Len(input') = Len(input) + Len(chunk)
  BY <1>1, <1>2, ConcatProperties
<1>4. CASE PassOn(chunk)
  <2>1. buf = <<>> /\ sent' = sent \o chunk /\ UNCHANGED <<buf, disabled, ends>>
    BY <1>4 DEF PassOn, SplitterType
  <2>2. sent' \in Seq(Byte) /\ sent \o buf = sent /\ sent' \o buf' = sent'
    BY <1>1, <2>1, ConcatProperties, ConcatEmptySeq
  <2>3. SplitterType'
    BY <1>1, <1>2, <1>3, <2>1, <2>2 DEF SplitterType
  <2>. QED
    BY <1>2, <2>1, <2>2, <2>3
<1>5. CASE CutMessages(chunk)
  <2>. DEFINE s == buf \o chunk
              cut == Cut(s)
  <2>1. /\ sent' = sent \o (IF cut.bad THEN s ELSE SubSeq(s, 1, cut.rest))
        /\ buf' = IF cut.bad THEN <<>> ELSE From(s, cut.rest)
        /\ disabled' = cut.bad
        /\ ends' = ends \cup {Len(sent) + e : e \in cut.ends}
    BY <1>5 DEF CutMessages
  <2>2. s \in Seq(Byte) /\ Len(s) = Len(buf) + Len(chunk)
    BY <1>1, ConcatProperties
  <2>3. /\ cut.rest \in 0..Len(s) /\ cut.ends \subseteq 1..Len(s)
        /\ cut.bad = (NextLen(From(s, cut.rest)) < 0)
    BY <2>2, CutIs
  <2>. HIDE DEF s, cut
  <2>4. sent' \in Seq(Byte) /\ buf' \in Seq(Byte) /\ sent' \o buf' = sent \o s
    <3>1. CASE cut.bad
      <4>1. sent' = sent \o s /\ buf' = <<>> /\ sent \o s \in Seq(Byte)
        BY <1>1, <2>1, <2>2, <3>1, ConcatProperties
      <4>. QED
        BY <4>1, ConcatEmptySeq, EmptySeq
    <3>2. CASE ~cut.bad
      <4>. DEFINE a == SubSeq(s, 1, cut.rest)
                  b == From(s, cut.rest)
      <4>1. a \in Seq(Byte) /\ b \in Seq(Byte) /\ a \o b = s
        BY <2>2, <2>3, CutAt
      <4>2. sent' = sent \o a /\ buf' = b
        BY <2>1, <3>2
      <4>. HIDE DEF a, b
      <4>3. (sent \o a) \o b = sent \o (a \o b)
        <5>1. sent \in Seq(Byte) /\ a \in Seq(Byte) /\ b \in Seq(Byte)
          BY <1>1, <4>1
        <5>. QED
          BY <5>1, ConcatAssociative
      <4>4. sent \o a \in Seq(Byte)
        BY <1>1, <4>1, ConcatProperties
      <4>. QED
        BY <4>1, <4>2, <4>3, <4>4
    <3>. QED
      BY <3>1, <3>2
  <2>5. sent \o s = input \o chunk /\ sent \o s = sent \o buf \o chunk
    <3>1. (sent \o buf) \o chunk = sent \o (buf \o chunk)
      BY <1>1, ConcatAssociative
    <3>. QED
      BY <3>1 DEF s
  <2>6. ends' \subseteq 1..Len(input')
    <3>1. \A e \in cut.ends : Len(sent) + e \in 1..Len(input')
      BY <1>1, <1>3, <2>2, <2>3
    <3>2. ends \subseteq 1..Len(input')
      BY <1>1, <1>3
    <3>. QED
      BY <2>1, <3>1, <3>2
  <2>7. disabled' \in BOOLEAN /\ (disabled' => buf' = <<>>)
    BY <2>1, <2>3
  <2>8. SplitterType'
    BY <1>2, <1>3, <2>4, <2>6, <2>7 DEF SplitterType
  <2>. QED
    BY <1>2, <2>4, <2>5, <2>8
<1>. QED
  BY <1>4, <1>5 DEF Split

\* A sequence that is as long as a tuple is a sequence.
LEMMA TupleIsSeq ==
  ASSUME NEW S, NEW n \in Nat, NEW t \in [1..n -> S]
  PROVE  t \in Seq(S) /\ Len(t) = n
<1>1. t \in Seq(S)
  OBVIOUS
<1>. QED
  BY <1>1, LenProperties

\* Bytes put together one after the other.
LEMMA Joined ==
  /\ \A a, b \in Seq(Byte) : a \o b \in Seq(Byte)
  /\ \A a, b, c \in Seq(Byte) : a \o b \o c = a \o (b \o c)
<1>1. ASSUME NEW a \in Seq(Byte), NEW b \in Seq(Byte) PROVE a \o b \in Seq(Byte)
  BY ConcatProperties
<1>2. ASSUME NEW a \in Seq(Byte), NEW b \in Seq(Byte), NEW c \in Seq(Byte)
      PROVE  a \o b \o c = a \o (b \o c)
  BY ConcatAssociative
<1>. QED
  BY <1>1, <1>2

\* What is read, from a record or from what is left of one, are bytes.
LEMMA PendingBytes ==
  ASSUME StreamType, NEW b \in Pending
  PROVE  b \in Seq(Byte)
<1>1. readBuf \in Seq(Byte) /\ frame \in Seq(Byte) /\ Len(stream) \in Nat
  BY FramesType, TupleIsSeq, LenProperties DEF StreamType
<1>2. ASSUME NEW n, NEW s \in SeqOf(Byte, n) PROVE s \in Seq(Byte)
  BY DEF SeqOf
<1>3. From(frame, Len(stream)) \in Seq(Byte)
  BY <1>1, Parts
<1>4. CASE b \in Records
  <2>. DEFINE missing == From(frame, Len(stream))
  <2>1. missing \in Seq(Byte) /\ Len(missing) \in Nat
    BY <1>3, LenProperties
  <2>. HIDE DEF missing
  <2>2. ASSUME NEW n \in 1..Len(missing) PROVE First(missing, n) \in Seq(Byte)
    BY <2>1, Parts
  <2>3. ASSUME NEW s \in SeqOf(Byte, MaxInput) PROVE missing \o s \in Seq(Byte)
    BY <2>1, <1>2, ConcatProperties
  <2>4. \/ b \in SeqOf(Byte, FrameLen + MaxInput - Len(stream))
        \/ \E n \in 1..Len(missing) : b = First(missing, n)
        \/ \E s \in SeqOf(Byte, MaxInput) : b = missing \o s
    BY <1>4 DEF Records, missing
  <2>. QED
    BY <1>2, <2>2, <2>3, <2>4
<1>. QED
  BY <1>1, <1>4 DEF Pending

\* A read hands over the beginning of what is pending and keeps the rest.
LEMMA ReadKeeps ==
  ASSUME NEW a \in Seq(Byte), stream = a \o readBuf, readBuf \in Seq(Byte),
         NEW b \in Seq(Byte), b \in Pending, NEW n \in Nat, Read(n, b)
  PROVE  /\ First(b, n) \in Seq(Byte) /\ readBuf' \in Seq(Byte)
         /\ a \o First(b, n) \in Seq(Byte)
         /\ stream' \in Seq(Byte) /\ stream' = a \o First(b, n) \o readBuf'
<1>1. stream' = a \o b
  <2>1. CASE readBuf # <<>>
    BY <2>1 DEF Pending, Read
  <2>2. CASE readBuf = <<>>
    <3>1. stream = a
      BY <2>2, ConcatEmptySeq
    <3>. QED
      BY <2>2, <3>1 DEF Read
  <2>. QED
    BY <2>1, <2>2
<1>2. /\ readBuf' = From(b, n) /\ First(b, n) \in Seq(Byte) /\ From(b, n) \in Seq(Byte)
      /\ First(b, n) \o From(b, n) = b
  BY Parts DEF Read
<1>3. a \o (First(b, n) \o From(b, n)) = a \o First(b, n) \o From(b, n)
  <2>. DEFINE x == First(b, n)
              y == From(b, n)
  <2>1. a \in Seq(Byte) /\ x \in Seq(Byte) /\ y \in Seq(Byte)
    BY <1>2
  <2>. HIDE DEF x, y
  <2>2. a \o (x \o y) = a \o x \o y
    BY <2>1, Joined
  <2>. QED
    BY <2>2 DEF x, y
<1>4. a \o First(b, n) \in Seq(Byte) /\ a \o b \in Seq(Byte)
  BY <1>2, ConcatProperties
<1>. QED
  BY <1>1, <1>2, <1>3, <1>4

\* A step of the streams touches nothing of the masking.
LEMMA MaskAlone ==
  ASSUME IInv, pc \in {"frame", "relay", "reply"}, UNCHANGED <<hello, maskVars>>
  PROVE  MaskType' /\ Masking'
<1>1. hello = "good"
  BY DEF IInv, Masking, Masked
<1>2. UNCHANGED <<initial, pieces, taken, held, copy, got, gone, shut>>
  BY DEF maskVars
<1>. QED
  BY <1>1, <1>2 DEF IInv, TypeOK, MaskType, Masking

\* What comes with a record goes to the frame, and what is behind the frame is kept.
LEMMA InvFrame ==
  ASSUME IInv, NEW b \in Pending, ReadFrame(b)
  PROVE  IInv'
<1>. DEFINE n == FrameLen - Len(have)
            all == have \o First(b, n)
<1>1. /\ pc = "frame" /\ have' = all /\ Read(n, b) /\ UNCHANGED <<frame, reply>>
  BY DEF ReadFrame
<1>2. /\ have \in Seq(Byte) /\ Len(have) \in Nat /\ readBuf \in Seq(Byte) /\ StreamType
      /\ FrameLen \in Nat
  BY LenProperties, FramesType DEF IInv, TypeOK, StreamType
<1>3. n \in Nat /\ NoSplitter /\ Len(have) < FrameLen
  BY <1>1, <1>2 DEF IInv, FrameFirst, Accepting
<1>4. b \in Seq(Byte) /\ Len(b) \in Nat
  BY <1>2, PendingBytes, LenProperties
<1>5. stream = have \o readBuf
  <2>1. have \o <<>> \o <<>> = have
    BY <1>2, ConcatEmptySeq
  <2>. QED
    BY <1>3, <2>1 DEF IInv, StreamKept, NoSplitter
<1>6. /\ First(b, n) \in Seq(Byte) /\ readBuf' \in Seq(Byte) /\ all \in Seq(Byte)
      /\ stream' \in Seq(Byte) /\ stream' = all \o readBuf'
  <2>. HIDE DEF n
  <2>. QED
    BY <1>1, <1>2, <1>3, <1>4, <1>5, ReadKeeps
<1>7. Len(all) \in Nat /\ Len(all) <= FrameLen
  <2>1. Len(First(b, n)) = IF n < Len(b) THEN n ELSE Len(b)
    <3>. HIDE DEF n
    <3>. QED
      BY <1>3, <1>4, Parts
  <2>2. Len(all) = Len(have) + Len(First(b, n))
    <3>. HIDE DEF n
    <3>. QED
      BY <1>2, <1>6, ConcatProperties
  <2>. QED
    BY <1>2, <1>4, <2>1, <2>2
<1>. HIDE DEF n, all
<1>8. /\ UNCHANGED <<hello, buf, disabled, input, sent, ends>> /\ proto' \in Proto \cup {"none"}
      /\ deadline' \in BOOLEAN
      /\ \/ pc' = "frame" /\ Len(all) < FrameLen /\ UNCHANGED <<maskVars, proto>>
         \/ pc' = "over" /\ Return
         \/ pc' \in {"relay", "reply"} /\ UNCHANGED maskVars
  <2>1. CASE Len(all) < FrameLen
    <3>1. UNCHANGED <<pc, hello, deadline, maskVars, splitVars>>
      BY <2>1 DEF ReadFrame, all, n
    <3>. QED
      BY <1>1, <1>2, <2>1, <3>1 DEF splitVars, StreamType, SplitterType, IInv, TypeOK
  <2>2. CASE Len(all) = FrameLen /\ Tag(all) = "invalid"
    <3>1. Return /\ UNCHANGED splitVars
      BY <2>2, <1>2 DEF ReadFrame, all, n
    <3>. QED
      BY <1>2, <3>1 DEF Return, splitVars, StreamType, SplitterType, IInv, TypeOK
  <2>3. CASE Len(all) = FrameLen /\ Tag(all) # "invalid"
    <3>1. /\ pc' \in {"relay", "reply"} /\ deadline' = FALSE /\ NewSplitter(Tag(all))
          /\ UNCHANGED <<hello, maskVars>>
      BY <2>3, <1>2 DEF ReadFrame, all, n
    <3>2. Tag(all) \in Proto
      BY <2>3 DEF Tag, Proto
    <3>. QED
      BY <3>1, <3>2 DEF NewSplitter
  <2>. QED
    BY <1>2, <1>7, <2>1, <2>2, <2>3
<1>9. MaskType' /\ Masking'
  <2>1. CASE UNCHANGED maskVars
    BY <1>1, <1>8, <2>1, MaskAlone
  <2>2. CASE pc' = "over" /\ Return
    BY <2>2 DEF IInv, TypeOK, MaskType, Masking, Passing, Masked, Return
  <2>. QED
    BY <1>8, <2>1, <2>2
<1>10. StreamType'
  BY <1>1, <1>2, <1>3, <1>6, <1>8 DEF StreamType, SplitterType, NoSplitter
<1>11. FrameFirst'
  <2>1. <<>> = <<>> \o <<>>
    BY EmptySeq, ConcatEmptySeq
  <2>2. NoSplitter' \/ pc' # "frame"
    BY <1>3, <1>8 DEF NoSplitter
  <2>3. input' = sent' \o buf'
    BY <1>3, <1>8, <2>1 DEF NoSplitter
  <2>. QED
    BY <1>1, <1>8, <2>2, <2>3 DEF FrameFirst, Accepting
<1>12. StreamKept'
  <2>1. all \o <<>> \o <<>> = all
    BY <1>6, ConcatEmptySeq
  <2>2. stream' = have' \o sent' \o buf' \o readBuf'
    BY <1>1, <1>3, <1>6, <1>8, <2>1 DEF NoSplitter
  <2>. QED
    BY <1>1, <2>2 DEF IInv, StreamKept
<1>. QED
  BY <1>1, <1>8, <1>9, <1>10, <1>11, <1>12 DEF IInv, TypeOK

\* What comes with a record goes to the splitter, up to the size of a read.
LEMMA InvRelay ==
  ASSUME IInv, NEW b \in Pending, RelayUp(b)
  PROVE  IInv'
<1>. DEFINE chunk == First(b, RelayBuf)
            a == have \o sent \o buf
<1>1. /\ pc = "relay" /\ Read(RelayBuf, b) /\ Split(chunk)
      /\ UNCHANGED <<pc, hello, deadline, maskVars, frame, have, reply>>
  BY DEF RelayUp
<1>2. /\ have \in Seq(Byte) /\ readBuf \in Seq(Byte) /\ sent \in Seq(Byte) /\ buf \in Seq(Byte)
      /\ StreamType /\ SplitterType /\ RelayBuf \in Nat
  BY LimitsType DEF IInv, TypeOK, StreamType, SplitterType
<1>3. b \in Seq(Byte)
  BY <1>2, PendingBytes
<1>4. a \in Seq(Byte) /\ a = have \o (sent \o buf)
  BY <1>2, Joined
<1>5. stream = a \o readBuf /\ input = sent \o buf
  BY <1>1 DEF IInv, StreamKept, FrameFirst
<1>. HIDE DEF a
<1>6. /\ chunk \in Seq(Byte) /\ readBuf' \in Seq(Byte)
      /\ stream' \in Seq(Byte) /\ stream' = a \o chunk \o readBuf'
  BY <1>1, <1>2, <1>3, <1>4, <1>5, ReadKeeps
<1>. HIDE DEF chunk
<1>7. /\ SplitterType' /\ input' = sent' \o buf'
      /\ sent' \o buf' = sent \o buf \o chunk
  BY <1>1, <1>2, <1>5, <1>6, SplitKeeps
<1>8. stream' = have' \o sent' \o buf' \o readBuf'
  <2>1. a \o chunk = have \o (sent \o buf \o chunk)
    <3>. DEFINE t == sent \o buf
    <3>1. have \in Seq(Byte) /\ t \in Seq(Byte) /\ chunk \in Seq(Byte)
      BY <1>2, <1>6, Joined
    <3>2. a = have \o t
      BY <1>4
    <3>. HIDE DEF t
    <3>3. have \o t \o chunk = have \o (t \o chunk)
      BY <3>1, Joined
    <3>. QED
      BY <3>2, <3>3 DEF t
  <2>2. have \o (sent' \o buf') = have \o sent' \o buf'
    <3>1. have \in Seq(Byte) /\ sent' \in Seq(Byte) /\ buf' \in Seq(Byte)
      BY <1>2, <1>7 DEF SplitterType
    <3>. QED
      BY <3>1, Joined
  <2>. QED
    BY <1>1, <1>6, <1>7, <2>1, <2>2
<1>9. MaskType' /\ Masking'
  BY <1>1, MaskAlone
<1>10. StreamType' /\ FrameFirst' /\ StreamKept'
  <2>1. StreamType'
    BY <1>1, <1>2, <1>6, <1>7 DEF StreamType
  <2>2. FrameFirst'
    BY <1>1, <1>7 DEF FrameFirst, Accepting
  <2>3. StreamKept'
    BY <1>1, <1>8 DEF IInv, StreamKept
  <2>. QED
    BY <2>1, <2>2, <2>3
<1>. QED
  BY <1>1, <1>9, <1>10 DEF IInv, TypeOK

\* The tail is passed on when the stream ends.
LEMMA InvRelayEnds == IInv /\ RelayEnds => IInv'
<1>. SUFFICES ASSUME IInv, RelayEnds PROVE IInv'
  OBVIOUS
<1>1. /\ pc = "relay" /\ Return /\ Flush /\ UNCHANGED <<frame, have, stream, readBuf, reply>>
  BY DEF RelayEnds
<1>2. /\ have \in Seq(Byte) /\ sent \in Seq(Byte) /\ buf \in Seq(Byte)
      /\ StreamType /\ SplitterType
  BY DEF IInv, TypeOK, StreamType, SplitterType
<1>3. sent \o buf \in Seq(Byte) /\ <<>> \in Seq(Byte)
  BY <1>2, ConcatProperties, EmptySeq
<1>4. /\ sent' = sent \o buf /\ buf' = <<>> /\ UNCHANGED <<proto, disabled, input, ends>>
  BY <1>1 DEF Flush
<1>5. have \o (sent \o buf) \o <<>> = have \o sent \o buf
  <2>1. have \o (sent \o buf) = have \o sent \o buf
    BY <1>2, Joined
  <2>2. have \o (sent \o buf) \in Seq(Byte)
    BY <1>2, <1>3, ConcatProperties
  <2>3. have \o (sent \o buf) \o <<>> = have \o (sent \o buf)
    BY <2>2, ConcatEmptySeq
  <2>. QED
    BY <2>1, <2>3
<1>6. StreamKept'
  BY <1>1, <1>4, <1>5 DEF IInv, StreamKept
<1>7. StreamType' /\ FrameFirst'
  BY <1>1, <1>2, <1>3, <1>4 DEF StreamType, SplitterType, FrameFirst, Return, Accepting
<1>8. MaskType' /\ Masking'
  BY <1>1 DEF IInv, TypeOK, MaskType, Masking, Passing, Masked, Return
<1>. QED
  BY <1>1, <1>6, <1>7, <1>8 DEF IInv, TypeOK, Return

\* Write: each record carries what comes next, and no more than fits.
LEMMA InvReply ==
  ASSUME IInv, (\E n \in 1..MaxInput : StartReply(n)) \/ WriteRecord
  PROVE  IInv'
<1>1. /\ reply \in [left : Nat, total : Nat, records : Seq([first : Nat, last : Nat])]
      /\ StreamKept /\ StreamType /\ MaxRecord \in Nat \ {0} /\ MaxInput \in Nat
  BY LimitsType, SizesType DEF IInv, TypeOK, StreamType
<1>2. /\ pc = "reply" /\ UNCHANGED <<pc, hello, deadline, maskVars, frame, have, stream, readBuf>>
      /\ UNCHANGED <<proto, buf, disabled, input, sent, ends>>
  BY DEF StartReply, WriteRecord, splitVars
<1>3. MaskType' /\ Masking'
  BY <1>2, MaskAlone
<1>4. FrameFirst'
  BY <1>2 DEF IInv, FrameFirst, Accepting
<1>5. /\ reply' \in [left : Nat, total : Nat, records : Seq([first : Nat, last : Nat])]
      /\ StreamKept'
  <2>1. ASSUME NEW n \in 1..MaxInput, StartReply(n)
        PROVE  /\ reply' \in [left : Nat, total : Nat, records : Seq([first : Nat, last : Nat])]
               /\ StreamKept'
    <3>1. reply' = [reply EXCEPT !.left = n] /\ n \in Nat
      BY <1>1, <2>1 DEF StartReply
    <3>2. reply'.total = reply.total /\ reply'.records = reply.records
      BY <1>1, <3>1
    <3>. QED
      BY <1>1, <1>2, <3>1, <3>2 DEF StreamKept
  <2>2. CASE WriteRecord
    <3>. DEFINE n == IF reply.left > MaxRecord THEN MaxRecord ELSE reply.left
                r == reply.records
                new == [first |-> reply.total + 1, last |-> reply.total + n]
    <3>1. reply.left > 0 /\ n \in 1..MaxRecord /\ n <= reply.left
      BY <1>1, <2>2 DEF WriteRecord
    <3>2. reply' = [left |-> reply.left - n, total |-> reply.total + n,
                    records |-> Append(reply.records, new)]
      BY <2>2 DEF WriteRecord
    <3>. HIDE DEF n
    <3>3. new \in [first : Nat, last : Nat] /\ reply.left \in Nat /\ reply.total \in Nat
          /\ r \in Seq([first : Nat, last : Nat]) /\ Len(r) \in Nat
      BY <1>1, <3>1, LenProperties
    <3>4. new.first = reply.total + 1 /\ new.last = reply.total + n
      OBVIOUS
    <3>. HIDE DEF new
    <3>5. /\ Append(r, new) \in Seq([first : Nat, last : Nat])
          /\ Len(Append(r, new)) = Len(r) + 1
          /\ \A i \in 1..Len(r) : Append(r, new)[i] = r[i]
          /\ Append(r, new)[Len(r) + 1] = new /\ Append(r, new) # <<>>
      <4>1. ASSUME NEW T, NEW u \in Seq(T), NEW e \in T
            PROVE  /\ Append(u, e) \in Seq(T) /\ Len(Append(u, e)) = Len(u) + 1
                   /\ \A i \in 1..Len(u) : Append(u, e)[i] = u[i]
                   /\ Append(u, e)[Len(u) + 1] = e /\ Append(u, e) # <<>>
        BY AppendProperties
      <4>. QED
        BY <3>3, <4>1
    <3>6. reply'.records = Append(r, new) /\ reply'.total = new.last
      BY <3>2, <3>4
    <3>7. reply' \in [left : Nat, total : Nat, records : Seq([first : Nat, last : Nat])]
      <4>1. reply.left - n \in Nat /\ reply.total + n \in Nat
        BY <1>1, <3>1, <3>3
      <4>2. Append(reply.records, new) \in Seq([first : Nat, last : Nat])
        BY <3>5
      <4>. QED
        BY <3>2, <4>1, <4>2
    <3>8. /\ reply.total = IF r = <<>> THEN 0 ELSE r[Len(r)].last
          /\ \A i \in 1..Len(r) :
               /\ r[i].first = IF i = 1 THEN 1 ELSE r[i - 1].last + 1
               /\ r[i].last - r[i].first \in 0..MaxRecord - 1
      BY <1>1 DEF StreamKept
    <3>. DEFINE q == Append(r, new)
    <3>9. ASSUME NEW i \in 1..Len(q)
          PROVE  /\ q[i].first = IF i = 1 THEN 1 ELSE q[i - 1].last + 1
                 /\ q[i].last - q[i].first \in 0..MaxRecord - 1
      <4>1. CASE i <= Len(r)
        <5>1. i \in 1..Len(r) /\ (i # 1 => i - 1 \in 1..Len(r))
          BY <3>3, <3>5, <4>1
        <5>2. q[i] = r[i] /\ (i # 1 => q[i - 1] = r[i - 1])
          BY <5>1, <3>5
        <5>. HIDE DEF q, r
        <5>. QED
          BY <5>1, <5>2, <3>8
      <4>2. CASE ~(i <= Len(r))
        <5>1. i = Len(r) + 1 /\ q[i] = new
          BY <3>3, <3>5, <4>2
        <5>2. new.last - new.first \in 0..MaxRecord - 1
          BY <1>1, <3>1, <3>3, <3>4
        <5>3. CASE r = <<>>
          <6>1. Len(r) = 0 /\ reply.total = 0
            BY <3>8, <5>3, EmptySeq
          <6>. QED
            BY <5>1, <5>2, <6>1, <3>4
        <5>4. CASE r # <<>>
          <6>1. Len(r) # 0 /\ Len(r) \in 1..Len(r)
            BY <3>3, <5>4, EmptySeq
          <6>2. q[i - 1] = r[Len(r)] /\ i # 1
            BY <5>1, <6>1, <3>3, <3>5
          <6>3. reply.total = r[Len(r)].last
            BY <5>4, <3>8
          <6>. HIDE DEF q, r
          <6>. QED
            BY <5>1, <5>2, <6>2, <6>3, <3>4
        <5>. QED
          BY <5>3, <5>4
      <4>. QED
        BY <4>1, <4>2
    <3>10. reply'.total = IF q = <<>> THEN 0 ELSE q[Len(q)].last
      BY <3>3, <3>5, <3>6
    <3>11. StreamKept'
      <4>1. stream' = have' \o sent' \o buf' \o readBuf'
        BY <1>1, <1>2 DEF StreamKept
      <4>. HIDE DEF q
      <4>2. reply'.records = q
        BY <3>6 DEF q
      <4>. QED
        BY <4>1, <4>2, <3>9, <3>10 DEF StreamKept
    <3>. QED
      BY <3>7, <3>11
  <2>. QED
    BY <2>1, <2>2
<1>6. StreamType'
  BY <1>1, <1>2, <1>5 DEF StreamType, SplitterType
<1>. QED
  BY <1>2, <1>3, <1>4, <1>5, <1>6 DEF IInv, TypeOK

-----------------------------------------------------------------------------
(* All steps. *)

\* The invariant is inductive.
LEMMA InvNext == IInv /\ [Next]_vars => IInv'
<1>1. ASSUME IInv, Next PROVE IInv'
  <2>1. CASE ReadHello \/ Verify \/ Greet \/ HandshakeFails \/ TimedOut
    BY <1>1, <2>1, InvHandshake
  <2>2. ASSUME NEW b \in Pending, ReadFrame(b) \/ RelayUp(b) PROVE IInv'
    BY <1>1, <2>2, InvFrame, InvRelay
  <2>3. CASE RelayEnds
    BY <1>1, <2>3, InvRelayEnds
  <2>4. CASE (\E n \in 1..MaxInput : StartReply(n)) \/ WriteRecord
    BY <1>1, <2>4, InvReply
  <2>5. CASE ReplyEnds
    BY <1>1, <2>5, ReturnKeeps DEF ReplyEnds
  <2>6. CASE DialSite \/ WriteInitial \/ FirstDone \/ SecondDone
    BY <1>1, <2>6, InvSite
  <2>7. ASSUME NEW d \in Side, FarSends(d) \/ FarCloses(d) \/ Copies(d) PROVE IInv'
    BY <1>1, <2>7, InvCopies
  <2>. QED
    BY <1>1, <2>1, <2>2, <2>3, <2>4, <2>5, <2>6, <2>7 DEF Next
<1>2. ASSUME IInv, UNCHANGED vars PROVE IInv'
  BY <1>2, StreamAlone
     DEF IInv, TypeOK, MaskType, Masking, Passing, vars, maskVars
<1>. QED
  BY <1>1, <1>2

\* The invariant holds.
LEMMA Invariance == Spec => []IInv
  BY InvInit, InvNext, PTL DEF Spec

\* The variables have their types: what is read, kept and passed on are bytes, and
\* positions of messages lie within the stream.
THEOREM ClientTypes == Spec => []TypeOK
<1>1. IInv => TypeOK
  BY DEF IInv
<1>. QED
  BY <1>1, Invariance, PTL

\* A client that does not prove it knows a secret is shown the masking site and nothing
\* else, and the site gets its stream from the first piece, wherever the two copies and
\* the closes stand.
THEOREM Disguised == Spec => []Disguise
<1>1. IInv => Disguise
  <2>. SUFFICES ASSUME IInv, hello # "good" PROVE \A d \in Side : got[d] = Upto(Len(got[d]))
    BY DEF Disguise
  <2>1. \A d \in Side : Passing(d)
    BY DEF IInv, Masking
  <2>2. \A d \in Side : got[Other(d)] = Upto(Len(got[Other(d)]))
    BY <2>1 DEF Passing
  <2>. QED
    BY <2>2, OtherSide DEF Side
<1>. QED
  BY <1>1, Invariance, PTL

\* The payload of the records reaches the frame, the upstream and the buffers whole and
\* in order, and a Write reports what its records carry.
THEOREM StreamsWhole == Spec => []StreamKept
<1>1. IInv => StreamKept
  BY DEF IInv
<1>. QED
  BY <1>1, Invariance, PTL

-----------------------------------------------------------------------------
(* The lengths that headers announce. *)

\* What a recursion gives that starts with c and goes on with a factor w and a term of g.
Solves(f, n, c, w, g) ==
  /\ f \in [0..n -> Nat] /\ f[0] = c
  /\ \A i \in 1..n : f[i] = g[i] + w * f[i - 1]

\* A recursion up to n has a solution.
LEMMA FoldExists ==
  ASSUME NEW n \in Nat, NEW c \in Nat, NEW w \in Nat, NEW g \in [1..n -> Nat]
  PROVE  \E f : Solves(f, n, c, w, g)
<1>. DEFINE Is(m, f) == f[0] = c /\ \A i \in 1..m : f[i] = g[i] + w * f[i - 1]
            None == {m \in 0..n : ~\E f \in [0..m -> Nat] : Is(m, f)}
<1>. SUFFICES ASSUME ~\E f \in [0..n -> Nat] : Is(n, f) PROVE FALSE
  BY DEF Solves
<1>0. n \in None
  OBVIOUS
<1>1. PICK m \in None : \A k \in None : m <= k
  <2>1. None \in SUBSET (0..n) /\ 0..n \subseteq Nat
    OBVIOUS
  <2>. HIDE DEF None
  <2>. QED
    BY <1>0, <2>1, Least
<1>2. m \in 0..n /\ ~\E f \in [0..m -> Nat] : Is(m, f)
  OBVIOUS
<1>3. m # 0
  <2>. SUFFICES ASSUME m = 0 PROVE FALSE
    OBVIOUS
  <2>. DEFINE f == [i \in 0..0 |-> c]
  <2>1. f \in [0..0 -> Nat] /\ 0..0 = {0} /\ 1..0 = {}
    OBVIOUS
  <2>2. Is(0, f)
    BY <2>1
  <2>. QED
    BY <1>2, <2>1, <2>2
<1>4. m - 1 \notin None /\ m - 1 \in 0..n /\ m \in 1..n
  <2>1. m - 1 \in 0..n /\ ~(m <= m - 1)
    BY <1>2, <1>3
  <2>. HIDE DEF None
  <2>. QED
    BY <1>1, <1>2, <1>3, <2>1
<1>5. PICK f \in [0..(m - 1) -> Nat] : Is(m - 1, f)
  BY <1>4
<1>. HIDE DEF None
<1>. DEFINE h == [i \in 0..m |-> IF i = m THEN g[m] + w * f[m - 1] ELSE f[i]]
<1>6. h \in [0..m -> Nat]
  <2>1. m - 1 \in 0..(m - 1) /\ \A i \in 0..m : i # m => i \in 0..(m - 1)
    BY <1>2, <1>3
  <2>2. f[m - 1] \in Nat /\ g[m] \in Nat
    BY <1>4, <2>1
  <2>3. w * f[m - 1] \in Nat
    BY <2>2
  <2>. QED
    BY <2>1, <2>2, <2>3
<1>7. Is(m, h)
  <2>1. h[0] = c
    <3>1. 0 \in 0..m /\ f[0] = c
      BY <1>2, <1>5
    <3>. QED
      BY <1>3, <3>1
  <2>2. ASSUME NEW i \in 1..m PROVE h[i] = g[i] + w * h[i - 1]
    <3>1. i \in 0..m /\ i - 1 \in 0..m /\ i - 1 # m
      BY <1>2
    <3>2. h[i - 1] = f[i - 1]
      BY <3>1
    <3>3. CASE i = m
      <4>1. h[i] = g[m] + w * f[m - 1]
        BY <3>1, <3>3
      <4>. HIDE DEF h
      <4>. QED
        BY <3>2, <3>3, <4>1
    <3>4. CASE i # m
      <4>1. i \in 1..(m - 1)
        BY <1>2, <3>4
      <4>2. f[i] = g[i] + w * f[i - 1] /\ h[i] = f[i]
        BY <1>5, <3>1, <3>4, <4>1
      <4>. HIDE DEF h
      <4>. QED
        BY <3>2, <4>2
    <3>. QED
      BY <3>3, <3>4
  <2>. QED
    BY <2>1, <2>2
<1>. HIDE DEF h, Is
<1>. QED
  BY <1>2, <1>6, <1>7

\* A factor more than one number less.
LEMMA TimesLess ==
  ASSUME NEW a \in Nat, NEW b \in Nat, a < b, NEW c \in Nat
  PROVE  c * a \in Nat /\ c * b \in Nat /\ c * a + c <= c * b
<1>1. PICK d \in Nat : b = a + 1 + d
  <2>1. b - a - 1 \in Nat /\ b = a + 1 + (b - a - 1)
    OBVIOUS
  <2>. QED
    BY <2>1
<1>2. c * b = c * a + c + c * d
  BY <1>1
<1>3. c * d \in Nat /\ c * a \in Nat /\ c * b \in Nat
  OBVIOUS
<1>. QED
  BY <1>2, <1>3

\* The powers of 2 * Half.
LEMMA PowerIs ==
  /\ Power \in [0..Hdr -> Nat] /\ Power[0] = 1
  /\ \A n \in 1..Hdr : Power[n] = 2 * Half * Power[n - 1]
<1>. DEFINE Is(f) == f = [n \in 0..Hdr |-> IF n = 0 THEN 1 ELSE 2 * Half * f[n - 1]]
<1>1. Hdr \in Nat /\ Half \in Nat /\ 2 * Half \in Nat
  BY SizesType
<1>2. PICK f \in [0..Hdr -> Nat] : f[0] = 1 /\ \A i \in 1..Hdr : f[i] = 2 * Half * f[i - 1]
  <2>. DEFINE z == [j \in 1..Hdr |-> 0]
              w == 2 * Half
  <2>1. z \in [1..Hdr -> Nat] /\ w \in Nat
    BY <1>1
  <2>2. \A i \in 1..Hdr : z[i] = 0
    OBVIOUS
  <2>. HIDE DEF z, w
  <2>3. PICK f \in [0..Hdr -> Nat] : f[0] = 1 /\ \A i \in 1..Hdr : f[i] = z[i] + w * f[i - 1]
    <3>1. \E f : Solves(f, Hdr, 1, w, z)
      BY <1>1, <2>1, FoldExists
    <3>. QED
      BY <3>1 DEF Solves
  <2>4. ASSUME NEW i \in 1..Hdr PROVE f[i] = w * f[i - 1]
    <3>1. f[i - 1] \in Nat
      BY <1>1
    <3>2. w * f[i - 1] \in Int
      BY <2>1, <3>1
    <3>. QED
      BY <2>2, <2>3, <3>2
  <2>. QED
    BY <2>3, <2>4 DEF w
<1>3. ASSUME NEW i \in 0..Hdr PROVE f[i] = IF i = 0 THEN 1 ELSE 2 * Half * f[i - 1]
  <2>1. i # 0 => i \in 1..Hdr
    BY <1>1
  <2>. QED
    BY <1>2, <2>1
<1>4. Is(f)
  BY <1>3, f = [i \in 0..Hdr |-> f[i]], Zenon
<1>5. Power = CHOOSE h : Is(h)
  BY DEF Power
<1>6. Is(Power)
  <2>. HIDE DEF Is
  <2>. QED
    BY <1>4, <1>5
<1>7. ASSUME NEW h, Is(h) PROVE h = f
  <2>. DEFINE Differ == {i \in 0..Hdr : h[i] # f[i]}
  <2>1. Differ = {}
    <3>. SUFFICES ASSUME Differ # {} PROVE FALSE
      OBVIOUS
    <3>1. PICK i \in Differ : \A k \in Differ : i <= k
      <4>1. Differ \in SUBSET Nat
        OBVIOUS
      <4>. HIDE DEF Differ
      <4>. QED
        BY <4>1, Least
    <3>2. i \in 0..Hdr /\ h[i] # f[i]
      OBVIOUS
    <3>3. h[i] = IF i = 0 THEN 1 ELSE 2 * Half * h[i - 1]
      BY <1>7, <3>2
    <3>4. i # 0 /\ i - 1 \in 0..Hdr /\ ~(i <= i - 1)
      BY <1>1, <1>3, <3>2, <3>3
    <3>5. h[i - 1] = f[i - 1]
      BY <3>1, <3>4
    <3>. QED
      BY <1>3, <3>2, <3>3, <3>4, <3>5
  <2>2. h = [i \in 0..Hdr |-> h[i]]
    BY <1>7
  <2>. QED
    BY <2>1, <2>2
<1>8. Power = f
  BY <1>6, <1>7
<1>. QED
  BY <1>1, <1>3, <1>8

\* A number of so many bytes.
LEMMA LittleEndianIs ==
  ASSUME NEW s \in Seq(Byte), Len(s) <= Hdr
  PROVE  LittleEndian(s) \in Nat /\ LittleEndian(s) < Power[Len(s)]
<1>. DEFINE n == Len(s)
            Is(f) == f = [i \in 0..n |-> IF i = 0 THEN 0 ELSE s[n + 1 - i] + 2 * Half * f[i - 1]]
            last == CHOOSE f : Is(f)
            g == [i \in 1..n |-> s[n + 1 - i]]
            w == 2 * Half
<1>1. LittleEndian(s) = last[n]
  BY DEF LittleEndian
<1>2. n \in Nat /\ Half \in Nat /\ w \in Nat /\ Hdr \in Nat /\ n <= Hdr
  BY LenProperties, SizesType
<1>3. g \in [1..n -> Nat] /\ \A i \in 1..n : g[i] = s[n + 1 - i] /\ g[i] < w
  <2>1. ASSUME NEW i \in 1..n PROVE s[n + 1 - i] \in Byte
    <3>1. n + 1 - i \in 1..Len(s)
      BY <1>2
    <3>. HIDE DEF n
    <3>. QED
      BY <3>1, ElementOfSeq
  <2>. QED
    BY <1>2, <2>1 DEF Byte
<1>. HIDE DEF n, g, w
<1>4. PICK f : Solves(f, n, 0, w, g)
  BY <1>2, <1>3, FoldExists
<1>5. ASSUME NEW i \in 0..n
      PROVE  f[i] = IF i = 0 THEN 0 ELSE s[n + 1 - i] + 2 * Half * f[i - 1]
  <2>1. i # 0 => i \in 1..n
    BY <1>2
  <2>2. f[0] = 0 /\ \A k \in 1..n : f[k] = g[k] + w * f[k - 1]
    BY <1>4 DEF Solves
  <2>. QED
    BY <1>3, <2>1, <2>2 DEF w
<1>6. Is(f)
  <2>1. f = [i \in 0..n |-> f[i]]
    BY <1>4 DEF Solves
  <2>. QED
    BY <1>5, <2>1, Zenon
<1>7. Is(last)
  <2>. HIDE DEF Is
  <2>. QED
    BY <1>6
<1>. HIDE DEF last
<1>8. ASSUME NEW i \in 0..n
      PROVE  last[i] = IF i = 0 THEN 0 ELSE g[i] + w * last[i - 1]
  <2>1. last[i] = IF i = 0 THEN 0 ELSE s[n + 1 - i] + 2 * Half * last[i - 1]
    BY <1>7
  <2>2. i # 0 => i \in 1..n
    BY <1>2
  <2>. HIDE DEF Is
  <2>. QED
    BY <1>3, <2>1, <2>2 DEF w
<1>. HIDE DEF Is
<1>. DEFINE Wrong == {i \in 0..n : ~(last[i] \in Nat /\ last[i] < Power[i])}
<1>9. Wrong = {}
  <2>. SUFFICES ASSUME Wrong # {} PROVE FALSE
    OBVIOUS
  <2>1. PICK i \in Wrong : \A k \in Wrong : i <= k
    <3>1. Wrong \in SUBSET Nat
      OBVIOUS
    <3>. HIDE DEF Wrong
    <3>. QED
      BY <3>1, Least
  <2>2. i \in 0..n /\ ~(last[i] \in Nat /\ last[i] < Power[i])
    OBVIOUS
  <2>3. i # 0
    <3>1. last[0] = 0 /\ Power[0] = 1
      BY <1>2, <1>8, PowerIs
    <3>. QED
      BY <2>2, <3>1
  <2>4. i \in 1..n /\ i - 1 \in 0..n /\ ~(i <= i - 1) /\ i \in 1..Hdr /\ i - 1 \in 0..Hdr
    BY <1>2, <2>2, <2>3
  <2>5. last[i - 1] \in Nat /\ last[i - 1] < Power[i - 1]
    BY <2>1, <2>4
  <2>6. Power[i - 1] \in Nat /\ Power[i] = w * Power[i - 1]
    BY <2>4, PowerIs DEF w
  <2>7. w * last[i - 1] \in Nat /\ w * Power[i - 1] \in Nat
        /\ w * last[i - 1] + w <= w * Power[i - 1]
    BY <1>2, <2>5, <2>6, TimesLess
  <2>8. last[i] = g[i] + w * last[i - 1] /\ g[i] \in Nat /\ g[i] < w
    BY <1>3, <1>8, <2>2, <2>3, <2>4
  <2>. DEFINE x == w * last[i - 1]
              y == w * Power[i - 1]
  <2>9. /\ x \in Nat /\ y \in Nat /\ x + w <= y /\ Power[i] = y
        /\ last[i] = g[i] + x
    BY <2>6, <2>7, <2>8
  <2>. HIDE DEF x, y
  <2>10. last[i] \in Nat /\ last[i] < y
    BY <1>2, <2>8, <2>9
  <2>. QED
    BY <2>2, <2>9, <2>10
<1>10. last[n] \in Nat /\ last[n] < Power[n]
  <2>1. n \in 0..n
    BY <1>2
  <2>. QED
    BY <1>9, <2>1
<1>. QED
  BY <1>1, <1>10 DEF n

\* An int holds what a header announces.
LEMMA AnnouncedFits ==
  /\ SignBit \in Nat \ {0} /\ SignBit <= MaxInt + 1
  /\ \A v \in Nat : v < Power[Hdr - 1] => v * Unit \in 0..MaxInt
  /\ \A v \in Nat : v < Half => v * Unit \in 0..MaxInt
  /\ Hdr \in Nat /\ 2 <= Hdr /\ Hdr <= MaxInt /\ MaxInt \in Nat /\ Unit \in Nat \ {0}
<1>1. /\ Half \in Nat /\ 2 <= Half /\ Hdr \in Nat /\ 2 <= Hdr /\ Unit \in Nat \ {0}
      /\ MaxInt \in Nat
  BY SizesType
<1>2. Hdr - 1 \in 1..Hdr /\ Hdr - 2 \in 0..Hdr /\ (Hdr - 1) - 1 = Hdr - 2
  BY <1>1
<1>. DEFINE p == Power[Hdr - 1]
<1>3. \A n \in 0..Hdr : Power[n] \in Nat \ {0}
  <2>. DEFINE Zero == {n \in 0..Hdr : Power[n] = 0}
  <2>1. Zero = {}
    <3>. SUFFICES ASSUME Zero # {} PROVE FALSE
      OBVIOUS
    <3>1. PICK n \in Zero : \A k \in Zero : n <= k
      <4>1. Zero \in SUBSET Nat
        OBVIOUS
      <4>. HIDE DEF Zero
      <4>. QED
        BY <4>1, Least
    <3>2. n \in 0..Hdr /\ Power[n] = 0
      OBVIOUS
    <3>3. n \in 1..Hdr /\ n - 1 \in 0..Hdr /\ ~(n <= n - 1)
      BY <1>1, <3>2, PowerIs
    <3>4. Power[n - 1] \in Nat /\ Power[n - 1] # 0
      BY <3>1, <3>3, PowerIs
    <3>5. Power[n] = 2 * Half * Power[n - 1]
      BY <3>3, PowerIs
    <3>6. 0 < Power[n - 1]
      BY <3>4
    <3>7. 2 * Half * 0 + 2 * Half <= 2 * Half * Power[n - 1] /\ 2 * Half * 0 = 0
      <4>. DEFINE w == 2 * Half
      <4>1. w \in Nat /\ w * 0 = 0
        BY <1>1
      <4>. HIDE DEF w
      <4>2. w * 0 + w <= w * Power[n - 1]
        BY <3>4, <3>6, <4>1, TimesLess
      <4>. QED
        BY <4>1, <4>2 DEF w
    <3>. QED
      BY <1>1, <3>2, <3>4, <3>5, <3>7
  <2>. QED
    BY <2>1, PowerIs
<1>4. p \in Nat \ {0} /\ Half <= p
  <2>1. Power[Hdr - 1] = 2 * Half * Power[Hdr - 2]
    BY <1>2, PowerIs
  <2>2. Power[Hdr - 2] \in Nat /\ 0 < Power[Hdr - 2] /\ p \in Nat \ {0}
    BY <1>2, <1>3
  <2>. DEFINE w == 2 * Half
              q == Power[Hdr - 2]
  <2>3. w \in Nat /\ w * 0 = 0 /\ Half <= w
    BY <1>1
  <2>. HIDE DEF w, p, q
  <2>4. w * 0 + w <= w * q
    BY <2>2, <2>3, TimesLess DEF q
  <2>5. p = w * q
    BY <2>1 DEF p, q, w
  <2>. QED
    BY <1>1, <2>2, <2>3, <2>4, <2>5
<1>5. SignBit = Half * p
  BY DEF SignBit
<1>6. SignBit <= MaxInt + 1 /\ Unit * p <= MaxInt + 1 /\ Hdr <= MaxInt
  BY IntType
<1>. HIDE DEF p
<1>7. SignBit \in Nat \ {0}
  <2>1. Half * 0 + Half <= Half * p /\ Half * p \in Nat /\ Half * 0 = 0
    BY <1>1, <1>4, TimesLess
  <2>. QED
    BY <1>1, <1>5, <2>1
<1>8. ASSUME NEW v \in Nat, v < p PROVE v * Unit \in 0..MaxInt
  <2>1. Unit * v \in Nat /\ Unit * p \in Nat /\ Unit * v + Unit <= Unit * p
    BY <1>1, <1>4, <1>8, TimesLess
  <2>2. v * Unit = Unit * v
    BY <1>1
  <2>. QED
    BY <1>1, <1>6, <2>1, <2>2
<1>. QED
  BY <1>1, <1>4, <1>6, <1>7, <1>8 DEF p

-----------------------------------------------------------------------------
(* Headers. *)

\* Equal bytes at two places.
LEMMA SameBytes ==
  ASSUME NEW u \in Seq(Byte), NEW v \in Seq(Byte), NEW d \in Nat, Len(u) + d <= Len(v),
         \A i \in 1..Len(u) : u[i] = v[i + d],
         NEW a \in Nat \ {0}, NEW b \in Nat, b <= Len(u)
  PROVE  /\ SubSeq(u, a, b) = SubSeq(v, a + d, b + d)
         /\ SubSeq(u, a, b) \in Seq(Byte)
         /\ Len(SubSeq(u, a, b)) = IF a <= b THEN b - a + 1 ELSE 0
<1>1. Len(u) \in Nat /\ Len(v) \in Nat
  BY LenProperties
<1>2. /\ SubSeq(u, a, b) \in Seq(Byte)
      /\ Len(SubSeq(u, a, b)) = IF a <= b THEN b - a + 1 ELSE 0
      /\ \A i \in 1..(b - a + 1) : SubSeq(u, a, b)[i] = u[a + i - 1]
  <2>1. \A i \in a..b : u[i] \in Byte
    BY <1>1, ElementOfSeq
  <2>. QED
    BY <2>1, SubSeqProperties
<1>3. /\ SubSeq(v, a + d, b + d) \in Seq(Byte)
      /\ Len(SubSeq(v, a + d, b + d)) = IF a <= b THEN b - a + 1 ELSE 0
      /\ \A i \in 1..(b - a + 1) : SubSeq(v, a + d, b + d)[i] = v[a + d + i - 1]
  <2>. DEFINE x == a + d
              y == b + d
  <2>1. x \in Int /\ y \in Int /\ y - x = b - a /\ (x <= y <=> a <= b)
    OBVIOUS
  <2>2. \A i \in x..y : v[i] \in Byte
    <3>1. \A i \in x..y : i \in 1..Len(v)
      BY <1>1
    <3>. QED
      BY <3>1, ElementOfSeq
  <2>. HIDE DEF x, y
  <2>3. /\ SubSeq(v, x, y) \in Seq(Byte)
        /\ Len(SubSeq(v, x, y)) = IF x <= y THEN y - x + 1 ELSE 0
        /\ \A i \in 1..(y - x + 1) : SubSeq(v, x, y)[i] = v[x + i - 1]
    BY <2>1, <2>2, SubSeqProperties
  <2>. QED
    BY <2>1, <2>3 DEF x, y
<1>4. ASSUME NEW i \in 1..(b - a + 1) PROVE SubSeq(u, a, b)[i] = SubSeq(v, a + d, b + d)[i]
  <2>1. a + i - 1 \in 1..Len(u) /\ a + i - 1 + d = a + d + i - 1
    BY <1>1
  <2>2. u[a + i - 1] = v[a + i - 1 + d]
    BY <2>1
  <2>. QED
    BY <1>2, <1>3, <2>1, <2>2
<1>. DEFINE x == SubSeq(u, a, b)
            y == SubSeq(v, a + d, b + d)
            n == IF a <= b THEN b - a + 1 ELSE 0
<1>5. /\ x \in Seq(Byte) /\ y \in Seq(Byte) /\ Len(x) = Len(y) /\ Len(x) = n
      /\ \A i \in 1..n : x[i] = y[i]
  BY <1>2, <1>3, <1>4
<1>6. x = y
  <2>. HIDE DEF x, y, n
  <2>. QED
    BY <1>5, SeqEqual
<1>. QED
  BY <1>2, <1>6

\* A header looks the same at two places with the same bytes, and the payload that it
\* announces is the same when the header is complete at both, or at neither.
LEMMA SameHeader ==
  ASSUME NEW u \in Seq(Byte), NEW v \in Seq(Byte), NEW d \in Nat, Len(u) + d <= Len(v),
         \A i \in 1..Len(u) : u[i] = v[i + d],
         NEW k \in Nat, k < Len(u)
  PROVE  /\ HeaderAt(proto, u, k) = HeaderAt(proto, v, k + d)
         /\ k + HeaderAt(proto, u, k) <= Len(u) \/ Len(u) + d = Len(v)
              => PayloadAt(proto, u, k) = PayloadAt(proto, v, k + d)
<1>1. Len(u) \in Nat /\ Len(v) \in Nat /\ Hdr \in Nat /\ 2 <= Hdr
  BY LenProperties, SizesType
<1>2. u[k + 1] = v[k + d + 1]
  <2>1. k + 1 \in 1..Len(u) /\ k + 1 + d = k + d + 1
    BY <1>1
  <2>. QED
    BY <2>1
<1>3. HeaderAt(proto, u, k) = HeaderAt(proto, v, k + d)
  BY <1>2 DEF HeaderAt
<1>. DEFINE h == HeaderAt(proto, u, k)
<1>4. h \in {1, Hdr} /\ h \in Nat
  BY <1>1 DEF HeaderAt
<1>5. CASE k + h > Len(u) /\ Len(u) + d = Len(v)
  <2>1. k + d + h > Len(v)
    BY <1>1, <1>4, <1>5
  <2>2. PayloadAt(proto, u, k) = 0 /\ PayloadAt(proto, v, k + d) = 0
    BY <1>3, <1>5, <2>1 DEF PayloadAt
  <2>. QED
    BY <1>3, <2>2
<1>6. CASE k + h <= Len(u)
  <2>1. ~(k + h > Len(u)) /\ ~(k + d + h > Len(v))
    BY <1>1, <1>4, <1>6
  <2>2. h = Hdr => /\ SubSeq(u, k + 1, k + Hdr) = SubSeq(v, k + d + 1, k + d + Hdr)
                   /\ SubSeq(u, k + 2, k + Hdr) = SubSeq(v, k + d + 2, k + d + Hdr)
    <3>. SUFFICES ASSUME h = Hdr
                  PROVE  /\ SubSeq(u, k + 1, k + Hdr) = SubSeq(v, k + d + 1, k + d + Hdr)
                         /\ SubSeq(u, k + 2, k + Hdr) = SubSeq(v, k + d + 2, k + d + Hdr)
      OBVIOUS
    <3>1. /\ k + 1 \in Nat \ {0} /\ k + 2 \in Nat \ {0} /\ k + Hdr \in Nat /\ k + Hdr <= Len(u)
          /\ k + 1 + d = k + d + 1 /\ k + 2 + d = k + d + 2 /\ k + Hdr + d = k + d + Hdr
      BY <1>1, <1>6
    <3>2. \A a \in Nat \ {0}, b \in Nat : b <= Len(u) =>
             SubSeq(u, a, b) = SubSeq(v, a + d, b + d)
      BY SameBytes
    <3>3. /\ SubSeq(u, k + 1, k + Hdr) = SubSeq(v, k + 1 + d, k + Hdr + d)
          /\ SubSeq(u, k + 2, k + Hdr) = SubSeq(v, k + 2 + d, k + Hdr + d)
      BY <3>1, <3>2
    <3>. QED
      BY <3>1, <3>3
  <2>3. CASE proto # "abridged"
    <3>1. h = Hdr
      BY <2>3 DEF HeaderAt
    <3>. QED
      BY <1>3, <2>1, <2>2, <2>3, <3>1 DEF PayloadAt
  <2>4. CASE proto = "abridged" /\ Extended(u[k + 1])
    <3>1. h = Hdr
      BY <2>4 DEF HeaderAt
    <3>. QED
      BY <1>2, <1>3, <2>1, <2>2, <2>4, <3>1 DEF PayloadAt
  <2>5. CASE proto = "abridged" /\ ~Extended(u[k + 1])
    BY <1>2, <1>3, <2>1, <2>5 DEF PayloadAt
  <2>. QED
    BY <2>3, <2>4, <2>5
<1>. QED
  BY <1>1, <1>3, <1>4, <1>5, <1>6

\* An int holds the header and the payload, one by one.
LEMMA HeaderFits ==
  ASSUME NEW s \in Seq(Byte), NEW k \in Nat, k < Len(s)
  PROVE  /\ HeaderAt(proto, s, k) \in Nat /\ 1 <= HeaderAt(proto, s, k) /\ HeaderAt(proto, s, k) <= MaxInt
         /\ PayloadAt(proto, s, k) \in 0..MaxInt
         /\ k + HeaderAt(proto, s, k) > Len(s) => PayloadAt(proto, s, k) = 0
<1>1. /\ Len(s) \in Nat /\ Hdr \in Nat /\ 2 <= Hdr /\ Hdr <= MaxInt /\ MaxInt \in Nat
      /\ Half \in Nat \ {0}
  BY LenProperties, SizesType, AnnouncedFits
<1>. DEFINE h == HeaderAt(proto, s, k)
<1>2. h \in {1, Hdr} /\ h \in Nat /\ 1 <= h /\ h <= MaxInt
  BY <1>1 DEF HeaderAt
<1>3. CASE k + h > Len(s)
  <2>1. PayloadAt(proto, s, k) = 0
    BY <1>3 DEF PayloadAt
  <2>. QED
    BY <1>1, <1>2, <2>1
<1>4. CASE ~(k + h > Len(s))
  <2>1. h = Hdr =>
          /\ SubSeq(s, k + 1, k + Hdr) \in Seq(Byte) /\ Len(SubSeq(s, k + 1, k + Hdr)) = Hdr
          /\ SubSeq(s, k + 2, k + Hdr) \in Seq(Byte) /\ Len(SubSeq(s, k + 2, k + Hdr)) = Hdr - 1
    <3>. SUFFICES ASSUME h = Hdr
                  PROVE  /\ SubSeq(s, k + 1, k + Hdr) \in Seq(Byte)
                         /\ Len(SubSeq(s, k + 1, k + Hdr)) = Hdr
                         /\ SubSeq(s, k + 2, k + Hdr) \in Seq(Byte)
                         /\ Len(SubSeq(s, k + 2, k + Hdr)) = Hdr - 1
      OBVIOUS
    <3>1. /\ k + 1 \in Nat \ {0} /\ k + 2 \in Nat \ {0} /\ k + Hdr \in Nat /\ k + Hdr <= Len(s)
          /\ k + 1 <= k + Hdr /\ k + 2 <= k + Hdr
          /\ k + Hdr - (k + 1) + 1 = Hdr /\ k + Hdr - (k + 2) + 1 = Hdr - 1
      BY <1>1, <1>4
    <3>2. \A a \in Nat \ {0}, b \in Nat : b <= Len(s) =>
             /\ SubSeq(s, a, b) \in Seq(Byte)
             /\ Len(SubSeq(s, a, b)) = IF a <= b THEN b - a + 1 ELSE 0
      <4>1. Len(s) + 0 <= Len(s) /\ \A i \in 1..Len(s) : s[i] = s[i + 0]
        BY <1>1
      <4>. QED
        BY <4>1, SameBytes
    <3>. DEFINE a == k + 1
                c == k + 2
                b == k + Hdr
    <3>3. /\ a \in Nat \ {0} /\ c \in Nat \ {0} /\ b \in Nat /\ b <= Len(s) /\ a <= b /\ c <= b
          /\ b - a + 1 = Hdr /\ b - c + 1 = Hdr - 1
      BY <1>1, <3>1
    <3>. HIDE DEF a, b, c
    <3>4. /\ SubSeq(s, a, b) \in Seq(Byte) /\ Len(SubSeq(s, a, b)) = Hdr
          /\ SubSeq(s, c, b) \in Seq(Byte) /\ Len(SubSeq(s, c, b)) = Hdr - 1
      BY <3>2, <3>3
    <3>. QED
      BY <3>4 DEF a, b, c
  <2>2. CASE proto # "abridged"
    <3>. DEFINE e == LittleEndian(SubSeq(s, k + 1, k + Hdr))
    <3>1. h = Hdr
      BY <2>2 DEF HeaderAt
    <3>2. e \in Nat
      <4>1. SubSeq(s, k + 1, k + Hdr) \in Seq(Byte) /\ Len(SubSeq(s, k + 1, k + Hdr)) <= Hdr
        BY <1>1, <2>1, <3>1
      <4>. QED
        BY <4>1, LittleEndianIs
    <3>3. PayloadAt(proto, s, k) = e % SignBit
      BY <1>4, <2>2 DEF PayloadAt
    <3>. HIDE DEF e
    <3>4. e % SignBit \in 0..SignBit - 1
      BY <3>2, AnnouncedFits
    <3>. QED
      BY <1>1, <1>2, <1>4, <3>3, <3>4, AnnouncedFits
  <2>3. CASE proto = "abridged" /\ Extended(s[k + 1])
    <3>. DEFINE e == LittleEndian(SubSeq(s, k + 2, k + Hdr))
    <3>1. h = Hdr
      BY <2>3 DEF HeaderAt
    <3>2. e \in Nat /\ e < Power[Hdr - 1]
      <4>1. Hdr - 1 <= Hdr
        BY <1>1
      <4>2. Len(SubSeq(s, k + 2, k + Hdr)) <= Hdr /\ SubSeq(s, k + 2, k + Hdr) \in Seq(Byte)
        BY <2>1, <3>1, <4>1
      <4>3. e \in Nat /\ e < Power[Len(SubSeq(s, k + 2, k + Hdr))]
        BY <4>2, LittleEndianIs
      <4>. QED
        BY <2>1, <3>1, <4>3
    <3>3. PayloadAt(proto, s, k) = e * Unit
      BY <1>4, <2>3 DEF PayloadAt
    <3>. HIDE DEF e
    <3>. QED
      BY <1>2, <1>4, <3>2, <3>3, AnnouncedFits
  <2>4. CASE proto = "abridged" /\ ~Extended(s[k + 1])
    <3>1. s[k + 1] \in Byte
      BY <1>1, ElementOfSeq
    <3>2. s[k + 1] % Half \in Nat /\ s[k + 1] % Half < Half
      BY <1>1, <3>1 DEF Byte
    <3>3. PayloadAt(proto, s, k) = (s[k + 1] % Half) * Unit
      BY <1>4, <2>4 DEF PayloadAt
    <3>. QED
      BY <1>2, <1>4, <3>2, <3>3, AnnouncedFits
  <2>. QED
    BY <2>2, <2>3, <2>4
<1>. QED
  BY <1>3, <1>4

\* The sum of the two, which wraps around at most once.
LEMMA WholeIs ==
  ASSUME NEW h \in Nat, 1 <= h, h <= MaxInt, NEW n \in 0..MaxInt
  PROVE  /\ n = 0 => Whole(h, n) < 0
         /\ n > 0 /\ h + n <= MaxInt => Whole(h, n) = h + n
         /\ n > 0 /\ h + n > MaxInt => Whole(h, n) < 0
  BY SizesType DEF Whole, Wrap

\* nextLen looks at the header, and adds the two when it is complete.
LEMMA NextLenIs ==
  ASSUME NEW t \in Seq(Byte)
  PROVE  /\ t = <<>> => NextLen(t) = 0
         /\ t # <<>> /\ HeaderAt(proto, t, 0) > Len(t) => NextLen(t) = 0
         /\ t # <<>> /\ ~(HeaderAt(proto, t, 0) > Len(t)) =>
              NextLen(t) = Whole(HeaderAt(proto, t, 0), PayloadAt(proto, t, 0))
<1>1. Len(t) \in Nat /\ (t = <<>> => Len(t) = 0) /\ Hdr \in Nat /\ 2 <= Hdr
      /\ 0 + 1 = 1 /\ 0 + 2 = 2 /\ 0 + Hdr = Hdr
  BY LenProperties, EmptySeq, SizesType
<1>2. t # <<>> => Len(t) >= 1
  BY <1>1, EmptySeq
<1>3. CASE t = <<>>
  BY <1>1, <1>3 DEF NextLen
<1>4. CASE t # <<>> /\ proto # "abridged"
  <2>1. HeaderAt(proto, t, 0) = Hdr
    BY <1>4 DEF HeaderAt
  <2>2. ~(Hdr > Len(t)) => PayloadAt(proto, t, 0) = LittleEndian(SubSeq(t, 1, Hdr)) % SignBit
    BY <1>1, <1>4, <2>1 DEF PayloadAt
  <2>3. NextLen(t) = IF Len(t) < Hdr THEN 0
                     ELSE Whole(Hdr, LittleEndian(SubSeq(t, 1, Hdr)) % SignBit)
    BY <1>4 DEF NextLen
  <2>. QED
    BY <1>1, <1>4, <2>1, <2>2, <2>3
<1>5. CASE t # <<>> /\ proto = "abridged" /\ Extended(t[1])
  <2>1. HeaderAt(proto, t, 0) = Hdr
    BY <1>1, <1>5 DEF HeaderAt
  <2>2. ~(Hdr > Len(t)) => PayloadAt(proto, t, 0) = LittleEndian(SubSeq(t, 2, Hdr)) * Unit
    BY <1>1, <1>5, <2>1 DEF PayloadAt
  <2>3. NextLen(t) = IF Len(t) < Hdr THEN 0
                     ELSE Whole(Hdr, LittleEndian(SubSeq(t, 2, Hdr)) * Unit)
    BY <1>5 DEF NextLen
  <2>. QED
    BY <1>1, <1>5, <2>1, <2>2, <2>3
<1>6. CASE t # <<>> /\ proto = "abridged" /\ ~Extended(t[1])
  <2>1. HeaderAt(proto, t, 0) = 1
    BY <1>1, <1>6 DEF HeaderAt
  <2>2. PayloadAt(proto, t, 0) = (t[1] % Half) * Unit
    BY <1>1, <1>2, <1>6, <2>1 DEF PayloadAt
  <2>3. NextLen(t) = Whole(1, (t[1] % Half) * Unit)
    BY <1>6 DEF NextLen
  <2>. QED
    BY <1>1, <1>2, <1>6, <2>1, <2>2, <2>3
<1>. QED
  BY <1>3, <1>4, <1>5, <1>6

\* Whether a message begins at k and ends at p.
Message(s, k, p) ==
  /\ PayloadAt(proto, s, k) > 0
  /\ p - k = HeaderAt(proto, s, k) + PayloadAt(proto, s, k) /\ p - k <= MaxInt

\* The bytes from k on.
LEMMA FromIs ==
  ASSUME NEW s \in Seq(Byte), NEW k \in Nat, k <= Len(s)
  PROVE  /\ From(s, k) \in Seq(Byte) /\ Len(From(s, k)) = Len(s) - k
         /\ \A i \in 1..Len(From(s, k)) : From(s, k)[i] = s[i + k]
<1>1. Len(s) \in Nat
  BY LenProperties
<1>2. /\ From(s, k) \in Seq(Byte)
      /\ Len(From(s, k)) = IF k < Len(s) THEN Len(s) - k ELSE 0
      /\ \A i \in 1..(Len(s) - k) : From(s, k)[i] = s[k + i]
  BY Parts
<1>3. Len(From(s, k)) = Len(s) - k
  BY <1>1, <1>2
<1>4. \A i \in 1..(Len(s) - k) : k + i = i + k
  BY <1>1
<1>. QED
  BY <1>2, <1>3, <1>4

\* nextLen at k finds the message that begins there, if it fits an int, and the end of
\* the message may be looked for before the message has come.
LEMMA NextLenAt ==
  ASSUME NEW s \in Seq(Byte), NEW k \in Nat, k < Len(s)
  PROVE  LET h == HeaderAt(proto, s, k)
             n == NextLen(From(s, k)) IN
         /\ k + h > Len(s) => n = 0
         /\ k + h <= Len(s) => n = Whole(h, PayloadAt(proto, s, k))
<1>. DEFINE t == From(s, k)
<1>1. /\ t \in Seq(Byte) /\ Len(t) = Len(s) - k /\ \A i \in 1..Len(t) : t[i] = s[i + k]
      /\ Len(s) \in Nat
  BY FromIs, LenProperties
<1>. HIDE DEF t
<1>2. t # <<>> /\ Len(t) + k = Len(s) /\ 0 < Len(t) /\ Len(t) \in Nat
  BY <1>1, EmptySeq
<1>3. HeaderAt(proto, t, 0) = HeaderAt(proto, s, k) /\ PayloadAt(proto, t, 0) = PayloadAt(proto, s, k)
  <2>1. \A j \in Nat : j < Len(t) =>
           HeaderAt(proto, t, j) = HeaderAt(proto, s, j + k) /\ PayloadAt(proto, t, j) = PayloadAt(proto, s, j + k)
    <3>1. /\ t \in Seq(Byte) /\ Len(t) + k <= Len(s) /\ Len(t) + k = Len(s)
          /\ \A i \in 1..Len(t) : t[i] = s[i + k]
      BY <1>1, <1>2
    <3>. TAKE j \in Nat
    <3>. HAVE j < Len(t)
    <3>2. /\ HeaderAt(proto, t, j) = HeaderAt(proto, s, j + k)
          /\ j + HeaderAt(proto, t, j) <= Len(t) \/ Len(t) + k = Len(s)
               => PayloadAt(proto, t, j) = PayloadAt(proto, s, j + k)
      BY <3>1, SameHeader
    <3>. QED
      BY <3>1, <3>2
  <2>2. 0 \in Nat /\ 0 + k = k
    OBVIOUS
  <2>. QED
    BY <1>2, <2>1, <2>2
<1>4. HeaderAt(proto, s, k) \in Nat
  BY HeaderFits
<1>5. HeaderAt(proto, t, 0) > Len(t) <=> k + HeaderAt(proto, s, k) > Len(s)
  BY <1>1, <1>2, <1>3, <1>4
<1>6. /\ HeaderAt(proto, t, 0) > Len(t) => NextLen(t) = 0
      /\ ~(HeaderAt(proto, t, 0) > Len(t)) => NextLen(t) = Whole(HeaderAt(proto, t, 0), PayloadAt(proto, t, 0))
  BY <1>1, <1>2, NextLenIs
<1>7. k + HeaderAt(proto, s, k) <= Len(s) => ~(k + HeaderAt(proto, s, k) > Len(s))
  BY <1>1, <1>4
<1>. QED
  BY <1>3, <1>5, <1>6, <1>7 DEF t

LEMMA MessageFound ==
  ASSUME NEW s \in Seq(Byte), NEW k \in Nat, NEW p \in Nat, k < p, p <= Len(s)
  PROVE  NextLen(From(s, k)) = p - k <=> Message(s, k, p)
<1>. DEFINE h == HeaderAt(proto, s, k)
            n == PayloadAt(proto, s, k)
<1>1. Len(s) \in Nat /\ k < Len(s)
  BY LenProperties
<1>2. h \in Nat /\ 1 <= h /\ h <= MaxInt /\ n \in 0..MaxInt /\ (k + h > Len(s) => n = 0)
      /\ MaxInt \in Nat
  BY <1>1, HeaderFits, SizesType
<1>3. /\ k + h > Len(s) => NextLen(From(s, k)) = 0
      /\ k + h <= Len(s) => NextLen(From(s, k)) = Whole(h, n)
  BY <1>1, NextLenAt
<1>4. Message(s, k, p) <=> n > 0 /\ p - k = h + n /\ p - k <= MaxInt
  BY DEF Message
<1>. HIDE DEF h, n
<1>5. CASE k + h > Len(s)
  BY <1>1, <1>2, <1>3, <1>4, <1>5
<1>6. CASE k + h <= Len(s)
  <2>1. /\ n = 0 => Whole(h, n) < 0
        /\ n > 0 /\ h + n <= MaxInt => Whole(h, n) = h + n
        /\ n > 0 /\ h + n > MaxInt => Whole(h, n) < 0
    BY <1>2, WholeIs
  <2>2. CASE n = 0
    BY <1>3, <1>4, <1>6, <2>1, <2>2
  <2>3. CASE n > 0 /\ h + n <= MaxInt
    BY <1>2, <1>3, <1>4, <1>6, <2>1, <2>3
  <2>4. CASE n > 0 /\ h + n > MaxInt
    BY <1>2, <1>3, <1>4, <1>6, <2>1, <2>4
  <2>. QED
    BY <1>2, <2>2, <2>3, <2>4
<1>. QED
  BY <1>1, <1>2, <1>5, <1>6

-----------------------------------------------------------------------------
(* Messages of a stream that goes on. *)

\* A is what is reached from 0, up to n, by steps of R upwards.
Reached(n, R, A) ==
  /\ A \subseteq 0..n /\ 0 \in A
  /\ \A p \in 0..n : p \in A <=> p = 0 \/ \E k \in 0..p - 1 : k \in A /\ <<k, p>> \in R

\* No two steps lead from one number.
OneStep(n, R) ==
  \A k, p, q \in 0..n : k < p /\ k < q /\ <<k, p>> \in R /\ <<k, q>> \in R => p = q

\* A step from before a reached number leads no further than to that number.
LEMMA NoOvertaking ==
  ASSUME NEW n \in Nat, NEW R, NEW A, Reached(n, R, A), OneStep(n, R)
  PROVE  \A p \in A, k \in A, q \in 0..n : k < p /\ k < q /\ <<k, q>> \in R => q <= p
<1>. DEFINE Over(p) == \E k \in A, q \in 0..n : k < p /\ k < q /\ <<k, q>> \in R /\ p < q
            Wrong == {p \in A : Over(p)}
<1>0. A \subseteq 0..n
  BY DEF Reached
<1>1. Wrong = {}
  <2>. SUFFICES ASSUME Wrong # {} PROVE FALSE
    OBVIOUS
  <2>1. PICK p \in Wrong : \A j \in Wrong : p <= j
    <3>1. Wrong \in SUBSET Nat
      <4>1. \A j \in A : j \in Nat
        BY <1>0
      <4>2. Wrong \subseteq A
        OBVIOUS
      <4>. HIDE DEF Wrong
      <4>. QED
        BY <4>1, <4>2
    <3>. HIDE DEF Wrong
    <3>. QED
      BY <3>1, Least
  <2>2. p \in A /\ p \in 0..n /\ Over(p)
    BY <1>0
  <2>3. PICK k \in A, q \in 0..n : k < p /\ k < q /\ <<k, q>> \in R /\ p < q
    BY <2>2
  <2>4. k \in 0..n /\ p # 0
    BY <1>0, <2>3
  <2>5. PICK j \in 0..p - 1 : j \in A /\ <<j, p>> \in R
    BY <2>2, <2>4 DEF Reached
  <2>6. j \in 0..n /\ j < p
    BY <1>0, <2>2, <2>5
  <2>7. CASE j = k
    BY <2>2, <2>3, <2>4, <2>5, <2>7 DEF OneStep
  <2>8. CASE k < j
    <3>1. j < q
      BY <2>2, <2>3, <2>6
    <3>2. j \in Wrong
      BY <2>3, <2>5, <2>8, <3>1
    <3>. HIDE DEF Wrong
    <3>. QED
      BY <2>1, <2>2, <2>6, <3>2
  <2>9. CASE j < k
    <3>1. Over(k)
      BY <2>2, <2>3, <2>5, <2>6, <2>9
    <3>2. k \in Wrong
      BY <3>1
    <3>. HIDE DEF Wrong
    <3>. QED
      BY <2>1, <2>2, <2>3, <2>4, <3>2
  <2>. QED
    BY <2>4, <2>6, <2>7, <2>8, <2>9
<1>2. ASSUME NEW p \in A PROVE ~Over(p)
  BY <1>1
<1>3. ASSUME NEW p \in A, NEW k \in A, NEW q \in 0..n, k < p, k < q, <<k, q>> \in R
      PROVE  q <= p
  <2>1. ~(p < q) /\ p \in 0..n
    BY <1>0, <1>2, <1>3
  <2>. QED
    BY <2>1
<1>. HIDE DEF Wrong, Over
<1>. QED
  BY <1>3

\* A and B are reached up to n and m, and C is reached from the last of A on.
GoneOn(n, m, R, A, B, l, T, C) ==
  /\ n \in Nat /\ m \in Nat /\ n <= m /\ OneStep(m, R) /\ Reached(n, R, A) /\ Reached(m, R, B)
  /\ l \in A /\ \A p \in A : p <= l
  /\ Reached(m - l, T, C)
  /\ \A k, p \in 0..m - l : k < p => (<<k, p>> \in T <=> <<l + k, l + p>> \in R)

\* What is reached up to m is what is reached up to n, and what is reached from the last
\* of these on.
LEMMA ReachedOn ==
  ASSUME NEW n, NEW m, NEW R, NEW A, NEW B, NEW l, NEW T, NEW C, GoneOn(n, m, R, A, B, l, T, C)
  PROVE  B = A \cup {l + e : e \in C}
<1>0. /\ n \in Nat /\ m \in Nat /\ n <= m /\ OneStep(m, R) /\ Reached(n, R, A)
      /\ Reached(m, R, B) /\ l \in A /\ (\A p \in A : p <= l) /\ Reached(m - l, T, C)
      /\ \A k, p \in 0..m - l : k < p => (<<k, p>> \in T <=> <<l + k, l + p>> \in R)
  BY DEF GoneOn
<1>1. /\ A \subseteq 0..n /\ 0 \in A /\ B \subseteq 0..m /\ 0 \in B /\ C \subseteq 0..m - l
      /\ 0 \in C /\ l \in 0..n /\ l \in 0..m
  BY <1>0 DEF Reached
<1>2. \A p \in 0..n : p \in A <=> p \in B
  <2>. DEFINE Differ == {p \in 0..n : ~(p \in A <=> p \in B)}
  <2>1. Differ = {}
    <3>. SUFFICES ASSUME Differ # {} PROVE FALSE
      OBVIOUS
    <3>1. PICK p \in Differ : \A j \in Differ : p <= j
      <4>1. Differ \in SUBSET Nat
        OBVIOUS
      <4>. HIDE DEF Differ
      <4>. QED
        BY <4>1, Least
    <3>2. p \in 0..n /\ p \in 0..m /\ ~(p \in A <=> p \in B) /\ p # 0
      BY <1>0, <1>1
    <3>3. \A k \in 0..p - 1 : k \in A <=> k \in B
      <4>1. \A k \in 0..p - 1 : k \in 0..n /\ ~(p <= k)
        BY <1>0, <3>2
      <4>2. \A k \in 0..p - 1 : k \notin Differ
        <5>. HIDE DEF Differ
        <5>. QED
          BY <3>1, <4>1
      <4>. QED
        BY <4>1, <4>2
    <3>4. p \in A <=> \E k \in 0..p - 1 : k \in A /\ <<k, p>> \in R
      BY <1>0, <3>2 DEF Reached
    <3>5. p \in B <=> \E k \in 0..p - 1 : k \in B /\ <<k, p>> \in R
      BY <1>0, <3>2 DEF Reached
    <3>. QED
      BY <3>2, <3>3, <3>4, <3>5
  <2>. QED
    BY <2>1
<1>3. l \in B
  BY <1>0, <1>1, <1>2
<1>4. \A k \in B, q \in 0..m : k < l /\ k < q /\ <<k, q>> \in R => q <= l
  BY <1>0, <1>3, NoOvertaking
<1>5. ASSUME NEW q \in B, l < q PROVE q - l \in C
  <2>. DEFINE Wrong == {p \in B : l < p /\ p - l \notin C}
  <2>1. Wrong = {}
    <3>. SUFFICES ASSUME Wrong # {} PROVE FALSE
      OBVIOUS
    <3>1. PICK p \in Wrong : \A j \in Wrong : p <= j
      <4>1. Wrong \in SUBSET Nat
        <5>1. \A j \in B : j \in Nat
          BY <1>1
        <5>2. Wrong \subseteq B
          OBVIOUS
        <5>. HIDE DEF Wrong
        <5>. QED
          BY <5>1, <5>2
      <4>. HIDE DEF Wrong
      <4>. QED
        BY <4>1, Least
    <3>2. p \in B /\ p \in 0..m /\ l < p /\ p - l \notin C /\ p # 0
      BY <1>1
    <3>3. PICK k \in 0..p - 1 : k \in B /\ <<k, p>> \in R
      BY <1>0, <3>2 DEF Reached
    <3>4. k \in 0..m /\ k < p
      BY <1>0, <3>2
    <3>5. l <= k
      BY <1>1, <1>4, <3>2, <3>3, <3>4
    <3>6. k - l \in C
      <4>1. CASE k = l
        BY <1>1, <4>1
      <4>2. CASE k # l
        <5>1. l < k /\ ~(p <= k)
          BY <1>1, <3>2, <3>4, <3>5, <4>2
        <5>2. k \notin Wrong
          <6>. HIDE DEF Wrong
          <6>. QED
            BY <3>1, <5>1
        <5>. QED
          BY <3>3, <5>1, <5>2
      <4>. QED
        BY <4>1, <4>2
    <3>7. /\ k - l \in 0..m - l /\ p - l \in 0..m - l /\ k - l < p - l
          /\ l + (k - l) = k /\ l + (p - l) = p /\ k - l \in 0..(p - l) - 1
      BY <1>0, <1>1, <3>2, <3>4, <3>5
    <3>8. <<k - l, p - l>> \in T
      BY <1>0, <3>3, <3>7
    <3>9. p - l \in C
      BY <1>0, <3>6, <3>7, <3>8 DEF Reached
    <3>. QED
      BY <3>2, <3>9
  <2>. QED
    BY <1>5, <2>1
<1>6. ASSUME NEW e \in C PROVE l + e \in B
  <2>. DEFINE Wrong == {j \in C : l + j \notin B}
  <2>1. Wrong = {}
    <3>. SUFFICES ASSUME Wrong # {} PROVE FALSE
      OBVIOUS
    <3>1. PICK p \in Wrong : \A j \in Wrong : p <= j
      <4>1. Wrong \in SUBSET Nat
        <5>1. \A j \in C : j \in Nat
          BY <1>1
        <5>2. Wrong \subseteq C
          OBVIOUS
        <5>. HIDE DEF Wrong
        <5>. QED
          BY <5>1, <5>2
      <4>. HIDE DEF Wrong
      <4>. QED
        BY <4>1, Least
    <3>2. p \in C /\ p \in 0..m - l /\ l + p \notin B /\ p # 0
      BY <1>1, <1>3
    <3>3. PICK k \in 0..p - 1 : k \in C /\ <<k, p>> \in T
      BY <1>0, <3>2 DEF Reached
    <3>4. k \in 0..m - l /\ k < p /\ ~(p <= k)
      BY <1>0, <1>1, <3>2
    <3>5. l + k \in B
      <4>1. k \notin Wrong
        <5>. HIDE DEF Wrong
        <5>. QED
          BY <3>1, <3>4
      <4>. QED
        BY <3>3, <4>1
    <3>6. <<l + k, l + p>> \in R
      BY <1>0, <3>2, <3>3, <3>4
    <3>7. l + p \in 0..m /\ l + k \in 0..(l + p) - 1
      BY <1>0, <1>1, <3>2, <3>4
    <3>8. l + p \in B
      BY <1>0, <3>5, <3>6, <3>7 DEF Reached
    <3>. QED
      BY <3>2, <3>8
  <2>. QED
    BY <2>1
<1>7. ASSUME NEW q \in B PROVE q \in A \cup {l + e : e \in C}
  <2>1. q \in 0..m
    BY <1>1
  <2>2. CASE q <= l
    <3>1. q \in 0..n
      BY <1>0, <1>1, <2>1, <2>2
    <3>. QED
      BY <1>2, <3>1
  <2>3. CASE ~(q <= l)
    <3>1. l < q /\ q = l + (q - l)
      BY <1>1, <2>1, <2>3
    <3>. QED
      BY <1>5, <3>1
  <2>. QED
    BY <2>2, <2>3
<1>. QED
  BY <1>1, <1>2, <1>6, <1>7

\* Where messages begin and end, and where nextLen finds them.
Messages(s) == {x \in Nat \X Nat : Message(s, x[1], x[2])}
Cuts(t) == {x \in Nat \X Nat : NextLen(From(t, x[1])) = x[2] - x[1]}

\* Whole messages are reached message by message.
LEMMA WholeReached ==
  ASSUME NEW s, Len(s) \in Nat
  PROVE  Reached(Len(s), Messages(s), WholeMessages(proto, s) \cup {0})
<1>. DEFINE R == Messages(s)
            n == Len(s)
            IsMessage(k, p) ==
              /\ PayloadAt(proto, s, k) > 0
              /\ p - k = HeaderAt(proto, s, k) + PayloadAt(proto, s, k) /\ p - k <= MaxInt
            Is(f) == f = [p \in 0..n |-> p = 0 \/ \E k \in 0..p - 1 : f[k] /\ IsMessage(k, p)]
            at == CHOOSE f : Is(f)
<1>1. WholeMessages(proto, s) = {p \in 1..n : at[p]}
  BY DEF WholeMessages
<1>2. \A p \in 0..n : \A k \in 0..p - 1 : <<k, p>> \in R <=> IsMessage(k, p)
  BY DEF Messages, Message
<1>. HIDE DEF R, IsMessage
<1>3. \E f : Is(f)
  <2>1. PICK f : f = [p \in 0..n |-> p = 0 \/ \E k \in 0..p - 1 : f[k] /\ <<k, p>> \in R]
    BY ReachedExists
  <2>2. \A p \in 0..n : (p = 0 \/ \E k \in 0..p - 1 : f[k] /\ <<k, p>> \in R) =
                         (p = 0 \/ \E k \in 0..p - 1 : f[k] /\ IsMessage(k, p))
    BY <1>2
  <2>3. Is(f)
    BY <2>1, <2>2, Zenon
  <2>. QED
    BY <2>3
<1>4. Is(at)
  <2>. HIDE DEF Is
  <2>. QED
    BY <1>3
<1>5. \A p \in 0..n : at[p] = (p = 0 \/ \E k \in 0..p - 1 : at[k] /\ IsMessage(k, p))
  <2>. HIDE DEF at
  <2>. QED
    BY <1>4, Zenon
<1>. DEFINE A == WholeMessages(proto, s) \cup {0}
<1>6. \A p \in 0..n : p \in A <=> at[p]
  <2>1. ASSUME NEW p \in 0..n, p # 0 PROVE p \in A <=> at[p]
    <3>1. p \in 1..n
      BY <2>1
    <3>. HIDE DEF at
    <3>. QED
      BY <1>1, <2>1, <3>1
  <2>2. 0 \in 0..n /\ at[0]
    <3>1. 0 \in 0..n
      OBVIOUS
    <3>. HIDE DEF at
    <3>. QED
      BY <1>5, <3>1
  <2>. HIDE DEF at
  <2>. QED
    BY <2>1, <2>2
<1>7. A \subseteq 0..n /\ 0 \in A
  <2>. HIDE DEF at
  <2>. QED
    BY <1>1
<1>. HIDE DEF at, Is, A
<1>8. \A p \in 0..n : p \in A <=> p = 0 \/ \E k \in 0..p - 1 : k \in A /\ <<k, p>> \in R
  <2>. TAKE p \in 0..n
  <2>1. \A k \in 0..p - 1 : k \in 0..n
    OBVIOUS
  <2>2. p \in A <=> p = 0 \/ \E k \in 0..p - 1 : k \in A /\ IsMessage(k, p)
    BY <1>5, <1>6, <2>1, Zenon
  <2>. QED
    BY <1>2, <2>2
<1>. QED
  BY <1>7, <1>8 DEF Reached, A, R

\* The loop of split goes from cut to cut.
LEMMA CutsReached ==
  ASSUME NEW t, Len(t) \in Nat
  PROVE  Reached(Len(t), Cuts(t), Positions(t))
<1>1. /\ Positions(t) \subseteq 0..Len(t) /\ 0 \in Positions(t)
      /\ \A p \in 0..Len(t) : p \in Positions(t) <=>
           p = 0 \/ \E k \in 0..p - 1 : k \in Positions(t) /\ NextLen(From(t, k)) = p - k
  BY PositionsAre
<1>2. \A p \in 0..Len(t) : \A k \in 0..p - 1 :
         <<k, p>> \in Cuts(t) <=> NextLen(From(t, k)) = p - k
  BY DEF Cuts
<1>. QED
  BY <1>1, <1>2 DEF Reached

\* One message begins at one place.
LEMMA MessagesDiffer ==
  ASSUME NEW s \in Seq(Byte)
  PROVE  OneStep(Len(s), Messages(s))
<1>. SUFFICES ASSUME NEW k \in 0..Len(s), NEW p \in 0..Len(s), NEW q \in 0..Len(s), k < p, k < q,
                     <<k, p>> \in Messages(s), <<k, q>> \in Messages(s)
              PROVE  p = q
  BY DEF OneStep
<1>1. p - k = HeaderAt(proto, s, k) + PayloadAt(proto, s, k) /\ q - k = HeaderAt(proto, s, k) + PayloadAt(proto, s, k)
  BY DEF Messages, Message
<1>2. p - k = q - k /\ Len(s) \in Nat
  BY <1>1, LenProperties
<1>. QED
  BY <1>2

\* The bytes at the beginning of a stream that goes on.
LEMMA GoesOn ==
  ASSUME NEW s \in Seq(Byte), NEW c \in Seq(Byte)
  PROVE  /\ s \o c \in Seq(Byte) /\ Len(s \o c) = Len(s) + Len(c)
         /\ Len(s) \in Nat /\ Len(c) \in Nat
         /\ Len(s) + 0 <= Len(s \o c) /\ Len(s) <= Len(s \o c)
         /\ \A i \in 1..Len(s) : s[i] = (s \o c)[i + 0]
<1>1. Len(s) \in Nat /\ Len(c) \in Nat
  BY LenProperties
<1>2. /\ s \o c \in Seq(Byte) /\ Len(s \o c) = Len(s) + Len(c)
      /\ \A i \in 1..(Len(s) + Len(c)) : (s \o c)[i] = IF i <= Len(s) THEN s[i] ELSE c[i - Len(s)]
  BY ConcatProperties
<1>3. \A i \in 1..Len(s) : i \in 1..(Len(s) + Len(c)) /\ i <= Len(s) /\ i + 0 = i
  BY <1>1
<1>. QED
  BY <1>1, <1>2, <1>3

\* A header that is complete stays what it is.
LEMMA HeaderStays ==
  ASSUME NEW s \in Seq(Byte), NEW c \in Seq(Byte), NEW k \in Nat, k < Len(s)
  PROVE  /\ HeaderAt(proto, s \o c, k) = HeaderAt(proto, s, k)
         /\ k + HeaderAt(proto, s, k) <= Len(s) => PayloadAt(proto, s \o c, k) = PayloadAt(proto, s, k)
<1>. DEFINE u == s \o c
<1>1. /\ u \in Seq(Byte) /\ Len(s) + 0 <= Len(u) /\ \A i \in 1..Len(s) : s[i] = u[i + 0]
      /\ k + 0 = k /\ 0 \in Nat
  BY GoesOn
<1>. HIDE DEF u
<1>2. ASSUME NEW d \in Nat, Len(s) + d <= Len(u), \A i \in 1..Len(s) : s[i] = u[i + d]
      PROVE  /\ HeaderAt(proto, s, k) = HeaderAt(proto, u, k + d)
             /\ k + HeaderAt(proto, s, k) <= Len(s) \/ Len(s) + d = Len(u)
                  => PayloadAt(proto, s, k) = PayloadAt(proto, u, k + d)
  BY <1>1, <1>2, SameHeader
<1>3. /\ HeaderAt(proto, s, k) = HeaderAt(proto, u, k + 0)
      /\ k + HeaderAt(proto, s, k) <= Len(s) => PayloadAt(proto, s, k) = PayloadAt(proto, u, k + 0)
  BY <1>1, <1>2
<1>. QED
  BY <1>1, <1>3 DEF u

\* A message that has come stays what it is, and no other is found in what has come.
LEMMA MessageStays ==
  ASSUME NEW s \in Seq(Byte), NEW c \in Seq(Byte), NEW k \in Nat, NEW p \in Nat,
         k < p, p <= Len(s)
  PROVE  Message(s \o c, k, p) <=> Message(s, k, p)
<1>1. Len(s) \in Nat /\ k < Len(s) /\ Len(s) <= Len(s \o c) /\ s \o c \in Seq(Byte)
      /\ Len(s \o c) \in Nat
  BY GoesOn
<1>2. /\ HeaderAt(proto, s \o c, k) = HeaderAt(proto, s, k)
      /\ k + HeaderAt(proto, s, k) <= Len(s) => PayloadAt(proto, s \o c, k) = PayloadAt(proto, s, k)
  BY <1>1, HeaderStays
<1>3. /\ HeaderAt(proto, s, k) \in Nat /\ PayloadAt(proto, s, k) \in 0..MaxInt
      /\ k + HeaderAt(proto, s, k) > Len(s) => PayloadAt(proto, s, k) = 0
  BY <1>1, HeaderFits
<1>4. PayloadAt(proto, s \o c, k) \in 0..MaxInt
  <2>. DEFINE u == s \o c
  <2>1. u \in Seq(Byte) /\ k < Len(u)
    BY <1>1
  <2>. HIDE DEF u
  <2>2. PayloadAt(proto, u, k) \in 0..MaxInt
    BY <2>1, HeaderFits
  <2>. QED
    BY <2>2 DEF u
<1>. DEFINE x == PayloadAt(proto, s, k)
            y == PayloadAt(proto, s \o c, k)
            h == HeaderAt(proto, s, k)
<1>5. /\ h \in Nat /\ x \in Nat /\ y \in Nat /\ (k + h > Len(s) => x = 0)
      /\ (k + h <= Len(s) => y = x)
      /\ (Message(s, k, p) <=> x > 0 /\ p - k = h + x /\ p - k <= MaxInt)
      /\ (Message(s \o c, k, p) <=> y > 0 /\ p - k = h + y /\ p - k <= MaxInt)
  BY <1>2, <1>3, <1>4, SizesType DEF Message
<1>. HIDE DEF x, y, h
<1>6. CASE k + h <= Len(s)
  BY <1>5, <1>6
<1>7. CASE k + h > Len(s)
  BY <1>1, <1>5, <1>7
<1>. QED
  BY <1>1, <1>5, <1>6, <1>7

\* A header that makes no sense never will.
LEMMA BadStays ==
  ASSUME NEW s \in Seq(Byte), NEW c \in Seq(Byte), NEW k \in Nat, k <= Len(s),
         NextLen(From(s, k)) < 0
  PROVE  NextLen(From(s \o c, k)) < 0
<1>1. Len(s) \in Nat /\ Len(s) <= Len(s \o c) /\ s \o c \in Seq(Byte) /\ Len(s \o c) \in Nat
  BY GoesOn
<1>2. k < Len(s)
  <2>1. CASE k = Len(s)
    <3>1. From(s, k) \in Seq(Byte) /\ Len(From(s, k)) = 0
      BY <1>1, <2>1, FromIs
    <3>2. NextLen(From(s, k)) = 0
      BY <3>1, NextLenIs, EmptySeq
    <3>. QED
      BY <3>2
  <2>. QED
    BY <1>1, <2>1
<1>3. /\ k + HeaderAt(proto, s, k) > Len(s) => NextLen(From(s, k)) = 0
      /\ k + HeaderAt(proto, s, k) <= Len(s) =>
           NextLen(From(s, k)) = Whole(HeaderAt(proto, s, k), PayloadAt(proto, s, k))
      /\ HeaderAt(proto, s, k) \in Nat
  BY <1>2, NextLenAt, HeaderFits
<1>4. k + HeaderAt(proto, s, k) <= Len(s) /\ Whole(HeaderAt(proto, s, k), PayloadAt(proto, s, k)) < 0
  BY <1>1, <1>3
<1>5. HeaderAt(proto, s \o c, k) = HeaderAt(proto, s, k) /\ PayloadAt(proto, s \o c, k) = PayloadAt(proto, s, k)
  BY <1>2, <1>4, HeaderStays
<1>6. ASSUME NEW u \in Seq(Byte), k < Len(u)
      PROVE  k + HeaderAt(proto, u, k) <= Len(u) =>
               NextLen(From(u, k)) = Whole(HeaderAt(proto, u, k), PayloadAt(proto, u, k))
  BY <1>6, NextLenAt
<1>7. k + HeaderAt(proto, s \o c, k) <= Len(s \o c) /\ k < Len(s \o c)
  BY <1>1, <1>2, <1>3, <1>4, <1>5
<1>8. NextLen(From(s \o c, k)) = Whole(HeaderAt(proto, s \o c, k), PayloadAt(proto, s \o c, k))
  BY <1>1, <1>6, <1>7
<1>. QED
  BY <1>4, <1>5, <1>8

\* The rest of the rest of a stream.
LEMMA FromFrom ==
  ASSUME NEW u \in Seq(Byte), NEW l \in Nat, l <= Len(u), NEW k \in 0..Len(u) - l
  PROVE  From(From(u, l), k) = From(u, l + k)
<1>. DEFINE t == From(u, l)
<1>0. /\ Len(u) \in Nat /\ t \in Seq(Byte) /\ Len(t) = Len(u) - l
      /\ \A i \in 1..Len(t) : t[i] = u[i + l]
  BY FromIs, LenProperties
<1>1. /\ t \in Seq(Byte) /\ Len(t) + l <= Len(u) /\ \A i \in 1..Len(t) : t[i] = u[i + l]
      /\ k + 1 \in Nat \ {0} /\ Len(t) \in Nat /\ Len(t) <= Len(t)
      /\ k + 1 + l = l + k + 1 /\ Len(t) + l = Len(u)
  BY <1>0
<1>. HIDE DEF t
<1>2. ASSUME NEW a \in Nat \ {0}, NEW b \in Nat, b <= Len(t)
      PROVE  SubSeq(t, a, b) = SubSeq(u, a + l, b + l)
  <2>1. t \in Seq(Byte) /\ Len(t) + l <= Len(u) /\ \A i \in 1..Len(t) : t[i] = u[i + l]
    BY <1>1
  <2>. QED
    BY <1>2, <2>1, SameBytes
<1>3. SubSeq(t, k + 1, Len(t)) = SubSeq(u, k + 1 + l, Len(t) + l)
  BY <1>1, <1>2
<1>4. From(t, k) = From(u, l + k)
  BY <1>1, <1>3 DEF From
<1>. QED
  BY <1>4 DEF t

\* Where messages begin that end later, nextLen of the rest of the stream finds them.
LEMMA CutsAreMessages ==
  ASSUME NEW u \in Seq(Byte), NEW l \in Nat, l <= Len(u),
         NEW k \in 0..Len(u) - l, NEW p \in 0..Len(u) - l, k < p
  PROVE  <<k, p>> \in Cuts(From(u, l)) <=> <<l + k, l + p>> \in Messages(u)
<1>1. /\ Len(u) \in Nat /\ From(u, l) \in Seq(Byte) /\ Len(From(u, l)) = Len(u) - l
      /\ \A i \in 1..Len(From(u, l)) : From(u, l)[i] = u[i + l]
  BY FromIs, LenProperties
<1>2. From(From(u, l), k) = From(u, l + k)
  BY FromFrom
<1>3. l + k \in Nat /\ l + p \in Nat /\ l + k < l + p /\ l + p <= Len(u)
      /\ (l + p) - (l + k) = p - k /\ k \in Nat /\ p \in Nat
  BY <1>1
<1>4. NextLen(From(u, l + k)) = p - k <=> Message(u, l + k, l + p)
  <2>. DEFINE x == l + k
              y == l + p
  <2>1. x \in Nat /\ y \in Nat /\ x < y /\ y <= Len(u) /\ y - x = p - k
    BY <1>3
  <2>. HIDE DEF x, y
  <2>2. NextLen(From(u, x)) = y - x <=> Message(u, x, y)
    BY <2>1, MessageFound
  <2>. QED
    BY <2>1, <2>2 DEF x, y
<1>5. <<k, p>> \in Cuts(From(u, l)) <=> NextLen(From(u, l + k)) = p - k
  BY <1>2, <1>3 DEF Cuts
<1>6. <<l + k, l + p>> \in Messages(u) <=> Message(u, l + k, l + p)
  BY <1>3 DEF Messages
<1>. QED
  BY <1>4, <1>5, <1>6

\* The messages of a longer stream are those of the beginning, and those that the loop
\* cuts from the end of the last of these on.
LEMMA SplitFinds ==
  ASSUME NEW s \in Seq(Byte), NEW c \in Seq(Byte),
         NEW l \in WholeMessages(proto, s) \cup {0}, \A p \in WholeMessages(proto, s) : p <= l
  PROVE  WholeMessages(proto, s \o c) \cup {0} =
           WholeMessages(proto, s) \cup {0} \cup {l + e : e \in Positions(From(s \o c, l))}
<1>. DEFINE u == s \o c
            A == WholeMessages(proto, s) \cup {0}
            t == From(u, l)
<1>1. /\ u \in Seq(Byte) /\ Len(s) \in Nat /\ Len(u) \in Nat /\ Len(s) <= Len(u)
  BY GoesOn, LenProperties
<1>2. Reached(Len(s), Messages(s), A)
  BY <1>1, WholeReached
<1>3. A \subseteq 0..Len(s) /\ l \in A /\ l \in 0..Len(s) /\ l \in Nat /\ l <= Len(u)
  BY <1>1, <1>2 DEF Reached
<1>4. \A p \in A : p <= l
  BY <1>3
<1>5. Reached(Len(s), Messages(u), A)
  <2>1. \A p \in 0..Len(s) : \A k \in 0..p - 1 :
           <<k, p>> \in Messages(u) <=> <<k, p>> \in Messages(s)
    <3>1. ASSUME NEW p \in 0..Len(s), NEW k \in 0..p - 1
          PROVE  <<k, p>> \in Messages(u) <=> <<k, p>> \in Messages(s)
      <4>1. k \in Nat /\ p \in Nat /\ k < p /\ p <= Len(s)
        BY <1>1
      <4>2. Message(u, k, p) <=> Message(s, k, p)
        BY <4>1, MessageStays
      <4>3. \A v : <<k, p>> \in Messages(v) <=> Message(v, k, p)
        BY <4>1 DEF Messages
      <4>. QED
        BY <4>2, <4>3
    <3>. QED
      BY <3>1
  <2>. HIDE DEF u, A
  <2>. QED
    BY <1>2, <2>1 DEF Reached
<1>. HIDE DEF u
<1>6. /\ t \in Seq(Byte) /\ Len(t) = Len(u) - l /\ Len(t) \in Nat
  BY <1>1, <1>3, FromIs
<1>7. Reached(Len(u) - l, Cuts(t), Positions(t))
  <2>1. Reached(Len(t), Cuts(t), Positions(t))
    <3>. HIDE DEF t
    <3>. QED
      BY <1>6, CutsReached
  <2>. QED
    BY <1>6, <2>1
<1>8. \A k, p \in 0..Len(u) - l : k < p =>
         (<<k, p>> \in Cuts(t) <=> <<l + k, l + p>> \in Messages(u))
  BY <1>1, <1>3, CutsAreMessages
<1>9. OneStep(Len(u), Messages(u))
  BY <1>1, MessagesDiffer
<1>10. Reached(Len(u), Messages(u), WholeMessages(proto, u) \cup {0})
  BY <1>1, WholeReached
<1>. DEFINE B == WholeMessages(proto, u) \cup {0}
            R == Messages(u)
            T == Cuts(t)
            C == Positions(t)
            n == Len(s)
            m == Len(u)
<1>. HIDE DEF t, A, B, R, T, C, n, m
<1>11. /\ n \in Nat /\ m \in Nat /\ n <= m /\ OneStep(m, R) /\ Reached(n, R, A)
       /\ Reached(m, R, B) /\ l \in A /\ (\A p \in A : p <= l) /\ Reached(m - l, T, C)
       /\ \A k, p \in 0..m - l : k < p => (<<k, p>> \in T <=> <<l + k, l + p>> \in R)
  BY <1>1, <1>3, <1>4, <1>5, <1>7, <1>8, <1>9, <1>10 DEF B, R, T, C, n, m
<1>12. GoneOn(n, m, R, A, B, l, T, C)
  BY <1>11 DEF GoneOn
<1>13. B = A \cup {l + e : e \in C}
  BY <1>12, ReachedOn
<1>. QED
  BY <1>13 DEF A, B, C, t, u

\* What is behind a sequence.
LEMMA FromAfter ==
  ASSUME NEW a \in Seq(Byte), NEW b \in Seq(Byte)
  PROVE  From(a \o b, Len(a)) = b
<1>. DEFINE u == a \o b
            n == Len(a)
            t == From(u, n)
<1>1. /\ n \in Nat /\ Len(b) \in Nat /\ u \in Seq(Byte) /\ Len(u) = n + Len(b)
      /\ \A i \in 1..(n + Len(b)) : u[i] = IF i <= n THEN a[i] ELSE b[i - n]
  BY LenProperties, ConcatProperties
<1>. HIDE DEF u, n
<1>2. n <= Len(u)
  BY <1>1
<1>3. t \in Seq(Byte) /\ Len(t) = Len(u) - n /\ \A i \in 1..Len(t) : t[i] = u[i + n]
  <2>1. u \in Seq(Byte) /\ n \in Nat /\ n <= Len(u)
    BY <1>1, <1>2
  <2>. QED
    BY <2>1, FromIs
<1>. HIDE DEF t
<1>4. Len(t) = Len(b)
  BY <1>1, <1>3
<1>5. ASSUME NEW i \in 1..Len(b) PROVE t[i] = b[i]
  <2>1. i + n \in 1..(n + Len(b)) /\ ~(i + n <= n) /\ i + n - n = i
    BY <1>1
  <2>2. u[i + n] = b[i]
    BY <1>1, <2>1
  <2>3. t[i] = u[i + n]
    BY <1>3, <1>4
  <2>. QED
    BY <2>2, <2>3
<1>6. t = b
  BY <1>3, <1>4, <1>5, SeqEqual
<1>. QED
  BY <1>6 DEF t, u, n

\* At a header that makes no sense the loop stays.
LEMMA BadEnds ==
  ASSUME NEW t \in Seq(Byte), NextLen(t) < 0
  PROVE  Positions(t) = {0}
<1>1. Len(t) \in Nat
  BY LenProperties
<1>2. From(t, 0) = t
  <2>1. From(<<>> \o t, Len(<<>>)) = t
    BY FromAfter, EmptySeq
  <2>2. <<>> \o t = t /\ Len(<<>>) = 0
    BY ConcatEmptySeq, EmptySeq
  <2>. QED
    BY <2>1, <2>2
<1>3. Reached(Len(t), Cuts(t), Positions(t))
  BY <1>1, CutsReached
<1>4. Positions(t) \subseteq 0..Len(t) /\ 0 \in Positions(t)
  BY <1>3 DEF Reached
<1>. DEFINE More == Positions(t) \ {0}
<1>5. More = {}
  <2>. SUFFICES ASSUME More # {} PROVE FALSE
    OBVIOUS
  <2>1. PICK p \in More : \A j \in More : p <= j
    <3>1. More \in SUBSET Nat
      BY <1>4
    <3>. HIDE DEF More
    <3>. QED
      BY <3>1, Least
  <2>2. p \in Positions(t) /\ p # 0 /\ p \in 0..Len(t)
    BY <1>4
  <2>3. PICK k \in 0..p - 1 : k \in Positions(t) /\ <<k, p>> \in Cuts(t)
    BY <1>3, <2>2 DEF Reached
  <2>4. k = 0
    <3>1. ~(p <= k) /\ k \in Nat
      BY <1>1, <2>2
    <3>2. k \notin More
      <4>. HIDE DEF More
      <4>. QED
        BY <2>1, <3>1
    <3>. QED
      BY <2>3, <3>2
  <2>5. NextLen(From(t, 0)) = p - 0
    BY <2>3, <2>4 DEF Cuts
  <2>. QED
    BY <1>1, <1>2, <2>2, <2>5
<1>. QED
  BY <1>4, <1>5

\* Messages end within the stream.
LEMMA WholeBounds ==
  ASSUME NEW tag, NEW s \in Seq(Byte)
  PROVE  WholeMessages(tag, s) \subseteq 1..Len(s) /\ Len(s) \in Nat
<1>1. \E at : WholeMessages(tag, s) = {p \in 1..Len(s) : at[p]}
  BY DEF WholeMessages
<1>. QED
  BY <1>1, LenProperties

\* Every chunk is cut where messages end, and at no other place.
LEMMA SplitCuts ==
  ASSUME SplitterType, input = sent \o buf, FramesAreMessages, LastCut,
         NEW chunk \in Seq(Byte), Split(chunk)
  PROVE  FramesAreMessages' /\ LastCut'
<1>1. /\ sent \in Seq(Byte) /\ buf \in Seq(Byte) /\ input \in Seq(Byte)
      /\ Len(sent) \in Nat /\ Len(buf) \in Nat /\ Len(chunk) \in Nat /\ Len(input) \in Nat
      /\ Len(input) = Len(sent) + Len(buf) /\ ends \subseteq 1..Len(input)
  BY LenProperties, ConcatProperties DEF SplitterType
<1>. DEFINE u == input \o chunk
<1>2. input' = u /\ proto' = proto /\ proto # "none" /\ ends = WholeMessages(proto, input)
  BY DEF Split, FramesAreMessages, LastCut
<1>3. u \in Seq(Byte) /\ Len(u) = Len(input) + Len(chunk) /\ Len(u) \in Nat
  BY <1>1, GoesOn
<1>4. \A l \in ends \cup {0} : (\A q \in ends : q <= l) =>
         WholeMessages(proto, u) \cup {0} =
           ends \cup {0} \cup {l + e : e \in Positions(From(u, l))}
  <2>1. \A l \in WholeMessages(proto, input) \cup {0} :
           (\A q \in WholeMessages(proto, input) : q <= l) =>
              WholeMessages(proto, u) \cup {0} =
                WholeMessages(proto, input) \cup {0} \cup {l + e : e \in Positions(From(u, l))}
    BY <1>1, SplitFinds
  <2>. QED
    BY <1>2, <2>1
<1>. HIDE DEF u
<1>5. WholeMessages(proto, u) \subseteq 1..Len(u)
  BY <1>3, WholeBounds
<1>6. ASSUME ends' = WholeMessages(proto, u) PROVE FramesAreMessages'
  BY <1>2, <1>6 DEF FramesAreMessages
<1>7. ASSUME NEW p, NextLen(From(u, p)) < 0 PROVE (NextLen(From(input, p)) < 0)'
  BY <1>2, <1>7 DEF NextLen
<1>8. CASE PassOn(chunk)
  <2>1. disabled /\ UNCHANGED <<disabled, ends>>
    BY <1>8 DEF PassOn
  <2>2. PICK p \in ends \cup {0} : (\A q \in ends : q <= p) /\ NextLen(From(input, p)) < 0
    BY <2>1 DEF LastCut
  <2>3. p \in Nat /\ p <= Len(input) /\ p <= Len(u)
    BY <1>1, <1>3
  <2>4. NextLen(From(u, p)) < 0
    BY <1>1, <2>2, <2>3, BadStays DEF u
  <2>5. Positions(From(u, p)) = {0}
    <3>. DEFINE t == From(u, p)
    <3>1. t \in Seq(Byte) /\ NextLen(t) < 0
      BY <1>3, <2>3, <2>4, FromIs
    <3>. HIDE DEF t
    <3>2. Positions(t) = {0}
      BY <3>1, BadEnds
    <3>. QED
      BY <3>2 DEF t
  <2>6. WholeMessages(proto, u) \cup {0} = ends \cup {0} \cup {p + 0}
    BY <1>4, <2>2, <2>5
  <2>7. p + 0 = p /\ 0 \notin ends /\ 0 \notin WholeMessages(proto, u)
    BY <1>1, <1>3, <1>5, <2>3
  <2>8. ends = WholeMessages(proto, u)
    <3>1. WholeMessages(proto, u) \cup {0} = ends \cup {0}
      BY <2>2, <2>6, <2>7
    <3>2. \A x : x \in ends <=> x \in WholeMessages(proto, u)
      BY <2>7, <3>1
    <3>. QED
      BY <3>2
  <2>9. FramesAreMessages'
    BY <1>6, <2>1, <2>8
  <2>10. LastCut'
    BY <1>2, <1>7, <2>1, <2>2, <2>4 DEF LastCut
  <2>. QED
    BY <2>9, <2>10
<1>9. CASE CutMessages(chunk)
  <2>. DEFINE s == buf \o chunk
              cut == Cut(s)
              l == Len(sent)
  <2>1. /\ ~disabled
        /\ sent' = sent \o (IF cut.bad THEN s ELSE SubSeq(s, 1, cut.rest))
        /\ disabled' = cut.bad
        /\ ends' = ends \cup {l + e : e \in cut.ends}
    BY <1>9 DEF CutMessages
  <2>2. s \in Seq(Byte) /\ Len(s) = Len(buf) + Len(chunk)
    BY <1>1, GoesOn
  <2>3. /\ cut.ends = Positions(s) \ {0} /\ cut.rest \in Positions(s) /\ cut.rest \in 0..Len(s)
        /\ \A p \in Positions(s) : p <= cut.rest
        /\ cut.bad = (NextLen(From(s, cut.rest)) < 0)
        /\ Positions(s) \subseteq 0..Len(s) /\ 0 \in Positions(s)
    <3>1. Len(s) \in Nat
      BY <1>1, <2>2
    <3>. HIDE DEF s
    <3>2. Positions(s) \subseteq 0..Len(s) /\ 0 \in Positions(s)
      BY <3>1, PositionsAre
    <3>. QED
      BY <2>2, <3>2, CutIs
  <2>4. From(u, l) = s /\ Len(u) = l + Len(s)
    <3>1. u = sent \o s
      <4>1. (sent \o buf) \o chunk = sent \o (buf \o chunk)
        BY <1>1, Joined
      <4>. QED
        BY <4>1 DEF u
    <3>2. From(sent \o s, Len(sent)) = s
      <4>. HIDE DEF s
      <4>. QED
        BY <1>1, <2>2, FromAfter
    <3>3. Len(u) = l + Len(s)
      BY <1>1, <1>3, <2>2
    <3>. QED
      BY <3>1, <3>2, <3>3
  <2>. HIDE DEF s, cut
  <2>5. l \in ends \cup {0} /\ \A q \in ends : q <= l
    BY <2>1 DEF LastCut
  <2>6. WholeMessages(proto, u) \cup {0} = ends \cup {0} \cup {l + e : e \in Positions(s)}
    BY <1>4, <2>4, <2>5
  <2>7. {l + e : e \in Positions(s)} = {l} \cup {l + e : e \in cut.ends}
    <3>1. l + 0 = l
      BY <1>1
    <3>. QED
      BY <2>3, <3>1
  <2>8. 0 \notin WholeMessages(proto, u) /\ 0 \notin ends /\ 0 \notin {l + e : e \in cut.ends}
    <3>1. \A e \in cut.ends : l + e # 0
      BY <1>1, <2>2, <2>3
    <3>. QED
      BY <1>1, <1>3, <1>5, <3>1
  <2>9. ends' = WholeMessages(proto, u)
    BY <2>1, <2>5, <2>6, <2>7, <2>8
  <2>10. l + cut.rest \in ends' \cup {0} /\ \A q \in ends' : q <= l + cut.rest
    <3>1. l + cut.rest \in {l + e : e \in Positions(s)}
      BY <2>3
    <3>2. \A q \in ends : q <= l + cut.rest
      BY <1>1, <2>2, <2>3, <2>5
    <3>3. \A e \in cut.ends : l + e <= l + cut.rest
      BY <1>1, <2>2, <2>3
    <3>. QED
      BY <2>1, <2>6, <2>9, <3>1, <3>2, <3>3
  <2>11. ASSUME ~cut.bad PROVE LastCut'
    <3>1. Len(sent') = l + cut.rest
      <4>1. SubSeq(s, 1, cut.rest) \in Seq(Byte) /\ Len(SubSeq(s, 1, cut.rest)) = cut.rest
        BY <2>2, <2>3, CutAt
      <4>2. sent' = sent \o SubSeq(s, 1, cut.rest)
        BY <2>1, <2>11
      <4>. QED
        BY <1>1, <4>1, <4>2, GoesOn
    <3>2. ~disabled'
      BY <2>1, <2>11
    <3>. QED
      BY <1>2, <2>10, <3>1, <3>2 DEF LastCut
  <2>12. ASSUME cut.bad PROVE LastCut'
    <3>1. From(u, l + cut.rest) = From(s, cut.rest)
      <4>1. l \in Nat /\ l <= Len(u) /\ cut.rest \in 0..Len(u) - l
        BY <1>1, <2>2, <2>3, <2>4
      <4>2. From(From(u, l), cut.rest) = From(u, l + cut.rest)
        BY <1>3, <4>1, FromFrom
      <4>. QED
        BY <2>4, <4>2
    <3>2. NextLen(From(u, l + cut.rest)) < 0
      BY <2>3, <2>12, <3>1
    <3>3. PICK p : p = l + cut.rest
      OBVIOUS
    <3>4. (NextLen(From(input, p)) < 0)'
      BY <1>7, <3>2, <3>3
    <3>5. p \in ends' \cup {0} /\ (\A q \in ends' : q <= p) /\ disabled'
      BY <2>1, <2>10, <2>12, <3>3
    <3>. QED
      BY <1>2, <3>4, <3>5 DEF LastCut
  <2>13. FramesAreMessages'
    BY <1>6, <2>9
  <2>. QED
    BY <2>11, <2>12, <2>13
<1>. QED
  BY <1>8, <1>9 DEF Split

-----------------------------------------------------------------------------

\* What touches neither the splitter nor the relay keeps the cuts.
LEMMA CutsAlone ==
  ASSUME Cutting, UNCHANGED <<proto, input, ends>>,
         pc' = "relay" => pc = "relay" /\ UNCHANGED <<disabled, sent>>
  PROVE  Cutting'
<1>1. FramesAreMessages'
  BY DEF Cutting, FramesAreMessages
<1>2. ASSUME pc' = "relay" PROVE LastCut'
  <2>1. LastCut /\ UNCHANGED <<proto, input, ends, disabled, sent>>
    BY <1>2 DEF Cutting
  <2>2. ASSUME NEW p, NextLen(From(input, p)) < 0 PROVE (NextLen(From(input, p)) < 0)'
    BY <2>1, <2>2 DEF NextLen
  <2>3. ASSUME disabled
        PROVE  \E p \in ends' \cup {0} :
                 (\A q \in ends' : q <= p) /\ (NextLen(From(input, p)) < 0)'
    <3>1. PICK p \in ends \cup {0} : (\A q \in ends : q <= p) /\ NextLen(From(input, p)) < 0
      BY <2>1, <2>3 DEF LastCut
    <3>2. (NextLen(From(input, p)) < 0)'
      BY <2>2, <3>1
    <3>. QED
      BY <2>1, <3>1, <3>2
  <2>. QED
    BY <2>1, <2>3 DEF LastCut
<1>. QED
  BY <1>1, <1>2 DEF Cutting

LEMMA CuttingInit == Init => Cutting
  BY DEF Init, NoSplitter, Cutting, FramesAreMessages

LEMMA CuttingNext == IInv /\ Cutting /\ [Next]_vars => Cutting'
<1>. SUFFICES ASSUME IInv, Cutting, [Next]_vars PROVE Cutting'
  OBVIOUS
<1>1. ASSUME NEW b \in Pending, RelayUp(b) PROVE Cutting'
  <2>. DEFINE chunk == First(b, RelayBuf)
  <2>1. /\ pc = "relay" /\ pc' = "relay" /\ Split(chunk)
    BY <1>1 DEF RelayUp
  <2>2. StreamType /\ SplitterType /\ input = sent \o buf /\ FramesAreMessages /\ LastCut
    BY <2>1 DEF IInv, TypeOK, StreamType, FrameFirst, Cutting
  <2>3. chunk \in Seq(Byte)
    <3>1. b \in Seq(Byte) /\ RelayBuf \in Nat
      BY <2>2, PendingBytes, LimitsType
    <3>. QED
      BY <3>1, Parts
  <2>. HIDE DEF chunk
  <2>. QED
    BY <2>1, <2>2, <2>3, SplitCuts DEF Cutting
<1>2. ASSUME NEW b \in Pending, ReadFrame(b) PROVE Cutting'
  <2>1. NoSplitter
    BY <1>2 DEF ReadFrame, IInv, FrameFirst, Accepting
  <2>2. CASE UNCHANGED splitVars
    <3>1. proto' = "none"
      BY <2>1, <2>2 DEF splitVars, NoSplitter
    <3>2. pc' # "relay"
      BY <1>2, <2>1, <3>1 DEF ReadFrame, Return, NewSplitter, Tag
    <3>. QED
      BY <3>1, <3>2 DEF Cutting, FramesAreMessages
  <2>3. CASE \E tag \in Proto : NewSplitter(tag)
    <3>1. /\ disabled' = FALSE /\ sent' = <<>> /\ input' = <<>> /\ ends' = {} /\ proto' # "none"
      BY <2>1, <2>3 DEF NewSplitter, NoSplitter, Proto
    <3>2. \A tag : WholeMessages(tag, <<>>) = {}
      <4>1. <<>> \in Seq(Byte) /\ Len(<<>>) = 0 /\ 1..0 = {}
        BY EmptySeq
      <4>. QED
        BY <4>1, WholeBounds
    <3>3. FramesAreMessages'
      BY <3>1, <3>2 DEF FramesAreMessages
    <3>4. LastCut'
      BY <3>1, EmptySeq DEF LastCut
    <3>. QED
      BY <3>3, <3>4 DEF Cutting
  <2>4. (\E tag \in Proto : NewSplitter(tag)) \/ UNCHANGED splitVars
    <3>. DEFINE all == have \o First(b, FrameLen - Len(have))
    <3>1. UNCHANGED splitVars \/ NewSplitter(Tag(all))
      BY <1>2 DEF ReadFrame
    <3>2. proto' \in Proto \cup {"none"}
      BY <1>2, InvFrame DEF IInv, TypeOK, StreamType, SplitterType
    <3>3. Tag(all) \in Proto \cup {"invalid"}
      BY DEF Tag, Proto
    <3>. QED
      BY <3>1, <3>2, <3>3 DEF NewSplitter, Proto
  <2>. QED
    BY <2>2, <2>3, <2>4
<1>3. CASE RelayEnds
  <2>1. UNCHANGED <<proto, input, ends>> /\ pc' = "over"
    BY <1>3 DEF RelayEnds, Return, Flush
  <2>. QED
    BY <2>1, CutsAlone
<1>4. CASE UNCHANGED splitVars /\ (pc' = "relay" => pc = "relay")
  <2>1. UNCHANGED <<proto, input, ends, disabled, sent>>
    BY <1>4 DEF splitVars
  <2>. QED
    BY <1>4, <2>1, CutsAlone
<1>5. \/ \E b \in Pending : ReadFrame(b) \/ RelayUp(b)
      \/ RelayEnds
      \/ UNCHANGED splitVars /\ (pc' = "relay" => pc = "relay")
  <2>1. CASE ReadHello \/ Verify \/ Greet \/ HandshakeFails \/ TimedOut
    BY <2>1 DEF ReadHello, Verify, Greet, HandshakeFails, TimedOut, Return, Mask, streamVars
  <2>2. CASE DialSite \/ WriteInitial \/ FirstDone \/ SecondDone
    BY <2>2 DEF DialSite, WriteInitial, FirstDone, SecondDone, Return, streamVars, maskRest
  <2>3. CASE (\E n \in 1..MaxInput : StartReply(n)) \/ WriteRecord \/ ReplyEnds
    BY <2>3 DEF StartReply, WriteRecord, ReplyEnds, Return, streamVars
  <2>4. CASE \E d \in Side : FarSends(d) \/ FarCloses(d) \/ Copies(d)
    BY <2>4 DEF FarSends, FarCloses, Copies, CopyRead, CopyEnds, CopyWrite, streamVars, maskRest
  <2>5. CASE UNCHANGED vars
    BY <2>5 DEF vars, streamVars
  <2>. QED
    BY <2>1, <2>2, <2>3, <2>4, <2>5 DEF Next
<1>. QED
  BY <1>1, <1>2, <1>3, <1>4, <1>5

\* Each frame is a message of the client's stream and each message that is complete is
\* a frame, for every way reads cut the stream, up to a header that makes no sense.
THEOREM CutAtMessages == Spec => []FramesAreMessages
<1>1. IInv /\ Cutting /\ [Next]_vars => (IInv /\ Cutting)'
  BY InvNext, CuttingNext
<1>2. Init => IInv /\ Cutting
  BY InvInit, CuttingInit
<1>3. IInv /\ Cutting => FramesAreMessages
  BY DEF Cutting
<1>. QED
  BY <1>1, <1>2, <1>3, PTL DEF Spec
=============================================================================
