--------------------------- MODULE WebSocketProofs ---------------------------
(***************************************************************************)
(* Proofs about both ends of a WebSocket to the Cloudflare Worker: Tunnel, *)
(* for any number of messages in either direction, and WSConn, for any     *)
(* number of closers, frames and writes and any sizes of payloads.         *)
(***************************************************************************)
EXTENDS Tunnel, WSConn, SequenceTheorems, TLAPS

-----------------------------------------------------------------------------
(* The invariant. *)

Consecutive(s, b) == \A i \in 1..Len(s) : s[i] = b + i

\* Towards the data centre: received, queued and waiting, one after the other, are
\* all that the proxy sent, as long as the writer takes messages; a writer that is
\* closing has taken the last one.
Upward ==
  /\ Consecutive(dcGot, 0)
  /\ writer \in {"open", "closing"} => Consecutive(queue, Len(dcGot))
  /\ writer = "open" => /\ Consecutive(events, Len(dcGot) + Len(queue))
                        /\ Len(dcGot) + Len(queue) + Len(events) = up
  /\ writer = "closing" => proxy = "seen" /\ Len(dcGot) + Len(queue) = up
  /\ writer \in {"closed", "errored"} => queue = <<>>
  /\ proxy = "seen" => events = <<>> /\ writer # "open"
  /\ socket = "closed" => writer \in {"closed", "errored"}
  /\ socket = "open" => writer # "closed"

\* Towards the proxy: what was read was sent, as long as the WebSocket is open.
Downward ==
  /\ Consecutive(proxyGot, 0)
  /\ server = "open" => Len(proxyGot) = read
  /\ Len(proxyGot) <= read /\ read <= down

\* While the data centre keeps its end open, only a proxy that has closed, and whose
\* messages have all arrived, ends the tunnel.
DCHealthy ==
  dc = "open" =>
    IF socket = "open"
      THEN loop = "read" /\ server = "open" /\ writer # "errored"
      ELSE proxy = "seen" /\ Len(dcGot) = up

\* While the proxy keeps its end open and no write fails, the loop reads to the end.
ProxyHealthy ==
  dc = "ended" /\ proxy = "open" /\ writer # "errored" =>
    /\ loop # "over" => socket = "open" /\ server = "open"
    /\ loop # "read" => Len(proxyGot) = down

IInv == TypeOK /\ Upward /\ Downward /\ DCHealthy /\ ProxyHealthy

-----------------------------------------------------------------------------
(* Runs of numbers. *)

\* One more number at the end of a run.
LEMMA ExtendRun ==
  ASSUME NEW N \in Nat, NEW s \in Seq(1..N), NEW b \in Nat, Consecutive(s, b),
         NEW n \in 1..N, n = b + Len(s) + 1
  PROVE  /\ Append(s, n) \in Seq(1..N) /\ Len(Append(s, n)) = Len(s) + 1
         /\ Consecutive(Append(s, n), b)
<1>1. /\ Append(s, n) \in Seq(1..N) /\ Len(Append(s, n)) = Len(s) + 1
      /\ \A i \in 1..Len(s) : Append(s, n)[i] = s[i]
      /\ Append(s, n)[Len(s) + 1] = n
      /\ Len(s) \in Nat
  BY AppendProperties, LenProperties
<1>2. ASSUME NEW i \in 1..(Len(s) + 1) PROVE Append(s, n)[i] = b + i
  <2>1. CASE i \in 1..Len(s)
    BY <2>1, <1>1 DEF Consecutive
  <2>2. CASE i = Len(s) + 1
    BY <2>2, <1>1
  <2>. QED
    BY <2>1, <2>2, <1>1
<1>. QED
  BY <1>1, <1>2 DEF Consecutive

\* The first number of a run, and the others.
LEMMA ShortenRun ==
  ASSUME NEW N \in Nat, NEW s \in Seq(1..N), NEW b \in Nat, Consecutive(s, b), s # <<>>
  PROVE  /\ Head(s) \in 1..N /\ Head(s) = b + 1
         /\ Tail(s) \in Seq(1..N) /\ Len(Tail(s)) = Len(s) - 1 /\ Len(s) \in Nat \ {0}
         /\ Consecutive(Tail(s), b + 1)
<1>1. Len(s) \in Nat \ {0}
  BY EmptySeq
<1>2. /\ Head(s) \in 1..N /\ Head(s) = s[1]
      /\ Tail(s) \in Seq(1..N) /\ Len(Tail(s)) = Len(s) - 1
      /\ \A i \in 1..(Len(s) - 1) : Tail(s)[i] = s[i + 1]
  BY <1>1, HeadTailProperties
<1>3. \A i \in 1..Len(s) : s[i] = b + i
  BY DEF Consecutive
<1>. QED
  BY <1>1, <1>2, <1>3 DEF Consecutive

\* The empty run.
LEMMA EmptyRun ==
  ASSUME NEW N \in Nat
  PROVE  /\ <<>> \in Seq(1..N) /\ Len(<<>>) = 0
         /\ \A b \in Nat : Consecutive(<<>>, b)
BY EmptySeq DEF Consecutive

\* A run from 1 on is what the property calls numbered.
LEMMA RunIsNumbered ==
  ASSUME NEW N \in Nat, NEW s \in Seq(1..N), Consecutive(s, 0)
  PROVE  Numbered(s)
<1>1. s \in [1..Len(s) -> 1..N] /\ Len(s) \in Nat
  BY LenProperties
<1>2. \A i \in 1..Len(s) : s[i] = i
  BY <1>1 DEF Consecutive
<1>. QED
  BY <1>1, <1>2 DEF Numbered

-----------------------------------------------------------------------------
(* The invariant is inductive. *)

\* The lengths of the sequences are numbers.
LEMMA Lengths ==
  ASSUME TypeOK
  PROVE  /\ MaxUp \in Nat /\ MaxDown \in Nat
         /\ up \in Nat /\ down \in Nat /\ read \in Nat
         /\ Len(events) \in Nat /\ Len(queue) \in Nat
         /\ Len(dcGot) \in Nat /\ Len(proxyGot) \in Nat
BY TunnelConstants, LenProperties DEF TypeOK

\* In the beginning nothing was sent.
LEMMA InvInit == Init => IInv
BY TunnelConstants, EmptyRun
   DEF Init, IInv, TypeOK, Upward, Downward, DCHealthy, ProxyHealthy

\* Closing the socket drops what is queued, and nothing else.
LEMMA CloseSocketKeeps ==
  ASSUME TypeOK, Upward, CloseSocket, UNCHANGED <<dcGot, events, up, proxy>>
  PROVE  /\ Upward' /\ queue' \in Seq(1..MaxUp) /\ writer' \in {"closed", "errored"}
         /\ socket' = "closed"
<1>1. queue' = <<>> /\ writer' \in {"closed", "errored"} /\ socket' = "closed"
  BY DEF CloseSocket
<1>. QED
  BY <1>1, TunnelConstants, EmptyRun DEF Upward

\* A message is handled: it goes to the end of the queue of a writer that is open.
LEMMA MessageKeeps ==
  ASSUME IInv, Message
  PROVE  IInv'
<1>. USE DEF IInv
<1>1. /\ events # <<>> /\ events' = Tail(events)
      /\ UNCHANGED <<status, socket, up, proxy, writer, dcGot, dc, down, read, proxyGot, loop>>
      /\ writer = "open" => queue' = Append(queue, Head(events)) /\ server' = server
      /\ writer # "open" => queue' = queue /\ server' = "closed"
  BY DEF Message, Write, inVars
<1>2. proxy # "seen" /\ writer # "closing"
  BY <1>1 DEF Upward
<1>3. events' \in Seq(1..MaxUp) /\ Head(events) \in 1..MaxUp
  <2>1. events \in Seq(1..MaxUp)
    BY DEF TypeOK
  <2>. HIDE DEF IInv
  <2>. QED
    BY <2>1, <1>1, HeadTailProperties
<1>4. CASE writer = "open"
  <2>1. /\ Consecutive(dcGot, 0) /\ Consecutive(queue, Len(dcGot))
        /\ Consecutive(events, Len(dcGot) + Len(queue))
        /\ Len(dcGot) + Len(queue) + Len(events) = up
    BY <1>4 DEF Upward
  <2>. DEFINE b == Len(dcGot) + Len(queue)
  <2>2. b \in Nat
    BY Lengths
  <2>3. /\ Head(events) = b + 1
        /\ Len(events') = Len(events) - 1 /\ Len(events) \in Nat \ {0}
        /\ Consecutive(events', b + 1)
    <3>. HIDE DEF b
    <3>1. Consecutive(events, b) /\ events \in Seq(1..MaxUp) /\ MaxUp \in Nat
      BY <2>1, Lengths DEF b, TypeOK
    <3>. QED
      BY <3>1, <2>2, <1>1, ShortenRun
  <2>4. /\ queue' \in Seq(1..MaxUp) /\ Len(queue') = Len(queue) + 1
        /\ Consecutive(queue', Len(dcGot))
    <3>1. /\ queue' = Append(queue, Head(events)) /\ Head(events) \in 1..MaxUp
          /\ Head(events) = Len(dcGot) + Len(queue) + 1
      BY <2>3, <1>1, <1>3, <1>4
    <3>2. /\ queue \in Seq(1..MaxUp) /\ MaxUp \in Nat /\ Len(dcGot) \in Nat
          /\ Consecutive(queue, Len(dcGot))
      BY <2>1, Lengths DEF TypeOK
    <3>. HIDE DEF IInv, b
    <3>. QED
      BY <3>1, <3>2, ExtendRun
  <2>5. b + 1 = Len(dcGot') + Len(queue') /\ Len(dcGot') + Len(queue') + Len(events') = up
    BY <2>1, <2>3, <2>4, <1>1, Lengths
  <2>6. TypeOK'
    BY <1>1, <1>3, <1>4, <2>4 DEF TypeOK
  <2>7. Upward'
    BY <1>1, <1>2, <1>4, <2>1, <2>3, <2>4, <2>5 DEF Upward
  <2>. QED
    BY <2>6, <2>7, <1>1, <1>4 DEF Downward, DCHealthy, ProxyHealthy
<1>5. CASE writer # "open"
  <2>1. TypeOK'
    BY <1>1, <1>3, <1>5 DEF TypeOK
  <2>2. writer \in {"closed", "errored"}
    BY <1>2, <1>5 DEF TypeOK
  <2>3. Upward'
    BY <1>1, <1>2, <2>2 DEF Upward
  <2>4. dc # "open"
    BY <1>2, <2>2 DEF DCHealthy, Upward, TypeOK
  <2>5. dc = "ended" /\ proxy = "open" /\ writer # "errored" => loop = "over"
    BY <2>2 DEF ProxyHealthy, Upward
  <2>. QED
    BY <2>1, <2>3, <2>4, <2>5, <1>1 DEF Downward, DCHealthy, ProxyHealthy
<1>. QED
  BY <1>4, <1>5

\* The head of the queue reaches the data centre, or the connection has failed.
LEMMA SinkKeeps ==
  ASSUME IInv, Sink
  PROVE  IInv'
<1>. USE DEF IInv
<1>1. /\ queue # <<>> /\ writer \in {"open", "closing"} /\ socket = "open"
      /\ UNCHANGED <<status, socket, up, events, proxy, dc, down, read, proxyGot, loop>>
  BY DEF Sink, wsVars, inVars
<1>2. CASE /\ dcGot' = Append(dcGot, Head(queue)) /\ queue' = Tail(queue)
           /\ UNCHANGED <<writer, server>>
  <2>1. Consecutive(dcGot, 0) /\ Consecutive(queue, Len(dcGot))
    BY <1>1 DEF Upward
  <2>2. /\ Head(queue) \in 1..MaxUp /\ Head(queue) = Len(dcGot) + 1
        /\ queue' \in Seq(1..MaxUp) /\ Len(queue') = Len(queue) - 1
        /\ Consecutive(queue', Len(dcGot) + 1)
    BY <2>1, <1>1, <1>2, Lengths, ShortenRun DEF TypeOK
  <2>3. /\ dcGot' \in Seq(1..MaxUp) /\ Len(dcGot') = Len(dcGot) + 1
        /\ Consecutive(dcGot', 0)
    <3>1. 0 \in Nat /\ Head(queue) = 0 + Len(dcGot) + 1
      BY <2>2, Lengths
    <3>. QED
      BY <3>1, <2>1, <2>2, <1>2, Lengths, ExtendRun DEF TypeOK
  <2>4. Len(dcGot') + Len(queue') = Len(dcGot) + Len(queue)
    BY <2>2, <2>3, Lengths
  <2>5. TypeOK'
    BY <1>1, <1>2, <2>2, <2>3 DEF TypeOK
  <2>6. Upward'
    BY <1>1, <1>2, <2>2, <2>3, <2>4 DEF Upward
  <2>. QED
    BY <2>5, <2>6, <1>1, <1>2 DEF Downward, DCHealthy, ProxyHealthy
<1>3. CASE /\ dc # "open" /\ writer' = "errored" /\ queue' = <<>> /\ server' = "closed"
           /\ UNCHANGED dcGot
  <2>1. TypeOK'
    BY <1>1, <1>3, EmptyRun, TunnelConstants DEF TypeOK
  <2>2. Upward'
    BY <1>1, <1>3 DEF Upward
  <2>. QED
    BY <2>1, <2>2, <1>1, <1>3 DEF Downward, DCHealthy, ProxyHealthy
<1>. QED
  BY <1>2, <1>3 DEF Sink

\* The proxy closes, and the Worker sees it.
LEMMA CloseKeeps ==
  ASSUME IInv, Closing \/ Closed \/ ProxyCloses
  PROVE  IInv'
<1>. USE DEF IInv
<1>1. CASE Closing
  <2>1. /\ events = <<>> /\ Len(events) = 0 /\ Len(dcGot) + Len(queue) \in Nat
    BY <1>1, EmptyRun, Lengths DEF Closing
  <2>2. Upward'
    BY <1>1, <2>1, Lengths DEF Closing, Upward, TypeOK
  <2>. QED
    BY <1>1, <2>2 DEF Closing, TypeOK, Downward, DCHealthy, ProxyHealthy, inVars
<1>2. CASE Closed
  <2>1. /\ CloseSocket /\ proxy = "seen" /\ (queue = <<>> \/ writer = "errored")
        /\ UNCHANGED <<status, server, up, events, proxy, dcGot, dc, down, read, proxyGot, loop>>
    BY <1>2 DEF Closed, wsVars, inVars
  <2>2. /\ Upward' /\ queue' \in Seq(1..MaxUp) /\ writer' \in {"closed", "errored"}
        /\ socket' = "closed"
    BY <2>1, CloseSocketKeeps
  <2>3. TypeOK'
    BY <2>1, <2>2 DEF TypeOK
  <2>4. dc = "open" => Len(dcGot) = up
    <3>1. CASE socket = "closed"
      BY <3>1, <2>1 DEF DCHealthy
    <3>2. ASSUME socket = "open", dc = "open" PROVE Len(dcGot) = up
      <4>1. writer = "closing"
        BY <3>2, <2>1 DEF DCHealthy, Upward, TypeOK
      <4>2. queue = <<>> /\ Len(queue) = 0 /\ Len(dcGot) + Len(queue) = up
        BY <4>1, <2>1, EmptyRun, TunnelConstants DEF Upward
      <4>. QED
        BY <4>2, Lengths
    <3>. QED
      BY <3>1, <3>2 DEF TypeOK
  <2>. QED
    BY <2>1, <2>2, <2>3, <2>4 DEF Downward, DCHealthy, ProxyHealthy
<1>3. CASE ProxyCloses
  BY <1>3 DEF ProxyCloses, TypeOK, Upward, Downward, DCHealthy, ProxyHealthy, outVars, inVars
<1>. QED
  BY <1>1, <1>2, <1>3

\* The reading loop.
LEMMA LoopKeeps ==
  ASSUME IInv, ReadValue \/ ReadDone \/ Finally
  PROVE  IInv'
<1>. USE DEF IInv
<1>1. CASE ReadValue
  <2>1. /\ read' = read + 1 /\ read < down /\ loop = "read" /\ socket = "open"
        /\ UNCHANGED <<status, server, socket, dc, down, up, events, proxy, queue, writer, dcGot>>
    BY <1>1 DEF ReadValue, wsVars, outVars
  <2>2. read' \in 0..MaxDown /\ read' <= down /\ read + 1 \in 1..MaxDown
    BY <2>1, Lengths DEF TypeOK
  <2>3. Upward'
    BY <2>1 DEF Upward
  <2>4. CASE server = "open"
    <3>1. proxyGot' = Append(proxyGot, read + 1) /\ loop' = loop /\ Len(proxyGot) = read
      BY <1>1, <2>4 DEF ReadValue, Downward
    <3>2. /\ proxyGot' \in Seq(1..MaxDown) /\ Len(proxyGot') = Len(proxyGot) + 1
          /\ Consecutive(proxyGot', 0)
      <4>1. 0 \in Nat /\ read + 1 = 0 + Len(proxyGot) + 1 /\ Consecutive(proxyGot, 0)
        BY <3>1, Lengths DEF Downward
      <4>. QED
        BY <4>1, <3>1, <2>2, Lengths, ExtendRun DEF TypeOK
    <3>3. TypeOK'
      BY <2>1, <2>2, <3>1, <3>2 DEF TypeOK
    <3>4. Downward'
      BY <2>1, <2>2, <3>1, <3>2, Lengths DEF Downward
    <3>. QED
      BY <2>1, <2>3, <3>1, <3>3, <3>4 DEF DCHealthy, ProxyHealthy
  <2>5. CASE server # "open"
    <3>1. proxyGot' = proxyGot /\ loop' = "finally"
      BY <1>1, <2>5 DEF ReadValue
    <3>2. TypeOK'
      BY <2>1, <2>2, <3>1 DEF TypeOK
    <3>3. Downward'
      BY <2>1, <2>2, <2>5, <3>1, Lengths DEF Downward
    <3>. QED
      BY <2>1, <2>3, <2>5, <3>1, <3>2, <3>3 DEF DCHealthy, ProxyHealthy
  <2>. QED
    BY <2>4, <2>5
<1>2. CASE ReadDone
  <2>1. /\ loop = "read" /\ loop' = "finally"
        /\ socket = "closed" \/ dc = "reset" \/ (dc = "ended" /\ read = down)
        /\ UNCHANGED <<status, server, socket, dc, down, read, proxyGot,
                       up, events, proxy, queue, writer, dcGot>>
    BY <1>2 DEF ReadDone, wsVars, outVars
  <2>2. TypeOK' /\ Upward' /\ Downward'
    BY <2>1 DEF TypeOK, Upward, Downward
  <2>. QED
    BY <2>1, <2>2 DEF Downward, DCHealthy, ProxyHealthy, TypeOK
<1>3. CASE Finally
  <2>1. /\ loop = "finally" /\ loop' = "over" /\ server' = "closed" /\ CloseSocket
        /\ UNCHANGED <<status, dc, down, read, proxyGot, up, events, proxy, dcGot>>
    BY <1>3 DEF Finally, wsVars
  <2>2. /\ Upward' /\ queue' \in Seq(1..MaxUp) /\ writer' \in {"closed", "errored"}
        /\ socket' = "closed"
    BY <2>1, CloseSocketKeeps
  <2>3. TypeOK'
    BY <2>1, <2>2 DEF TypeOK
  <2>4. writer' # "errored" => writer # "errored"
    BY <2>1 DEF CloseSocket
  <2>. QED
    BY <2>1, <2>2, <2>3, <2>4 DEF Downward, DCHealthy, ProxyHealthy, TypeOK
<1>. QED
  BY <1>1, <1>2, <1>3

\* The proxy sends a message.
LEMMA ProxySendsKeeps ==
  ASSUME IInv, ProxySends
  PROVE  IInv'
<1>. USE DEF IInv
<1>1. /\ proxy = "open" /\ up < MaxUp /\ up' = up + 1 /\ events' = Append(events, up + 1)
      /\ UNCHANGED <<status, server, socket, proxy, queue, writer, dcGot,
                     dc, down, read, proxyGot, loop>>
  BY DEF ProxySends, outVars, inVars
<1>2. up + 1 \in 1..MaxUp
  BY <1>1, Lengths
<1>3. events' \in Seq(1..MaxUp)
  BY <1>1, <1>2, AppendProperties DEF TypeOK
<1>4. TypeOK'
  BY <1>1, <1>2, <1>3 DEF TypeOK
<1>5. CASE writer = "open"
  <2>1. /\ Consecutive(events, Len(dcGot) + Len(queue))
        /\ Len(dcGot) + Len(queue) + Len(events) = up
        /\ Len(dcGot) + Len(queue) \in Nat
    BY <1>5, Lengths DEF Upward
  <2>2. /\ Len(events') = Len(events) + 1 /\ Consecutive(events', Len(dcGot) + Len(queue))
    <3>1. up + 1 = Len(dcGot) + Len(queue) + Len(events) + 1
      BY <2>1
    <3>. DEFINE b == Len(dcGot) + Len(queue)
    <3>2. b \in Nat /\ up + 1 = b + Len(events) + 1 /\ Consecutive(events, b)
      BY <2>1, <3>1
    <3>. HIDE DEF b
    <3>3. Len(events') = Len(events) + 1 /\ Consecutive(events', b)
      BY <3>2, <1>1, <1>2, Lengths, ExtendRun DEF TypeOK
    <3>. QED
      BY <3>3 DEF b
  <2>3. Len(dcGot) + Len(queue) + Len(events') = up'
    BY <2>1, <2>2, <1>1, Lengths
  <2>4. Upward'
    BY <1>1, <1>5, <2>2, <2>3 DEF Upward
  <2>. QED
    BY <1>1, <1>4, <2>4 DEF Downward, DCHealthy, ProxyHealthy
<1>6. CASE writer # "open"
  <2>1. writer # "closing"
    BY <1>1 DEF Upward
  <2>2. Upward'
    BY <1>1, <1>6, <2>1 DEF Upward
  <2>. QED
    BY <1>1, <1>4, <2>2 DEF Downward, DCHealthy, ProxyHealthy
<1>. QED
  BY <1>5, <1>6

\* The data centre sends and closes; the tunnel is set up or refused.
LEMMA OthersKeep ==
  ASSUME IInv, Fetch \/ DCSends \/ DCCloses
  PROVE  IInv'
<1>. USE DEF IInv, wsVars, outVars, inVars
<1>1. CASE Fetch
  BY <1>1 DEF Fetch, TypeOK, Upward, Downward, DCHealthy, ProxyHealthy
<1>2. CASE DCSends
  BY <1>2, Lengths DEF DCSends, TypeOK, Upward, Downward, DCHealthy, ProxyHealthy
<1>3. CASE DCCloses
  BY <1>3 DEF DCCloses, TypeOK, Upward, Downward, DCHealthy, ProxyHealthy
<1>. QED
  BY <1>1, <1>2, <1>3

\* Every step keeps the invariant.
LEMMA InvNext ==
  ASSUME IInv, [Next]_vars
  PROVE  IInv'
<1>1. CASE Next
  BY <1>1, MessageKeeps, SinkKeeps, CloseKeeps, LoopKeeps, ProxySendsKeeps, OthersKeep DEF Next
<1>2. CASE UNCHANGED vars
  BY <1>2 DEF vars, wsVars, outVars, inVars, IInv, TypeOK, Upward, Downward, DCHealthy,
              ProxyHealthy
<1>. QED
  BY <1>1, <1>2

\* The invariant holds throughout.
LEMMA Invariance == FairSpec => []IInv
<1>. QED
  BY InvInit, InvNext, PTL DEF FairSpec

-----------------------------------------------------------------------------
(* The theorems. *)

\* Every variable of the tunnel keeps its type.
THEOREM TunnelTypes == FairSpec => []TypeOK
<1>1. IInv => TypeOK
  BY DEF IInv
<1>. QED
  BY <1>1, Invariance, PTL

\* Each end receives what the other one sent, in order and without a gap.
THEOREM TunnelKeepsOrder == FairSpec => []TunnelInOrder
<1>1. IInv => TunnelInOrder
  BY Lengths, RunIsNumbered DEF IInv, TypeOK, Upward, Downward, TunnelInOrder
<1>. QED
  BY <1>1, Invariance, PTL

\* What was sent before a close arrives, when the end it goes to is healthy.
THEOREM LastWordsDoArrive == FairSpec => []LastWordsArrive
<1>1. IInv => LastWordsArrive
  BY DEF IInv, DCHealthy, ProxyHealthy, LastWordsArrive
<1>. QED
  BY <1>1, Invariance, PTL

-----------------------------------------------------------------------------
(* The proxy's end of a WebSocket. *)

(* Frames on their way. *)

\* Piece p is in one of the frames b.
Waits(b, p) == \E k \in 1..Len(b) : \E j \in 1..Len(b[k].payload) : b[k].payload[j] = p

\* The payload of a frame is a run of numbers, and the frames are in order.
Runs(b) ==
  /\ \A k \in 1..Len(b) : \A i, j \in 1..Len(b[k].payload) :
       b[k].payload[j] + i = b[k].payload[i] + j
  /\ \A k, l \in 1..Len(b) : k < l =>
       \A i \in 1..Len(b[k].payload), j \in 1..Len(b[l].payload) :
         b[k].payload[i] < b[l].payload[j]

InOrder(g) == \A i \in 1..Len(g) : g[i] = i

\* Of n pieces the reader has those of g, and the others wait in b.
Split(g, b, n) == InOrder(g) /\ \A p \in 1..n : p > Len(g) <=> Waits(b, p)

Frame(n) == [op : Op, fin : BOOLEAN, payload : Seq(1..n)]

\* What a frame of a list is.
LEMMA FrameOf ==
  ASSUME NEW n \in Nat, NEW b \in Seq(Frame(n)), NEW k \in 1..Len(b)
  PROVE  /\ b[k] \in Frame(n) /\ b[k].payload \in Seq(1..n)
         /\ Len(b[k].payload) \in Nat
         /\ \A i \in 1..Len(b[k].payload) : b[k].payload[i] \in 1..n
<1>1. b[k] \in Frame(n)
  OBVIOUS
<1>2. b[k].payload \in Seq(1..n)
  BY <1>1 DEF Frame
<1>. QED
  BY <1>1, <1>2

\* A frame with the next pieces goes out.
LEMMA FrameOut ==
  ASSUME NEW n \in Nat, NEW m \in Nat, NEW b \in Seq(Frame(n)), NEW g \in Seq(1..n),
         Runs(b), NEW op \in Op, NEW fin \in BOOLEAN
  PROVE  LET f == [op |-> op, fin |-> fin, payload |-> [i \in 1..m |-> n + i]]
             c == Append(b, f)
         IN /\ c \in Seq(Frame(n + m)) /\ Runs(c)
            /\ Split(g, b, n) => Split(g, c, n + m)
            /\ Len(c) = Len(b) + 1 /\ c[Len(b) + 1] = f /\ \A k \in 1..Len(b) : c[k] = b[k]
            /\ m = 0 => f.payload = <<>>
<1>. DEFINE s == [i \in 1..m |-> n + i]
            f == [op |-> op, fin |-> fin, payload |-> s]
            c == Append(b, f)
<1>1. s \in Seq(1..n + m) /\ Len(s) = m /\ \A i \in 1..m : s[i] = n + i
  <2>1. \A i \in 1..m : n + i \in 1..n + m
    OBVIOUS
  <2>. QED
    BY <2>1
<1>2. f.payload = s /\ f \in Frame(n + m)
  BY <1>1 DEF Frame
<1>3. b \in Seq(Frame(n + m))
  <2>1. Seq(1..n) \subseteq Seq(1..n + m)
    <3>1. 1..n \subseteq 1..n + m
      OBVIOUS
    <3>. QED
      BY <3>1
  <2>2. Frame(n) \subseteq Frame(n + m)
    BY <2>1 DEF Frame
  <2>. QED
    BY <2>2
<1>4. /\ c \in Seq(Frame(n + m)) /\ Len(c) = Len(b) + 1 /\ Len(b) \in Nat
      /\ \A k \in 1..Len(b) : c[k] = b[k]
      /\ c[Len(b) + 1] = f
  <2>. HIDE DEF f
  <2>. QED
    BY <1>2, <1>3
<1>5. \A k \in 1..Len(b) : /\ Len(b[k].payload) \in Nat
                           /\ \A i \in 1..Len(b[k].payload) : b[k].payload[i] \in 1..n
  BY FrameOf
<1>. HIDE DEF c, f, s
<1>6. Runs(c)
  <2>1. ASSUME NEW k \in 1..Len(c), NEW i \in 1..Len(c[k].payload), NEW j \in 1..Len(c[k].payload)
        PROVE  c[k].payload[j] + i = c[k].payload[i] + j
    <3>1. CASE k \in 1..Len(b)
      BY <2>1, <1>4, <3>1 DEF Runs
    <3>2. CASE k = Len(b) + 1
      <4>1. c[k].payload = s
        BY <1>2, <1>4, <3>2
      <4>2. s[i] = n + i /\ s[j] = n + j /\ i \in 1..m /\ j \in 1..m
        BY <1>1, <4>1
      <4>. QED
        BY <4>1, <4>2
    <3>. QED
      BY <1>4, <3>1, <3>2
  <2>2. ASSUME NEW k \in 1..Len(c), NEW l \in 1..Len(c), k < l,
               NEW i \in 1..Len(c[k].payload), NEW j \in 1..Len(c[l].payload)
        PROVE  c[k].payload[i] < c[l].payload[j]
    <3>1. k \in 1..Len(b) /\ c[k] = b[k]
      BY <1>4, <2>2
    <3>2. CASE l \in 1..Len(b)
      BY <2>2, <1>4, <3>1, <3>2 DEF Runs
    <3>3. CASE l = Len(b) + 1
      <4>1. c[k].payload[i] \in 1..n
        BY <2>2, <1>5, <3>1
      <4>2. c[l].payload[j] = n + j /\ j \in 1..m
        BY <2>2, <1>1, <1>2, <1>4, <3>3
      <4>. QED
        BY <4>1, <4>2
    <3>. QED
      BY <1>4, <3>2, <3>3
  <2>. QED
    BY <2>1, <2>2 DEF Runs
<1>7. ASSUME Split(g, b, n) PROVE Split(g, c, n + m)
  <2>1. Len(g) \in Nat /\ Len(g) <= n
    <3>1. \A i \in 1..Len(g) : g[i] = i /\ g[i] \in 1..n
      BY <1>7 DEF Split, InOrder
    <3>2. Len(g) \in Nat
      OBVIOUS
    <3>3. Len(g) > 0 => Len(g) \in 1..Len(g)
      BY <3>2
    <3>. QED
      BY <3>1, <3>2, <3>3
  <2>2. \A p \in Nat : Waits(b, p) => Waits(c, p)
    BY <1>4 DEF Waits
  <2>3. \A p \in n + 1..n + m : Waits(c, p)
    <3>1. ASSUME NEW p \in n + 1..n + m PROVE Waits(c, p)
      <4>1. p - n \in 1..m /\ s[p - n] = p
        BY <1>1
      <4>2. Len(b) + 1 \in 1..Len(c) /\ c[Len(b) + 1].payload = s
        BY <1>2, <1>4
      <4>. QED
        BY <1>1, <4>1, <4>2 DEF Waits
    <3>. QED
      BY <3>1
  <2>4. \A p \in 1..n : Waits(c, p) => Waits(b, p)
    <3>1. ASSUME NEW p \in 1..n, NEW k \in 1..Len(c), NEW j \in 1..Len(c[k].payload),
                 c[k].payload[j] = p
          PROVE  Waits(b, p)
      <4>1. CASE k \in 1..Len(b)
        BY <1>4, <3>1, <4>1 DEF Waits
      <4>2. CASE k = Len(b) + 1
        <5>1. c[k].payload = s
          BY <1>2, <1>4, <4>2
        <5>2. j \in 1..m /\ s[j] = p
          BY <1>1, <3>1, <5>1
        <5>3. s[j] = n + j
          BY <1>1, <5>2
        <5>. QED
          BY <5>2, <5>3
      <4>. QED
        BY <1>4, <4>1, <4>2
    <3>. QED
      BY <3>1 DEF Waits
  <2>5. ASSUME NEW p \in 1..n + m PROVE p > Len(g) <=> Waits(c, p)
    <3>1. CASE p \in 1..n
      BY <1>7, <2>2, <2>4, <3>1 DEF Split
    <3>2. CASE p \in n + 1..n + m
      BY <2>1, <2>3, <3>2
    <3>. QED
      BY <3>1, <3>2
  <2>6. InOrder(g)
    BY <1>7 DEF Split
  <2>. QED
    BY <2>5, <2>6 DEF Split
<1>8. m = 0 => f.payload = <<>>
  BY <1>1, <1>2
<1>. QED
  BY <1>4, <1>6, <1>7, <1>8 DEF c, f, s

\* The first frame is read: its payload goes to the end of what the reader has.
LEMMA FrameIn ==
  ASSUME NEW n \in Nat, NEW b \in Seq(Frame(n)), b # <<>>, NEW g \in Seq(1..n),
         Runs(b), Split(g, b, n)
  PROVE  /\ Tail(b) \in Seq(Frame(n)) /\ Runs(Tail(b))
         /\ Head(b) \in Frame(n)
         /\ g \o Head(b).payload \in Seq(1..n)
         /\ Split(g \o Head(b).payload, Tail(b), n)
<1>. DEFINE s == Head(b).payload
            c == Tail(b)
            h == g \o s
<1>1. /\ Len(b) \in Nat \ {0} /\ Len(c) = Len(b) - 1 /\ c \in Seq(Frame(n))
      /\ Head(b) = b[1] /\ Head(b) \in Frame(n)
      /\ \A k \in 1..Len(c) : c[k] = b[k + 1]
  OBVIOUS
<1>2. s \in Seq(1..n)
  BY <1>1 DEF Frame
<1>3. \A k \in 1..Len(b) : /\ Len(b[k].payload) \in Nat
                           /\ \A i \in 1..Len(b[k].payload) : b[k].payload[i] \in 1..n
  BY FrameOf
<1>4. Len(g) \in Nat /\ Len(s) \in Nat
  BY <1>2
<1>5. /\ h \in Seq(1..n) /\ Len(h) = Len(g) + Len(s)
      /\ \A i \in 1..Len(h) : h[i] = IF i <= Len(g) THEN g[i] ELSE s[i - Len(g)]
  <2>. HIDE DEF s
  <2>. QED
    BY <1>2, <1>4, ConcatProperties
<1>6. s = b[1].payload
  BY <1>1
<1>. HIDE DEF c, s, h
<1>7. Runs(c)
  <2>1. \A k \in 1..Len(c) : k + 1 \in 1..Len(b)
    BY <1>1
  <2>2. ASSUME NEW k \in 1..Len(c), NEW i \in 1..Len(c[k].payload), NEW j \in 1..Len(c[k].payload)
        PROVE  c[k].payload[j] + i = c[k].payload[i] + j
    <3>1. k + 1 \in 1..Len(b) /\ c[k] = b[k + 1]
      BY <1>1, <2>1
    <3>2. i \in 1..Len(b[k + 1].payload) /\ j \in 1..Len(b[k + 1].payload)
      BY <3>1
    <3>3. b[k + 1].payload[j] + i = b[k + 1].payload[i] + j
      BY <3>1, <3>2 DEF Runs
    <3>. QED
      BY <3>1, <3>3
  <2>3. ASSUME NEW k \in 1..Len(c), NEW l \in 1..Len(c), k < l,
               NEW i \in 1..Len(c[k].payload), NEW j \in 1..Len(c[l].payload)
        PROVE  c[k].payload[i] < c[l].payload[j]
    <3>1. k + 1 < l + 1
      BY <2>3
    <3>. QED
      BY <2>3, <1>1, <2>1, <3>1 DEF Runs
  <2>. QED
    BY <2>2, <2>3 DEF Runs
\* What the reader has lies below what waits.
<1>8. \A j \in 1..Len(s) : s[j] \in 1..n /\ s[j] > Len(g)
  <2>1. ASSUME NEW j \in 1..Len(s) PROVE s[j] \in 1..n /\ s[j] > Len(g)
    <3>1. s[j] \in 1..n
      BY <1>2
    <3>2. Waits(b, s[j])
      BY <1>1, <1>6 DEF Waits
    <3>. QED
      BY <3>1, <3>2 DEF Split
  <2>. QED
    BY <2>1
\* The first of it waits in the first frame that is not empty.
<1>9. Len(s) > 0 => s[1] = Len(g) + 1
  <2>1. SUFFICES ASSUME Len(s) > 0 PROVE s[1] = Len(g) + 1
    OBVIOUS
  <2>2. 1 \in 1..Len(s) /\ s[1] \in 1..n /\ s[1] > Len(g)
    BY <1>4, <1>8, <2>1
  <2>3. Len(g) + 1 \in 1..n /\ Waits(b, Len(g) + 1)
    BY <1>4, <2>2 DEF Split
  <2>4. PICK k \in 1..Len(b) : \E j \in 1..Len(b[k].payload) : b[k].payload[j] = Len(g) + 1
    BY <2>3 DEF Waits
  <2>5. PICK j \in 1..Len(b[k].payload) : b[k].payload[j] = Len(g) + 1
    BY <2>4
  <2>6. s[1] <= Len(g) + 1
    <3>1. CASE k = 1
      <4>1. j \in 1..Len(s) /\ s[j] = Len(g) + 1
        BY <1>6, <2>5, <3>1
      <4>2. s[j] + 1 = s[1] + j
        BY <1>1, <1>6, <2>2, <4>1 DEF Runs
      <4>. QED
        BY <1>4, <2>2, <4>1, <4>2
    <3>2. CASE k > 1
      <4>1. 1 \in 1..Len(b)
        BY <1>1
      <4>2. s[1] < Len(g) + 1
        BY <1>6, <2>2, <2>5, <3>2, <4>1 DEF Runs
      <4>. QED
        BY <1>4, <2>2, <4>2
    <3>. QED
      BY <3>1, <3>2
  <2>. QED
    BY <1>4, <2>2, <2>6
<1>10. \A j \in 1..Len(s) : s[j] = Len(g) + j
  <2>1. ASSUME NEW j \in 1..Len(s) PROVE s[j] = Len(g) + j
    <3>1. 1 \in 1..Len(s) /\ Len(s) > 0
      BY <1>4
    <3>2. s[j] + 1 = s[1] + j
      BY <1>1, <1>6, <3>1 DEF Runs
    <3>3. s[j] \in Nat /\ s[1] = Len(g) + 1
      BY <1>8, <1>9, <3>1
    <3>4. PICK x \in Nat : x = s[j]
      BY <3>3
    <3>5. PICK y \in Nat : y = Len(g)
      BY <1>4
    <3>6. x + 1 = (y + 1) + j
      BY <3>2, <3>3, <3>4, <3>5
    <3>7. j \in Nat
      BY <1>4
    <3>8. x = y + j
      BY <3>6, <3>7
    <3>. QED
      BY <3>4, <3>5, <3>8
  <2>. QED
    BY <2>1
<1>11. InOrder(h)
  <2>1. ASSUME NEW i \in 1..Len(h) PROVE h[i] = i
    <3>1. CASE i <= Len(g)
      <4>1. i \in 1..Len(g)
        BY <1>4, <3>1
      <4>. QED
        BY <1>5, <3>1, <4>1 DEF Split, InOrder
    <3>2. CASE ~(i <= Len(g))
      <4>1. i - Len(g) \in 1..Len(s)
        BY <1>4, <1>5, <3>2
      <4>2. h[i] = s[i - Len(g)]
        BY <1>5, <3>2
      <4>3. s[i - Len(g)] = Len(g) + (i - Len(g))
        BY <1>10, <4>1
      <4>. QED
        BY <1>4, <4>2, <4>3
    <3>. QED
      BY <3>1, <3>2
  <2>. QED
    BY <2>1 DEF InOrder
<1>12. ASSUME NEW p \in 1..n PROVE p > Len(h) <=> Waits(c, p)
  <2>1. ASSUME p > Len(h) PROVE Waits(c, p)
    <3>1. Waits(b, p)
      BY <1>4, <1>5, <2>1 DEF Split
    <3>2. PICK k \in 1..Len(b) : \E j \in 1..Len(b[k].payload) : b[k].payload[j] = p
      BY <3>1 DEF Waits
    <3>3. k # 1
      BY <1>4, <1>5, <1>6, <1>10, <2>1, <3>2
    <3>4. k - 1 \in 1..Len(c) /\ c[k - 1] = b[k]
      BY <1>1, <3>3
    <3>. QED
      BY <3>2, <3>4 DEF Waits
  <2>2. ASSUME Waits(c, p) PROVE p > Len(h)
    <3>1. PICK k \in 1..Len(c) : \E j \in 1..Len(c[k].payload) : c[k].payload[j] = p
      BY <2>2 DEF Waits
    <3>2. k + 1 \in 1..Len(b) /\ c[k] = b[k + 1] /\ 1 \in 1..Len(b) /\ 1 < k + 1
      BY <1>1
    <3>3. Waits(b, p)
      BY <3>1, <3>2 DEF Waits
    <3>4. p > Len(g)
      BY <3>3 DEF Split
    <3>5. CASE Len(s) > 0
      <4>1. Len(s) \in 1..Len(s)
        BY <1>4, <3>5
      <4>2. s[Len(s)] < p
        <5>1. PICK j \in 1..Len(c[k].payload) : c[k].payload[j] = p
          BY <3>1
        <5>. QED
          BY <1>6, <3>2, <4>1, <5>1 DEF Runs
      <4>. QED
        BY <1>4, <1>5, <1>10, <4>1, <4>2
    <3>6. CASE Len(s) = 0
      BY <1>4, <1>5, <3>4, <3>6
    <3>. QED
      BY <1>4, <3>5, <3>6
  <2>. QED
    BY <2>1, <2>2
<1>13. Split(h, c, n)
  BY <1>11, <1>12 DEF Split
<1>. QED
  BY <1>1, <1>5, <1>7, <1>13 DEF c, h, s

-----------------------------------------------------------------------------
(* The invariant.                                                           *)

Gathered == delivered \o rxBuf \o assembled

\* The data part: frames are in order, only data frames carry pieces, and until the
\* reader ends, every piece is with it or on its way.
DataInv ==
  /\ Runs(inbox)
  /\ \A k \in 1..Len(inbox) : inbox[k].op \notin {"data", "cont"} => inbox[k].payload = <<>>
  /\ rpc = "call" => Split(Gathered, inbox, pieces)

Held == {"arm", "write", "check", "reset", "unlock"}

\* wMu has one holder; a writer that waits or writes has a write left.
OneHolder ==
  /\ lock = "writer" <=> wpc = "write"
  /\ \A p \in Controller : lock = p <=> ctl[p] \in Held
  /\ wpc \in {"lock", "write"} => writes < MaxWrites

\* A Close is in tryWriteControl while it says goodbye, and only then.
Goodbyes == \A c \in Closer : cpc[c] # "control" => ctl[c] = "none"

\* A deadline is set by a Close that has begun, or by the holder of wMu, who takes
\* it back unless a Close has begun.
Deadlines ==
  /\ deadline = "now" => closed
  /\ deadline = "soon" =>
       closed \/ \E p \in Controller : ctl[p] \in {"write", "check", "reset"}
  /\ \A p \in Controller : ctl[p] = "unlock" => closed \/ deadline = "none"
  /\ \A c \in Closer : cpc[c] # "idle" => closed

WSInv == WSTypeOK /\ DataInv /\ OneHolder /\ Goodbyes /\ Deadlines

LEMMA WSInvInit ==
  ASSUME WSInit
  PROVE  WSInv
<1>. USE SizeType, BoundType, CloserType
<1>1. /\ inbox = <<>> /\ pieces = 0 /\ frames = 0 /\ writes = 0
      /\ delivered = <<>> /\ rxBuf = <<>> /\ assembled = <<>>
      /\ deadline = "none" /\ lock = "free" /\ wpc = "idle" /\ rpc = "call"
      /\ cpc = [c \in Closer |-> "idle"]
      /\ ctl = [p \in Controller |-> "none"]
      /\ message = FALSE /\ stuck = FALSE /\ gone = FALSE /\ waited = FALSE /\ nil = TRUE
      /\ badCont = FALSE /\ closed = FALSE /\ tlsClosed = FALSE /\ broken = FALSE
  BY DEF WSInit
<1>2. <<>> \in Seq(Frame(0)) /\ <<>> \in Seq(1..0) /\ Len(<<>>) = 0
  OBVIOUS
<1>3. Gathered = <<>>
  BY <1>1 DEF Gathered
<1>4. DataInv
  BY <1>1, <1>2, <1>3 DEF DataInv, Runs, Split, InOrder
<1>5. OneHolder /\ Goodbyes /\ Deadlines
  BY <1>1 DEF OneHolder, Goodbyes, Deadlines, Held, Controller
<1>6. WSTypeOK
  <2>1. frames \in 0..MaxFrames /\ writes \in 0..MaxWrites /\ pieces \in Nat
    BY <1>1
  <2>2. inbox \in Seq([op : Op, fin : BOOLEAN, payload : Seq(1..pieces)])
    BY <1>1, <1>2 DEF Frame
  <2>3. {assembled, rxBuf, delivered} \subseteq Seq(1..pieces)
    BY <1>1, <1>2
  <2>4. /\ cpc \in [Closer -> {"idle", "control", "tls", "done"}]
        /\ ctl \in [Controller -> {"none", "try", "arm", "write", "check", "reset", "unlock"}]
    BY <1>1
  <2>5. {message, stuck, gone, waited, nil, badCont, closed, tlsClosed, broken} \subseteq BOOLEAN
    BY <1>1
  <2>. QED
    BY <1>1, <2>1, <2>2, <2>3, <2>4, <2>5 DEF WSTypeOK
<1>. QED
  BY <1>4, <1>5, <1>6 DEF WSInv

-----------------------------------------------------------------------------
(* The server and the reader: what they do to pieces.                       *)

\* The types of what carries pieces.
DataTypes ==
  /\ pieces \in Nat
  /\ inbox \in Seq(Frame(pieces))
  /\ delivered \in Seq(1..pieces) /\ rxBuf \in Seq(1..pieces) /\ assembled \in Seq(1..pieces)

LEMMA TypesOfData == WSTypeOK => DataTypes
<1>1. ASSUME WSTypeOK PROVE DataTypes
  BY <1>1 DEF WSTypeOK, DataTypes, Frame
<1>. QED
  BY <1>1

\* Joined pieces keep their type, and it does not matter which join is first.
LEMMA Joined ==
  ASSUME NEW S, NEW a \in Seq(S), NEW b \in Seq(S), NEW c \in Seq(S)
  PROVE  /\ a \o b \in Seq(S) /\ a \o b \o c \in Seq(S)
         /\ a \o <<>> = a
         /\ (a \o b) \o c = a \o (b \o c)
<1>1. a \o b \in Seq(S) /\ b \o c \in Seq(S)
  BY ConcatProperties
<1>2. (a \o b) \o c \in Seq(S)
  BY <1>1, ConcatProperties
<1>3. a \o <<>> = a
  BY ConcatEmptySeq
<1>4. (a \o b) \o c = a \o (b \o c)
  BY ConcatAssociative
<1>. QED
  BY <1>1, <1>2, <1>3, <1>4, Zenon

\* The pieces that fit and the rest are the whole.
LEMMA Halves ==
  ASSUME NEW S, NEW f \in Seq(S), NEW k \in 0..Len(f)
  PROVE  /\ SubSeq(f, 1, k) \in Seq(S) /\ SubSeq(f, k + 1, Len(f)) \in Seq(S)
         /\ SubSeq(f, 1, k) \o SubSeq(f, k + 1, Len(f)) = f
<1>1. Len(f) \in Nat
  OBVIOUS
<1>2. SubSeq(f, 1, k) \in Seq(S) /\ SubSeq(f, k + 1, Len(f)) \in Seq(S)
  BY <1>1
<1>3. 1 \in 1..Len(f) + 1 /\ k \in 1 - 1..Len(f) /\ Len(f) \in k..Len(f)
  BY <1>1
<1>4. SubSeq(f, 1, k) \o SubSeq(f, k + 1, Len(f)) = SubSeq(f, 1, Len(f))
  BY <1>3, ConcatAdjacentSubSeq
<1>5. SubSeq(f, 1, Len(f)) = f
  BY SubSeqFull
<1>. QED
  BY <1>2, <1>4, <1>5

\* A frame goes out: the invariant of the data holds.
LEMMA SendData ==
  ASSUME DataTypes, DataInv,
         NEW op \in Op, NEW fin \in BOOLEAN, NEW m \in Size \cup {0}, Send(op, fin, m)
  PROVE  DataTypes' /\ DataInv'
<1>. DEFINE s == [i \in 1..m |-> pieces + i]
            f == [op |-> op, fin |-> fin, payload |-> s]
<1>1. m \in Nat
  BY SizeType, BoundType, CloserType
<1>2. /\ pieces' = pieces + m /\ inbox' = Append(inbox, f)
      /\ UNCHANGED <<rpc, rxBuf, delivered, assembled>>
      /\ op \notin {"data", "cont"} => m = 0
  BY DEF Send, readVars
<1>3. Gathered' = Gathered
  BY <1>2 DEF Gathered
<1>4. PICK n \in Nat : n = pieces
  BY DEF DataTypes
<1>5. PICK b \in Seq(Frame(n)) : b = inbox
  BY <1>4 DEF DataTypes
<1>. HIDE DEF s
<1>6. Gathered \in Seq(1..n)
  BY <1>4, <1>5, Joined DEF DataTypes, Gathered
<1>7. /\ Append(b, f) \in Seq(Frame(n + m)) /\ Runs(Append(b, f))
      /\ Split(Gathered, b, n) => Split(Gathered, Append(b, f), n + m)
      /\ Len(Append(b, f)) = Len(b) + 1 /\ Append(b, f)[Len(b) + 1] = f
      /\ \A k \in 1..Len(b) : Append(b, f)[k] = b[k]
      /\ m = 0 => s = <<>>
  <2>1. Runs(b)
    BY <1>4, <1>5 DEF DataInv
  <2>2. s = [i \in 1..m |-> n + i]
    BY <1>4, <1>5 DEF s
  <2>3. PICK g \in Seq(1..n) : g = Gathered
    BY <1>6
  <2>. DEFINE r == [op |-> op, fin |-> fin, payload |-> [i \in 1..m |-> n + i]]
  <2>4. /\ Append(b, r) \in Seq(Frame(n + m)) /\ Runs(Append(b, r))
        /\ Split(g, b, n) => Split(g, Append(b, r), n + m)
        /\ Len(Append(b, r)) = Len(b) + 1 /\ Append(b, r)[Len(b) + 1] = r
        /\ \A k \in 1..Len(b) : Append(b, r)[k] = b[k]
        /\ m = 0 => r.payload = <<>>
    BY <1>1, <2>1, FrameOut
  <2>5. f = r /\ r.payload = s
    BY <2>2
  <2>. HIDE DEF r, f
  <2>. QED
    BY <2>3, <2>4, <2>5
<1>8. inbox' = Append(b, f) /\ pieces' = n + m
  BY <1>2, <1>4, <1>5 DEF s
<1>. HIDE DEF f
<1>9. DataTypes'
  <2>1. pieces' \in Nat /\ inbox' \in Seq(Frame(pieces'))
    BY <1>1, <1>7, <1>8
  <2>2. Seq(1..n) \subseteq Seq(1..n + m)
    <3>1. 1..n \subseteq 1..n + m
      BY <1>1
    <3>. QED
      BY <3>1, SeqMonotonic
  <2>3. delivered \in Seq(1..n + m) /\ rxBuf \in Seq(1..n + m) /\ assembled \in Seq(1..n + m)
    BY <1>4, <2>2, Zenon DEF DataTypes
  <2>4. delivered' = delivered /\ rxBuf' = rxBuf /\ assembled' = assembled
    BY <1>2
  <2>. QED
    BY <1>8, <2>1, <2>3, <2>4, Zenon DEF DataTypes
<1>10. DataInv'
  <2>1. rpc' = "call" => Split(Gathered', inbox', pieces')
    BY <1>2, <1>3, <1>4, <1>5, <1>7, <1>8 DEF DataInv
  <2>2. ASSUME NEW k \in 1..Len(inbox'), inbox'[k].op \notin {"data", "cont"}
        PROVE  inbox'[k].payload = <<>>
    <3>1. CASE k \in 1..Len(b)
      BY <1>4, <1>5, <1>7, <1>8, <2>2, <3>1 DEF DataInv
    <3>2. CASE k = Len(b) + 1
      <4>1. inbox'[k] = f /\ f.op = op /\ f.payload = s
        BY <1>7, <1>8, <3>2 DEF f
      <4>. QED
        BY <1>2, <1>7, <2>2, <4>1
    <3>. QED
      BY <1>7, <1>8, <3>1, <3>2
  <2>. QED
    BY <1>7, <1>8, <2>1, <2>2 DEF DataInv
<1>. QED
  BY <1>9, <1>10

\* What a whole message adds: some of it is delivered, the rest is kept.
LEMMA ReturnsData ==
  ASSUME DataTypes, rxBuf = <<>>, NEW q \in Seq(1..pieces),
         NEW size \in ReadSize, Returns(assembled \o q, size)
  PROVE  /\ delivered' \in Seq(1..pieces) /\ rxBuf' \in Seq(1..pieces)
         /\ assembled' \in Seq(1..pieces)
         /\ Gathered' = Gathered \o q
<1>. DEFINE full == assembled \o q
            k == IF size < Len(full) THEN size ELSE Len(full)
            one == SubSeq(full, 1, k)
            two == SubSeq(full, k + 1, Len(full))
<1>1. PICK S : S = 1..pieces
  OBVIOUS
<1>2. /\ delivered \in Seq(S) /\ assembled \in Seq(S) /\ q \in Seq(S)
      /\ full \in Seq(S)
  BY <1>1, ConcatProperties DEF DataTypes
<1>3. delivered' = delivered \o one /\ rxBuf' = two /\ assembled' = <<>>
  BY DEF Returns
<1>. HIDE DEF full
<1>4. k \in 0..Len(full)
  BY <1>2, SizeType
<1>. HIDE DEF k
<1>5. one \in Seq(S) /\ two \in Seq(S) /\ one \o two = full
  BY <1>2, <1>4, Halves
<1>. HIDE DEF one, two
<1>6. /\ delivered \o one \in Seq(S) /\ (delivered \o one) \o two = delivered \o full
      /\ delivered \o full \in Seq(S)
  <2>1. delivered \o one \in Seq(S) /\ (delivered \o one) \o two = delivered \o (one \o two)
    <3>1. PICK x \in Seq(S), y \in Seq(S), z \in Seq(S) : x = delivered /\ y = one /\ z = two
      BY <1>2, <1>5
    <3>2. x \o y \in Seq(S) /\ (x \o y) \o z = x \o (y \o z)
      BY Joined
    <3>. QED
      BY <3>1, <3>2, Zenon
  <2>2. delivered \o full \in Seq(S)
    BY <1>2, Joined
  <2>. QED
    BY <1>5, <2>1, <2>2
<1>7. <<>> \in Seq(S)
  OBVIOUS
<1>8. Gathered' = delivered \o full
  <2>1. (delivered \o full) \o <<>> = delivered \o full
    BY <1>6, ConcatEmptySeq
  <2>. QED
    BY <1>3, <1>6, <2>1 DEF Gathered
<1>9. Gathered \o q = delivered \o full
  <2>1. delivered \o <<>> = delivered
    BY <1>2, ConcatEmptySeq
  <2>2. Gathered = delivered \o assembled
    BY <2>1 DEF Gathered
  <2>3. (delivered \o assembled) \o q = delivered \o (assembled \o q)
    BY <1>2, Joined
  <2>. QED
    BY <2>2, <2>3 DEF full
<1>. QED
  BY <1>1, <1>3, <1>5, <1>6, <1>7, <1>8, <1>9

\* What a fragment adds.
LEMMA KeepsData ==
  ASSUME DataTypes, NEW q \in Seq(1..pieces), Keeps(q)
  PROVE  /\ delivered' \in Seq(1..pieces) /\ rxBuf' \in Seq(1..pieces)
         /\ assembled' \in Seq(1..pieces)
         /\ Gathered' = Gathered \o q
<1>1. PICK S : S = 1..pieces
  OBVIOUS
<1>2. /\ delivered \in Seq(S) /\ assembled \in Seq(S) /\ q \in Seq(S)
      /\ rxBuf \in Seq(S)
  BY <1>1 DEF DataTypes
<1>3. delivered' = delivered /\ rxBuf' = rxBuf /\ assembled' = assembled \o q
  BY DEF Keeps
<1>4. delivered \o rxBuf \in Seq(S) /\ assembled \o q \in Seq(S)
  BY <1>2, Joined
<1>5. ((delivered \o rxBuf) \o assembled) \o q = (delivered \o rxBuf) \o (assembled \o q)
  <2>1. PICK x \in Seq(S), y \in Seq(S), z \in Seq(S) :
          x = delivered \o rxBuf /\ y = assembled /\ z = q
    BY <1>2, <1>4
  <2>2. (x \o y) \o z = x \o (y \o z)
    BY Joined
  <2>. QED
    BY <2>1, <2>2, Zenon
<1>. QED
  BY <1>1, <1>2, <1>3, <1>4, <1>5 DEF Gathered

\* Read hands out what an earlier call left.
LEMMA RestData ==
  ASSUME DataTypes, DataInv, NEW size \in ReadSize, ReadRest(size)
  PROVE  DataTypes' /\ DataInv'
<1>. DEFINE k == IF size < Len(rxBuf) THEN size ELSE Len(rxBuf)
            one == SubSeq(rxBuf, 1, k)
            two == SubSeq(rxBuf, k + 1, Len(rxBuf))
<1>1. PICK S : S = 1..pieces
  OBVIOUS
<1>2. /\ delivered \in Seq(S) /\ assembled \in Seq(S) /\ rxBuf \in Seq(S)
  BY <1>1 DEF DataTypes
<1>3. /\ delivered' = delivered \o one /\ rxBuf' = two
      /\ assembled' = assembled /\ rpc' = rpc /\ inbox' = inbox /\ pieces' = pieces
  BY DEF ReadRest, peerVars
<1>4. k \in 0..Len(rxBuf)
  BY <1>2, SizeType
<1>. HIDE DEF k
<1>5. one \in Seq(S) /\ two \in Seq(S) /\ one \o two = rxBuf
  BY <1>2, <1>4, Halves
<1>. HIDE DEF one, two
<1>6. delivered \o one \in Seq(S) /\ (delivered \o one) \o two = delivered \o (one \o two)
  <2>1. PICK x \in Seq(S), y \in Seq(S), z \in Seq(S) : x = delivered /\ y = one /\ z = two
    BY <1>2, <1>5
  <2>2. x \o y \in Seq(S) /\ (x \o y) \o z = x \o (y \o z)
    BY Joined
  <2>. QED
    BY <2>1, <2>2, Zenon
<1>7. Gathered' = Gathered
  BY <1>3, <1>5, <1>6 DEF Gathered
<1>8. DataTypes'
  BY <1>1, <1>2, <1>3, <1>5, <1>6 DEF DataTypes
<1>9. DataInv'
  BY <1>3, <1>7 DEF DataInv
<1>. QED
  BY <1>8, <1>9

\* Read takes a frame.
LEMMA FrameData ==
  ASSUME DataTypes, DataInv, NEW size \in ReadSize, ReadFrame(size)
  PROVE  DataTypes' /\ DataInv'
<1>1. PICK n \in Nat : n = pieces
  BY DEF DataTypes
<1>2. PICK b \in Seq(Frame(n)) : b = inbox
  BY <1>1 DEF DataTypes
<1>3. /\ b # <<>> /\ inbox' = Tail(b) /\ pieces' = n
      /\ rpc = "call" /\ rxBuf = <<>>
  BY <1>1, <1>2 DEF ReadFrame
<1>4. PICK f \in Frame(n) : f = Head(b)
  BY <1>3
<1>5. PICK q \in Seq(1..n) : q = f.payload
  BY DEF Frame
<1>6. Gathered \in Seq(1..n)
  BY <1>1, Joined DEF DataTypes, Gathered
<1>7. /\ Tail(b) \in Seq(Frame(n)) /\ Runs(Tail(b))
      /\ Split(Gathered \o q, Tail(b), n)
  <2>1. Runs(b) /\ Split(Gathered, b, n)
    BY <1>1, <1>2, <1>3 DEF DataInv
  <2>2. PICK g \in Seq(1..n) : g = Gathered
    BY <1>6
  <2>. QED
    BY <1>3, <1>4, <1>5, <2>1, <2>2, FrameIn
<1>8. f.op \notin {"data", "cont"} => q = <<>>
  <2>1. 1 \in 1..Len(b) /\ f = b[1]
    BY <1>3, <1>4
  <2>. QED
    BY <1>2, <1>5, <2>1 DEF DataInv
<1>9. \A k \in 1..Len(inbox') : inbox'[k].op \notin {"data", "cont"} => inbox'[k].payload = <<>>
  <2>1. ASSUME NEW k \in 1..Len(Tail(b)) PROVE Tail(b)[k] = b[k + 1] /\ k + 1 \in 1..Len(b)
    BY <1>3
  <2>. QED
    BY <1>2, <1>3, <2>1 DEF DataInv
<1>10. \/ /\ rpc' = "call"
          /\ delivered' \in Seq(1..n) /\ rxBuf' \in Seq(1..n) /\ assembled' \in Seq(1..n)
          /\ Gathered' = Gathered \o q
       \/ /\ rpc' # "call"
          /\ delivered' = delivered /\ rxBuf' = rxBuf /\ assembled' = assembled
  <2>1. CASE /\ f.op = "data" \/ f.op = "cont"
             /\ IF f.fin THEN Returns(assembled \o f.payload, size) ELSE Keeps(f.payload)
             /\ rpc' = rpc
    <3>1. CASE Returns(assembled \o q, size)
      BY <1>1, <1>3, <2>1, <3>1, ReturnsData
    <3>2. CASE Keeps(q)
      BY <1>1, <1>3, <2>1, <3>2, KeepsData
    <3>. QED
      BY <1>5, <2>1, <3>1, <3>2
  <2>2. CASE /\ f.op \in {"ping", "pong"}
             /\ rpc' = rpc /\ delivered' = delivered /\ rxBuf' = rxBuf /\ assembled' = assembled
    <3>1. q = <<>>
      BY <1>8, <2>2
    <3>2. Gathered \o q = Gathered
      BY <1>6, <3>1, ConcatEmptySeq
    <3>3. Gathered' = Gathered
      BY <2>2 DEF Gathered
    <3>. QED
      BY <1>1, <1>3, <2>2, <3>2, <3>3 DEF DataTypes
  <2>3. CASE /\ rpc' # "call"
             /\ delivered' = delivered /\ rxBuf' = rxBuf /\ assembled' = assembled
    BY <2>3
  <2>. QED
    BY <1>2, <1>4, <2>1, <2>2, <2>3 DEF ReadFrame, readVars
<1>11. DataTypes'
  BY <1>1, <1>3, <1>7, <1>10 DEF DataTypes
<1>12. DataInv'
  BY <1>3, <1>7, <1>9, <1>10 DEF DataInv
<1>. QED
  BY <1>11, <1>12

\* The invariant of the data is kept by every step.
LEMMA DataStep ==
  ASSUME DataTypes, DataInv, [WSNext]_wsConnVars
  PROVE  DataTypes' /\ DataInv'
<1>1. ASSUME UNCHANGED <<inbox, pieces, rxBuf, delivered, assembled>>, rpc' = rpc \/ rpc' # "call"
      PROVE  DataTypes' /\ DataInv'
  <2>1. Gathered' = Gathered
    BY <1>1 DEF Gathered
  <2>2. DataTypes'
    BY <1>1 DEF DataTypes
  <2>3. DataInv'
    BY <1>1, <2>1 DEF DataInv
  <2>. QED
    BY <2>2, <2>3
<1>2. CASE UNCHANGED wsConnVars
  BY <1>1, <1>2 DEF wsConnVars, peerVars, readVars
<1>3. CASE Peer
  <2>1. ASSUME NEW op \in Op, NEW fin \in BOOLEAN, NEW m \in Size \cup {0},
               Send(op, fin, m)
        PROVE  DataTypes' /\ DataInv'
    BY <2>1, SendData
  <2>2. CASE Stall \/ Leave
    BY <1>1, <2>2 DEF Stall, Leave, readVars
  <2>. QED
    BY <1>3, <2>1, <2>2 DEF Peer
<1>4. CASE Reader
  <2>1. ASSUME NEW size \in ReadSize, ReadRest(size) \/ ReadFrame(size)
        PROVE  DataTypes' /\ DataInv'
    BY <2>1, RestData, FrameData
  <2>2. CASE ReadFails \/ ReadEOF
    BY <1>1, <2>2 DEF ReadFails, ReadEOF, peerVars
  <2>3. CASE Control("reader")
    BY <1>1, <2>3 DEF Control, TryLock, Arm, WriteControl, CheckClosed,
                      Reset, Unlock, peerVars, readVars
  <2>. QED
    BY <1>4, <2>1, <2>2, <2>3 DEF Reader
<1>5. CASE WriteCheck \/ Writer
  BY <1>1, <1>5 DEF WriteCheck, Writer, WriteLock, WriteFrame, peerVars,
                    readVars
<1>6. ASSUME NEW c \in Closer, Close(c) \/ CloseSteps(c)
      PROVE  DataTypes' /\ DataInv'
  <2>1. CASE Close(c) \/ CloseDeadline(c) \/ CloseTLS(c)
    BY <1>1, <2>1 DEF Close, CloseDeadline, CloseTLS, peerVars, readVars
  <2>2. CASE Control(c)
    BY <1>1, <2>2 DEF Control, TryLock, Arm, WriteControl, CheckClosed,
                      Reset, Unlock, peerVars, readVars
  <2>. QED
    BY <1>6, <2>1, <2>2 DEF CloseSteps
<1>. QED
  BY <1>2, <1>3, <1>4, <1>5, <1>6 DEF WSNext

-----------------------------------------------------------------------------
(* The lock and the deadline.                                               *)

\* The types of everything else.
ControlTypes ==
  /\ frames \in 0..MaxFrames
  /\ {message, stuck, gone, waited, nil, badCont, closed, tlsClosed, broken} \subseteq BOOLEAN
  /\ rpc \in {"call", "eof", "over"}
  /\ nil => assembled = <<>>
  /\ wpc \in {"idle", "lock", "write", "failed"}
  /\ writes \in 0..MaxWrites
  /\ cpc \in [Closer -> {"idle", "control", "tls", "done"}]
  /\ ctl \in [Controller -> {"none", "try", "arm", "write", "check", "reset", "unlock"}]
  /\ lock \in Controller \cup {"writer", "free"}
  /\ deadline \in {"none", "soon", "now"}

LockInv == ControlTypes /\ OneHolder /\ Goodbyes /\ Deadlines

LEMMA LockUnchanged ==
  ASSUME LockInv, UNCHANGED <<wpc, writes, cpc, ctl, lock, deadline, closed>>, ControlTypes'
  PROVE  LockInv'
BY DEF LockInv, OneHolder, Goodbyes, Deadlines

\* What the server does.
LEMMA PeerLock ==
  ASSUME LockInv, Peer
  PROVE  LockInv'
<1>1. UNCHANGED <<wpc, writes, cpc, ctl, lock, deadline, closed, tlsClosed, broken,
                  rpc, assembled, nil, badCont>>
  BY DEF Peer, Send, Stall, Leave, readVars, writeVars, connVars
<1>2. frames' \in 0..MaxFrames /\ {message', stuck', gone', waited'} \subseteq BOOLEAN
  <2>1. /\ frames \in 0..MaxFrames /\ MaxFrames \in Nat
        /\ {message, stuck, gone, waited} \subseteq BOOLEAN
    BY SizeType, BoundType, CloserType DEF LockInv, ControlTypes
  <2>2. ASSUME NEW op \in Op, NEW fin \in BOOLEAN, NEW m \in Size \cup {0},
               Send(op, fin, m)
        PROVE  frames' \in 0..MaxFrames /\ {message', stuck', gone', waited'} \subseteq BOOLEAN
    <3>1. frames' \in 0..MaxFrames
      BY <2>1, <2>2 DEF Send
    <3>2. message' \in BOOLEAN
      <4>1. message' = IF op \in {"data", "cont"} THEN ~fin ELSE message
        BY <2>2 DEF Send
      <4>2. CASE fin = TRUE
        BY <2>1, <4>1, <4>2
      <4>3. CASE fin = FALSE
        BY <2>1, <4>1, <4>3
      <4>. QED
        BY <4>2, <4>3
    <3>3. {stuck', gone', waited'} \subseteq BOOLEAN
      BY <2>1, <2>2, Zenon DEF Send
    <3>. QED
      BY <3>1, <3>2, <3>3
  <2>3. CASE Stall \/ Leave
    <3>1. frames' = frames /\ message' = message
      BY <2>3 DEF Stall, Leave
    <3>2. {stuck', gone', waited'} \subseteq BOOLEAN
      BY <2>1, <2>3 DEF Stall, Leave
    <3>. QED
      BY <2>1, <3>1, <3>2
  <2>. QED
    BY <2>2, <2>3 DEF Peer
<1>3. ControlTypes'
  BY <1>1, <1>2 DEF LockInv, ControlTypes
<1>. QED
  BY <1>1, <1>3, LockUnchanged

\* What the reader does, its answers left out.
LEMMA ReadLock ==
  ASSUME DataTypes, LockInv,
         \/ \E size \in ReadSize : ReadRest(size) \/ ReadFrame(size)
         \/ ReadFails \/ ReadEOF
  PROVE  LockInv'
<1>1. ASSUME NEW size \in ReadSize, ReadRest(size) PROVE LockInv'
  <2>1. UNCHANGED <<wpc, writes, cpc, ctl, lock, deadline, closed, tlsClosed, broken, rpc,
                    assembled, nil, badCont, frames, message, stuck, gone, waited>>
    BY <1>1 DEF ReadRest, peerVars, writeVars, connVars
  <2>2. ControlTypes'
    BY <2>1 DEF LockInv, ControlTypes
  <2>. QED
    BY <2>1, <2>2, LockUnchanged
<1>2. CASE ReadFails
  <2>1. /\ UNCHANGED <<wpc, writes, cpc, ctl, lock, deadline, closed, tlsClosed, broken,
                       assembled, nil, badCont, frames, message, stuck, gone, waited>>
        /\ rpc' = "over"
    BY <1>2 DEF ReadFails, peerVars, writeVars, connVars
  <2>2. ControlTypes'
    BY <2>1 DEF LockInv, ControlTypes
  <2>. QED
    BY <2>1, <2>2, LockUnchanged
<1>3. CASE ReadEOF
  <2>1. /\ UNCHANGED <<wpc, writes, cpc, ctl, lock, deadline, tlsClosed, broken,
                       assembled, nil, badCont, frames, message, stuck, gone, waited>>
        /\ rpc' = "over" /\ closed' = TRUE
    BY <1>3 DEF ReadEOF, peerVars, writeVars
  <2>2. ControlTypes'
    BY <2>1 DEF LockInv, ControlTypes
  <2>3. OneHolder' /\ Goodbyes' /\ Deadlines'
    BY <2>1 DEF LockInv, OneHolder, Goodbyes, Deadlines
  <2>. QED
    BY <2>2, <2>3 DEF LockInv
<1>4. ASSUME NEW size \in ReadSize, ReadFrame(size) PROVE LockInv'
  <2>1. /\ UNCHANGED <<wpc, writes, cpc, lock, deadline, closed, tlsClosed, broken,
                       frames, message, stuck, gone, waited>>
        /\ inbox # <<>> /\ ctl["reader"] = "none"
        /\ ctl' = ctl \/ ctl' = [ctl EXCEPT !["reader"] = "try"]
        /\ rpc' \in {rpc, "eof", "over"} /\ badCont' \in {badCont, TRUE}
    BY <1>4 DEF ReadFrame, readVars, writeVars, connVars
  <2>2. PICK q \in Seq(1..pieces) : q = Head(inbox).payload
    <3>1. Head(inbox) \in Frame(pieces)
      BY <2>1 DEF DataTypes
    <3>. QED
      BY <3>1 DEF Frame
  <2>3. nil' \in BOOLEAN /\ (nil' => assembled' = <<>>)
    <3>1. CASE UNCHANGED <<nil, assembled>>
      BY <3>1 DEF LockInv, ControlTypes
    <3>2. CASE nil' = TRUE /\ assembled' = <<>>
      BY <3>2
    <3>3. CASE nil' = (nil /\ q = <<>>) /\ assembled' = assembled \o q
      <4>1. nil' \in BOOLEAN
        BY <3>3
      <4>2. ASSUME nil' PROVE assembled' = <<>>
        <5>1. assembled = <<>> /\ q = <<>>
          BY <3>3, <4>2 DEF LockInv, ControlTypes
        <5>. QED
          BY <3>3, <5>1, ConcatEmptySeq
      <4>. QED
        BY <4>1, <4>2
    <3>. QED
      BY <1>4, <2>2, <3>1, <3>2, <3>3 DEF ReadFrame, Returns, Keeps, readVars
  <2>4. /\ ctl' \in [Controller -> {"none", "try", "arm", "write", "check", "reset", "unlock"}]
        /\ \A p \in Controller : ctl'[p] = ctl[p] \/ (ctl[p] = "none" /\ ctl'[p] = "try")
    BY <2>1 DEF LockInv, ControlTypes, Controller
  <2>5. ControlTypes'
    BY <2>1, <2>3, <2>4 DEF LockInv, ControlTypes
  <2>6. OneHolder' /\ Goodbyes' /\ Deadlines'
    <3>1. \A p \in Controller : ctl'[p] \in Held <=> ctl[p] \in Held
      BY <2>4 DEF Held
    <3>2. OneHolder'
      BY <2>1, <3>1 DEF LockInv, OneHolder
    <3>3. \A p \in Controller :
            /\ ctl'[p] = "unlock" <=> ctl[p] = "unlock"
            /\ ctl'[p] \in {"write", "check", "reset"} <=> ctl[p] \in {"write", "check", "reset"}
      BY <2>4
    <3>4. Deadlines'
      BY <2>1, <3>3 DEF LockInv, Deadlines
    <3>5. Goodbyes'
      <4>1. \A c \in Closer : ctl'[c] = ctl[c] /\ cpc'[c] = cpc[c]
        BY <2>1, CloserType DEF LockInv, ControlTypes, Controller
      <4>. QED
        BY <4>1 DEF LockInv, Goodbyes
    <3>. QED
      BY <3>2, <3>4, <3>5
  <2>. QED
    BY <2>5, <2>6 DEF LockInv
<1>. QED
  BY <1>1, <1>2, <1>3, <1>4

\* What the steps of tryWriteControl leave alone.
LEMMA ControlFrame ==
  ASSUME NEW p \in Controller, Control(p), waited \in BOOLEAN
  PROVE  /\ UNCHANGED <<frames, message, stuck, gone, nil, badCont, closed, tlsClosed, rpc,
                        assembled, wpc, writes, cpc>>
         /\ waited' \in BOOLEAN
<1>1. UNCHANGED <<frames, message, stuck, gone, nil, badCont, closed, tlsClosed, rpc,
                  assembled, wpc, writes, cpc>>
  BY DEF Control, TryLock, Arm, WriteControl, CheckClosed, Reset, Unlock,
         peerVars, readVars, writeVars, connVars
<1>2. CASE UNCHANGED waited
  BY <1>1, <1>2
<1>3. CASE WriteControl(p) /\ ~UNCHANGED waited
  <2>1. waited' = (waited \/ (stuck /\ ~broken /\ ~closed /\ ~gone))
    BY <1>3 DEF WriteControl
  <2>. QED
    BY <1>1, <2>1, Zenon
<1>. QED
  BY <1>2, <1>3 DEF Control, TryLock, Arm, CheckClosed, Reset, Unlock, peerVars

\* A step of tryWriteControl: one goroutine, which has wMu from TryLock to Unlock.
LEMMA ControlLock ==
  ASSUME LockInv, NEW p \in Controller, Control(p)
  PROVE  LockInv'
<1>. DEFINE At == {"none", "try", "arm", "write", "check", "reset", "unlock"}
<1>1. /\ UNCHANGED <<frames, message, stuck, gone, nil, badCont, closed, tlsClosed, rpc,
                     assembled, wpc, writes, cpc>>
      /\ waited' \in BOOLEAN
  BY ControlFrame DEF LockInv, ControlTypes
<1>2. PICK to \in At : ctl' = [ctl EXCEPT ![p] = to]
  BY DEF Control, TryLock, Arm, WriteControl, CheckClosed, Reset, Unlock
<1>3. /\ ctl \in [Controller -> At] /\ ctl' \in [Controller -> At]
      /\ ctl'[p] = to
      /\ \A q \in Controller \ {p} : ctl'[q] = ctl[q]
  BY <1>2 DEF LockInv, ControlTypes
<1>4. \A q \in Controller : q # "writer" /\ q # "free"
  BY CloserType DEF Controller
<1>5. ASSUME lock' \in Controller \cup {"writer", "free"},
             deadline' \in {"none", "soon", "now"}, broken' \in BOOLEAN
      PROVE  ControlTypes'
  BY <1>1, <1>3, <1>5 DEF LockInv, ControlTypes
<1>6. /\ lock = "writer" <=> wpc = "write"
      /\ \A q \in Controller : lock = q <=> ctl[q] \in Held
      /\ wpc \in {"lock", "write"} => writes < MaxWrites
  BY DEF LockInv, OneHolder
<1>7. /\ lock \in Controller \cup {"writer", "free"}
      /\ deadline \in {"none", "soon", "now"} /\ broken \in BOOLEAN
  BY DEF LockInv, ControlTypes
<1>8. Deadlines
  BY DEF LockInv
<1>9. Goodbyes'
  <2>1. ctl[p] # "none"
    BY DEF Control, TryLock, Arm, WriteControl, CheckClosed, Reset, Unlock
  <2>2. \A c \in Closer : cpc[c] # "control" => ctl[c] = "none"
    BY DEF LockInv, Goodbyes
  <2>3. \A c \in Closer : c \in Controller
    BY DEF Controller
  <2>. QED
    BY <1>1, <1>3, <2>1, <2>2, <2>3 DEF Goodbyes
<1>10. CASE TryLock(p)
  <2>1. deadline' = deadline /\ broken' = broken /\ ctl[p] = "try"
    BY <1>10 DEF TryLock
  <2>2. CASE lock = "free" /\ lock' = p /\ to = "arm"
    <3>1. ControlTypes'
      BY <1>5, <1>7, <2>1, <2>2
    <3>2. OneHolder'
      BY <1>1, <1>3, <1>4, <1>6, <2>2 DEF OneHolder, Held
    <3>3. Deadlines'
      BY <1>1, <1>3, <1>8, <2>1, <2>2 DEF Deadlines
    <3>. QED
      BY <1>9, <3>1, <3>2, <3>3 DEF LockInv
  <2>3. CASE lock # "free" /\ lock' = lock /\ to = "none"
    <3>1. ControlTypes'
      BY <1>5, <1>7, <2>1, <2>3
    <3>2. OneHolder'
      BY <1>1, <1>3, <1>6, <2>1, <2>3 DEF OneHolder, Held
    <3>3. Deadlines'
      BY <1>1, <1>3, <1>8, <2>1, <2>3 DEF Deadlines
    <3>. QED
      BY <1>9, <3>1, <3>2, <3>3 DEF LockInv
  <2>. QED
    <3>1. ctl'[p] = "arm" => to = "arm"
      BY <1>3
    <3>2. ctl'[p] = "none" => to = "none"
      BY <1>3
    <3>3. ctl'[p] = [ctl EXCEPT ![p] = "arm"][p] \/ ctl'[p] = [ctl EXCEPT ![p] = "none"][p]
      BY <1>10 DEF TryLock
    <3>. QED
      BY <1>3, <1>10, <2>2, <2>3 DEF TryLock
\* The other steps are the holder's.
<1>11. CASE Arm(p) \/ WriteControl(p) \/ CheckClosed(p) \/ Reset(p) \/ Unlock(p)
  <2>1. ctl[p] \in Held /\ lock = p
    BY <1>6, <1>11 DEF Arm, WriteControl, CheckClosed, Reset, Unlock, Held
  <2>2. \A q \in Controller \ {p} : ctl[q] \notin Held /\ ctl'[q] \notin Held
    BY <1>3, <1>6, <2>1
  <2>3. ASSUME to \in Held, lock' = lock PROVE OneHolder'
    BY <1>1, <1>3, <1>6, <2>1, <2>2, <2>3 DEF OneHolder
  <2>4. CASE Arm(p)
    <3>1. ctl'[p] = "write" /\ lock' = lock /\ deadline' = "soon" /\ broken' = broken
      BY <1>3, <2>4 DEF Arm, LockInv, ControlTypes
    <3>2. Deadlines'
      BY <1>1, <1>3, <1>8, <2>2, <3>1 DEF Deadlines, Held
    <3>. QED
      BY <1>9, <1>3, <1>5, <1>7, <2>3, <3>1, <3>2 DEF LockInv, Held
  <2>5. CASE WriteControl(p)
    <3>1. /\ ctl[p] = "write" /\ ctl'[p] = "check" /\ lock' = lock /\ deadline' = deadline
          /\ broken' \in {broken, TRUE}
      BY <1>3, <2>5 DEF WriteControl
    <3>2. Deadlines'
      BY <1>1, <1>3, <1>8, <2>2, <3>1 DEF Deadlines, Held
    <3>. QED
      BY <1>9, <1>3, <1>5, <1>7, <2>3, <3>1, <3>2 DEF LockInv, Held
  <2>6. CASE CheckClosed(p)
    <3>1. /\ ctl[p] = "check" /\ ctl'[p] = IF closed THEN "unlock" ELSE "reset"
          /\ lock' = lock /\ deadline' = deadline /\ broken' = broken
      BY <1>3, <2>6 DEF CheckClosed, connVars
    <3>2. Deadlines'
      BY <1>1, <1>3, <1>8, <2>2, <3>1 DEF Deadlines, Held
    <3>. QED
      BY <1>9, <1>3, <1>5, <1>7, <2>3, <3>1, <3>2 DEF LockInv, Held
  <2>7. CASE Reset(p)
    <3>1. /\ ctl'[p] = "unlock" /\ lock' = lock /\ deadline' = "none" /\ broken' = broken
      BY <1>3, <2>7 DEF Reset
    <3>2. Deadlines'
      BY <1>1, <1>8, <3>1 DEF Deadlines
    <3>. QED
      BY <1>9, <1>3, <1>5, <1>7, <2>3, <3>1, <3>2 DEF LockInv, Held
  <2>8. CASE Unlock(p)
    <3>1. /\ ctl[p] = "unlock" /\ ctl'[p] = "none" /\ lock' = "free"
          /\ deadline' = deadline /\ broken' = broken
      BY <1>3, <2>8 DEF Unlock
    <3>2. Deadlines'
      BY <1>1, <1>3, <1>8, <2>2, <3>1 DEF Deadlines, Held
    <3>3. OneHolder'
      <4>1. \A q \in Controller : q # "free" /\ ctl'[q] \notin Held
        BY <2>2, <3>1, CloserType DEF Held, Controller
      <4>2. wpc' # "write"
        BY <1>1, <1>4, <1>6, <2>1
      <4>3. wpc' \in {"lock", "write"} => writes' < MaxWrites
        BY <1>1, <1>6
      <4>. QED
        BY <3>1, <4>1, <4>2, <4>3 DEF OneHolder
    <3>. QED
      BY <1>9, <1>5, <1>7, <3>1, <3>2, <3>3 DEF LockInv
  <2>. QED
    BY <1>11, <2>4, <2>5, <2>6, <2>7, <2>8
<1>. QED
  BY <1>10, <1>11 DEF Control

\* What the writer does, which holds wMu while it writes.
LEMMA WriterLock ==
  ASSUME LockInv, WriteCheck \/ Writer
  PROVE  LockInv'
<1>1. UNCHANGED <<frames, message, stuck, gone, waited, nil, badCont, closed, tlsClosed, rpc,
                  assembled, cpc, ctl, deadline>>
  BY DEF WriteCheck, Writer, WriteLock, WriteFrame, peerVars, readVars,
         connVars
<1>2. \A q \in Controller : q # "writer" /\ q # "free"
  BY CloserType DEF Controller
<1>3. ASSUME wpc' \in {"idle", "lock", "write", "failed"}, writes' \in 0..MaxWrites,
             lock' \in Controller \cup {"writer", "free"}, broken' \in BOOLEAN
      PROVE  ControlTypes'
  BY <1>1, <1>3 DEF LockInv, ControlTypes
<1>4. Goodbyes' /\ Deadlines'
  BY <1>1 DEF LockInv, Goodbyes, Deadlines
<1>5. /\ writes \in 0..MaxWrites /\ lock \in Controller \cup {"writer", "free"}
      /\ broken \in BOOLEAN /\ MaxWrites \in Nat
  BY SizeType, BoundType, CloserType DEF LockInv, ControlTypes
<1>6. CASE WriteCheck
  <2>1. /\ wpc = "idle" /\ wpc' \in {"lock", "failed"} /\ writes' = writes /\ lock' = lock
        /\ broken' = broken /\ writes < MaxWrites
    BY <1>6 DEF WriteCheck, connVars
  <2>2. OneHolder'
    BY <1>1, <2>1 DEF LockInv, OneHolder
  <2>. QED
    BY <1>3, <1>4, <1>5, <2>1, <2>2 DEF LockInv
<1>7. CASE WriteLock
  <2>1. /\ lock = "free" /\ lock' = "writer" /\ wpc = "lock" /\ wpc' = "write"
        /\ writes' = writes /\ broken' = broken
    BY <1>7 DEF WriteLock
  <2>2. OneHolder'
    BY <1>1, <1>2, <2>1 DEF LockInv, OneHolder
  <2>. QED
    BY <1>3, <1>4, <1>5, <2>1, <2>2 DEF LockInv
<1>8. CASE WriteFrame
  <2>1. /\ wpc = "write" /\ lock' = "free" /\ wpc' \in {"idle", "failed"}
        /\ broken' \in {broken, TRUE} /\ writes' \in {writes, writes + 1}
    BY <1>8 DEF WriteFrame
  <2>2. lock = "writer"
    BY <2>1 DEF LockInv, OneHolder
  <2>3. OneHolder'
    BY <1>1, <1>2, <2>1, <2>2 DEF LockInv, OneHolder
  <2>4. writes' \in 0..MaxWrites
    BY <1>5, <2>1 DEF LockInv, OneHolder
  <2>. QED
    BY <1>3, <1>4, <1>5, <2>1, <2>3, <2>4 DEF LockInv
<1>. QED
  BY <1>6, <1>7, <1>8 DEF Writer

\* What Close does, its goodbye left out.
LEMMA CloseLock ==
  ASSUME LockInv, NEW c \in Closer,
         Close(c) \/ CloseDeadline(c) \/ CloseTLS(c)
  PROVE  LockInv'
<1>1. UNCHANGED <<frames, message, stuck, gone, waited, nil, badCont, broken, rpc, assembled, wpc,
                  writes, lock>>
  BY DEF Close, CloseDeadline, CloseTLS, peerVars, readVars, writeVars
<1>2. /\ ctl \in [Controller -> {"none", "try", "arm", "write", "check", "reset", "unlock"}]
      /\ cpc \in [Closer -> {"idle", "control", "tls", "done"}]
      /\ {closed, tlsClosed} \subseteq BOOLEAN /\ deadline \in {"none", "soon", "now"}
      /\ c \in Controller /\ Closer \subseteq Controller
  BY DEF LockInv, ControlTypes, Controller
<1>3. ASSUME cpc' \in [Closer -> {"idle", "control", "tls", "done"}],
             ctl' \in [Controller ->
                        {"none", "try", "arm", "write", "check", "reset", "unlock"}],
             {closed', tlsClosed'} \subseteq BOOLEAN, deadline' \in {"none", "soon", "now"}
      PROVE  ControlTypes'
  BY <1>1, <1>3 DEF LockInv, ControlTypes
<1>4. OneHolder /\ Goodbyes /\ Deadlines
  BY DEF LockInv
<1>5. CASE Close(c)
  <2>1. /\ cpc[c] = "idle" /\ closed' = TRUE /\ deadline' = deadline /\ tlsClosed' = tlsClosed
        /\ ctl[c] = "none"
    BY <1>4, <1>5 DEF Close, Goodbyes
  <2>2. CASE ctl' = ctl /\ cpc' = [cpc EXCEPT ![c] = "tls"]
    <3>1. ControlTypes'
      BY <1>2, <1>3, <2>1, <2>2
    <3>2. OneHolder' /\ Goodbyes' /\ Deadlines'
      BY <1>1, <1>2, <1>4, <2>1, <2>2 DEF OneHolder, Goodbyes, Deadlines
    <3>. QED
      BY <3>1, <3>2 DEF LockInv
  <2>3. CASE ctl' = [ctl EXCEPT ![c] = "try"] /\ cpc' = [cpc EXCEPT ![c] = "control"]
    <3>1. ControlTypes'
      BY <1>2, <1>3, <2>1, <2>3
    <3>2. \A p \in Controller : ctl'[p] \in Held <=> ctl[p] \in Held
      BY <1>2, <2>1, <2>3 DEF Held
    <3>3. OneHolder'
      BY <1>1, <1>4, <3>2 DEF OneHolder
    <3>4. Goodbyes'
      BY <1>2, <1>4, <2>3 DEF Goodbyes
    <3>5. Deadlines'
      BY <1>1, <1>2, <1>4, <2>1, <2>3 DEF Deadlines
    <3>. QED
      BY <3>1, <3>3, <3>4, <3>5 DEF LockInv
  <2>. QED
    BY <1>5, <2>2, <2>3 DEF Close
<1>6. CASE CloseDeadline(c)
  <2>1. /\ cpc[c] = "control" /\ ctl[c] = "none" /\ cpc' = [cpc EXCEPT ![c] = "tls"]
        /\ deadline' = "now" /\ UNCHANGED <<ctl, closed, tlsClosed>>
    BY <1>6 DEF CloseDeadline
  <2>2. closed
    BY <1>4, <2>1 DEF Deadlines
  <2>3. ControlTypes'
    BY <1>2, <1>3, <2>1
  <2>4. OneHolder' /\ Goodbyes' /\ Deadlines'
    BY <1>1, <1>2, <1>4, <2>1, <2>2 DEF OneHolder, Goodbyes, Deadlines
  <2>. QED
    BY <2>3, <2>4 DEF LockInv
<1>7. CASE CloseTLS(c)
  <2>1. /\ cpc[c] = "tls" /\ cpc' = [cpc EXCEPT ![c] = "done"] /\ tlsClosed' = TRUE
        /\ UNCHANGED <<ctl, closed, deadline>>
    BY <1>7 DEF CloseTLS
  <2>2. closed
    BY <1>4, <2>1 DEF Deadlines
  <2>3. ControlTypes'
    BY <1>2, <1>3, <2>1
  <2>4. OneHolder' /\ Goodbyes' /\ Deadlines'
    BY <1>1, <1>2, <1>4, <2>1, <2>2 DEF OneHolder, Goodbyes, Deadlines
  <2>. QED
    BY <2>3, <2>4 DEF LockInv
<1>. QED
  BY <1>5, <1>6, <1>7

\* The invariant of everything else is kept by every step.
LEMMA LockStep ==
  ASSUME DataTypes, LockInv, [WSNext]_wsConnVars
  PROVE  LockInv'
<1>1. CASE UNCHANGED wsConnVars
  <2>1. UNCHANGED <<frames, message, stuck, gone, waited, nil, badCont, closed, tlsClosed,
                    broken, rpc, assembled, wpc, writes, cpc, ctl, lock, deadline>>
    BY <1>1 DEF wsConnVars, peerVars, readVars, writeVars, connVars
  <2>2. ControlTypes'
    BY <2>1 DEF LockInv, ControlTypes
  <2>. QED
    BY <2>1, <2>2, LockUnchanged
<1>2. "reader" \in Controller /\ Closer \subseteq Controller
  BY DEF Controller
<1>3. CASE Peer
  BY <1>3, PeerLock
<1>4. CASE Reader
  BY <1>2, <1>4, ReadLock, ControlLock DEF Reader
<1>5. CASE WriteCheck \/ Writer
  BY <1>5, WriterLock
<1>6. ASSUME NEW c \in Closer, Close(c) \/ CloseSteps(c) PROVE LockInv'
  BY <1>2, <1>6, CloseLock, ControlLock DEF CloseSteps
<1>. QED
  BY <1>1, <1>3, <1>4, <1>5, <1>6 DEF WSNext

-----------------------------------------------------------------------------
(* The results.                                                             *)

LEMMA WSParts == WSInv <=> DataTypes /\ DataInv /\ LockInv
BY DEF WSInv, WSTypeOK, DataTypes, ControlTypes, LockInv, Frame

LEMMA WSInvariant ==
  WSSpec => []WSInv
<1>1. ASSUME WSInv, [WSNext]_wsConnVars PROVE WSInv'
  <2>1. DataTypes' /\ DataInv'
    BY <1>1, WSParts, DataStep
  <2>2. LockInv'
    BY <1>1, WSParts, LockStep
  <2>. QED
    BY <2>1, <2>2 DEF WSInv, WSTypeOK, DataTypes, ControlTypes, LockInv, Frame
<1>2. WSInit => WSInv
  BY WSInvInit
<1>. QED
  BY <1>1, <1>2, PTL DEF WSSpec

\* Every variable of the connection keeps its type.
THEOREM ConnectionTypes ==
  WSSpec => []WSTypeOK
<1>1. WSInv => WSTypeOK
  BY DEF WSInv
<1>. QED
  BY <1>1, WSInvariant, PTL

\* Whatever the fragments, the control frames between them and the sizes of the
\* caller's buffers: what Read has taken from the connection is delivered, or waits
\* for the next calls, in the order it was sent and without a gap (Read of wsConn).
THEOREM PiecesInOrder ==
  WSSpec => []DataInOrder
<1>1. WSInv => DataInOrder
  BY DEF WSInv, DataInv, Split, InOrder, Waits, Gathered, DataInOrder, Got, OnItsWay
<1>. QED
  BY <1>1, WSInvariant, PTL

\* What can excuse a broken connection stays true.
LEMMA ReasonsStay ==
  ASSUME [WSNext]_wsConnVars, closed \/ tlsClosed \/ gone \/ waited
  PROVE  closed' \/ tlsClosed' \/ gone' \/ waited'
<1>1. CASE UNCHANGED wsConnVars
  BY <1>1 DEF wsConnVars, peerVars, connVars
<1>2. CASE Peer
  BY <1>2 DEF Peer, Send, Stall, Leave, connVars
<1>3. ASSUME NEW p \in Controller, Control(p)
      PROVE  closed' \/ tlsClosed' \/ gone' \/ waited'
  BY <1>3 DEF Control, TryLock, Arm, WriteControl, CheckClosed, Reset, Unlock, peerVars, connVars
<1>4. CASE Reader
  <2>1. "reader" \in Controller
    BY DEF Controller
  <2>. QED
    BY <1>3, <1>4, <2>1 DEF Reader, ReadRest, ReadFrame, ReadFails, ReadEOF, peerVars, connVars
<1>5. CASE WriteCheck \/ Writer
  BY <1>5 DEF WriteCheck, Writer, WriteLock, WriteFrame, peerVars, connVars
<1>6. ASSUME NEW c \in Closer, Close(c) \/ CloseSteps(c)
      PROVE  closed' \/ tlsClosed' \/ gone' \/ waited'
  <2>1. c \in Controller
    BY DEF Controller
  <2>. QED
    BY <1>3, <1>6, <2>1 DEF Close, CloseSteps, CloseDeadline, CloseTLS, peerVars
<1>. QED
  BY <1>1, <1>2, <1>4, <1>5, <1>6 DEF WSNext

\* A write that fails under the writer's own hold of wMu has a reason: the deadline that
\* is in force then is a Close's, never the second of a control frame.
LEMMA WriterHasReason ==
  ASSUME WSInv, WriteFrame, ~broken, broken' \/ wpc' = "failed"
  PROVE  closed \/ tlsClosed \/ gone
<1>1. wpc = "write" /\ Fails
  BY DEF WriteFrame
<1>2. lock = "writer"
  BY <1>1 DEF WSInv, OneHolder
<1>3. \A p \in Controller : ctl[p] \notin Held
  <2>1. \A p \in Controller : p # "writer"
    BY CloserType DEF Controller
  <2>. QED
    BY <1>2, <2>1 DEF WSInv, OneHolder
<1>4. TimesOut => closed
  BY <1>3 DEF WSInv, Deadlines, Held, TimesOut
<1>. QED
  BY <1>1, <1>4 DEF Fails

\* A control frame that breaks the connection has itself waited for a server that does not
\* read, or has found it closed or gone.
LEMMA ControlHasReason ==
  ASSUME WSInv, NEW p \in Controller, WriteControl(p), ~broken, broken'
  PROVE  closed' \/ tlsClosed' \/ gone' \/ waited'
<1>1. /\ Fails /\ waited' = (waited \/ (stuck /\ ~broken /\ ~closed /\ ~gone))
      /\ UNCHANGED <<closed, tlsClosed, gone>>
  BY DEF WriteControl
<1>2. deadline = "now" => closed
  BY DEF WSInv, Deadlines
<1>. QED
  BY <1>1, <1>2 DEF Fails, TimesOut

\* The connection breaks, and the writer fails, for a reason only: Close or a close frame,
\* the end of the server, or a control frame that has itself waited its second in vain for
\* a server that does not read. The second of a control frame is never in force while the
\* writer holds wMu, unless a Close has begun (tryWriteControl, writeFrame, Close).
THEOREM WritesFailForReason ==
  WSSpec => []WriteFailsForReason
<1>1. WSInit => WriteFailsForReason
  BY DEF WSInit, WriteFailsForReason
<1>2. ASSUME WSInv, WriteFailsForReason, [WSNext]_wsConnVars
      PROVE  WriteFailsForReason'
  <2>1. CASE broken \/ wpc = "failed"
    BY <1>2, <2>1, ReasonsStay DEF WriteFailsForReason
  <2>2. CASE ~broken /\ wpc # "failed" /\ (broken' \/ wpc' = "failed")
    <3>1. WriteCheck \/ WriteFrame \/ \E p \in Controller : WriteControl(p)
      <4>1. "reader" \in Controller /\ Closer \subseteq Controller
        BY DEF Controller
      <4>. QED
        BY <1>2, <2>2, <4>1 DEF WSNext, wsConnVars, writeVars, connVars, Peer, Send, Stall,
             Leave, Reader, ReadRest, ReadFrame, ReadFails, ReadEOF, Control, TryLock,
             Arm, CheckClosed, Reset, Unlock, Writer, WriteLock,
             Close, CloseSteps, CloseDeadline, CloseTLS
    <3>2. CASE WriteCheck
      BY <2>2, <3>2 DEF WriteCheck, WriteFailsForReason, connVars
    <3>3. CASE WriteFrame
      BY <1>2, <2>2, <3>3, WriterHasReason DEF WriteFrame, WriteFailsForReason, peerVars
    <3>4. ASSUME NEW p \in Controller, WriteControl(p) PROVE WriteFailsForReason'
      BY <1>2, <2>2, <3>4, ControlHasReason DEF WriteControl, WriteFailsForReason, writeVars
    <3>. QED
      BY <3>1, <3>2, <3>3, <3>4
  <2>3. CASE ~(broken' \/ wpc' = "failed")
    BY <2>3 DEF WriteFailsForReason
  <2>. QED
    BY <2>1, <2>2, <2>3
<1>. QED
  BY <1>1, <1>2, WSInvariant, PTL DEF WSSpec
=============================================================================
