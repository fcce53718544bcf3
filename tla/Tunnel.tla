------------------------------- MODULE Tunnel --------------------------------
(***************************************************************************)
(* The Cloudflare Worker, worker/cf-tunnel.js: one WebSocket of the proxy  *)
(* and one TCP connection to a data centre, tied together by the handlers  *)
(* of two events and an asynchronous loop. A step is what runs between two *)
(* awaits that may really wait.                                            *)
(*                                                                         *)
(* Of the runtime it is assumed that events of a WebSocket come in order,  *)
(* "close" last and also when the other end is lost; that a                *)
(* WritableStream writes in the order of the calls and finishes its queue  *)
(* before close() resolves; that once a write has failed the others do;    *)
(* and that socket.close() ends both streams at once; and that messages    *)
(* are ArrayBuffers, the default of a Worker, or strings: a Blob would be  *)
(* converted by a promise of its own, and the writes of two could swap.    *)
(* Messages and what the data centre sends are numbered.                   *)
(***************************************************************************)
EXTENDS Naturals, Sequences

CONSTANTS
  MaxUp, MaxDown        \* bounds on what proxy and data centre send

ASSUME TunnelConstants == {MaxUp, MaxDown} \subseteq Nat

VARIABLES
  status,     \* of the response to the upgrade, 0 before it
  up,         \* how many messages the proxy has sent
  events,     \* those of them that wait to be handled
  queue,      \* written to tcpWriter, not yet to the network
  writer,     \* of tcpWriter: "open", "closing", "closed", "errored"
  dcGot,      \* what the data centre has received
  proxy,      \* of the proxy's end: "open", "closed", "seen" after the close event
  server,     \* of the WebSocket: "open", "closed" after server.close()
  dc,         \* of the data centre: "open", "ended" (FIN), "reset"
  down,       \* how many pieces it has sent
  read,       \* how many of them were read
  proxyGot,   \* what the proxy was sent
  loop,       \* the reading loop: "read", "finally", "over"
  socket      \* "open", "closed" after socket.close()

wsVars == <<up, events, proxy>>
outVars == <<queue, writer, dcGot>>
inVars == <<dc, down, read, proxyGot, loop>>
vars == <<status, server, socket, wsVars, outVars, inVars>>

TypeOK ==
  /\ status \in {0, 101, 400, 404, 426, 502}
  /\ up \in 0..MaxUp /\ down \in 0..MaxDown /\ read \in 0..MaxDown
  /\ events \in Seq(1..MaxUp) /\ queue \in Seq(1..MaxUp) /\ dcGot \in Seq(1..MaxUp)
  /\ proxyGot \in Seq(1..MaxDown)
  /\ writer \in {"open", "closing", "closed", "errored"}
  /\ proxy \in {"open", "closed", "seen"} /\ dc \in {"open", "ended", "reset"}
  /\ loop \in {"read", "finally", "over"}
  /\ server \in {"open", "closed"} /\ socket \in {"open", "closed"}

Init ==
  /\ status = 0 /\ up = 0 /\ down = 0 /\ read = 0
  /\ events = <<>> /\ queue = <<>> /\ dcGot = <<>> /\ proxyGot = <<>>
  /\ writer = "open" /\ proxy = "open" /\ server = "open" /\ dc = "open"
  /\ loop = "read" /\ socket = "open"

-----------------------------------------------------------------------------

\* fetch: no upgrade, another path, no address, no connection, or a tunnel.
Fetch ==
  /\ status = 0 /\ status' \in {426, 404, 400, 502, 101}
  /\ UNCHANGED <<server, socket, wsVars, outVars, inVars>>

Running == status = 101

\* tcpWriter.write: a writer that is not open rejects, and the WebSocket is closed.
Write(msg) ==
  IF writer = "open"
    THEN queue' = Append(queue, msg) /\ UNCHANGED server
    ELSE server' = "closed" /\ UNCHANGED queue

\* Mutant: the bytes of a message come from a promise that may take its time.
MessageConverted ==
  /\ Running /\ events # <<>>
  /\ \E i \in DOMAIN events :
       /\ events' = SubSeq(events, 1, i - 1) \o SubSeq(events, i + 1, Len(events))
       /\ Write(events[i])
  /\ UNCHANGED <<status, socket, up, proxy, writer, dcGot, inVars>>

\* The message event. toBytes has the bytes of an ArrayBuffer or a string at once, so that
\* the write follows before the next event.
Message ==
  /\ Running /\ events # <<>>
  /\ events' = Tail(events)
  /\ Write(Head(events))
  /\ UNCHANGED <<status, socket, up, proxy, writer, dcGot, inVars>>

\* The stream writes the head of its queue, or the connection fails.
Sink ==
  /\ queue # <<>> /\ writer \in {"open", "closing"} /\ socket = "open"
  /\ \/ /\ dc # "reset"
        /\ dcGot' = Append(dcGot, Head(queue)) /\ queue' = Tail(queue)
        /\ UNCHANGED <<writer, server>>
     \/ /\ dc # "open"
        /\ writer' = "errored" /\ queue' = <<>> /\ server' = "closed"
        /\ UNCHANGED dcGot
  /\ UNCHANGED <<status, socket, wsVars, inVars>>

\* socket.close(): a write that is still queued is rejected.
CloseSocket ==
  /\ socket' = "closed" /\ queue' = <<>>
  /\ writer' = IF queue = <<>> /\ writer # "errored" THEN "closed" ELSE "errored"

\* Mutant: the close of the writer is not awaited.
CloseAtOnce ==
  /\ Running /\ proxy = "closed" /\ events = <<>>
  /\ proxy' = "seen"
  /\ CloseSocket
  /\ UNCHANGED <<status, server, up, events, dcGot, inVars>>

\* The close event: tcpWriter.close() is called ...
Closing ==
  /\ Running /\ proxy = "closed" /\ events = <<>>
  /\ proxy' = "seen"
  /\ writer' = IF writer = "open" THEN "closing" ELSE writer
  /\ UNCHANGED <<status, server, socket, up, events, queue, dcGot, inVars>>

\* ... and when it resolves or rejects, socket.close().
Closed ==
  /\ proxy = "seen" /\ socket = "open"
  /\ queue = <<>> \/ writer = "errored"
  /\ CloseSocket
  /\ UNCHANGED <<status, server, wsVars, dcGot, inVars>>

\* tcpReader.read() returns a value, which is sent: to a WebSocket that is closed that is
\* an error.
ReadValue ==
  /\ Running /\ loop = "read" /\ socket = "open" /\ dc # "reset" /\ read < down
  /\ read' = read + 1
  /\ IF server = "open"
       THEN proxyGot' = Append(proxyGot, read + 1) /\ UNCHANGED loop
       ELSE loop' = "finally" /\ UNCHANGED proxyGot
  /\ UNCHANGED <<status, server, socket, dc, down, wsVars, outVars>>

\* read() says done, or fails.
ReadDone ==
  /\ Running /\ loop = "read" /\ loop' = "finally"
  /\ \/ socket = "closed" \/ dc = "reset" \/ (dc = "ended" /\ read = down)
  /\ UNCHANGED <<status, server, socket, dc, down, read, proxyGot, wsVars, outVars>>

\* Mutant: the WebSocket is left to the runtime.
FinallySocket ==
  /\ loop = "finally" /\ loop' = "over"
  /\ CloseSocket
  /\ UNCHANGED <<status, server, dc, down, read, proxyGot, wsVars, dcGot>>

Finally ==
  /\ loop = "finally" /\ loop' = "over"
  /\ server' = "closed"
  /\ CloseSocket
  /\ UNCHANGED <<status, dc, down, read, proxyGot, wsVars, dcGot>>

\* The two ends. The proxy closes when it likes, and when it is told to.
ProxySends ==
  /\ Running /\ proxy = "open" /\ up < MaxUp
  /\ up' = up + 1 /\ events' = Append(events, up + 1)
  /\ UNCHANGED <<status, server, socket, proxy, outVars, inVars>>

ProxyCloses ==
  /\ Running /\ proxy = "open" /\ proxy' = "closed"
  /\ UNCHANGED <<status, server, socket, up, events, outVars, inVars>>

DCSends ==
  /\ Running /\ dc = "open" /\ socket = "open" /\ down < MaxDown
  /\ down' = down + 1
  /\ UNCHANGED <<status, server, socket, dc, read, proxyGot, loop, wsVars, outVars>>

DCCloses ==
  /\ Running /\ dc = "open" /\ dc' \in {"ended", "reset"}
  /\ UNCHANGED <<status, server, socket, down, read, proxyGot, loop, wsVars, outVars>>

Next ==
  \/ Fetch \/ Message \/ Sink \/ Closing \/ Closed
  \/ ReadValue \/ ReadDone \/ Finally
  \/ ProxySends \/ ProxyCloses \/ DCSends \/ DCCloses

\* Fair is what the runtime does by itself, a network that takes or refuses what is
\* written, and the proxy once it has seen the close: its relay then closes.
Fairness ==
  /\ WF_vars(Message) /\ WF_vars(Sink)
  /\ WF_vars(Closing) /\ WF_vars(Closed)
  /\ WF_vars(ReadValue) /\ WF_vars(ReadDone) /\ WF_vars(Finally)
  /\ WF_vars(server = "closed" /\ ProxyCloses)

FairSpec == Init /\ [][Next]_vars /\ Fairness

-----------------------------------------------------------------------------
(* Properties. *)

Numbered(s) == s = [i \in 1..Len(s) |-> i]

\* Each end receives what the other one sent, in order and without a gap, wherever
\* the tunnel breaks.
TunnelInOrder == Numbered(dcGot) /\ Numbered(proxyGot)

\* The last messages before a close are not cut off: when the Worker has closed a
\* healthy connection because the proxy closed, the data centre has everything; and
\* when it has closed because the data centre ended, the proxy has everything that it
\* could still be sent.
LastWordsArrive ==
  /\ proxy = "seen" /\ socket = "closed" /\ dc = "open" => Len(dcGot) = up
  /\ loop = "over" /\ dc = "ended" /\ proxy = "open" /\ writer # "errored"
       => Len(proxyGot) = down

\* When either end has closed, so do the socket, the WebSocket and the loop.
TunnelEnds ==
  (Running /\ (proxy # "open" \/ dc # "open"))
    ~> (socket = "closed" /\ loop = "over" /\ server = "closed")
=============================================================================
