------------------------------- MODULE WSConn -------------------------------
(***************************************************************************)
(* wsConn of internal/mtproto/wsdial.go: one goroutine reads, one writes,  *)
(* and the handler and the idle reaper may both close. Payload pieces are  *)
(* numbered in the order the server sends them.                            *)
(*                                                                         *)
(* crypto/tls: a write is atomic, one that times out or fails makes every  *)
(* later one fail, and Close interrupts the others. A peer that does not   *)
(* read (stuck) blocks a write until a deadline or Close.                  *)
(***************************************************************************)
EXTENDS Naturals, Sequences

CONSTANTS
  Closer,       \* goroutines that call Close
  Size,         \* pieces in the payload of a data frame that is not empty
  ReadSize,     \* pieces a caller's buffer holds
  MaxFrames,    \* bound: frames of the server
  MaxWrites     \* bound: writes

ASSUME SizeType == Size \subseteq Nat /\ ReadSize \subseteq Nat \ {0}
ASSUME BoundType == MaxFrames \in Nat /\ MaxWrites \in Nat
ASSUME CloserType == "reader" \notin Closer /\ "writer" \notin Closer /\ "free" \notin Closer

VARIABLES
  inbox,      \* frames on their way to us
  frames,     \* how many the server has sent
  pieces,     \* how many pieces
  message,    \* the server has sent a first fragment and not the last
  stuck,      \* the server does not read
  gone,       \* the server's end is closed
  waited,     \* history: the connection broke when a control frame had waited its second for
              \* a server that does not read
  rpc,        \* the reader: in or between calls of Read, at EOF, or over
  assembled,  \* fragments of this call
  nil,        \* whether assembled is nil
  rxBuf,      \* what did not fit in the caller's buffer
  delivered,  \* what the caller has got
  badCont,    \* Read failed with "continuation frame without prior data frame"
  wpc,        \* the writer
  writes,     \* its writes so far
  cpc,        \* the closers
  ctl,        \* where tryWriteControl of each goroutine is
  lock,       \* wMu
  deadline,   \* the write deadline
  closed,     \* closed of the connection
  tlsClosed,  \* the TLS connection is closed
  broken      \* a write has failed

peerVars == <<inbox, frames, pieces, message, stuck, gone, waited>>
readVars == <<rpc, assembled, nil, rxBuf, delivered, badCont>>
writeVars == <<wpc, writes>>
connVars == <<lock, deadline, closed, tlsClosed, broken>>
wsConnVars == <<peerVars, readVars, writeVars, cpc, ctl, connVars>>

Controller == Closer \cup {"reader"}
Op == {"data", "cont", "ping", "pong", "close", "bad"}

WSTypeOK ==
  /\ inbox \in Seq([op : Op, fin : BOOLEAN, payload : Seq(1..pieces)])
  /\ frames \in 0..MaxFrames /\ pieces \in Nat
  /\ {message, stuck, gone, waited, nil, badCont, closed, tlsClosed, broken} \subseteq BOOLEAN
  /\ rpc \in {"call", "eof", "over"}
  /\ {assembled, rxBuf, delivered} \subseteq Seq(1..pieces)
  /\ nil => assembled = <<>>
  /\ wpc \in {"idle", "lock", "write", "failed"}
  /\ writes \in 0..MaxWrites
  /\ cpc \in [Closer -> {"idle", "control", "tls", "done"}]
  /\ ctl \in [Controller -> {"none", "try", "arm", "write", "check", "reset", "unlock"}]
  /\ lock \in Controller \cup {"writer", "free"}
  /\ deadline \in {"none", "soon", "now"}

WSInit ==
  /\ inbox = <<>> /\ frames = 0 /\ pieces = 0
  /\ message = FALSE /\ stuck = FALSE /\ gone = FALSE /\ waited = FALSE
  /\ rpc = "call" /\ assembled = <<>> /\ nil = TRUE
  /\ rxBuf = <<>> /\ delivered = <<>> /\ badCont = FALSE
  /\ wpc = "idle" /\ writes = 0
  /\ cpc = [c \in Closer |-> "idle"]
  /\ ctl = [p \in Controller |-> "none"]
  /\ lock = "free" /\ deadline = "none"
  /\ closed = FALSE /\ tlsClosed = FALSE /\ broken = FALSE

-----------------------------------------------------------------------------
(* The server. It fragments as the protocol has it. *)

Send(op, fin, n) ==
  /\ ~gone /\ frames < MaxFrames
  /\ op = "data" => ~message
  /\ op = "cont" => message
  /\ op \notin {"data", "cont"} => fin /\ n = 0
  /\ frames' = frames + 1
  /\ pieces' = pieces + n
  /\ message' = IF op \in {"data", "cont"} THEN ~fin ELSE message
  /\ inbox' = Append(inbox, [op |-> op, fin |-> fin,
                             payload |-> [i \in 1..n |-> pieces + i]])
  /\ UNCHANGED <<stuck, gone, waited, readVars, writeVars, cpc, ctl, connVars>>

\* It stops reading or goes on, while there is a connection.
Stall ==
  /\ ~gone /\ ~tlsClosed /\ stuck' = ~stuck
  /\ UNCHANGED <<inbox, frames, pieces, message, gone, waited, readVars, writeVars, cpc, ctl,
                 connVars>>

Leave ==
  /\ ~gone /\ gone' = TRUE
  /\ UNCHANGED <<inbox, frames, pieces, message, stuck, waited, readVars, writeVars, cpc, ctl,
                 connVars>>

-----------------------------------------------------------------------------
(* Read. *)

\* A call with pieces left over from an earlier one.
ReadRest(size) ==
  /\ rpc = "call" /\ ctl["reader"] = "none" /\ rxBuf # <<>>
  /\ LET n == IF size < Len(rxBuf) THEN size ELSE Len(rxBuf) IN
     /\ delivered' = delivered \o SubSeq(rxBuf, 1, n)
     /\ rxBuf' = SubSeq(rxBuf, n + 1, Len(rxBuf))
  /\ UNCHANGED <<peerVars, rpc, assembled, nil, badCont, writeVars, cpc, ctl, connVars>>

\* Mutant: what does not fit is lost.
ReturnsShort(full, size) ==
  LET n == IF size < Len(full) THEN size ELSE Len(full) IN
  /\ delivered' = delivered \o SubSeq(full, 1, n)
  /\ UNCHANGED rxBuf
  /\ assembled' = <<>> /\ nil' = TRUE

\* The call returns what fits of a whole message and keeps the rest.
Returns(full, size) ==
  LET n == IF size < Len(full) THEN size ELSE Len(full) IN
  /\ delivered' = delivered \o SubSeq(full, 1, n)
  /\ rxBuf' = SubSeq(full, n + 1, Len(full))
  /\ assembled' = <<>> /\ nil' = TRUE

\* A fragment is kept; append to nil of nothing is nil.
Keeps(payload) ==
  /\ assembled' = assembled \o payload
  /\ nil' = (nil /\ payload = <<>>)
  /\ UNCHANGED <<delivered, rxBuf>>

\* One turn of the loop of Read.
ReadFrame(size) ==
  /\ rpc = "call" /\ ctl["reader"] = "none" /\ rxBuf = <<>> /\ inbox # <<>>
  /\ inbox' = Tail(inbox)
  /\ LET f == Head(inbox) IN
     \/ /\ f.op = "data" \/ (f.op = "cont" /\ ~nil)
        /\ IF f.fin THEN Returns(assembled \o f.payload, size) ELSE Keeps(f.payload)
        /\ UNCHANGED <<rpc, badCont, ctl>>
     \/ /\ f.op = "cont" /\ nil
        /\ badCont' = TRUE /\ rpc' = "over"
        /\ UNCHANGED <<assembled, nil, rxBuf, delivered, ctl>>
     \/ /\ f.op = "ping"
        /\ ctl' = [ctl EXCEPT !["reader"] = "try"]
        /\ UNCHANGED readVars
     \/ f.op = "pong" /\ UNCHANGED <<readVars, ctl>>
     \/ /\ f.op = "close"
        /\ ctl' = [ctl EXCEPT !["reader"] = "try"]
        /\ rpc' = "eof"
        /\ UNCHANGED <<assembled, nil, rxBuf, delivered, badCont>>
     \/ /\ f.op = "bad" /\ rpc' = "over"
        /\ UNCHANGED <<assembled, nil, rxBuf, delivered, badCont, ctl>>
  /\ UNCHANGED <<frames, pieces, message, stuck, gone, waited, writeVars, cpc, connVars>>

\* The connection ends under the reader; what bufio holds may still be read.
ReadFails ==
  /\ rpc = "call" /\ ctl["reader"] = "none" /\ rxBuf = <<>>
  /\ tlsClosed \/ (gone /\ inbox = <<>>)
  /\ rpc' = "over"
  /\ UNCHANGED <<peerVars, assembled, nil, rxBuf, delivered, badCont, writeVars, cpc, ctl, connVars>>

\* After the answer to a close frame: closed.Store(true) and io.EOF.
ReadEOF ==
  /\ rpc = "eof" /\ ctl["reader"] = "none"
  /\ closed' = TRUE /\ rpc' = "over"
  /\ UNCHANGED <<peerVars, assembled, nil, rxBuf, delivered, badCont, writeVars, cpc, ctl,
                 lock, deadline, tlsClosed, broken>>

-----------------------------------------------------------------------------
(* Write, and what it shares with tryWriteControl. *)

Succeeds == ~stuck /\ ~gone /\ ~tlsClosed /\ ~broken /\ deadline # "now"
TimesOut == deadline = "now" \/ (stuck /\ deadline = "soon")
\* A write that is neither over nor interrupted is blocked.
Fails == tlsClosed \/ broken \/ gone \/ TimesOut

\* The writer checks closed before it waits for wMu.
WriteCheck ==
  /\ wpc = "idle" /\ writes < MaxWrites
  /\ wpc' = IF closed THEN "failed" ELSE "lock"
  /\ UNCHANGED <<peerVars, readVars, writes, cpc, ctl, connVars>>

WriteLock ==
  /\ wpc = "lock" /\ lock = "free"
  /\ lock' = "writer" /\ wpc' = "write"
  /\ UNCHANGED <<peerVars, readVars, writes, cpc, ctl, deadline, closed, tlsClosed, broken>>

WriteFrame ==
  /\ wpc = "write"
  /\ \/ Succeeds /\ wpc' = "idle" /\ writes' = writes + 1 /\ UNCHANGED broken
     \/ Fails /\ wpc' = "failed" /\ broken' = TRUE /\ UNCHANGED writes
  /\ lock' = "free"
  /\ UNCHANGED <<peerVars, readVars, cpc, ctl, deadline, closed, tlsClosed>>

\* Mutant: the frame is written whoever holds wMu.
NoLock(p) ==
  /\ ctl[p] = "try" /\ ctl' = [ctl EXCEPT ![p] = "arm"]
  /\ UNCHANGED <<peerVars, readVars, writeVars, cpc, connVars>>

\* Mutant: Lock for TryLock.
WaitLock(p) ==
  /\ ctl[p] = "try" /\ lock = "free"
  /\ lock' = p /\ ctl' = [ctl EXCEPT ![p] = "arm"]
  /\ UNCHANGED <<peerVars, readVars, writeVars, cpc, deadline, closed, tlsClosed, broken>>

\* tryWriteControl: nothing is sent when wMu is taken.
TryLock(p) ==
  /\ ctl[p] = "try"
  /\ \/ lock = "free" /\ lock' = p /\ ctl' = [ctl EXCEPT ![p] = "arm"]
     \/ lock # "free" /\ ctl' = [ctl EXCEPT ![p] = "none"] /\ UNCHANGED lock
  /\ UNCHANGED <<peerVars, readVars, writeVars, cpc, deadline, closed, tlsClosed, broken>>

\* The deadline of a second.
Arm(p) ==
  /\ ctl[p] = "arm" /\ ctl' = [ctl EXCEPT ![p] = "write"]
  /\ deadline' = "soon"
  /\ UNCHANGED <<peerVars, readVars, writeVars, cpc, lock, closed, tlsClosed, broken>>

WriteControl(p) ==
  /\ ctl[p] = "write" /\ ctl' = [ctl EXCEPT ![p] = "check"]
  /\ \/ Succeeds /\ UNCHANGED <<broken, waited>>
     \/ Fails /\ broken' = TRUE /\ waited' = (waited \/ (stuck /\ ~broken /\ ~closed /\ ~gone))
  /\ UNCHANGED <<inbox, frames, pieces, message, stuck, gone, readVars, writeVars, cpc, lock,
                 deadline, closed, tlsClosed>>

\* The deadline is taken back unless the connection is closed by now.
CheckClosed(p) ==
  /\ ctl[p] = "check"
  /\ ctl' = [ctl EXCEPT ![p] = IF closed THEN "unlock" ELSE "reset"]
  /\ UNCHANGED <<peerVars, readVars, writeVars, cpc, connVars>>

Reset(p) ==
  /\ ctl[p] = "reset" /\ ctl' = [ctl EXCEPT ![p] = "unlock"]
  /\ deadline' = "none"
  /\ UNCHANGED <<peerVars, readVars, writeVars, cpc, lock, closed, tlsClosed, broken>>

Unlock(p) ==
  /\ ctl[p] = "unlock" /\ ctl' = [ctl EXCEPT ![p] = "none"]
  /\ lock' = "free"
  /\ UNCHANGED <<peerVars, readVars, writeVars, cpc, deadline, closed, tlsClosed, broken>>

Control(p) ==
  TryLock(p) \/ Arm(p) \/ WriteControl(p) \/ CheckClosed(p) \/ Reset(p) \/ Unlock(p)

-----------------------------------------------------------------------------
(* Close. *)

\* closed.Swap(true): the first one says goodbye.
Close(c) ==
  /\ cpc[c] = "idle" /\ closed' = TRUE
  /\ IF closed
       THEN cpc' = [cpc EXCEPT ![c] = "tls"] /\ UNCHANGED ctl
       ELSE /\ cpc' = [cpc EXCEPT ![c] = "control"]
            /\ ctl' = [ctl EXCEPT ![c] = "try"]
  /\ UNCHANGED <<peerVars, readVars, writeVars, lock, deadline, tlsClosed, broken>>

\* The goodbye is over: a blocked writer is interrupted.
CloseDeadline(c) ==
  /\ cpc[c] = "control" /\ ctl[c] = "none"
  /\ cpc' = [cpc EXCEPT ![c] = "tls"] /\ deadline' = "now"
  /\ UNCHANGED <<peerVars, readVars, writeVars, ctl, lock, closed, tlsClosed, broken>>

\* tls.Close: its own alert has a deadline of five seconds.
CloseTLS(c) ==
  /\ cpc[c] = "tls"
  /\ cpc' = [cpc EXCEPT ![c] = "done"] /\ tlsClosed' = TRUE
  /\ UNCHANGED <<peerVars, readVars, writeVars, ctl, lock, deadline, closed, broken>>

Peer ==
  \/ \E op \in Op, fin \in BOOLEAN, n \in Size \cup {0} : Send(op, fin, n)
  \/ Stall \/ Leave
Reader ==
  \/ \E size \in ReadSize : ReadRest(size) \/ ReadFrame(size)
  \/ ReadFails \/ ReadEOF \/ Control("reader")
Writer == WriteLock \/ WriteFrame
CloseSteps(c) == CloseDeadline(c) \/ CloseTLS(c) \/ Control(c)

WSNext ==
  \/ Peer \/ Reader \/ WriteCheck \/ Writer
  \/ \E c \in Closer : Close(c) \/ CloseSteps(c)

WSSpec == WSInit /\ [][WSNext]_wsConnVars

\* Goroutines run and deadlines pass; nobody has to send, write or close.
WSFairSpec ==
  /\ WSSpec
  /\ WF_wsConnVars(Reader) /\ WF_wsConnVars(Writer)
  /\ \A c \in Closer : WF_wsConnVars(CloseSteps(c))

-----------------------------------------------------------------------------
(* Properties. *)

Got == delivered \o rxBuf \o assembled

\* Piece p is in a frame that was not read yet.
OnItsWay(p) == \E k \in 1..Len(inbox) : \E j \in 1..Len(inbox[k].payload) : inbox[k].payload[j] = p

\* Whatever fragments, control frames and buffer sizes: what was taken from the
\* connection is what the caller has got and what waits for it, in order, and
\* every other piece is still in a frame on its way.
DataInOrder ==
  rpc = "call" =>
    /\ \A i \in 1..Len(Got) : Got[i] = i
    /\ \A p \in 1..pieces : p > Len(Got) <=> OnItsWay(p)

\* The second that a control frame may take is never another write's. The connection is
\* broken, and the writer has failed, only after Close or a close frame, after the server
\* has gone, or after a control frame has itself waited in vain for a server that does not
\* read: that one does cost the writer its connection, for crypto/tls has every later write
\* fail. A frame sent to a server that reads never does.
WriteFailsForReason ==
  broken \/ wpc = "failed" => closed \/ tlsClosed \/ gone \/ waited

\* With a writer blocked on a peer that does not read, and a reader in the middle
\* of a pong: a Close that has begun ends, and so do the reader and the writer.
CloseEnds ==
  \A c \in Closer :
    cpc[c] # "idle" ~> cpc[c] = "done" /\ rpc = "over" /\ wpc \notin {"lock", "write"}

\* "fragmented data frame: start accumulating; continuation frames will follow".
\* Claimed: a message fragmented as the protocol has it is accepted.
FragmentsAccepted == ~badCont
=============================================================================
