-------------------------------- MODULE Relay --------------------------------
(***************************************************************************)
(* relayConns of internal/mtproto/server.go: the two copies of a session,  *)
(* the idle reaper, and the handler that waits for them. One session; the  *)
(* bytes of a direction are pieces 1, 2, ... in the order they were sent.  *)
(* To a WebSocket the copy towards Telegram writes packet by packet        *)
(* (cpSplit): PacketEnds are the pieces that complete a packet.            *)
(***************************************************************************)
EXTENDS Naturals, Sequences

CONSTANTS
  MaxSent,      \* bound: pieces sent in each direction
  PacketEnds,   \* pieces of "up" that complete a packet
  IdleTimeout   \* whether idle_timeout_sec may be on, and whether it may be off

ASSUME MaxSentNat == MaxSent \in Nat
ASSUME PacketEndsNat == PacketEnds \subseteq Nat \ {0}
ASSUME IdleTimeoutType == IdleTimeout \subseteq BOOLEAN

Dir == {"up", "down"}
Side == {"client", "dc"}
Src(d) == IF d = "up" THEN "client" ELSE "dc"
Dst(d) == IF d = "up" THEN "dc" ELSE "client"

VARIABLES
  sent,       \* pieces the far end of each direction has sent
  fin,        \* the sides whose far end has closed the connection
  stuck,      \* the sides whose far end does not read
  conn,       \* the sides that are open here
  failed,     \* the sides a write has failed on: TLS keeps the error
  got,        \* pieces each copy has read
  queue,      \* what it is about to write: whole packets, or the chunk of a plain copy
  tail,       \* pieces the splitter holds back
  delivered,  \* pieces each copy has written
  total,      \* pieces it has counted
  copy,       \* where each copy is
  quiet,      \* nothing was read for the idle timeout
  reaper,     \* where the reaper is
  main,       \* where the handler is
  result      \* the counts it returns

endVars == <<sent, fin, stuck>>
copyVars == <<got, queue, tail, delivered, total, copy>>
vars == <<endVars, conn, failed, copyVars, quiet, reaper, main, result>>

Pieces == Seq(1..MaxSent)

TypeOK ==
  /\ sent \in [Dir -> 0..MaxSent]
  /\ fin \subseteq Side /\ stuck \subseteq Side /\ conn \subseteq Side /\ failed \subseteq Side
  /\ got \in [Dir -> 0..MaxSent]
  /\ queue \in [Dir -> Pieces]
  /\ tail \in Pieces
  /\ delivered \in [Dir -> Pieces]
  /\ total \in [Dir -> 0..MaxSent]
  /\ copy \in [Dir -> {"read", "write", "error", "counted", "ended"}]
  /\ quiet \in BOOLEAN
  /\ reaper \in {"off", "waiting", "closing", "gone"}
  /\ main \in {"first", "closing", "second", "returned"}
  /\ result \in [Dir -> 0..MaxSent]

Init ==
  /\ sent = [d \in Dir |-> 0]
  /\ fin = {} /\ stuck = {} /\ conn = Side /\ failed = {}
  /\ got = [d \in Dir |-> 0]
  /\ queue = [d \in Dir |-> <<>>]
  /\ tail = <<>>
  /\ delivered = [d \in Dir |-> <<>>]
  /\ total = [d \in Dir |-> 0]
  /\ copy = [d \in Dir |-> "read"]
  /\ quiet = FALSE
  /\ reaper \in {IF on THEN "waiting" ELSE "off" : on \in IdleTimeout}
  /\ main = "first"
  /\ result = [d \in Dir |-> 0]

-----------------------------------------------------------------------------
(* The copies. *)

Range1(m, n) == [i \in 1..(n - m) |-> m + i]
Split == PacketEnds # {}

\* The length of the packets at the front of a run of pieces: up to its last
\* packet's end. (A set of one number.)
WholePackets(run) ==
  {k \in 0..Len(run) :
     /\ k = 0 \/ run[k] \in PacketEnds
     /\ \A i \in (k + 1)..Len(run) : run[i] \notin PacketEnds}

\* The length of what the next write of a copy takes off its queue: the first
\* packet, or all of it.
NextWrite(d) ==
  IF d = "up" /\ Split
    THEN {k \in 1..Len(queue[d]) :
            /\ queue[d][k] \in PacketEnds
            /\ \A i \in 1..(k - 1) : queue[d][i] \notin PacketEnds}
    ELSE {Len(queue[d])} \ {0}

\* Mutant: the splitter keeps what it has handed out.
ReadKeepsBuffer(d) ==
  /\ copy[d] = "read" /\ Src(d) \in conn /\ got[d] < sent[d]
  /\ \E n \in (got[d] + 1)..sent[d] :
       LET chunk == Range1(got[d], n)
           run == tail \o chunk
       IN
       /\ got' = [got EXCEPT ![d] = n]
       /\ IF d = "up" /\ Split
            THEN \E k \in WholePackets(run) :
                   /\ queue' = [queue EXCEPT ![d] = SubSeq(run, 1, k)]
                   /\ tail' = run
            ELSE /\ queue' = [queue EXCEPT ![d] = chunk]
                 /\ UNCHANGED tail
  /\ copy' = [copy EXCEPT ![d] = "write"]
  /\ quiet' = FALSE
  /\ UNCHANGED <<endVars, conn, failed, delivered, total, reaper, main, result>>

\* Read returns some of the pieces that have arrived. The splitter hands out the
\* packets that are complete and keeps the rest.
Read(d) ==
  /\ copy[d] = "read" /\ Src(d) \in conn /\ got[d] < sent[d]
  /\ \E n \in (got[d] + 1)..sent[d] :
       LET chunk == Range1(got[d], n)
           run == tail \o chunk
       IN
       /\ got' = [got EXCEPT ![d] = n]
       /\ IF d = "up" /\ Split
            THEN \E k \in WholePackets(run) :
                   /\ queue' = [queue EXCEPT ![d] = SubSeq(run, 1, k)]
                   /\ tail' = SubSeq(run, k + 1, Len(run))
            ELSE /\ queue' = [queue EXCEPT ![d] = chunk]
                 /\ UNCHANGED tail
  /\ copy' = [copy EXCEPT ![d] = "write"]
  /\ quiet' = FALSE
  /\ UNCHANGED <<endVars, conn, failed, delivered, total, reaper, main, result>>

\* Read fails: closed here, or everything read and closed there.
ReadFails(d) ==
  /\ copy[d] = "read"
  /\ Src(d) \notin conn \/ (Src(d) \in fin /\ got[d] = sent[d])
  /\ copy' = [copy EXCEPT ![d] = "error"]
  /\ UNCHANGED <<endVars, conn, failed, got, queue, tail, delivered, total, quiet,
                 reaper, main, result>>

Writable(x) == x \in conn /\ x \notin failed

\* One packet or chunk is written and counted; after the last one Read is next.
Write(d) ==
  /\ copy[d] = "write" /\ queue[d] # <<>>
  /\ Writable(Dst(d)) /\ Dst(d) \notin stuck
  /\ \E k \in NextWrite(d) :
       /\ delivered' = [delivered EXCEPT ![d] = @ \o SubSeq(queue[d], 1, k)]
       /\ total' = [total EXCEPT ![d] = @ + k]
       /\ queue' = [queue EXCEPT ![d] = SubSeq(@, k + 1, Len(@))]
  /\ UNCHANGED <<endVars, conn, failed, got, tail, copy, quiet, reaper, main, result>>

Written(d) ==
  /\ copy[d] = "write" /\ queue[d] = <<>>
  /\ copy' = [copy EXCEPT ![d] = "read"]
  /\ UNCHANGED <<endVars, conn, failed, got, queue, tail, delivered, total, quiet,
                 reaper, main, result>>

\* Write fails, also one that was blocked; the packets after it are dropped.
WriteFails(d) ==
  /\ copy[d] = "write" /\ queue[d] # <<>>
  /\ ~Writable(Dst(d)) \/ Dst(d) \in fin
  /\ failed' = failed \cup {Dst(d)}
  /\ queue' = [queue EXCEPT ![d] = <<>>]
  /\ copy' = [copy EXCEPT ![d] = "error"]
  /\ UNCHANGED <<endVars, conn, got, tail, delivered, total, quiet, reaper, main, result>>

\* Mutant: what the splitter holds back is dropped.
NoFlush(d) ==
  /\ copy[d] = "error"
  /\ tail' = IF d = "up" THEN <<>> ELSE tail
  /\ copy' = [copy EXCEPT ![d] = "counted"]
  /\ UNCHANGED <<endVars, conn, failed, got, queue, delivered, total, quiet,
                 reaper, main, result>>

\* The splitter is flushed: its tail is written, not counted, the error ignored.
\* A blocked write waits for the connection to be closed.
Flush(d) ==
  /\ copy[d] = "error"
  /\ IF d = "down" \/ tail = <<>>
       THEN UNCHANGED <<tail, delivered, failed>>
       ELSE /\ tail' = <<>>
            /\ \/ /\ Writable(Dst(d)) /\ Dst(d) \notin stuck
                  /\ delivered' = [delivered EXCEPT ![d] = @ \o tail]
                  /\ UNCHANGED failed
               \/ /\ ~Writable(Dst(d)) \/ Dst(d) \in fin
                  /\ failed' = failed \cup {Dst(d)}
                  /\ UNCHANGED delivered
  /\ copy' = [copy EXCEPT ![d] = "counted"]
  /\ UNCHANGED <<endVars, conn, got, queue, total, quiet, reaper, main, result>>

\* counter.Store and endCh, which has room for both.
EndCopy(d) ==
  /\ copy[d] = "counted"
  /\ copy' = [copy EXCEPT ![d] = "ended"]
  /\ UNCHANGED <<endVars, conn, failed, got, queue, tail, delivered, total, quiet,
                 reaper, main, result>>

-----------------------------------------------------------------------------
(* The reaper and the handler. *)

\* Mutant: the reaper only returns.
ReapLogsOnly ==
  /\ reaper = "waiting" /\ quiet /\ main # "returned"
  /\ reaper' = "gone"
  /\ UNCHANGED <<endVars, conn, failed, copyVars, quiet, main, result>>

\* A tick finds the session idle: client.Close and dc.Close.
Reap ==
  /\ reaper = "waiting" /\ quiet /\ main # "returned"
  /\ reaper' = "closing"
  /\ conn' = conn \ {"client"}
  /\ UNCHANGED <<endVars, failed, copyVars, quiet, main, result>>

Reaped ==
  /\ reaper = "closing"
  /\ reaper' = "gone"
  /\ conn' = conn \ {"dc"}
  /\ UNCHANGED <<endVars, failed, copyVars, quiet, main, result>>

\* done is closed.
ReaperStops ==
  /\ reaper = "waiting" /\ main = "returned"
  /\ reaper' = "gone"
  /\ UNCHANGED <<endVars, conn, failed, copyVars, quiet, main, result>>

EndedCopies == {d \in Dir : copy[d] = "ended"}

\* The first end of a copy: both connections are closed.
FirstEnd ==
  /\ main = "first" /\ EndedCopies # {}
  /\ main' = "closing"
  /\ conn' = conn \ {"client"}
  /\ UNCHANGED <<endVars, failed, copyVars, quiet, reaper, result>>

\* Mutant: only the connection to the client is closed.
CloseNothing ==
  /\ main = "closing"
  /\ main' = "second"
  /\ UNCHANGED <<endVars, conn, failed, copyVars, quiet, reaper, result>>

CloseDC ==
  /\ main = "closing"
  /\ main' = "second"
  /\ conn' = conn \ {"dc"}
  /\ UNCHANGED <<endVars, failed, copyVars, quiet, reaper, result>>

\* Mutant: the second end is not waited for.
ReturnAtOnce ==
  /\ main = "second"
  /\ main' = "returned"
  /\ result' = [d \in Dir |-> IF copy[d] = "ended" THEN total[d] ELSE 0]
  /\ UNCHANGED <<endVars, conn, failed, copyVars, quiet, reaper>>

\* The second end; the counters are read.
Return ==
  /\ main = "second" /\ EndedCopies = Dir
  /\ main' = "returned"
  /\ result' = total
  /\ UNCHANGED <<endVars, conn, failed, copyVars, quiet, reaper>>

-----------------------------------------------------------------------------
(* The far ends, the clock, and a revocation. *)

Sends(d) ==
  /\ Src(d) \notin fin /\ sent[d] < MaxSent
  /\ sent' = [sent EXCEPT ![d] = @ + 1]
  /\ UNCHANGED <<fin, stuck, conn, failed, copyVars, quiet, reaper, main, result>>

Hangs(x) ==
  /\ \/ x \notin fin /\ fin' = fin \cup {x} /\ UNCHANGED stuck
     \/ stuck' = (IF x \in stuck THEN stuck \ {x} ELSE stuck \cup {x}) /\ UNCHANGED fin
  /\ UNCHANGED <<sent, conn, failed, copyVars, quiet, reaper, main, result>>

GoesQuiet ==
  /\ ~quiet
  /\ quiet' = TRUE
  /\ UNCHANGED <<endVars, conn, failed, copyVars, reaper, main, result>>

\* The sweep of a reload closes the client's socket.
Revoked ==
  /\ "client" \in conn
  /\ conn' = conn \ {"client"}
  /\ UNCHANGED <<endVars, failed, copyVars, quiet, reaper, main, result>>

Copy(d) ==
  Read(d) \/ ReadFails(d) \/ Write(d) \/ Written(d) \/ WriteFails(d) \/ Flush(d) \/ EndCopy(d)
Handler == FirstEnd \/ CloseDC \/ Return
Reaper == Reap \/ Reaped \/ ReaperStops

Next ==
  \/ \E d \in Dir : Copy(d) \/ Sends(d)
  \/ Handler
  \/ Reaper
  \/ \E x \in Side : Hangs(x)
  \/ GoesQuiet
  \/ Revoked

Spec == Init /\ [][Next]_vars

\* The goroutines run and the clock does; the far ends need not do anything.
FairSpec ==
  /\ Spec
  /\ \A d \in Dir : WF_vars(Copy(d))
  /\ WF_vars(Handler) /\ WF_vars(Reaper) /\ WF_vars(GoesQuiet)

-----------------------------------------------------------------------------
(* Properties. *)

\* What either side receives is a prefix of what the other side sent: a failed
\* packet, the flush of the tail after it and the close leave no gap and repeat
\* nothing.
NoGap == \A d \in Dir : \A i \in 1..Len(delivered[d]) : delivered[d][i] = i

\* Whenever a copy ends while its destination still accepts data, the splitter
\* holds nothing back: everything read was delivered.
NothingHeldBack ==
  [][copy["up"] = "error" /\ copy'["up"] = "counted" /\ Writable("dc")
       /\ "dc" \notin fin \cup stuck
     => Len(delivered'["up"]) = got["up"]]_vars

\* The relay returns only when both copies are over, with both connections
\* closed, and the counts it returns were delivered; those of the client's
\* direction lack at most a flushed tail.
ReturnComplete ==
  main = "returned" =>
    /\ \A d \in Dir : copy[d] = "ended" /\ result[d] <= Len(delivered[d])
    /\ conn = {}
    /\ result["down"] = Len(delivered["down"])

\* A session comes to an end when the idle timeout is set and nothing more is
\* read (here each far end sends a bounded amount), and in any case once a copy
\* has ended: what is blocked, even in a write to a far end that stopped reading,
\* is released.
RelayReturns ==
  reaper = "waiting" \/ (\E d \in Dir : copy[d] = "ended") ~> main = "returned"
=============================================================================
