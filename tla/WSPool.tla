------------------------------- MODULE WSPool -------------------------------
(***************************************************************************)
(* The pool of pre-dialed WebSocket connections of                         *)
(* internal/mtproto/wspool.go, with the handlers that take connections out *)
(* of it (DialObfuscatedDCWithPool, obfuscated2.go), the refill goroutines *)
(* that put them in and the close of the pool by stopLocked.               *)
(*                                                                         *)
(* The pool mutex is held only inside get, in the two critical sections of *)
(* refill and in the second half of close; everything between them         *)
(* interleaves.  A connection is a slot that is reused once it is closed   *)
(* and nobody refers to it.                                                *)
(***************************************************************************)
EXTENDS Naturals, FiniteSets, Sequences, SequencesExt

CONSTANTS
  Key,          \* wsKey: the data centres (and media siblings) the edge serves
  Conn,         \* slots for connections
  Client,       \* handlers that dial
  NoConn,       \* no connection
  Target,       \* p.target, the size a refill aims at
  Trouble       \* whether dials may fail and data centres may be blacklisted

ASSUME TargetPositive == Target \in Nat \ {0}
ASSUME ConnFinite == IsFiniteSet(Conn)
ASSUME NoConnIsNew == NoConn \notin Conn
ASSUME TroubleType == Trouble \in BOOLEAN

VARIABLES
  life,       \* the pool: "open", "cancelled" (first half of close), "closed"
  idle,       \* p.idle: the idle connections of each key, oldest first
  refilling,  \* p.refilling
  refill,     \* where the refill goroutine of each key is
  dials,      \* its dials that have not answered
  results,    \* the connections they have sent to its channel
  hand,       \* the connection it took from the channel after the context check
  closing,    \* connections get discarded, to be closed by goroutines
  peer,       \* the far end of each connection
  old,        \* the connections older than p.maxAge
  black,      \* the keys now blacklisted (wsIsBlacklisted)
  cpc,        \* where each handler is
  ckey,       \* the key it dials
  cconn       \* the pool connection it holds

poolVars == <<idle, refilling, closing>>
refillVars == <<refill, dials, results, hand>>
clientVars == <<cpc, ckey, cconn>>
vars == <<life, poolVars, refillVars, peer, old, black, clientVars>>

TypeOK ==
  /\ life \in {"open", "cancelled", "closed"}
  /\ idle \in [Key -> Seq(Conn)]
  /\ refilling \in [Key -> BOOLEAN]
  /\ refill \in [Key -> {"none", "entry", "need", "gather", "end"}]
  /\ dials \in [Key -> SUBSET Conn]
  /\ results \in [Key -> SUBSET Conn]
  /\ hand \in [Key -> Conn \cup {NoConn}]
  /\ closing \subseteq Conn
  /\ peer \in [Conn -> {"none", "open", "fin"}]
  /\ old \subseteq Conn
  /\ black \subseteq Key
  /\ cpc \in [Client -> {"none", "loaded", "get", "schedule", "handshake", "relay"}]
  /\ ckey \in [Client -> Key]
  /\ cconn \in [Client -> Conn \cup {NoConn}]

\* newWSPool and warmup: a refill is under way for every key the edge serves
\* before a handler can see the pool.
Init ==
  /\ life = "open"
  /\ idle = [k \in Key |-> <<>>]
  /\ refilling = [k \in Key |-> TRUE]
  /\ refill = [k \in Key |-> "entry"]
  /\ dials = [k \in Key |-> {}]
  /\ results = [k \in Key |-> {}]
  /\ hand = [k \in Key |-> NoConn]
  /\ closing = {}
  /\ peer = [c \in Conn |-> "none"]
  /\ old = {}
  /\ black = {}
  /\ cpc = [h \in Client |-> "none"]
  /\ ckey \in [Client -> Key]
  /\ cconn = [h \in Client |-> NoConn]

\* Everything that refers to a connection. RefillNeed takes its slots from the
\* unused ones and waits when there are too few: Conn bounds the connections.
InPool(k) == ToSet(idle[k])
InFlight(k) == dials[k] \cup results[k] \cup ({hand[k]} \ {NoConn})
Pooled(k) == InPool(k) \cup InFlight(k)
HeldBy(h) == {cconn[h]} \ {NoConn}
Unused ==
  Conn \ ((UNION {Pooled(k) : k \in Key}) \cup closing
            \cup (UNION {HeldBy(h) : h \in Client}))

\* Closing a connection: its slot starts again as a new one.
Closed(S) ==
  /\ peer' = [c \in Conn |-> IF c \in S THEN "none" ELSE peer[c]]
  /\ old' = old \ S

-----------------------------------------------------------------------------
(* A handler dials (DialObfuscatedDCWithPool).                             *)

\* Mutant: the pointer still leads to the pool once it is being closed.
LoadPoolStale(h, k) ==
  /\ cpc[h] = "none"
  /\ cpc' = [cpc EXCEPT ![h] = "loaded"]
  /\ ckey' = [ckey EXCEPT ![h] = k]
  /\ UNCHANGED <<life, poolVars, refillVars, peer, old, black, cconn>>

\* s.wsPool.Load(): stopLocked swaps nil in before it closes the pool, but a
\* handler that has loaded the pool goes on with it whatever happens to it.
LoadPool(h, k) ==
  /\ cpc[h] = "none"
  /\ life = "open"
  /\ cpc' = [cpc EXCEPT ![h] = "loaded"]
  /\ ckey' = [ckey EXCEPT ![h] = k]
  /\ UNCHANGED <<life, poolVars, refillVars, peer, old, black, cconn>>

\* The blacklist is looked at before the pool's mutex is taken; without the pool
\* the handler dials plans of its own.
StartDial(h) ==
  /\ cpc[h] = "loaded"
  /\ cpc' = [cpc EXCEPT ![h] = IF ckey[h] \in black THEN "none" ELSE "get"]
  /\ UNCHANGED <<life, poolVars, refillVars, peer, old, black, ckey, cconn>>

\* alive() and the age check, under the mutex.
Usable(c) == c \notin old /\ peer[c] = "open"

\* Mutant: the shortened bucket is not stored back.
GetKeepsBucket(h) ==
  LET b == idle[ckey[h]]
      good == {i \in 1..Len(b) : Usable(b[i])}
  IN
  /\ cpc[h] = "get"
  /\ cpc' = [cpc EXCEPT ![h] = "schedule"]
  /\ cconn' = [cconn EXCEPT ![h] = IF good = {} THEN NoConn ELSE b[Min(good)]]
  /\ UNCHANGED <<life, poolVars, refillVars, peer, old, black, ckey>>

\* get: unusable connections are dropped from the front of the bucket until a
\* usable one is found; goroutines will close them.
Get(h) ==
  LET k == ckey[h]
      b == idle[k]
  IN
  /\ cpc[h] = "get"
  /\ cpc' = [cpc EXCEPT ![h] = "schedule"]
  /\ \E drop \in 0..Len(b) :
       /\ \A i \in 1..drop : ~Usable(b[i])
       /\ drop < Len(b) => Usable(b[drop + 1])
       /\ cconn' = [cconn EXCEPT ![h] = IF drop = Len(b) THEN NoConn ELSE b[drop + 1]]
       /\ idle' = [idle EXCEPT ![k] = SubSeq(b, drop + 2, Len(b))]
       /\ closing' = closing \cup {b[i] : i \in 1..drop}
  /\ UNCHANGED <<life, refilling, refillVars, peer, old, black, ckey>>

\* Mutant: a refill is started whatever the flag says. (The goroutine of the key
\* starts over while the dials of the one before are still out.)
ScheduleAlways(h) ==
  /\ cpc[h] = "schedule"
  /\ cpc' = [cpc EXCEPT ![h] = IF cconn[h] = NoConn THEN "none" ELSE "handshake"]
  /\ refilling' = [refilling EXCEPT ![ckey[h]] = TRUE]
  /\ refill' = [refill EXCEPT ![ckey[h]] = "entry"]
  /\ UNCHANGED <<life, idle, closing, dials, results, hand, peer, old, black, ckey, cconn>>

\* scheduleRefill: at most one refill goroutine for a key. A handler that got no
\* connection goes on to dial plans of its own.
ScheduleRefill(h) ==
  LET k == ckey[h] IN
  /\ cpc[h] = "schedule"
  /\ cpc' = [cpc EXCEPT ![h] = IF cconn[h] = NoConn THEN "none" ELSE "handshake"]
  /\ IF refilling[k]
       THEN UNCHANGED <<refilling, refill>>
       ELSE /\ refilling' = [refilling EXCEPT ![k] = TRUE]
            /\ refill' = [refill EXCEPT ![k] = "entry"]
  /\ UNCHANGED <<life, idle, closing, dials, results, hand, peer, old, black, ckey, cconn>>

\* completeObfuscation writes the init and liveNow polls with a read deadline
\* that has passed: with nothing buffered the read fails with a timeout before
\* it looks at the socket, so that a close of the peer is not seen. A success
\* clears the blacklist (wsRecordSuccess).
HandshakeOK(h) ==
  /\ cpc[h] = "handshake"
  /\ cpc' = [cpc EXCEPT ![h] = "relay"]
  /\ black' = black \ {ckey[h]}
  /\ UNCHANGED <<life, poolVars, refillVars, peer, old, ckey, cconn>>

\* The write of the init fails: the connection is closed, plans are dialed.
HandshakeFails(h) ==
  /\ cpc[h] = "handshake"
  /\ peer[cconn[h]] = "fin"
  /\ cpc' = [cpc EXCEPT ![h] = "none"]
  /\ cconn' = [cconn EXCEPT ![h] = NoConn]
  /\ Closed(HeldBy(h))
  /\ UNCHANGED <<life, poolVars, refillVars, black, ckey>>

\* The relay is over; the handler closes the connection.
RelayEnds(h) ==
  /\ cpc[h] = "relay"
  /\ cpc' = [cpc EXCEPT ![h] = "none"]
  /\ cconn' = [cconn EXCEPT ![h] = NoConn]
  /\ Closed(HeldBy(h))
  /\ UNCHANGED <<life, poolVars, refillVars, black, ckey>>

\* go c.Close() of a discarded connection.
CloseDiscarded(c) ==
  /\ c \in closing
  /\ closing' = closing \ {c}
  /\ Closed({c})
  /\ UNCHANGED <<life, idle, refilling, refillVars, black, clientVars>>

-----------------------------------------------------------------------------
(* The refill goroutine of a key.                                          *)

\* The context and the blacklist are checked on entry.
RefillStart(k) ==
  /\ refill[k] = "entry"
  /\ refill' = [refill EXCEPT ![k] =
                  IF life # "open" \/ k \in black THEN "end" ELSE "need"]
  /\ UNCHANGED <<life, poolVars, dials, results, hand, peer, old, black, clientVars>>

\* The missing connections are counted under the mutex and dialed in parallel.
RefillNeed(k) ==
  LET need == Target - Len(idle[k]) IN
  /\ refill[k] = "need"
  /\ IF Len(idle[k]) >= Target
       THEN /\ refill' = [refill EXCEPT ![k] = "end"]
            /\ UNCHANGED dials
       ELSE /\ refill' = [refill EXCEPT ![k] = "gather"]
            /\ \E S \in SUBSET Unused :
                 /\ Cardinality(S) = need
                 /\ dials' = [dials EXCEPT ![k] = @ \cup S]
  /\ UNCHANGED <<life, poolVars, results, hand, peer, old, black, clientVars>>

\* dialFresh succeeds.
DialOK(k, c) ==
  /\ c \in dials[k]
  /\ dials' = [dials EXCEPT ![k] = @ \ {c}]
  /\ results' = [results EXCEPT ![k] = @ \cup {c}]
  /\ peer' = [peer EXCEPT ![c] = "open"]
  /\ UNCHANGED <<life, poolVars, refill, hand, old, black, clientVars>>

\* dialFresh fails, or its goroutine finds the context cancelled.
DialFails(k, c) ==
  /\ c \in dials[k]
  /\ Trouble \/ life # "open"
  /\ dials' = [dials EXCEPT ![k] = @ \ {c}]
  /\ UNCHANGED <<life, poolVars, refill, results, hand, peer, old, black, clientVars>>

\* Mutant: the context is not checked.
ReceiveAnyway(k, c) ==
  /\ refill[k] = "gather"
  /\ hand[k] = NoConn
  /\ c \in results[k]
  /\ results' = [results EXCEPT ![k] = @ \ {c}]
  /\ hand' = [hand EXCEPT ![k] = c]
  /\ UNCHANGED <<life, poolVars, refill, dials, peer, old, black, clientVars>>

\* A result is received and the context is checked: after a cancel it is closed.
Receive(k, c) ==
  /\ refill[k] = "gather"
  /\ hand[k] = NoConn
  /\ c \in results[k]
  /\ results' = [results EXCEPT ![k] = @ \ {c}]
  /\ IF life = "open"
       THEN hand' = [hand EXCEPT ![k] = c] /\ UNCHANGED <<peer, old>>
       ELSE Closed({c}) /\ UNCHANGED hand
  /\ UNCHANGED <<life, poolVars, refill, dials, black, clientVars>>

\* The mutex is taken and the connection is appended, whatever happened since
\* the check.
Append1(k) ==
  /\ hand[k] # NoConn
  /\ idle' = [idle EXCEPT ![k] = Append(@, hand[k])]
  /\ hand' = [hand EXCEPT ![k] = NoConn]
  /\ UNCHANGED <<life, refilling, closing, refill, dials, results, peer, old, black, clientVars>>

\* Mutant: the flag is taken down only after dials, not by the early returns.
RefillEndsEarlyReturn(k) ==
  /\ \/ refill[k] = "end"
     \/ refill[k] = "gather" /\ dials[k] = {} /\ results[k] = {} /\ hand[k] = NoConn
  /\ refill' = [refill EXCEPT ![k] = "none"]
  /\ refilling' = [refilling EXCEPT ![k] = (refill[k] = "end")]
  /\ UNCHANGED <<life, idle, closing, dials, results, hand, peer, old, black, clientVars>>

\* All results are in, or the goroutine had nothing to do: the deferred reset.
RefillEnds(k) ==
  /\ \/ refill[k] = "end"
     \/ refill[k] = "gather" /\ dials[k] = {} /\ results[k] = {} /\ hand[k] = NoConn
  /\ refill' = [refill EXCEPT ![k] = "none"]
  /\ refilling' = [refilling EXCEPT ![k] = FALSE]
  /\ UNCHANGED <<life, idle, closing, dials, results, hand, peer, old, black, clientVars>>

-----------------------------------------------------------------------------
(* close, and the environment.                                             *)

\* The swap of s.wsPool and p.cancel(); in between nobody can load the pool.
Cancel ==
  /\ life = "open"
  /\ life' = "cancelled"
  /\ UNCHANGED <<poolVars, refillVars, peer, old, black, clientVars>>

\* The idle connections are closed under the mutex.
Drain ==
  /\ life = "cancelled"
  /\ life' = "closed"
  /\ idle' = [k \in Key |-> <<>>]
  /\ Closed(UNION {InPool(k) : k \in Key})
  /\ UNCHANGED <<refilling, closing, refillVars, black, clientVars>>

\* Telegram closes a connection.
PeerCloses(c) ==
  /\ peer[c] = "open"
  /\ peer' = [peer EXCEPT ![c] = "fin"]
  /\ UNCHANGED <<life, poolVars, refillVars, old, black, clientVars>>

\* An idle connection gets older than p.maxAge.
Ages(c) ==
  /\ \E k \in Key : c \in InPool(k)
  /\ old' = old \cup {c}
  /\ UNCHANGED <<life, poolVars, refillVars, peer, black, clientVars>>

\* Other dials blacklist a data centre, or the entry expires or is cleared.
Blacklisting(k) ==
  /\ Trouble
  /\ black' = IF k \in black THEN black \ {k} ELSE black \cup {k}
  /\ UNCHANGED <<life, poolVars, refillVars, peer, old, clientVars>>

RefillGoroutine(k) ==
  \/ RefillStart(k)
  \/ RefillNeed(k)
  \/ \E c \in Conn : DialOK(k, c) \/ DialFails(k, c) \/ Receive(k, c)
  \/ Append1(k)
  \/ RefillEnds(k)

Handler(h) ==
  \/ StartDial(h)
  \/ Get(h)
  \/ ScheduleRefill(h)
  \/ HandshakeOK(h)
  \/ HandshakeFails(h)
  \/ RelayEnds(h)

Environment ==
  \/ \E c \in Conn : PeerCloses(c) \/ Ages(c)
  \/ \E k \in Key : Blacklisting(k)

Next ==
  \/ \E h \in Client, k \in Key : LoadPool(h, k)
  \/ \E h \in Client : Handler(h)
  \/ \E c \in Conn : CloseDiscarded(c)
  \/ \E k \in Key : RefillGoroutine(k)
  \/ Cancel
  \/ Drain
  \/ Environment

Spec == Init /\ [][Next]_vars

\* Goroutines are scheduled and the mutex starves nobody; a dial answers or meets
\* its deadline, and so does the handshake. A relay lasts as long as it likes, and
\* nothing says that the server is stopped, that connections age or are closed.
Fairness ==
  /\ \A k \in Key :
       /\ WF_vars(RefillStart(k))
       /\ WF_vars(RefillNeed(k))
       /\ WF_vars(Append1(k))
       /\ WF_vars(RefillEnds(k))
       /\ \A c \in Conn :
            /\ WF_vars(DialOK(k, c) \/ DialFails(k, c))
            /\ WF_vars(Receive(k, c))
  /\ \A h \in Client :
       /\ WF_vars(StartDial(h))
       /\ WF_vars(Get(h))
       /\ WF_vars(ScheduleRefill(h))
       /\ WF_vars(HandshakeOK(h) \/ HandshakeFails(h))
  /\ \A c \in Conn : WF_vars(CloseDiscarded(c))
  /\ WF_vars(Drain)

FairSpec == Spec /\ Fairness

-----------------------------------------------------------------------------
(* Properties. *)

\* However gets and refills interleave, the connections of a key that are idle
\* or on their way into the pool never exceed the target: there is one refill
\* goroutine at a time and gets only take connections out.
PoolBounded == \A k \in Key : Len(idle[k]) + Cardinality(InFlight(k)) <= Target

\* A connection has one owner: no two handlers, no two buckets and no handler
\* and the pool ever share one, so that two clients never write to one stream.
OwnedOnce ==
  /\ \A k \in Key : IsInjective(idle[k])
  /\ \A g, h \in Client : g # h => HeldBy(g) \cap HeldBy(h) = {}
  /\ \A h \in Client, k \in Key : HeldBy(h) \cap Pooled(k) = {}
  /\ \A h \in Client : HeldBy(h) \cap closing = {}
  /\ \A k \in Key : closing \cap Pooled(k) = {}

\* A refill checks the context and appends in two steps, so that a connection
\* can reach a pool that is already drained and stays open for nobody; but it is
\* never more than one for a key, for every later result meets the check.
StragglersBounded == life = "closed" => \A k \in Key : Len(idle[k]) <= 1

\* The flag that keeps further refills out is up exactly while a refill goroutine
\* of the key lives, by whichever of its returns it ends: a flag left up would
\* leave the bucket empty for ever, one taken down early would start a second
\* refill. All that a goroutine owns goes with it.
FlagIsGoroutine ==
  \A k \in Key :
    /\ refilling[k] = (refill[k] # "none")
    /\ refill[k] # "gather" => InFlight(k) = {}

\* Why they hold, inductively: a connection is in one place only, those on their
\* way to two keys are two, and after the drain no refill can take one in hand.
Separate ==
  /\ \A k \in Key :
       /\ InPool(k) \cap InFlight(k) = {}
       /\ dials[k] \cap results[k] = {}
       /\ hand[k] \notin dials[k] \cup results[k]
  /\ \A k, l \in Key : k # l => Pooled(k) \cap Pooled(l) = {}

LastStraggler ==
  life = "closed" => \A k \in Key : idle[k] = <<>> \/ (Len(idle[k]) = 1 /\ hand[k] = NoConn)

IInv ==
  /\ TypeOK
  /\ FlagIsGoroutine
  /\ PoolBounded
  /\ LastStraggler
  /\ Separate
  /\ OwnedOnce

\* Every refill comes to its end and takes its flag down, with dials that fail, a
\* blacklist that changes and a close at any moment: a key whose flag stayed up
\* would never be refilled again.
RefillReturns == \A k \in Key : refilling[k] ~> ~refilling[k]

\* A closed pool comes to rest: the handlers that loaded it before the stop run
\* out, and with them the refills they start on it; what it had discarded is
\* closed. Only relays and the stragglers go on.
ClosedRests ==
  <>[](life = "closed" =>
         /\ \A k \in Key : refill[k] = "none"
         /\ closing = {}
         /\ \A h \in Client : cpc[h] \in {"none", "relay"})

\* wspool.go: "On hit and miss it schedules an async refill so the next caller
\* can also hit." Claimed: while the pool is open and nothing is blacklisted, an
\* empty bucket has a refill on its way once every get has scheduled.
NextCallerHits ==
  life = "open" /\ black = {} /\ (\A h \in Client : cpc[h] # "schedule")
    => \A k \in Key : idle[k] = <<>> => refilling[k]

\* wsdial.go on liveNow: "to catch conns Telegram FIN/RST'd between the pool's
\* alive() check and the relay's first write". Claimed: no relay starts on a
\* pool connection whose far end had closed it by then.
RelayedAlive ==
  [][\A h \in Client :
       cpc[h] = "handshake" /\ cpc'[h] = "relay" => peer[cconn[h]] = "open"]_vars
=============================================================================
