------------------------------ MODULE DialRace ------------------------------
(***************************************************************************)
(* dialPlans and raceDialBatch of internal/mtproto/dialrace.go: a handler  *)
(* dials its transport plans batch by batch, the plans of a batch in       *)
(* parallel goroutines; the first connection wins and the others are       *)
(* closed. The outcomes feed the cool-downs shared by all dials. A probe   *)
(* of the panel (ProbeTransports) dials all of its plans at once and holds *)
(* every connection for a while; a request says whether it is a probe.     *)
(*                                                                         *)
(* wg.Done is the end of a goroutine: "done" is closed once every          *)
(* goroutine of the batch has ended. Left out are wsCooldownTo, which only *)
(* shortens a timeout, and requestCFPoolRefresh, which is in CFBalancer.   *)
(***************************************************************************)
EXTENDS TransportPlan, FiniteSets

CONSTANTS
  Caller,       \* handlers, one dial each
  Requests,     \* the requests they dial with
  DC            \* signed data centres

ASSUME PoolIsFinite == IsFiniteSet(Base) /\ DC \subseteq Int
ASSUME RequestsType ==
  Requests \subseteq
    [mode : {"tcp", "ws", "auto"}, relay : Nat, v6 : BOOLEAN, workers : Seq(STRING),
     edge : BOOLEAN, custom : BOOLEAN, cfproxy : BOOLEAN, dc : DC, probe : BOOLEAN]

ErrKind == {"timeout", "redirect", "notfound", "limited", "other"}

VARIABLES
  cool,       \* tcpCooldownTo: addresses whose dial timed out lately
  wcool,      \* workerCoolTo
  black,      \* wsBlacklist
  pen,        \* bases of the CF pool in cool-down
  pin,        \* perDC: the active base of each data centre
  pc,         \* where each handler is
  req,        \* its request
  plans,      \* its plans: all of them, from "ready" on those that are ready
  pos,        \* the first plan of its batch
  at,         \* where the goroutine of each plan is
  err,        \* the error of a failed dial
  taken,      \* taken of its batch
  open,       \* the plans whose connection is open
  result      \* the plan whose connection the call returned, 0 for an error

coolVars == <<cool, wcool, black, pen, pin>>
callVars == <<pc, req, plans, pos, result>>
raceVars == <<at, err, taken, open>>
vars == <<coolVars, callVars, raceVars>>

Stage == {"wait", "dialing", "failed", "recording", "connected", "claimed",
          "gone", "lost", "quiet", "won"}
Ended == {"gone", "lost", "quiet", "won"}

Worker == UNION {ToSet(r.workers) : r \in Requests}
Key == {EdgeKey} \cup (Worker \X {443}) \cup (UNION {ToSet(ResolveDCAll(r)) : r \in Requests})
         \cup ((Base \cup {"custom"}) \X (DC \cup {Abs(d) : d \in DC}))

TypeOK ==
  /\ cool \subseteq Key
  /\ wcool \subseteq Worker
  /\ black \subseteq DC
  /\ pen \subseteq Base \cup {"custom"}
  /\ pin \in [DC -> Base \cup {"custom"}]
  /\ pc \in [Caller -> {"idle", "pool", "filter", "race", "select", "probe", "over"}]
  /\ req \in [Caller -> Requests]
  /\ \A a \in Caller :
       /\ \A i \in 1..Len(plans[a]) : plans[a][i].key \in Key
       /\ pos[a] \in 1..(Len(plans[a]) + 1)
       /\ at[a] \in [1..Len(plans[a]) -> Stage]
       /\ err[a] \in [1..Len(plans[a]) -> ErrKind \cup {"none"}]
       /\ open[a] \subseteq 1..Len(plans[a])
       /\ result[a] \in 0..Len(plans[a])
  /\ taken \in [Caller -> BOOLEAN]

Init ==
  /\ cool = {} /\ wcool = {} /\ black = {} /\ pen = {}
  /\ pin \in [DC -> Base]
  /\ pc = [a \in Caller |-> "idle"]
  /\ req \in [Caller -> Requests]
  /\ plans = [a \in Caller |-> <<>>]
  /\ pos = [a \in Caller |-> 1]
  /\ at = [a \in Caller |-> <<>>]
  /\ err = [a \in Caller |-> <<>>]
  /\ taken = [a \in Caller |-> FALSE]
  /\ open = [a \in Caller |-> {}]
  /\ result = [a \in Caller |-> 0]

-----------------------------------------------------------------------------
(* The handler. *)

\* domainsForDC: the active base first, also one that is not in the pool, then
\* the others in any order, none of them in cool-down.
DomainsForDC(dc) ==
  LET active == IF pin[dc] \in pen THEN <<>> ELSE <<pin[dc]>>
  IN {active \o s : s \in SetToSeqs(Base \ (pen \cup {pin[dc]}))}

\* DialObfuscatedDCWithPool looks at the blacklist and then for a connection in the
\* pool, which there is unless the mode is "tcp" ...
TryPool(a) ==
  /\ pc[a] = "idle" /\ ~req[a].probe
  /\ req[a].mode # "tcp" /\ req[a].dc \notin black
  /\ pc' = [pc EXCEPT ![a] = "pool"]
  /\ UNCHANGED <<coolVars, req, plans, pos, result, raceVars>>

\* ... and if it gets one that is alive, wsRecordSuccess, and nothing is dialed.
FromPool(a) ==
  /\ pc[a] = "pool"
  /\ pc' = [pc EXCEPT ![a] = "over"]
  /\ black' = black \ {req[a].dc}
  /\ UNCHANGED <<cool, wcool, pen, pin, req, plans, pos, result, raceVars>>

\* planTransports; without a plan the call fails.
Planned(a, next, stage) ==
  /\ pc[a] \in {"idle", "pool"}
  /\ \E cf \in DomainsForDC(req[a].dc) :
       LET p == PlanTransports(req[a], cool, wcool, req[a].dc \in black, cf) IN
       /\ plans' = [plans EXCEPT ![a] = p]
       /\ pc' = [pc EXCEPT ![a] = IF p = <<>> THEN "over" ELSE next]
       /\ at' = [at EXCEPT ![a] = [i \in 1..Len(p) |-> stage]]
       /\ err' = [err EXCEPT ![a] = [i \in 1..Len(p) |-> "none"]]
  /\ UNCHANGED <<coolVars, req, pos, result, taken, open>>

PlanDial(a) == ~req[a].probe /\ Planned(a, "filter", "wait")

\* ProbeTransports: a goroutine for every plan ...
Probe(a) == req[a].probe /\ Planned(a, "probe", "dialing")

\* ... and wg.Wait.
ProbeOver(a) ==
  /\ pc[a] = "probe"
  /\ \A i \in 1..Len(plans[a]) : at[a][i] = "gone"
  /\ pc' = [pc EXCEPT ![a] = "over"]
  /\ UNCHANGED <<coolVars, req, plans, pos, result, raceVars>>

\* filterReadyPlans looks at the cool-downs again, once for all batches.
Filter(a) ==
  LET ready == FilterReadyPlans(plans[a], cool, wcool) IN
  /\ pc[a] = "filter"
  /\ plans' = [plans EXCEPT ![a] = ready]
  /\ pc' = [pc EXCEPT ![a] = IF ready = <<>> THEN "over" ELSE "race"]
  /\ at' = [at EXCEPT ![a] = [i \in 1..Len(ready) |-> "wait"]]
  /\ err' = [err EXCEPT ![a] = [i \in 1..Len(ready) |-> "none"]]
  /\ UNCHANGED <<coolVars, req, pos, result, taken, open>>

Batch(a) == BatchFrom(plans[a], pos[a])
Raced(a) == Cardinality(Batch(a)) > 1

\* The goroutines of a batch are started; a single plan is dialed in line.
StartBatch(a) ==
  /\ pc[a] = "race"
  /\ pc' = [pc EXCEPT ![a] = "select"]
  /\ taken' = [taken EXCEPT ![a] = FALSE]
  /\ at' = [at EXCEPT ![a] =
       [i \in 1..Len(plans[a]) |-> IF i \in Batch(a) THEN "dialing" ELSE @[i]]]
  /\ UNCHANGED <<coolVars, req, plans, pos, result, err, open>>

\* The select receives the connection of the winner.
Won(a) ==
  /\ pc[a] = "select"
  /\ \E i \in Batch(a) :
       /\ at[a][i] = "won"
       /\ result' = [result EXCEPT ![a] = i]
  /\ pc' = [pc EXCEPT ![a] = "over"]
  /\ UNCHANGED <<coolVars, req, plans, pos, raceVars>>

Tried(a, S) == {i \in S : at[a][i] = "gone" /\ plans[a][i].kind = "ws"}
Redirected(a) ==
  {i \in Tried(a, 1..Len(plans[a])) : err[a][i] = "redirect"}
BatchOver(a) == \A i \in Batch(a) : at[a][i] \in Ended

\* Mutant: one redirect is enough.
GiveUpOnRedirect(a) ==
  LET tried == Tried(a, 1..Len(plans[a])) IN
  /\ black' = IF Redirected(a) # {} THEN black \cup {req[a].dc} ELSE black

\* After the last batch: wsRecordFailure.
GiveUp(a) ==
  LET tried == Tried(a, 1..Len(plans[a])) IN
  /\ black' = IF tried # {} /\ Redirected(a) = tried
                THEN black \cup {req[a].dc} ELSE black

\* The select finds done closed: every goroutine has ended. A handler that has started a
\* race and comes to its select only then finds the winner's connection ready as well, and
\* the select may choose either: with done the connection stays in the channel. A single
\* plan is dialed in line and its connection returned.
AllDone(a) ==
  /\ pc[a] = "select"
  /\ BatchOver(a)
  /\ (\E i \in Batch(a) : at[a][i] = "won") => Raced(a)
  /\ LET next == pos[a] + Cardinality(Batch(a)) IN
     /\ pos' = [pos EXCEPT ![a] = next]
     /\ IF next <= Len(plans[a])
          THEN /\ pc' = [pc EXCEPT ![a] = "race"]
               /\ UNCHANGED black
          ELSE /\ pc' = [pc EXCEPT ![a] = "over"]
               /\ GiveUp(a)
  /\ UNCHANGED <<cool, wcool, pen, pin, req, plans, result, raceVars>>

-----------------------------------------------------------------------------
(* The goroutine of plan i. *)

\* How dialOne may fail, and whether it has itself recorded that the address timed
\* out: the TCP dial of either kind does, a later handshake does not. An HTTP status
\* comes only from the handshake of a WebSocket.
Failures(p) ==
  {<<"timeout", TRUE>>, <<"other", FALSE>>}
    \cup IF p.kind = "ws" THEN ErrKind \X {FALSE} ELSE {}

\* dialAndObfuscate or probeOne fails.
DialFails(a, i) ==
  LET p == plans[a][i] IN
  /\ at[a][i] = "dialing"
  /\ at' = [at EXCEPT ![a][i] = "failed"]
  /\ \E f \in Failures(p) :
       /\ err' = [err EXCEPT ![a][i] = f[1]]
       /\ cool' = IF f[2] THEN cool \cup {p.key} ELSE cool
  /\ UNCHANGED <<wcool, black, pen, pin, callVars, taken, open>>

\* probeOne: the failure is reported, a connection is held and closed.
ProbeEnds(a, i) ==
  /\ req[a].probe /\ at[a][i] \in {"failed", "connected"}
  /\ at' = [at EXCEPT ![a][i] = "gone"]
  /\ open' = [open EXCEPT ![a] = @ \ {i}]
  /\ UNCHANGED <<coolVars, callVars, err, taken>>

\* A failure after somebody has won is dropped.
CheckTaken(a, i) ==
  /\ ~req[a].probe /\ at[a][i] = "failed"
  /\ at' = [at EXCEPT ![a][i] = IF taken[a] THEN "quiet" ELSE "recording"]
  /\ UNCHANGED <<coolVars, callVars, err, taken, open>>

\* Mutant: a goroutine whose failure is recorded does not end.
RecordForever(a, i) ==
  LET p == plans[a][i] IN
  /\ at[a][i] = "recording"
  /\ cool' = IF err[a][i] = "timeout" THEN cool \cup {p.key} ELSE cool
  /\ UNCHANGED <<wcool, pen, black, pin, callVars, at, err, taken, open>>

\* workerPenalize, for errors of different length but one effect.
WorkerPenalize(p, e) ==
  IF p.worker /\ e \in {"notfound", "limited", "timeout"} THEN wcool \cup {p.sni} ELSE wcool

\* recordPlanFailure, and the failure is appended.
RecordFailure(a, i) ==
  LET p == plans[a][i]
      e == err[a][i]
  IN
  /\ at[a][i] = "recording"
  /\ at' = [at EXCEPT ![a][i] = "gone"]
  /\ cool' = IF e = "timeout" THEN cool \cup {p.key} ELSE cool
  /\ wcool' = WorkerPenalize(p, e)
  /\ pen' = IF ~p.worker /\ p.cf # NoBase /\ e = "limited"
              THEN pen \cup {p.cf} ELSE pen
  /\ UNCHANGED <<black, pin, callVars, err, taken, open>>

DialOK(a, i) ==
  /\ at[a][i] = "dialing"
  /\ at' = [at EXCEPT ![a][i] = "connected"]
  /\ open' = [open EXCEPT ![a] = @ \cup {i}]
  /\ UNCHANGED <<coolVars, callVars, err, taken>>

\* Mutant: the connection of a loser is forgotten.
ClaimKeeps(a, i) ==
  /\ ~req[a].probe /\ at[a][i] = "connected"
  /\ taken' = [taken EXCEPT ![a] = TRUE]
  /\ at' = [at EXCEPT ![a][i] = IF taken[a] THEN "lost" ELSE "claimed"]
  /\ UNCHANGED <<coolVars, callVars, err, open>>

\* taken.CompareAndSwap: the loser closes its connection.
Claim(a, i) ==
  /\ ~req[a].probe /\ at[a][i] = "connected"
  /\ taken' = [taken EXCEPT ![a] = TRUE]
  /\ at' = [at EXCEPT ![a][i] = IF taken[a] THEN "lost" ELSE "claimed"]
  /\ open' = [open EXCEPT ![a] = IF taken[a] THEN @ \ {i} ELSE @]
  /\ UNCHANGED <<coolVars, callVars, err>>

\* recordPlanSuccess, and the connection is sent: the channel is empty, for only
\* the winner sends. The cool-down of a WebSocket address is not lifted.
Send(a, i) ==
  LET p == plans[a][i]
      d == req[a].dc
  IN
  /\ at[a][i] = "claimed"
  /\ at' = [at EXCEPT ![a][i] = "won"]
  /\ IF p.kind = "ws"
       THEN /\ black' = black \ {d}
            /\ wcool' = IF p.worker THEN wcool \ {p.sni} ELSE wcool
            /\ pin' = IF p.cf # NoBase THEN [pin EXCEPT ![d] = p.cf] ELSE pin
            /\ UNCHANGED cool
       ELSE /\ cool' = cool \ {p.key}
            /\ UNCHANGED <<black, wcool, pin>>
  /\ UNCHANGED <<pen, callVars, err, taken, open>>

\* dialFresh: a refill of the pool of connections finds that an address times out.
RefillTimesOut ==
  /\ \E a \in Caller : \E p \in ToSet(WSPlansForDC(req[a], cool)) :
       /\ req[a].mode # "tcp"
       /\ cool' = cool \cup {p.key}
  /\ UNCHANGED <<wcool, black, pen, pin, callVars, raceVars>>

\* Time passes and a cool-down expires, or a start of the proxy resets it.
Expire ==
  /\ \/ \E k \in cool : cool' = cool \ {k} /\ UNCHANGED <<wcool, pen, black>>
     \/ \E w \in wcool : wcool' = wcool \ {w} /\ UNCHANGED <<cool, pen, black>>
     \/ \E b \in pen : pen' = pen \ {b} /\ UNCHANGED <<cool, wcool, black>>
     \/ \E d \in black : black' = black \ {d} /\ UNCHANGED <<cool, wcool, pen>>
  /\ UNCHANGED <<pin, callVars, raceVars>>

Main(a) ==
  \/ TryPool(a) \/ FromPool(a) \/ PlanDial(a) \/ Filter(a) \/ StartBatch(a) \/ Won(a) \/ AllDone(a)
  \/ Probe(a) \/ ProbeOver(a)

Goroutine(a, i) ==
  \/ DialFails(a, i) \/ CheckTaken(a, i) \/ RecordFailure(a, i)
  \/ DialOK(a, i) \/ Claim(a, i) \/ Send(a, i) \/ ProbeEnds(a, i)

Next ==
  \/ \E a \in Caller : Main(a) \/ \E i \in 1..Len(plans[a]) : Goroutine(a, i)
  \/ RefillTimesOut \/ Expire

Spec == Init /\ [][Next]_vars

-----------------------------------------------------------------------------
(* Properties. *)

CallOver(a) ==
  /\ pc[a] = "over"
  /\ \A i \in 1..Len(plans[a]) : at[a][i] \in Ended \cup {"wait"}

\* Whatever the order of the answers and however late the handler, no loser leaks: what is
\* open when a call and its goroutines are over has won a batch, and it is the connection
\* that the call returned, the only one of its batch, or that of a batch the handler left
\* by done. A probe leaves nothing behind.
WinnersOnly ==
  \A a \in Caller : CallOver(a) =>
    /\ open[a] = {i \in 1..Len(plans[a]) : at[a][i] = "won"}
    /\ result[a] \in open[a] \cup {0}
    /\ result[a] # 0 => \A i \in open[a] : i = result[a] \/ i < pos[a]
    /\ req[a].probe => open[a] = {}

\* Leading Workers are a batch of their own: unless a relay comes before them, nothing
\* else wins before each Worker was dialed to its end, and not one Worker has connected,
\* but for one whose connection the handler has left in the channel.
WorkerFirst ==
  \A a \in Caller :
    result[a] # 0 /\ ~RelayFirst(req[a]) /\ ~plans[a][result[a]].worker
      => \A i \in 1..Len(plans[a]) : plans[a][i].worker =>
           /\ i < pos[a] /\ at[a][i] \in Ended
           /\ \/ at[a][i] = "gone" /\ err[a][i] # "none"
              \/ \E j \in 1..Len(plans[a]) : plans[a][j].worker /\ at[a][j] = "won"

\* A data centre is blacklisted only by a call that returns no connection, when all of its
\* plans were dialed to the end and at least one of them is a failure it counts; every
\* failure of a WebSocket it counts is a redirect, and it counts that of every WebSocket
\* plan unless a dial of the call has connected and is left in the channel.
BlacklistJustified ==
  [][\A d \in black' \ black :
       \E a \in Caller :
         LET ws == {i \in 1..Len(plans[a]) : plans[a][i].kind = "ws"}
             counted == {i \in ws : at[a][i] = "gone"}
         IN
         /\ req[a].dc = d /\ pc'[a] = "over" /\ result[a] = 0
         /\ \A i \in 1..Len(plans[a]) : at[a][i] \in Ended
         /\ counted # {} /\ \A i \in counted : err[a][i] = "redirect"
         /\ counted = ws \/ \E i \in open[a] : at[a][i] = "won"]_vars

\* No order of answers leaves a call waiting for nothing: until it and all its
\* goroutines are over, a step of one of them is possible. No step goes back, so
\* that every dial comes to an end and leaves no goroutine behind.
NeverStuck ==
  \A a \in Caller :
    CallOver(a) \/ ENABLED <<Main(a) \/ \E i \in 1..Len(plans[a]) : Goroutine(a, i)>>_vars

\* dialrace.go: leading Workers "are dialed as their own batch so a flaky public
\* CF domain or a blackholed native WS edge cannot 'win' the race over the user's
\* Worker". Claimed of every configuration, one with a relay too: no other
\* WebSocket path wins while a Worker of the dial has not failed.
WorkerWins ==
  \A a \in Caller :
    result[a] # 0 /\ plans[a][result[a]].kind = "ws" /\ ~plans[a][result[a]].worker
      => \A i \in 1..Len(plans[a]) : plans[a][i].worker => at[a][i] = "gone"

\* obfuscated2.go on a probe: "ignore live-dial cooldowns so the UI shows the real
\* picture". Claimed: no plan is missing from it because of a cool-down.
RealPicture ==
  \A a \in Caller :
    req[a].probe /\ pc[a] # "idle" => Len(plans[a]) >= Len(PlanTransports(req[a], {}, {}, FALSE, <<>>))

\* obfuscated2.go: the names of the native edge share an address, "so one TCP
\* timeout must skip the sibling instead of burning another tcpDialTimeout".
\* Claimed: no goroutine starts to dial an address in cool-down.
SiblingSkipped ==
  [][\A a \in Caller : \A i \in 1..Len(plans[a]) :
       pc'[a] = "select" /\ at[a][i] = "wait" /\ at'[a][i] = "dialing"
         => plans[a][i].key \notin cool]_vars

\* README.md on upstream_mode: "auto" is "first WS, then TCP". Claimed: a TCP
\* connection wins only when no WebSocket plan of the dial is still out.
WSBeforeTCP ==
  \A a \in Caller :
    result[a] # 0 /\ req[a].mode = "auto" /\ plans[a][result[a]].kind = "tcp"
      => \A i \in 1..Len(plans[a]) : plans[a][i].kind = "ws" => at[a][i] = "gone"

\* dialrace.go returns "all transports failed" when its batches are through. Claimed: a
\* call that has none to return has no dial that won.
AllFailed ==
  \A a \in Caller :
    CallOver(a) /\ result[a] = 0 => \A i \in 1..Len(plans[a]) : at[a][i] # "won"
=============================================================================
