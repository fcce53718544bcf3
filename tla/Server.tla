------------------------------- MODULE Server -------------------------------
(***************************************************************************)
(* The proxy server of internal/mtproto/server.go: its life cycle under    *)
(* s.mu (Start, UpdateConfig, Stop), the accept loop with its admission    *)
(* counter, and the goroutine that handles one client connection, up to    *)
(* and including its registration in s.conns.                              *)
(*                                                                         *)
(* The thread that holds s.mu and the handlers share only atomics and two  *)
(* small maps: every load, store and map operation that another goroutine  *)
(* can observe is a step of its own.                                       *)
(***************************************************************************)
EXTENDS Integers, FiniteSets

CONSTANTS
  Conn,          \* slots for client connections; a slot is reused when its handler is gone
  Secret,        \* secret identities, secretIdentity(): ID (or label) and hex key together
  Generated,     \* the identities GenerateSecret may produce
  Key,           \* keys of s.stats: the ID (or label) alone
  KeyOf,         \* the statistics key of each identity
  Name,          \* display names of secrets
  DefaultName,   \* the name a generated secret gets
  Knobs,         \* all other settings whose change needs a restart (port, bind, SNI host, ...)
  BootConfigs,   \* configurations config.Load may return at boot
  PostedConfigs, \* configurations the web panel may post
  ListenMayFail, \* whether net.Listen may fail (port busy, bad bind address)
  NoSecret,      \* the handler has matched no secret yet
  NoConn         \* the accept loop holds no connection

Entry == [secret : Secret, name : Name, enabled : BOOLEAN, valid : BOOLEAN]

Config == [enabled : BOOLEAN, knobs : Knobs, fakeSNI : BOOLEAN, ws : BOOLEAN,
           max : Nat \ {0}, secrets : SUBSET Entry]

ASSUME ConnFinite == IsFiniteSet(Conn)
ASSUME NoneIsNew == NoSecret \notin Secret /\ NoConn \notin Conn
ASSUME DefaultNameIsName == DefaultName \in Name
ASSUME GeneratedIsSecret == Generated \subseteq Secret
ASSUME KeyOfType == KeyOf \in [Secret -> Key]
ASSUME ConfigsType == BootConfigs \subseteq Config /\ PostedConfigs \subseteq Config
ASSUME ListenMayFailType == ListenMayFail \in BOOLEAN

-----------------------------------------------------------------------------
(* Pure helpers on configurations. *)

EffectiveSecrets(m) == {e \in m.secrets : e.enabled}

\* The identities buildSecrets keeps; entries ParseSecret refuses are skipped.
ValidSecrets(m) == {e.secret : e \in {x \in EffectiveSecrets(m) : x.valid}}

\* No secret is configured at all: buildSecrets makes one for the fake SNI.
Generates(m) == m.secrets = {} /\ m.fakeSNI

\* Enabled entries exist but none parses, or there is nothing to generate from.
BuildFails(m) ==
  /\ ValidSecrets(m) = {}
  /\ EffectiveSecrets(m) # {} \/ (m.secrets = {} /\ ~m.fakeSNI)

\* The configuration once buildSecrets has appended the generated entry to it.
WithGenerated(m, s) ==
  [m EXCEPT !.secrets =
     {[secret |-> s, name |-> DefaultName, enabled |-> TRUE, valid |-> TRUE]}]

NeedsRestart(o, n) ==
  \/ o.enabled # n.enabled
  \/ o.knobs # n.knobs
  \/ o.fakeSNI # n.fakeSNI
  \/ o.ws # n.ws

SecretsChanged(o, n) == o.secrets # n.secrets

\* What the panel refuses to save.
ValidateProxy(m) ==
  /\ \A e \in m.secrets : e.valid
  /\ m.enabled => EffectiveSecrets(m) # {} \/ m.fakeSNI

-----------------------------------------------------------------------------
VARIABLES
  \* the fields of Server
  cfg,        \* s.cfg
  secrets,    \* s.secrets: the identities in force
  active,     \* s.active: the admission counter
  conns,      \* s.conns: the registered connections (their identity is sec)
  stats,      \* s.stats: the sessions counted in the entry now in the map
  running,    \* s.running
  listener,   \* s.listener is open
  wsPool,     \* s.wsPool is not nil
  \* the thread that holds s.mu
  at,         \* where it is; "idle" when s.mu is free
  op,         \* what for: "boot" (Start), or the course UpdateConfig takes
  pending,    \* the secrets it installs and sweeps against
  victims,    \* the connections closeRevokedConns has still to close
  \* the accept loops and the connection handlers
  accepting,  \* the connection the current accept loop holds
  pc,         \* where each connection is
  limit,      \* the limit read for the connection
  snap,       \* the secrets its handler loaded
  mask,       \* the configuration its handler loaded has a fake SNI
  sec,        \* the secret its fake-TLS handshake matched
  shut        \* its socket was closed by a sweep

serverVars == <<cfg, secrets, running, listener, wsPool>>
adminVars == <<at, op, pending, victims>>
handlerVars == <<limit, snap, mask, sec>>
vars == <<cfg, secrets, active, conns, stats, running, listener, wsPool,
          at, op, pending, victims, accepting, pc, limit, snap, mask, sec, shut>>

AdminStep == {"boot", "idle", "stop", "start", "publish", "snapshot", "close",
              "prune", "serve", "exit"}

\* "free": no such connection; "accepted": returned by Accept; "over": counted
\* beyond the limit; the others are the stages of handleConn, in its order.
Stage == {"free", "accepted", "over", "entry", "hello", "masking", "matched",
          "tracked", "checked", "dialing", "relaying", "untrack", "leave"}

Counted == Stage \ {"free", "accepted"}        \* counted in s.active
Admitted == Counted \ {"over"}                 \* has a handler goroutine
Session == {"checked", "dialing", "relaying"}  \* passed the check of its secret
Registered == Session \cup {"tracked", "untrack"}
Authenticated == Registered \cup {"matched"}

TypeOK ==
  /\ cfg \in Config
  /\ secrets \subseteq Secret
  /\ active \in Int
  /\ conns \subseteq Conn
  /\ stats \subseteq Conn
  /\ running \in BOOLEAN
  /\ listener \in BOOLEAN
  /\ wsPool \in BOOLEAN
  /\ at \in AdminStep
  /\ op \in {"boot", "start", "reload", "sweep", "none"}
  /\ pending \subseteq Secret
  /\ victims \subseteq Conn
  /\ accepting \in Conn \cup {NoConn}
  /\ pc \in [Conn -> Stage]
  /\ limit \in [Conn -> Nat]
  /\ snap \in [Conn -> SUBSET Secret]
  /\ mask \in [Conn -> BOOLEAN]
  /\ sec \in [Conn -> Secret \cup {NoSecret}]
  /\ shut \in [Conn -> BOOLEAN]

Init ==
  /\ cfg \in BootConfigs
  /\ secrets = {}
  /\ active = 0
  /\ conns = {}
  /\ stats = {}
  /\ running = FALSE
  /\ listener = FALSE
  /\ wsPool = FALSE
  /\ at = "boot"
  /\ op = "boot"
  /\ pending = {}
  /\ victims = {}
  /\ accepting = NoConn
  /\ pc = [c \in Conn |-> "free"]
  /\ limit = [c \in Conn |-> 0]
  /\ snap = [c \in Conn |-> {}]
  /\ mask = [c \in Conn |-> FALSE]
  /\ sec = [c \in Conn |-> NoSecret]
  /\ shut = [c \in Conn |-> FALSE]

-----------------------------------------------------------------------------
(* The thread that holds s.mu. *)

\* main: Start; a disabled configuration leaves the server stopped.
Boot ==
  /\ at = "boot"
  /\ at' = IF cfg.enabled THEN "start" ELSE "idle"
  /\ UNCHANGED <<op, pending, victims, serverVars, active, conns, stats, accepting,
                 pc, handlerVars, shut>>

\* UpdateConfig takes s.mu and installs a configuration that needs no restart:
\* only a running server whose secrets changed has more to do.
UpdateLive(m) ==
  /\ at = "idle"
  /\ ValidateProxy(m)
  /\ ~NeedsRestart(cfg, m)
  /\ cfg' = m
  /\ at' = IF running /\ SecretsChanged(cfg, m) THEN "start" ELSE "idle"
  /\ op' = "reload"
  /\ pending' = {}
  /\ UNCHANGED <<victims, secrets, running, listener, wsPool, active, conns,
                 stats, accepting, pc, handlerVars, shut>>

\* ... or one that does: what follows the stop depends on both configurations.
UpdateRestart(m) ==
  /\ at = "idle"
  /\ ValidateProxy(m)
  /\ NeedsRestart(cfg, m)
  /\ cfg' = m
  /\ at' = "stop"
  /\ op' = IF m.enabled THEN "start" ELSE IF cfg.enabled THEN "sweep" ELSE "none"
  /\ pending' = {}
  /\ UNCHANGED <<victims, secrets, running, listener, wsPool, active, conns,
                 stats, accepting, pc, handlerVars, shut>>

\* stopLocked: the pool and the listener are closed. A loop that holds a
\* connection it accepted goes on with it; s.secrets keeps its value. (On a
\* server that is not running the step changes nothing.)
StopForUpdate ==
  /\ at = "stop"
  /\ running' = FALSE
  /\ listener' = FALSE
  /\ wsPool' = FALSE
  /\ accepting' = NoConn
  /\ at' = CASE op = "start" -> "start" [] op = "sweep" -> "snapshot" [] OTHER -> "idle"
  /\ UNCHANGED <<op, pending, victims, cfg, secrets, active, conns, stats, pc,
                 handlerVars, shut>>

\* The identities no goroutine can still hold: a generated secret is new.
Fresh ==
  Generated \ (secrets \cup {sec[c] : c \in Conn} \cup UNION {snap[c] : c \in Conn})

\* buildSecrets succeeds (and, for a start, net.Listen too): the secrets to
\* install are known. A generated one is written into the configuration.
BuildSecrets ==
  /\ at = "start"
  /\ ~BuildFails(cfg)
  /\ IF Generates(cfg)
       THEN \E s \in Fresh : pending' = {s} /\ cfg' = WithGenerated(cfg, s)
       ELSE pending' = ValidSecrets(cfg) /\ cfg' = cfg
  /\ at' = "publish"
  /\ listener' = TRUE       \* a reload finds it open
  /\ UNCHANGED <<op, victims, secrets, running, wsPool, active, conns, stats,
                 accepting, pc, handlerVars, shut>>

\* buildSecrets fails: a reload keeps the previous secrets; a start during an
\* update sweeps every connection; Start at boot only reports the error.
BuildSecretsFails ==
  /\ at = "start"
  /\ BuildFails(cfg)
  /\ at' = IF op = "start" THEN "snapshot" ELSE "idle"
  /\ op' = IF op = "start" THEN "sweep" ELSE op
  /\ pending' = {}
  /\ UNCHANGED <<victims, serverVars, active, conns, stats, accepting, pc,
                 handlerVars, shut>>

\* net.Listen fails after the secrets were built: everything is swept.
ListenFails ==
  /\ ListenMayFail
  /\ at = "start"
  /\ op # "reload"
  /\ ~BuildFails(cfg)
  /\ IF Generates(cfg)
       THEN \E s \in Fresh : cfg' = WithGenerated(cfg, s)
       ELSE cfg' = cfg
  /\ at' = IF op = "start" THEN "snapshot" ELSE "idle"
  /\ op' = IF op = "start" THEN "sweep" ELSE op
  /\ pending' = {}
  /\ UNCHANGED <<victims, secrets, running, listener, wsPool, active, conns,
                 stats, accepting, pc, handlerVars, shut>>

\* s.secrets.Store
Publish ==
  /\ at = "publish"
  /\ secrets' = pending
  /\ at' = "snapshot"
  /\ UNCHANGED <<op, pending, victims, cfg, running, listener, wsPool, active,
                 conns, stats, accepting, pc, handlerVars, shut>>

\* Mutant: the sweep does not look at which secrets stay.
SnapshotAll ==
  /\ at = "snapshot"
  /\ victims' = conns
  /\ at' = "close"
  /\ UNCHANGED <<op, pending, serverVars, active, conns, stats, accepting, pc,
                 handlerVars, shut>>

\* closeRevokedConns, first half: the victims are collected under connsMu.
Snapshot ==
  /\ at = "snapshot"
  /\ victims' = {c \in conns : sec[c] \notin pending}
  /\ at' = "close"
  /\ UNCHANGED <<op, pending, serverVars, active, conns, stats, accepting, pc,
                 handlerVars, shut>>

\* Mutant: a victim is crossed off the list without being closed.
SkipVictim(c) ==
  /\ at = "close"
  /\ c \in victims
  /\ victims' = victims \ {c}
  /\ UNCHANGED <<at, op, pending, serverVars, active, conns, stats, accepting,
                 pc, handlerVars, shut>>

\* closeRevokedConns, second half: they are closed one by one, without the lock.
CloseVictim(c) ==
  /\ at = "close"
  /\ c \in victims
  /\ shut' = [shut EXCEPT ![c] = TRUE]
  /\ victims' = victims \ {c}
  /\ UNCHANGED <<at, op, pending, serverVars, active, conns, stats, accepting,
                 pc, handlerVars>>

\* Mutant: the update waits until no connection is registered.
SweepWaits ==
  /\ at = "close"
  /\ victims = {}
  /\ conns = {}
  /\ at' = IF op = "sweep" THEN "idle" ELSE "prune"
  /\ UNCHANGED <<op, pending, victims, serverVars, active, conns, stats,
                 accepting, pc, handlerVars, shut>>

SweepDone ==
  /\ at = "close"
  /\ victims = {}
  /\ at' = IF op = "sweep" THEN "idle" ELSE "prune"
  /\ UNCHANGED <<op, pending, victims, serverVars, active, conns, stats,
                 accepting, pc, handlerVars, shut>>

\* Mutant: the statistics are cleared, as if every key had lost its secret.
ClearStats ==
  /\ at = "prune"
  /\ stats' = {}
  /\ at' = IF op = "reload" THEN "idle" ELSE "serve"
  /\ UNCHANGED <<op, pending, victims, serverVars, active, conns, accepting, pc,
                 handlerVars, shut>>

\* pruneStats: entries of keys without a secret are dropped from the map.
PruneStats ==
  /\ at = "prune"
  /\ stats' = {c \in stats : \E s \in pending : KeyOf[s] = KeyOf[sec[c]]}
  /\ at' = IF op = "reload" THEN "idle" ELSE "serve"
  /\ UNCHANGED <<op, pending, victims, serverVars, active, conns, accepting, pc,
                 handlerVars, shut>>

\* The end of startLocked: pool, running, go acceptLoop.
Serve ==
  /\ at = "serve"
  /\ wsPool' = cfg.ws
  /\ running' = TRUE
  /\ at' = "idle"
  /\ UNCHANGED <<op, pending, victims, cfg, secrets, listener, active, conns,
                 stats, accepting, pc, handlerVars, shut>>

\* main after a signal: Stop; what is still open dies with the process.
Stop ==
  /\ at = "idle"
  /\ at' = "exit"
  /\ running' = FALSE
  /\ listener' = FALSE
  /\ wsPool' = FALSE
  /\ accepting' = NoConn
  /\ UNCHANGED <<op, pending, victims, cfg, secrets, active, conns, stats, pc,
                 handlerVars, shut>>

\* The process has exited; the service is started again on the saved file.
Restart ==
  /\ at = "exit"
  /\ at' = "boot"
  /\ op' = "boot"
  /\ cfg' \in BootConfigs \cup {cfg}
  /\ secrets' = {}
  /\ active' = 0
  /\ conns' = {}
  /\ stats' = {}
  /\ pending' = {}
  /\ victims' = {}
  /\ pc' = [c \in Conn |-> "free"]
  /\ limit' = [c \in Conn |-> 0]
  /\ snap' = [c \in Conn |-> {}]
  /\ mask' = [c \in Conn |-> FALSE]
  /\ sec' = [c \in Conn |-> NoSecret]
  /\ shut' = [c \in Conn |-> FALSE]
  /\ UNCHANGED <<running, listener, wsPool, accepting>>

-----------------------------------------------------------------------------
(* The accept loops. One loop serves the open listener; a loop whose       *)
(* listener was closed only finishes with the connection it holds.         *)

\* Accept returns and the loop reads the limit of the configuration in force.
Accept(c) ==
  /\ running
  /\ accepting = NoConn
  /\ pc[c] = "free"
  /\ pc' = [pc EXCEPT ![c] = "accepted"]
  /\ limit' = [limit EXCEPT ![c] = cfg.max]
  /\ accepting' = c
  /\ UNCHANGED <<serverVars, active, conns, stats, adminVars, snap, mask, sec, shut>>

LoopDone(c) == accepting' = IF accepting = c THEN NoConn ELSE accepting

\* Mutant: the counter is compared before the connection is added to it.
AdmitOneMore(c) ==
  /\ pc[c] = "accepted"
  /\ active <= limit[c]
  /\ active' = active + 1
  /\ pc' = [pc EXCEPT ![c] = "entry"]
  /\ LoopDone(c)
  /\ UNCHANGED <<serverVars, conns, stats, adminVars, handlerVars, shut>>

\* active.Add(1) is within the limit: the handler goroutine is started.
Admit(c) ==
  /\ pc[c] = "accepted"
  /\ active + 1 <= limit[c]
  /\ active' = active + 1
  /\ pc' = [pc EXCEPT ![c] = "entry"]
  /\ LoopDone(c)
  /\ UNCHANGED <<serverVars, conns, stats, adminVars, handlerVars, shut>>

\* active.Add(1) is beyond the limit ...
Refuse(c) ==
  /\ pc[c] = "accepted"
  /\ active + 1 > limit[c]
  /\ active' = active + 1
  /\ pc' = [pc EXCEPT ![c] = "over"]
  /\ UNCHANGED <<serverVars, conns, stats, accepting, adminVars, handlerVars, shut>>

\* Mutant: a refused connection stays counted.
RejectCounted(c) ==
  /\ pc[c] = "over"
  /\ pc' = [pc EXCEPT ![c] = "free"]
  /\ limit' = [limit EXCEPT ![c] = 0]
  /\ LoopDone(c)
  /\ UNCHANGED <<serverVars, active, conns, stats, adminVars, snap, mask, sec, shut>>

\* ... and is taken back, in a second atomic operation.
Reject(c) ==
  /\ pc[c] = "over"
  /\ active' = active - 1
  /\ pc' = [pc EXCEPT ![c] = "free"]
  /\ limit' = [limit EXCEPT ![c] = 0]
  /\ LoopDone(c)
  /\ UNCHANGED <<serverVars, conns, stats, adminVars, snap, mask, sec, shut>>

-----------------------------------------------------------------------------
(* The handler of one connection, handleConn.                              *)

\* s.secrets and s.cfg are loaded; no secret in force ends the connection.
LoadSecrets(c) ==
  /\ pc[c] = "entry"
  /\ IF secrets = {}
       THEN /\ pc' = [pc EXCEPT ![c] = "leave"]
            /\ UNCHANGED <<snap, mask>>
       ELSE /\ pc' = [pc EXCEPT ![c] = "hello"]
            /\ snap' = [snap EXCEPT ![c] = secrets]
            /\ mask' = [mask EXCEPT ![c] = cfg.fakeSNI]
  /\ UNCHANGED <<serverVars, active, conns, stats, accepting, adminVars, limit, sec, shut>>

\* AcceptFakeTLSMulti verifies the client's hello against the loaded secrets.
HandshakeOK(c, s) ==
  /\ pc[c] = "hello"
  /\ s \in snap[c]
  /\ pc' = [pc EXCEPT ![c] = "matched"]
  /\ sec' = [sec EXCEPT ![c] = s]
  /\ snap' = [snap EXCEPT ![c] = {}]
  /\ mask' = [mask EXCEPT ![c] = FALSE]
  /\ UNCHANGED <<serverVars, active, conns, stats, accepting, adminVars, limit, shut>>

\* It fails. A hello that is well formed but not verified is relayed to the
\* masking domain; any other error (or the 30 s deadline) ends the connection.
HandshakeFails(c) ==
  /\ pc[c] = "hello"
  /\ \E verifyError \in BOOLEAN :
       pc' = [pc EXCEPT ![c] = IF verifyError /\ mask[c] THEN "masking" ELSE "leave"]
  /\ snap' = [snap EXCEPT ![c] = {}]
  /\ mask' = [mask EXCEPT ![c] = FALSE]
  /\ UNCHANGED <<serverVars, active, conns, stats, accepting, adminVars, limit, sec, shut>>

\* proxyToMaskingDomain returns: one of the two peers hung up.
MaskingEnds(c) ==
  /\ pc[c] = "masking"
  /\ pc' = [pc EXCEPT ![c] = "leave"]
  /\ UNCHANGED <<serverVars, active, conns, stats, accepting, adminVars, handlerVars, shut>>

TrackConn(c) ==
  /\ pc[c] = "matched"
  /\ conns' = conns \cup {c}
  /\ pc' = [pc EXCEPT ![c] = "tracked"]
  /\ UNCHANGED <<serverVars, active, stats, accepting, adminVars, handlerVars, shut>>

\* Mutant: the secret the handshake matched is not looked up again.
CheckNothing(c) ==
  /\ pc[c] = "tracked"
  /\ pc' = [pc EXCEPT ![c] = "checked"]
  /\ UNCHANGED <<serverVars, active, conns, stats, accepting, adminVars, handlerVars, shut>>

\* secretActive: the secret is looked up in the secrets in force now.
CheckSecret(c) ==
  /\ pc[c] = "tracked"
  /\ pc' = [pc EXCEPT ![c] = IF sec[c] \in secrets THEN "checked" ELSE "untrack"]
  /\ UNCHANGED <<serverVars, active, conns, stats, accepting, adminVars, handlerVars, shut>>

\* AcceptObfuscated; the deadline is lifted.
AcceptObfuscatedOK(c) ==
  /\ pc[c] = "checked"
  /\ pc' = [pc EXCEPT ![c] = "dialing"]
  /\ UNCHANGED <<serverVars, active, conns, stats, accepting, adminVars, handlerVars, shut>>

\* The obfuscated2 handshake fails, or no data centre can be dialed.
SetupFails(c) ==
  /\ pc[c] \in {"checked", "dialing"}
  /\ pc' = [pc EXCEPT ![c] = "untrack"]
  /\ UNCHANGED <<serverVars, active, conns, stats, accepting, adminVars, handlerVars, shut>>

\* A data centre was dialed: the session is counted and relayed.
DialOK(c) ==
  /\ pc[c] = "dialing"
  /\ stats' = stats \cup {c}
  /\ pc' = [pc EXCEPT ![c] = "relaying"]
  /\ UNCHANGED <<serverVars, active, conns, accepting, adminVars, handlerVars, shut>>

\* The relay is over; an entry that pruneStats dropped is decremented unseen.
RelayEnds(c) ==
  /\ pc[c] = "relaying"
  /\ stats' = stats \ {c}
  /\ pc' = [pc EXCEPT ![c] = "untrack"]
  /\ UNCHANGED <<serverVars, active, conns, accepting, adminVars, handlerVars, shut>>

Untrack(c) ==
  /\ pc[c] = "untrack"
  /\ conns' = conns \ {c}
  /\ pc' = [pc EXCEPT ![c] = "leave"]
  /\ UNCHANGED <<serverVars, active, stats, accepting, adminVars, handlerVars, shut>>

\* The goroutine closes its socket and gives its place back. A sweep that still
\* holds the socket closes it a second time, which has no effect: the slot is free.
Leave(c) ==
  /\ pc[c] = "leave"
  /\ active' = active - 1
  /\ pc' = [pc EXCEPT ![c] = "free"]
  /\ victims' = victims \ {c}
  /\ limit' = [limit EXCEPT ![c] = 0]
  /\ sec' = [sec EXCEPT ![c] = NoSecret]
  /\ shut' = [shut EXCEPT ![c] = FALSE]
  /\ UNCHANGED <<serverVars, conns, stats, accepting, at, op, pending, snap, mask>>

-----------------------------------------------------------------------------
Admin ==
  \/ Boot
  \/ StopForUpdate
  \/ BuildSecrets
  \/ BuildSecretsFails
  \/ ListenFails
  \/ Publish
  \/ Snapshot
  \/ \E c \in Conn : CloseVictim(c)
  \/ SweepDone
  \/ PruneStats
  \/ Serve

Loop(c) == Admit(c) \/ Refuse(c) \/ Reject(c)

Handler(c) ==
  \/ LoadSecrets(c)
  \/ \E s \in Secret : HandshakeOK(c, s)
  \/ HandshakeFails(c)
  \/ MaskingEnds(c)
  \/ TrackConn(c)
  \/ CheckSecret(c)
  \/ AcceptObfuscatedOK(c)
  \/ SetupFails(c)
  \/ DialOK(c)
  \/ RelayEnds(c)
  \/ Untrack(c)
  \/ Leave(c)

Next ==
  \/ \E m \in PostedConfigs : UpdateLive(m) \/ UpdateRestart(m)
  \/ Admin
  \/ Stop
  \/ Restart
  \/ \E c \in Conn : Accept(c) \/ Loop(c) \/ Handler(c)

Spec == Init /\ [][Next]_vars

\* The scheduler runs every goroutine that can run. Nobody promises an update,
\* a client or the end of a relay or of a masking session whose peers stay; but
\* the reads of a relay whose socket was closed do return, the handshakes have
\* a deadline and the dials have timeouts.
Fairness ==
  /\ WF_vars(Admin)
  /\ WF_vars(Restart)
  /\ \A c \in Conn :
       /\ WF_vars(Loop(c))
       /\ WF_vars(LoadSecrets(c))
       /\ WF_vars(HandshakeFails(c))
       /\ WF_vars(TrackConn(c))
       /\ WF_vars(CheckSecret(c))
       /\ WF_vars(SetupFails(c))
       /\ WF_vars(shut[c] /\ RelayEnds(c))
       /\ WF_vars(Untrack(c))
       /\ WF_vars(Leave(c))

FairSpec == Spec /\ Fairness

-----------------------------------------------------------------------------
(* Properties. *)

\* s.active is the number of connections counted in it, whatever way they end.
ActiveExact == active = Cardinality({c \in Conn : pc[c] \in Counted})

\* A connection is admitted only within the limit read for it, although Add(1)
\* and Add(-1) of refused connections interleave and the limit changes live.
AdmittedWithinLimit ==
  [][\A c \in Conn :
       pc[c] = "accepted" /\ pc'[c] = "entry"
         => Cardinality({d \in Conn : pc'[d] \in Admitted}) <= limit[c]]_vars

\* When no update is under way, every session whose socket is open uses a
\* secret in force: neither the sweep nor secretActive lets one through, in
\* whatever order trackConn, secrets.Store and the snapshot come.
Live(c) == pc[c] \in Session /\ ~shut[c]

RevokedClosed == at = "idle" => \A c \in Conn : Live(c) => sec[c] \in secrets

\* A sweep never closes a session of a secret that stays in force (a rename, or
\* an update of other secrets, of the limit or of the statistics).
KeptOpen ==
  [][\A c \in Conn :
       ~shut[c] /\ shut'[c] => sec[c] \notin secrets \/ op = "sweep"]_vars

\* Every open relayed session is in the entry of s.stats its secret shows, so
\* the panel counts it: pruneStats drops no entry a live session still needs.
LiveCounted == \A c \in Conn : pc[c] = "relaying" /\ ~shut[c] => c \in stats

\* The handler of a session whose secret was revoked goes away.
RevokedLeaves ==
  \A c \in Conn : (at = "idle" /\ pc[c] \in Session /\ sec[c] \notin secrets)
                    ~> (c \notin conns)

\* Whoever holds s.mu releases it: an update returns, whatever the clients do.
UpdateReturns == (at \notin {"idle", "exit"}) ~> (at = "idle")

\* The inductive invariant behind these properties. Registered connections are
\* exactly those between trackConn and untrack; while a sweep runs, it knows of
\* every open session with a secret no longer in force.
ConnsExact == \A c \in Conn : c \in conns <=> pc[c] \in Registered

SecretKnown == \A c \in Conn : pc[c] \in Authenticated => sec[c] \in Secret

SweepFindsRevoked ==
  \A c \in Conn : Live(c) /\ sec[c] \notin secrets =>
    \/ at = "snapshot" /\ sec[c] \notin pending
    \/ at = "close" /\ c \in victims

VictimsRevoked ==
  at = "close" => \A c \in victims :
    pc[c] \in Registered \cup {"leave"} /\ sec[c] \notin pending

PendingInForce ==
  /\ at \in {"snapshot", "close"} /\ op # "sweep" => pending = secrets
  /\ at = "prune" => pending = secrets /\ op # "sweep"
  /\ at \in {"boot", "start", "publish"} => op # "sweep"

IInv ==
  /\ TypeOK
  /\ ActiveExact
  /\ ConnsExact
  /\ SecretKnown
  /\ SweepFindsRevoked
  /\ VictimsRevoked
  /\ PendingInForce
  /\ LiveCounted

\* The server implements the abstract gate: the secret of a connection is that
\* of an open session from the check of the secret to the end of the relay.
SessionOf(c) == IF Live(c) THEN sec[c] ELSE NoSecret

Sweeping == at \in {"snapshot", "close"} /\ op # "sweep"

Gate == INSTANCE SecretGate WITH
  inForce  <- secrets,
  session  <- [c \in Conn |-> SessionOf(c)],
  sweeping <- Sweeping

ImplementsGate == Gate!GateSpec

\* server_test.go: "disabling the proxy left connections open". Claimed of the
\* whole program: no session is open once a disabled configuration is applied.
DisabledClosesAll == at = "idle" /\ ~cfg.enabled => \A c \in Conn : ~Live(c)

\* server.go: "proxy stopped; fix in Settings". Claimed: an enabled
\* configuration that can be started is being served once it is applied.
FixedIsServed == at = "idle" /\ cfg.enabled /\ ~BuildFails(cfg) => running
=============================================================================
