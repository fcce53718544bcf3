# keenetic-mtproto in TLA+

A verification development for keenetic-mtproto, an MTProto proxy for Telegram
that runs on Keenetic routers: TLA+ modules that follow the Go code, TLC
configurations that check them on small instances, and theorems checked by
TLAPS. Paths are relative to `src/`; `server.go` and the other bare names are in
`internal/mtproto/`.

## The system

| component | state it keeps | operations | talks to |
|---|---|---|---|
| Proxy server (`server.go`) | `cfg`, `secrets`, `wsPool` (atomics); `active`; `stats` and `conns` (mutex maps); `running`, `listener` under `s.mu` | `Start`, `UpdateConfig`, `Stop`, accept loop, one handler goroutine per connection, `Stats`, `Sessions` | web panel (calls), pool, dialer, relay |
| Relay (`server.go` `relayConns`) | two copies, an idle reaper, byte counters, the time of the last activity | copy, split, reap, close | handler |
| Client handshake (`faketls.go`, `obfuscated2.go`, `secret.go`) | per connection: the hello read so far, the deadline, a read buffer; two copies of a masked connection | verify the hello against the secrets, mask, cut and join TLS records, read the frame of obfuscated2 | handler, masking site, splitter |
| Dialer and prober (`obfuscated2.go`, `dialrace.go`) | plans of one call; a race between dial goroutines | plan, filter, dial in batches, first one wins; probe all plans for the panel | cool-downs, pool, CF balancer |
| Cool-downs (`wspool.go`, `workercool.go`) | per DC blacklist and cool-down, per address cool-down, per Worker cool-down | record failure or success, reset, expiry | dialer, pool, server start |
| WebSocket pool (`wspool.go`) | idle connections per DC, a refill flag per DC, a context | `get`, `refill`, `close`, `warmup` | server, dialer |
| CF domain balancer (`cfproxy.go`) | domain pool, pinned domain per DC, cool-downs | pick, penalize, pin, refresh | dialer, GitHub |
| WebSocket connection (`wsdial.go`) | read buffer, fragment assembly, write lock, closed flag | read, write, ping and close frames, liveness probe | pool, relay |
| Message splitter (`msgsplit.go`) | buffered cipher and plain text, disabled flag | split, flush | relay |
| DC table (`dc.go`) | runtime DC addresses, shown by the panel | refresh from Telegram or a fallback site, resolve (from constants) | web panel, dialer |
| Configuration (`internal/config`) | the file, the shared `Config` | load, defaults, save | everything |
| Web panel (`internal/web`) | the panel's configuration pointer | read, validate, persist, update | config, server, updater |
| Self-update (`internal/update`) | files in /tmp and /opt/sbin, the init script | check and compare versions, download, install, restart | GitHub, the init script |
| Worker (`worker/cf-tunnel.js`) | one WebSocket, one TCP connection, a queue of writes | upgrade, message and close handlers, reading loop | dialer, data centre |
| Installer, UI | - | - | - |

### What is hard here

* A reload replaces the secrets while handlers are anywhere between their
  handshake and their relay; nothing but the order of three operations
  (`secrets.Store`, the snapshot of `conns`, `trackConn` before `secretActive`)
  keeps a revoked client out.
* `UpdateConfig` stops, rebuilds and starts in steps, each of which can fail.
* The admission counter is shared by an old and a new accept loop.
* A client that is not ours must see the masking site and nothing else, wherever
  its hello is rejected; what is ours comes in records, reads and messages that do
  not fall together.
* Dials race each other; the loser has to be closed, and what they learn about
  the addresses goes to state that all handlers share.
* The pool is filled by goroutines that outlive its `close`.
* Relays end from either side, by timeout, or by a sweep.
* The configuration is written to disk, published to the panel and applied to
  the server in three steps, by concurrent requests.
* Refreshes of the DC table run beside requests that change their setting.
* The two event handlers and the loop of the Worker close each other's ends.
* An update replaces the running binary, with fallbacks that must leave one.

`PROJECT.json` lists these hazards line by line, with the properties that watch
each of them.

## The plan

The order follows what a failure would cost. All steps are done.

1. `Server` with its abstract specification `SecretGate`: revocation, admission,
   restarts. Proofs in `ServerProofs`.
2. `WSPool`: ownership and the bound of the pool. Proofs in `PoolProofs`.
3. `TransportPlan` (pure operators) and `DialRace`, which uses it: the race of the
   transports, the probes of the panel and the cool-downs they all write.
4. `Relay`, the end of a session, and `MsgSplitter`, the cutting of its stream.
5. `ConfigStore`: requests, file, crashes. Proofs in `ConfigStoreProofs`.
6. `Updater`: which release is an update, and what an interrupted update leaves.
7. `CFBalancer`: the shared pool of domains.
8. `WSConn`: reads, writes and closes of one WebSocket.
9. `ClientConn`: hello, masking, records, frame, composed with `MsgSplitter`.
10. `DCTable`: the refreshes, composed with `ConfigStore`.
11. `Tunnel`: the Worker.
12. Proofs of the safety properties of the others: `RelayProofs`, `UpdaterProofs`,
    `DialRaceProofs`, `ClientProofs` (`ClientConn` and `MsgSplitter`), `WebSocketProofs`
    (`Tunnel` and `WSConn`), `CFBalancer` in `PoolProofs` and `DCTable` in
    `ConfigStoreProofs`. No module declares a RECURSIVE operator.
13. What `Server` and `WSPool` share, the pointer `s.wsPool`: `LoadPool` and `Cancel` of
    `WSPool` stand for its users and for `stopLocked` (run `pool`). A product of the
    two modules would multiply states without adding a shared variable.

Abstract specifications: `SecretGate` is stated and implemented by `Server`
(checked and proved). Worth stating next: a single-owner store of connections
for `WSPool`, and a reliable byte stream for `ClientConn` and `Tunnel`.

## The modules and the code

Every definition that models code is listed in `PROJECT.json` under "map" with the
lines it stands for. In all modules a goroutine's position in the code is a value of
a `pc`-like function; one action is the code between two points that another
goroutine can observe (an atomic, a critical section, a channel operation, a system
call).

### Server, SecretGate

`at` is the position of the goroutine that holds `s.mu` (`idle` when nobody does)
and `op` the reason; `pc[c]` is the stage of the handler of connection `c`, in the
order of `handleConn`. `UpdateLive` and `UpdateRestart` are the two courses of
`UpdateConfig`; `StopForUpdate`, `BuildSecrets`, `Publish`, `Snapshot`,
`CloseVictim`, `SweepDone`, `PruneStats` and `Serve` are the steps of `stopLocked`,
`startLocked`, `reloadSecretsLocked` and `closeRevokedConns`, with the failures
`BuildSecretsFails` and `ListenFails`. Admission is three steps, as in the code:
`Add(1)`, the comparison, `Add(-1)`. A secret is an identity, that is the pair of
ID and key `secretIdentity` builds; `KeyOf` is the ID alone, the key of the
statistics. Connections are slots that are reused. The byte counters, `Sessions`
and `Stats` are left out.

`SecretGate` knows secrets in force, the session of each connection, and whether
the secrets were just replaced. `Server` maps to it with the secret of every open,
checked session.

### WSPool

One pool, from `newWSPool` with `warmup` to `close`. A handler loads `s.wsPool`
(`LoadPool`) while the pool is open and goes on with it whatever happens to it; a start
after the stop makes another pool, which shares only the blacklist. The handlers take
connections (`Get` is `get` under the mutex, `ScheduleRefill` the test and set of the flag);
`refill[k]` is the goroutine of a key: `RefillStart` checks the context, `RefillNeed`
counts under the mutex, `Receive` checks the context again, `Append1` appends in a
later critical section. `Cancel` (with the swap of
`s.wsPool` by `stopLocked`) and `Drain` are the two halves of `close`. A
connection is a slot which is reused once it is closed and nobody refers to it;
`RefillNeed` waits when the slots run out, the only effect of that bound.

### TransportPlan, DialRace

`TransportPlan` holds the pure part: the addresses of a data centre
(`ResolveDCAll`), the plans of a request in each mode (`planTransports`), those of a
refill of the pool (`wsPlansForDC`), the filter, the count of leading Workers and the
batches. Both loops that skip what is in cool-down are `Ready`, which selects the
positions that stay (`AtPositions`) and so can be reasoned about without recursion. A
request stands for the configuration and the signed data centre of a dial.
`DialRace` runs them: a handler (`TryPool`, `FromPool`, `PlanDial`, `Filter`,
`StartBatch`, `Won`, `AllDone`) and one goroutine per plan (`DialOK`/`DialFails`,
`Claim` as the compare-and-swap, `CheckTaken`, `RecordFailure`, `Send`). A probe of
the panel (`Probe`, `ProbeEnds`, `ProbeOver`) dials all plans at once and holds what it
opened. All cool-down maps are shared by all of them; a timeout of the TCP dial is
recorded at once by `dialOne` (`Failures`), also for a probe and for a refill of the
pool (`RefillTimesOut`), the other failures by `recordPlanFailure`. `Expire` is the
clock. `planTransports` reads several maps under several locks; here that is one step,
which merges reads of maps that other dials write in between; `Filter` reads them
again, as the code does. The other domains of `domainsForDC` come in any order. Nothing
makes a handler wait in its `select` before its batch is over: `AllDone` is taken also
when the winner's connection is in `wonCh` already, which leaves it there, open, and goes
on with the next batch or the failure. `wsCooldownTo` shortens a timeout and decides
nothing else; it is left out.

### Relay

One session: `copy[d]` is the position of a copy, `main` that of `relayConns`,
`reaper` that of the idle reaper. Bytes are numbered pieces; `PacketEnds` are the
pieces at which the splitter ends a packet. The copy towards a WebSocket queues the
`WholePackets` of what it has, writes them one by one (`NextWrite`), and keeps a tail
that `Flush` writes after an error. The far
ends may send, close, and stop and resume reading at any time; `Revoked` is the
sweep of `Server`.

### MsgSplitter, ClientConn

`MsgSplitter` is `split`, `nextLen` and `flush` byte by byte in scaled units: a byte
below 6 for 256, a long header of 2 bytes for 4, a Unit of 1 for 4, and an `int` that
ends at 17, so that a length wraps around, as it does on a 32-bit router: an `int` holds
every length a header can announce (`IntType`), but not always with the header added to
it. `Positions` are the places of the chunk at which the loop of `split` reads a header;
the last one is where it stops. The reference definition `WholeMessages` reads the same
format off the whole stream without an `int`. The module has actions and no
specification of its own: `ClientConn` calls them.

`ClientConn` is one connection from its first byte. `pc` follows `handleConn`:
`ReadHello`, `Verify` and `Greet` are `AcceptFakeTLSMulti`; every hello that is not
ours leads through `Mask`, with what was read by then, to `proxyToMaskingDomain`
(`DialSite`, `WriteInitial`, a copy from each side, `FirstDone` and `SecondDone`). A
good one goes on with `ReadFrame`, in as many records as the client likes, and then
`RelayUp`: `Read` of a record with `readBuf` for what does not fit, and `Split`.
`StartReply` and `WriteRecord` are `FakeTLSConn.Write`. The two directions share
nothing, and a behaviour looks at one of them. An HMAC matches or does not, a time
is recent or is not; keystreams, being an XOR in order, are left out, so that
"in order and without a gap" is what decryption needs.

### ConfigStore

A request clones the panel's configuration, changes a section and calls `persist`:
`StartSave`, `WriteTmp`, `Rename` (saveMu is held across these three only),
`SetCfg`, `UpdateProxy`. `UpdateConfig` may find that a secret is missing: `Generate`
puts one into the configuration itself, which the panel holds already, and saves a second
time, by the same steps (`Again`). s.mu of the proxy is held until that is over
(`Updating`), and a failure of the second save is logged and the request answered as a
success (`Unsaved`). The panel and the proxy hold pointers, so `panel` and `running` name
whose configuration each holds; `mem` and `served` are what they point to. A request that
clones while a secret is being appended may read a torn slice and panic (`CloneTorn`, a
data race). main's start is a saver like the requests (`Starter`): it too generates and
saves. Both kinds of POST are modelled; a crash may come at any point and restarts from
the file through `Load` and `applyDefaults`. `validateProxy` is in `Server`.

### DCTable

`ConfigStore` with the refreshes of the table of data centres beside its requests:
main's, with the setting that `Load` read, and those of the panel (`Ask`), which read
the setting from the panel's copy. `Download`, `OfficialFails` and `LastFails` are the
loop over the sites in `RefreshDCs`: a download that breaks off leaves its first part,
which is used when no site after it answers. `Show` is the answer. A crash
(`Restart`) forgets the table and starts main's refresh again.

### Updater

`UpdateAvail` and `VersionLess` are the release check: what is newer, compared by
numbers and not by letters; `Refuse` is the panel's answer without one. Then come the
commands of the script of `StartBackgroundApply` and the calls of `installBinary` as
steps on the files they share. `trouble` is drawn from the constant `Troubles` at the
start: whether renaming the running binary may fail, whether the script may fail to
start, whether requests overlap, whether scripts may be killed. Every command may fail
at any time besides. `set -e` ends a script at the first failure. Two installations
*inside* the process at once are not modelled.

### CFBalancer

The pool, the pinned domain of each DC, cool-downs, the hourly and the emergency
refresh (`Load`, then `Swap`: a compare-and-swap in the code). `older` and `stray` are
history: which dials planned before the last change of the pool, and for which DC one of
these has since pinned a name that the pool had dropped. There is no clock:
a cool-down or the minimum between two emergency refreshes may end at any moment, and
`MaxStamp` bounds how many emergency refreshes there are.

### WSConn

The reader, one writer and goroutines that close. `ctl[p]` is the position of
`tryWriteControl` in a goroutine. Of TLS it is assumed that a write is atomic, that a
failed write makes the later ones fail, and that `Close` interrupts a blocked one
(the documented behaviour of `crypto/tls`). The server fragments as the protocol
allows, empty fragments included. `waited` is history: a control frame has waited its
second in vain for a server that does not read. `Got` is what the callers of `Read` have
received and what the connection holds for them; `OnItsWay` is what has still to come out of a frame.

### Tunnel

The Worker as the single-threaded program it is: an action is what runs between two
awaits that may really wait. `Message` and `Closing`/`Closed` are the handlers of the
two events, `ReadValue`, `ReadDone` and `Finally` the loop that sends downwards, `Sink`
the stream that `tcpWriter` writes to. What is assumed of the runtime is in the head of
the module: events in order, a queue that `close()` finishes, messages that are
ArrayBuffers or strings (a Blob needs a promise of its own, and two of them could
overtake each other).

## The runs

Every configuration is run as `tlc -config X.cfg M`. Deadlock is checked where the
system never stops of itself (`MCServer*.cfg`, `MCWSPool.cfg`, the CF domains); the other
systems end (a session, an update, all requests answered).

| run | module, cfg | what it shows |
|---|---|---|
| server | `MCServer`, `MCServer.cfg` | in every interleaving of two connections with updates, restarts and failing listens: the counter is exact (`ActiveExact`), a connection is admitted within the limit that was read for it (`AdmittedWithinLimit`), after an update no open session has a revoked secret (`RevokedClosed`), a sweep closes no session that keeps its secret (`KeptOpen`), no open session vanishes from the statistics (`LiveCounted`), and the server implements the gate (`ImplementsGate`); a revoked session goes away (`RevokedLeaves`) and an update returns (`UpdateReturns`), whatever the clients do |
| server_disable | `MCServer`, `MCServerDisable.cfg` | *violated*, see below |
| pool | `MCWSPool`, `MCWSPool.cfg` | the pool stays within its target, no connection has two owners, at most one straggler reaches a closed pool for each key; every refill ends and takes its flag down, with failing dials, a changing blacklist and a close at any moment (`RefillReturns`); a pool closed under a handler that had loaded it comes to rest (`ClosedRests`) |
| dial | `MCDialRace`, `MCDialRace.cfg` | two dials, or a dial and a probe, beside refills of the pool, that share every cool-down, with handlers that may come late to their `select`: what is open at the end has won a batch and is the returned connection or was left in the channel, no loser leaks (`WinnersOnly`); nothing wins before each leading Worker was dialed to its end, and none has connected but for one left in the channel (`WorkerFirst`); no order of answers leaves a call stuck (`NeverStuck`); a DC is blacklisted only by a call that returns nothing and whose failures are redirects (`BlacklistJustified`) |
| dial_late | `MCDialRace`, `MCDialRaceLate.cfg` | *violated*, see below |
| relay | `Relay`, `MCRelay.cfg` | nothing is lost in the middle, repeated or held back; a session ends only when both copies have ended and both connections are closed; it does end |
| store | `MCDCTable`, `MCDCTable.cfg` | the file is whole at every instant (`FileWhole`); a change that was acknowledged with no other request beside it survives a crash, and every later refresh of the DC table works with it (`AckObeyed`, which contains `AckDurable`); with a generated secret too, of which only the saving may fail, so that the file then holds none and a restart generates another |
| updater | `MCUpdater`, `MCUpdater.cfg` | which troubles leave a whole binary, which leave one that can be put back, and that nothing but a whole new binary is restarted |
| cf | `CFBalancer`, `MCCFBalancer.cfg` | dials that fail together start one emergency fetch (`NoStampede`); the active domain of a DC is a name that the pool has dropped only when a dial that had planned before the pool changed has pinned it afterwards (`StrayOnlyByOldDials`) |
| client | `MCClientConn`, `MCClientConn.cfg` | for every kind of hello, and every way a client cuts its frame and its messages into records: a client that is not ours sees the masking site only, and the site its whole stream (`Disguise`); nothing of a stream is lost between records, reads and messages (`StreamKept`), and the WebSocket frames are the messages (`FramesAreMessages`); a silent client loses its handler (`Decided`), a masked connection ends when either side does (`MaskEnds`) |
| tunnel | `Tunnel`, `MCTunnel.cfg` | the Worker passes both streams on in order (`TunnelInOrder`), the last messages before a close arrive (`LastWordsArrive`), and the close of either end closes everything (`TunnelEnds`) |
| wsconn | `WSConn`, `MCWSConn.cfg` | fragments arrive in order and once (`DataInOrder`); the connection breaks, and the writer fails, only after a close, after the server has gone, or after a control frame has itself waited its second for a server that does not read (`WriteFailsForReason`): that one does cost the writer its connection, the deadline of one that is over does not; a close that has begun ends reader, writer and closer (`CloseEnds`) |

### Bounds, and why they are enough

* `server`: two connections (what two handlers can do to each other is the counter
  and the two maps, pairwise), three boot files (two secrets; one whose only secret does
  not parse; another port, no WebSocket and no secret, so that one is generated) and two
  posted configurations: one rotates a key under the same ID, renames an entry and lowers
  the limit to 1; one switches the proxy off and deletes its secrets. Against the third
  file either is a restart. No symmetry, for liveness. `MCServerWide.cfg`, to be run by
  hand, checks the safety properties with the first two files and three posts: the
  first of these, one that switches the proxy off and its secrets with it, and one that
  changes the port and deletes all secrets, so that one is generated. The
  theorems below cover any number of connections and any configurations. A limit of 1 with
  two connections makes the refusal and the decrement meet an admission.
* `pool`: one key (keys share only the mutex), target 2, one handler and three slots:
  two in the pool or on their way and one in its hands, so that every refill finds the
  slots it needs. Without symmetry, for liveness. What several handlers
  can do to each other is covered by the theorems of `PoolProofs`, which hold for any
  number of handlers, keys and connections.
* `dial`: two callers on one data centre. Requests: a Worker and a CF domain (two
  batches), a relay and the Worker (one batch with a race), a probe of the two names of
  the edge; two Workers that race and a CF domain behind them, beside a probe of one
  Worker only (`MCSpec` leaves out the other pairs of that one, for their number of
  states); batches of up to 4 as in the code. The callers are symmetric.
* `relay`: two pieces each way with a packet end after the first, so that there is
  a packet, a tail, and a read that spans both.
* `store`: two requests, two values of the proxy section (one of them with the
  fallback site and without a secret) and an incomplete one that `Load` fills in, which
  has no secret either; main's refresh and one of the panel, one crash, after which main
  refreshes again. The web section has one value: it is saved as the other one is, so that
  the two kinds of post are the same. The two posts differ, and the first file is the
  incomplete one or has secrets (`MCSpec`). `StoreView` leaves out what the refreshes
  install and show, which no guard and neither property reads.
* `updater`: three requests: two that leave something behind and one that finds it; a
  new version that is shorter than the old one, and smaller if read as text.
* `cf`: a bundled list of one name in a world of two, two DCs, two dials, two emergency
  refreshes, no custom domain (the theorems cover one).
* `client`: frames of two bytes, so that one may come in two records, one for each
  protocol and one with an unknown tag; up to five bytes of messages, which hold a long
  header, a payload and the next header; records of at most 2 bytes downwards; four
  pieces from either side of a masked connection, two of them the hello.
* `tunnel`: three messages up and three pieces down: one written, one queued, one still
  an event.
* `wsconn`: three frames (two fragments and a control frame between them), of two
  pieces or none, read one piece at a time; one writer with one write; one
  closer (the theorems, all of safety, cover any number of them).

### Fairness

`server`, `pool`, `relay`, `client`, `tunnel` and `wsconn` use a `FairSpec`
(`WSFairSpec`): weak fairness of every step a goroutine of the process takes by itself (the Go scheduler runs every goroutine
that can run) and of the passing of deadlines: a handshake ends after its 30 s,
a dial after its timeout, a blocked write after its deadline or a `Close`, the idle
timeout when nothing is read. Nothing is assumed of clients, of Telegram, of the
relay of an open session or of who posts an update. `RelayEnds` of `Server` is fair
only once the socket is shut, which `RelayReturns` of `Relay` discharges: a copy
whose source was closed ends, and the session with it. In `pool` fair are the handlers
up to the relay, the refills and their dials (each has a deadline), the closes and the
second half of `close`, but neither a stop nor the end of a relay. In `client` fair are the handler,
the 30 s of the handshake and the two copies of a masked connection; that a write ends
is what TCP_USER_TIMEOUT, which both connections have, is for. In `tunnel` fair are the
runtime, a network that takes or refuses what is written, and the proxy once it has seen
the Worker's close, because its relay then closes (`RelayReturns`).

`NeverStuck` of `DialRace` says the same without fairness: a step is enabled in
every state in which the call is not over, and no step of a call goes back.

## Disagreements found

Each configuration below is expected to be violated; TLC prints the steps.
`MCServerDisable.cfg` and `MCDialRaceLate.cfg` are runs of the project, the rest can be
run by hand.

| cfg, module | claim, and where it is made | what the code does |
|---|---|---|
| `MCServerDisable.cfg`, `MCServer` | `DisabledClosesAll`; a test in `server_test.go` says "disabling the proxy left connections open" | a stop leaves `s.secrets` in force, so that a client that was in its handshake during the sweep passes `secretActive` later and is relayed by a proxy that is switched off |
| `MCConfigStoreAgree.cfg`, `MCConfigStore` | `UpdatedEverywhere`; the panel answers "MTProto configuration updated" | save, assignment and `UpdateConfig` of two requests interleave, and the proxy ends up running what the file does not hold |
| `MCServerFixed.cfg`, `MCServer` | `FixedIsServed`; `server.go` logs "proxy stopped; fix in Settings" | after a start that failed because the boot secret does not parse, a posted configuration whose difference needs no restart starts nothing |
| `MCWSPoolNext.cfg`, `MCWSPool` | `NextCallerHits`; `wspool.go`: "so the next caller can also hit" | a refill that is up when the bucket is emptied has counted before; its results may all have been taken, and the flag kept another one away |
| `MCWSPoolAlive.cfg`, `MCWSPool` | `RelayedAlive`; the comment on `liveNow` in `wsdial.go` | `liveNow` reads with a deadline that has passed, so that the read returns before it looks at the socket |
| `MCDialRaceRelay.cfg`, `MCDialRace` | `WorkerWins`; the comment on the Workers' batch in `dialrace.go` | with a relay in auto mode the TCP plan is first, no Worker is leading, and Workers share a batch with the native edge |
| `MCDialRaceSibling.cfg`, `MCDialRace` | `SiblingSkipped`; `obfuscated2.go`: "one TCP timeout must skip the sibling" | the filter runs once, before the first batch |
| `MCDialRaceAuto.cfg`, `MCDialRace` | `WSBeforeTCP`; the README on `auto`: first WebSocket, then TCP | they can share a batch, and TCP can win it |
| `MCDialRaceLate.cfg`, `MCDialRace` | `AllFailed`; the error "all transports failed" | a handler that reaches its `select` when the winner has sent and all goroutines have ended finds both cases ready; `select` may choose "done", the connection stays open in the channel and the call fails |
| `MCDialRaceProbe.cfg`, `MCDialRace` | `RealPicture`; `obfuscated2.go`: "ignore live-dial cooldowns so the UI shows the real picture" | `planTransports` leaves out what is in cool-down, for a probe too |
| `MCDCTableWhole.cfg`, `MCDCTable` | `WholeList`; the panel answers "success" with the list | a download of the official site that breaks off leaves its first lines, which become the table when the fallback site fails or is not allowed |
| `MCDCTableStays.cfg`, `MCDCTable` | `RefreshedStays`; the same answer | two refreshes run at once and the slower one installs its older list |
| `MCConfigStoreKept.cfg`, `MCConfigStore` | `SavedIsKept`; the panel answers "saved" | two requests clone, change and save: a lost update |
| `MCUpdaterLast.cfg`, `MCUpdater` | `LastResortInstalls`; the comment in `installBinary` on the last resort | the staged binary was removed before, so that the last resort removes the running one and has nothing to put in its place |
| `MCUpdaterTwo.cfg`, `MCUpdater` | `InstalledStays`; "update started; service will restart shortly" | a second script moves the binary the first one installed to the backup and can then fail |
| `MCCFBalancerPool.cfg`, `CFBalancer` | `OffersOnlyPool`; the comment on the balancer in `cfproxy.go` | a win of a dial that planned before a refresh pins a name the pool no longer has |
| `MCCFBalancerEmpty.cfg`, `CFBalancer` | `EmptyOnlyIfPoolEmpty`; the comment on `domainsForDC` | a pool all in cool-down is offered to nobody |
| `MCWSConnEmpty.cfg`, `WSConn` | `FragmentsAccepted`; the comment on fragments in `wsdial.go` | an empty first fragment leaves the accumulator nil, and the continuation is refused |

## The proofs

`tlapm` checks the eight `*Proofs.tla` modules. They assume what the modules assume of
their constants, each by name: `Server`, `WSPool` and `DialRace` that what is counted is
finite (the connections; the pool of CF domains), that the target of the pool, the width
of a batch and the number of emergency refreshes are positive, and that configurations
and requests are records of their fields; the "none" values are none of the others.
`ClientConn` and `MsgSplitter` assume that a header, a byte and a frame have a size, and
that an `int` holds the lengths a header can announce. Nothing is assumed of how many
clients, dials, requests, messages or crashes there are. `CFBalancer` and `WSConn` have
names of their own for `Init`, `Next`, `Spec` and `TypeOK` (`CFInit`, `WSInit`), because
they share a module of proofs with another component.

| module | what its theorems state |
|---|---|
| `ServerProofs` | `TypeOK`, `ActiveExact`, `RevokedClosed`, `LiveCounted`, `KeptOpen`, `AdmittedWithinLimit`, `ImplementsGate` |
| `PoolProofs` | of `WSPool`: `OwnedOnce`, `PoolBounded`, `FlagIsGoroutine`, `StragglersBounded`; of `CFBalancer`: `CFTypeOK`, `NoStampede`, `StrayOnlyByOldDials` |
| `DialRaceProofs` | `TypeOK`, `WinnersOnly`, `WorkerFirst`, `BlacklistJustified`, all of them for handlers that come late to their `select` too |
| `RelayProofs` | `TypeOK`, `NoGap`, `ReturnComplete`, `NothingHeldBack` |
| `ClientProofs` | of `ClientConn`: `TypeOK`, `Disguise`, `StreamKept`; of `MsgSplitter`: `FramesAreMessages` |
| `WebSocketProofs` | of `Tunnel`: `TypeOK`, `TunnelInOrder`, `LastWordsArrive`; of `WSConn`: `WSTypeOK`, `DataInOrder`, `WriteFailsForReason` |
| `ConfigStoreProofs` | `FileWhole`, `AckDurable`, `AckObeyed`, and that `DCTable` implements `ConfigStore` |
| `UpdaterProofs` | `TypeOK`, `BinaryIntact`, `RestartedNew`, `Recoverable`, `OldKept` |

Every inductive invariant was checked by TLC on the instance of its run before it was
proved.

### ServerProofs

`TypeCorrect` and `CounterExact` go action by action. The counter needs lemmas on
cardinalities (`CountedSame`, `CountedUp`, `CountedDown`): a step moves at most one
connection across the border of what is counted and adds what it moves.

`RevokedClosed` says nothing about a state in the middle of an update, and so is
not inductive. `IInv` adds what an update knows on its way:

* `ConnsExact`: `s.conns` holds exactly the handlers between `trackConn` and
  `untrackConn`, so a snapshot misses no session;
* `SweepFindsRevoked`: an open session whose secret is not in force is one the sweep
  has still to find (before the snapshot) or to close (in `victims`);
* `PendingInForce`: what is swept against is what was stored, and the sweep comes
  after the store. This is where the order of `secrets.Store` and the snapshot
  enters: a handler that registers after the snapshot looks its secret up in what
  was already stored;
* `VictimsRevoked`: only registered connections whose secret went are closed, from
  which `KeptSessions` follows;
* `LiveCounted`: pruning drops only keys without a secret, and those have no open
  session by then.

`AdmissionBounded` follows from the exact counter: admitted handlers are counted.
`ServerImplementsGate` maps every step to a step of `SecretGate` or a stutter, by
lemmas for each kind of step of the gate; `GateSettle` is where `SweepFindsRevoked`
is needed.

### PoolProofs

None of the four properties of `WSPool` is inductive. `IInv` adds to them:

* `FlagIsGoroutine` carries the second half of `PoolBounded`: a refill that counts
  what is missing finds nothing on its way, so that the connections it dials and
  those it counted make up the target. Gets only shorten a bucket (lemma
  `CutBucket`), and an append takes out of what is on its way what it puts into the
  bucket (`AppendToBucket`, `FS_RemoveElement`);
* `Separate`: what is on its way to a key is in one of three places (a dial, the
  channel, the hand) and not in a bucket, and keys share nothing. Steps that only
  take things away keep this and `OwnedOnce` (lemma `Shrinks`); `OwnedGet` and
  `OwnedRefill` treat the two that move a connection from one owner to another;
* `LastStraggler`: after the drain a bucket is empty, or holds one connection and its
  goroutine has none in hand. A connection was in hand when the drain came; every
  later one meets the check of the context.

`OneOwner`, `WithinTarget`, `OneRefill` and `AtMostOneStraggler` follow for any number
of keys, handlers and connections.

For `CFBalancer`, `NoStampede` needs to know what a dial holds between its load of the
time stamp and its compare-and-swap: a value that is out of date, so that the swap
fails, or one from before the period, in which then nobody has begun a refresh.
`StrayOnlyByOldDials` is inductive together with `OffersKnown`: a dial that planned since
the pool changed was offered names of the pool only, or its DC had already been led astray
by an older one, whose pin `domainsForDC` offers as the active domain. A change of the
pool reseeds every DC and makes every dial that is under way an old one.

### DialRaceProofs

The first part is about `TransportPlan`. `SelectionIsSeq` and `SelectionKeepsLead` say
what a selection by positions returns: members of the list, in their order (`Nth` finds
the n-th position by counting, on `UpToFinite`). `TransportList` puts the plans of a
dial together from its five lists: unless a relay goes first, no plan is in front of a
Worker but Workers (`WorkersLead`). `Leading` and `LeadingAreAll` say that the leading
Workers are then all of them, `BatchIs` that a batch has no gap, and that the first
batch is exactly the leading Workers.

The invariant is one formula for each call (`Call`), over the values that belong to it;
the lemmas on the steps (`NewPlans`, `BatchBegins`, `BatchPasses`, `DialStep`, ...) are
about such values, and `OneCall` carries them over to the system, in which calls share
nothing but the cool-downs. Its parts:

* `Typed`: a connection is open exactly between its dial and its close or its return;
* `Batched`: batches before the current one have ended (`Ended`: each plan failed, lost,
  kept quiet or won), those behind it have not begun. Without it `BlacklistJustified` would
  not follow: the errors are collected over several batches;
* `OneWinner`: who has claimed, won, lost or kept quiet knows that `taken` is set, and
  while the handler waits in its `select`, somebody of this batch holds the claim if it is
  set;
* `Beaten`: who lost or kept quiet has lost to a claim on the same side of the leading
  Workers. So a Worker that has ended without an error was beaten by a Worker, and a call
  that is through without a result has failures, or a connection left in the channel;
* `Explained` and `Led`: a failed dial has an error; past the first batch no Worker is
  left;
* `Probing`: a probe claims and returns nothing.

The handler may come to its `select` at any time, before or after the goroutines of its
batch have ended, and `select` may choose as it likes; the theorems say what holds of a
call all the same. `LosersAreClosed`: after a call only connections that won a batch are
open, the one it returned, which is the only one of its batch, and those that were left in
the channel; so the connection of a loser and those of a probe never stay.
`WorkersComeFirst`: without a relay no other path wins before each Worker was dialed to the
end, and each has failed unless one of them has connected and was left in the channel.
`OnlyRedirectsBlacklist`: a DC gets onto the blacklist by a call that returns nothing and
whose WebSocket failures, at least one, are all redirects; they are those of every
WebSocket plan unless a connection was left in the channel. That such connections exist at
all is the disagreement of `MCDialRaceLate.cfg`. The width of a batch, the requests, the
pool and the number of dials and probes at once are arbitrary.

### RelayProofs

`Stream` says of each direction that what was delivered, what the copy is about to
write and what the splitter holds back are together what was read, in order
(`Consecutive`), unless a write to that side has failed, after which nothing is written
there any more. `Closing` says what the handler has closed at each of its steps.
`StreamsHaveNoGap`, `TailIsFlushed` and `ReturnIsComplete` follow for every amount of
traffic and any positions of the packet ends. The lemmas on runs of numbers
(`RangeIsRun`, `JoinRuns`, `CutRun`) are about concatenation and `SubSeq`.

### ClientProofs

`IInv` is `TypeOK` with three parts. `Masking` follows a client that is not ours from
the hello to the copies: what was read of it is in the initial bytes, then what the site
has received and what the copy holds are together what was read (`Passing`), from which
`Disguise` follows. `FrameFirst` says that the splitter gets nothing before the frame is
complete and that it then either passes on or keeps every byte. With `StreamKept` these
are inductive.

`CutAtMessages` (`FramesAreMessages`) is about what the splitter computes: the loop of
`split`, run on chunks cut anywhere, with a buffer between them and an `int` that wraps
around, cuts where the parse of the whole stream without an `int` does. The invariant
`Cutting` says besides where the loop begins again: at the end of the last message, or
at a header that makes no sense. The argument has three layers:

* *Headers.* `NextLenAt` says what `nextLen` returns at a position: nothing yet while the
  header is not complete, and else what the header and the payload after it come to in an
  `int`. A sum that wraps around is negative (`WholeIs`, `AnnouncedFits`), and `split`
  gives up where the reference definition finds no message either. What is at a position
  depends on the bytes of its header alone, so it is the same in the chunk and in the
  whole stream (`HeaderStays`, `MessageStays`, `BadStays`).
* *Positions.* What a parse comes to is the least set that holds 0 and, with a position,
  the end of the message that begins there. Nothing is reached beyond a message that has
  not ended (`NoOvertaking`), so what the whole stream reaches is what was reached before
  and what is reached from the last of these on (`ReachedOn`).
* *Steps.* `SplitFinds` and `SplitCuts` apply this to one call of `split`; every other
  step leaves the positions alone (`CutsAlone`).

No induction over data is cited in this: an induction is a set of numbers with a least
element (`Least`), and that a recursive function exists and obeys its equation is proved
for the ones the model uses (`ReachedExists`, `FoldExists`).

### WebSocketProofs

`Upward` and `Downward` say of the Worker's queue and its loop what `Stream` says of a
relay. `DCHealthy` and
`ProxyHealthy` name what can end the tunnel while one of its ends is well: they carry
`LastWordsArrive`. Both orders of the two event handlers and the loop are covered, and
any number of messages.

The invariant of `WSConn` (`WSInv`) has four parts beside the types:

* `DataInv`: frames are numbered as they were sent, only data frames carry pieces, and
  until the reader ends every piece was either received, or is held, or is in a frame on
  its way, in this order (`Split`);
* `OneHolder`: the write lock has one holder, and a writer that waits for it or writes
  has a write left;
* `Goodbyes`: a goroutine that closes is in `tryWriteControl` only while it says
  goodbye;
* `Deadlines`: a deadline for writing is set by a close that has begun or by the holder
  of the lock, who takes it back unless a close has begun.

`PiecesInOrder` follows from the first. `WritesFailForReason` is inductive with the others:
while the writer holds the lock, the only deadline it can run into is that of a `Close`
(`WriterHasReason`), so the second of a control frame ends that frame's own write or none;
a control frame that it does end had a server that does not read (`ControlHasReason`), and
what excuses a broken connection stays true (`ReasonsStay`). That such a frame costs the
writer its connection is what `crypto/tls` makes of a write that times out.

### ConfigStoreProofs

`FileWhole` needs to know what is renamed: `IInv` says that the savers that write,
requests or main, are the holder of `saveMu`, that there is at most one, and that when it
is about to rename, the temporary file holds its own configuration. A crash
empties both sets. `FileAlwaysWhole` follows, for any number of requests and
crashes.

`AckDurable` is about a request that no other overlaps. `Stage` says what such a
request has reached at each step: the file after the first rename, the panel's pointer
after the assignment, the proxy's after the update, and, while it generates and saves a
secret, a file that is its own but for that secret. `AloneMovesItself` says that whoever is
alone after a step was so before it, and that the step is its own. `BootInv` is main's
half: before the panel is up nobody else moves, and what main serves is what the file
holds but for a generated secret. What was answered is in the file up to filled-in
defaults and that secret (`Same`): when its save fails, the file holds none (`file.secret =
0`) although the answer was a success, and a restart serves another one. If the file
holds one, it is the one that is served. A crash needs `DefaultedSame`: filling in the
defaults again changes nothing.

`TableImplementsStore` is a refinement: a step of `DCTable` is one of `ConfigStore` or
leaves its variables alone. So the invariants hold of `DCTable` too, and `ObeyInv` adds
that a refresh works with the setting of the requests it came after; `AckIsObeyed`
follows, for restarted processes as well.

### UpdaterProofs

What a step may rely on depends on what may go wrong in the history (`trouble`), so the
invariant is a conjunction of parts with a premise each: with a rename that works one of
the two places holds a whole binary (`Intact`); without overlaps what a script finds is
what it has prepared (`Alone`, `Prepared`); the old binary leaves its place only by a
rename to the backup (`OldGone`). Each property follows from one or two of them. Any
number of requests is covered, and any pair of versions.

### Only model-checked

Every invariant a run checks has a theorem, except `NeverStuck` of `DialRace`, which is
an `ENABLED`. It and the liveness properties (`RevokedLeaves`, `UpdateReturns`,
`RelayReturns`, `RefillReturns`, `ClosedRests`, `CloseEnds`, `Decided`, `MaskEnds`,
`TunnelEnds`) are out of the prover's reach and stay with TLC.

## What is not modelled

`PROJECT.json` gives a reason for each component. In short: cryptography (a hello
matches a secret or does not, a keystream is the identity), the byte layout of the
ServerHello and of WebSocket frames, the parsing of secrets, of domain lists and of the
lines of a DC document, HTTP, logging, byte counters, the read-only pages of the
panel, the installer and the UI. `dcForIP` and `dcForIPRange` have no caller outside the
tests. Blobs as messages of the Worker are excluded by assumption.
