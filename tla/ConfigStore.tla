----------------------------- MODULE ConfigStore -----------------------------
(***************************************************************************)
(* How a configuration gets from the panel into the file, the panel's own  *)
(* copy and the proxy (handleFullConfig, handleProxyConfig and persist of  *)
(* internal/web/server.go, SaveToFile and Load of internal/config), with   *)
(* concurrent requests, failing writes and crashes. saveMu is held only    *)
(* inside SaveToFile. What the proxy does with a configuration is Server;  *)
(* here it matters that UpdateConfig, under s.mu, may generate a secret    *)
(* (buildSecrets), put it in place into the configuration the panel holds  *)
(* already, and save a second time. The panel and the proxy hold pointers: *)
(* each is known by whose configuration it is, a request's or main's.      *)
(***************************************************************************)
EXTENDS Naturals, FiniteSets

CONSTANTS
  Poster,       \* requests, one POST each
  Starter,      \* main, up to the start of the panel
  Web,          \* values of the web and update sections
  Proxy,        \* values of the proxy section
  Bare,         \* the enabled ones with a fake_sni and no secret
  Blank,        \* a proxy section with empty fields that Load fills in
  Filled,       \* what it becomes
  None,         \* no such file
  Torn,         \* a file that is truncated and not yet written
  MaxCrashes    \* bound: crashes of the process

ASSUME StarterIsNew == Starter \notin Poster
ASSUME BlankType == Blank \notin Proxy /\ Filled \in Proxy
ASSUME FilesAreNew ==
  None # Torn /\ {None, Torn} \cap [web : Web, proxy : Proxy \cup {Blank}, secret : Nat] = {}
ASSUME MaxCrashesNat == MaxCrashes \in Nat

\* secret is the number of the generated one, 0 if there is none.
Config == [web : Web, proxy : Proxy \cup {Blank}, secret : Nat]
Saver == Poster \cup {Starter}

VARIABLES
  file,       \* config.json
  tmp,        \* config.json.tmp
  saving,     \* who holds saveMu
  panel,      \* s.cfg of the panel: whose configuration it is
  running,    \* s.cfg of the proxy: whose configuration it is
  pc,         \* where each request is, and main
  post,       \* what it posts: a full configuration or a proxy section
  cur,        \* the configuration each has made, or loaded
  made,       \* counts the secrets that were generated
  seen,       \* history: the requests that had answered when it came
  crashes     \* counts crashes up to the bound

vars == <<file, tmp, saving, panel, running, pc, post, cur, made, seen, crashes>>

Posts == [full : BOOLEAN, web : Web, proxy : Proxy \cup {Blank}]
Done == {"ok", "failed", "cut"}
Steps == {"idle", "decoded", "save", "write", "rename", "set", "update", "generate"} \cup Done

TypeOK ==
  /\ file \in Config \cup {None, Torn}
  /\ tmp \in Config \cup {None, Torn}
  /\ saving \subseteq Saver /\ Cardinality(saving) <= 1
  /\ panel \in Saver /\ running \in Saver
  /\ pc \in [Saver -> Steps]
  /\ post \in [Poster -> Posts]
  /\ cur \in [Saver -> Config]
  /\ made \in Nat
  /\ seen \in [Poster -> SUBSET Poster]
  /\ crashes \in 0..MaxCrashes

\* What the panel shows, and what the proxy works with.
mem == cur[panel]
served == cur[running]

\* applyDefaults.
Defaulted(c) == [c EXCEPT !.proxy = IF @ = Blank THEN Filled ELSE @]

\* main: a valid file has been loaded.
Init ==
  /\ file \in [web : Web, proxy : Proxy \cup {Blank}, secret : {0}]
  /\ tmp = None
  /\ saving = {}
  /\ panel = Starter /\ running = Starter
  /\ pc = [r \in Saver |-> IF r = Starter THEN "update" ELSE "idle"]
  /\ post \in [Poster -> Posts]
  /\ cur = [r \in Saver |-> Defaulted(file)]
  /\ made = 0
  /\ seen = [r \in Poster |-> {}]
  /\ crashes = 0

At(r, from, to) == pc[r] = from /\ pc' = [pc EXCEPT ![r] = to]

\* The request is decoded and passes its validation: the panel is up.
Receive(r) ==
  /\ pc[Starter] = "ok"
  /\ At(r, "idle", "decoded")
  /\ seen' = [seen EXCEPT ![r] = {q \in Poster : pc[q] = "ok"}]
  /\ UNCHANGED <<file, tmp, saving, panel, running, post, cur, made, crashes>>

\* getCfg().Clone() and the change: a proxy request keeps the other sections, and
\* neither keeps a generated secret.
Changed(r) ==
  [web |-> IF post[r].full THEN post[r].web ELSE mem.web, proxy |-> post[r].proxy, secret |-> 0]

\* Mutant: the panel takes the change and answers without saving it.
CloneIsAll(r) ==
  /\ At(r, "decoded", "ok")
  /\ cur' = [cur EXCEPT ![r] = Changed(r)]
  /\ panel' = r /\ running' = r
  /\ UNCHANGED <<file, tmp, saving, post, made, seen, crashes>>

Clone(r) ==
  /\ At(r, "decoded", "save")
  /\ cur' = [cur EXCEPT ![r] = Changed(r)]
  /\ UNCHANGED <<file, tmp, saving, panel, running, post, made, seen, crashes>>

\* The clone reads the slice of secrets while UpdateConfig appends to it, without a
\* lock: a length without its array ends the request with a panic.
CloneTorn(r) ==
  /\ pc[panel] = "generate"
  /\ At(r, "decoded", "cut")
  /\ UNCHANGED <<file, tmp, saving, panel, running, post, cur, made, seen, crashes>>

\* SaveToFile: saveMu, and the temporary file is truncated.
StartSave(r) ==
  /\ saving = {}
  /\ At(r, "save", "write")
  /\ saving' = {r}
  /\ tmp' = Torn
  /\ UNCHANGED <<file, panel, running, post, cur, made, seen, crashes>>

WriteTmp(r) ==
  /\ At(r, "write", "rename")
  /\ tmp' = cur[r]
  /\ UNCHANGED <<file, saving, panel, running, post, cur, made, seen, crashes>>

\* Its save is the second one, of a generated secret.
Again(r) == cur[r].secret # 0

Rename(r) ==
  /\ At(r, "rename", IF Again(r) THEN "ok" ELSE "set")
  /\ file' = tmp
  /\ tmp' = None
  /\ saving' = {}
  /\ UNCHANGED <<panel, running, post, cur, made, seen, crashes>>

\* A request that cannot save is answered with the error; a generated secret that
\* cannot be saved is logged, and the request answered as if it were.
Unsaved(r) == IF Again(r) THEN "ok" ELSE "failed"

\* Mutant: the temporary file is put in place whatever happened.
SaveFailsTorn(r) ==
  /\ pc[r] \in {"write", "rename"}
  /\ pc' = [pc EXCEPT ![r] = Unsaved(r)]
  /\ file' = tmp
  /\ saving' = {}
  /\ UNCHANGED <<tmp, panel, running, post, cur, made, seen, crashes>>

\* The write or the rename fails.
SaveFails(r) ==
  /\ pc[r] \in {"write", "rename"}
  /\ pc' = [pc EXCEPT ![r] = Unsaved(r)]
  /\ saving' = {}
  /\ UNCHANGED <<file, tmp, panel, running, post, cur, made, seen, crashes>>

SetCfg(r) ==
  /\ At(r, "set", "update")
  /\ panel' = r
  /\ UNCHANGED <<file, tmp, saving, running, post, cur, made, seen, crashes>>

\* Who holds s.mu of the proxy between two steps.
Updating == {q \in Saver : pc[q] = "generate" \/ (pc[q] \in {"save", "write", "rename"} /\ Again(q))}

\* Mutant: a secret is generated although the loaded section has one.
UpdateForgets(r) ==
  /\ Updating = {}
  /\ running' = r
  /\ \/ At(r, "update", "ok")
     \/ cur[r].proxy \in Bare /\ At(r, "update", "generate")
  /\ UNCHANGED <<file, tmp, saving, panel, post, cur, made, seen, crashes>>

\* UpdateConfig, or Start: done, or a secret is missing. A section like the one before
\* starts nothing if the proxy was not running, so that none need be generated.
UpdateProxy(r) ==
  /\ Updating = {}
  /\ running' = r
  /\ \/ At(r, "update", "ok")
     \/ cur[r].proxy \in Bare /\ cur[r].secret = 0 /\ At(r, "update", "generate")
  /\ UNCHANGED <<file, tmp, saving, panel, post, cur, made, seen, crashes>>

\* buildSecrets: the secret goes into the configuration itself.
Generate(r) ==
  /\ At(r, "generate", "save")
  /\ made' = made + 1
  /\ cur' = [cur EXCEPT ![r].secret = made + 1]
  /\ UNCHANGED <<file, tmp, saving, panel, running, post, seen, crashes>>

\* The process dies at any point and is started again by Load.
Crash ==
  /\ crashes < MaxCrashes
  /\ crashes' = crashes + 1
  /\ pc' = [r \in Saver |-> IF r = Starter THEN "update"
                           ELSE IF pc[r] \in Done \cup {"idle"} THEN pc[r] ELSE "cut"]
  /\ saving' = {}
  /\ panel' = Starter /\ running' = Starter
  /\ cur' = [cur EXCEPT ![Starter] = Defaulted(file)]
  /\ UNCHANGED <<file, tmp, post, made, seen>>

\* SaveToFile and UpdateConfig, of a request or of main.
Save(r) == StartSave(r) \/ WriteTmp(r) \/ Rename(r) \/ SaveFails(r)
Update(r) == UpdateProxy(r) \/ Generate(r)

Request(r) == Receive(r) \/ Clone(r) \/ CloneTorn(r) \/ SetCfg(r)

Next ==
  \/ Crash
  \/ \E r \in Poster : Request(r)
  \/ \E r \in Saver : Save(r) \/ Update(r)

Spec == Init /\ [][Next]_vars

-----------------------------------------------------------------------------
(* Properties. *)

Settled == pc[Starter] = "ok" /\ \A r \in Poster : pc[r] \in Done \cup {"idle"}

\* A post is alone when every other one answered before it came or has not come.
Alone(r) ==
  \A q \in Poster \ {r} : pc[q] = "idle" \/ (pc[q] = "ok" /\ q \in seen[r])

\* The same but for empty fields and a generated secret.
Same(c, d) == c.web = d.web /\ Defaulted(c).proxy = Defaulted(d).proxy

\* An answer "success" is durable: with no other request beside it, at every later point
\* and after any crash the file holds what was posted and the panel and the proxy hold
\* one configuration, which is what was posted. Only a generated secret may be missing in
\* the file, when its save has failed; if the file has one, it is the one that is served.
AckDurable ==
  \A r \in Poster :
    pc[r] = "ok" /\ Alone(r) =>
      /\ mem = served
      /\ Same(served, cur[r]) /\ Same(file, cur[r])
      /\ file.secret \in {0, served.secret}

\* Whatever the requests, the failures and the crashes, the file is never torn: at
\* every instant it holds the configuration it had, one that was posted, or one of
\* these with a generated secret.
FileWhole == file # Torn /\ file # None

\* Why FileWhole holds, inductively: the file always holds a configuration, the
\* savers that write are the ones that hold saveMu, at most one does, and the one
\* about to rename has written its own configuration into the temporary file it renames.
Writing == {r \in Saver : pc[r] \in {"write", "rename"}}
IInv ==
  /\ TypeOK
  /\ file \in Config
  /\ saving = Writing
  /\ \A p, q \in Writing : p = q
  /\ \A r \in Saver : pc[r] = "rename" => tmp = cur[r]

\* The panel answers {"success": true, "message": "saved"}. Claimed: the web section
\* of the only full configuration is kept when a proxy section is posted beside it.
SavedIsKept ==
  Settled =>
    \A r \in Poster :
      pc[r] = "ok" /\ post[r].full /\ (\A q \in Poster \ {r} : ~post[q].full)
        => file.web = post[r].web

\* The panel answers "MTProto configuration updated". Claimed: once all requests
\* have been answered, the proxy runs what the file holds.
UpdatedEverywhere == Settled => Same(served, file)
=============================================================================
