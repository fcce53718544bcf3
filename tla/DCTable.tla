------------------------------- MODULE DCTable --------------------------------
(***************************************************************************)
(* The panel's requests (ConfigStore) beside the refreshes of the table of *)
(* data centres (RefreshDCs of internal/mtproto/dc.go): one by main at the *)
(* start of the process, the others by handleRefreshDCs, which reads the   *)
(* setting of the fallback site from the panel's configuration. No lock is *)
(* held during a download. What the proxy_for lines say is left out: a     *)
(* list is known by who installed it, and by whether its download was cut. *)
(***************************************************************************)
EXTENDS ConfigStore

CONSTANTS
  Refresher,      \* requests of a refresh
  Main,           \* the refresh of main
  WithFallback,   \* the proxy sections with dc_fallback_enabled
  NoList          \* the empty table

ASSUME MainIsNew == Main \notin Refresher
ASSUME FallbackSections ==
  /\ WithFallback \subseteq Proxy \cup {Blank}
  /\ Blank \in WithFallback <=> Filled \in WithFallback
ASSUME NoListIsNew == NoList \notin [by : Refresher \cup {Main}, whole : BOOLEAN]

VARIABLES
  table,      \* dcRuntime
  rpc,        \* where each refresh is
  enabled,    \* the setting it has read
  cut,        \* whether it holds the first part of a document whose download broke
  asked,      \* history: the posts that were answered when it read the setting
  shown       \* the table it answered with

refreshVars == <<table, rpc, enabled, cut, asked, shown>>
allVars == <<vars, refreshVars>>

All == Refresher \cup {Main}
Lists == [by : All, whole : BOOLEAN] \cup {NoList}

TableTypeOK ==
  /\ table \in Lists /\ shown \in [All -> Lists]
  /\ rpc \in [All -> {"idle", "official", "fallback", "show", "ok", "failed"}]
  /\ enabled \in [All -> BOOLEAN] /\ cut \in [All -> BOOLEAN]
  /\ asked \in [All -> SUBSET Poster]

\* Fallback of the proxy section in c.
FallbackEnabled(c) == c.proxy \in WithFallback

Answered == {r \in Poster : pc[r] = "ok"}

\* main: the goroutine starts with what Load has read.
TableInit ==
  /\ Init
  /\ table = NoList /\ shown = [f \in All |-> NoList]
  /\ rpc = [f \in All |-> IF f = Main THEN "official" ELSE "idle"]
  /\ enabled = [f \in All |-> FallbackEnabled(mem)]
  /\ cut = [f \in All |-> FALSE]
  /\ asked = [f \in All |-> {}]

RefreshAt(f, from, to) == rpc[f] = from /\ rpc' = [rpc EXCEPT ![f] = to]

\* Mutant: the panel refreshes with the setting that main has read.
AskMain(f) ==
  /\ pc[Starter] = "ok"
  /\ RefreshAt(f, "idle", "official")
  /\ enabled' = [enabled EXCEPT ![f] = enabled[Main]]
  /\ asked' = [asked EXCEPT ![f] = Answered]
  /\ UNCHANGED <<vars, table, cut, shown>>

\* handleRefreshDCs, once the panel is up.
Ask(f) ==
  /\ pc[Starter] = "ok"
  /\ RefreshAt(f, "idle", "official")
  /\ enabled' = [enabled EXCEPT ![f] = FallbackEnabled(mem)]
  /\ asked' = [asked EXCEPT ![f] = Answered]
  /\ UNCHANGED <<vars, table, cut, shown>>

\* The lines of a document, whole or not, replace the table unless there is none.
Install(f, site, whole) ==
  \/ /\ RefreshAt(f, site, "show")
     /\ table' = [by |-> f, whole |-> whole]
     /\ UNCHANGED <<vars, enabled, cut, asked, shown>>
  \/ /\ RefreshAt(f, site, "failed")
     /\ UNCHANGED <<vars, table, enabled, cut, asked, shown>>

\* A site sends its document.
Download(f, site) == Install(f, site, TRUE)

\* No answer, another status, or a download that breaks off: what has come of it stays
\* in body, and the next site is tried.
OfficialFails(f) ==
  /\ enabled[f]
  /\ RefreshAt(f, "official", "fallback")
  /\ cut' \in {cut, [cut EXCEPT ![f] = TRUE]}
  /\ UNCHANGED <<vars, table, enabled, asked, shown>>

\* The last site fails: without a body that is an error, and with one it is parsed.
LastFails(f) ==
  \E site \in {"official", "fallback"} :
    /\ site = "official" => ~enabled[f]
    /\ \/ ~cut[f] /\ RefreshAt(f, site, "failed")
          /\ UNCHANGED <<vars, table, enabled, cut, asked, shown>>
       \/ Install(f, site, FALSE)

\* DCSnapshot, and the answer with what it has found.
Show(f) ==
  /\ RefreshAt(f, "show", "ok")
  /\ shown' = [shown EXCEPT ![f] = table]
  /\ UNCHANGED <<vars, table, enabled, cut, asked>>

Refresh(f) ==
  \/ Ask(f) \/ Download(f, "official") \/ Download(f, "fallback")
  \/ OfficialFails(f) \/ LastFails(f) \/ Show(f)

\* The process starts again, and so does main's refresh.
Restart ==
  /\ Crash
  /\ table' = NoList /\ shown' = [f \in All |-> NoList]
  /\ rpc' = [f \in All |-> CASE f = Main -> "official"
                             [] rpc[f] = "idle" -> "idle"
                             [] OTHER -> "failed"]
  /\ enabled' = [enabled EXCEPT ![Main] = FallbackEnabled(mem')]
  /\ cut' = [f \in All |-> FALSE]
  /\ asked' = [asked EXCEPT ![Main] = Answered]

\* A step of the panel, or of main at its start.
Post ==
  /\ (\E r \in Poster : Request(r)) \/ (\E r \in Saver : Save(r) \/ Update(r))
  /\ UNCHANGED refreshVars

TableNext == Restart \/ Post \/ (\E f \in All : Refresh(f))

TableSpec == TableInit /\ [][TableNext]_allVars

-----------------------------------------------------------------------------
(* Properties. *)

\* An answered configuration is durable, and it is what the refreshes that come later
\* work with, those of a restarted process included: the fallback site, a third party,
\* is not asked once it is switched off.
AckObeyed ==
  /\ AckDurable
  /\ \A r \in Poster, f \in All :
       r \in asked[f] /\ Alone(r) => enabled[f] = FallbackEnabled(cur[r])

\* Claimed by the answer "success" of a refresh: what it shows is a whole list.
WholeList == \A f \in All : rpc[f] = "ok" => shown[f].whole

\* Claimed: a refresh that was answered is not undone by one that began before it.
RefreshedStays ==
  \A f \in Refresher :
    rpc[f] = "ok" /\ (\A g \in Refresher \ {f} : rpc[g] = "idle") => table.by = f
=============================================================================
