----------------------------- MODULE CFBalancer -----------------------------
(***************************************************************************)
(* The pool of CF domains (internal/mtproto/cfproxy.go): the active domain *)
(* of each data centre, the cool-down after a 429 or 503, the hourly and   *)
(* the emergency refresh, used by dials that keep their own list of plans  *)
(* while the pool changes. Each method holds mu from start to end.         *)
(*                                                                         *)
(* The pool is shuffled for every dial, so its order is left out. Time is  *)
(* left out too: a cool-down and the minimum between two emergency         *)
(* refreshes end whenever the clock says.                                  *)
(***************************************************************************)
EXTENDS Naturals, FiniteSets

CONSTANTS
  Domain,      \* names that the published list may hold
  Default,     \* the bundled list
  Custom,      \* the value of ws_custom_domain
  HasCustom,   \* whether it is set
  DC, Caller,  \* data centres, concurrent dials
  MinValid,    \* cfProxyMinValid
  MaxStamp     \* bound on emergency refreshes

ASSUME DefaultType == Default \subseteq Domain /\ Default # {}
ASSUME CustomType == Custom \notin Domain /\ HasCustom \in BOOLEAN
ASSUME BoundType == MinValid \in Nat \ {0} /\ MaxStamp \in Nat \ {0}

VARIABLES
  domains,    \* the pool
  perDC,      \* the active domain of each data centre
  cooldown,   \* the domains in cool-down
  stamp,      \* cfEmergencyRefreshAt: one value for each refresh
  fresh,      \* whether stamp is younger than cfEmergencyRefreshMin
  begun,      \* emergency refreshes since fresh was last false
  fetching,   \* refreshes on their way: 0 the loop, n the emergency n
  pc, dc,     \* where each dial is, and its data centre
  offer,      \* its domains that have not answered yet
  cfFailed,   \* whether one of them failed
  prev,       \* what it read from cfEmergencyRefreshAt
  older,      \* history: the dials that planned before the last change of the pool
  stray       \* history: the data centres for which one of these has pinned a name that
              \* the pool had dropped

domainVars == <<domains, perDC, cooldown>>
refreshVars == <<stamp, fresh, begun, fetching>>
dialVars == <<pc, dc, offer, cfFailed, prev>>
pinHistory == <<older, stray>>
cfVars == <<domainVars, refreshVars, dialVars, pinHistory>>

CFTypeOK ==
  /\ domains \subseteq Domain /\ domains # {}
  /\ perDC \in [DC -> Domain \cup {Custom}]
  /\ cooldown \subseteq Domain \cup {Custom}
  /\ stamp \in 0..MaxStamp /\ fresh \in BOOLEAN
  /\ begun \in 0..MaxStamp
  /\ fetching \subseteq 0..MaxStamp
  /\ pc \in [Caller -> {"idle", "dial", "load", "swap"}]
  /\ dc \in [Caller -> DC]
  /\ offer \in [Caller -> SUBSET (Domain \cup {Custom})]
  /\ cfFailed \in [Caller -> BOOLEAN]
  /\ prev \in [Caller -> 0..MaxStamp]
  /\ older \subseteq Caller /\ stray \subseteq DC

CFInit ==
  /\ domains = Default /\ perDC \in [DC -> Default] /\ cooldown = {}
  /\ stamp = 0 /\ fresh = FALSE /\ begun = 0
  /\ fetching = {0}
  /\ pc = [c \in Caller |-> "idle"]
  /\ dc \in {[c \in Caller |-> d] : d \in DC}
  /\ offer = [c \in Caller |-> {}]
  /\ cfFailed = [c \in Caller |-> FALSE]
  /\ prev = [c \in Caller |-> 0]
  /\ older = {} /\ stray = {}

-----------------------------------------------------------------------------
(* A dial, as far as the pool is concerned. *)

\* domainsForDC: the active domain, also when the pool lost it, and the others.
DomainsForDC(d) == ({perDC[d]} \cup domains) \ cooldown

Plan(c) ==
  /\ pc[c] = "idle"
  /\ \E d \in DC :
       /\ dc' = [dc EXCEPT ![c] = d]
       /\ offer' = [offer EXCEPT ![c] =
                      DomainsForDC(d) \cup IF HasCustom THEN {Custom} ELSE {}]
  /\ pc' = [pc EXCEPT ![c] = "dial"]
  /\ UNCHANGED <<domainVars, refreshVars, cfFailed, prev, pinHistory>>

\* recordPlanFailure: a 429 or 503 penalizes the domain, another error does not.
Fails(c, d) ==
  /\ pc[c] = "dial" /\ d \in offer[c]
  /\ offer' = [offer EXCEPT ![c] = @ \ {d}]
  /\ cfFailed' = [cfFailed EXCEPT ![c] = TRUE]
  /\ cooldown' \in {cooldown, cooldown \cup {d}}
  /\ UNCHANGED <<domains, perDC, refreshVars, pc, dc, prev, pinHistory>>

\* recordPlanSuccess: the domain is pinned, and the dial is over.
Wins(c, d) ==
  /\ pc[c] = "dial" /\ d \in offer[c]
  /\ perDC' = [perDC EXCEPT ![dc[c]] = d]
  /\ pc' = [pc EXCEPT ![c] = "idle"]
  /\ offer' = [offer EXCEPT ![c] = {}]
  /\ stray' = IF c \in older /\ d \notin domains \cup {Custom} THEN stray \cup {dc[c]} ELSE stray
  /\ cfFailed' = [cfFailed EXCEPT ![c] = FALSE]
  /\ older' = older \ {c}
  /\ UNCHANGED <<domains, cooldown, refreshVars, dc, prev>>

\* Another transport wins; what the pool's domains answer later is not recorded.
OtherWins(c) ==
  /\ pc[c] = "dial"
  /\ pc' = [pc EXCEPT ![c] = "idle"]
  /\ offer' = [offer EXCEPT ![c] = {}]
  /\ cfFailed' = [cfFailed EXCEPT ![c] = FALSE]
  /\ older' = older \ {c}
  /\ UNCHANGED <<domainVars, refreshVars, dc, prev, stray>>

\* Everything has failed: with a CF domain among it a refresh is asked for.
GiveUp(c) ==
  /\ pc[c] = "dial" /\ offer[c] = {}
  /\ pc' = [pc EXCEPT ![c] = IF cfFailed[c] THEN "load" ELSE "idle"]
  /\ cfFailed' = [cfFailed EXCEPT ![c] = FALSE]
  /\ older' = older \ {c}
  /\ UNCHANGED <<domainVars, refreshVars, dc, offer, prev, stray>>

-----------------------------------------------------------------------------
(* requestCFPoolRefresh and refreshFromURL. *)

Load(c) ==
  /\ pc[c] = "load"
  /\ IF fresh THEN pc' = [pc EXCEPT ![c] = "idle"] /\ UNCHANGED prev
             ELSE pc' = [pc EXCEPT ![c] = "swap"] /\ prev' = [prev EXCEPT ![c] = stamp]
  /\ UNCHANGED <<domainVars, refreshVars, dc, offer, cfFailed, pinHistory>>

\* Mutant: the time is stored whatever it was.
StoreNow(c) ==
  /\ pc[c] = "swap"
  /\ stamp' = (IF stamp < MaxStamp THEN stamp + 1 ELSE stamp)
  /\ fresh' = TRUE /\ begun' = begun + 1
  /\ fetching' = fetching \cup {stamp'}
  /\ pc' = [pc EXCEPT ![c] = "idle"] /\ prev' = [prev EXCEPT ![c] = 0]
  /\ UNCHANGED <<domainVars, dc, offer, cfFailed, pinHistory>>

\* CompareAndSwap, and the goroutine that fetches.
Swap(c) ==
  /\ pc[c] = "swap"
  /\ \/ /\ stamp = prev[c]
        /\ stamp' = stamp + 1 /\ fresh' = TRUE /\ begun' = begun + 1
        /\ fetching' = fetching \cup {stamp'}
     \/ stamp # prev[c] /\ UNCHANGED refreshVars
  /\ pc' = [pc EXCEPT ![c] = "idle"] /\ prev' = [prev EXCEPT ![c] = 0]
  /\ UNCHANGED <<domainVars, dc, offer, cfFailed, pinHistory>>

\* Mutant: a list as long as the one before leaves the active domains.
UpdateBySize(list) ==
  IF list = domains THEN UNCHANGED <<domains, perDC, pinHistory>>
  ELSE /\ domains' = list
       /\ IF Cardinality(list) = Cardinality(domains) THEN UNCHANGED perDC
                                                      ELSE perDC' \in [DC -> list]
       /\ older' = {c \in Caller : pc[c] = "dial"} /\ stray' = {}

\* updateDomainsList and seedPerDC: another set of names replaces the pool.
UpdateDomainsList(list) ==
  IF list = domains THEN UNCHANGED <<domains, perDC, pinHistory>>
  ELSE /\ domains' = list /\ perDC' \in [DC -> list]
       /\ older' = {c \in Caller : pc[c] = "dial"} /\ stray' = {}

\* The fetch fails, has too few valid names, or replaces the pool.
FetchEnds(n) ==
  /\ n \in fetching
  /\ fetching' = fetching \ {n}
  /\ \/ UNCHANGED <<domains, perDC, pinHistory>>
     \/ \E list \in SUBSET Domain :
          Cardinality(list) >= MinValid /\ UpdateDomainsList(list)
  /\ UNCHANGED <<cooldown, stamp, fresh, begun, dialVars>>

\* The hourly tick of runCFProxyRefreshLoop.
Tick ==
  /\ 0 \notin fetching /\ fetching' = fetching \cup {0}
  /\ UNCHANGED <<domainVars, stamp, fresh, begun, dialVars, pinHistory>>

\* cfProxyDomainCooldown is over.
Expire(d) ==
  /\ d \in cooldown /\ cooldown' = cooldown \ {d}
  /\ UNCHANGED <<domains, perDC, refreshVars, dialVars, pinHistory>>

\* cfEmergencyRefreshMin is over.
WindowOver ==
  /\ fresh /\ stamp < MaxStamp
  /\ fresh' = FALSE /\ begun' = 0
  /\ UNCHANGED <<domainVars, stamp, fetching, dialVars, pinHistory>>

Dial(c) ==
  \/ Plan(c) \/ OtherWins(c) \/ GiveUp(c) \/ Load(c) \/ Swap(c)
  \/ \E d \in offer[c] : Fails(c, d) \/ Wins(c, d)

CFNext ==
  \/ \E c \in Caller : Dial(c)
  \/ \E n \in 0..MaxStamp : FetchEnds(n)
  \/ \E d \in Domain \cup {Custom} : Expire(d)
  \/ Tick \/ WindowOver

CFSpec == CFInit /\ [][CFNext]_cfVars

-----------------------------------------------------------------------------
(* Properties. *)

\* However many dials fail at once, one of them starts a fetch in each period of
\* cfEmergencyRefreshMin.
NoStampede == begun <= 1

\* A name that the pool has dropped does not come back by itself. A change of the pool
\* gives every data centre a name of the new one, and from then on only a dial that had
\* planned before the change can pin a dropped name, and only for its own data centre:
\* dials that plan later are never offered one, unless such a pin has made it the active
\* domain. So a data centre whose active domain is dropped owes it to such a dial.
StrayOnlyByOldDials ==
  \A d \in DC : perDC[d] \notin domains \cup {Custom} => d \in stray

\* Why, inductively: a dial that planned since the change holds names of the pool only,
\* or its data centre has strayed.
OffersKnown ==
  \A c \in Caller \ older :
    pc[c] = "dial" => offer[c] \subseteq domains \cup {Custom} \/ dc[c] \in stray

\* "Per-DC sticky domain selection over a rotating pool; the active domain is tried
\* first, the remaining pool is shuffled". Claimed: a dial is offered names of the
\* pool only.
OffersOnlyPool ==
  [][\A c \in Caller : pc[c] = "idle" /\ pc'[c] = "dial" => offer'[c] \subseteq domains]_cfVars

\* "unless that would leave nothing [...], in which case cooldown is ignored so we
\* still try. Empty only if the pool itself is empty."
EmptyOnlyIfPoolEmpty ==
  [][\A c \in Caller : pc[c] = "idle" /\ pc'[c] = "dial" => offer'[c] # {}]_cfVars
=============================================================================
