---------------------------- MODULE TransportPlan ----------------------------
(***************************************************************************)
(* The transport plans of a dial (planTransports of                        *)
(* internal/mtproto/obfuscated2.go) and how dialPlans of dialrace.go       *)
(* selects and groups them: pure operators over a request, which stands    *)
(* for the configuration and the data centre of one dial, and over the     *)
(* cool-downs that are active.                                             *)
(*                                                                         *)
(* A request has the fields                                                *)
(*   mode       "tcp", "ws" or "auto" (UpstreamMode; empty is "tcp")       *)
(*   relay      the port of dc_relay, 0 without one                        *)
(*   v6         ipv6_enabled                                               *)
(*   workers    what workerDomains makes of cfworker_domain                *)
(*   edge       bridge_skip_native_edge is not set                         *)
(*   custom     whether ws_custom_domain is set                            *)
(*   cfproxy    cfproxy_enabled                                            *)
(*   dc         the signed data centre: media for a negative one           *)
(* A plan's key is what cooldownKey names, the address that is dialed, and *)
(* its sni a domain or a name kws<dc> or kws<dc>-1 below one.              *)
(***************************************************************************)
EXTENDS Integers, Sequences, SequencesExt

CONSTANTS
  Base,         \* domains of the CF pool
  NoBase,       \* cfBase of a plan that is not in the pool
  RaceWidth     \* transportRaceWidth

ASSUME NoBaseIsNew == NoBase \notin Base
ASSUME RaceWidthPositive == RaceWidth \in Nat \ {0}

\* dcAddressesV4, dcAddressesV6 and wsEdgeServedDCs.
V4 == 1..5 \cup {203}
V6 == 1..5
EdgeServed == {2, 4}

Abs(dc) == IF dc < 0 THEN -dc ELSE dc

\* A relay has one port for each data centre; otherwise both families are tried.
ResolveDCAll(r) ==
  LET d == Abs(r.dc)
      known(family, name) == IF d \in family THEN <<<<name, d>>>> ELSE <<>>
      v4 == known(V4, "v4")
      v6 == known(V6, "v6")
  IN CASE r.relay # 0 -> <<<<"relay", r.relay + (IF d = 203 THEN 2 ELSE d) - 1>>>>
       [] r.v6 -> v6 \o v4
       [] OTHER -> v4 \o v6

Plan(kind, key, sni, worker, cf) ==
  [kind |-> kind, key |-> key, sni |-> sni, worker |-> worker, cf |-> cf]

TCPPlan(a) == Plan("tcp", a, a, FALSE, NoBase)
WorkerPlan(w) == Plan("ws", <<w, 443>>, w, TRUE, NoBase)

\* Both names of the native edge are dialed at one address: one cooldownKey.
EdgeKey == <<"edge", 443>>
NativePlan(dc) == Plan("ws", EdgeKey, <<"edge", dc>>, FALSE, NoBase)

CFPlan(base, dc) == Plan("ws", <<base, dc>>, <<base, dc>>, FALSE, base)

\* The custom domain: recorded as a base of the pool without being in it, and
\* under one name for both signs of the data centre.
CustomPlan(dc) == CFPlan("custom", Abs(dc))

RelayFirst(r) == r.mode = "auto" /\ r.relay # 0

\* The members of seq at the positions in S, in their order.
AtPositions(seq, S) ==
  [n \in 1..Cardinality(S) |->
     seq[CHOOSE i \in S : Cardinality({j \in S : j <= i}) = n]]

\* Those that are not in cool-down.
Ready(plans, cool, wcool) ==
  AtPositions(plans, {i \in 1..Len(plans) :
                        /\ plans[i].key \notin cool
                        /\ plans[i].worker => plans[i].sni \notin wcool})

TCPPlans(r, cool) ==
  LET addresses == ResolveDCAll(r)
  IN Ready([i \in 1..Len(addresses) |-> TCPPlan(addresses[i])], cool, {})

\* A Worker is told the address of the data centre: none without one.
WorkerPlans(r, wcool) ==
  IF Abs(r.dc) \in V4
    THEN Ready([i \in 1..Len(r.workers) |-> WorkerPlan(r.workers[i])], {}, wcool)
    ELSE <<>>

\* The name of the own sign first.
NativePlans(r, cool) ==
  IF r.edge /\ Abs(r.dc) \in EdgeServed /\ EdgeKey \notin cool
    THEN <<NativePlan(r.dc), NativePlan(-r.dc)>> ELSE <<>>

\* cf: what domainsForDC returns.
PoolPlans(r, cf) ==
  IF r.cfproxy THEN [i \in 1..Len(cf) |-> CFPlan(cf[i], r.dc)] ELSE <<>>

\* wsPlansForDC: what a refill of the pool of connections dials. It dials the edge
\* also with bridge_skip_native_edge, whose dials do not care.
WSPlansForDC(r, cool) ==
  NativePlans(r, cool) \o IF r.custom THEN <<CustomPlan(r.dc)>> ELSE <<>>

PlanTransports(r, cool, wcool, blacklisted, cf) ==
  LET tcp == TCPPlans(r, cool)
      ws == IF r.mode = "tcp" \/ blacklisted THEN <<>>
            ELSE WorkerPlans(r, wcool) \o NativePlans(r, cool)
                   \o (IF r.custom THEN <<CustomPlan(r.dc)>> ELSE <<>>) \o PoolPlans(r, cf)
      plans == CASE r.mode = "tcp" -> tcp
                 [] RelayFirst(r) -> tcp \o ws
                 [] r.mode = "auto" /\ r.relay = 0 -> ws \o tcp
                 [] OTHER -> ws
  IN IF plans = <<>> /\ r.mode # "ws" THEN tcp ELSE plans

FilterReadyPlans(plans, cool, wcool) == Ready(plans, cool, wcool)

\* Mutant: Workers get no batch of their own.
NoLeadingWorkers(plans) == 0

\* How many of the first plans are Workers.
LeadingWorkerCount(plans) ==
  LET others == {i \in 1..Len(plans) : ~plans[i].worker}
  IN IF others = {} THEN Len(plans) ELSE Min(others) - 1

\* The batch that starts at position pos: the leading Workers, then RaceWidth
\* plans at a time.
BatchFrom(plans, pos) ==
  LET n == LeadingWorkerCount(plans)
  IN IF pos = 1 /\ n > 0 THEN 1..n
     ELSE pos..Min({pos + RaceWidth - 1, Len(plans)})
=============================================================================
