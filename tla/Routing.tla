------------------------------ MODULE Routing -------------------------------
(***************************************************************************)
(* How a destination is routed: blocked, dialed directly or through the    *)
(* tunnel (client/router/router.go), and the cache of these decisions that *)
(* the UDP path keeps because it decides for every datagram                *)
(* (client/proxy/udp_route_cache.go).  The rules change while the client   *)
(* runs: the user chooses another mode, DNS answers teach new entries, the *)
(* server's IPv6 address is found.  Every change is followed by a new      *)
(* generation number, which is how the cache learns that it is out of date.*)
(***************************************************************************)
EXTENDS Naturals, FiniteSets

CONSTANTS Hosts,        \* destinations, names and addresses
          IsIP, IsIPV6, LAN,          \* what they are
          NonRelayable, \* broadcast, multicast and link-local addresses
          CNAddrs, DotCN,             \* addresses of the country, names under .cn
          GeoDirect, GeoDirectWide, GeoBlock, \* those on the built-in lists
          ipv6Rule,     \* cfg.IPV6Rule
          Learnable,    \* those a DNS answer may add to a custom list
          Callers,      \* goroutines that classify a datagram
          MaxChanges,   \* bound: changes of the rules
          maxUDPRouteCacheEntries

Modes == {"auto", "reverse_auto", "proxy", "direct", "auto_block"}

VARIABLES proxyRule, ipv6Info, customDirect, customProxy, \* Router
          ruleGeneration,
          stored,       \* how many changes were stored (history)
          change,       \* those whose setter has not counted them yet
          counted,      \* the last one that was counted (history)
          generation, entries,   \* udpRouteCache
          caller,       \* each call of classify
          host, gen,    \* its destination, the generation it has read
          since,        \* the changes that were over when it began
          result        \* what it returns, with the changes it takes into account

rules == <<proxyRule, ipv6Info, customDirect, customProxy>>
counters == <<ruleGeneration, change, stored, counted>>
cache == <<generation, entries>>
calls == <<caller, host, gen, since, result>>
routingVars == <<rules, counters, cache, calls>>

Rules == {"proxy", "direct", "block", "ipv6 rejected"}
Results == [rule : Rules, as : 0 .. MaxChanges]
NoResult == [rule |-> "none", as |-> 0]

RoutingTypeOK ==
  /\ proxyRule \in Modes /\ ipv6Info \in BOOLEAN
  /\ customDirect \subseteq Hosts /\ customProxy \subseteq Hosts
  /\ ruleGeneration \in Nat /\ change \subseteq 1 .. MaxChanges
  /\ stored \in 0 .. MaxChanges /\ counted \in 0 .. stored
  /\ generation \in Nat
  /\ DOMAIN entries \subseteq Hosts /\ Cardinality(DOMAIN entries) <= maxUDPRouteCacheEntries
  /\ \A h \in DOMAIN entries : entries[h] \in Results
  /\ caller \in [Callers -> {"idle", "lookup", "classify", "store", "returned"}]
  /\ host \in [Callers -> Hosts] /\ gen \in [Callers -> Nat]
  /\ since \in [Callers -> 0 .. MaxChanges]
  /\ result \in [Callers -> Results \cup {NoResult}]

RoutingInit ==
  /\ proxyRule \in Modes /\ ipv6Info \in BOOLEAN
  /\ customDirect = {} /\ customProxy = {}
  /\ ruleGeneration = 1 /\ change = {} /\ stored = 0 /\ counted = 0
  /\ generation = 0 /\ entries = <<>>
  /\ caller = [c \in Callers |-> "idle"]
  /\ host = [c \in Callers |-> CHOOSE h \in Hosts : TRUE]
  /\ gen = [c \in Callers |-> 0] /\ since = [c \in Callers |-> 0]
  /\ result = [c \in Callers |-> NoResult]

-----------------------------------------------------------------------------
(* IPv6 is off unless enabled, or automatic with a network and a server    *)
(* that have it.                                                           *)
ShouldIPV6Disable == ~(ipv6Rule = "enable" \/ (ipv6Rule = "auto" /\ ipv6Info))

(* An address of the country, a name under .cn or on the list of the       *)
(* country's sites.                                                        *)
hostAtCN(h) == IF h \in IsIP THEN h \in CNAddrs ELSE h \in DotCN \cup GeoDirectWide

(* MatchHostRule: the mode "direct" and the local network come first, then *)
(* the mode "proxy", the user's lists (direct before proxy), the built-in  *)
(* lists of auto_block, and the country.                                   *)
MatchHostRule(h) ==
  IF proxyRule = "direct" \/ h \in LAN THEN "direct"
  ELSE IF proxyRule = "proxy" THEN "proxy"
  ELSE IF h \in customDirect THEN "direct"
  ELSE IF h \in customProxy THEN "proxy"
  ELSE IF proxyRule = "auto_block" /\ h \notin IsIP /\ h \in GeoDirect THEN "direct"
  ELSE IF proxyRule = "auto_block" /\ h \notin IsIP /\ h \in GeoBlock THEN "block"
  ELSE IF (proxyRule = "reverse_auto") # hostAtCN(h) THEN "direct"
  ELSE "proxy"

(* Mutant: a literal IPv6 address is looked up in the lists first. *)
ClassifyHostUngated(h) == MatchHostRule(h)

(* ClassifyHost: the IPv6 policy comes before every rule. *)
ClassifyHost(h) ==
  IF ShouldIPV6Disable /\ h \in IsIPV6 THEN "ipv6 rejected" ELSE MatchHostRule(h)

-----------------------------------------------------------------------------
(* The store of a setter; the generation is counted in a second step, and  *)
(* setters may overlap.                                                    *)
Publish ==
  /\ stored < MaxChanges
  /\ stored' = stored + 1
  /\ change' = change \cup {stored'}
  /\ UNCHANGED <<ruleGeneration, counted>>

SetProxyRule ==
  /\ Publish
  /\ proxyRule' \in Modes \ {proxyRule}
  /\ UNCHANGED <<ipv6Info, customDirect, customProxy, cache, calls>>

SetIPV6Info ==
  /\ Publish
  /\ ipv6Info' = ~ipv6Info
  /\ UNCHANGED <<proxyRule, customDirect, customProxy, cache, calls>>

(* AddDirectIP, AddDirectDomain, AddProxyIP, AddProxyDomain: an entry that *)
(* is there already changes nothing and is not counted.                    *)
AddDirect ==
  /\ \E h \in Learnable \ customDirect : customDirect' = customDirect \cup {h}
  /\ Publish
  /\ UNCHANGED <<proxyRule, ipv6Info, customProxy, cache, calls>>

AddProxy ==
  /\ \E h \in Learnable \ customProxy : customProxy' = customProxy \cup {h}
  /\ Publish
  /\ UNCHANGED <<proxyRule, ipv6Info, customDirect, cache, calls>>

(* Mutant: a setter forgets to count its change. *)
CountChangeForgotten ==
  \E k \in change :
    /\ change' = change \ {k}
    /\ counted' = IF k > counted THEN k ELSE counted
    /\ UNCHANGED <<ruleGeneration, stored, rules, cache, calls>>

(* ruleGeneration.Add(1), the end of each setter. *)
CountChange ==
  \E k \in change :
    /\ change' = change \ {k}
    /\ ruleGeneration' = ruleGeneration + 1
    /\ counted' = IF k > counted THEN k ELSE counted
    /\ UNCHANGED <<stored, rules, cache, calls>>

-----------------------------------------------------------------------------
(* The datagrams handleUDP classifies: the others (QUIC when it is off, a  *)
(* literal IPv6 address against the policy, a target only this host could  *)
(* reach) are dropped, and DNS queries go to the interceptor.              *)
Relayable == Hosts \ (NonRelayable \cup (IF ShouldIPV6Disable THEN IsIPV6 ELSE {}))

(* classify reads the generation first, *)
Begin(c) ==
  /\ caller[c] \in {"idle", "returned"}
  /\ \E h \in Relayable : host' = [host EXCEPT ![c] = h]
  /\ gen' = [gen EXCEPT ![c] = ruleGeneration]
  /\ since' = [since EXCEPT ![c] = counted]
  /\ result' = [result EXCEPT ![c] = NoResult]
  /\ caller' = [caller EXCEPT ![c] = "lookup"]
  /\ UNCHANGED <<rules, counters, cache>>

Clear == [h \in {} |-> NoResult]

(* then, under the lock, empties the cache if that is another generation,  *)
(* and looks the destination up.                                           *)
Lookup(c) ==
  /\ caller[c] = "lookup"
  /\ generation' = gen[c]
  /\ entries' = IF generation = gen[c] THEN entries ELSE Clear
  /\ IF host[c] \in DOMAIN entries'
       THEN /\ result' = [result EXCEPT ![c] = entries'[host[c]]]
            /\ caller' = [caller EXCEPT ![c] = "returned"]
       ELSE /\ caller' = [caller EXCEPT ![c] = "classify"]
            /\ UNCHANGED result
  /\ UNCHANGED <<rules, counters, host, gen, since>>

(* The decision itself is made outside the lock. *)
Classify(c) ==
  /\ caller[c] = "classify"
  /\ result' = [result EXCEPT ![c] = [rule |-> ClassifyHost(host[c]), as |-> stored]]
  /\ caller' = [caller EXCEPT ![c] = "store"]
  /\ UNCHANGED <<rules, counters, cache, host, gen, since>>

(* Mutant: the limit is forgotten.                                         *)
RoomAlways == entries

Room == IF Cardinality(DOMAIN entries) >= maxUDPRouteCacheEntries THEN Clear ELSE entries

(* Mutant: the decision is kept whatever has changed meanwhile. *)
StoreAny(c) ==
  /\ caller[c] = "store"
  /\ entries' = [h \in DOMAIN Room \cup {host[c]} |->
                   IF h = host[c] THEN result[c] ELSE Room[h]]
  /\ caller' = [caller EXCEPT ![c] = "returned"]
  /\ UNCHANGED <<generation, rules, counters, host, gen, since, result>>

(* It is kept only in the generation it was begun in; a full cache is      *)
(* emptied.                                                                *)
Store(c) ==
  /\ caller[c] = "store"
  /\ entries' = IF generation # gen[c] THEN entries
                ELSE [h \in DOMAIN Room \cup {host[c]} |->
                        IF h = host[c] THEN result[c] ELSE Room[h]]
  /\ caller' = [caller EXCEPT ![c] = "returned"]
  /\ UNCHANGED <<generation, rules, counters, host, gen, since, result>>

classify(c) == Begin(c) \/ Lookup(c) \/ Classify(c) \/ Store(c)

RoutingNext ==
  \/ SetProxyRule \/ SetIPV6Info \/ AddDirect \/ AddProxy \/ CountChange
  \/ \E c \in Callers : classify(c)

RoutingSpec == RoutingInit /\ [][RoutingNext]_routingVars

-----------------------------------------------------------------------------
(* A decision takes into account every change of the rules that was over   *)
(* when it was asked for: the cache never answers with an older one.       *)
RouteFresh ==
  \A c \in Callers : caller[c] = "returned" => result[c].as >= since[c]

(* Through the cache or not, an IPv6 address is let through only while the *)
(* policy allows it: a decision without pending changes is the one the     *)
(* rules give now.                                                         *)
PolicyGate ==
  \A c \in Callers :
    caller[c] = "returned" /\ result[c].as = stored /\ ShouldIPV6Disable /\ host[c] \in IsIPV6
      => result[c].rule = "ipv6 rejected"

(* What the paths that route traffic rely on. *)
RoutingSound == RouteFresh /\ PolicyGate
=============================================================================
