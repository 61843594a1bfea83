---------------------------- MODULE DNSIntercept ----------------------------
(***************************************************************************)
(* The DNS interceptor of the client's UDP entrance (client/proxy/dns.go,  *)
(* dns_exec.go, dns_udp.go) with its answer cache (client/dns/cache.go): a *)
(* query is blocked, answered from the cache, resolved directly or sent    *)
(* through the tunnel, according to rules that change while queries are on *)
(* their way.  Proxied answers come back on an exchange that the queries   *)
(* of one source port to one resolver share, and are post-processed by the *)
(* callback of the query that opened it.                                   *)
(*                                                                         *)
(* Answers for names on the user's lists add to them what they name: here  *)
(* the targets of CNAMEs; the addresses are in Routing.                    *)
(***************************************************************************)
EXTENDS Naturals, FiniteSets

CONSTANTS Queries,
          Names, ServerDomain,    \* domains, the proxy server's among them
          Dsts,                   \* resolvers the client names; it uses one source port
          Aliases,                \* pairs: a name and the target of its CNAME
          Blocked, AtCN,          \* what the lists of geosite say of the names
          CustomDirect, CustomProxy,  \* names the user's rule files hold
          MaxChanges              \* bound: changes of the rules

QTypes == {"A", "AAAA"}
Keys == Names \X QTypes

(* What a resolver says: records of the type asked for, none but an SOA,   *)
(* or what is not kept (neither, a truncated answer, an error code).       *)
Responses == {"records", "negative", "empty"}

VARIABLES rule, ipv6Disabled,     \* the proxy rule and the IPv6 policy now
          changes,
          directList, proxyList,  \* the user's lists, with what was learned
          direct, proxied,        \* the two caches: key -> [says, life]
          query, name, qtype, dst,  \* each query
          exchange,               \* the exchange of each key: who opened it, or none
          sentOn,                 \* the key a proxied query went out on
          got                     \* what the client was told (history)

policy == <<rule, ipv6Disabled, changes>>
lists == <<directList, proxyList>>
caches == <<direct, proxied>>
question == <<name, qtype, dst>>
interceptVars == <<policy, lists, caches, query, question, exchange, sentOn, got>>

NoEntry == [says |-> "nothing", life |-> "none"]
NoQuery == "nobody"
NoAnswer == [records |-> FALSE, via |-> "none", from |-> "none", off |-> FALSE]
Lives == {"none", "short", "long", "ever"}
Entries == [says : Responses \cup {"nothing"}, life : Lives]

ProxyRules == {"auto", "auto_block", "reverse_auto", "direct", "proxy"}

InterceptTypeOK ==
  /\ rule \in ProxyRules /\ ipv6Disabled \in BOOLEAN /\ changes \in 0 .. MaxChanges
  /\ directList \subseteq Names /\ proxyList \subseteq Names
  /\ direct \in [Keys -> Entries] /\ proxied \in [Keys -> Entries]
  /\ query \in [Queries -> {"none", "direct", "proxy", "waiting", "answered", "failed"}]
  /\ name \in [Queries -> Names] /\ qtype \in [Queries -> QTypes] /\ dst \in [Queries -> Dsts]
  /\ exchange \in [Dsts -> Queries \cup {NoQuery}]
  /\ \A q \in Queries : got[q].records \in BOOLEAN /\ got[q].off \in BOOLEAN

InterceptInit ==
  /\ rule \in ProxyRules /\ ipv6Disabled \in BOOLEAN /\ changes = 0
  /\ directList = CustomDirect /\ proxyList = CustomProxy
  /\ direct = [k \in Keys |-> NoEntry] /\ proxied = [k \in Keys |-> NoEntry]
  /\ query = [q \in Queries |-> "none"]
  /\ name = [q \in Queries |-> ServerDomain] /\ qtype = [q \in Queries |-> "A"]
  /\ dst \in [Queries -> Dsts]
  /\ exchange = [d \in Dsts |-> NoQuery] /\ sentOn = [q \in Queries |-> CHOOSE d \in Dsts : TRUE]
  /\ got = [q \in Queries |-> NoAnswer]

-----------------------------------------------------------------------------
(* The proxy rule or the IPv6 policy changes.                              *)
RulesChange ==
  /\ changes < MaxChanges /\ changes' = changes + 1
  /\ \/ rule' \in ProxyRules \ {rule} /\ UNCHANGED ipv6Disabled
     \/ ipv6Disabled' = ~ipv6Disabled /\ UNCHANGED rule
  /\ UNCHANGED <<lists, caches, query, question, exchange, sentOn, got>>

(* cacheTTL: a truncated or failed answer is not kept, an empty one only   *)
(* as long as its SOA says, an answer for the server's domain for ever.    *)
cacheTTL(n, says) ==
  CASE says = "records" -> IF n = ServerDomain THEN "ever" ELSE "long"
    [] says = "negative" -> "short"
    [] OTHER -> "none"

(* Cache.Set, on the function of one of the two caches. *)
Set(cache, k, says) ==
  IF cacheTTL(k[1], says) = "none" THEN cache
  ELSE [cache EXCEPT ![k] = [says |-> says, life |-> cacheTTL(k[1], says)]]

(* An entry's time is over; one without a time limit stays. *)
Expire ==
  /\ \E k \in Keys :
       \/ direct[k].life \in {"short", "long"} /\ direct' = [direct EXCEPT ![k] = NoEntry] /\ UNCHANGED proxied
       \/ proxied[k].life \in {"short", "long"} /\ proxied' = [proxied EXCEPT ![k] = NoEntry] /\ UNCHANGED direct
  /\ UNCHANGED <<policy, lists, query, question, exchange, sentOn, got>>

(* PrePopulate: the records of the server's domain are put in both caches, *)
(* before the entrances open or by the later attempt of the runner.        *)
PrePopulate ==
  /\ \E T \in SUBSET QTypes \ {{}} :
       LET with(cache) == [k \in Keys |-> IF k[1] = ServerDomain /\ k[2] \in T
                                         THEN [says |-> "records", life |-> cacheTTL(ServerDomain, "records")]
                                         ELSE cache[k]] IN
       direct' = with(direct) /\ proxied' = with(proxied)
  /\ UNCHANGED <<policy, lists, query, question, exchange, sentOn, got>>

-----------------------------------------------------------------------------
(* An answer reaches the client, with records or without, framed as coming *)
(* from a resolver; off says whether IPv6 was off then.                    *)
Tell(q, says, via, from) ==
  got' = [got EXCEPT ![q] = [records |-> says = "records", via |-> via, from |-> from,
                             off |-> ipv6Disabled]]

(* MatchHostRule, for names.                                               *)
MatchHostRule(n) ==
  CASE rule \in {"direct", "proxy"} -> rule
    [] rule \notin {"direct", "proxy"} /\ n \in directList -> "direct"
    [] rule \notin {"direct", "proxy"} /\ n \in proxyList \ directList -> "proxy"
    [] OTHER -> IF rule = "auto_block" /\ n \in Blocked THEN "block"
                ELSE IF (n \in AtCN) = (rule # "reverse_auto") THEN "direct" ELSE "proxy"

(* Mutant: the server's own domain is routed like any other. *)
DirectForRules(n) == MatchHostRule(n) = "direct"

(* The server's own domain is never resolved through the tunnel. *)
Direct(n) == n = ServerDomain \/ MatchHostRule(n) = "direct"

(* Mutant: the caches are asked one after the other. *)
CachedAny(n, t) ==
  IF direct[<<n, t>>] # NoEntry THEN <<direct[<<n, t>>], "direct">> ELSE <<proxied[<<n, t>>], "proxy">>

(* Cache.Get in the cache of the query's route. *)
Cached(n, t) ==
  IF Direct(n) THEN <<direct[<<n, t>>], "direct">> ELSE <<proxied[<<n, t>>], "proxy">>

(* plan and, for the answers that need no resolver, executeSync. *)
plan(q) ==
  /\ query[q] = "none"
  /\ \E n \in Names, t \in QTypes :
       /\ name' = [name EXCEPT ![q] = n] /\ qtype' = [qtype EXCEPT ![q] = t] /\ UNCHANGED dst
       /\ \/ /\ MatchHostRule(n) = "block"
             /\ Tell(q, "blocked", "rules", dst[q]) /\ query' = [query EXCEPT ![q] = "answered"]
          \/ /\ MatchHostRule(n) # "block" /\ t = "AAAA" /\ ipv6Disabled
             /\ Tell(q, "empty", "rules", dst[q]) /\ query' = [query EXCEPT ![q] = "answered"]
          \/ /\ MatchHostRule(n) # "block" /\ ~(t = "AAAA" /\ ipv6Disabled)
             /\ Cached(n, t)[1] # NoEntry
             /\ Tell(q, Cached(n, t)[1].says, IF Direct(n) = (Cached(n, t)[2] = "direct") THEN "cache" ELSE "other cache", dst[q])
             /\ query' = [query EXCEPT ![q] = "answered"]
          \/ /\ MatchHostRule(n) # "block" /\ ~(t = "AAAA" /\ ipv6Disabled)
             /\ Cached(n, t)[1] = NoEntry
             /\ query' = [query EXCEPT ![q] = IF Direct(n) THEN "direct" ELSE "proxy"]
             /\ UNCHANGED got
  /\ UNCHANGED <<policy, lists, caches, exchange, sentOn>>

(* Mutant: the records of an AAAA answer are kept whatever the policy. *)
StrippedNot(t, says) == says

(* While IPv6 is off an AAAA answer loses its records before it is kept or *)
(* passed on.                                                              *)
Stripped(t, says) ==
  IF ipv6Disabled /\ t = "AAAA" /\ says = "records" THEN "empty" ELSE says

(* The targets of the CNAMEs a response may hold; stripped, it has none.   *)
Targets(n, t) ==
  {{}} \cup {{p[2]} : p \in {p \in Aliases : p[1] = n /\ ~(ipv6Disabled /\ t = "AAAA")}}

(* Mutant: the names of an answer are learned because it was asked for. *)
learnDNSAnswersAny(n, targets, isDirect) ==
  /\ directList' = IF isDirect THEN directList \cup targets ELSE directList
  /\ proxyList' = IF isDirect THEN proxyList ELSE proxyList \cup targets

(* learnDNSAnswers: of an answer for a name on the list of its route, also *)
(* one that was learned, and also one without records.                     *)
learnDNSAnswers(n, targets, isDirect) ==
  /\ directList' = IF isDirect /\ n \in directList THEN directList \cup targets ELSE directList
  /\ proxyList' = IF ~isDirect /\ n \in proxyList THEN proxyList \cup targets ELSE proxyList

(* resolveDirectDNS: the answer is stripped, kept, learned and passed on;  *)
(* without one the client gets nothing.                                    *)
resolveDirectDNS(q) ==
  /\ query[q] = "direct"
  /\ \/ \E r \in Responses :
          LET says == Stripped(qtype[q], r) IN
          \E targets \in Targets(name[q], qtype[q]) :
          /\ direct' = Set(direct, <<name[q], qtype[q]>>, says)
          /\ learnDNSAnswers(name[q], targets, TRUE)
          /\ Tell(q, says, "direct", dst[q])
          /\ query' = [query EXCEPT ![q] = "answered"]
     \/ query' = [query EXCEPT ![q] = "failed"] /\ UNCHANGED <<direct, lists, got>>
  /\ UNCHANGED <<policy, proxied, question, exchange, sentOn>>

(* Mutant: the queries of a source port share one exchange. *)
dnsExchangeKeySource(q) == CHOOSE d \in Dsts : TRUE

(* dnsExchangeKey: source port and resolver. *)
dnsExchangeKey(q) == dst[q]

(* The exchange of a key is closed: what waited for it gets no answer. *)
Unanswered(d) ==
  [q \in Queries |-> IF query[q] = "waiting" /\ sentOn[q] = d THEN "failed" ELSE query[q]]

(* proxyUDPQuery: the exchange is opened, or reused with one more send. *)
proxyUDPQuery(q) ==
  /\ query[q] = "proxy"
  /\ LET k == dnsExchangeKey(q) IN
     \/ /\ exchange' = [exchange EXCEPT ![k] = IF @ = NoQuery THEN q ELSE @]
        /\ sentOn' = [sentOn EXCEPT ![q] = k]
        /\ query' = [query EXCEPT ![q] = "waiting"]
     \/ /\ exchange' = [exchange EXCEPT ![k] = NoQuery]      \* no stream, or Send fails
        /\ query' = [Unanswered(k) EXCEPT ![q] = "failed"]
        /\ UNCHANGED sentOn
  /\ UNCHANGED <<policy, lists, caches, question, got>>

(* onData: finishProxied on the answer's own question, then the reply goes *)
(* out through the query that opened the exchange.                         *)
postProcessProxied(q) ==
  /\ query[q] = "waiting" /\ exchange[sentOn[q]] # NoQuery
  /\ \E r \in Responses :
       LET says == Stripped(qtype[q], r) IN
       \E targets \in Targets(name[q], qtype[q]) :
       /\ proxied' = Set(proxied, <<name[q], qtype[q]>>, says)
       /\ learnDNSAnswers(name[q], targets, FALSE)
       /\ Tell(q, says, "proxy", dst[exchange[sentOn[q]]])
       /\ query' = [query EXCEPT ![q] = "answered"]
  /\ UNCHANGED <<policy, direct, question, exchange, sentOn>>

(* The exchange ends: idle, no response in time, an error. *)
ExchangeEnds(d) ==
  /\ exchange[d] # NoQuery
  /\ exchange' = [exchange EXCEPT ![d] = NoQuery]
  /\ query' = Unanswered(d)
  /\ UNCHANGED <<policy, lists, caches, question, sentOn, got>>

InterceptNext ==
  \/ RulesChange \/ Expire \/ PrePopulate
  \/ \E q \in Queries : plan(q) \/ resolveDirectDNS(q) \/ proxyUDPQuery(q) \/ postProcessProxied(q)
  \/ \E d \in Dsts : ExchangeEnds(d)

InterceptSpec == InterceptInit /\ [][InterceptNext]_interceptVars

-----------------------------------------------------------------------------
(* What a query is told comes by the route the rules gave it: the caches   *)
(* of the two routes never mix, the server's own domain is never asked for *)
(* or kept by way of the tunnel, and its addresses, once kept, have no     *)
(* time limit (the comment of NewCache).                                   *)
RoutesKeptApart ==
  /\ \A q \in Queries :
       /\ got[q].via # "other cache"
       /\ name[q] = ServerDomain => query[q] \notin {"proxy", "waiting"} /\ got[q].via # "proxy"
  /\ \A t \in QTypes :
       /\ proxied[<<ServerDomain, t>>].says \in {"nothing", "records"}
       /\ direct[<<ServerDomain, t>>].says = "records" => direct[<<ServerDomain, t>>].life = "ever"

(* An answer is framed as coming from the resolver its query was sent to:  *)
(* a transparent client drops any other, also when several queries share   *)
(* an exchange.                                                            *)
FramedForQuery == \A q \in Queries : query[q] = "answered" => got[q].from = dst[q]

(* However answers and changes of the rules interleave, a list grows only  *)
(* by names that its user's entries lead to through CNAMEs: an answer that *)
(* came by one route never adds to the list of the other.                  *)
LedTo(S) ==
  LET step(T) == T \cup {p[2] : p \in {p \in Aliases : p[1] \in T}}
      reach[i \in 0 .. Cardinality(Aliases)] == IF i = 0 THEN S ELSE step(reach[i - 1])
  IN reach[Cardinality(Aliases)]
LearnedFromLists == directList \subseteq LedTo(CustomDirect) /\ proxyList \subseteq LedTo(CustomProxy)

(* An answer that arrives while IPv6 is off carries no AAAA record, also   *)
(* when its query was planned before.                                      *)
NoAAAAWhileOff ==
  \A q \in Queries : got[q].off /\ qtype[q] = "AAAA" => ~got[q].records

(* What the interceptor promises its clients and the router. *)
InterceptSound == RoutesKeptApart /\ FramedForQuery /\ LearnedFromLists /\ NoAAAAWhileOff
=============================================================================
