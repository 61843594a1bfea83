------------------------------ MODULE MCClient ------------------------------
(***************************************************************************)
(* The client's entrances and its name resolution, for TLC: SOCKS5         *)
(* CONNECT, the HTTP proxy, the rules and the cache of their verdicts, the *)
(* DNS queries taken from the TUN device, the resolution of the server's   *)
(* name, the choice of upstream resolvers and the race among them.  They   *)
(* meet only in what one returns to another, which is open in each, so one *)
(* of them moves and the others stay as they began.                        *)
(***************************************************************************)
EXTENDS Naturals, FiniteSets, Sequences

CONSTANTS
  Hosts, IsIP, IsIPV6, LAN, NonRelayable, CNAddrs, DotCN, GeoDirect, GeoDirectWide, GeoBlock,
  ipv6Rule, Learnable, Callers, MaxRuleChanges, maxUDPRouteCacheEntries,
  MaxQueries, MaxDup,
  Requests, Addrs, localIPsCacheTTL, MaxAddrs,
  Queries, ServerDomain, listed, learned, Dsts, CustomDirect, CustomProxy, MaxChanges,
  b1, b2, b3, s1, s2, V4, Loopback, PreResolveTimeout, ResolveItemTimeout, MaxRuns,
  Lookups, Networks, Visible, builtinDNSCoolDown, systemDNSCacheTTL,
  systemDNSRediscoverInterval, MaxTime,
  Resolvers

VARIABLES
  part,  \* which of them moves
  proxyRule, ipv6Info, customDirect, customProxy, ruleGeneration, stored, change, counted,
  generation, entries, caller, host, gen, since, result,
  pc, port53, replied, replies, sent, ends, isQuery, taken, pending, asking, ue, exchanges,
  open, asked, inbox, duplicated, answers,
  local, grown, addrChanges, cachedIPs, age, enumerated, req, looped, idle, closeIdle, close, timedOut, late,
  rule, ipv6Disabled, changes, directList, proxyList, direct, proxied,
  query, name, qtype, dst, exchange, sentOn, got,
  step, runs, left, visible, fresh, spent, tried, next, armed, reachableBuiltinDNS, reachableSystemDNS,
  answered,
  now, net, builtinWorks, builtinDNSDown, builtinDNSDownAt, cached, at, invalidatedAt,
  failedFirst, failedLast, lookup, servers, current, consulted,
  tunActive, collector, mode, branch, ch, heard, negative, answer, expired, said, inTime

gvars == <<proxyRule, ipv6Info, customDirect, customProxy, ruleGeneration, stored, change,
           counted, generation, entries, caller, host, gen, since, result>>
cvars == <<pc, port53, replied, replies, sent, ends, isQuery, taken, pending, asking, ue,
           exchanges, open, asked, inbox, duplicated, answers>>
wvars == <<local, grown, addrChanges, cachedIPs, age, enumerated, req, looped, idle, closeIdle, close,
           timedOut, late>>
ivars == <<rule, ipv6Disabled, changes, directList, proxyList, direct, proxied, query, name,
           qtype, dst, exchange, sentOn, got>>
pvars == <<step, runs, left, visible, fresh, spent, tried, next, armed, reachableBuiltinDNS,
           reachableSystemDNS, answered>>
uvars == <<now, net, builtinWorks, builtinDNSDown, builtinDNSDownAt, cached, at, invalidatedAt,
           failedFirst, failedLast, lookup, servers, current, consulted>>
rvars == <<tunActive, collector, mode, branch, ch, heard, negative, answer, expired, said,
           inTime>>
mcVars == <<gvars, cvars, wvars, ivars, pvars, uvars, rvars, part>>

G == INSTANCE Routing WITH MaxChanges <- MaxRuleChanges
C == INSTANCE SocksConnect WITH query <- asking
W == INSTANCE HTTPProxy WITH MaxChanges <- MaxAddrs, changes <- addrChanges, cached <- cachedIPs
I == INSTANCE DNSIntercept
     WITH Names <- {ServerDomain, listed, learned}, Blocked <- {learned}, AtCN <- {},
          Aliases <- {<<listed, learned>>, <<learned, ServerDomain>>}
P == INSTANCE PreResolve WITH Builtins <- <<b1, b2, b3>>, Systems <- <<s1, s2>>, pc <- step
U == INSTANCE DNSUpstream WITH Queries <- Lookups, query <- lookup, asked <- consulted, taken <- heard

(* Where a part that does not move could begin in several ways, one is     *)
(* enough.                                                                 *)
MCInit ==
  /\ part \in {"rules", "connect", "http", "intercept", "server_name", "upstream", "race"}
  /\ G!RoutingInit /\ (part # "rules" => proxyRule = "auto" /\ ~ipv6Info)
  /\ C!ConnectInit /\ (part # "connect" => ~port53 /\ sent = 0 /\ ends = "eof" /\ ~isQuery)
  /\ W!HTTPInit /\ (part # "http" => local = {})
  /\ I!InterceptInit
  /\ rule \in {"auto_block", "proxy"} /\ (ipv6Disabled => rule = "auto_block")  \* others by a change
  /\ (part # "intercept" => rule = "proxy" /\ dst = sentOn)
  /\ LET q == CHOOSE q \in Queries : TRUE IN dst[q] = sentOn[q]  \* up to the names of the resolvers
  /\ P!PreInit
  /\ U!UpstreamInit /\ (part # "upstream" => net = (CHOOSE n \in Networks : TRUE) /\ builtinWorks)
  /\ U!RaceInit /\ (part # "race" => ~tunActive /\ mode = "forward")

MCNext ==
  /\ \/ part = "rules" /\ G!RoutingNext
     \/ part = "connect" /\ C!ConnectNext
     \/ part = "http" /\ W!HTTPNext
     \/ part = "intercept" /\ I!InterceptNext
     \/ part = "server_name" /\ P!PreNext
     \/ part = "upstream" /\ U!UpstreamNext
     \/ part = "race" /\ U!RaceNext
  /\ part # "rules" => UNCHANGED gvars
  /\ part # "connect" => UNCHANGED cvars
  /\ part # "http" => UNCHANGED wvars
  /\ part # "intercept" => UNCHANGED ivars
  /\ part # "server_name" => UNCHANGED pvars
  /\ part # "upstream" => UNCHANGED uvars
  /\ part # "race" => UNCHANGED rvars
  /\ UNCHANGED part
MCSpec == MCInit /\ [][MCNext]_mcVars

(* The fairness of the race (module DNSUpstream).                          *)
RaceRuns ==
  /\ WF_rvars(part = "race" /\ U!Collect) /\ WF_rvars(part = "race" /\ U!Expire)
  /\ \A r \in Resolvers : WF_rvars(part = "race" /\ (U!exchangeOne(r) \/ U!Report(r)))
FairSpec == MCSpec /\ RaceRuns

-----------------------------------------------------------------------------
(* The type invariants of the seven.                                       *)
TypesOK ==
  /\ G!RoutingTypeOK /\ C!ConnectTypeOK /\ W!HTTPTypeOK /\ I!InterceptTypeOK
  /\ P!PreTypeOK /\ U!UpstreamTypeOK /\ U!RaceTypeOK

(* SocksConnect, HTTPProxy, Routing: a connection gets one SOCKS reply and *)
(* its own answers, no request is sent back to the proxy, Close leaves no  *)
(* idle connection, and a verdict that is given out was right at some time *)
(* since it was asked for, whatever the cache held.                        *)
EntrancesSound == C!ConnectSound /\ W!EntranceSound /\ G!RoutingSound

(* DNSIntercept, PreResolve, DNSUpstream: a query gets the answer to its   *)
(* own question under the rules in force, the server's name never depends  *)
(* on the tunnel, each resolver has its time, a failed network is left     *)
(* behind, and a negative answer does not push out a positive one.         *)
NamesSound == I!InterceptSound /\ P!PreResolveSound /\ U!UpstreamSound /\ U!PositiveWins

(* DNSUpstream: no branch of a race outlives the time limit.               *)
EverythingEnds == []<>U!NoBranchLeft
=============================================================================
