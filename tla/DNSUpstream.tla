---------------------------- MODULE DNSUpstream -----------------------------
(***************************************************************************)
(* Which resolvers a direct DNS query asks (client/dns/builtin.go and      *)
(* system.go).  The built-in public resolvers come first; when all of them *)
(* fail and the system has resolvers of its own, a breaker keeps them out  *)
(* for a while.  The list of system resolvers is discovered when needed    *)
(* and cached; a query that fails on the whole list drops it, at most once *)
(* per systemDNSRediscoverInterval, because the machine may have changed   *)
(* networks.  Queries run concurrently and share the breaker and the list. *)
(***************************************************************************)
EXTENDS Integers, Sequences, FiniteSets

CONSTANTS Queries,                     \* concurrent queries
          Networks,                    \* the networks the machine may be in
          Visible,                     \* those whose resolvers can be discovered
          builtinDNSCoolDown,          \* how long the breaker lasts
          systemDNSCacheTTL,           \* how long a discovered list is used
          systemDNSRediscoverInterval, \* the least time between two drops
          MaxTime                      \* bound: the clock

Never == -100

(* A list of system resolvers: empty, or those of a network. *)
NoServers == "no servers"
Lists == Networks \cup {NoServers}

VARIABLES now,            \* the clock
          net,            \* the network the machine is in
          builtinWorks,   \* the built-in resolvers answer there
          builtinDNSDown, builtinDNSDownAt,   \* the breaker
          cached, at, invalidatedAt,          \* systemDNS
          failedFirst, failedLast, \* when queries failed on the cached list
          query,          \* where each query stands
          servers,        \* the list it has loaded
          current,        \* the queries whose list is the one that is cached
          asked           \* the queries that have tried a resolver

breaker == <<builtinDNSDown, builtinDNSDownAt>>
list == <<cached, at, invalidatedAt, failedFirst, failedLast>>
world == <<now, net, builtinWorks>>
queries == <<query, servers, current, asked>>
upstreamVars == <<world, breaker, list, queries>>

Unloaded == "unloaded"

UpstreamTypeOK ==
  /\ now \in 0 .. MaxTime /\ net \in Networks /\ builtinWorks \in BOOLEAN
  /\ builtinDNSDown \in BOOLEAN
  /\ builtinDNSDownAt \in {Never} \cup 0 .. MaxTime
  /\ cached \in Lists
  /\ at \in {Never} \cup 0 .. MaxTime
  /\ invalidatedAt \in {Never} \cup 0 .. MaxTime
  /\ {failedFirst, failedLast} \subseteq {Never} \cup 0 .. MaxTime
  /\ query \in [Queries -> {"idle", "route", "builtin", "arm", "system",
                            "answered", "failed"}]
  /\ servers \in [Queries -> Lists \cup {Unloaded}]
  /\ current \subseteq Queries
  /\ asked \subseteq Queries

UpstreamInit ==
  /\ now = 0 /\ net \in Networks /\ builtinWorks \in BOOLEAN
  /\ builtinDNSDown = FALSE /\ builtinDNSDownAt = Never
  /\ cached = NoServers /\ at = Never /\ invalidatedAt = Never
  /\ failedFirst = Never /\ failedLast = Never
  /\ query = [q \in Queries |-> "idle"]
  /\ servers = [q \in Queries |-> Unloaded]
  /\ current = {}
  /\ asked = {}

-----------------------------------------------------------------------------
Tick ==
  /\ now < MaxTime
  /\ now' = now + 1
  /\ UNCHANGED <<net, builtinWorks, breaker, list, queries>>

(* The machine joins another network, where the built-in resolvers may or  *)
(* may not be reachable.                                                   *)
Move ==
  /\ net' \in Networks
  /\ builtinWorks' \in BOOLEAN
  /\ UNCHANGED <<now, breaker, list, queries>>

discover == IF net \in Visible THEN net ELSE NoServers

(* systemDNS.Servers for the query q: the cached list, also an empty one,  *)
(* while it is young, else a new one.                                      *)
Fresh == now - at < systemDNSCacheTTL

ListNow == IF Fresh THEN cached ELSE discover

Servers(q) ==
  /\ servers' = [servers EXCEPT ![q] = ListNow]
  /\ current' = (IF Fresh THEN current ELSE {}) \cup {q}
  /\ IF Fresh THEN UNCHANGED list
     ELSE /\ cached' = discover
          /\ at' = now
          /\ failedFirst' = Never /\ failedLast' = Never
          /\ UNCHANGED invalidatedAt

BuiltinDNSAvailable == ~builtinDNSDown \/ now - builtinDNSDownAt >= builtinDNSCoolDown

(* QueryWithBuiltinFirst begins. *)
QueryBegins(q) ==
  /\ query[q] \in {"idle", "answered", "failed"}
  /\ query' = [query EXCEPT ![q] = "route"]
  /\ asked' = asked \ {q}
  /\ UNCHANGED <<world, breaker, list, servers, current>>

(* It returns, and with it goes the list it has loaded. *)
QueryEnds(q, how) ==
  /\ query' = [query EXCEPT ![q] = how]
  /\ servers' = [servers EXCEPT ![q] = Unloaded]

(* Mutant: an armed breaker keeps the built-in resolvers out although      *)
(* there are no others.                                                    *)
BuiltinRouteForStrict(q) ==
  /\ query[q] = "route"
  /\ IF BuiltinDNSAvailable
       THEN query' = [query EXCEPT ![q] = "builtin"] /\ UNCHANGED <<servers, current, list>>
       ELSE /\ Servers(q)
            /\ query' = [query EXCEPT ![q] = "system"]
  /\ UNCHANGED <<world, breaker, asked>>

(* BuiltinRouteFor: the built-in resolvers unless the breaker is armed and *)
(* there is something else; the system list is loaded only in that case.   *)
BuiltinRouteFor(q) ==
  /\ query[q] = "route"
  /\ IF BuiltinDNSAvailable
       THEN query' = [query EXCEPT ![q] = "builtin"] /\ UNCHANGED <<servers, current, list>>
       ELSE /\ Servers(q)
            /\ query' = [query EXCEPT ![q] =
                           IF ListNow # NoServers THEN "system" ELSE "builtin"]
  /\ UNCHANGED <<world, breaker, asked>>

(* try(builtin): an answer closes the breaker. *)
TryBuiltin(q) ==
  /\ query[q] = "builtin"
  /\ asked' = asked \cup {q}
  /\ \/ /\ builtinWorks
        /\ QueryEnds(q, "answered") /\ current' = current \ {q}
        /\ builtinDNSDown' = FALSE
        /\ UNCHANGED builtinDNSDownAt
     \/ /\ ~builtinWorks
        /\ query' = [query EXCEPT ![q] = "arm"]
        /\ UNCHANGED <<breaker, servers, current>>
  /\ UNCHANGED <<world, list>>

(* All built-in resolvers failed: the breaker is armed if there are system *)
(* resolvers (loaded once per query), which are asked next.                *)
Arm(q) ==
  /\ query[q] = "arm"
  /\ IF servers[q] = Unloaded
       THEN Servers(q)
       ELSE UNCHANGED <<servers, current, list>>
  /\ IF servers'[q] # NoServers
       THEN builtinDNSDown' = TRUE /\ builtinDNSDownAt' = now
       ELSE UNCHANGED breaker
  /\ query' = [query EXCEPT ![q] = "system"]
  /\ UNCHANGED <<world, asked>>

(* Mutant: a list is dropped once and never again. *)
InvalidateOnce(q) ==
  IF invalidatedAt # Never
    THEN /\ failedFirst' = IF q \in current /\ failedFirst = Never THEN now ELSE failedFirst
         /\ failedLast' = IF q \in current THEN now ELSE failedLast
         /\ UNCHANGED <<cached, at, invalidatedAt>> /\ current' = current \ {q}
    ELSE /\ cached' = NoServers /\ at' = Never
         /\ invalidatedAt' = now
         /\ failedFirst' = Never /\ failedLast' = Never
         /\ current' = {}

(* Invalidate after q has failed on its list: the cache is dropped unless  *)
(* that happened less than an interval ago.                                *)
Invalidate(q) ==
  IF now - invalidatedAt < systemDNSRediscoverInterval
    THEN /\ failedFirst' = IF q \in current /\ failedFirst = Never THEN now ELSE failedFirst
         /\ failedLast' = IF q \in current THEN now ELSE failedLast
         /\ UNCHANGED <<cached, at, invalidatedAt>> /\ current' = current \ {q}
    ELSE /\ cached' = NoServers /\ at' = Never
         /\ invalidatedAt' = now
         /\ failedFirst' = Never /\ failedLast' = Never
         /\ current' = {}

(* trySystem: resolvers of the network the machine is in may answer, those *)
(* of another do not, and an empty list fails at once.                     *)
TrySystem(q) ==
  /\ query[q] = "system"
  /\ asked' = IF servers[q] = NoServers THEN asked ELSE asked \cup {q}
  /\ \/ servers[q] = net /\ QueryEnds(q, "answered") /\ current' = current \ {q} /\ UNCHANGED list
     \/ QueryEnds(q, "failed") /\ Invalidate(q)
  /\ UNCHANGED <<world, breaker>>

(* The background retry of the server's domain starts from nothing. *)
ResetResolveState ==
  /\ builtinDNSDown' = FALSE /\ builtinDNSDownAt' = Never
  /\ cached' = NoServers /\ at' = Never /\ invalidatedAt' = Never
  /\ failedFirst' = Never /\ failedLast' = Never
  /\ current' = {}
  /\ UNCHANGED <<world, query, servers, asked>>

UpstreamNext ==
  \/ Tick \/ Move \/ ResetResolveState
  \/ \E q \in Queries : QueryBegins(q) \/ BuiltinRouteFor(q) \/ TryBuiltin(q)
                        \/ Arm(q) \/ TrySystem(q)

UpstreamSpec == UpstreamInit /\ [][UpstreamNext]_upstreamVars

-----------------------------------------------------------------------------
(* A query never fails without having asked anyone: the breaker cannot     *)
(* turn its cool-down into an outage where the system's resolvers are not  *)
(* visible.                                                                *)
NoOutage == \A q \in Queries : query[q] = "failed" => q \in asked

(* A list that is still in use has not failed for a whole interval: after  *)
(* a change of networks the old resolvers are gone within seconds of the   *)
(* first failure.                                                          *)
StaleListGoes ==
  Fresh => failedLast - failedFirst < systemDNSRediscoverInterval

(* What a query relies on. *)
UpstreamSound == NoOutage /\ StaleListGoes

-----------------------------------------------------------------------------
(***************************************************************************)
(* One DNS query sent to several resolvers at once.  The forward server    *)
(* (client/dns/forward.go) takes the first positive answer and keeps a     *)
(* negative one until it knows that there is none; the interceptor         *)
(* (client/proxy/dns.go) takes the first answer of any kind.  Each         *)
(* resolver is asked by a goroutine of its own that puts one result in a   *)
(* buffered channel; a timeout ends the wait for the rest.                 *)
(***************************************************************************)

CONSTANT Resolvers

Positive == "NOERROR"
Negative == "NXDOMAIN"
Other == "SERVFAIL"
Err == "error"
Nothing == "nothing"

VARIABLES tunActive,  \* the TUN engine is forwarding
          collector,  \* the query: not begun, waiting, or answered
          mode,       \* the forward server's or the interceptor's
          branch,     \* the goroutine of each resolver
          ch,         \* the channel of results, one place per resolver
          taken,      \* how many results were taken
          negative,   \* the first NXDOMAIN that was taken
          answer,     \* what the query is answered with
          expired,    \* ctx is done: timed out, or cancelled on return
          said,       \* what each resolver said, if anything
          inTime      \* the wait ended before the context timed out

raceVars == <<tunActive, collector, mode, branch, ch, taken, negative, answer, expired,
              said, inTime>>

Results == {Positive, Negative, Other, Err}

RaceTypeOK ==
  /\ tunActive \in BOOLEAN /\ expired \in BOOLEAN /\ negative \in BOOLEAN
  /\ collector \in {"idle", "collecting", "returned"}
  /\ mode \in {"forward", "direct"}
  /\ branch \in [Resolvers -> {"none", "asking", "ended"} \cup Results]
  /\ ch \in Seq(Results) /\ taken \in 0 .. Cardinality(Resolvers)
  /\ said \in [Resolvers -> Results \cup {Nothing}] /\ inTime \in BOOLEAN
  /\ answer \in Results \cup {Nothing, "REFUSED"}

RaceInit ==
  /\ tunActive \in BOOLEAN
  /\ mode \in {"forward", "direct"}
  /\ collector = "idle"
  /\ branch = [r \in Resolvers |-> "none"]
  /\ ch = <<>> /\ taken = 0 /\ negative = FALSE
  /\ answer = Nothing /\ expired = FALSE
  /\ said = [r \in Resolvers |-> Nothing] /\ inTime = FALSE

-----------------------------------------------------------------------------
(* handleDNS refuses a query of the LAN while TUN is not forwarding: it    *)
(* would be resolved past the tunnel.                                      *)
handleDNS ==
  /\ collector = "idle"
  /\ IF mode = "forward" /\ ~tunActive
       THEN collector' = "returned" /\ answer' = "REFUSED" /\ UNCHANGED branch
       ELSE /\ collector' = "collecting"
            /\ branch' = [r \in Resolvers |-> "asking"]
            /\ UNCHANGED answer
  /\ UNCHANGED <<tunActive, mode, ch, taken, negative, expired, said, inTime>>

(* exchangeOne, exchangeDirectDNS: a resolver answers or fails; a context  *)
(* that is done closes the socket, and that is an error too.               *)
exchangeOne(r) ==
  /\ branch[r] = "asking"
  /\ \E res \in IF expired THEN {Err} ELSE Results :
       /\ branch' = [branch EXCEPT ![r] = res]
       /\ said' = [said EXCEPT ![r] = res]
  /\ UNCHANGED <<tunActive, collector, mode, ch, taken, negative, answer, expired, inTime>>

(* Mutant: the send waits for a collector that has returned. *)
ReportUnbuffered(r) ==
  /\ branch[r] \in Results
  /\ collector = "collecting" /\ Len(ch) = 0
  /\ ch' = Append(ch, branch[r])
  /\ branch' = [branch EXCEPT ![r] = "ended"]
  /\ UNCHANGED <<tunActive, collector, mode, taken, negative, answer, expired, said, inTime>>

(* The send into the channel, which has room for every branch. *)
Report(r) ==
  /\ branch[r] \in Results
  /\ Len(ch) < Cardinality(Resolvers)
  /\ ch' = Append(ch, branch[r])
  /\ branch' = [branch EXCEPT ![r] = "ended"]
  /\ UNCHANGED <<tunActive, collector, mode, taken, negative, answer, expired, said, inTime>>

(* The collector returns, which cancels the other branches. *)
Return(with) ==
  /\ answer' = with
  /\ collector' = "returned"
  /\ inTime' = ~expired
  /\ expired' = TRUE

(* Mutant: a negative answer is returned at once. *)
exchangeWithServersHasty ==
  /\ mode = "forward" /\ collector = "collecting"
  /\ ch # <<>>
  /\ ch' = Tail(ch) /\ taken' = taken + 1
  /\ negative' = FALSE
  /\ IF Head(ch) \in {Positive, Negative} THEN Return(Head(ch))
     ELSE IF taken' = Cardinality(Resolvers) THEN Return(Err)
     ELSE UNCHANGED <<answer, collector, expired, inTime>>
  /\ UNCHANGED <<said, tunActive, mode, branch>>

(* exchangeWithServers takes a result: a positive one is returned, a       *)
(* negative one kept, and after the last one the negative one is returned  *)
(* if there is any.                                                        *)
exchangeWithServers ==
  /\ mode = "forward" /\ collector = "collecting"
  /\ ch # <<>>
  /\ ch' = Tail(ch) /\ taken' = taken + 1
  /\ negative' = (negative \/ Head(ch) = Negative)
  /\ IF Head(ch) = Positive THEN Return(Positive)
     ELSE IF taken' = Cardinality(Resolvers)
            THEN Return(IF negative' THEN Negative ELSE Err)
     ELSE UNCHANGED <<answer, collector, expired, inTime>>
  /\ UNCHANGED <<said, tunActive, mode, branch>>

(* exchangeDirectDNSFromList takes the first answer. *)
exchangeDirectDNSFromList ==
  /\ mode = "direct" /\ collector = "collecting"
  /\ ch # <<>>
  /\ ch' = Tail(ch) /\ taken' = taken + 1
  /\ IF Head(ch) # Err THEN Return(Head(ch))
     ELSE IF taken' = Cardinality(Resolvers) THEN Return(Err)
     ELSE UNCHANGED <<answer, collector, expired, inTime>>
  /\ UNCHANGED <<said, tunActive, mode, branch, negative>>

(* The context times out; the select may still take a result first. *)
Expire ==
  /\ collector = "collecting" /\ ~expired
  /\ expired' = TRUE
  /\ UNCHANGED <<tunActive, collector, mode, branch, ch, taken, negative, answer, said, inTime>>

TimedOut ==
  /\ collector = "collecting" /\ expired
  /\ Return(IF mode = "forward" /\ negative THEN Negative ELSE Err)
  /\ UNCHANGED <<said, tunActive, mode, branch, ch, taken, negative>>

Collect == exchangeWithServers \/ exchangeDirectDNSFromList \/ TimedOut

RaceNext ==
  \/ handleDNS \/ Collect \/ Expire
  \/ \E r \in Resolvers : exchangeOne(r) \/ Report(r)

(* A socket is closed with its context, and a goroutine that can run does. *)
RaceFairness ==
  /\ WF_raceVars(Collect)
  /\ WF_raceVars(Expire)
  /\ \A r \in Resolvers : WF_raceVars(exchangeOne(r) \/ Report(r))

RaceSpec == RaceInit /\ [][RaceNext]_raceVars /\ RaceFairness

-----------------------------------------------------------------------------
(* A LAN client is told that a name does not exist only when every         *)
(* resolver was heard and none said otherwise, or the time was up: a       *)
(* negative answer never pushes out a positive one that comes later.       *)
PositiveWins ==
  mode = "forward" /\ answer = Negative /\ inTime
    => \A r \in Resolvers : said[r] \in {Negative, Other, Err}

(* No goroutine of a query is left behind, whichever answer was taken. *)
NoBranchLeft == collector = "returned" => \A r \in Resolvers : branch[r] \in {"none", "ended"}
BranchesEnd == []<>NoBranchLeft
=============================================================================
