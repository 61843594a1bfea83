------------------------------ MODULE Outbound ------------------------------
(***************************************************************************)
(* An outbound dial of the server (server/handler/session.go): the         *)
(* addresses checked during the handshake, or resolved again, are refused  *)
(* as a whole when one of them is local, ordered so that the client's      *)
(* address family alternates with the other, and tried one after another   *)
(* within one budget.  Time is in ticks.                                   *)
(***************************************************************************)
EXTENDS Naturals, Sequences, FiniteSets, Functions

CONSTANTS
  Addrs4, Addrs6,    \* addresses of the two families
  Lan,               \* the local ones among them
  MaxAddrs,          \* bound on the addresses of a name
  Timeout,           \* the budget of the dial
  attemptMinBudget   \* the least an attempt is given

VARIABLES
  checked,    \* the addresses the handshake resolved (empty: it could not)
  answer,     \* what a second resolution would say (empty: it fails)
  viaProxy,   \* the next proxy is asked to connect
  prefer,     \* the client's address family: 4, 6 or 0 (unknown)
  dialing,    \* how far the dial is
  order,      \* the candidates
  attempted,  \* how many of them were tried
  clock,      \* the time since the start
  callerGone, \* the client left
  dialOut     \* the result

outboundVars ==
  <<checked, answer, viaProxy, prefer, dialing, order, attempted, clock, callerGone, dialOut>>
dialInput == <<checked, answer, viaProxy, prefer>>

Addrs == Addrs4 \cup Addrs6
Batches == UNION {Injection(1..n, Addrs) : n \in 0..MaxAddrs}
LanIn(s) == Range(s) \cap Lan # {}

OutboundTypeOK ==
  /\ checked \in Batches /\ answer \in Batches /\ viaProxy \in BOOLEAN /\ prefer \in {0, 4, 6}
  /\ dialing \in {"candidates", "attempt", "proxy", "end"} /\ order \in Batches
  /\ attempted \in 0 .. MaxAddrs /\ clock \in 0 .. Timeout /\ callerGone \in BOOLEAN
  /\ dialOut \in {"", "connected", "proxied", "unresolved", "local", "gone", "failed"}

(* The handshake let the request pass, so what it resolved is not local;   *)
(* a second resolution would then say the worst.                           *)
OutboundInit ==
  /\ checked \in {s \in Batches : ~LanIn(s)}
  /\ answer \in IF checked = <<>> THEN Batches ELSE {<<a>> : a \in Lan}
  /\ viaProxy \in BOOLEAN /\ prefer \in {0, 4, 6}
  /\ dialing = "candidates" /\ order = <<>> /\ attempted = 0 /\ clock = 0
  /\ callerGone = FALSE /\ dialOut = ""

-----------------------------------------------------------------------------
Is(family) == IF family = 4 THEN Addrs4 ELSE Addrs6

(* Mutant: the preferred family first, then the other.                     *)
orderByFamilyGrouped(s, family) ==
  SelectSeq(s, LAMBDA a : a \in Is(family)) \o SelectSeq(s, LAMBDA a : a \notin Is(family))

(* The preferred family and the other alternate; what is left follows.     *)
orderByFamily(s, family) ==
  LET preferred == SelectSeq(s, LAMBDA a : a \in Is(family))
      rest == SelectSeq(s, LAMBDA a : a \notin Is(family))
      both == IF Len(preferred) < Len(rest) THEN Len(preferred) ELSE Len(rest)
      longer == IF Len(preferred) < Len(rest) THEN rest ELSE preferred IN
  IF family = 0 \/ Len(s) < 2 THEN s
  ELSE [i \in 1 .. 2 * both |-> IF i % 2 = 1 THEN preferred[(i + 1) \div 2] ELSE rest[i \div 2]]
       \o SubSeq(longer, both + 1, Len(longer))

(* Mutant: the addresses of the handshake are not looked at again, and     *)
(* those resolved now not at all.                                          *)
candidatesUnchecked ==
  IF checked # <<>> THEN [ok |-> TRUE, why |-> "", addrs |-> checked]
  ELSE IF answer = <<>> THEN [ok |-> FALSE, why |-> "unresolved", addrs |-> <<>>]
  ELSE [ok |-> TRUE, why |-> "", addrs |-> answer]

candidates ==
  LET addrs == IF checked # <<>> THEN checked ELSE answer IN
  IF addrs = <<>> THEN [ok |-> FALSE, why |-> "unresolved", addrs |-> <<>>]
  ELSE IF LanIn(addrs) THEN [ok |-> FALSE, why |-> "local", addrs |-> <<>>]
  ELSE [ok |-> TRUE, why |-> "", addrs |-> addrs]

End(why) == dialing' = "end" /\ dialOut' = why

(* dialVia for a direct dial.                                              *)
outbound ==
  /\ dialing = "candidates" /\ ~viaProxy
  /\ IF candidates.ok
       THEN /\ order' = orderByFamily(candidates.addrs, prefer) /\ dialing' = "attempt"
            /\ UNCHANGED dialOut
       ELSE End(candidates.why) /\ UNCHANGED order
  /\ UNCHANGED <<dialInput, attempted, clock, callerGone>>

(* dialVia through the next proxy: a name that does not resolve here is    *)
(* handed over as it is.                                                   *)
viaNextProxy ==
  /\ dialing = "candidates" /\ viaProxy
  /\ IF LanIn(IF checked # <<>> THEN checked ELSE answer)
       THEN End("local")
       ELSE dialing' = "proxy" /\ UNCHANGED dialOut
  /\ UNCHANGED <<dialInput, order, attempted, clock, callerGone>>

DialProxy ==
  /\ dialing = "proxy" /\ \E why \in {"proxied", "failed"} : End(why)
  /\ UNCHANGED <<dialInput, order, attempted, clock, callerGone>>

-----------------------------------------------------------------------------
(* Mutant: every candidate may use what is left.                           *)
attemptDeadlineAll(left, n) == left

(* An equal share of what is left, but not less than the least budget.     *)
attemptDeadline(left, n) ==
  IF left \div n >= attemptMinBudget THEN left \div n
  ELSE IF left < attemptMinBudget THEN left ELSE attemptMinBudget

(* One attempt: it connects or fails within its deadline, or hangs until   *)
(* then.                                                                   *)
dialAddrs ==
  /\ dialing = "attempt"
  /\ attempted' = attempted + 1
  /\ \E t \in 0 .. attemptDeadline(Timeout - clock, Len(order) - attempted) :
       /\ clock' = clock + t
       /\ \/ End("connected")
          \/ callerGone /\ End("gone")
          \/ ~callerGone /\ (clock' >= Timeout \/ attempted' = Len(order)) /\ End("failed")
          \/ /\ ~callerGone /\ clock' < Timeout /\ attempted' < Len(order)
             /\ UNCHANGED <<dialing, dialOut>>
  /\ UNCHANGED <<dialInput, order, callerGone>>

CallerLeaves ==
  /\ dialing = "attempt" /\ ~callerGone /\ callerGone' = TRUE
  /\ UNCHANGED <<dialInput, dialing, order, attempted, clock, dialOut>>

OutboundNext == outbound \/ viaNextProxy \/ DialProxy \/ dialAddrs \/ CallerLeaves

OutboundSpec == OutboundInit /\ [][OutboundNext]_outboundVars

-----------------------------------------------------------------------------
(* No address is tried that stands in a list with a local one: the list    *)
(* that was checked is the list that is dialed, whatever a later           *)
(* resolution answers.                                                     *)
OnlyCheckedDialed ==
  /\ order # <<>> => ~LanIn(order) /\ Range(order) = Range(IF checked # <<>> THEN checked ELSE answer)
  /\ dialOut = "proxied" => ~LanIn(checked) /\ (checked = <<>> => ~LanIn(answer))

(* The attempts share one budget, and hanging ones do not use it up: when  *)
(* the dial fails, all candidates were tried, or as many as the budget     *)
(* holds of the least budgets; and when the client's family is known, the  *)
(* first two tried are of both families, if there are both.                *)
AttemptsShare ==
  /\ clock <= Timeout
  /\ dialOut = "failed" /\ ~viaProxy =>
       attempted = Len(order) \/ attempted * attemptMinBudget >= Timeout
  /\ Len(order) >= 2 /\ prefer # 0 /\ Range(order) \cap Addrs4 # {} /\ Range(order) \cap Addrs6 # {}
       => order[1] \in Is(prefer) /\ order[2] \notin Is(prefer)

-----------------------------------------------------------------------------
(***************************************************************************)
(* The server's cache of resolved names (server/handler/resolve_cache.go): *)
(* streams that look up one name share one resolution, which outlives the  *)
(* stream that started it, and the cache holds a bounded number of names   *)
(* for a bounded time.  Time is in ticks.                                  *)
(***************************************************************************)

CONSTANTS
  Streams, Hosts,
  max,      \* entries of the cache
  ttl,      \* ticks an entry lives
  MaxTick   \* bound

VARIABLES
  tick,
  held,      \* the names in the cache
  expires,   \* of a name: when its entry expires
  lookup,    \* of a stream: where its lookup is
  host,      \* of a stream: the name it looks up
  flight,    \* of a name: no resolution, one running, one that has an answer to store
  waiting,   \* of a name: the streams that wait for its resolution
  answerAge  \* of a stream: history: how old its answer was

resolveVars == <<tick, held, expires, lookup, host, flight, waiting, answerAge>>

ResolveTypeOK ==
  /\ tick \in 0 .. MaxTick /\ held \subseteq Hosts /\ expires \in [Hosts -> 0 .. MaxTick + ttl]
  /\ lookup \in [Streams -> {"idle", "waiting", "found", "failed", "left"}]
  /\ host \in [Streams -> Hosts] /\ flight \in [Hosts -> {"none", "resolving"}]
  /\ waiting \in [Hosts -> SUBSET Streams] /\ answerAge \in [Streams -> 0 .. MaxTick]

ResolveInit ==
  /\ tick = 0 /\ held = {} /\ expires = [h \in Hosts |-> 0]
  /\ lookup = [s \in Streams |-> "idle"] /\ host \in [Streams -> Hosts]
  /\ flight = [h \in Hosts |-> "none"] /\ waiting = [h \in Hosts |-> {}]
  /\ answerAge = [s \in Streams |-> 0]

-----------------------------------------------------------------------------
(* Mutant: an expired entry is still served.                               *)
loadStale(h) == h \in held

load(h) == h \in held /\ tick <= expires[h]

(* lookup: the cache, or the resolution of this name, started if need be.  *)
Lookup(s) ==
  LET h == host[s] IN
  /\ lookup[s] = "idle"
  /\ IF load(h)
       THEN /\ lookup' = [lookup EXCEPT ![s] = "found"]
            /\ answerAge' = [answerAge EXCEPT ![s] = tick + ttl - expires[h]]
            /\ UNCHANGED <<flight, waiting>>
       ELSE /\ lookup' = [lookup EXCEPT ![s] = "waiting"]
            /\ flight' = [flight EXCEPT ![h] = "resolving"]
            /\ waiting' = [waiting EXCEPT ![h] = @ \cup {s}] /\ UNCHANGED answerAge
  /\ UNCHANGED <<tick, held, expires, host>>

Leave(s) ==
  /\ lookup[s] = "waiting" /\ lookup' = [lookup EXCEPT ![s] = "left"]
  /\ waiting' = [waiting EXCEPT ![host[s]] = @ \ {s}]
  /\ UNCHANGED <<tick, held, expires, host, flight, answerAge>>

(* Mutant: only expired entries go.                                        *)
evictLockedExpired(set) == {k \in set : tick <= expires[k]}

(* Expired entries go; if that is not enough, so does the earliest to      *)
(* expire.                                                                 *)
evictLocked(set) ==
  LET live == {k \in set : tick <= expires[k]}
      oldest == CHOOSE k \in live : \A j \in live : expires[k] <= expires[j] IN
  IF Cardinality(live) >= max THEN live \ {oldest} ELSE live

(* The resolution succeeds: its result is stored, then shared.             *)
store(h) ==
  /\ flight[h] = "resolving" /\ flight' = [flight EXCEPT ![h] = "none"]
  /\ held' = (IF Cardinality(held) >= max THEN evictLocked(held) ELSE held) \cup {h}
  /\ expires' = [expires EXCEPT ![h] = tick + ttl]
  /\ lookup' = [s \in Streams |-> IF s \in waiting[h] /\ lookup[s] = "waiting" THEN "found" ELSE lookup[s]]
  /\ waiting' = [waiting EXCEPT ![h] = {}]
  /\ UNCHANGED <<tick, host, answerAge>>

(* The resolution fails for all who wait.                                  *)
ResolveFails(h) ==
  /\ flight[h] = "resolving" /\ flight' = [flight EXCEPT ![h] = "none"]
  /\ lookup' = [s \in Streams |-> IF s \in waiting[h] /\ lookup[s] = "waiting" THEN "failed" ELSE lookup[s]]
  /\ waiting' = [waiting EXCEPT ![h] = {}]
  /\ UNCHANGED <<tick, held, expires, host, answerAge>>

Again(s) ==
  /\ lookup[s] \in {"found", "failed", "left"} /\ tick < MaxTick
  /\ lookup' = [lookup EXCEPT ![s] = "idle"] /\ \E h \in Hosts : host' = [host EXCEPT ![s] = h]
  /\ answerAge' = [answerAge EXCEPT ![s] = 0]
  /\ UNCHANGED <<tick, held, expires, flight, waiting>>

ResolveTick ==
  /\ tick < MaxTick /\ tick' = tick + 1
  /\ UNCHANGED <<held, expires, lookup, host, flight, waiting, answerAge>>

ResolveNext ==
  \/ \E s \in Streams : Lookup(s) \/ Leave(s) \/ Again(s)
  \/ \E h \in Hosts : store(h) \/ ResolveFails(h)
  \/ ResolveTick

ResolveSpec == ResolveInit /\ [][ResolveNext]_resolveVars

-----------------------------------------------------------------------------
(* The cache keeps its limit, never answers with an entry older than its   *)
(* time to live, and no stream waits for a resolution nobody runs.         *)
ResolveSound ==
  /\ Cardinality(held) <= max
  /\ \A s \in Streams :
       /\ answerAge[s] <= ttl
       /\ lookup[s] = "waiting" => flight[host[s]] = "resolving" /\ s \in waiting[host[s]]
=============================================================================
