----------------------------- MODULE HTTPProxy ------------------------------
(***************************************************************************)
(* The client's HTTP proxy entrance (client/proxy/http_proxy.go): what     *)
(* becomes of a request (control endpoints, authentication, loops, CONNECT *)
(* or forwarding through the local SOCKS5 entrance), the cached set of the *)
(* host's own addresses that recognises loops, and Close, which must give  *)
(* back the upstream connections: each of them holds a stream of the       *)
(* tunnel.                                                                 *)
(***************************************************************************)
EXTENDS Naturals, FiniteSets

CONSTANTS Requests,           \* requests in flight at the same time
          Addrs,              \* addresses an interface of the host may have
          localIPsCacheTTL, MaxChanges  \* bound: addresses that appear

(* A request's target: the listen address itself, localhost or an address  *)
(* with the proxy's port, or anything else (another port, a name).         *)
Targets == {"listenAddr", "localhost", "other"} \cup Addrs

VARIABLES local,      \* the addresses the host has
          grown,      \* ticks since each of them appeared
          changes,
          cached, age,    \* localIPsCache: the set and the ticks since it was read
          enumerated,     \* the interfaces could be listed when it was read (history)
          req,        \* the requests in hand
          looped,     \* a request was sent back to the proxy itself (history)
          idle, closeIdle,    \* rpTransport: idle connections, newly idle ones are closed
          close,      \* Close: "no", "shutdown", "pool", "returned"
          timedOut,   \* Shutdown gave up waiting
          late        \* a request asked for a connection after that (history)

world == <<local, grown, changes>>
localIPsCache == <<cached, age, enumerated>>
pool == <<idle, closeIdle>>
closing == <<close, timedOut>>
httpVars == <<world, localIPsCache, req, looped, pool, closing, late>>

Never == localIPsCacheTTL + 1

HTTPTypeOK ==
  /\ local \subseteq Addrs /\ grown \in [Addrs -> 0 .. Never] /\ changes \in 0 .. MaxChanges
  /\ cached \subseteq Addrs /\ age \in 0 .. Never /\ enumerated \in BOOLEAN
  /\ req \in [Requests -> {"none", "hijacked", "relay", "forward", "upstream"}]
  /\ looped \in BOOLEAN
  /\ idle \in 0 .. Cardinality(Requests) /\ closeIdle \in BOOLEAN
  /\ close \in {"no", "shutdown", "pool", "returned"} /\ timedOut \in BOOLEAN /\ late \in BOOLEAN

HTTPInit ==
  /\ local \in SUBSET Addrs /\ grown = [a \in Addrs |-> Never] /\ changes = 0
  /\ cached = {} /\ age = Never /\ enumerated = TRUE
  /\ req = [r \in Requests |-> "none"]
  /\ looped = FALSE
  /\ idle = 0 /\ closeIdle = FALSE
  /\ close = "no" /\ timedOut = FALSE /\ late = FALSE

-----------------------------------------------------------------------------
(* Time passes; an interface gets an address. *)
Older(n) == IF n = Never THEN Never ELSE n + 1

Tick ==
  /\ age' = Older(age) /\ grown' = [a \in Addrs |-> Older(grown[a])]
  /\ <<age', grown'>> # <<age, grown>>
  /\ UNCHANGED <<local, changes, cached, enumerated, req, looped, pool, closing, late>>

AddressAppears ==
  /\ changes < MaxChanges /\ changes' = changes + 1
  /\ \E a \in Addrs \ local : local' = local \cup {a} /\ grown' = [grown EXCEPT ![a] = 0]
  /\ UNCHANGED <<localIPsCache, req, looped, pool, closing, late>>

(* Mutant: every use of the cached set renews it. *)
localIPSetRenewed(ok) ==
  IF age < localIPsCacheTTL
    THEN [set |-> cached, age |-> 0, enumerated |-> enumerated]
    ELSE [set |-> IF ok THEN local ELSE {}, age |-> 0, enumerated |-> ok]

(* localIPSet: the cached addresses while they are fresh, else a new set,  *)
(* which is empty, and cached as well, when net.Interfaces fails.          *)
localIPSet(ok) ==
  IF age < localIPsCacheTTL
    THEN [set |-> cached, age |-> age, enumerated |-> enumerated]
    ELSE [set |-> IF ok THEN local ELSE {}, age |-> 0, enumerated |-> ok]

(* isSelfTarget: the listen address, localhost (or a loopback address), or *)
(* an address of the host with the same port; a name is never resolved.    *)
isSelfTarget(t, ok) == t \in {"listenAddr", "localhost"} \cup localIPSet(ok).set

AskLocalIPs(t, ok) ==
  IF t \in Addrs
    THEN LET now == localIPSet(ok) IN cached' = now.set /\ age' = now.age /\ enumerated' = now.enumerated
    ELSE UNCHANGED localIPsCache

(* The target is the proxy itself, not only since a moment ago, and the    *)
(* set that is asked was read from interfaces that could be listed.        *)
Own(t, ok) ==
  \/ t \in {"listenAddr", "localhost"}
  \/ t \in local /\ grown[t] > localIPsCacheTTL /\ localIPSet(ok).enumerated

(* Mutant: the loop is looked for only in forwarded requests. *)
PassOnForwarded(r, p, t, ok) ==
  /\ \/ ~isSelfTarget(t, ok) /\ p = "proxied"
     \/ p = "CONNECT"
  /\ req' = [req EXCEPT ![r] = IF p = "CONNECT" THEN "hijacked" ELSE "forward"]
  /\ looped' = (looped \/ Own(t, ok))

(* A request for the proxy itself is not passed on; neither is a CONNECT   *)
(* to a target the rules block (handleConnect).                            *)
PassOn(r, p, t, ok) ==
  /\ ~isSelfTarget(t, ok)
  /\ req' = [req EXCEPT ![r] = IF p = "CONNECT" THEN "hijacked" ELSE "forward"]
  /\ looped' = (looped \/ Own(t, ok))

(* ServeHTTP: requests without credentials, the control endpoints /tun and *)
(* /stats (which only this host may read) and refused requests change      *)
(* nothing here; a request for an address is compared with the host's.     *)
(* The server still serves the first request of a connection it accepted   *)
(* before Shutdown; only a Shutdown that was in time has closed them all.  *)
ServeHTTP(r) ==
  /\ close \in {"no", "shutdown"} \/ timedOut
  /\ req[r] = "none"
  /\ \E p \in {"proxied", "CONNECT"}, t \in Targets, ok \in BOOLEAN :
       /\ AskLocalIPs(t, ok)
       /\ \/ PassOn(r, p, t, ok)
          \/ UNCHANGED <<req, looped>>
  /\ UNCHANGED <<world, pool, closing, late>>

(* handleConnect after Hijack: a target that cannot be dialed directly is  *)
(* a 502 written on the raw connection; through the tunnel the success     *)
(* comes before the stream is opened.                                      *)
handleConnect(r) ==
  /\ req[r] = "hijacked"
  /\ req' \in {[req EXCEPT ![r] = "none"], [req EXCEPT ![r] = "relay"]}
  /\ UNCHANGED <<world, localIPsCache, looped, pool, closing, late>>

RelayEnds(r) ==
  /\ req[r] = "relay"
  /\ req' = [req EXCEPT ![r] = "none"]
  /\ UNCHANGED <<world, localIPsCache, looped, pool, closing, late>>

(* The reverse proxy takes an idle connection or dials the local SOCKS5    *)
(* entrance; asking for a connection ends the closing of idle ones.        *)
TakeConn(r) ==
  /\ req[r] = "forward"
  /\ closeIdle' = FALSE
  /\ idle' = IF idle > 0 THEN idle - 1 ELSE 0
  /\ req' = [req EXCEPT ![r] = "upstream"]
  /\ late' = (late \/ close = "returned")
  /\ UNCHANGED <<world, localIPsCache, looped, closing>>

(* The response (or an error: 503); the connection becomes idle or, after  *)
(* CloseIdleConnections, is closed.                                        *)
PutConn(r) ==
  /\ req[r] = "upstream"
  /\ idle' \in IF closeIdle THEN {idle} ELSE {idle, idle + 1}
  /\ req' = [req EXCEPT ![r] = "none"]
  /\ UNCHANGED <<world, localIPsCache, looped, closeIdle, closing, late>>

-----------------------------------------------------------------------------
InFlight == {r \in Requests : req[r] \in {"forward", "upstream"}}

(* Close: Shutdown waits for the requests the server still owns (not for   *)
(* the connections handleConnect took over), five seconds at most.         *)
Close ==
  /\ close = "no"
  /\ close' = "shutdown"
  /\ UNCHANGED <<world, localIPsCache, req, looped, pool, timedOut, late>>

Shutdown ==
  /\ close = "shutdown"
  /\ close' = "pool"
  /\ \/ InFlight = {} /\ UNCHANGED timedOut
     \/ timedOut' = TRUE
  /\ UNCHANGED <<world, localIPsCache, req, looped, pool, late>>

(* Mutant: the pool is emptied only when Shutdown was in time. *)
CloseIdleConnectionsPolite ==
  /\ close = "pool"
  /\ close' = "returned"
  /\ IF timedOut THEN UNCHANGED pool ELSE idle' = 0 /\ closeIdle' = TRUE
  /\ UNCHANGED <<world, localIPsCache, req, looped, timedOut, late>>

(* The pool is emptied whether or not Shutdown was in time. *)
CloseIdleConnections ==
  /\ close = "pool"
  /\ close' = "returned"
  /\ idle' = 0 /\ closeIdle' = TRUE
  /\ UNCHANGED <<world, localIPsCache, req, looped, timedOut, late>>

(* A second Close does not wait, and empties the pool again. *)
CloseAgain ==
  /\ close # "no"
  /\ idle' = 0 /\ closeIdle' = TRUE
  /\ UNCHANGED <<world, localIPsCache, req, looped, closing, late>>

HTTPNext ==
  \/ Tick \/ AddressAppears \/ Close \/ Shutdown \/ CloseIdleConnections \/ CloseAgain
  \/ \E r \in Requests : ServeHTTP(r) \/ handleConnect(r) \/ RelayEnds(r)
                         \/ TakeConn(r) \/ PutConn(r)

HTTPSpec == HTTPInit /\ [][HTTPNext]_httpVars

-----------------------------------------------------------------------------
(* A request for the proxy itself is never sent on, CONNECT included,      *)
(* except to an address the host got less than a cache period ago, or      *)
(* while the cached set is one that could not be read.                     *)
NoLoop == ~looped

(* After Close the upstream pool keeps no idle connection: requests that   *)
(* outlast Shutdown close theirs when they end.  Only one that first asks  *)
(* for a connection after a Shutdown that gave up can leave it behind.     *)
PoolGivenBack == close = "returned" => idle = 0 \/ (timedOut /\ late)

(* What the HTTP entrance promises. *)
EntranceSound == NoLoop /\ PoolGivenBack
=============================================================================
