----------------------------- MODULE DirectUDP -----------------------------
(***************************************************************************)
(* The direct sockets of the UDP pool (client/proxy/udp_pool.go) with the  *)
(* datagrams that use them and their read loops (udp.go).  Unlike an       *)
(* exchange, a socket is dialed before the map is looked at again, and is  *)
(* closed under the lock by cleanupLoop and close.                         *)
(*                                                                         *)
(* A datagram dials at most once: a socket goes by its name.  Which socket *)
(* is the oldest, and which is stale, is left open.                        *)
(***************************************************************************)
EXTENDS FiniteSets, Naturals

CONSTANTS Datagrams, Keys, None, maxUDPExchanges

VARIABLES
  direct,          \* the pool's map: key to socket
  flight,          \* the singleflight group: key to the datagram that leads
  dialed, closed,  \* sockets: dialed; closed
  key, pc, got,    \* of each datagram: its key, its place, the socket it has
  evicted,         \* of each datagram: the socket it took out and must close
  rpc, starts,     \* of each socket: its read loop, loops started
  poolClosed, cpc  \* close

mapVars == <<direct, flight>>
sockVars == <<dialed, closed>>
dataVars == <<key, pc, got, evicted>>
loopVars == <<rpc, starts>>
endVars == <<poolClosed, cpc>>
vars == <<mapVars, sockVars, dataVars, loopVars, endVars>>

Socket == Datagrams \cup {None}
Registered == {k \in Keys : direct[k] # None}

TypeOK ==
  /\ direct \in [Keys -> Socket] /\ flight \in [Keys -> Socket]
  /\ dialed \subseteq Datagrams /\ closed \subseteq dialed
  /\ key \in [Datagrams -> Keys] /\ got \in [Datagrams -> Socket]
  /\ evicted \in [Datagrams -> Socket]
  /\ pc \in [Datagrams -> {"new", "acquire", "flight", "wait", "dial", "check", "register",
                           "evict", "return", "write", "end"}]
  /\ rpc \in [Datagrams -> {"none", "run", "remove", "end"}] /\ starts \in [Datagrams -> Nat]
  /\ poolClosed \in BOOLEAN /\ cpc \in {"idle", "scan", "end"}

Init ==
  /\ direct = [k \in Keys |-> None] /\ flight = [k \in Keys |-> None]
  /\ dialed = {} /\ closed = {}
  /\ key \in [Datagrams -> Keys] /\ pc = [d \in Datagrams |-> "new"]
  /\ got = [d \in Datagrams |-> None] /\ evicted = [d \in Datagrams |-> None]
  /\ rpc = [d \in Datagrams |-> "none"] /\ starts = [d \in Datagrams |-> 0]
  /\ poolClosed = FALSE /\ cpc = "idle"

Goto(d, l) == pc' = [pc EXCEPT ![d] = l]

(* directUDPRelay looks once, acquireDirect once more.                     *)
directFor(d) ==
  /\ pc[d] \in {"new", "acquire"}
  /\ IF direct[key[d]] # None
     THEN Goto(d, "write") /\ got' = [got EXCEPT ![d] = direct[key[d]]]
     ELSE Goto(d, IF pc[d] = "new" THEN "acquire" ELSE "flight") /\ UNCHANGED got
  /\ UNCHANGED <<mapVars, sockVars, key, evicted, loopVars, endVars>>

Flight(d) ==
  /\ pc[d] = "flight"
  /\ IF flight[key[d]] = None
     THEN flight' = [flight EXCEPT ![key[d]] = d] /\ Goto(d, "dial")
     ELSE UNCHANGED flight /\ Goto(d, "wait")
  /\ UNCHANGED <<direct, sockVars, key, got, evicted, loopVars, endVars>>

(* The flight led by d ends with socket e, or with an error.               *)
Land(d, e) ==
  LET waiting == {w \in Datagrams : pc[w] = "wait" /\ key[w] = key[d]} \cup {d} IN
  /\ flight' = [flight EXCEPT ![key[d]] = None]
  /\ got' = [w \in Datagrams |-> IF w \in waiting THEN e ELSE got[w]]
  /\ pc' = [w \in Datagrams |-> IF w \in waiting THEN IF e = None THEN "end" ELSE "return" ELSE pc[w]]

Dial(d) ==
  /\ pc[d] = "dial"
  /\ \/ dialed' = dialed \cup {d} /\ Goto(d, "check") /\ UNCHANGED <<flight, got>>
     \/ Land(d, None) /\ UNCHANGED dialed
  /\ UNCHANGED <<direct, closed, key, evicted, loopVars, endVars>>

CheckClosed(d) ==
  /\ pc[d] = "check"
  /\ IF poolClosed
     THEN closed' = closed \cup {d} /\ Land(d, None)
     ELSE Goto(d, "register") /\ UNCHANGED <<closed, flight, got>>
  /\ UNCHANGED <<direct, dialed, key, evicted, loopVars, endVars>>

(* Mutant: the second look at poolClosed, under the lock, is left out.     *)
RegisterLate(d) ==
  /\ pc[d] = "register"
  /\ direct' = [direct EXCEPT ![key[d]] = d]
  /\ Goto(d, "evict") /\ UNCHANGED <<closed, flight, got, evicted>>
  /\ UNCHANGED <<dialed, key, loopVars, endVars>>

(* Under the lock: closed meanwhile, registered meanwhile, or registered   *)
(* now, for which a full pool gives up its oldest socket.                  *)
Register(d) ==
  /\ pc[d] = "register"
  /\ \/ /\ poolClosed
        /\ closed' = closed \cup {d} /\ Land(d, None) /\ UNCHANGED <<direct, evicted>>
     \/ /\ ~poolClosed /\ direct[key[d]] # None
        /\ closed' = closed \cup {d} /\ Land(d, direct[key[d]]) /\ UNCHANGED <<direct, evicted>>
     \/ /\ ~poolClosed /\ direct[key[d]] = None
        /\ IF Cardinality(Registered) >= maxUDPExchanges
           THEN \E k \in Registered : /\ direct' = [direct EXCEPT ![k] = None, ![key[d]] = d]
                                      /\ evicted' = [evicted EXCEPT ![d] = direct[k]]
           ELSE direct' = [direct EXCEPT ![key[d]] = d] /\ UNCHANGED evicted
        /\ Goto(d, "evict") /\ UNCHANGED <<closed, flight, got>>
  /\ UNCHANGED <<dialed, key, loopVars, endVars>>

CloseEvicted(d) ==
  /\ pc[d] = "evict"
  /\ closed' = closed \cup ({evicted[d]} \ {None}) /\ evicted' = [evicted EXCEPT ![d] = None]
  /\ Land(d, d)
  /\ UNCHANGED <<direct, dialed, key, loopVars, endVars>>

(* The creator, and only it, starts the read loop.                         *)
acquireDirect(d) ==
  /\ pc[d] = "return"
  /\ \/ poolClosed /\ Goto(d, "end") /\ UNCHANGED loopVars
     \/ /\ ~poolClosed /\ Goto(d, "write")
        /\ IF got[d] = d
           THEN rpc' = [rpc EXCEPT ![d] = "run"] /\ starts' = [starts EXCEPT ![d] = @ + 1]
           ELSE UNCHANGED loopVars
  /\ UNCHANGED <<mapVars, sockVars, key, got, evicted, endVars>>

(* The write may fail; the socket stays, its read loop will tell.          *)
directUDPRelay(d) ==
  /\ pc[d] = "write" /\ Goto(d, "end")
  /\ UNCHANGED <<mapVars, sockVars, key, got, evicted, loopVars, endVars>>

-----------------------------------------------------------------------------
removeDirect(k, e) == direct' = IF direct[k] = e THEN [direct EXCEPT ![k] = None] ELSE direct

(* A read fails when the socket is closed, and may fail before.            *)
directUDPReadLoop(e) ==
  \/ /\ rpc[e] = "run"
     /\ closed' = closed \cup {e} /\ rpc' = [rpc EXCEPT ![e] = "remove"]
     /\ UNCHANGED <<mapVars, dialed, dataVars, starts, endVars>>
  \/ /\ rpc[e] = "remove"
     /\ removeDirect(key[e], e) /\ rpc' = [rpc EXCEPT ![e] = "end"]
     /\ UNCHANGED <<flight, sockVars, dataVars, starts, endVars>>

cleanupLoop ==
  /\ ~poolClosed
  /\ \E K \in SUBSET Registered \ {{}} :
       /\ closed' = closed \cup {direct[k] : k \in K}
       /\ direct' = [k \in Keys |-> IF k \in K THEN None ELSE direct[k]]
  /\ UNCHANGED <<flight, dialed, dataVars, loopVars, endVars>>

StoreClosed ==
  /\ cpc = "idle" /\ poolClosed' = TRUE /\ cpc' = "scan"
  /\ UNCHANGED <<mapVars, sockVars, dataVars, loopVars>>

Scan ==
  /\ cpc = "scan" /\ cpc' = "end"
  /\ closed' = closed \cup {direct[k] : k \in Registered}
  /\ direct' = [k \in Keys |-> None]
  /\ UNCHANGED <<flight, dialed, dataVars, loopVars, poolClosed>>

-----------------------------------------------------------------------------
DatagramStep(d) ==
  \/ directFor(d) \/ Flight(d) \/ Dial(d) \/ CheckClosed(d) \/ Register(d) \/ CloseEvicted(d)
  \/ acquireDirect(d) \/ directUDPRelay(d)

Next ==
  \/ \E d \in Datagrams : DatagramStep(d) \/ directUDPReadLoop(d)
  \/ cleanupLoop \/ StoreClosed \/ Scan

Spec == Init /\ [][Next]_vars

-----------------------------------------------------------------------------
(* A socket that is open is in the map, where cleanup and close find it,   *)
(* or with the goroutine that is about to register or to close it: its     *)
(* read has no deadline, so nobody else would ever end it.                 *)
NoSocketLeak ==
  \A e \in dialed \ closed :
    \/ direct[key[e]] = e \/ pc[e] \in {"check", "register"}
    \/ \E d \in Datagrams : pc[d] = "evict" /\ evicted[d] = e

(* A socket is read by one loop, however many datagrams shared its flight. *)
OneLoop == \A e \in Datagrams : starts[e] <= 1

(* The pool never holds more sockets than it may.                          *)
SocketCapKept == Cardinality(Registered) <= maxUDPExchanges

(* Nothing enters the map behind the scan that close makes.                *)
ClosedEmpty == cpc = "end" => Registered = {}
=============================================================================
