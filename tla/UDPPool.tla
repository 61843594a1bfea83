------------------------------ MODULE UDPPool ------------------------------
(***************************************************************************)
(* The pool of proxied UDP exchanges (client/proxy/udp_pool.go) with the   *)
(* datagrams that use it (proxyUDPRelay in udp.go, proxyUDPQuery in        *)
(* dns_udp.go), their receive loops, the idle cleanup and close.           *)
(*                                                                         *)
(* A datagram opens at most one exchange, so an exchange goes by the name  *)
(* of the datagram that opened it.  Close of an exchange is one step here; *)
(* UDPExchange looks inside it.  Which exchange is the oldest, and which   *)
(* is stale, is left open.                                                 *)
(***************************************************************************)
EXTENDS FiniteSets, Naturals

CONSTANTS Datagrams, Keys, None, maxUDPExchanges

ASSUME UDPPoolAssumption ==
  /\ None \notin Datagrams /\ IsFiniteSet(Keys)
  /\ maxUDPExchanges \in Nat \ {0}

VARIABLES
  exchanges,       \* the pool's map: key to exchange
  flight,          \* the singleflight group: key to the datagram that leads
  opened, closed,  \* exchanges: opened; their Close has begun
  sent,            \* of each datagram: times its payload was sent
  key, pc, got,    \* of each datagram: its key, its place, the exchange it has
  held,            \* of each datagram: exchanges it took out and must close
  rpc, starts,     \* of each exchange: its receive loop, loops started
  poolClosed,      \* closed
  cpc, reaped,     \* close, and the exchanges it took out
  stale            \* the exchanges cleanupLoop took out

mapVars == <<exchanges, flight>>
exVars == <<opened, closed, sent>>
dataVars == <<key, pc, got, held>>
loopVars == <<rpc, starts>>
endVars == <<poolClosed, cpc, reaped, stale>>
vars == <<mapVars, exVars, dataVars, loopVars, endVars>>

Exchange == Datagrams \cup {None}

TypeOK ==
  /\ exchanges \in [Keys -> Exchange] /\ flight \in [Keys -> Exchange]
  /\ opened \subseteq Datagrams /\ closed \subseteq opened
  /\ sent \in [Datagrams -> Nat]
  /\ key \in [Datagrams -> Keys] /\ got \in [Datagrams -> Exchange]
  /\ pc \in [Datagrams -> {"new", "flight", "wait", "create", "open", "register", "evict",
                           "return", "send", "remove", "close", "ok", "failed"}]
  /\ held \in [Datagrams -> SUBSET Datagrams]
  /\ rpc \in [Datagrams -> {"none", "run", "remove", "close", "end"}]
  /\ starts \in [Datagrams -> Nat]
  /\ poolClosed \in BOOLEAN /\ cpc \in {"idle", "scan", "close", "end"}
  /\ reaped \subseteq Datagrams /\ stale \subseteq Datagrams

Init ==
  /\ exchanges = [k \in Keys |-> None] /\ flight = [k \in Keys |-> None]
  /\ opened = {} /\ closed = {} /\ sent = [d \in Datagrams |-> 0]
  /\ key \in [Datagrams -> Keys]
  /\ pc = [d \in Datagrams |-> "new"] /\ got = [d \in Datagrams |-> None]
  /\ held = [d \in Datagrams |-> {}]
  /\ rpc = [d \in Datagrams |-> "none"] /\ starts = [d \in Datagrams |-> 0]
  /\ poolClosed = FALSE /\ cpc = "idle" /\ reaped = {} /\ stale = {}

Goto(d, l) == pc' = [pc EXCEPT ![d] = l]
Registered == {k \in Keys : exchanges[k] # None}
inflight == Cardinality({d \in Datagrams : pc[d] \in {"open", "register", "evict"}})

-----------------------------------------------------------------------------
(* acquireExchange: look, then join the flight of the key or lead one.     *)
acquireExchange(d) ==
  /\ pc[d] = "new"
  /\ IF exchanges[key[d]] # None
     THEN Goto(d, "send") /\ got' = [got EXCEPT ![d] = exchanges[key[d]]]
     ELSE Goto(d, "flight") /\ UNCHANGED got
  /\ UNCHANGED <<mapVars, exVars, key, held, loopVars, endVars>>

Flight(d) ==
  /\ pc[d] = "flight"
  /\ IF flight[key[d]] = None
     THEN flight' = [flight EXCEPT ![key[d]] = d] /\ Goto(d, "create")
     ELSE UNCHANGED flight /\ Goto(d, "wait")
  /\ UNCHANGED <<exchanges, exVars, key, got, held, loopVars, endVars>>

(* The flight led by d ends: everyone who waits for it has its result, an  *)
(* exchange or an error.                                                   *)
Land(d, e) ==
  LET waiting == {w \in Datagrams : pc[w] = "wait" /\ key[w] = key[d]} \cup {d} IN
  /\ flight' = [flight EXCEPT ![key[d]] = None]
  /\ got' = [w \in Datagrams |-> IF w \in waiting THEN e ELSE got[w]]
  /\ pc' = [w \in Datagrams |-> IF w \in waiting THEN IF e = None THEN "failed" ELSE "return"
                                ELSE pc[w]]

createExchange(d) ==
  /\ pc[d] = "create"
  /\ IF exchanges[key[d]] # None
     THEN Land(d, exchanges[key[d]])
     ELSE Goto(d, "open") /\ UNCHANGED <<flight, got>>
  /\ UNCHANGED <<exchanges, exVars, key, held, loopVars, endVars>>

(* OpenExchange sends the payload with the bootstrap record.  A failed one *)
(* leaves no exchange.                                                     *)
OpenExchange(d) ==
  /\ pc[d] = "open"
  /\ \/ /\ opened' = opened \cup {d} /\ sent' = [sent EXCEPT ![d] = @ + 1]
        /\ Goto(d, "register") /\ UNCHANGED <<flight, got>>
     \/ Land(d, None) /\ UNCHANGED <<opened, sent>>
  /\ UNCHANGED <<exchanges, closed, key, held, loopVars, endVars>>

(* Mutant: the exchanges being opened are not counted.                     *)
EvictRegistered(R) ==
  /\ R \subseteq Registered
  /\ Cardinality(R) <= maxUDPExchanges \/ R = {}
  /\ R # Registered => Cardinality(R) + 1 > maxUDPExchanges

(* evictOldestExchangeLocked, as often as the capacity asks for it, leaves *)
(* the keys R.                                                             *)
Evict(R) ==
  /\ R \subseteq Registered
  /\ Cardinality(R) + inflight <= maxUDPExchanges \/ R = {}
  /\ R # Registered => Cardinality(R) + 1 + inflight > maxUDPExchanges

Register(d) ==
  /\ pc[d] = "register"
  /\ IF poolClosed \/ exchanges[key[d]] # None
     THEN closed' = closed \cup {d} /\ Land(d, None) /\ UNCHANGED <<exchanges, held>>
     ELSE \E R \in SUBSET Registered : Evict(R) /\
        LET out == Registered \ R IN
        /\ exchanges' = [k \in Keys |-> IF k = key[d] THEN d ELSE IF k \in out THEN None ELSE exchanges[k]]
        /\ held' = [held EXCEPT ![d] = {exchanges[k] : k \in out}]
        /\ Goto(d, "evict") /\ UNCHANGED <<flight, got, closed>>
  /\ UNCHANGED <<opened, sent, key, loopVars, endVars>>

CloseEvicted(d) ==
  /\ pc[d] = "evict"
  /\ IF held[d] = {}
     THEN Land(d, d) /\ UNCHANGED <<closed, held>>
     ELSE \E e \in held[d] : /\ closed' = closed \cup {e} /\ held' = [held EXCEPT ![d] = @ \ {e}]
                             /\ UNCHANGED <<flight, pc, got>>
  /\ UNCHANGED <<exchanges, opened, sent, key, loopVars, endVars>>

(* Mutant: who shares the result takes it for its own.                     *)
acquireExchangeFlightShared(d) ==
  /\ pc[d] = "return"
  /\ \/ poolClosed /\ Goto(d, "failed") /\ UNCHANGED loopVars
     \/ /\ ~poolClosed
        /\ rpc' = [rpc EXCEPT ![got[d]] = "run"] /\ starts' = [starts EXCEPT ![got[d]] = @ + 1]
        /\ Goto(d, "ok")
  /\ UNCHANGED <<mapVars, exVars, key, got, held, endVars>>

(* Mutant: who shares the result starts a receive loop as well.            *)
acquireExchangeFlightReads(d) ==
  /\ pc[d] = "return"
  /\ \/ poolClosed /\ Goto(d, "failed") /\ UNCHANGED loopVars
     \/ /\ ~poolClosed /\ Goto(d, IF got[d] = d THEN "ok" ELSE "send")
        /\ rpc' = [rpc EXCEPT ![got[d]] = "run"] /\ starts' = [starts EXCEPT ![got[d]] = @ + 1]
  /\ UNCHANGED <<mapVars, exVars, key, got, held, endVars>>

(* The creator starts the receive loop, the others send.                   *)
acquireExchangeFlight(d) ==
  /\ pc[d] = "return"
  /\ \/ poolClosed /\ Goto(d, "failed") /\ UNCHANGED loopVars
     \/ /\ ~poolClosed /\ got[d] = d
        /\ rpc' = [rpc EXCEPT ![d] = "run"] /\ starts' = [starts EXCEPT ![d] = @ + 1]
        /\ Goto(d, "ok")
     \/ ~poolClosed /\ got[d] # d /\ Goto(d, "send") /\ UNCHANGED loopVars
  /\ UNCHANGED <<mapVars, exVars, key, got, held, endVars>>

Send(d) ==
  /\ pc[d] = "send"
  /\ \/ /\ got[d] \notin closed
        /\ sent' = [sent EXCEPT ![d] = @ + 1] /\ Goto(d, "ok")
     \/ Goto(d, "remove") /\ UNCHANGED sent
  /\ UNCHANGED <<mapVars, opened, closed, key, got, held, loopVars, endVars>>

-----------------------------------------------------------------------------
(* Mutant: the entry of the key goes whichever exchange it is.             *)
DeleteAny(k, e) == exchanges' = [exchanges EXCEPT ![k] = None]

(* removeExchange, under the lock: the entry goes if it is this exchange.  *)
DeleteIf(k, e) == exchanges' = IF exchanges[k] = e THEN [exchanges EXCEPT ![k] = None] ELSE exchanges

removeExchange(d) ==
  \/ /\ pc[d] = "remove" /\ DeleteIf(key[d], got[d]) /\ Goto(d, "close")
     /\ UNCHANGED <<flight, exVars, key, got, held, loopVars, endVars>>
  \/ /\ pc[d] = "close" /\ closed' = closed \cup {got[d]} /\ Goto(d, "failed")
     /\ UNCHANGED <<mapVars, opened, sent, key, got, held, loopVars, endVars>>

(* Mutant: the loop closes its exchange and leaves it in the map.          *)
receiveLoopForgets(e) ==
  \/ /\ rpc[e] = "run" /\ rpc' = [rpc EXCEPT ![e] = "close"]
     /\ UNCHANGED <<mapVars, exVars, dataVars, starts, endVars>>
  \/ /\ rpc[e] = "close" /\ closed' = closed \cup {e} /\ rpc' = [rpc EXCEPT ![e] = "end"]
     /\ UNCHANGED <<mapVars, opened, sent, dataVars, starts, endVars>>

(* receiveLoop of e: Receive fails once e is closed, and may fail before.  *)
receiveLoop(e) ==
  \/ /\ rpc[e] = "run" /\ rpc' = [rpc EXCEPT ![e] = "remove"]
     /\ UNCHANGED <<mapVars, exVars, dataVars, starts, endVars>>
  \/ /\ rpc[e] = "remove" /\ DeleteIf(key[e], e) /\ rpc' = [rpc EXCEPT ![e] = "close"]
     /\ UNCHANGED <<flight, exVars, dataVars, starts, endVars>>
  \/ /\ rpc[e] = "close" /\ closed' = closed \cup {e} /\ rpc' = [rpc EXCEPT ![e] = "end"]
     /\ UNCHANGED <<mapVars, opened, sent, dataVars, starts, endVars>>

(* newUDPResponseTimeout: the answer of a DNS exchange is overdue.         *)
ResponseTimeout(e) ==
  /\ rpc[e] = "run" /\ e \notin closed
  /\ closed' = closed \cup {e}
  /\ UNCHANGED <<mapVars, opened, sent, dataVars, loopVars, endVars>>

(* cleanupLoop: stale exchanges leave the map under the lock and are       *)
(* closed after it, all of them before the next round.                     *)
cleanupLoop ==
  \/ /\ stale = {} /\ ~poolClosed
     /\ \E K \in SUBSET Registered \ {{}} :
          /\ stale' = {exchanges[k] : k \in K}
          /\ exchanges' = [k \in Keys |-> IF k \in K THEN None ELSE exchanges[k]]
     /\ UNCHANGED <<flight, exVars, dataVars, loopVars, poolClosed, cpc, reaped>>
  \/ /\ \E e \in stale : closed' = closed \cup {e} /\ stale' = stale \ {e}
     /\ UNCHANGED <<mapVars, opened, sent, dataVars, loopVars, poolClosed, cpc, reaped>>

(* close.                                                                  *)
StoreClosed ==
  /\ cpc = "idle" /\ poolClosed' = TRUE /\ cpc' = "scan"
  /\ UNCHANGED <<mapVars, exVars, dataVars, loopVars, reaped, stale>>

Scan ==
  /\ cpc = "scan" /\ cpc' = "close"
  /\ reaped' = {exchanges[k] : k \in Registered}
  /\ exchanges' = [k \in Keys |-> None]
  /\ UNCHANGED <<flight, exVars, dataVars, loopVars, poolClosed, stale>>

Reap ==
  /\ cpc = "close"
  /\ IF reaped = {}
     THEN cpc' = "end" /\ UNCHANGED <<closed, reaped>>
     ELSE \E e \in reaped : closed' = closed \cup {e} /\ reaped' = reaped \ {e} /\ UNCHANGED cpc
  /\ UNCHANGED <<mapVars, opened, sent, dataVars, loopVars, poolClosed, stale>>

-----------------------------------------------------------------------------
DatagramStep(d) ==
  \/ acquireExchange(d) \/ Flight(d) \/ createExchange(d) \/ OpenExchange(d) \/ Register(d)
  \/ CloseEvicted(d) \/ acquireExchangeFlight(d) \/ Send(d) \/ removeExchange(d)
CloseStep == StoreClosed \/ Scan \/ Reap

Next ==
  \/ \E d \in Datagrams : DatagramStep(d) \/ receiveLoop(d) \/ ResponseTimeout(d)
  \/ cleanupLoop \/ CloseStep

Spec == Init /\ [][Next]_vars

-----------------------------------------------------------------------------
(* Every exchange that is open is in the map, where cleanup, eviction and  *)
(* close find it, or in the hands of a goroutine that will close it: a     *)
(* late removal never makes the pool blind to a newer exchange of the key. *)
InHand(e) ==
  \/ pc[e] = "register"
  \/ \E d \in Datagrams : e \in held[d] \/ (pc[d] = "close" /\ got[d] = e)
  \/ rpc[e] = "close" \/ e \in reaped \/ e \in stale
NoOrphan == \A e \in opened \ closed : exchanges[key[e]] = e \/ InHand(e)

(* An exchange whose creation has come back has one receive loop, however  *)
(* many datagrams shared its flight; none only if the pool was closed.     *)
OneReader ==
  \A e \in opened : /\ starts[e] <= 1
                    /\ pc[e] = "ok" => starts[e] = 1

(* A datagram whose handling ended well was sent exactly once, and none is *)
(* sent twice: with the bootstrap record by the creator, by Send for who   *)
(* shares the exchange.                                                    *)
SentOnce ==
  \A d \in Datagrams : sent[d] <= 1 /\ (pc[d] = "ok" => sent[d] = 1)

(* The pool never holds more exchanges than it may, although exchanges are *)
(* opened outside its lock.                                                *)
CapKept == Cardinality(Registered) <= maxUDPExchanges

(* Nothing enters the map behind the scan that close makes: an exchange    *)
(* that was being opened at the time is closed by its creator, not left    *)
(* where nobody looks any more.                                            *)
ClosedEmpty == cpc \in {"close", "end"} => Registered = {}

(* Every entry of the map has a receive loop that will take it out when    *)
(* its exchange fails, or a creator that has yet to start one; an exchange *)
(* closed under the pool does not stay in the way of its key.              *)
EntryServed ==
  \A k \in Registered :
    LET e == exchanges[k] IN
    \/ rpc[e] \in {"run", "remove"} \/ pc[e] \in {"evict", "return"} \/ poolClosed
=============================================================================
