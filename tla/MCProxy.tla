------------------------------ MODULE MCProxy ------------------------------
(***************************************************************************)
(* The two maps of a UDP pool of client/proxy: its exchanges and its       *)
(* direct sockets.  They share the pool's lock, and no datagram uses both: *)
(* one of them moves, the other stays as it began.                         *)
(***************************************************************************)
EXTENDS UDPPool, Integers, TLAPS

\* Finitely many datagrams are under way.
ASSUME FiniteAssumption == IsFiniteSet(Datagrams)

(***************************************************************************)
(* The inductive invariants.  An exchange belongs to the datagram that     *)
(* opened it until its creation comes back; what is in the map was opened  *)
(* for its key, is not being removed by its own loop, and its creator has  *)
(* given up only because the pool was closed.                              *)
(***************************************************************************)
OfDatagram(d) ==
  /\ d \in opened => pc[d] \in {"register", "evict", "return", "ok", "failed"} /\ (pc[d] = "return" => got[d] = d)
  /\ pc[d] \in {"register", "evict"} => d \in opened
  /\ pc[d] \in {"return", "send", "remove", "close"} => got[d] \in opened
  /\ sent[d] = (IF d \in opened \/ pc[d] = "ok" THEN 1 ELSE 0)
  /\ starts[d] = (IF d \in opened /\ pc[d] = "ok" THEN 1 ELSE 0)
  /\ rpc[d] = "none" <=> starts[d] = 0
  /\ held[d] \subseteq opened /\ (pc[d] # "evict" => held[d] = {})

OfKey(k) ==
  exchanges[k] # None =>
    /\ exchanges[k] \in opened /\ key[exchanges[k]] = k
    /\ pc[exchanges[k]] \in {"evict", "return", "ok", "failed"}
    /\ pc[exchanges[k]] = "failed" => poolClosed
    /\ rpc[exchanges[k]] \notin {"close", "end"}

PoolInv ==
  /\ TypeOK
  /\ \A d \in Datagrams : OfDatagram(d)
  /\ \A k \in Keys : OfKey(k)
  /\ reaped \subseteq opened /\ stale \subseteq opened
  /\ cpc # "idle" => poolClosed
  /\ cpc # "close" => reaped = {}
  /\ ClosedEmpty /\ NoOrphan

(* Time limits for the leaves below.                                       *)
USE SMTT(30), ZenonT(30)

LEMMA PoolInit == Init => PoolInv
<1> SUFFICES ASSUME Init PROVE PoolInv
  OBVIOUS
<1>1. TypeOK
  BY Zenon DEF Init, TypeOK, Exchange
<1>4. \A d \in Datagrams : OfDatagram(d)
  BY DEF Init, OfDatagram
<1>5. \A k \in Keys : OfKey(k)
  BY DEF Init, OfKey
<1> QED
  BY <1>1, <1>4, <1>5 DEF PoolInv, Init, ClosedEmpty, Registered, NoOrphan

(* The steps of a datagram that touch no exchange: it looks, joins, leads  *)
(* or leaves a flight, or sends.                                           *)
Before == {"new", "flight", "wait", "create", "open"}
Moves(w) ==
  \/ pc'[w] = pc[w] /\ got'[w] = got[w] /\ sent'[w] = sent[w]
  \/ pc[w] \in Before /\ pc'[w] \in Before \cup {"failed"} /\ sent'[w] = sent[w]
  \/ pc[w] \in Before /\ pc'[w] \in {"send", "return"} /\ got'[w] \in opened /\ sent'[w] = sent[w]
  \/ pc[w] = "return" /\ poolClosed /\ pc'[w] = "failed" /\ got'[w] = got[w] /\ sent'[w] = sent[w]
  \/ pc[w] = "return" /\ got[w] # w /\ pc'[w] = "send" /\ got'[w] = got[w] /\ sent'[w] = sent[w]
  \/ pc[w] = "send" /\ pc'[w] = "ok" /\ got'[w] = got[w] /\ sent'[w] = sent[w] + 1
  \/ pc[w] = "send" /\ pc'[w] = "remove" /\ got'[w] = got[w] /\ sent'[w] = sent[w]

LEMMA QuietMove ==
  ASSUME PoolInv, TypeOK', \A w \in Datagrams : Moves(w),
         UNCHANGED <<exchanges, opened, closed, key, held, rpc, starts, poolClosed, cpc, reaped, stale>>
  PROVE  PoolInv'
<1>1. \A w \in Datagrams : pc'[w] = pc[w] \/ w \notin opened \/ (pc[w] = "return" /\ pc'[w] = "failed" /\ poolClosed)
  BY Zenon DEF PoolInv, OfDatagram, Moves, Before
<1>2. ASSUME NEW w \in Datagrams PROVE OfDatagram(w)'
  <2>1. OfDatagram(w) /\ Moves(w)
    BY DEF PoolInv
  <2> QED
    BY <2>1 DEF OfDatagram, Moves, Before
<1>3. ASSUME NEW k \in Keys PROVE OfKey(k)'
  <2>1. OfKey(k) /\ (exchanges[k] # None => exchanges[k] \in Datagrams)
    BY DEF PoolInv, TypeOK, Exchange
  <2> QED
    BY <1>1, <2>1 DEF OfKey
<1>4. NoOrphan'
  <2> SUFFICES ASSUME NEW e \in opened \ closed, exchanges[key[e]] # e PROVE InHand(e)'
    BY DEF NoOrphan
  <2>1. e \in Datagrams /\ InHand(e)
    BY DEF PoolInv, NoOrphan, TypeOK
  <2>2. pc[e] = "register" => pc'[e] = "register"
    BY <2>1 DEF Moves, Before
  <2>3. \A d \in Datagrams : pc[d] = "close" /\ got[d] = e => pc'[d] = "close" /\ got'[d] = e
    BY DEF Moves, Before
  <2> QED
    BY <2>1, <2>2, <2>3 DEF InHand
<1>5. Registered' = Registered
  BY DEF Registered
<1> QED
  BY <1>2, <1>3, <1>4, <1>5 DEF PoolInv, ClosedEmpty

(* The end of a flight.                                                    *)
LEMMA Landed ==
  ASSUME TypeOK, NEW d \in Datagrams, NEW e \in Exchange, Land(d, e)
  PROVE  /\ flight' \in [Keys -> Exchange] /\ got' \in [Datagrams -> Exchange]
         /\ pc' \in [Datagrams -> {"new", "flight", "wait", "create", "open", "register", "evict",
                                   "return", "send", "remove", "close", "ok", "failed"}]
         /\ \A w \in Datagrams :
              \/ w # d /\ pc'[w] = pc[w] /\ got'[w] = got[w]
              \/ /\ pc[w] = "wait" \/ w = d
                 /\ got'[w] = e /\ pc'[w] = (IF e = None THEN "failed" ELSE "return")
         /\ got'[d] = e /\ pc'[d] = (IF e = None THEN "failed" ELSE "return")
<1> DEFINE W == {w \in Datagrams : pc[w] = "wait" /\ key[w] = key[d]} \cup {d}
           r == IF e = None THEN "failed" ELSE "return"
<1>1. /\ flight' = [flight EXCEPT ![key[d]] = None]
      /\ got' = [w \in Datagrams |-> IF w \in W THEN e ELSE got[w]]
      /\ pc' = [w \in Datagrams |-> IF w \in W THEN r ELSE pc[w]]
  BY DEF Land
<1>2. \A w \in Datagrams : w \in W => pc[w] = "wait" \/ w = d
  OBVIOUS
<1>3. d \in W /\ r \in {"failed", "return"}
  OBVIOUS
<1>4. flight' \in [Keys -> Exchange]
  BY <1>1 DEF TypeOK, Exchange
<1> HIDE DEF W, r
<1>5. got' \in [Datagrams -> Exchange]
  BY <1>1 DEF TypeOK
<1>6. pc' \in [Datagrams -> {"new", "flight", "wait", "create", "open", "register", "evict",
                             "return", "send", "remove", "close", "ok", "failed"}]
  BY <1>1, <1>3 DEF TypeOK
<1>7. \A w \in Datagrams : IF w \in W THEN got'[w] = e /\ pc'[w] = r ELSE got'[w] = got[w] /\ pc'[w] = pc[w]
  BY <1>1
<1> QED
  BY <1>2, <1>3, <1>4, <1>5, <1>6, <1>7 DEF r

LEMMA LookStep ==
  ASSUME PoolInv, NEW d \in Datagrams,
         acquireExchange(d) \/ Flight(d) \/ createExchange(d) \/ Send(d)
  PROVE  PoolInv'
<1>0. TypeOK /\ OfDatagram(d) /\ key[d] \in Keys /\ OfKey(key[d])
  BY DEF PoolInv, TypeOK
<1>1. UNCHANGED <<exchanges, opened, closed, key, held, rpc, starts, poolClosed, cpc, reaped, stale>>
  BY DEF acquireExchange, Flight, createExchange, Send, mapVars, exVars, loopVars, endVars
<1>2. CASE acquireExchange(d)
  <2>1. UNCHANGED <<flight, sent>> /\ pc[d] = "new"
    BY <1>2 DEF acquireExchange, mapVars, exVars
  <2>2. TypeOK'
    BY <1>0, <1>1, <1>2, <2>1 DEF acquireExchange, Goto, TypeOK
  <2>3. \A w \in Datagrams : Moves(w)
    BY <1>0, <1>2, <2>1 DEF acquireExchange, Goto, TypeOK, Moves, Before, OfKey
  <2> QED
    BY <1>1, <2>2, <2>3, QuietMove
<1>3. CASE Flight(d)
  <2>1. UNCHANGED <<got, sent>> /\ pc[d] = "flight"
    BY <1>3 DEF Flight, exVars
  <2>2. TypeOK'
    BY <1>0, <1>1, <1>3, <2>1 DEF Flight, Goto, TypeOK, Exchange
  <2>3. \A w \in Datagrams : Moves(w)
    BY Zenon, <1>0, <1>3, <2>1 DEF Flight, Goto, TypeOK, Moves, Before
  <2> QED
    BY <1>1, <2>2, <2>3, QuietMove
<1>4. CASE createExchange(d)
  <2>1. UNCHANGED sent /\ pc[d] = "create"
    BY <1>4 DEF createExchange, exVars
  <2>2. CASE exchanges[key[d]] # None /\ Land(d, exchanges[key[d]])
    <3> DEFINE e == exchanges[key[d]]
    <3>1. e \in Exchange /\ e # None /\ e \in opened
      BY <1>0, <2>2 DEF TypeOK, OfKey
    <3> HIDE DEF e
    <3>2. Land(d, e)
      BY Zenon, <2>2 DEF e
    <3>3. TypeOK'
      BY Zenon, <1>0, <1>1, <2>1, <3>1, <3>2, Landed DEF TypeOK
    <3>4. \A w \in Datagrams : Moves(w)
      BY <1>0, <2>1, <3>1, <3>2, Landed DEF Moves, Before
    <3> QED
      BY <1>1, <3>3, <3>4, QuietMove
  <2>3. CASE Goto(d, "open") /\ UNCHANGED <<flight, got>>
    <3>1. TypeOK'
      BY <1>0, <1>1, <2>1, <2>3 DEF Goto, TypeOK
    <3>2. \A w \in Datagrams : Moves(w)
      BY <1>0, <2>1, <2>3 DEF Goto, TypeOK, Moves, Before
    <3> QED
      BY <1>1, <3>1, <3>2, QuietMove
  <2> QED
    BY <1>4, <2>2, <2>3 DEF createExchange
<1>5. CASE Send(d)
  <2>1. UNCHANGED <<flight, got>> /\ pc[d] = "send"
    BY <1>5 DEF Send, mapVars
  <2>2. TypeOK'
    BY <1>0, <1>1, <1>5, <2>1 DEF Send, Goto, TypeOK
  <2>3. \A w \in Datagrams : Moves(w)
    BY <1>0, <1>5, <2>1 DEF Send, Goto, TypeOK, Moves, Before
  <2> QED
    BY <1>1, <2>2, <2>3, QuietMove
<1> QED
  BY <1>2, <1>3, <1>4, <1>5

LEMMA OpenStep ==
  ASSUME PoolInv, NEW d \in Datagrams, OpenExchange(d)
  PROVE  PoolInv'
<1>0. TypeOK /\ OfDatagram(d) /\ pc[d] = "open" /\ d \notin opened
  BY DEF PoolInv, TypeOK, OpenExchange, OfDatagram
<1>1. UNCHANGED <<exchanges, closed, key, held, rpc, starts, poolClosed, cpc, reaped, stale>>
  BY DEF OpenExchange, loopVars, endVars
<1>2. CASE Land(d, None) /\ UNCHANGED <<opened, sent>>
  <2>1. None \in Exchange
    BY DEF Exchange
  <2>2. TypeOK'
    BY Zenon, <1>0, <1>1, <1>2, <2>1, Landed DEF TypeOK
  <2>3. \A w \in Datagrams : Moves(w)
    BY <1>0, <1>2, <2>1, Landed DEF Moves, Before
  <2> QED
    BY <1>1, <1>2, <2>2, <2>3, QuietMove
<1>3. CASE /\ opened' = opened \cup {d} /\ sent' = [sent EXCEPT ![d] = @ + 1]
           /\ Goto(d, "register") /\ UNCHANGED <<flight, got>>
  <2>1. TypeOK'
    BY <1>0, <1>1, <1>3 DEF Goto, TypeOK
  <2>2. pc'[d] = "register" /\ \A w \in Datagrams : w # d => pc'[w] = pc[w]
    BY <1>0, <1>3 DEF Goto, TypeOK
  <2>3. ASSUME NEW w \in Datagrams PROVE OfDatagram(w)'
    <3>1. OfDatagram(w)
      BY Zenon DEF PoolInv
    <3>2. CASE w # d
      BY Zenon, <1>0, <1>1, <1>3, <2>2, <3>1, <3>2 DEF OfDatagram, TypeOK
    <3>3. CASE w = d
      <4>1. sent'[d] = 1
        BY <1>0, <1>3 DEF OfDatagram, TypeOK
      <4> QED
        BY <1>0, <1>1, <1>3, <2>2, <3>3, <4>1 DEF OfDatagram
    <3> QED
      BY <3>2, <3>3
  <2>4. ASSUME NEW k \in Keys PROVE OfKey(k)'
    <3>1. OfKey(k) /\ (exchanges[k] # None => exchanges[k] \in opened /\ exchanges[k] \in Datagrams)
      BY DEF PoolInv, OfKey, TypeOK
    <3> QED
      BY <1>0, <1>1, <1>3, <2>2, <3>1 DEF OfKey
  <2>5. NoOrphan'
    <3> SUFFICES ASSUME NEW e \in opened' \ closed', exchanges[key[e]] # e PROVE InHand(e)'
      BY <1>1 DEF NoOrphan
    <3>1. CASE e = d
      BY <2>2, <3>1 DEF InHand
    <3>2. CASE e # d
      <4>1. e \in Datagrams /\ InHand(e)
        BY <1>0, <1>1, <1>3, <3>2 DEF PoolInv, NoOrphan, TypeOK
      <4>2. \A w \in Datagrams : pc[w] = "close" => pc'[w] = "close" /\ got'[w] = got[w]
        BY <1>0, <1>3, <2>2
      <4> QED
        BY <1>1, <2>2, <3>2, <4>1, <4>2 DEF InHand
    <3> QED
      BY <3>1, <3>2
  <2>6. Registered' = Registered
    BY <1>1 DEF Registered
  <2> QED
    BY <1>0, <1>1, <1>3, <2>1, <2>3, <2>4, <2>5, <2>6 DEF PoolInv, ClosedEmpty
<1> QED
  BY <1>2, <1>3 DEF OpenExchange

(* An exchange that cannot be registered is closed by its creator.         *)
LEMMA RefusedStep ==
  ASSUME PoolInv, NEW d \in Datagrams, pc[d] = "register", closed' = closed \cup {d}, Land(d, None),
         UNCHANGED <<exchanges, held, opened, sent, key, rpc, starts, poolClosed, cpc, reaped, stale>>
  PROVE  PoolInv'
<1>0. TypeOK /\ OfDatagram(d) /\ None \in Exchange /\ d \in opened
  BY DEF PoolInv, Exchange, OfDatagram
<1>1. /\ \A w \in Datagrams : \/ w # d /\ pc'[w] = pc[w] /\ got'[w] = got[w]
                              \/ (pc[w] = "wait" \/ w = d) /\ pc'[w] = "failed"
      /\ pc'[d] = "failed"
  BY <1>0, Landed
<1>2. TypeOK'
  BY <1>0, Landed DEF TypeOK
<1>3. ASSUME NEW w \in Datagrams PROVE OfDatagram(w)'
  <2>1. OfDatagram(w)
    BY DEF PoolInv
  <2> QED
    BY <1>0, <1>1, <2>1 DEF OfDatagram
<1>4. ASSUME NEW k \in Keys PROVE OfKey(k)'
  <2>1. OfKey(k) /\ (exchanges[k] # None => exchanges[k] \in opened /\ exchanges[k] \in Datagrams)
    BY Zenon DEF PoolInv, OfKey, TypeOK
  <2>2. exchanges[k] # None => pc'[exchanges[k]] = pc[exchanges[k]]
    BY <1>1, <2>1 DEF OfKey
  <2> QED
    BY Zenon, <2>1, <2>2 DEF OfKey
<1>5. NoOrphan'
  <2> SUFFICES ASSUME NEW e \in opened \ closed, e # d, exchanges[key[e]] # e PROVE InHand(e)'
    BY DEF NoOrphan
  <2>1. e \in Datagrams /\ InHand(e)
    BY DEF PoolInv, NoOrphan, TypeOK
  <2>2. pc[e] = "register" => pc'[e] = "register"
    BY <1>1, <2>1
  <2>3. \A w \in Datagrams : pc[w] = "close" => pc'[w] = "close" /\ got'[w] = got[w]
    BY <1>1
  <2> QED
    BY <2>1, <2>2, <2>3 DEF InHand
<1>6. Registered' = Registered
  BY DEF Registered
<1> QED
  BY Zenon, <1>0, <1>2, <1>3, <1>4, <1>5, <1>6 DEF PoolInv, ClosedEmpty

LEMMA RegisterStep ==
  ASSUME PoolInv, NEW d \in Datagrams, Register(d)
  PROVE  PoolInv'
<1>0. TypeOK /\ OfDatagram(d) /\ pc[d] = "register" /\ d \in opened /\ key[d] \in Keys /\ d # None
  BY Zenon, UDPPoolAssumption DEF PoolInv, Register, OfDatagram, TypeOK
<1>1. UNCHANGED <<opened, sent, key, rpc, starts, poolClosed, cpc, reaped, stale>>
  BY Zenon DEF Register, loopVars, endVars
<1>2. CASE poolClosed \/ exchanges[key[d]] # None
  BY Zenon, <1>0, <1>1, <1>2, RefusedStep DEF Register
<1>3. CASE ~(poolClosed \/ exchanges[key[d]] # None)
  <2>1. PICK R \in SUBSET Registered :
          /\ Evict(R)
          /\ exchanges' = [k \in Keys |-> IF k = key[d] THEN d ELSE IF k \in Registered \ R THEN None ELSE exchanges[k]]
          /\ held' = [held EXCEPT ![d] = {exchanges[k] : k \in Registered \ R}]
          /\ Goto(d, "evict") /\ UNCHANGED <<flight, got, closed>>
    BY <1>3 DEF Register
  <2>2. pc'[d] = "evict" /\ \A w \in Datagrams : w # d => pc'[w] = pc[w] /\ held'[w] = held[w]
    BY <1>0, <2>1 DEF Goto, TypeOK
  <2>3. \A k \in Keys : exchanges[k] # None => exchanges[k] \in opened /\ exchanges[k] \in Datagrams /\ key[exchanges[k]] = k
    BY DEF PoolInv, OfKey, TypeOK
  <2> DEFINE O == {exchanges[k] : k \in Registered \ R}
  <2>4. O \subseteq opened /\ held'[d] = O /\ O \subseteq Datagrams
    <3>1. O \subseteq opened /\ O \subseteq Datagrams
      BY Zenon, <2>3 DEF Registered
    <3> QED
      BY Zenon, <1>0, <2>1, <3>1 DEF TypeOK
  <2>5. \A k \in Keys : exchanges[k] # None /\ exchanges[k] \notin O => k \in R
    BY DEF Registered
  <2> HIDE DEF O
  <2>6. exchanges' \in [Keys -> Exchange]
    BY <1>0, <2>1 DEF TypeOK, Exchange
  <2>7. held' \in [Datagrams -> SUBSET Datagrams]
    BY <1>0, <2>1, <2>4 DEF TypeOK, O
  <2>8. TypeOK'
    BY <1>0, <1>1, <2>1, <2>6, <2>7 DEF TypeOK, Goto
  <2>9. ASSUME NEW w \in Datagrams PROVE OfDatagram(w)'
    <3>1. OfDatagram(w)
      BY Zenon DEF PoolInv
    <3>2. CASE w # d
      BY Zenon, <1>1, <2>1, <2>2, <3>1, <3>2 DEF OfDatagram
    <3>3. CASE w = d
      BY <1>0, <1>1, <2>1, <2>2, <2>4, <3>3 DEF OfDatagram
    <3> QED
      BY <3>2, <3>3
  <2>10. ASSUME NEW k \in Keys PROVE OfKey(k)'
    <3>1. CASE k = key[d]
      <4>1. exchanges'[k] = d /\ starts[d] = 0 /\ rpc[d] = "none"
        BY Zenon, <1>0, <2>1, <3>1 DEF OfDatagram
      <4> QED
        BY Zenon, <1>0, <1>1, <2>2, <3>1, <4>1 DEF OfKey
    <3>2. CASE k # key[d]
      <4>1. exchanges'[k] = None \/ exchanges'[k] = exchanges[k]
        BY <2>1, <3>2
      <4>2. OfKey(k)
        BY DEF PoolInv
      <4>3. exchanges[k] # None => exchanges[k] # d
        BY <2>3, <3>2
      <4> QED
        BY <1>1, <2>2, <2>3, <4>1, <4>2, <4>3 DEF OfKey
    <3> QED
      BY <3>1, <3>2
  <2>11. NoOrphan'
    <3> SUFFICES ASSUME NEW e \in opened \ closed PROVE exchanges'[key[e]] = e \/ InHand(e)'
      BY <1>1, <2>1 DEF NoOrphan
    <3>0. e \in Datagrams /\ key[e] \in Keys
      BY <1>0 DEF TypeOK
    <3>1. CASE e = d
      BY <1>0, <2>1, <3>1
    <3>2. CASE e # d /\ exchanges[key[e]] = e
      <4>1. key[e] # key[d] /\ e # None
        BY <1>3, <3>2, <3>0, UDPPoolAssumption
      <4>2. CASE e \in O
        BY <2>4, <4>2 DEF InHand
      <4>3. CASE e \notin O
        <5>1. key[e] \in R
          BY Zenon, <2>5, <3>0, <3>2, <4>1, <4>3
        <5> QED
          BY <2>1, <3>0, <3>2, <4>1, <5>1
      <4> QED
        BY <4>2, <4>3
    <3>3. CASE e # d /\ InHand(e)
      <4>1. e \notin held[d]
        BY <1>0 DEF OfDatagram
      <4> QED
        BY Zenon, <1>0, <1>1, <2>1, <2>2, <3>0, <3>3, <4>1 DEF InHand
    <3> QED
      BY Zenon, <3>1, <3>2, <3>3 DEF PoolInv, NoOrphan
  <2>14. ClosedEmpty'
    BY <1>1, <1>3 DEF PoolInv, ClosedEmpty
  <2> QED
    BY Zenon, <1>0, <1>1, <2>8, <2>9, <2>10, <2>11, <2>14 DEF PoolInv
<1> QED
  BY Zenon, <1>2, <1>3

LEMMA EvictedStep ==
  ASSUME PoolInv, NEW d \in Datagrams, CloseEvicted(d)
  PROVE  PoolInv'
<1>0. TypeOK /\ OfDatagram(d) /\ pc[d] = "evict" /\ d \in opened /\ d # None /\ d \in Exchange
  BY UDPPoolAssumption DEF PoolInv, CloseEvicted, OfDatagram, Exchange
<1>1. UNCHANGED <<exchanges, opened, sent, key, rpc, starts, poolClosed, cpc, reaped, stale>>
  BY Zenon DEF CloseEvicted, loopVars, endVars
<1>2. CASE held[d] = {} /\ Land(d, d) /\ UNCHANGED <<closed, held>>
  <2>1. /\ \A w \in Datagrams : \/ w # d /\ pc'[w] = pc[w] /\ got'[w] = got[w]
                                \/ (pc[w] = "wait" \/ w = d) /\ pc'[w] = "return" /\ got'[w] = d
        /\ pc'[d] = "return"
    BY Zenon, <1>0, <1>2, Landed
  <2>2. TypeOK'
    BY Zenon, <1>0, <1>1, <1>2, Landed DEF TypeOK
  <2>3. ASSUME NEW w \in Datagrams PROVE OfDatagram(w)'
    <3>1. OfDatagram(w)
      BY DEF PoolInv
    <3> QED
      BY Zenon, <1>0, <1>1, <1>2, <2>1, <3>1 DEF OfDatagram
  <2>4. ASSUME NEW k \in Keys PROVE OfKey(k)'
    <3>1. OfKey(k) /\ (exchanges[k] # None => exchanges[k] \in opened /\ exchanges[k] \in Datagrams)
      BY DEF PoolInv, OfKey, TypeOK
    <3>2. exchanges[k] # None => pc'[exchanges[k]] \in {pc[exchanges[k]], "return"}
      BY Zenon, <2>1, <3>1 DEF OfKey
    <3> QED
      BY <1>1, <3>1, <3>2 DEF OfKey
  <2>5. NoOrphan'
    <3> SUFFICES ASSUME NEW e \in opened \ closed, exchanges[key[e]] # e PROVE InHand(e)'
      BY <1>1, <1>2 DEF NoOrphan
    <3>1. e \in Datagrams /\ InHand(e)
      BY DEF PoolInv, NoOrphan, TypeOK
    <3>2. pc[e] = "register" => pc'[e] = "register"
      BY <1>0, <2>1, <3>1
    <3>3. \A w \in Datagrams : pc[w] = "close" => pc'[w] = "close" /\ got'[w] = got[w]
      BY <1>0, <2>1
    <3> QED
      BY <1>1, <1>2, <3>1, <3>2, <3>3 DEF InHand
  <2>6. Registered' = Registered
    BY <1>1 DEF Registered
  <2> QED
    BY Zenon, <1>0, <1>1, <1>2, <2>2, <2>3, <2>4, <2>5, <2>6 DEF PoolInv, ClosedEmpty
<1>3. CASE \E e \in held[d] : /\ closed' = closed \cup {e} /\ held' = [held EXCEPT ![d] = @ \ {e}]
                              /\ UNCHANGED <<flight, pc, got>>
  <2>1. PICK e \in held[d] : /\ closed' = closed \cup {e} /\ held' = [held EXCEPT ![d] = @ \ {e}]
                             /\ UNCHANGED <<flight, pc, got>>
    BY Zenon, <1>3
  <2>2. e \in opened /\ e \in Datagrams
    BY <1>0 DEF OfDatagram, TypeOK
  <2>3. held'[d] = held[d] \ {e} /\ \A w \in Datagrams : w # d => held'[w] = held[w]
    BY <1>0, <2>1 DEF TypeOK
  <2>4. held' \in [Datagrams -> SUBSET Datagrams]
    BY Zenon, <1>0, <2>1 DEF TypeOK
  <2>5. TypeOK'
    BY Zenon, <1>0, <1>1, <2>1, <2>2, <2>4 DEF TypeOK
  <2>6. ASSUME NEW w \in Datagrams PROVE OfDatagram(w)'
    <3>1. OfDatagram(w)
      BY Zenon DEF PoolInv
    <3> QED
      BY Zenon, <1>0, <1>1, <2>1, <2>3, <3>1 DEF OfDatagram
  <2>7. ASSUME NEW k \in Keys PROVE OfKey(k)'
    <3>1. OfKey(k)
      BY Zenon DEF PoolInv
    <3> QED
      BY Zenon, <1>1, <2>1, <3>1 DEF OfKey
  <2>8. NoOrphan'
    <3> SUFFICES ASSUME NEW x \in opened \ closed, x # e, exchanges[key[x]] # x PROVE InHand(x)'
      BY <1>1, <2>1 DEF NoOrphan
    <3>1. InHand(x)
      BY DEF PoolInv, NoOrphan
    <3>2. \A w \in Datagrams : x \in held[w] => x \in held'[w]
      BY <2>3
    <3> QED
      BY Zenon, <1>1, <2>1, <3>1, <3>2 DEF InHand
  <2>9. Registered' = Registered
    BY <1>1 DEF Registered
  <2> QED
    BY <1>0, <1>1, <2>1, <2>5, <2>6, <2>7, <2>8, <2>9 DEF PoolInv, ClosedEmpty
<1> QED
  BY Zenon, <1>2, <1>3 DEF CloseEvicted

LEMMA ReturnStep ==
  ASSUME PoolInv, NEW d \in Datagrams, acquireExchangeFlight(d)
  PROVE  PoolInv'
<1>0. TypeOK /\ OfDatagram(d) /\ pc[d] = "return"
  BY Zenon DEF PoolInv, acquireExchangeFlight
<1>1. UNCHANGED <<exchanges, flight, opened, closed, sent, key, got, held, poolClosed, cpc, reaped, stale>>
  BY DEF acquireExchangeFlight, mapVars, exVars, endVars
<1>2. CASE poolClosed /\ Goto(d, "failed") /\ UNCHANGED loopVars
  <2>1. TypeOK' /\ UNCHANGED <<rpc, starts>>
    BY Zenon, <1>0, <1>1, <1>2 DEF Goto, TypeOK, loopVars
  <2>2. \A w \in Datagrams : Moves(w)
    BY Zenon, <1>0, <1>1, <1>2 DEF Goto, TypeOK, Moves, Before
  <2> QED
    BY <1>1, <2>1, <2>2, QuietMove
<1>3. CASE ~poolClosed /\ got[d] # d /\ Goto(d, "send") /\ UNCHANGED loopVars
  <2>1. TypeOK' /\ UNCHANGED <<rpc, starts>>
    BY Zenon, <1>0, <1>1, <1>3 DEF Goto, TypeOK, loopVars
  <2>2. \A w \in Datagrams : Moves(w)
    BY <1>0, <1>1, <1>3 DEF Goto, TypeOK, Moves, Before
  <2> QED
    BY <1>1, <2>1, <2>2, QuietMove
<1>4. CASE /\ ~poolClosed /\ got[d] = d
           /\ rpc' = [rpc EXCEPT ![d] = "run"] /\ starts' = [starts EXCEPT ![d] = @ + 1]
           /\ Goto(d, "ok")
  <2>1. d \in opened /\ starts[d] = 0
    BY Zenon, <1>0, <1>4 DEF OfDatagram
  <2>2. TypeOK'
    BY <1>0, <1>1, <1>4 DEF Goto, TypeOK
  <2>3. /\ pc'[d] = "ok" /\ rpc'[d] = "run" /\ starts'[d] = 1
        /\ \A w \in Datagrams : w # d => pc'[w] = pc[w] /\ rpc'[w] = rpc[w] /\ starts'[w] = starts[w]
    BY <1>0, <1>4, <2>1 DEF Goto, TypeOK
  <2>4. ASSUME NEW w \in Datagrams PROVE OfDatagram(w)'
    <3>1. OfDatagram(w)
      BY DEF PoolInv
    <3>2. CASE w # d
      BY Zenon, <1>1, <2>3, <3>1, <3>2 DEF OfDatagram
    <3>3. CASE w = d
      BY <1>0, <1>1, <2>1, <2>3, <3>3 DEF OfDatagram
    <3> QED
      BY <3>2, <3>3
  <2>5. ASSUME NEW k \in Keys PROVE OfKey(k)'
    <3>1. OfKey(k) /\ (exchanges[k] # None => exchanges[k] \in Datagrams)
      BY Zenon DEF PoolInv, OfKey, TypeOK
    <3> QED
      BY <1>1, <2>3, <3>1 DEF OfKey
  <2>6. NoOrphan'
    <3> SUFFICES ASSUME NEW e \in opened \ closed, exchanges[key[e]] # e PROVE InHand(e)'
      BY Zenon, <1>1 DEF NoOrphan
    <3>1. e \in Datagrams /\ InHand(e)
      BY DEF PoolInv, NoOrphan, TypeOK
    <3>2. rpc[d] = "none"
      BY <1>0, <2>1 DEF OfDatagram
    <3> QED
      BY <1>0, <1>1, <2>3, <3>1, <3>2 DEF InHand
  <2>7. Registered' = Registered
    BY Zenon, <1>1 DEF Registered
  <2> QED
    BY Zenon, <1>0, <1>1, <2>2, <2>4, <2>5, <2>6, <2>7 DEF PoolInv, ClosedEmpty
<1> QED
  BY Zenon, <1>2, <1>3, <1>4 DEF acquireExchangeFlight

(* An entry that leaves the map with its exchange in somebody's hands.     *)
LEMMA TakenOut ==
  ASSUME PoolInv, TypeOK', \A w \in Datagrams : OfDatagram(w)',
         UNCHANGED <<opened, closed, key, starts, poolClosed>>,
         \A k \in Keys : exchanges'[k] \in {exchanges[k], None},
         \A w \in Datagrams : pc'[w] = pc[w] \/ w \notin opened,
         \A w \in Datagrams : rpc'[w] = rpc[w] \/ exchanges'[key[w]] # w,
         \A e \in opened \ closed : exchanges'[key[e]] = e \/ exchanges[key[e]] # e \/ InHand(e)',
         \A e \in opened \ closed : InHand(e) => InHand(e)',
         UNCHANGED <<cpc, reaped>>, stale' \subseteq opened
  PROVE  PoolInv'
<1>1. \A k \in Keys : OfKey(k) /\ (exchanges[k] # None => exchanges[k] \in Datagrams)
  BY Zenon DEF PoolInv, OfKey, TypeOK
<1>2. ASSUME NEW k \in Keys PROVE OfKey(k)'
  <2> SUFFICES ASSUME exchanges'[k] # None, exchanges'[k] = exchanges[k] PROVE OfKey(k)'
    BY Zenon DEF OfKey
  <2> DEFINE e == exchanges[k]
  <2>1. e \in Datagrams /\ e \in opened /\ key[e] = k
    BY Zenon, <1>1 DEF OfKey
  <2>2. rpc'[e] = rpc[e] /\ pc'[e] = pc[e]
    BY <2>1
  <2> QED
    BY Zenon, <1>1, <2>1, <2>2 DEF OfKey
<1>3. NoOrphan'
  BY Zenon DEF PoolInv, NoOrphan
<1>4. Registered' \subseteq Registered
  BY Zenon DEF Registered
<1>6. ClosedEmpty'
  BY Zenon, <1>4 DEF PoolInv, ClosedEmpty
<1> QED
  BY Zenon, <1>2, <1>3, <1>6 DEF PoolInv

LEMMA RemoveStep ==
  ASSUME PoolInv, NEW d \in Datagrams, pc[d] = "remove", DeleteIf(key[d], got[d]), Goto(d, "close"),
         UNCHANGED <<flight, exVars, key, got, held, loopVars, endVars>>
  PROVE  PoolInv'
<1>0. TypeOK /\ OfDatagram(d) /\ d \notin opened /\ key[d] \in Keys
  BY Zenon DEF PoolInv, OfDatagram, TypeOK
<1>1. UNCHANGED <<opened, closed, sent, rpc, starts, poolClosed, cpc, reaped, stale>>
  BY DEF exVars, loopVars, endVars
<1>2. pc'[d] = "close" /\ \A w \in Datagrams : w # d => pc'[w] = pc[w]
  BY <1>0 DEF Goto, TypeOK
<1>3. \A k \in Keys : exchanges'[k] = (IF k = key[d] /\ exchanges[k] = got[d] THEN None ELSE exchanges[k])
  BY <1>0 DEF DeleteIf, TypeOK
<1>4. exchanges' \in [Keys -> Exchange]
  BY Zenon, <1>0 DEF DeleteIf, TypeOK, Exchange
<1>5. TypeOK'
  BY Zenon, <1>0, <1>1, <1>4 DEF Goto, TypeOK
<1>6. ASSUME NEW w \in Datagrams PROVE OfDatagram(w)'
  <2>1. OfDatagram(w)
    BY Zenon DEF PoolInv
  <2> QED
    BY <1>0, <1>1, <1>2, <2>1 DEF OfDatagram
<1>7. ASSUME NEW e \in opened \ closed PROVE exchanges'[key[e]] = e \/ exchanges[key[e]] # e \/ InHand(e)'
  <2>1. e \in Datagrams /\ key[e] \in Keys
    BY <1>0 DEF TypeOK
  <2>2. exchanges'[key[e]] = exchanges[key[e]] \/ exchanges[key[e]] = got[d]
    BY Zenon, <1>3, <2>1
  <2> QED
    BY <1>2, <2>1, <2>2 DEF InHand
<1>8. ASSUME NEW e \in opened \ closed, InHand(e) PROVE InHand(e)'
  <2>1. e \in Datagrams /\ e # d
    BY <1>0 DEF TypeOK
  <2> QED
    BY Zenon, <1>1, <1>2, <1>8, <2>1 DEF InHand
<1> QED
  BY Zenon, <1>0, <1>1, <1>2, <1>3, <1>5, <1>6, <1>7, <1>8, TakenOut DEF PoolInv

LEMMA LoopStep ==
  ASSUME PoolInv, NEW e \in Datagrams,
         \/ /\ rpc[e] = "run" /\ rpc' = [rpc EXCEPT ![e] = "remove"]
            /\ UNCHANGED <<mapVars, exVars, dataVars, starts, endVars>>
         \/ /\ rpc[e] = "remove" /\ DeleteIf(key[e], e) /\ rpc' = [rpc EXCEPT ![e] = "close"]
            /\ UNCHANGED <<flight, exVars, dataVars, starts, endVars>>
  PROVE  PoolInv'
<1>0. TypeOK /\ key[e] \in Keys /\ e # None
  BY Zenon, UDPPoolAssumption DEF PoolInv, TypeOK
<1>1. UNCHANGED <<flight, opened, closed, sent, key, pc, got, held, starts, poolClosed, cpc, reaped, stale>>
  BY Zenon DEF mapVars, exVars, dataVars, endVars
<1>2. /\ rpc'[e] = "remove" \/ (rpc'[e] = "close" /\ exchanges'[key[e]] # e)
      /\ rpc[e] \in {"run", "remove"} /\ \A w \in Datagrams : w # e => rpc'[w] = rpc[w]
  BY Zenon, <1>0 DEF DeleteIf, TypeOK
<1>3. exchanges' \in [Keys -> Exchange] /\ \A k \in Keys : exchanges'[k] = exchanges[k] \/ (exchanges'[k] = None /\ rpc'[e] = "close" /\ exchanges[k] = e)
  BY <1>0 DEF DeleteIf, TypeOK, Exchange, mapVars
<1>4. TypeOK'
  BY <1>0, <1>1, <1>3 DEF TypeOK
<1>5. ASSUME NEW w \in Datagrams PROVE OfDatagram(w)'
  <2>1. OfDatagram(w)
    BY DEF PoolInv
  <2>2. rpc'[w] = "none" <=> rpc[w] = "none"
    BY Zenon, <1>2
  <2> QED
    BY <1>1, <2>1, <2>2 DEF OfDatagram
<1> QED
  <2>1. \A w \in Datagrams : rpc'[w] = rpc[w] \/ exchanges'[key[w]] # w \/ rpc'[e] = "remove"
    BY Zenon, <1>2
  <2>2. CASE rpc'[e] = "close"
    <3>1. \A w \in opened \ closed : InHand(w) => InHand(w)'
      <4> SUFFICES ASSUME NEW w \in opened \ closed, InHand(w) PROVE InHand(w)'
        OBVIOUS
      <4>1. w \in Datagrams
        BY <1>0 DEF TypeOK
      <4> QED
        BY Zenon, <1>1, <1>2, <2>2, <4>1 DEF InHand
    <3>2. \A w \in opened \ closed : exchanges'[key[w]] = w \/ exchanges[key[w]] # w \/ InHand(w)'
      <4> SUFFICES ASSUME NEW w \in opened \ closed PROVE exchanges'[key[w]] = w \/ exchanges[key[w]] # w \/ InHand(w)'
        OBVIOUS
      <4>1. w \in Datagrams /\ key[w] \in Keys
        BY <1>0 DEF TypeOK
      <4>2. exchanges'[key[w]] = exchanges[key[w]] \/ exchanges[key[w]] = e
        BY <1>3, <4>1
      <4> QED
        BY Zenon, <2>2, <4>2 DEF InHand
    <3>3. \A k \in Keys : exchanges'[k] \in {exchanges[k], None}
      BY Zenon, <1>3
    <3>4. \A w \in Datagrams : rpc'[w] = rpc[w] \/ exchanges'[key[w]] # w
      BY <1>2, <2>2
    <3> QED
      BY Zenon, <1>1, <1>4, <1>5, <3>1, <3>2, <3>3, <3>4, TakenOut DEF PoolInv
  <2>3. CASE rpc'[e] = "remove"
    <3>1. \A k \in Keys : exchanges'[k] = exchanges[k]
      BY Zenon, <1>3, <2>3
    <3>2. ASSUME NEW k \in Keys PROVE OfKey(k)'
      <4>1. OfKey(k) /\ (exchanges[k] # None => exchanges[k] \in Datagrams)
        BY Zenon DEF PoolInv, OfKey, TypeOK
      <4> QED
        BY Zenon, <1>1, <1>2, <2>3, <3>1, <4>1 DEF OfKey
    <3>3. NoOrphan'
      <4> SUFFICES ASSUME NEW w \in opened \ closed, exchanges[key[w]] # w PROVE InHand(w)'
        BY Zenon, <1>0, <1>1, <3>1 DEF NoOrphan, TypeOK
      <4>1. w \in Datagrams /\ InHand(w)
        BY <1>0 DEF PoolInv, NoOrphan, TypeOK
      <4> QED
        BY Zenon, <1>1, <1>2, <4>1 DEF InHand
    <3>4. Registered' = Registered
      BY Zenon, <3>1 DEF Registered
    <3> QED
      BY Zenon, <1>1, <1>4, <1>5, <3>2, <3>3, <3>4 DEF PoolInv, ClosedEmpty
  <2> QED
    BY <1>2, <2>2, <2>3

(* Somebody closes an exchange that it has in hand.                        *)
LEMMA CloseOne ==
  ASSUME PoolInv, TypeOK', NEW e \in opened, closed' = closed \cup {e},
         \A w \in Datagrams : OfDatagram(w)', \A k \in Keys : OfKey(k)',
         UNCHANGED <<exchanges, opened, key, held, poolClosed>>,
         \A w \in Datagrams : pc[w] = "register" => pc'[w] = "register",
         \A w \in Datagrams : pc[w] = "close" => (pc'[w] = "close" /\ got'[w] = got[w]) \/ got[w] = e,
         \A w \in Datagrams : rpc[w] = "close" => rpc'[w] = "close" \/ w = e,
         reaped \ {e} \subseteq reaped', stale \ {e} \subseteq stale',
         reaped' \subseteq reaped, stale' \subseteq stale,
         UNCHANGED cpc
  PROVE  PoolInv'
<1>1. NoOrphan'
  <2> SUFFICES ASSUME NEW x \in opened \ closed, x # e, exchanges[key[x]] # x PROVE InHand(x)'
    BY Zenon DEF NoOrphan
  <2>1. x \in Datagrams /\ InHand(x)
    BY DEF PoolInv, NoOrphan, TypeOK
  <2> QED
    BY <2>1 DEF InHand
<1>2. Registered' = Registered
  BY Zenon DEF Registered
<1> QED
  BY Zenon, <1>1, <1>2 DEF PoolInv, ClosedEmpty

LEMMA ClosingStep ==
  ASSUME PoolInv, NEW d \in Datagrams,
         \/ /\ pc[d] = "close" /\ closed' = closed \cup {got[d]} /\ Goto(d, "failed")
            /\ UNCHANGED <<mapVars, opened, sent, key, got, held, loopVars, endVars>>
         \/ /\ rpc[d] = "close" /\ closed' = closed \cup {d} /\ rpc' = [rpc EXCEPT ![d] = "end"]
            /\ UNCHANGED <<mapVars, opened, sent, dataVars, starts, endVars>>
         \/ ResponseTimeout(d)
  PROVE  PoolInv'
<1>0. TypeOK /\ OfDatagram(d)
  BY Zenon DEF PoolInv
<1>1. UNCHANGED <<exchanges, flight, opened, sent, key, got, held, starts, poolClosed, cpc, reaped, stale>>
  BY Zenon DEF ResponseTimeout, mapVars, dataVars, loopVars, endVars
<1>2. CASE pc[d] = "close" /\ closed' = closed \cup {got[d]} /\ Goto(d, "failed") /\ UNCHANGED rpc
  <2>1. got[d] \in opened /\ d \notin opened
    BY Zenon, <1>0, <1>2 DEF OfDatagram
  <2>2. pc'[d] = "failed" /\ \A w \in Datagrams : w # d => pc'[w] = pc[w]
    BY Zenon, <1>0, <1>2 DEF Goto, TypeOK
  <2>3. TypeOK'
    BY Zenon, <1>0, <1>1, <1>2, <2>1 DEF Goto, TypeOK
  <2>4. ASSUME NEW w \in Datagrams PROVE OfDatagram(w)'
    <3>1. OfDatagram(w)
      BY DEF PoolInv
    <3> QED
      BY Zenon, <1>1, <1>2, <2>1, <2>2, <3>1 DEF OfDatagram
  <2>5. ASSUME NEW k \in Keys PROVE OfKey(k)'
    <3>1. OfKey(k) /\ (exchanges[k] # None => exchanges[k] \in Datagrams)
      BY Zenon DEF PoolInv, OfKey, TypeOK
    <3> QED
      BY Zenon, <1>1, <1>2, <2>1, <2>2, <3>1 DEF OfKey
  <2> QED
    BY Zenon, <1>1, <1>2, <2>1, <2>2, <2>3, <2>4, <2>5, CloseOne
<1>3. CASE /\ rpc[d] \in {"close", "run"} /\ closed' = closed \cup {d} /\ UNCHANGED pc
           /\ rpc' = (IF rpc[d] = "close" THEN [rpc EXCEPT ![d] = "end"] ELSE rpc)
  <2>1. d \in opened
    BY Zenon, <1>0, <1>3 DEF OfDatagram
  <2>2. rpc'[d] \in {"end", "run"} /\ (rpc'[d] = "end" => rpc[d] = "close") /\ \A w \in Datagrams : w # d => rpc'[w] = rpc[w]
    BY Zenon, <1>0, <1>3 DEF TypeOK
  <2>3. TypeOK'
    BY Zenon, <1>0, <1>1, <1>3, <2>1 DEF TypeOK
  <2>4. ASSUME NEW w \in Datagrams PROVE OfDatagram(w)'
    <3>1. OfDatagram(w)
      BY DEF PoolInv
    <3> QED
      BY Zenon, <1>1, <1>3, <2>2, <3>1 DEF OfDatagram
  <2>5. ASSUME NEW k \in Keys PROVE OfKey(k)'
    <3>1. OfKey(k) /\ (exchanges[k] # None => exchanges[k] \in Datagrams)
      BY DEF PoolInv, OfKey, TypeOK
    <3> QED
      BY <1>1, <1>3, <2>2, <3>1 DEF OfKey
  <2> QED
    BY Zenon, <1>1, <1>3, <2>1, <2>2, <2>3, <2>4, <2>5, CloseOne
<1> QED
  BY Zenon, <1>2, <1>3 DEF ResponseTimeout, mapVars, dataVars, loopVars

LEMMA SweepStep ==
  ASSUME PoolInv, cleanupLoop
  PROVE  PoolInv'
<1>0. TypeOK
  BY DEF PoolInv
<1>1. UNCHANGED <<flight, opened, sent, key, pc, got, held, rpc, starts, poolClosed, cpc, reaped>>
  BY Zenon DEF cleanupLoop, mapVars, exVars, dataVars, loopVars
<1>2. \A w \in Datagrams : OfDatagram(w)'
  <2> SUFFICES ASSUME NEW w \in Datagrams PROVE OfDatagram(w)'
    OBVIOUS
  <2>1. OfDatagram(w)
    BY Zenon DEF PoolInv
  <2> QED
    BY <1>1, <2>1 DEF OfDatagram
<1>3. CASE \E e \in stale : closed' = closed \cup {e} /\ stale' = stale \ {e} /\ UNCHANGED exchanges
  <2>1. PICK e \in stale : closed' = closed \cup {e} /\ stale' = stale \ {e} /\ UNCHANGED exchanges
    BY <1>3
  <2>2. e \in opened
    BY Zenon DEF PoolInv
  <2>3. TypeOK'
    BY Zenon, <1>0, <1>1, <2>1, <2>2 DEF TypeOK
  <2>4. ASSUME NEW k \in Keys PROVE OfKey(k)'
    <3>1. OfKey(k)
      BY DEF PoolInv
    <3> QED
      BY <1>1, <2>1, <3>1 DEF OfKey
  <2> QED
    BY <1>1, <1>2, <2>1, <2>2, <2>3, <2>4, CloseOne
<1>4. CASE /\ stale = {} /\ UNCHANGED closed
           /\ \E K \in SUBSET Registered \ {{}} :
                /\ stale' = {exchanges[k] : k \in K}
                /\ exchanges' = [k \in Keys |-> IF k \in K THEN None ELSE exchanges[k]]
  <2>1. PICK K \in SUBSET Registered : /\ stale' = {exchanges[k] : k \in K}
                                       /\ exchanges' = [k \in Keys |-> IF k \in K THEN None ELSE exchanges[k]]
    BY Zenon, <1>4
  <2>2. \A k \in K : k \in Keys /\ exchanges[k] \in opened /\ exchanges[k] \in Datagrams
    BY Zenon, <1>0 DEF PoolInv, OfKey, Registered, TypeOK
  <2>3. stale' \subseteq opened /\ stale' \subseteq Datagrams
    BY Zenon, <2>1, <2>2
  <2>4. exchanges' \in [Keys -> Exchange] /\ \A k \in Keys : exchanges'[k] = (IF k \in K THEN None ELSE exchanges[k])
    BY Zenon, <1>0, <2>1 DEF TypeOK, Exchange
  <2>5. TypeOK'
    BY Zenon, <1>0, <1>1, <1>4, <2>3, <2>4 DEF TypeOK
  <2>6. \A e \in opened \ closed : exchanges'[key[e]] = e \/ exchanges[key[e]] # e \/ InHand(e)'
    <3> SUFFICES ASSUME NEW e \in opened \ closed PROVE exchanges'[key[e]] = e \/ exchanges[key[e]] # e \/ e \in stale'
      BY DEF InHand
    <3>1. key[e] \in Keys
      BY Zenon, <1>0 DEF TypeOK
    <3> QED
      BY Zenon, <2>1, <2>4, <3>1
  <2>7. \A e \in opened \ closed : InHand(e) => InHand(e)'
    BY <1>1, <1>4 DEF InHand
  <2>8. \A k \in Keys : exchanges'[k] \in {exchanges[k], None}
    BY <2>4
  <2> QED
    BY Zenon, <1>1, <1>2, <1>4, <2>3, <2>5, <2>6, <2>7, <2>8, TakenOut DEF PoolInv
<1> QED
  BY <1>3, <1>4 DEF cleanupLoop, mapVars, exVars

LEMMA PoolCloseStep ==
  ASSUME PoolInv, CloseStep
  PROVE  PoolInv'
<1>0. TypeOK
  BY DEF PoolInv
<1>1. UNCHANGED <<flight, opened, sent, key, pc, got, held, rpc, starts, stale>>
  BY Zenon DEF CloseStep, StoreClosed, Scan, Reap, mapVars, exVars, dataVars, loopVars
<1>2. \A w \in Datagrams : OfDatagram(w)'
  <2> SUFFICES ASSUME NEW w \in Datagrams PROVE OfDatagram(w)'
    OBVIOUS
  <2>1. OfDatagram(w)
    BY DEF PoolInv
  <2> QED
    BY Zenon, <1>1, <2>1 DEF OfDatagram
<1>3. CASE StoreClosed
  <2>1. UNCHANGED <<exchanges, closed, reaped>> /\ poolClosed' = TRUE /\ cpc = "idle" /\ cpc' = "scan"
    BY Zenon, <1>3 DEF StoreClosed, mapVars, exVars
  <2>2. TypeOK'
    BY Zenon, <1>0, <1>1, <2>1 DEF TypeOK
  <2>3. ASSUME NEW k \in Keys PROVE OfKey(k)'
    <3>1. OfKey(k)
      BY Zenon DEF PoolInv
    <3> QED
      BY <1>1, <2>1, <3>1 DEF OfKey
  <2>4. NoOrphan'
    BY <1>1, <2>1 DEF PoolInv, NoOrphan, InHand
  <2>5. Registered' = Registered
    BY Zenon, <2>1 DEF Registered
  <2> QED
    BY Zenon, <1>1, <1>2, <2>1, <2>2, <2>3, <2>4, <2>5 DEF PoolInv, ClosedEmpty
<1>4. CASE Scan
  <2>1. /\ UNCHANGED <<closed, poolClosed>> /\ cpc = "scan" /\ cpc' = "close" /\ poolClosed
        /\ reaped' = {exchanges[k] : k \in Registered} /\ exchanges' = [k \in Keys |-> None]
    BY Zenon, <1>4 DEF Scan, exVars, PoolInv
  <2>2. \A k \in Registered : k \in Keys /\ exchanges[k] \in opened /\ exchanges[k] \in Datagrams
    BY <1>0 DEF PoolInv, OfKey, Registered, TypeOK
  <2>3. reaped' \subseteq opened /\ reaped' \subseteq Datagrams
    BY Zenon, <2>1, <2>2
  <2>4. TypeOK'
    BY Zenon, <1>0, <1>1, <2>1, <2>3 DEF TypeOK, Exchange
  <2>5. Registered' = {}
    BY <2>1 DEF Registered
  <2>6. \A k \in Keys : OfKey(k)'
    BY Zenon, <2>1 DEF OfKey
  <2>7. NoOrphan'
    <3> SUFFICES ASSUME NEW e \in opened \ closed PROVE InHand(e)'
      BY <1>1, <2>1 DEF NoOrphan
    <3>1. e \in Datagrams /\ key[e] \in Keys /\ e # None
      BY Zenon, <1>0, UDPPoolAssumption DEF TypeOK
    <3>2. CASE exchanges[key[e]] = e
      BY Zenon, <2>1, <3>1, <3>2 DEF InHand, Registered
    <3>3. CASE InHand(e) /\ e \notin reaped
      BY <1>1, <3>3 DEF InHand
    <3>4. e \notin reaped
      BY <2>1 DEF PoolInv
    <3> QED
      BY Zenon, <3>2, <3>3, <3>4 DEF PoolInv, NoOrphan
  <2> QED
    BY Zenon, <1>1, <1>2, <2>1, <2>3, <2>4, <2>5, <2>6, <2>7 DEF PoolInv, ClosedEmpty
<1>5. CASE Reap
  <2>1. UNCHANGED <<exchanges, poolClosed>> /\ cpc = "close"
    BY Zenon, <1>5 DEF Reap, mapVars
  <2>2. ASSUME NEW k \in Keys PROVE OfKey(k)'
    <3>1. OfKey(k)
      BY DEF PoolInv
    <3> QED
      BY <1>1, <2>1, <3>1 DEF OfKey
  <2>3. CASE reaped = {} /\ cpc' = "end" /\ UNCHANGED <<closed, reaped>>
    <3>1. TypeOK'
      BY <1>0, <1>1, <2>1, <2>3 DEF TypeOK
    <3>2. NoOrphan'
      BY Zenon, <1>1, <2>1, <2>3 DEF PoolInv, NoOrphan, InHand
    <3>3. Registered' = Registered
      BY <2>1 DEF Registered
    <3> QED
      BY Zenon, <1>1, <1>2, <2>1, <2>2, <2>3, <3>1, <3>2, <3>3 DEF PoolInv, ClosedEmpty
  <2>4. CASE \E e \in reaped : closed' = closed \cup {e} /\ reaped' = reaped \ {e} /\ UNCHANGED cpc
    <3>1. PICK e \in reaped : closed' = closed \cup {e} /\ reaped' = reaped \ {e} /\ UNCHANGED cpc
      BY <2>4
    <3>2. e \in opened
      BY Zenon DEF PoolInv
    <3>3. TypeOK'
      BY <1>0, <1>1, <2>1, <3>1, <3>2 DEF TypeOK
    <3> QED
      BY Zenon, <1>1, <1>2, <2>1, <2>2, <3>1, <3>2, <3>3, CloseOne
  <2> QED
    BY <1>5, <2>3, <2>4 DEF Reap
<1> QED
  BY Zenon, <1>3, <1>4, <1>5 DEF CloseStep

LEMMA PoolNext == PoolInv /\ Next => PoolInv'
<1> SUFFICES ASSUME PoolInv, Next PROVE PoolInv'
  OBVIOUS
<1>1. ASSUME NEW d \in Datagrams, DatagramStep(d) PROVE PoolInv'
  <2>1. CASE removeExchange(d)
    BY Zenon, <2>1, RemoveStep, ClosingStep DEF removeExchange
  <2> QED
    BY Zenon, <1>1, <2>1, LookStep, OpenStep, RegisterStep, EvictedStep, ReturnStep DEF DatagramStep
<1>2. ASSUME NEW d \in Datagrams, receiveLoop(d) \/ ResponseTimeout(d) PROVE PoolInv'
  BY <1>2, LoopStep, ClosingStep DEF receiveLoop
<1> QED
  BY <1>1, <1>2, SweepStep, PoolCloseStep DEF Next

LEMMA PoolSound ==
  PoolInv => TypeOK /\ NoOrphan /\ OneReader /\ ClosedEmpty /\ SentOnce /\ EntryServed
<1> SUFFICES ASSUME PoolInv PROVE OneReader /\ SentOnce /\ EntryServed
  BY Zenon DEF PoolInv
<1>1. OneReader
  BY DEF PoolInv, TypeOK, OfDatagram, OneReader
<1>2. SentOnce
  BY DEF PoolInv, OfDatagram, SentOnce
<1>3. EntryServed
  <2> SUFFICES ASSUME NEW k \in Registered, ~poolClosed
               PROVE  rpc[exchanges[k]] \in {"run", "remove"} \/ pc[exchanges[k]] \in {"evict", "return"}
    BY Zenon DEF EntryServed
  <2> DEFINE e == exchanges[k]
  <2>1. k \in Keys /\ e # None /\ OfKey(k) /\ e \in Datagrams
    BY Zenon DEF PoolInv, Registered, TypeOK, Exchange
  <2>2. OfDatagram(e) /\ rpc[e] \in {"none", "run", "remove", "close", "end"}
    BY Zenon, <2>1 DEF PoolInv, TypeOK
  <2> QED
    BY <2>1, <2>2 DEF OfKey, OfDatagram
<1> QED
  BY <1>1, <1>2, <1>3

(* The map grows only by the exchange that is registered, after Evict.     *)
LEMMA PoolGrows ==
  ASSUME PoolInv, Next
  PROVE  \/ Registered' \subseteq Registered
         \/ \E d \in Datagrams, R \in SUBSET Registered :
              pc[d] = "register" /\ Evict(R) /\ Registered' \subseteq R \cup {key[d]}
<1>0. TypeOK
  BY DEF PoolInv
<1>1. exchanges' = exchanges => Registered' \subseteq Registered
  BY DEF Registered
<1>2. ASSUME NEW k \in Keys, NEW e, DeleteIf(k, e) PROVE Registered' \subseteq Registered
  BY Zenon, <1>0, <1>2 DEF DeleteIf, Registered, TypeOK
<1>3. ASSUME NEW d \in Datagrams, Register(d), exchanges' # exchanges
      PROVE  \E R \in SUBSET Registered : pc[d] = "register" /\ Evict(R) /\ Registered' \subseteq R \cup {key[d]}
  <2>1. PICK R \in SUBSET Registered :
          /\ Evict(R)
          /\ exchanges' = [k \in Keys |-> IF k = key[d] THEN d ELSE IF k \in Registered \ R THEN None ELSE exchanges[k]]
    BY <1>3 DEF Register
  <2>2. Registered' \subseteq R \cup {key[d]}
    BY Zenon, <2>1 DEF Registered
  <2> QED
    BY Zenon, <1>3, <2>1, <2>2 DEF Register
<1>4. ASSUME NEW d \in Datagrams, DatagramStep(d), ~Register(d) PROVE Registered' \subseteq Registered
  <2>1. CASE removeExchange(d)
    <3>1. key[d] \in Keys /\ (DeleteIf(key[d], got[d]) \/ exchanges' = exchanges)
      BY <1>0, <2>1 DEF removeExchange, mapVars, TypeOK
    <3> QED
      BY Zenon, <1>1, <1>2, <3>1
  <2>2. CASE ~removeExchange(d)
    <3>1. exchanges' = exchanges
      BY Zenon, <1>4, <2>2 DEF DatagramStep, acquireExchange, Flight, createExchange, OpenExchange, CloseEvicted,
         acquireExchangeFlight, Send, mapVars
    <3> QED
      BY <1>1, <3>1
  <2> QED
    BY <2>1, <2>2
<1>5. ASSUME NEW d \in Datagrams, receiveLoop(d) \/ ResponseTimeout(d) PROVE Registered' \subseteq Registered
  <2>1. key[d] \in Keys /\ (DeleteIf(key[d], d) \/ exchanges' = exchanges)
    BY <1>0, <1>5 DEF receiveLoop, ResponseTimeout, mapVars, TypeOK
  <2> QED
    BY Zenon, <1>1, <1>2, <2>1
<1>6. CASE cleanupLoop \/ CloseStep
  <2>1. \/ exchanges' = exchanges \/ exchanges' = [k \in Keys |-> None]
        \/ \E K \in SUBSET Registered : exchanges' = [k \in Keys |-> IF k \in K THEN None ELSE exchanges[k]]
    BY Zenon, <1>6 DEF cleanupLoop, CloseStep, StoreClosed, Scan, Reap, mapVars
  <2> QED
    BY Zenon, <2>1 DEF Registered
<1> QED
  BY <1>1, <1>3, <1>4, <1>5, <1>6 DEF Next

LEMMA PoolStays == UNCHANGED vars => (PoolInv /\ CapKept => PoolInv' /\ CapKept')
  BY DEF vars, mapVars, exVars, dataVars, loopVars, endVars, PoolInv, CapKept, Registered, TypeOK, OfDatagram, OfKey,
     ClosedEmpty, NoOrphan, InHand

-----------------------------------------------------------------------------
VARIABLE evicted  \* of each datagram: the socket it took out and must close

(* The direct sockets, in the pool's own variables.                        *)
D == INSTANCE DirectUDP WITH direct <- exchanges, dialed <- opened

(* A socket belongs to the datagram that opened it until its creation      *)
(* comes back, and a loop that is about to take it out has closed it.      *)
OfSocket(d) ==
  /\ d \in opened => pc[d] \in {"check", "register", "evict", "return", "write", "end"}
  /\ pc[d] \in {"check", "register", "evict"} => d \in opened
  /\ pc[d] = "return" => got[d] \in opened
  /\ pc[d] \notin {"write", "end"} => starts[d] = 0
  /\ starts[d] <= 1
  /\ evicted[d] # None => pc[d] = "evict" /\ evicted[d] \in opened
  /\ rpc[d] # "none" => d \in opened
  /\ rpc[d] = "remove" => d \in closed

SocketInv ==
  /\ D!TypeOK
  /\ \A d \in Datagrams : OfSocket(d)
  /\ \A k \in Keys : exchanges[k] # None => exchanges[k] \in opened /\ key[exchanges[k]] = k
  /\ cpc # "idle" => poolClosed
  /\ D!ClosedEmpty /\ D!NoSocketLeak


-----------------------------------------------------------------------------
(* The direct sockets.                                                     *)
LEMMA SocketInit == D!Init => SocketInv
<1> SUFFICES ASSUME D!Init PROVE SocketInv
  OBVIOUS
<1>1. D!TypeOK
  BY Zenon DEF D!Init, D!TypeOK, D!Socket
<1>4. \A d \in Datagrams : OfSocket(d)
  BY DEF D!Init, OfSocket
<1> QED
  BY <1>1, <1>4 DEF SocketInv, D!Init, D!ClosedEmpty, D!Registered, D!NoSocketLeak

SocketLands(w, d, e) ==
  \/ w # d /\ pc'[w] = pc[w] /\ got'[w] = got[w]
  \/ (pc[w] = "wait" \/ w = d) /\ got'[w] = e /\ pc'[w] = (IF e = None THEN "end" ELSE "return")

LEMMA SocketLanded ==
  ASSUME D!TypeOK, NEW d \in Datagrams, NEW e \in D!Socket, D!Land(d, e)
  PROVE  /\ flight' \in [Keys -> D!Socket] /\ got' \in [Datagrams -> D!Socket]
         /\ pc' \in [Datagrams -> {"new", "acquire", "flight", "wait", "dial", "check", "register",
                                    "evict", "return", "write", "end"}]
         /\ \A w \in Datagrams : SocketLands(w, d, e)
         /\ pc'[d] = (IF e = None THEN "end" ELSE "return")
<1> DEFINE W == {w \in Datagrams : pc[w] = "wait" /\ key[w] = key[d]} \cup {d}
           r == IF e = None THEN "end" ELSE "return"
<1>1. /\ flight' = [flight EXCEPT ![key[d]] = None]
      /\ got' = [w \in Datagrams |-> IF w \in W THEN e ELSE got[w]]
      /\ pc' = [w \in Datagrams |-> IF w \in W THEN r ELSE pc[w]]
  BY DEF D!Land
<1>2. \A w \in Datagrams : w \in W => pc[w] = "wait" \/ w = d
  OBVIOUS
<1>3. d \in W /\ r \in {"end", "return"}
  BY Zenon
<1>4. flight' \in [Keys -> D!Socket]
  BY Zenon, <1>1 DEF D!TypeOK, D!Socket
<1> HIDE DEF W, r
<1>5. got' \in [Datagrams -> D!Socket]
  BY Zenon, <1>1 DEF D!TypeOK
<1>6. pc' \in [Datagrams -> {"new", "acquire", "flight", "wait", "dial", "check", "register",
                              "evict", "return", "write", "end"}]
  BY Zenon, <1>1, <1>3 DEF D!TypeOK
<1>7. \A w \in Datagrams : IF w \in W THEN got'[w] = e /\ pc'[w] = r ELSE got'[w] = got[w] /\ pc'[w] = pc[w]
  BY <1>1
<1> QED
  BY Zenon, <1>2, <1>3, <1>4, <1>5, <1>6, <1>7 DEF r, SocketLands

(* A datagram that moves without touching a socket, but for closing its    *)
(* own when it cannot be registered.                                       *)
Pending == {"new", "acquire", "flight", "wait", "dial"}
SocketMoves(w) ==
  \/ pc'[w] = pc[w] /\ got'[w] = got[w]
  \/ pc[w] \in Pending /\ pc'[w] \in Pending \cup {"write", "end"}
  \/ pc[w] \in Pending /\ pc'[w] = "return" /\ got'[w] \in opened
  \/ pc[w] = "check" /\ pc'[w] = "register"
  \/ pc[w] \in {"check", "register"} /\ w \in closed' /\ (pc'[w] = "end" \/ (pc'[w] = "return" /\ got'[w] \in opened))
  \/ pc[w] \in {"return", "write"} /\ pc'[w] \in {"write", "end"}

LEMMA SocketMove ==
  ASSUME SocketInv, D!TypeOK', \A w \in Datagrams : SocketMoves(w), closed \subseteq closed',
         UNCHANGED <<exchanges, opened, key, evicted, rpc, starts, poolClosed, cpc>>
  PROVE  SocketInv'
<1>1. ASSUME NEW w \in Datagrams PROVE OfSocket(w)'
  <2>1. OfSocket(w) /\ SocketMoves(w)
    BY Zenon DEF SocketInv
  <2> QED
    BY Zenon, <2>1 DEF OfSocket, SocketMoves, Pending
<1>2. D!NoSocketLeak'
  <2> SUFFICES ASSUME NEW e \in opened \ closed', exchanges[key[e]] # e
               PROVE  pc'[e] \in {"check", "register"} \/ \E d \in Datagrams : pc'[d] = "evict" /\ evicted[d] = e
    BY Zenon DEF D!NoSocketLeak
  <2>1. e \in Datagrams /\ e \in opened \ closed
    BY Zenon DEF SocketInv, D!TypeOK
  <2>2. pc[e] \in {"check", "register"} \/ \E d \in Datagrams : pc[d] = "evict" /\ evicted[d] = e
    BY Zenon, <2>1 DEF SocketInv, D!NoSocketLeak
  <2>3. pc[e] \in {"check", "register"} => pc'[e] \in {"check", "register"}
    BY Zenon, <2>1 DEF SocketMoves, Pending
  <2>4. \A d \in Datagrams : pc[d] = "evict" => pc'[d] = "evict"
    BY DEF SocketMoves, Pending
  <2> QED
    BY Zenon, <2>2, <2>3, <2>4
<1>3. D!Registered' = D!Registered
  BY Zenon DEF D!Registered
<1> QED
  BY Zenon, <1>1, <1>2, <1>3 DEF SocketInv, D!ClosedEmpty

LEMMA SocketLookStep ==
  ASSUME SocketInv, NEW d \in Datagrams,
         D!directFor(d) \/ D!Flight(d) \/ D!directUDPRelay(d) \/ D!CheckClosed(d)
  PROVE  SocketInv'
<1>0. D!TypeOK /\ OfSocket(d) /\ key[d] \in Keys /\ None \in D!Socket
  BY Zenon DEF SocketInv, D!TypeOK, D!Socket
<1>1. UNCHANGED <<exchanges, opened, key, evicted, rpc, starts, poolClosed, cpc>>
  BY Zenon DEF D!directFor, D!Flight, D!directUDPRelay, D!CheckClosed, D!mapVars, D!sockVars, D!loopVars, D!endVars
<1>2. CASE D!directFor(d)
  <2>1. UNCHANGED <<flight, closed>> /\ pc[d] \in {"new", "acquire"}
    BY Zenon, <1>2 DEF D!directFor, D!mapVars, D!sockVars
  <2>2. D!TypeOK'
    BY <1>0, <1>1, <1>2, <2>1 DEF D!directFor, D!Goto, D!TypeOK
  <2>3. \A w \in Datagrams : SocketMoves(w)
    BY Zenon, <1>0, <1>2, <2>1 DEF D!directFor, D!Goto, D!TypeOK, SocketMoves, Pending
  <2> QED
    BY Zenon, <1>1, <2>1, <2>2, <2>3, SocketMove
<1>3. CASE D!Flight(d)
  <2>1. UNCHANGED <<got, closed>> /\ pc[d] = "flight"
    BY Zenon, <1>3 DEF D!Flight, D!sockVars
  <2>2. D!TypeOK'
    BY <1>0, <1>1, <1>3, <2>1 DEF D!Flight, D!Goto, D!TypeOK, D!Socket
  <2>3. \A w \in Datagrams : SocketMoves(w)
    BY Zenon, <1>0, <1>3, <2>1 DEF D!Flight, D!Goto, D!TypeOK, SocketMoves, Pending
  <2> QED
    BY Zenon, <1>1, <2>1, <2>2, <2>3, SocketMove
<1>4. CASE D!directUDPRelay(d)
  <2>1. UNCHANGED <<got, flight, closed>> /\ pc[d] = "write"
    BY Zenon, <1>4 DEF D!directUDPRelay, D!mapVars, D!sockVars
  <2>2. D!TypeOK'
    BY Zenon, <1>0, <1>1, <1>4, <2>1 DEF D!directUDPRelay, D!Goto, D!TypeOK
  <2>3. \A w \in Datagrams : SocketMoves(w)
    BY Zenon, <1>0, <1>4, <2>1 DEF D!directUDPRelay, D!Goto, D!TypeOK, SocketMoves, Pending
  <2> QED
    BY Zenon, <1>1, <2>1, <2>2, <2>3, SocketMove
<1>5. CASE D!CheckClosed(d)
  <2>1. pc[d] = "check" /\ d \in opened
    BY Zenon, <1>0, <1>5 DEF D!CheckClosed, OfSocket
  <2>2. CASE closed' = closed \cup {d} /\ D!Land(d, None)
    <3>1. D!TypeOK'
      BY Zenon, <1>0, <1>1, <2>1, <2>2, SocketLanded DEF D!TypeOK
    <3>2. \A w \in Datagrams : SocketLands(w, d, None)
      BY Zenon, <1>0, <2>2, SocketLanded
    <3>3. \A w \in Datagrams : SocketMoves(w)
      BY Zenon, <2>1, <2>2, <3>2 DEF SocketLands, SocketMoves, Pending
    <3> QED
      BY Zenon, <1>1, <2>2, <3>1, <3>3, SocketMove
  <2>3. CASE D!Goto(d, "register") /\ UNCHANGED <<closed, flight, got>>
    <3>1. D!TypeOK'
      BY Zenon, <1>0, <1>1, <2>1, <2>3 DEF D!TypeOK, D!Goto
    <3>2. \A w \in Datagrams : SocketMoves(w)
      BY Zenon, <1>0, <2>1, <2>3 DEF SocketMoves, Pending, D!Goto, D!TypeOK
    <3> QED
      BY Zenon, <1>1, <2>3, <3>1, <3>2, SocketMove
  <2> QED
    BY Zenon, <1>5, <2>2, <2>3 DEF D!CheckClosed
<1> QED
  BY <1>2, <1>3, <1>4, <1>5

LEMMA DialStep ==
  ASSUME SocketInv, NEW d \in Datagrams, D!Dial(d)
  PROVE  SocketInv'
<1>0. D!TypeOK /\ OfSocket(d) /\ pc[d] = "dial" /\ d \notin opened /\ None \in D!Socket
  BY Zenon DEF SocketInv, OfSocket, D!Dial, D!Socket
<1>1. UNCHANGED <<exchanges, closed, key, evicted, rpc, starts, poolClosed, cpc>>
  BY Zenon DEF D!Dial, D!loopVars, D!endVars
<1>2. CASE D!Land(d, None) /\ UNCHANGED opened
  <2>1. D!TypeOK'
    BY Zenon, <1>0, <1>1, <1>2, SocketLanded DEF D!TypeOK
  <2>2. \A w \in Datagrams : SocketLands(w, d, None)
    BY Zenon, <1>0, <1>2, SocketLanded
  <2>3. \A w \in Datagrams : SocketMoves(w)
    BY Zenon, <1>0, <2>2 DEF SocketLands, SocketMoves, Pending
  <2> QED
    BY Zenon, <1>1, <1>2, <2>1, <2>3, SocketMove
<1>3. CASE opened' = opened \cup {d} /\ D!Goto(d, "check") /\ UNCHANGED <<flight, got>>
  <2>1. D!TypeOK'
    BY Zenon, <1>0, <1>1, <1>3 DEF D!TypeOK, D!Goto
  <2>2. pc'[d] = "check" /\ \A w \in Datagrams : w # d => pc'[w] = pc[w]
    BY <1>0, <1>3 DEF D!Goto, D!TypeOK
  <2>3. ASSUME NEW w \in Datagrams PROVE OfSocket(w)'
    <3>1. OfSocket(w)
      BY Zenon DEF SocketInv
    <3> QED
      BY Zenon, <1>0, <1>1, <1>3, <2>2, <3>1 DEF OfSocket
  <2>4. D!NoSocketLeak'
    <3> SUFFICES ASSUME NEW e \in opened' \ closed, exchanges[key[e]] # e
                 PROVE  pc'[e] \in {"check", "register"} \/ \E x \in Datagrams : pc'[x] = "evict" /\ evicted[x] = e
      BY Zenon, <1>1 DEF D!NoSocketLeak
    <3>1. CASE e = d
      BY Zenon, <2>2, <3>1
    <3>2. CASE e # d
      <4>1. e \in Datagrams /\ (pc[e] \in {"check", "register"} \/ \E x \in Datagrams : pc[x] = "evict" /\ evicted[x] = e)
        BY Zenon, <1>0, <1>3, <3>2 DEF SocketInv, D!NoSocketLeak, D!TypeOK
      <4> QED
        BY Zenon, <1>0, <2>2, <3>2, <4>1
    <3> QED
      BY Zenon, <3>1, <3>2
  <2>5. D!Registered' = D!Registered
    BY <1>1 DEF D!Registered
  <2> QED
    BY Zenon, <1>1, <1>3, <2>1, <2>3, <2>4, <2>5 DEF SocketInv, D!ClosedEmpty
<1> QED
  BY Zenon, <1>2, <1>3 DEF D!Dial

LEMMA SocketRegisterStep ==
  ASSUME SocketInv, NEW d \in Datagrams, D!Register(d)
  PROVE  SocketInv'
<1>0. /\ D!TypeOK /\ OfSocket(d) /\ pc[d] = "register" /\ d \in opened /\ None \in D!Socket
      /\ key[d] \in Keys /\ exchanges[key[d]] \in D!Socket
  BY Zenon DEF SocketInv, OfSocket, D!Register, D!Socket, D!TypeOK
<1>1. UNCHANGED <<opened, key, rpc, starts, poolClosed, cpc>>
  BY Zenon DEF D!Register, D!loopVars, D!endVars
<1>2. ASSUME NEW e \in D!Socket, e = None \/ e \in opened,
             closed' = closed \cup {d} /\ D!Land(d, e) /\ UNCHANGED <<exchanges, evicted>>
      PROVE  SocketInv'
  <2>1. D!TypeOK'
    BY <1>0, <1>1, <1>2, SocketLanded DEF D!TypeOK
  <2>2. \A w \in Datagrams : SocketLands(w, d, e)
    BY Zenon, <1>0, <1>2, SocketLanded
  <2>3. \A w \in Datagrams : SocketMoves(w)
    BY Zenon, <1>0, <1>2, <2>2 DEF SocketLands, SocketMoves, Pending
  <2> QED
    BY Zenon, <1>1, <1>2, <2>1, <2>3, SocketMove
<1>3. ASSUME ~poolClosed, exchanges[key[d]] = None, D!Goto(d, "evict"), UNCHANGED <<closed, flight, got>>,
             NEW K \in SUBSET Keys, \A k \in K : exchanges[k] # None, key[d] \notin K,
             exchanges' = [k \in Keys |-> IF k = key[d] THEN d ELSE IF k \in K THEN None ELSE exchanges[k]],
             NEW x \in D!Socket, evicted' = [evicted EXCEPT ![d] = x],
             x # None => x \in opened, \A k \in K : exchanges[k] = x
      PROVE  SocketInv'
  <2>1. D!TypeOK'
    BY Zenon, <1>0, <1>1, <1>3 DEF D!TypeOK, D!Goto, D!Socket
  <2>2. pc'[d] = "evict" /\ evicted'[d] = x /\ \A w \in Datagrams : w # d => pc'[w] = pc[w] /\ evicted'[w] = evicted[w]
    BY <1>0, <1>3 DEF D!TypeOK, D!Goto
  <2>3. ASSUME NEW w \in Datagrams PROVE OfSocket(w)'
    <3>1. OfSocket(w)
      BY Zenon DEF SocketInv
    <3>2. CASE w = d
      BY <1>0, <1>1, <1>3, <2>2, <3>2 DEF OfSocket
    <3>3. CASE w # d
      <4>1. pc'[w] = pc[w] /\ evicted'[w] = evicted[w] /\ closed' = closed /\ got' = got
        BY <1>3, <2>2, <3>3
      <4> QED
        BY Zenon, <1>1, <3>1, <4>1 DEF OfSocket
    <3> QED
      BY Zenon, <3>2, <3>3
  <2>4. ASSUME NEW k \in Keys, exchanges'[k] # None PROVE exchanges'[k] \in opened' /\ key'[exchanges'[k]] = k
    BY Zenon, <1>0, <1>1, <1>3, <2>4 DEF SocketInv
  <2>5. D!NoSocketLeak'
    <3> SUFFICES ASSUME NEW e \in opened \ closed, exchanges'[key[e]] # e
                 PROVE  pc'[e] \in {"check", "register"} \/ \E y \in Datagrams : pc'[y] = "evict" /\ evicted'[y] = e
      BY Zenon, <1>1, <1>3 DEF D!NoSocketLeak
    <3>1. e \in Datagrams /\ key[e] \in Keys /\ e # d
      BY Zenon, <1>0, <1>3 DEF D!TypeOK
    <3>2. CASE exchanges[key[e]] = e
      <4>1. key[e] \in K /\ e = x
        BY Zenon, <1>3, <3>1, <3>2, UDPPoolAssumption
      <4> QED
        BY Zenon, <2>2, <4>1
    <3>3. CASE pc[e] \in {"check", "register"}
      BY Zenon, <2>2, <3>1, <3>3
    <3>4. CASE \E y \in Datagrams : pc[y] = "evict" /\ evicted[y] = e
      BY Zenon, <1>0, <2>2, <3>4
    <3> QED
      BY Zenon, <3>2, <3>3, <3>4 DEF SocketInv, D!NoSocketLeak
  <2>6. cpc # "idle" => poolClosed
    BY Zenon DEF SocketInv
  <2>7. D!ClosedEmpty'
    BY Zenon, <1>1, <1>3, <2>6 DEF D!ClosedEmpty
  <2> QED
    BY Zenon, <1>1, <1>3, <2>1, <2>3, <2>4, <2>5, <2>6, <2>7 DEF SocketInv
<1>4. CASE poolClosed /\ closed' = closed \cup {d} /\ D!Land(d, None) /\ UNCHANGED <<exchanges, evicted>>
  BY Zenon, <1>0, <1>2, <1>4
<1>5. CASE /\ ~poolClosed /\ exchanges[key[d]] # None
           /\ closed' = closed \cup {d} /\ D!Land(d, exchanges[key[d]]) /\ UNCHANGED <<exchanges, evicted>>
  BY <1>0, <1>2, <1>5 DEF SocketInv
<1>7. CASE /\ ~poolClosed /\ exchanges[key[d]] = None
           /\ \E k \in D!Registered : /\ exchanges' = [exchanges EXCEPT ![k] = None, ![key[d]] = d]
                                     /\ evicted' = [evicted EXCEPT ![d] = exchanges[k]]
           /\ D!Goto(d, "evict") /\ UNCHANGED <<closed, flight, got>>
  <2>1. PICK k \in D!Registered : /\ exchanges' = [exchanges EXCEPT ![k] = None, ![key[d]] = d]
                                  /\ evicted' = [evicted EXCEPT ![d] = exchanges[k]]
    BY Zenon, <1>7
  <2>2. k \in Keys /\ exchanges[k] # None /\ k # key[d] /\ exchanges[k] \in opened /\ exchanges[k] \in D!Socket
    BY <1>0, <1>7 DEF D!Registered, SocketInv, D!TypeOK
  <2>3. exchanges' = [j \in Keys |-> IF j = key[d] THEN d ELSE IF j \in {k} THEN None ELSE exchanges[j]]
    BY Zenon, <1>0, <2>1, <2>2 DEF D!TypeOK
  <2> DEFINE L == {k}
             o == exchanges[k]
  <2>6. /\ L \in SUBSET Keys /\ key[d] \notin L /\ o \in D!Socket /\ (o # None => o \in opened)
        /\ (\A j \in L : exchanges[j] # None) /\ (\A j \in L : exchanges[j] = o)
        /\ exchanges' = [j \in Keys |-> IF j = key[d] THEN d ELSE IF j \in L THEN None ELSE exchanges[j]]
        /\ evicted' = [evicted EXCEPT ![d] = o]
    BY Zenon, <2>1, <2>2, <2>3
  <2>7. ~poolClosed /\ exchanges[key[d]] = None /\ D!Goto(d, "evict") /\ UNCHANGED <<closed, flight, got>>
    BY <1>7
  <2> HIDE DEF L, o
  <2> QED
    BY Zenon, <1>3, <2>6, <2>7
<1>8. CASE /\ ~poolClosed /\ exchanges[key[d]] = None
           /\ exchanges' = [exchanges EXCEPT ![key[d]] = d] /\ UNCHANGED evicted
           /\ D!Goto(d, "evict") /\ UNCHANGED <<closed, flight, got>>
  <2>1. exchanges' = [j \in Keys |-> IF j = key[d] THEN d ELSE IF j \in {} THEN None ELSE exchanges[j]]
    BY Zenon, <1>0, <1>8 DEF D!TypeOK
  <2>2. evicted' = [evicted EXCEPT ![d] = None]
    BY <1>0, <1>8 DEF D!TypeOK, OfSocket
  <2>5. {} \in SUBSET Keys /\ key[d] \notin {} /\ \A j \in {} : exchanges[j] # None /\ exchanges[j] = None
    OBVIOUS
  <2>6. ~poolClosed /\ exchanges[key[d]] = None /\ D!Goto(d, "evict") /\ UNCHANGED <<closed, flight, got>>
    BY Zenon, <1>8
  <2> QED
    BY Zenon, <1>0, <1>3, <2>1, <2>2, <2>5, <2>6
<1> QED
  BY Zenon, <1>4, <1>5, <1>7, <1>8 DEF D!Register

LEMMA SocketEvictedStep ==
  ASSUME SocketInv, NEW d \in Datagrams, D!CloseEvicted(d)
  PROVE  SocketInv'
<1>0. D!TypeOK /\ OfSocket(d) /\ pc[d] = "evict" /\ d \in opened /\ d \in D!Socket /\ d # None
  BY Zenon, UDPPoolAssumption DEF SocketInv, OfSocket, D!CloseEvicted, D!Socket
<1>1. /\ UNCHANGED <<exchanges, opened, key, rpc, starts, poolClosed, cpc>>
      /\ closed' = closed \cup ({evicted[d]} \ {None}) /\ evicted' = [evicted EXCEPT ![d] = None]
      /\ D!Land(d, d)
  BY Zenon DEF D!CloseEvicted, D!loopVars, D!endVars
<1>2. /\ pc'[d] = "return" /\ evicted'[d] = None
      /\ \A w \in Datagrams : w # d =>
           /\ evicted'[w] = evicted[w]
           /\ \/ pc'[w] = pc[w] /\ got'[w] = got[w]
              \/ pc[w] = "wait" /\ pc'[w] = "return" /\ got'[w] = d
  <2>1. (\A w \in Datagrams : SocketLands(w, d, d)) /\ pc'[d] = "return"
    BY Zenon, <1>0, <1>1, SocketLanded
  <2> QED
    BY Zenon, <1>0, <1>1, <2>1 DEF SocketLands, D!TypeOK
<1>3. got'[d] = d
  <2>1. \A w \in Datagrams : SocketLands(w, d, d)
    BY Zenon, <1>0, <1>1, SocketLanded
  <2> QED
    BY Zenon, <2>1 DEF SocketLands
<1>4. D!TypeOK'
  BY <1>0, <1>1, SocketLanded DEF D!TypeOK, D!Socket, OfSocket
<1>5. ASSUME NEW w \in Datagrams PROVE OfSocket(w)'
  <2>1. OfSocket(w) /\ closed \subseteq closed'
    BY <1>1 DEF SocketInv
  <2>2. CASE w = d
    BY Zenon, <1>0, <1>1, <1>2, <1>3, <2>1, <2>2 DEF OfSocket
  <2>3. CASE w # d
    <3>1. UNCHANGED <<opened, rpc, starts>> /\ evicted'[w] = evicted[w]
      BY Zenon, <1>1, <1>2, <2>3
    <3>2. CASE pc'[w] = pc[w] /\ got'[w] = got[w]
      BY Zenon, <2>1, <3>1, <3>2 DEF OfSocket
    <3>3. CASE pc[w] = "wait" /\ pc'[w] = "return" /\ got'[w] = d
      BY <1>0, <2>1, <3>1, <3>3 DEF OfSocket
    <3> QED
      BY Zenon, <1>2, <2>3, <3>2, <3>3
  <2> QED
    BY Zenon, <2>2, <2>3
<1>6. D!NoSocketLeak'
  <2> SUFFICES ASSUME NEW e \in opened \ closed', exchanges[key[e]] # e
               PROVE  pc'[e] \in {"check", "register"} \/ \E y \in Datagrams : pc'[y] = "evict" /\ evicted'[y] = e
    BY Zenon, <1>1 DEF D!NoSocketLeak
  <2>1. e \in Datagrams /\ e # evicted[d] /\ e \in opened \ closed
    BY Zenon, <1>0, <1>1, UDPPoolAssumption DEF D!TypeOK
  <2>2. CASE pc[e] \in {"check", "register"}
    BY Zenon, <1>0, <1>2, <2>1, <2>2
  <2>3. CASE \E y \in Datagrams : pc[y] = "evict" /\ evicted[y] = e
    BY Zenon, <1>0, <1>2, <2>1, <2>3
  <2> QED
    BY Zenon, <2>1, <2>2, <2>3 DEF SocketInv, D!NoSocketLeak
<1>7. D!Registered' = D!Registered
  BY Zenon, <1>1 DEF D!Registered
<1> QED
  BY Zenon, <1>1, <1>4, <1>5, <1>6, <1>7 DEF SocketInv, D!ClosedEmpty

LEMMA AcquireStep ==
  ASSUME SocketInv, NEW d \in Datagrams, D!acquireDirect(d)
  PROVE  SocketInv'
<1>0. /\ D!TypeOK /\ OfSocket(d) /\ pc[d] = "return" /\ got[d] \in opened /\ starts[d] = 0
      /\ UNCHANGED <<exchanges, flight, opened, closed, key, got, evicted, poolClosed, cpc>>
  BY DEF SocketInv, OfSocket, D!acquireDirect, D!mapVars, D!sockVars, D!endVars
<1>1. CASE D!Goto(d, "end") /\ UNCHANGED <<rpc, starts>>
  <2>1. D!TypeOK' /\ \A w \in Datagrams : SocketMoves(w)
    BY <1>0, <1>1 DEF D!Goto, D!TypeOK, SocketMoves, Pending
  <2> QED
    BY Zenon, <1>0, <1>1, <2>1, SocketMove
<1>2. CASE D!Goto(d, "write") /\ UNCHANGED <<rpc, starts>>
  <2>1. D!TypeOK' /\ \A w \in Datagrams : SocketMoves(w)
    BY Zenon, <1>0, <1>2 DEF D!Goto, D!TypeOK, SocketMoves, Pending
  <2> QED
    BY Zenon, <1>0, <1>2, <2>1, SocketMove
<1>3. CASE /\ D!Goto(d, "write") /\ got[d] = d
           /\ rpc' = [rpc EXCEPT ![d] = "run"] /\ starts' = [starts EXCEPT ![d] = @ + 1]
  <2>1. D!TypeOK'
    BY <1>0, <1>3 DEF D!Goto, D!TypeOK
  <2>2. /\ pc'[d] = "write" /\ starts'[d] = 1 /\ rpc'[d] = "run"
        /\ \A w \in Datagrams : w # d => pc'[w] = pc[w] /\ starts'[w] = starts[w] /\ rpc'[w] = rpc[w]
    BY <1>0, <1>3 DEF D!Goto, D!TypeOK
  <2>3. ASSUME NEW w \in Datagrams PROVE OfSocket(w)'
    <3>1. OfSocket(w)
      BY DEF SocketInv
    <3>2. CASE w = d
      <4>1. d \in opened /\ evicted[d] = None
        BY Zenon, <1>0, <1>3 DEF OfSocket
      <4> QED
        BY <1>0, <2>2, <3>2, <4>1 DEF OfSocket
    <3>3. CASE w # d
      BY <1>0, <2>2, <3>1, <3>3 DEF OfSocket
    <3> QED
      BY <3>2, <3>3
  <2>4. D!NoSocketLeak'
    <3> SUFFICES ASSUME NEW e \in opened \ closed, exchanges[key[e]] # e
                 PROVE  pc'[e] \in {"check", "register"} \/ \E y \in Datagrams : pc'[y] = "evict" /\ evicted[y] = e
      BY Zenon, <1>0 DEF D!NoSocketLeak
    <3>1. e \in Datagrams /\ (pc[e] \in {"check", "register"} \/ \E y \in Datagrams : pc[y] = "evict" /\ evicted[y] = e)
      BY <1>0 DEF SocketInv, D!NoSocketLeak, D!TypeOK
    <3> QED
      BY Zenon, <1>0, <2>2, <3>1
  <2>5. D!Registered' = D!Registered
    BY Zenon, <1>0 DEF D!Registered
  <2> QED
    BY Zenon, <1>0, <2>1, <2>3, <2>4, <2>5 DEF SocketInv, D!ClosedEmpty
<1> QED
  BY Zenon, <1>1, <1>2, <1>3 DEF D!acquireDirect, D!loopVars

(* A socket leaves the map once it is closed.                              *)
LEMMA SocketsOut ==
  ASSUME SocketInv, D!TypeOK', closed \subseteq closed', \A e \in Datagrams : OfSocket(e)',
         UNCHANGED <<opened, pc, key, evicted>>,
         \A k \in Keys : exchanges'[k] = exchanges[k] \/ (exchanges'[k] = None /\ exchanges[k] \in closed'),
         cpc' # "idle" => poolClosed', D!ClosedEmpty'
  PROVE  SocketInv'
<1>1. D!Registered' \subseteq D!Registered
  <2> SUFFICES ASSUME NEW k \in Keys, exchanges'[k] # None PROVE exchanges[k] # None
    BY Zenon DEF D!Registered
  <2> QED
    BY Zenon
<1>2. D!NoSocketLeak'
  <2> SUFFICES ASSUME NEW e \in opened \ closed', exchanges'[key[e]] # e
               PROVE  pc[e] \in {"check", "register"} \/ \E d \in Datagrams : pc[d] = "evict" /\ evicted[d] = e
    BY Zenon DEF D!NoSocketLeak
  <2>1. e \in opened \ closed /\ key[e] \in Keys
    BY Zenon DEF SocketInv, D!TypeOK
  <2>2. exchanges[key[e]] # e
    BY Zenon, <2>1
  <2> QED
    BY Zenon, <2>1, <2>2 DEF SocketInv, D!NoSocketLeak
<1> QED
  BY Zenon, <1>1, <1>2 DEF SocketInv

LEMMA SocketLoopStep ==
  ASSUME SocketInv, NEW e \in Datagrams, D!directUDPReadLoop(e)
  PROVE  SocketInv'
<1>0. /\ D!TypeOK /\ OfSocket(e) /\ e \in opened /\ rpc[e] \in {"run", "remove"} /\ key[e] \in Keys
      /\ UNCHANGED <<flight, opened, key, pc, got, evicted, starts, poolClosed, cpc>>
  BY Zenon DEF SocketInv, OfSocket, D!directUDPReadLoop, D!mapVars, D!sockVars, D!dataVars, D!endVars, D!TypeOK
<1>1. ASSUME NEW l \in {"remove", "end"}, rpc' = [rpc EXCEPT ![e] = l], e \in closed',
             closed' = closed \cup {e}, D!ClosedEmpty',
             exchanges' = exchanges \/ (exchanges' = [exchanges EXCEPT ![key[e]] = None] /\ exchanges[key[e]] = e)
      PROVE  SocketInv'
  <2>1. D!TypeOK'
    BY Zenon, <1>0, <1>1 DEF D!TypeOK, D!Socket
  <2>2. \A k \in Keys : exchanges'[k] = exchanges[k] \/ (exchanges'[k] = None /\ exchanges[k] \in closed')
    BY Zenon, <1>0, <1>1 DEF D!TypeOK
  <2>3. ASSUME NEW w \in Datagrams PROVE OfSocket(w)'
    <3>1. OfSocket(w) /\ rpc'[w] = (IF w = e THEN l ELSE rpc[w])
      BY Zenon, <1>0, <1>1 DEF SocketInv, D!TypeOK
    <3> QED
      BY Zenon, <1>0, <1>1, <3>1 DEF OfSocket
  <2> QED
    BY Zenon, <1>0, <1>1, <2>1, <2>2, <2>3, SocketsOut DEF SocketInv
<1>2. CASE rpc[e] = "run" /\ closed' = closed \cup {e} /\ rpc' = [rpc EXCEPT ![e] = "remove"] /\ UNCHANGED exchanges
  <2>1. D!ClosedEmpty'
    BY Zenon, <1>0, <1>2 DEF SocketInv, D!ClosedEmpty, D!Registered
  <2> QED
    BY <1>1, <1>2, <2>1
<1>3. CASE rpc[e] = "remove" /\ D!removeDirect(key[e], e) /\ rpc' = [rpc EXCEPT ![e] = "end"] /\ UNCHANGED closed
  <2>1. e \in closed /\ closed' = closed \cup {e}
    BY Zenon, <1>0, <1>3 DEF OfSocket
  <2>2. exchanges' = exchanges \/ (exchanges' = [exchanges EXCEPT ![key[e]] = None] /\ exchanges[key[e]] = e)
    BY Zenon, <1>3 DEF D!removeDirect
  <2>3. D!Registered' \subseteq D!Registered
    BY <1>0, <2>2 DEF D!Registered, D!TypeOK
  <2>4. D!ClosedEmpty'
    BY Zenon, <1>0, <2>3 DEF SocketInv, D!ClosedEmpty
  <2> QED
    BY Zenon, <1>1, <1>3, <2>1, <2>2, <2>4
<1> QED
  BY Zenon, <1>2, <1>3 DEF D!directUDPReadLoop, D!mapVars, D!sockVars

LEMMA SocketEndStep ==
  ASSUME SocketInv, D!cleanupLoop \/ D!StoreClosed \/ D!Scan
  PROVE  SocketInv'
<1>0. /\ D!TypeOK /\ \A w \in Datagrams : OfSocket(w)
      /\ UNCHANGED <<flight, opened, key, pc, got, evicted, rpc, starts>>
  BY Zenon DEF SocketInv, D!cleanupLoop, D!StoreClosed, D!Scan, D!mapVars, D!sockVars, D!dataVars, D!loopVars, D!endVars
<1>1. ASSUME NEW K \in SUBSET D!Registered, closed' = closed \cup {exchanges[k] : k \in K},
             exchanges' = [k \in Keys |-> IF k \in K THEN None ELSE exchanges[k]],
             poolClosed' = poolClosed, cpc' \in {"idle", "scan", "end"}, cpc' # "idle" => poolClosed, D!ClosedEmpty'
      PROVE  SocketInv'
  <2>1. K \subseteq Keys /\ {exchanges[k] : k \in K} \subseteq opened
    BY Zenon, <1>1 DEF SocketInv, D!Registered
  <2>2. D!TypeOK'
    BY Zenon, <1>0, <1>1, <2>1 DEF D!TypeOK, D!Socket
  <2>3. \A k \in Keys : exchanges'[k] = exchanges[k] \/ (exchanges'[k] = None /\ exchanges[k] \in closed')
    BY Zenon, <1>1
  <2>4. ASSUME NEW w \in Datagrams PROVE OfSocket(w)'
    BY Zenon, <1>0, <1>1 DEF OfSocket
  <2> QED
    BY Zenon, <1>0, <1>1, <2>2, <2>3, <2>4, SocketsOut
<1>2. CASE D!cleanupLoop
  <2>1. PICK K \in SUBSET D!Registered \ {{}} :
              /\ closed' = closed \cup {exchanges[k] : k \in K}
              /\ exchanges' = [k \in Keys |-> IF k \in K THEN None ELSE exchanges[k]]
    BY Zenon, <1>2 DEF D!cleanupLoop
  <2>2. ~poolClosed /\ UNCHANGED <<poolClosed, cpc>>
    BY Zenon, <1>2 DEF D!cleanupLoop, D!endVars
  <2>3. cpc = "idle"
    BY <2>2 DEF SocketInv
  <2>4. D!ClosedEmpty'
    BY Zenon, <2>2, <2>3 DEF D!ClosedEmpty
  <2> QED
    BY <1>1, <2>1, <2>2, <2>3, <2>4
<1>3. CASE D!StoreClosed
  <2>1. UNCHANGED <<exchanges, closed>> /\ poolClosed' = TRUE /\ cpc' = "scan"
    BY Zenon, <1>3 DEF D!StoreClosed, D!mapVars, D!sockVars
  <2>2. D!TypeOK'
    BY Zenon, <1>0, <2>1 DEF D!TypeOK
  <2>3. \A w \in Datagrams : OfSocket(w)'
    BY <1>0, <2>1 DEF OfSocket
  <2>4. D!ClosedEmpty'
    BY Zenon, <2>1 DEF D!ClosedEmpty
  <2> QED
    BY Zenon, <1>0, <2>1, <2>2, <2>3, <2>4, SocketsOut
<1>4. CASE D!Scan
  <2>1. /\ closed' = closed \cup {exchanges[k] : k \in D!Registered} /\ exchanges' = [k \in Keys |-> None]
        /\ cpc = "scan" /\ cpc' = "end" /\ poolClosed' = poolClosed
    BY Zenon, <1>4 DEF D!Scan
  <2>2. exchanges' = [k \in Keys |-> IF k \in D!Registered THEN None ELSE exchanges[k]]
    BY <2>1 DEF D!Registered
  <2>3. D!ClosedEmpty'
    BY Zenon, <2>1 DEF D!ClosedEmpty, D!Registered
  <2>4. poolClosed
    BY Zenon, <2>1 DEF SocketInv
  <2> QED
    BY Zenon, <1>1, <2>1, <2>2, <2>3, <2>4
<1> QED
  BY Zenon, <1>2, <1>3, <1>4

LEMMA SocketNext == SocketInv /\ D!Next => SocketInv'
  BY Zenon, SocketLookStep, DialStep, SocketRegisterStep, SocketEvictedStep, AcquireStep, SocketLoopStep, SocketEndStep
     DEF D!Next, D!DatagramStep

(* The map grows only by the socket that is registered, and a full one     *)
(* gives up another for it.                                                *)
LEMMA SocketsGrow ==
  ASSUME SocketInv, D!Next
  PROVE  \/ D!Registered' \subseteq D!Registered
         \/ \E d \in Datagrams, k \in D!Registered : D!Registered' \subseteq (D!Registered \ {k}) \cup {key[d]}
         \/ \E d \in Datagrams : /\ ~(D!Cardinality(D!Registered) >= maxUDPExchanges)
                                 /\ D!Registered' \subseteq D!Registered \cup {key[d]}
<1>0. D!TypeOK
  BY DEF SocketInv
<1>1. exchanges' = exchanges => D!Registered' \subseteq D!Registered
  BY DEF D!Registered
<1>2. ASSUME NEW d \in Datagrams, D!Register(d), exchanges' # exchanges
      PROVE  \/ \E k \in D!Registered : D!Registered' \subseteq (D!Registered \ {k}) \cup {key[d]}
             \/ /\ ~(D!Cardinality(D!Registered) >= maxUDPExchanges)
                /\ D!Registered' \subseteq D!Registered \cup {key[d]}
  <2>1. CASE \E k \in D!Registered : exchanges' = [exchanges EXCEPT ![k] = None, ![key[d]] = d]
    <3>1. PICK k \in D!Registered : exchanges' = [exchanges EXCEPT ![k] = None, ![key[d]] = d]
      BY Zenon, <2>1
    <3>2. D!Registered' \subseteq (D!Registered \ {k}) \cup {key[d]}
      BY Zenon, <1>0, <3>1 DEF D!Registered, D!TypeOK
    <3> QED
      BY <3>2
  <2>2. CASE ~(D!Cardinality(D!Registered) >= maxUDPExchanges) /\ exchanges' = [exchanges EXCEPT ![key[d]] = d]
    <3>1. D!Registered' \subseteq D!Registered \cup {key[d]}
      BY <1>0, <2>2 DEF D!Registered, D!TypeOK
    <3> QED
      BY Zenon, <2>2, <3>1
  <2> QED
    BY Zenon, <1>2, <2>1, <2>2 DEF D!Register
<1>3. ASSUME NEW d \in Datagrams, D!DatagramStep(d), ~D!Register(d) PROVE exchanges' = exchanges
  BY Zenon, <1>3 DEF D!DatagramStep, D!directFor, D!Flight, D!Dial, D!CheckClosed, D!CloseEvicted, D!acquireDirect,
     D!directUDPRelay, D!mapVars
<1>4. ASSUME NEW d \in Datagrams, D!directUDPReadLoop(d) PROVE D!Registered' \subseteq D!Registered
  <2>1. exchanges' = exchanges \/ exchanges' = [exchanges EXCEPT ![key[d]] = None]
    BY Zenon, <1>4 DEF D!directUDPReadLoop, D!removeDirect, D!mapVars
  <2> QED
    BY Zenon, <1>0, <2>1 DEF D!Registered, D!TypeOK
<1>5. CASE D!cleanupLoop \/ D!StoreClosed \/ D!Scan
  <2>1. \/ exchanges' = exchanges \/ exchanges' = [k \in Keys |-> None]
        \/ \E K \in SUBSET D!Registered : exchanges' = [k \in Keys |-> IF k \in K THEN None ELSE exchanges[k]]
    BY Zenon, <1>5 DEF D!cleanupLoop, D!StoreClosed, D!Scan, D!mapVars
  <2> QED
    BY Zenon, <2>1 DEF D!Registered
<1> QED
  BY Zenon, <1>1, <1>2, <1>3, <1>4, <1>5 DEF D!Next

LEMMA SocketStays == UNCHANGED <<vars, evicted>> => (SocketInv /\ D!SocketCapKept => SocketInv' /\ D!SocketCapKept')
<1> SUFFICES ASSUME UNCHANGED <<vars, evicted>>, SocketInv, D!SocketCapKept PROVE SocketInv' /\ D!SocketCapKept'
  BY Zenon
<1>1. UNCHANGED <<exchanges, flight, opened, closed, key, pc, got, rpc, starts, poolClosed, cpc, evicted>>
  BY Zenon DEF vars, mapVars, exVars, dataVars, loopVars, endVars
<1>2. D!TypeOK' /\ \A w \in Datagrams : SocketMoves(w)
  BY Zenon, <1>1 DEF SocketInv, D!TypeOK, SocketMoves
<1>3. D!Registered' = D!Registered
  BY Zenon, <1>1 DEF D!Registered
<1> QED
  BY Zenon, <1>1, <1>2, <1>3, SocketMove DEF D!SocketCapKept

-----------------------------------------------------------------------------
(* The limits of the two maps, by counting.                                *)
INSTANCE FiniteSetTheorems

LEMMA SameCount == ASSUME NEW S PROVE D!Cardinality(S) = Cardinality(S)
  BY Zenon DEF D!Cardinality, Cardinality, D!IsFiniteSet, IsFiniteSet

LEMMA Fewer ==
  ASSUME NEW S, IsFiniteSet(S), Cardinality(S) <= maxUDPExchanges, NEW T \in SUBSET S
  PROVE  Cardinality(T) <= maxUDPExchanges
<1>1. IsFiniteSet(T) /\ Cardinality(T) <= Cardinality(S)
  BY Zenon, FS_Subset
<1>2. Cardinality(T) \in Nat /\ Cardinality(S) \in Nat
  BY Zenon, <1>1, FS_CardinalityType
<1> QED
  BY <1>1, <1>2, UDPPoolAssumption

LEMMA OneMore ==
  ASSUME NEW S, IsFiniteSet(S), Cardinality(S) < maxUDPExchanges, NEW x, NEW T \in SUBSET (S \cup {x})
  PROVE  Cardinality(T) <= maxUDPExchanges
<1>1. /\ IsFiniteSet(S \cup {x})
      /\ Cardinality(S) \in Nat /\ Cardinality(S \cup {x}) \in {Cardinality(S), Cardinality(S) + 1}
  BY Zenon, FS_CardinalityType, FS_AddElement
<1>2. Cardinality(S \cup {x}) <= maxUDPExchanges
  BY <1>1, UDPPoolAssumption
<1> QED
  BY Zenon, <1>1, <1>2, Fewer

(* The creator counts itself among the exchanges being opened, so there is *)
(* room for its own after the eviction.                                    *)
LEMMA RoomMade ==
  ASSUME NEW d \in Datagrams, pc[d] = "register", NEW R \in SUBSET Registered, Evict(R)
  PROVE  IsFiniteSet(R) /\ Cardinality(R) < maxUDPExchanges
<1> DEFINE F == {x \in Datagrams : pc[x] \in {"open", "register", "evict"}}
<1>1. IsFiniteSet(F) /\ IsFiniteSet(R)
  <2>1. IsFiniteSet(Registered)
    BY Zenon, UDPPoolAssumption, FS_Subset DEF Registered
  <2>2. IsFiniteSet(F)
    BY Zenon, FiniteAssumption, FS_Subset
  <2> QED
    BY Zenon, <2>1, <2>2, FS_Subset
<1>2. d \in F /\ Cardinality(F) \in Nat /\ Cardinality(R) \in Nat
  BY Zenon, <1>1, FS_CardinalityType
<1>3. Cardinality(R) + Cardinality(F) <= maxUDPExchanges \/ R = {}
  BY Zenon DEF Evict, inflight
<1> HIDE DEF F
<1>4. Cardinality(F) # 0
  BY Zenon, <1>1, <1>2, FS_EmptySet
<1>5. R = {} => Cardinality(R) = 0
  BY Zenon, FS_EmptySet
<1> QED
  BY <1>1, <1>2, <1>3, <1>4, <1>5, UDPPoolAssumption

LEMMA CapInit == Init => CapKept
<1> SUFFICES ASSUME Init PROVE CapKept
  OBVIOUS
<1>1. Registered = {}
  BY Zenon DEF Init, Registered
<1> QED
  BY <1>1, FS_EmptySet, UDPPoolAssumption DEF CapKept

LEMMA CapNext ==
  ASSUME PoolInv, CapKept, Next
  PROVE  CapKept'
<1>1. IsFiniteSet(Registered)
  BY Zenon, UDPPoolAssumption, FS_Subset DEF Registered
<1>2. CASE Registered' \subseteq Registered
  BY Zenon, <1>1, <1>2, Fewer DEF CapKept
<1>3. ASSUME NEW d \in Datagrams, NEW R \in SUBSET Registered,
             pc[d] = "register", Evict(R), Registered' \subseteq R \cup {key[d]}
      PROVE  CapKept'
  BY Zenon, <1>3, RoomMade, OneMore DEF CapKept
<1> QED
  BY Zenon, <1>2, <1>3, PoolGrows

LEMMA SocketCapInit == D!Init => D!SocketCapKept
<1> SUFFICES ASSUME D!Init PROVE D!SocketCapKept
  OBVIOUS
<1>1. D!Registered = {}
  BY DEF D!Init, D!Registered
<1> QED
  BY <1>1, SameCount, FS_EmptySet, UDPPoolAssumption DEF D!SocketCapKept

LEMMA SocketCapNext ==
  ASSUME SocketInv, D!SocketCapKept, D!Next
  PROVE  D!SocketCapKept'
<1> DEFINE R == D!Registered
<1>1. IsFiniteSet(R) /\ Cardinality(R) \in Nat /\ Cardinality(R) <= maxUDPExchanges
  <2>1. IsFiniteSet(R)
    BY Zenon, UDPPoolAssumption, FS_Subset DEF D!Registered
  <2> QED
    BY Zenon, <2>1, FS_CardinalityType, SameCount DEF D!SocketCapKept
<1>2. ASSUME Cardinality(R') <= maxUDPExchanges PROVE D!SocketCapKept'
  BY Zenon, <1>2, SameCount DEF D!SocketCapKept
<1>3. CASE R' \subseteq R
  BY Zenon, <1>1, <1>2, <1>3, Fewer
<1>4. ASSUME NEW d \in Datagrams, NEW k \in R, R' \subseteq (R \ {k}) \cup {key[d]}
      PROVE  D!SocketCapKept'
  <2> HIDE DEF R
  <2>1. IsFiniteSet(R \ {k}) /\ Cardinality(R \ {k}) = Cardinality(R) - 1
    BY Zenon, <1>1, <1>4, FS_RemoveElement
  <2>2. Cardinality(R \ {k}) < maxUDPExchanges
    BY <1>1, <2>1, UDPPoolAssumption
  <2>3. Cardinality(R') <= maxUDPExchanges
    BY Zenon, <1>4, <2>1, <2>2, OneMore
  <2> QED
    BY Zenon, <1>2, <2>3
<1>5. ASSUME NEW d \in Datagrams, ~(D!Cardinality(R) >= maxUDPExchanges), R' \subseteq R \cup {key[d]}
      PROVE  D!SocketCapKept'
  <2> HIDE DEF R
  <2>1. Cardinality(R) < maxUDPExchanges
    BY <1>1, <1>5, SameCount, UDPPoolAssumption
  <2>2. Cardinality(R') <= maxUDPExchanges
    BY Zenon, <1>1, <1>5, <2>1, OneMore
  <2> QED
    BY Zenon, <1>2, <2>2
<1> QED
  BY <1>3, <1>4, <1>5, SocketsGrow

-----------------------------------------------------------------------------
VARIABLE part  \* which of them moves

MCInit ==
  /\ Init /\ evicted = [d \in Datagrams |-> None]
  /\ part \in {"exchanges", "sockets"}
MCNext ==
  /\ \/ part = "exchanges" /\ Next /\ UNCHANGED evicted
     \/ part = "sockets" /\ D!Next /\ UNCHANGED <<sent, held, reaped, stale>>
  /\ UNCHANGED part
mcVars == <<vars, evicted, part>>
MCSpec == MCInit /\ [][MCNext]_mcVars

(* UDPPool and DirectUDP: an exchange or a socket that is open is in its   *)
(* map, or with a goroutine about to register or to close it; each is read *)
(* by one loop, however many datagrams shared its flight; neither map      *)
(* grows past maxUDPExchanges, although exchanges are opened and sockets   *)
(* dialed outside the lock; nothing is registered behind the scan that     *)
(* close makes.  They keep their types.                                    *)
ExchangesOwned ==
  /\ part = "exchanges" => TypeOK /\ NoOrphan /\ OneReader /\ CapKept /\ ClosedEmpty
  /\ part = "sockets" => D!TypeOK /\ D!NoSocketLeak /\ D!OneLoop /\ D!SocketCapKept /\ D!ClosedEmpty

(* UDPPool: every datagram is sent once, whether it opened the exchange,   *)
(* waited for it or found it (SentOnce), and what is registered has a loop *)
(* that reads it (EntryServed).                                            *)
DatagramsServed == part = "exchanges" => SentOnce /\ EntryServed

-----------------------------------------------------------------------------
(* The part that moves keeps its invariant.                                *)
ProxyInv ==
  /\ part = "exchanges" => PoolInv /\ CapKept
  /\ part = "sockets" => SocketInv /\ D!SocketCapKept

LEMMA ProxyInit == MCInit => ProxyInv
<1> SUFFICES ASSUME MCInit PROVE ProxyInv
  OBVIOUS
<1>1. D!Init
  BY Zenon DEF MCInit, Init, D!Init
<1> QED
  BY Zenon, <1>1, PoolInit, CapInit, SocketInit, SocketCapInit DEF MCInit, ProxyInv

LEMMA ProxyNext == ProxyInv /\ [MCNext]_mcVars => ProxyInv'
<1> SUFFICES ASSUME ProxyInv, [MCNext]_mcVars PROVE ProxyInv'
  OBVIOUS
<1>1. CASE part = "exchanges" /\ part' = part /\ Next
  BY Zenon, <1>1, PoolNext, CapNext DEF ProxyInv
<1>2. CASE part = "sockets" /\ part' = part /\ D!Next
  BY Zenon, <1>2, SocketNext, SocketCapNext DEF ProxyInv
<1>3. CASE UNCHANGED mcVars
  <2>1. UNCHANGED <<vars, evicted, part>>
    BY Zenon, <1>3 DEF mcVars
  <2>2. (PoolInv /\ CapKept => PoolInv' /\ CapKept') /\ (SocketInv /\ D!SocketCapKept => SocketInv' /\ D!SocketCapKept')
    BY Zenon, <2>1, PoolStays, SocketStays
  <2> QED
    BY Zenon, <2>1, <2>2 DEF ProxyInv
<1> QED
  BY Zenon, <1>1, <1>2, <1>3 DEF MCNext

(* What udp_pool.go guards by its lock and its singleflight groups: an     *)
(* exchange or a socket that is open is in its map or with the goroutine   *)
(* about to register or close it, it is read by one loop, neither map      *)
(* grows past maxUDPExchanges, and nothing is registered behind close, for *)
(* any number of datagrams and keys.                                       *)
THEOREM ExchangesOwnedHolds == MCSpec => []ExchangesOwned
<1>1. ProxyInv => ExchangesOwned
  BY Zenon, PoolSound DEF ProxyInv, SocketInv, OfSocket, ExchangesOwned, D!OneLoop
<1> QED
  BY <1>1, ProxyInit, ProxyNext, PTL DEF MCSpec

(* Every datagram of acquireExchange is sent once, by its creator or by    *)
(* the one that found or waited for the exchange, and what is in the map   *)
(* has a receiveLoop.                                                      *)
THEOREM DatagramsServedHolds == MCSpec => []DatagramsServed
<1>1. ProxyInv => DatagramsServed
  BY PoolSound DEF ProxyInv, DatagramsServed
<1> QED
  BY <1>1, ProxyInit, ProxyNext, PTL DEF MCSpec

=============================================================================
