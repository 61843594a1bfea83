--------------------------- MODULE SlotGeneration ---------------------------
(***************************************************************************)
(* One slot of the HTTP/2 transport: its generations (a net/http pool each *)
(* time), the identity of the connection a generation holds, and everybody *)
(* who dials, judges, retires or rotates that connection                   *)
(* (transport/http2/slot.go, client.go, stream.go, lifecycle.go).          *)
(*                                                                         *)
(* Nothing here is under one lock: a step is one atomic load, store or     *)
(* compare-and-swap, or a run of them whose middle nobody else can tell    *)
(* from its ends.  net/http is external: a request of a generation gets    *)
(* any usable connection of that generation's pool or has one dialed, and  *)
(* a pooled connection may be recycled at any moment.  Clocks and byte     *)
(* counters are abstracted: an idle, lifetime or byte limit may turn out   *)
(* to be exceeded whenever the code looks.                                 *)
(***************************************************************************)
EXTENDS Integers, Sequences, FiniteSets

CONSTANTS
  Streams,    \* goroutines that Open a stream, use it and Close it
  Dialers,    \* net/http dial goroutines
  Sweepers,   \* whoever detects a suspend: the health loop, or Open
  Health,     \* the health loop
  Closers,    \* callers of CloseIdle
  MaxConns    \* bound: connections dialed in all

Threads == Streams \cup Dialers \cup Sweepers \cup Health \cup Closers

ASSUME ThreadsAssumption ==
  /\ Streams \cap Dialers = {} /\ Streams \cap Sweepers = {} /\ Streams \cap Health = {}
  /\ Streams \cap Closers = {} /\ Dialers \cap Sweepers = {} /\ Dialers \cap Health = {}
  /\ Dialers \cap Closers = {} /\ Sweepers \cap Health = {} /\ Sweepers \cap Closers = {}
  /\ Health \cap Closers = {}
  /\ MaxConns \in Nat

VARIABLES
  conn,       \* conn[g]: the identity generation g holds, 0 for nil
  cgen,       \* cgen[c]: the generation connection c was dialed in
  evicted,    \* net/http has called trackedConn.Close, which claimed first
  closed,     \* ... and then closed the connection
  hard,       \* closed by invalidateConnIf
  judged,     \* connections somebody found dead (history)
  deadline,   \* slot.expireAt > 0
  full,       \* slot.connBytes >= connMaxBytes
  expiring, degraded, reverify,
  live,       \* the slot is in the live range of its pool
  holder,     \* who holds reverifyMu
  pc,
  tg,         \* tg[t]: the generation t works on
  tc          \* tc[t]: the connection t expects, claimed or was given; 0 for none

connVars == <<conn, cgen, evicted, closed, hard, judged>>
slotVars == <<deadline, full, expiring, degraded, reverify>>
locals == <<tg, tc>>
vars == <<connVars, slotVars, live, holder, pc, locals>>

(* Generations are numbered; slot.gen is the last one.                     *)
gen == Len(conn)
Conns == 1 .. Len(cgen)

PCs == {"idle", "grown", "gate", "lock", "probing", "submit", "roundtrip", "inflight",
        "leave", "unlock", "reset", "advance", "hardclose",
        "dialing", "resetting", "swap", "sweep", "arm",
        "rotate", "rotated", "retire", "remove"}

TypeOK ==
  /\ conn \in Seq(Nat) /\ cgen \in Seq(Nat)
  /\ evicted \subseteq Conns /\ closed \subseteq evicted
  /\ hard \subseteq Conns /\ judged \subseteq Conns
  /\ deadline \in BOOLEAN /\ full \in BOOLEAN /\ expiring \in BOOLEAN
  /\ degraded \in BOOLEAN /\ reverify \in BOOLEAN /\ live \in BOOLEAN
  /\ holder \subseteq Streams
  /\ pc \in [Threads -> PCs]
  /\ tg \in [Threads -> Nat] /\ tc \in [Threads -> Nat]

Init ==
  /\ conn = <<0>> /\ cgen = << >>
  /\ evicted = {} /\ closed = {} /\ hard = {} /\ judged = {}
  /\ deadline = FALSE /\ full = FALSE /\ expiring = FALSE /\ degraded = FALSE /\ reverify = FALSE
  /\ live = FALSE /\ holder = {}
  /\ pc = [t \in Threads |-> "idle"]
  /\ tg = [t \in Threads |-> 1] /\ tc = [t \in Threads |-> 0]

Goto(t, l) == pc' = [pc EXCEPT ![t] = l]
Hold(t, g, c) == tg' = [tg EXCEPT ![t] = g] /\ tc' = [tc EXCEPT ![t] = c]

(* slot.active counts the streams between pick and done.                   *)
Counted == {s \in Streams : pc[s] \notin {"idle", "grown"}}
active == Cardinality(Counted)

-----------------------------------------------------------------------------
(* resetRotation and resetConn.                                            *)
ClearFlags == full' = FALSE /\ expiring' = FALSE /\ degraded' = FALSE /\ reverify' = FALSE
resetRotation == ClearFlags /\ deadline' = FALSE
resetConn == ClearFlags /\ deadline' = TRUE

(* Connections of generation g that a request may still get, and those on  *)
(* which nothing is in flight.                                             *)
Usable(g) == {c \in Conns : cgen[c] = g /\ c \notin evicted}
Busy == {tc[s] : s \in {x \in Streams \ holder :
           pc[x] \in {"inflight", "reset", "advance", "hardclose", "leave"}}}

(* A fresh generation has no connection yet.                               *)
newGen(f) == Append(f, 0)

(* Mutant: the identity stays behind.                                      *)
retireGenerationKeep(f, g, C) == IF f[g] \in C /\ Len(f) = g THEN newGen(f) ELSE f

(* net/http closes the connections C of generation g through               *)
(* trackedConn.Close; retireGeneration claims the identity, and only the   *)
(* close that claims it moves the slot to a new generation.                *)
retireGeneration(f, g, C) ==
  IF f[g] \notin C THEN f
  ELSE IF Len(f) = g THEN newGen([f EXCEPT ![g] = 0])
  ELSE [f EXCEPT ![g] = 0]

CloseIdleConnections(f, g) ==
  /\ evicted' = evicted \cup (Usable(g) \ Busy)
  /\ conn' = retireGeneration(f, g, Usable(g) \ Busy)

(* Mutant: the claim is a load and a store, not a compare-and-swap.        *)
retireConnNoSwap(t, g, expect, kept, missed) ==
  /\ Hold(t, g, expect)
  /\ IF expect # 0
     THEN /\ conn' = [conn EXCEPT ![g] = 0]
          /\ Goto(t, IF gen = g THEN "reset" ELSE kept)
     ELSE Goto(t, missed) /\ UNCHANGED conn

(* takeConn in retireConn(g, expect): the claim fails when the generation  *)
(* has no connection or another one by now; the slot is touched only if g  *)
(* is still current.                                                       *)
retireConn(t, g, expect, kept, missed) ==
  /\ Hold(t, g, expect)
  /\ IF expect # 0 /\ conn[g] = expect
     THEN /\ conn' = [conn EXCEPT ![g] = 0]
          /\ Goto(t, IF gen = g THEN "reset" ELSE kept)
     ELSE Goto(t, missed) /\ UNCHANGED conn

-----------------------------------------------------------------------------
(* Mutant: the slot does not move on before the connection is closed.      *)
RetireResetOnly(t) ==
  /\ pc[t] = "reset"
  /\ resetRotation
  /\ Goto(t, IF t \in Sweepers THEN "arm" ELSE "hardclose")
  /\ UNCHANGED <<connVars, live, holder, locals>>

(* The rest of retireConn: clear the flags, move on to a fresh generation  *)
(* if nobody has, and let the old pool close what is idle.                 *)
RetireReset(t) ==
  /\ pc[t] = "reset"
  /\ resetRotation
  /\ Goto(t, "advance")
  /\ UNCHANGED <<connVars, live, holder, locals>>

RetireAdvance(t) ==
  /\ pc[t] = "advance"
  /\ IF gen = tg[t]
     THEN CloseIdleConnections(newGen(conn), gen)
     ELSE UNCHANGED <<conn, evicted>>
  /\ Goto(t, IF t \in Sweepers THEN "arm" ELSE "hardclose")
  /\ UNCHANGED <<cgen, closed, hard, judged, slotVars, live, holder, locals>>

(* invalidateConnIf closes what it claimed.                                *)
HardClose(t) ==
  /\ pc[t] = "hardclose"
  /\ hard' = hard \cup {tc[t]}
  /\ Goto(t, IF t \in holder THEN "unlock" ELSE "leave")
  /\ UNCHANGED <<conn, cgen, evicted, closed, judged, slotVars, live, holder, locals>>

(* A verdict on connection expect of generation tg[t].                     *)
invalidateConnIf(t, expect) ==
  /\ judged' = judged \cup ({expect} \ {0})
  /\ retireConn(t, tg[t], expect, "hardclose", IF t \in holder THEN "unlock" ELSE "leave")
  /\ UNCHANGED <<cgen, evicted, closed, hard, slotVars, live, holder>>

-----------------------------------------------------------------------------
(* Open: grow takes a slot back into the live range, with its flags        *)
(* cleared; pick counts the stream.                                        *)
Grow(s) ==
  /\ pc[s] = "idle"
  /\ live' = TRUE
  /\ IF live THEN UNCHANGED slotVars ELSE resetRotation
  /\ Goto(s, "grown")
  /\ UNCHANGED <<connVars, holder, locals>>

Pick(s) ==
  /\ pc[s] = "grown"
  /\ Goto(s, "gate")
  /\ UNCHANGED <<connVars, slotVars, live, holder, locals>>

Gate(s) ==
  /\ pc[s] = "gate"
  /\ Goto(s, IF reverify THEN "lock" ELSE "submit")
  /\ UNCHANGED <<connVars, slotVars, live, holder, locals>>

(* reverifySlot up to the probe.  Whoever waited for the lock finds the    *)
(* flag cleared; without a connection there is nothing to verify; a caller *)
(* that was cancelled leaves the flag to the next one.                     *)
reverifySlot(s) ==
  /\ pc[s] = "lock" /\ holder = {}
  /\ \/ /\ ~reverify
        /\ Goto(s, "submit")
        /\ UNCHANGED <<reverify, holder, locals>>
     \/ /\ reverify /\ conn[gen] = 0
        /\ reverify' = FALSE
        /\ Goto(s, "submit")
        /\ UNCHANGED <<holder, locals>>
     \/ /\ reverify /\ conn[gen] # 0
        /\ Goto(s, "leave")
        /\ UNCHANGED <<reverify, holder, locals>>
     \/ /\ reverify /\ conn[gen] # 0
        /\ holder' = {s}
        /\ Hold(s, gen, conn[gen])
        /\ Goto(s, "probing")
        /\ UNCHANGED reverify
  /\ UNCHANGED <<connVars, deadline, full, expiring, degraded, live>>

(* slotProber.alive answers: unknown without a connection, alive, or dead. *)
ProbeAlive(s) ==
  /\ pc[s] = "probing"
  /\ Goto(s, "unlock")
  /\ UNCHANGED <<connVars, slotVars, live, holder, locals>>

ProbeDead(s) ==
  /\ pc[s] = "probing"
  /\ invalidateConnIf(s, tc[s])

(* Mutant: one return of reverifySlot forgets the lock.                    *)
UnlockForgotten(s) ==
  /\ pc[s] = "unlock"
  /\ reverify' = FALSE
  /\ Goto(s, "submit")
  /\ UNCHANGED <<connVars, deadline, full, expiring, degraded, live, holder, locals>>

(* The deferred calls of reverifySlot, in their order.                     *)
Unlock(s) ==
  /\ pc[s] = "unlock"
  /\ reverify' = FALSE /\ holder' = holder \ {s}
  /\ Goto(s, "submit")
  /\ UNCHANGED <<connVars, deadline, full, expiring, degraded, live, locals>>

(* The RoundTrip goroutine reads the generation it submits to.             *)
Submit(s) ==
  /\ pc[s] = "submit"
  /\ Hold(s, gen, 0)
  /\ Goto(s, "roundtrip")
  /\ UNCHANGED <<connVars, slotVars, live, holder>>

(* GotConn, again when net/http retries on another connection.             *)
noteConn(s) ==
  /\ pc[s] = "roundtrip" \/ (pc[s] = "inflight" /\ tc[s] \notin Usable(tg[s]))
  /\ \E c \in Usable(tg[s]) : tc' = [tc EXCEPT ![s] = c]
  /\ Goto(s, "inflight")
  /\ UNCHANGED <<connVars, slotVars, live, holder, tg>>

(* trackRead and trackWrite count the bytes of every stream of the slot.   *)
Transfer(s) ==
  /\ pc[s] = "inflight"
  /\ full' = TRUE
  /\ UNCHANGED <<connVars, deadline, expiring, degraded, reverify, live, holder, pc, locals>>

(* The client judges the connection of its stream dead.                    *)
InvalidateConn(s) ==
  /\ pc[s] = "inflight"
  /\ invalidateConnIf(s, tc[s])

(* The stream ends: normally, after an error, or after a verdict.          *)
CloseStream(s) ==
  /\ pc[s] \in {"roundtrip", "inflight", "leave"}
  /\ Hold(s, 1, 0)
  /\ Goto(s, "idle")
  /\ UNCHANGED <<connVars, slotVars, live, holder>>

-----------------------------------------------------------------------------
(* DialTLSContext: a request or a probe of some generation needs a         *)
(* connection.                                                             *)
StartDial(d) ==
  /\ pc[d] = "idle" /\ Len(cgen) < MaxConns
  /\ \E s \in {x \in Streams : pc[x] \in {"roundtrip", "probing"}} : Hold(d, tg[s], 0)
  /\ Goto(d, "dialing")
  /\ UNCHANGED <<connVars, slotVars, live, holder>>

DialFails(d) ==
  /\ pc[d] = "dialing"
  /\ Hold(d, 1, 0)
  /\ Goto(d, "idle")
  /\ UNCHANGED <<connVars, slotVars, live, holder>>

DialCheck(d) ==
  /\ pc[d] = "dialing"
  /\ Goto(d, IF gen = tg[d] THEN "resetting" ELSE "swap")
  /\ UNCHANGED <<connVars, slotVars, live, holder, locals>>

DialReset(d) ==
  /\ pc[d] = "resetting"
  /\ resetConn
  /\ Goto(d, "swap")
  /\ UNCHANGED <<connVars, live, holder, locals>>

DialSwap(d) ==
  /\ pc[d] = "swap" /\ Len(cgen) < MaxConns
  /\ cgen' = Append(cgen, tg[d])
  /\ conn' = [conn EXCEPT ![tg[d]] = Len(cgen) + 1]
  /\ Hold(d, 1, 0)
  /\ Goto(d, "idle")
  /\ UNCHANGED <<evicted, closed, hard, judged, slotVars, live, holder>>

(* net/http recycles a pooled connection: trackedConn.Close.               *)
Recycle == \E c \in Conns \ evicted :
  /\ evicted' = evicted \cup {c}
  /\ conn' = retireGeneration(conn, cgen[c], {c})
  /\ UNCHANGED <<cgen, closed, hard, judged, slotVars, live, holder, pc, locals>>

(* Mutant: the connection is closed before its identity is given up.       *)
CloseConnFirst == \E c \in Conns \ closed :
  /\ closed' = closed \cup {c}
  /\ UNCHANGED <<conn, cgen, evicted, hard, judged, slotVars, live, holder, pc, locals>>

(* The second half of trackedConn.Close, which may take seconds.           *)
CloseConn == \E c \in evicted \ closed :
  /\ closed' = closed \cup {c}
  /\ UNCHANGED <<conn, cgen, evicted, hard, judged, slotVars, live, holder, pc, locals>>

-----------------------------------------------------------------------------
(* reportSuspend: retire a connection that has been idle for too long, ... *)
SweepCheck(u) ==
  /\ pc[u] = "idle" /\ live
  /\ \/ active = 0 /\ Hold(u, gen, 0) /\ Goto(u, "sweep")
     \/ Goto(u, "arm") /\ UNCHANGED locals
  /\ UNCHANGED <<connVars, slotVars, live, holder>>

retireIdleConn(u) ==
  /\ pc[u] = "sweep"
  /\ retireConn(u, tg[u], conn[tg[u]], "arm", "arm")
  /\ UNCHANGED <<cgen, evicted, closed, hard, judged, slotVars, live, holder>>

(* ... and mark the slot suspect if it has a connection.                   *)
armSuspects(u) ==
  /\ pc[u] = "arm"
  /\ reverify' = (reverify \/ conn[gen] # 0)
  /\ Hold(u, 1, 0)
  /\ Goto(u, "idle")
  /\ UNCHANGED <<connVars, deadline, full, expiring, degraded, live, holder>>

-----------------------------------------------------------------------------
(* A lifetime, which is minutes, does not pass between two statements of   *)
(* the dial that started it.                                               *)
LifetimeOver == deadline /\ \A d \in Dialers : pc[d] # "swap"

(* The health loop passes verdicts on a slot that carries traffic or has a *)
(* connection to probe; it marks one whose lifetime or bytes are used up,  *)
Evaluate(h) ==
  /\ pc[h] = "idle" /\ live
  /\ \/ /\ active > 0 \/ conn[gen] # 0
        /\ degraded' \in BOOLEAN
        /\ UNCHANGED expiring
     \/ /\ ~expiring /\ (full \/ LifetimeOver)
        /\ expiring' = TRUE
        /\ UNCHANGED degraded
  /\ UNCHANGED <<connVars, deadline, full, reverify, live, holder, pc, locals>>

(* rotates an expired connection once the slot is idle,                    *)
RotateCheck(h) ==
  /\ pc[h] = "idle" /\ live /\ expiring /\ active = 0
  /\ Goto(h, "rotate")
  /\ UNCHANGED <<connVars, slotVars, live, holder, locals>>

RotateClose(h) ==
  /\ pc[h] = "rotate"
  /\ CloseIdleConnections(conn, gen)
  /\ Goto(h, "rotated")
  /\ UNCHANGED <<cgen, closed, hard, judged, slotVars, live, holder, locals>>

RotateClear(h) ==
  /\ pc[h] = "rotated"
  /\ expiring' = FALSE /\ deadline' = FALSE /\ full' = FALSE
  /\ Goto(h, "idle")
  /\ UNCHANGED <<connVars, degraded, reverify, live, holder, locals>>

(* and takes a degraded, idle slot out of the pool.                        *)
RetireCheck(h) ==
  /\ pc[h] = "idle" /\ live /\ degraded /\ active = 0
  /\ Goto(h, "retire")
  /\ UNCHANGED <<connVars, slotVars, live, holder, locals>>

(* CloseIdle does the same to every idle slot.                             *)
CloseIdlePool(t) ==
  /\ pc[t] = IF t \in Health THEN "retire" ELSE "idle"
  /\ CloseIdleConnections(conn, gen)
  /\ Goto(t, "remove")
  /\ UNCHANGED <<cgen, closed, hard, judged, slotVars, live, holder, locals>>

remove(t) ==
  /\ pc[t] = "remove"
  /\ live' = (live /\ active # 0)
  /\ Goto(t, "idle")
  /\ UNCHANGED <<connVars, slotVars, holder, locals>>

-----------------------------------------------------------------------------
RetireStep(t) == RetireReset(t) \/ RetireAdvance(t) \/ HardClose(t)
StreamStep(s) ==
  \/ Grow(s) \/ Pick(s) \/ Gate(s) \/ reverifySlot(s) \/ ProbeAlive(s) \/ ProbeDead(s)
  \/ Unlock(s) \/ Submit(s) \/ noteConn(s) \/ Transfer(s) \/ InvalidateConn(s) \/ CloseStream(s)
DialStep(d) == StartDial(d) \/ DialFails(d) \/ DialCheck(d) \/ DialReset(d) \/ DialSwap(d)
SweepStep(u) == SweepCheck(u) \/ retireIdleConn(u) \/ armSuspects(u)
HealthStep(h) == Evaluate(h) \/ RotateCheck(h) \/ RotateClose(h) \/ RotateClear(h) \/ RetireCheck(h)
PoolStep(t) == CloseIdlePool(t) \/ remove(t)

Next ==
  \/ \E t \in Streams \cup Sweepers : RetireStep(t)
  \/ \E s \in Streams : StreamStep(s)
  \/ \E d \in Dialers : DialStep(d)
  \/ \E u \in Sweepers : SweepStep(u)
  \/ \E h \in Health : HealthStep(h)
  \/ \E t \in Health \cup Closers : PoolStep(t)
  \/ Recycle \/ CloseConn

Spec == Init /\ [][Next]_vars

(* A goroutine that can go on does, a round trip and a probe end, and      *)
(* reverifyMu, like every Go mutex, starves nobody.                        *)
Fairness ==
  /\ \A t \in Streams : WF_vars(RetireStep(t))
  /\ \A s \in Streams :
       /\ WF_vars(Pick(s) \/ Gate(s) \/ ProbeAlive(s) \/ ProbeDead(s) \/ Unlock(s)
                  \/ Submit(s) \/ CloseStream(s))
       /\ SF_vars(reverifySlot(s))
FairSpec == Spec /\ Fairness

-----------------------------------------------------------------------------
(* The identity a generation holds is a connection of that generation that *)
(* nobody has claimed, closed or begun to close: trackedConn.Close and     *)
(* invalidateConnIf both clear it, by compare-and-swap, before they close. *)
IdentityOpen ==
  \A g \in DOMAIN conn : conn[g] # 0 =>
    conn[g] \in Usable(g) \ hard

(* Two verdicts on the same connection: only the winner of the swap in     *)
(* takeConn goes on to retire and to close it.                             *)
Claims(t) == pc[t] \in {"reset", "advance", "hardclose"}
ClaimedOnce ==
  \A t, u \in Threads : Claims(t) /\ Claims(u) /\ tc[t] = tc[u] => t = u

(* invalidateConnIf closes a connection under the streams it carries only  *)
(* if that very connection was found dead, not the one that took its place *)
(* in the generation, and only after the slot has moved on, whatever raced *)
(* it: no Open that starts afterwards finds it in its pool.                *)
HardClosedRetired == \A c \in hard : c \in judged /\ cgen[c] < gen

(* A generation is retired only for a connection of its own, so one        *)
(* connection never costs two generations.                                 *)
GenerationsSpent == \A g \in 1 .. gen - 1 : \E c \in Conns : cgen[c] = g

(* An Open that has picked the slot comes to its end, although reverifyMu  *)
(* is held across a round trip on a connection that may be dead.           *)
OpenEnds == \A s \in Streams : []<>(pc[s] = "idle")

(* The connection of the current generation has a deadline, or is already  *)
(* on its way out (config/timeouts.go:29: ConnLifetime is the longest a    *)
(* connection lives before it is rotated).                                 *)
LiveConnHasDeadline == conn[gen] # 0 => deadline \/ expiring
=============================================================================
