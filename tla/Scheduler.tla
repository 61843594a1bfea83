------------------------------ MODULE Scheduler ------------------------------
(***************************************************************************)
(* The two slot pools of the HTTP/2 transport under concurrent Opens, the  *)
(* health loop and CloseIdle (transport/http2/scheduler.go, with the parts *)
(* of client.go, stream.go and lifecycle.go that act on the pools).        *)
(*                                                                         *)
(* The scheduler's RWMutex is held shared from a pick to the counting of   *)
(* the stream, and exclusively while a pool grows or shrinks; counters and *)
(* flags change without it.  What a stream carries and how a slot comes to *)
(* be degraded or expiring is left open here.                              *)
(***************************************************************************)
EXTENDS Integers, Sequences, FiniteSets

(***************************************************************************)
(* How the HTTP/2 transport chooses a slot for a new stream and when a     *)
(* pool grows (transport/http2/scheduler.go): pure functions of what the   *)
(* slots carry.                                                            *)
(*                                                                         *)
(* A view v has the fields active and heavy (functions from slots to       *)
(* numbers) and expiring and degraded (sets of slots).  A pool p has the   *)
(* fields slots (a sequence, of which the first live are in use), live,    *)
(* max and base.  A loop that keeps the first best slot it has seen is the *)
(* slot with the least key, the earlier one of two equal ones.             *)
(***************************************************************************)

slotTierOf(v, s) ==
  IF s \in v.degraded /\ s \in v.expiring THEN "retiring"
  ELSE IF s \in v.degraded THEN "degraded"
  ELSE IF v.heavy[s] > 0 THEN "heavy"
  ELSE IF s \in v.expiring THEN "expiring"
  ELSE "active"

slotWeight(v, s) ==
  (IF v.heavy[s] > 0 THEN 4 ELSE 1) * (IF s \in v.expiring THEN 8 ELSE 1)
    * (IF s \in v.degraded THEN 16 ELSE 1)

negativeScore(v, s) ==
  (IF v.heavy[s] > 0 THEN 4 ELSE 0) + (IF s \in v.expiring THEN 8 ELSE 0)
    + (IF s \in v.degraded THEN 16 ELSE 0)

draining(v, s) == v.active[s] = 0 /\ s \in v.expiring \cup v.degraded

weightedActive(v, s) == (IF draining(v, s) THEN 1 ELSE v.active[s]) * slotWeight(v, s)

Live(p) == {p.slots[i] : i \in 1 .. p.live}

-----------------------------------------------------------------------------
floorLog2[n \in Nat] == IF n <= 1 THEN 0 ELSE 1 + floorLog2[n \div 2]

(* The least number of streams on a slot of a nonempty set.                *)
minActive(v, S) == CHOOSE n \in {v.active[s] : s \in S} : \A s \in S : n <= v.active[s]

(* Level 0: some healthy slot has room.  Level k: all carry 2^(k-1) * base *)
(* streams at least.                                                       *)
pressureLevel(v, p) ==
  LET healthy == {s \in Live(p) : slotTierOf(v, s) = "active"}
      least == IF healthy # {} THEN minActive(v, healthy)
               ELSE LET n == minActive(v, Live(p)) IN IF n < p.base THEN p.base ELSE n
  IN IF least < p.base THEN 0 ELSE 1 + floorLog2[least \div p.base]

(* Mutant: the tiers are opened one level too early.                       *)
tierCapDouble(tier, level, base) ==
  IF tier \in {"active", "retiring"} THEN (IF level = 0 /\ tier = "active" THEN base ELSE 0)
  ELSE IF level = 0 THEN 0 ELSE base * 2 ^ level

tierCap(tier, level, base) ==
  IF tier \in {"active", "retiring"} THEN (IF level = 0 /\ tier = "active" THEN base ELSE 0)
  ELSE IF level = 0 THEN 0 ELSE base * 2 ^ (level - 1)

-----------------------------------------------------------------------------
Less(a, b) ==
  \/ a[1] < b[1]
  \/ a[1] = b[1] /\ a[2] < b[2]
  \/ a[1] = b[1] /\ a[2] = b[2] /\ a[3] < b[3]

(* The slot, among the positions I, with the least key; the first of them. *)
FirstLeast(p, I, key(_)) ==
  p.slots[CHOOSE i \in I : \A j \in I :
    ~Less(key(p.slots[j]), key(p.slots[i])) /\ (j < i => Less(key(p.slots[i]), key(p.slots[j])))]

(* Mutant: idle slots that are due for eviction are not set aside.         *)
leastActiveAll(v, p) ==
  FirstLeast(p, 1 .. p.live, LAMBDA s : <<weightedActive(v, s), negativeScore(v, s), 0>>)

(* The least loaded slot; one due for eviction only when all are.          *)
leastActive(v, p) ==
  LET evicted(s) == slotTierOf(v, s) = "retiring" \/ draining(v, s)
      key(s) == <<weightedActive(v, s), negativeScore(v, s), IF draining(v, s) THEN 1 ELSE 0>>
      I == {i \in 1 .. p.live : ~evicted(p.slots[i])}
  IN FirstLeast(p, IF I # {} THEN I ELSE 1 .. p.live, key)

(* The positions with room in a tier.                                      *)
Room(v, p, tier, level) ==
  {i \in 1 .. p.live : /\ slotTierOf(v, p.slots[i]) = tier /\ ~draining(v, p.slots[i])
                       /\ weightedActive(v, p.slots[i]) < tierCap(tier, level, p.base)}

Tiers == <<"active", "expiring", "heavy", "degraded">>

(* The slot of the first tier with room, and whether all tiers are full.   *)
tieredSelectAt(v, p) ==
  IF p.live = 0 THEN [slot |-> p.slots[1], saturated |-> FALSE]
  ELSE LET level == pressureLevel(v, p)
           room(k) == Room(v, p, Tiers[k], IF k > 1 /\ level = 0 THEN 1 ELSE level)
           open == {k \in 1 .. 4 : room(k) # {}}
           key(s) == <<v.active[s], negativeScore(v, s), 0>>
       IN IF open = {} THEN [slot |-> leastActive(v, p), saturated |-> TRUE]
          ELSE LET k == CHOOSE k \in open : \A l \in open : k <= l
               IN [slot |-> FirstLeast(p, room(k), key), saturated |-> FALSE]

(* A saturated pool borrows from the other one, if that has room or its    *)
(* least loaded slot is lighter.                                           *)
pick(v, own, other) ==
  LET mine == tieredSelectAt(v, own)
      theirs == tieredSelectAt(v, other)
  IN IF /\ mine.saturated /\ other.max > 0
        /\ ~theirs.saturated \/ weightedActive(v, theirs.slot) < weightedActive(v, mine.slot)
     THEN theirs.slot ELSE mine.slot

saturatedIn(v, p) == tieredSelectAt(v, p).saturated

CanGrow(v, p) == p.live < p.max /\ (p.live = 0 \/ saturatedIn(v, p))

(* Which of the two pools grows for a stream of the pool own, if any.      *)
growTarget(v, own, other) ==
  IF own.live < own.max THEN (IF CanGrow(v, own) THEN {"own"} ELSE {})
  ELSE IF own.live > 0 /\ ~saturatedIn(v, own) THEN {}
  ELSE IF CanGrow(v, other) THEN {"other"} ELSE {}

-----------------------------------------------------------------------------

CONSTANTS
  Openers,        \* goroutines in Open
  MaxSlots,       \* slots of both pools
  PrioritySlots,  \* of which this many are asked for by the priority pool
  Threshold,
  MaxStreams      \* bound: streams at a time

(* What the code asks of its configuration.                                *)
SchedulerAssumption ==
  /\ MaxSlots \in Nat \ {0} /\ PrioritySlots \in Nat /\ Threshold \in Nat \ {0}
  /\ MaxStreams \in Nat

VARIABLES
  slots, live,         \* of each pool
  active, heavy,       \* of each slot: streams, heavy streams
  expiring, degraded,  \* slots with that mark
  pc, high, at,        \* of each opener: its priority, the slot it was given
  hpc, hs,             \* the health loop and the slot it looks at
  cpc                  \* the caller of CloseIdle that holds the lock: the pool it is at

poolVars == <<slots, live>>
countVars == <<active, heavy>>
flagVars == <<expiring, degraded>>
openVars == <<pc, high, at>>
healthVars == <<hpc, hs>>
vars == <<poolVars, countVars, flagVars, openVars, healthVars, cpc>>

Pools == {"priority", "bulk"}
Slots == 1 .. MaxSlots

(* newScheduler: the priority pool gets at least one slot, and leaves one  *)
(* to the bulk pool unless it is the only one.                             *)
pMax ==
  LET asked == IF PrioritySlots > MaxSlots THEN MaxSlots ELSE PrioritySlots
      p == IF asked < 1 THEN 1 ELSE asked
  IN IF MaxSlots - p < 1 /\ p > 1 THEN MaxSlots - 1 ELSE p
Max(q) == IF q = "priority" THEN pMax ELSE MaxSlots - pMax
Own(q) == IF q = "priority" THEN 1 .. pMax ELSE pMax + 1 .. MaxSlots

view == [active |-> active, heavy |-> heavy, expiring |-> expiring, degraded |-> degraded]
Pool(q) == [slots |-> slots[q], live |-> live[q], max |-> Max(q),
            base |-> IF q = "priority" THEN Threshold ELSE 2 * Threshold]

poolOf(hi) == IF hi \/ Max("bulk") = 0 THEN "priority" ELSE "bulk"
otherPool(q) == IF q = "priority" THEN "bulk" ELSE "priority"

LiveSlots == Live(Pool("priority")) \cup Live(Pool("bulk"))

(* Mutant: the lock is given up between the pick and the counting.         *)
NoReadersPick == cpc = "idle"

(* Nobody holds the lock: it can be taken exclusively.                     *)
NoReaders == cpc = "idle" /\ \A o \in Openers : pc[o] # "picked"

TypeOK ==
  /\ slots \in [Pools -> Seq(Slots)] /\ live \in [Pools -> Nat]
  /\ active \in [Slots -> Nat] /\ heavy \in [Slots -> Nat]
  /\ expiring \subseteq Slots /\ degraded \subseteq Slots
  /\ pc \in [Openers -> {"idle", "lock", "pick", "picked"}]
  /\ high \in [Openers -> BOOLEAN] /\ at \in [Openers -> Slots]
  /\ hpc \in {"idle", "health", "retire", "remove"} /\ hs \in Slots
  /\ cpc \in Pools \cup {"idle"}

Init ==
  /\ slots = [q \in Pools |-> IF q = "priority" THEN [i \in 1 .. pMax |-> i]
                              ELSE [i \in 1 .. MaxSlots - pMax |-> pMax + i]]
  /\ live = [q \in Pools |-> 0]
  /\ active = [s \in Slots |-> 0] /\ heavy = [s \in Slots |-> 0]
  /\ expiring = {} /\ degraded = {}
  /\ pc = [o \in Openers |-> "idle"]
  /\ high = [o \in Openers |-> FALSE] /\ at = [o \in Openers |-> 1]
  /\ hpc = "idle" /\ hs = 1 /\ cpc = "idle"

-----------------------------------------------------------------------------
(* Open.  grow looks once without the lock, and again with it.             *)
target(o) ==
  LET own == poolOf(high[o]) IN
  {IF x = "own" THEN own ELSE otherPool(own) : x \in growTarget(view, Pool(own), Pool(otherPool(own)))}

(* Streams that are open or about to be.                                   *)
Streams ==
  Cardinality({<<s, i>> \in Slots \X (1 .. MaxStreams) : i <= active[s]})
    + Cardinality({o \in Openers : pc[o] # "idle"})

Request(o, hi) ==
  /\ pc[o] = "idle" /\ Streams < MaxStreams
  /\ high' = [high EXCEPT ![o] = hi]
  /\ LET own == poolOf(hi) IN
     pc' = [pc EXCEPT ![o] = IF growTarget(view, Pool(own), Pool(otherPool(own))) = {}
                             THEN "pick" ELSE "lock"]
  /\ UNCHANGED <<poolVars, countVars, flagVars, at, healthVars, cpc>>

Activate(o, q, n) ==
  LET fresh == {slots[q][i] : i \in live[q] + 1 .. live[q] + n} IN
  /\ live' = [live EXCEPT ![q] = @ + n]
  /\ expiring' = expiring \ fresh /\ degraded' = degraded \ fresh
  /\ pc' = [pc EXCEPT ![o] = "pick"]

(* Mutant: under the lock only the capacity is looked at again.            *)
growUnchecked(o) ==
  /\ pc[o] = "lock" /\ NoReaders
  /\ LET q == poolOf(high[o]) IN
     Activate(o, q, IF live[q] = 0 /\ Max(q) >= 2 THEN 2 ELSE IF live[q] < Max(q) THEN 1 ELSE 0)
  /\ UNCHANGED <<slots, countVars, high, at, healthVars, cpc>>

grow(o) ==
  /\ pc[o] = "lock" /\ NoReaders
  /\ IF target(o) = {}
     THEN pc' = [pc EXCEPT ![o] = "pick"] /\ UNCHANGED <<live, flagVars>>
     ELSE \E q \in target(o) : Activate(o, q, IF live[q] = 0 /\ Max(q) >= 2 THEN 2 ELSE 1)
  /\ UNCHANGED <<slots, countVars, high, at, healthVars, cpc>>

Pick(o) ==
  /\ pc[o] = "pick" /\ cpc = "idle"
  /\ LET own == poolOf(high[o]) IN
     at' = [at EXCEPT ![o] = pick(view, Pool(own), Pool(otherPool(own)))]
  /\ pc' = [pc EXCEPT ![o] = "picked"] /\ high' = [high EXCEPT ![o] = FALSE]
  /\ UNCHANGED <<poolVars, countVars, flagVars, healthVars, cpc>>

Count(o) ==
  /\ pc[o] = "picked"
  /\ active' = [active EXCEPT ![at[o]] = @ + 1]
  /\ pc' = [pc EXCEPT ![o] = "idle"] /\ at' = [at EXCEPT ![o] = 1]
  /\ UNCHANGED <<poolVars, heavy, flagVars, high, healthVars, cpc>>

(* The streams of a slot: one becomes heavy, one ends.                     *)
accumulate(s) ==
  /\ heavy[s] < active[s]
  /\ heavy' = [heavy EXCEPT ![s] = @ + 1]
  /\ UNCHANGED <<poolVars, active, flagVars, openVars, healthVars, cpc>>

(* Mutant: releaseHeavy does not ask whether the stream was heavy.         *)
DoneUnflagged(s, wasHeavy) ==
  /\ active[s] > 0
  /\ active' = [active EXCEPT ![s] = @ - 1]
  /\ heavy' = [heavy EXCEPT ![s] = @ - 1]
  /\ UNCHANGED <<poolVars, flagVars, openVars, healthVars, cpc>>

Done(s, wasHeavy) ==
  /\ active[s] > 0
  /\ IF wasHeavy THEN heavy[s] > 0 ELSE heavy[s] < active[s]
  /\ active' = [active EXCEPT ![s] = @ - 1]
  /\ heavy' = [heavy EXCEPT ![s] = IF wasHeavy THEN @ - 1 ELSE @]
  /\ UNCHANGED <<poolVars, flagVars, openVars, healthVars, cpc>>

(* A connection is dialed or given up: its marks go with it.               *)
resetRotation(s) ==
  /\ s \in expiring \cup degraded
  /\ expiring' = expiring \ {s} /\ degraded' = degraded \ {s}
  /\ UNCHANGED <<poolVars, countVars, openVars, healthVars, cpc>>

-----------------------------------------------------------------------------
(* The health loop works on a copy of the live slots, made under the lock; *)
(* a slot may be removed, grown again and used before its turn comes.      *)
evaluate(s) ==
  /\ hpc = "idle" /\ cpc = "idle" /\ s \in LiveSlots
  /\ hpc' = "health" /\ hs' = s
  /\ UNCHANGED <<poolVars, countVars, flagVars, openVars, cpc>>

(* A slot may be found degraded, by its throughput or by a probe, and one  *)
(* with heavy streams recovered.  Other streams may have used and left it  *)
(* meanwhile, so nothing is asked of a slot before it is marked.           *)
evaluateSlotHealth ==
  \/ degraded' \in {degraded, degraded \cup {hs}}
  \/ heavy[hs] > 0 /\ degraded' = degraded \ {hs}

evaluateRotation ==
  IF hs \in expiring
  THEN expiring' = IF active[hs] = 0 THEN expiring \ {hs} ELSE expiring
  ELSE expiring' \in {expiring, expiring \cup {hs}}

(* The two look at different marks of the slot and neither at the other's. *)
evaluateSlot ==
  /\ hpc = "health" /\ evaluateSlotHealth /\ evaluateRotation
  /\ hpc' = "retire"
  /\ UNCHANGED <<poolVars, countVars, openVars, hs, cpc>>

RetireCheck ==
  /\ hpc = "retire"
  /\ \/ hpc' = "idle" /\ hs' = 1
     \/ hs \in degraded /\ active[hs] = 0 /\ hpc' = "remove" /\ UNCHANGED hs
  /\ UNCHANGED <<poolVars, countVars, flagVars, openVars, cpc>>

-----------------------------------------------------------------------------
(* Mutant: the last slot takes the place of the removed one, which is      *)
(* lost.                                                                   *)
removeAtLost(ss, i, n) == [ss EXCEPT ![i] = ss[n]]

(* A slot leaves the live range by changing places with the last one.      *)
removeAtLocked(ss, i, n) == [ss EXCEPT ![i] = ss[n], ![n] = ss[i]]

(* Mutant: the number of streams seen before the lock is trusted.          *)
removeUnchecked ==
  /\ hpc = "remove" /\ NoReaders
  /\ IF hs \notin LiveSlots
     THEN UNCHANGED poolVars
     ELSE \E q \in Pools : \E i \in 1 .. live[q] :
            /\ slots[q][i] = hs
            /\ slots' = [slots EXCEPT ![q] = removeAtLocked(@, i, live[q])]
            /\ live' = [live EXCEPT ![q] = @ - 1]
  /\ hpc' = "idle" /\ hs' = 1
  /\ UNCHANGED <<countVars, flagVars, openVars, cpc>>

remove ==
  /\ hpc = "remove" /\ NoReaders
  /\ IF active[hs] # 0 \/ hs \notin LiveSlots
     THEN UNCHANGED poolVars
     ELSE \E q \in Pools : \E i \in 1 .. live[q] :
            /\ slots[q][i] = hs
            /\ slots' = [slots EXCEPT ![q] = removeAtLocked(@, i, live[q])]
            /\ live' = [live EXCEPT ![q] = @ - 1]
  /\ hpc' = "idle" /\ hs' = 1
  /\ UNCHANGED <<countVars, flagVars, openVars, cpc>>

(* CloseIdle: under the exclusive lock, the first idle slot of the         *)
(* priority pool is removed until there is none, then those of the bulk    *)
(* pool; streams may end meanwhile.                                        *)
CloseIdle ==
  /\ cpc = "idle" /\ NoReaders
  /\ cpc' = "priority"
  /\ UNCHANGED <<poolVars, countVars, flagVars, openVars, healthVars>>

Idle(q) == {i \in 1 .. live[q] : active[slots[q][i]] = 0}

removeIdleLocked ==
  /\ cpc \in Pools
  /\ IF Idle(cpc) = {}
     THEN cpc' = (IF cpc = "priority" THEN "bulk" ELSE "idle") /\ UNCHANGED poolVars
     ELSE \E i \in Idle(cpc) :
            /\ \A j \in Idle(cpc) : i <= j
            /\ slots' = [slots EXCEPT ![cpc] = removeAtLocked(@, i, live[cpc])]
            /\ live' = [live EXCEPT ![cpc] = @ - 1]
            /\ UNCHANGED cpc
  /\ UNCHANGED <<countVars, flagVars, openVars, healthVars>>

-----------------------------------------------------------------------------
OpenStep(o) ==
  \/ \E hi \in BOOLEAN : Request(o, hi)
  \/ grow(o) \/ Pick(o) \/ Count(o)
SlotStep(s) == accumulate(s) \/ Done(s, TRUE) \/ Done(s, FALSE) \/ resetRotation(s)
HealthStep ==
  (\E s \in Slots : evaluate(s)) \/ evaluateSlot \/ RetireCheck \/ remove

Next ==
  \/ \E o \in Openers : OpenStep(o)
  \/ \E s \in Slots : SlotStep(s)
  \/ HealthStep
  \/ CloseIdle \/ removeIdleLocked

Spec == Init /\ [][Next]_vars

-----------------------------------------------------------------------------
(* Whatever grows, is removed and is swapped, a pool keeps its own slots,  *)
(* each once, and has no more of them live than there are.                 *)
PoolsIntact ==
  \A q \in Pools :
    /\ {slots[q][i] : i \in DOMAIN slots[q]} = Own(q) /\ Len(slots[q]) = Max(q)
    /\ live[q] <= Max(q)

(* A slot with streams is in the live range, where the health loop, Stats  *)
(* and the next pick see it, or is the first of an empty pool, which the   *)
(* next Open takes back first: remove counts again under the lock, and the *)
(* lock is shared from the pick to the counting.                           *)
StrandedAtHead ==
  \A s \in Slots : active[s] > 0 =>
    s \in LiveSlots \/ \E q \in Pools : live[q] = 0 /\ s = slots[q][1]

(* A slot due for eviction is given to a stream only when every live slot  *)
(* of its pool is due, so that new streams do not put its rotation off.    *)
Due(s) == draining(view, s) \/ slotTierOf(view, s) = "retiring"
EvictionLast ==
  [][\A o \in Openers : pc'[o] = "picked" /\ pc[o] # "picked" /\ Due(at'[o]) =>
       \A q \in Pools : at'[o] \in Live(Pool(q)) => \A s \in Live(Pool(q)) : Due(s)]_vars

(* A pool grows only when it is empty or has no room at that moment,       *)
(* however many Opens found it full before they got the lock.              *)
GrowthNeeded ==
  [][\A q \in Pools : live'[q] > live[q] => live[q] = 0 \/ saturatedIn(view, Pool(q))]_vars

(* An impaired slot is preferred to a healthy one of its pool only if it   *)
(* carries less, weighted: the room a tier gets at a level is never more   *)
(* than what every healthy slot has at that level.                         *)
LightestWins ==
  \A q \in Pools : live[q] > 0 =>
    \A s \in Live(Pool(q)) : slotTierOf(view, s) = "active" =>
      weightedActive(view, tieredSelectAt(view, Pool(q)).slot) <= active[s]

(* A stream is put on a slot without room only when nothing can grow: pick *)
(* and growTarget agree on what is full.                                   *)
SaturatedWhenFull ==
  \A q \in Pools : LET other == Pool(otherPool(q)) IN
    live[q] > 0 /\ saturatedIn(view, Pool(q)) /\ growTarget(view, Pool(q), other) = {} =>
      live[q] = Max(q) /\ (other.live < other.max => ~saturatedIn(view, other))
=============================================================================
