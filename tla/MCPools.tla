------------------------------ MODULE MCPools ------------------------------
(***************************************************************************)
(* The pools of the client for TLC: the UDP exchanges and direct sockets   *)
(* of MCProxy, and the slots of the HTTP/2 transport, which share nothing: *)
(* one of them moves, the others stay as they began.  For what concerns    *)
(* the choice of a slot only, every load of the live slots by the numbers  *)
(* of streams in Loads: more than the Opens of a small instance can bring  *)
(* about.                                                                  *)
(***************************************************************************)
EXTENDS MCProxy, Sequences

CONSTANTS
  Openers, MaxSlots, PrioritySlots, Threshold, MaxStreams,
  Loads  \* on both sides of the boundaries of the pressure levels

VARIABLES slots, live, active, heavy, expiring, degraded, place, high, at, hpc, hs, closeIdle

slotVars == <<slots, live, active, heavy, expiring, degraded, place, high, at, hpc, hs, closeIdle>>

S == INSTANCE Scheduler WITH pc <- place, cpc <- closeIdle

ASSUME SchedulerHolds == S!SchedulerAssumption

AnyLoad ==
  /\ \E n \in [S!Pools -> 0 .. MaxSlots] :
       /\ \A q \in S!Pools : n[q] <= S!Max(q)
       /\ LET L == UNION {1 .. n["priority"], S!pMax + 1 .. S!pMax + n["bulk"]} IN
          /\ expiring \in SUBSET L /\ degraded \in SUBSET L
          /\ active \in [S!Slots -> Loads] /\ heavy \in [S!Slots -> 0 .. 1]
          /\ \A s \in S!Slots : heavy[s] <= active[s] /\ (s \notin L => active[s] = 0)
       /\ live = n
  /\ slots = [q \in S!Pools |-> IF q = "priority" THEN [i \in 1 .. S!pMax |-> i]
                                ELSE [i \in 1 .. MaxSlots - S!pMax |-> S!pMax + i]]
  /\ place = [o \in Openers |-> "idle"]
  /\ high = [o \in Openers |-> FALSE] /\ at = [o \in Openers |-> 1]
  /\ hpc = "idle" /\ hs = 1 /\ closeIdle = "idle"

\* Without a UDP pool: its variables stay at None.
NoPool ==
  /\ exchanges = None /\ flight = None /\ opened = None /\ closed = None /\ sent = None
  /\ key = None /\ pc = None /\ got = None /\ held = None /\ evicted = None /\ rpc = None
  /\ starts = None /\ poolClosed = None /\ cpc = None /\ reaped = None /\ stale = None

PoolsInit ==
  \/ MCInit /\ S!Init
  \/ NoPool /\ part = "slots" /\ S!Init
  \/ NoPool /\ part = "loads" /\ AnyLoad
PoolsNext ==
  \/ MCNext /\ UNCHANGED slotVars
  \/ part = "slots" /\ S!Next /\ UNCHANGED mcVars
PoolsSpec == PoolsInit /\ [][PoolsNext]_<<mcVars, slotVars>>

(* Scheduler: whatever grows, is removed and is swapped, a pool keeps its  *)
(* slots (PoolsIntact), a slot with streams stays where the health loop    *)
(* and the next Open find it (StrandedAtHead), and no count of streams     *)
(* goes below zero (TypeOK).                                               *)
SlotPoolsSound == S!TypeOK /\ S!PoolsIntact /\ S!StrandedAtHead

(* Scheduler: a slot due for eviction gets a stream only when every live   *)
(* slot of its pool is due (EvictionLast), and a pool grows only when it   *)
(* has no room at that moment, however many Opens found it full            *)
(* (GrowthNeeded).                                                         *)
SlotMoves == S!EvictionLast /\ S!GrowthNeeded

(* Scheduler: the choice of a slot, under every load: an impaired slot is  *)
(* preferred only if it carries less, weighted, than every healthy slot of *)
(* its pool (LightestWins), and a slot without room gets a stream only     *)
(* when nothing can grow (SaturatedWhenFull).                              *)
ChoiceUnderLoad == part = "loads" => S!LightestWins /\ S!SaturatedWhenFull
=============================================================================
