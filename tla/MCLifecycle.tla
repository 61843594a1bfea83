---------------------------- MODULE MCLifecycle ----------------------------
(***************************************************************************)
(* The suspend sampler and the health of a slot, which share lifecycle.go  *)
(* and no state, the opening of a stream with the verdicts on connections  *)
(* (Bootstrap), and the start and the shutdown of the server: proofs, and  *)
(* for TLC their sum, in which one of them moves and the others stay as    *)
(* they began.                                                             *)
(***************************************************************************)
EXTENDS SuspendSampler, TLAPS

ASSUME SuspendHolds == SuspendAssumption

-----------------------------------------------------------------------------
(* What the sampler holds: an unset baseline has no first, and a sampler   *)
(* in its loop never publishes the unset value.                            *)
Claims ==
  /\ baseline = suspendBaselineUnset => first = 0
  /\ \A s \in Samplers : pc[s] # "idle" => offset[s] # suspendBaselineUnset

IInv == TypeOK /\ Claims

(* Time limits for the leaves below.                                       *)
USE SMTT(30), ZenonT(30)

LEMMA InitIInv == SuspendAssumption /\ Init => IInv
  BY DEF SuspendAssumption, Init, IInv, TypeOK, Claims, suspendBaselineUnset

(* A sampler's own steps preserve the types.                               *)
LEMMA SamplerTypes ==
  ASSUME SuspendAssumption, TypeOK, NEW s \in Samplers,
         Sample(s) \/ Load(s) \/ Swap(s) \/ Retry(s) \/ Report(s)
  PROVE  TypeOK'
<1>1. CASE Sample(s)
  BY <1>1 DEF SuspendAssumption, TypeOK, Sample
<1>2. CASE Load(s)
  BY <1>2 DEF TypeOK, Load
<1>3. CASE Swap(s)
  <2> DEFINE divergence == IF prev[s] = suspendBaselineUnset THEN 0 ELSE offset[s] - prev[s]
  <2>1. offset[s] \in Nat /\ prev[s] \in Nat /\ divergence \in Int
    BY DEF TypeOK
  <2>3. pc' \in [Samplers -> {"idle", "load", "cas", "report"}]
    BY <1>3 DEF TypeOK, Swap
  <2>4. first' \in Nat /\ latest' \in Nat /\ baseline' \in Nat
    BY <1>3, <2>1 DEF TypeOK, Swap
  <2> QED
    BY <1>3, <2>3, <2>4 DEF TypeOK, Swap
<1>4. CASE Retry(s)
  BY <1>4 DEF TypeOK, Retry
<1>5. CASE Report(s)
  BY <1>5 DEF TypeOK, Report
<1> QED
  BY <1>1, <1>2, <1>3, <1>4, <1>5

(* A winning CAS sets the baseline.                                        *)
LEMMA SwapClaims ==
  ASSUME IInv, NEW s \in Samplers, Swap(s)
  PROVE  Claims'
<1>1. baseline' # suspendBaselineUnset
  BY DEF IInv, TypeOK, Claims, Swap, suspendBaselineUnset
<1>2. ASSUME NEW t \in Samplers, pc'[t] # "idle"
      PROVE  offset'[t] # suspendBaselineUnset
  <2>1. pc[t] # "idle"
    BY <1>2 DEF Swap, IInv, TypeOK
  <2> QED
    BY <2>1 DEF Swap, IInv, Claims
<1> QED
  BY <1>1, <1>2 DEF Claims

(* The other steps leave the baseline alone.                               *)
LEMMA OtherClaims ==
  ASSUME IInv, NEW s \in Samplers, Sample(s) \/ Load(s) \/ Retry(s) \/ Report(s)
  PROVE  Claims'
<1>1. UNCHANGED <<baseline, first>>
  BY DEF Sample, Load, Retry, Report
<1>2. ASSUME NEW t \in Samplers, pc'[t] # "idle"
      PROVE  offset'[t] # suspendBaselineUnset
  <2>1. CASE Sample(s)
    BY <1>2, <2>1 DEF Sample, IInv, TypeOK, Claims, suspendBaselineUnset
  <2>2. CASE Load(s)
    BY <1>2, <2>2 DEF Load, IInv, TypeOK, Claims
  <2>3. CASE Retry(s)
    BY <1>2, <2>3 DEF Retry, IInv, TypeOK, Claims
  <2>4. CASE Report(s)
    BY <1>2, <2>4 DEF Report, IInv, TypeOK, Claims
  <2> QED
    BY <2>1, <2>2, <2>3, <2>4
<1> QED
  BY <1>1, <1>2 DEF IInv, Claims

LEMMA NextIInv == SuspendAssumption /\ IInv /\ [Next]_vars => IInv'
<1> SUFFICES ASSUME SuspendAssumption, IInv, [Next]_vars PROVE IInv'
  OBVIOUS
<1>1. CASE Drift
  BY <1>1 DEF SuspendAssumption, Drift, IInv, TypeOK, Claims
<1>2. CASE Suspend
  BY <1>2 DEF SuspendAssumption, Suspend, IInv, TypeOK, Claims
<1>3. ASSUME NEW s \in Samplers,
             Sample(s) \/ Load(s) \/ Swap(s) \/ Retry(s) \/ Report(s)
      PROVE  IInv'
  BY <1>3, SamplerTypes, SwapClaims, OtherClaims DEF IInv
<1>4. CASE UNCHANGED vars
  BY <1>4 DEF vars, IInv, TypeOK, Claims
<1> QED
  BY <1>1, <1>2, <1>3, <1>4 DEF Next

-----------------------------------------------------------------------------
(***************************************************************************)
(* No suspend goes unnoticed, for any number of samplers, any drift below  *)
(* the threshold and any number of suspends.  The readings of the clocks   *)
(* fall into epochs, one for each suspend so far: readings of one epoch    *)
(* are close, those of different epochs are a suspend apart.               *)
(***************************************************************************)
InEpoch(a, k) == Sleep * k + 1 <= a /\ a <= Sleep * k + 1 + MaxDrift

Apart(a, b) ==
  \E k, j \in Nat :
    /\ InEpoch(a, k) /\ InEpoch(b, j)
    /\ k < j => b - a >= Sleep
    /\ j < k => a - b >= Sleep

(* The clock, and what the samplers and the baseline still hold of it.     *)
Readings ==
  {clock} \cup ({baseline, first, latest} \ {suspendBaselineUnset})
    \cup {offset[s] : s \in {r \in Samplers : pc[r] \in {"load", "cas"}}}

ReadingsApart ==
  /\ clock = Sleep * suspends + 1 + drifted
  /\ \A a \in Readings : a \in Nat /\ a <= clock
  /\ \A a, b \in Readings : Apart(a, b)

(* As long as nothing was reported or is about to be, what was published   *)
(* is of the epoch of the first baseline or of an earlier one.             *)
NothingMissed ==
  /\ baseline = suspendBaselineUnset <=> first = suspendBaselineUnset
  /\ baseline = suspendBaselineUnset <=> latest = suspendBaselineUnset
  /\ baseline # suspendBaselineUnset /\ suspendEvents = 0
     /\ (\A s \in Samplers : pc[s] # "report")
       => baseline - first <= MaxDrift /\ latest - first <= MaxDrift

NInv == IInv /\ ReadingsApart /\ NothingMissed


LEMMA EpochsApart ==
  ASSUME SuspendAssumption, NEW k \in Nat, NEW j \in Nat, k < j
  PROVE  Sleep * k + Sleep <= Sleep * j
<1>1. Sleep \in Nat /\ j - k - 1 \in Nat /\ j = k + 1 + (j - k - 1)
  BY DEF SuspendAssumption
<1>2. ASSUME NEW a \in Nat, NEW b \in Nat, NEW c \in Nat
      PROVE  a * (b + 1 + c) = a * b + a + a * c /\ a * c \in Nat /\ a * b \in Nat
  BY SMT
<1>3. Sleep * j = Sleep * k + Sleep + Sleep * (j - k - 1) /\ Sleep * (j - k - 1) \in Nat /\ Sleep * k \in Nat
  BY <1>1, <1>2
<1> QED
  BY <1>1, <1>3

LEMMA InItsEpoch ==
  ASSUME SuspendAssumption, NEW a \in Nat, NEW k \in Nat, NEW d \in Nat,
         d <= MaxDrift, a = Sleep * k + 1 + d
  PROVE  InEpoch(a, k)
<1> DEFINE x == Sleep * k
<1>1. x \in Nat /\ MaxDrift \in Nat /\ a = x + 1 + d
  BY DEF SuspendAssumption
<1>2. InEpoch(a, k) <=> x + 1 <= a /\ a <= x + 1 + MaxDrift
  BY DEF InEpoch
<1> HIDE DEF x
<1> QED
  BY <1>1, <1>2

(* A reading is of one epoch only.                                         *)
LEMMA OneEpoch ==
  ASSUME SuspendAssumption, NEW a \in Nat, NEW k \in Nat, NEW j \in Nat,
         InEpoch(a, k), InEpoch(a, j)
  PROVE  k = j
<1> DEFINE x == Sleep * k  y == Sleep * j
<1>1. x \in Nat /\ y \in Nat /\ Sleep \in Nat /\ MaxDrift \in Nat /\ MaxDrift < Sleep
  BY DEF SuspendAssumption
<1>2. (k < j => x + Sleep <= y) /\ (j < k => y + Sleep <= x)
  BY EpochsApart
<1>3. x + 1 <= a /\ a <= x + 1 + MaxDrift /\ y + 1 <= a /\ a <= y + 1 + MaxDrift
  BY DEF InEpoch
<1> HIDE DEF x, y
<1> QED
  BY <1>1, <1>2, <1>3

(* What is close to a reading that is close to another is close to it.     *)
LEMMA CloseChain ==
  ASSUME SuspendAssumption, NEW a \in Nat, NEW b \in Nat, NEW c \in Nat,
         Apart(a, b), Apart(b, c), Apart(a, c),
         b - a <= MaxDrift, c - b < SuspendDivergenceThreshold
  PROVE  c - a <= MaxDrift
<1>1. PICK k \in Nat, j \in Nat : InEpoch(a, k) /\ InEpoch(b, j) /\ (k < j => b - a >= Sleep)
  BY DEF Apart
<1>2. PICK l \in Nat : InEpoch(c, l) /\ (j < l => c - b >= Sleep)
  BY <1>1, OneEpoch DEF Apart
<1>3. l < k => a - c >= Sleep
  BY <1>1, <1>2, OneEpoch DEF Apart
<1>4. /\ Sleep \in Nat /\ MaxDrift \in Nat /\ MaxDrift < Sleep
      /\ SuspendDivergenceThreshold \in Nat /\ SuspendDivergenceThreshold <= Sleep
  BY DEF SuspendAssumption
<1>5. j <= k /\ l <= j
  BY <1>1, <1>2, <1>4
<1>6. CASE l = k
  <2> DEFINE x == Sleep * k
  <2>1. x \in Nat /\ x + 1 <= a /\ c <= x + 1 + MaxDrift
    BY <1>1, <1>2, <1>4, <1>6 DEF InEpoch
  <2> HIDE DEF x
  <2> QED
    BY <1>4, <2>1
<1>7. CASE l < k
  BY <1>3, <1>4, <1>7
<1> QED
  BY <1>5, <1>6, <1>7


LEMMA InitNInv == SuspendAssumption /\ Init => NInv
<1> SUFFICES ASSUME SuspendAssumption, Init PROVE NInv
  OBVIOUS
<1>1. Readings = {1} /\ clock = 1 /\ suspends = 0 /\ drifted = 0
  BY DEF Init, Readings, suspendBaselineUnset
<1>2. Sleep \in Nat /\ MaxDrift \in Nat /\ Sleep * 0 = 0
  BY DEF SuspendAssumption
<1>3. InEpoch(1, 0)
  BY <1>2 DEF InEpoch
<1>4. Apart(1, 1)
  BY <1>3 DEF Apart
<1>5. ReadingsApart
  BY <1>1, <1>2, <1>4 DEF ReadingsApart
<1>6. NothingMissed
  BY DEF Init, NothingMissed, suspendBaselineUnset
<1> QED
  BY <1>5, <1>6, InitIInv DEF NInv

(* The clock moves on, within its epoch or into the next: every reading    *)
(* there is stays as far from it as it should.                             *)
LEMMA ClockMoves ==
  ASSUME SuspendAssumption, TypeOK, ReadingsApart, Drift \/ Suspend
  PROVE  ReadingsApart'
<1>1. /\ Sleep \in Nat /\ MaxDrift \in Nat /\ MaxDrift < Sleep
      /\ clock \in Nat /\ suspends \in Nat /\ drifted \in Nat /\ drifted <= MaxDrift
  BY DEF SuspendAssumption, TypeOK
<1>2. Readings' \subseteq Readings \cup {clock'} /\ clock \in Readings
  BY DEF Drift, Suspend, Readings
<1>3. /\ clock' \in Nat /\ suspends' \in Nat /\ drifted' \in Nat /\ drifted' <= MaxDrift
      /\ clock' = Sleep * suspends' + 1 + drifted' /\ clock' > clock
  <2>1. CASE Drift
    BY <1>1, <2>1 DEF Drift, ReadingsApart
  <2>2. CASE Suspend
    <3>1. Sleep * (suspends + 1) = Sleep * suspends + Sleep /\ Sleep * suspends \in Nat
      BY <1>1, SMT
    <3>2. suspends' = suspends + 1 /\ clock' = clock + Sleep /\ drifted' = drifted
      BY <2>2 DEF Suspend
    <3> DEFINE x == Sleep * suspends  y == Sleep * (suspends + 1)
    <3>3. clock = x + 1 + drifted /\ y = x + Sleep /\ x \in Nat
      BY <3>1 DEF ReadingsApart
    <3>4. clock' = Sleep * suspends' + 1 + drifted' <=> clock' = y + 1 + drifted'
      BY <3>2
    <3> HIDE DEF x, y
    <3> QED
      BY <1>1, <3>2, <3>3, <3>4
  <2> QED
    BY <2>1, <2>2
<1>4. ASSUME NEW a \in Readings PROVE Apart(a, clock') /\ Apart(clock', a)
  <2>1. a \in Nat /\ a <= clock /\ Apart(a, clock)
    BY <1>2 DEF ReadingsApart
  <2>2. InEpoch(clock', suspends') /\ InEpoch(clock, suspends)
    BY <1>1, <1>3, InItsEpoch DEF ReadingsApart
  <2>3. PICK k \in Nat : InEpoch(a, k) /\ (k < suspends => clock - a >= Sleep)
    BY <1>1, <2>1, <2>2, OneEpoch DEF Apart
  <2>4. k <= suspends
    <3> DEFINE x == Sleep * k  y == Sleep * suspends
    <3>1. x \in Nat /\ y \in Nat /\ (suspends < k => y + Sleep <= x)
      BY <1>1, EpochsApart
    <3>2. x + 1 <= a /\ clock = y + 1 + drifted
      BY <2>3 DEF InEpoch, ReadingsApart
    <3> HIDE DEF x, y
    <3> QED
      BY <1>1, <2>1, <3>1, <3>2
  <2>5. k < suspends' => clock' - a >= Sleep
    <3>1. CASE Drift
      BY <1>1, <1>3, <2>1, <2>3, <3>1 DEF Drift
    <3>2. CASE Suspend
      BY <1>1, <2>1, <3>2 DEF Suspend
    <3> QED
      BY <3>1, <3>2
  <2>6. ~(suspends' < k)
    BY <1>1, <2>4 DEF Drift, Suspend
  <2> QED
    BY <1>3, <2>2, <2>3, <2>5, <2>6 DEF Apart
<1>5. Apart(clock', clock')
  <2>1. InEpoch(clock', suspends')
    BY <1>1, <1>3, InItsEpoch
  <2> QED
    BY <1>3, <2>1 DEF Apart
<1>6. ASSUME NEW a \in Readings' PROVE a \in Nat /\ a <= clock'
  <2>1. \A r \in Readings : r \in Nat /\ r <= clock
    BY DEF ReadingsApart
  <2>2. clock \in Nat /\ clock' \in Nat /\ clock' > clock
    BY Zenon, <1>1, <1>3
  <2> QED
    BY <1>2, <2>1, <2>2
<1>7. ASSUME NEW a \in Readings', NEW b \in Readings' PROVE Apart(a, b)
  BY <1>2, <1>4, <1>5 DEF ReadingsApart
<1> QED
  BY <1>3, <1>6, <1>7 DEF ReadingsApart


(* A sampler's step adds no reading that was not there.                    *)
LEMMA SamplerReads ==
  ASSUME NInv, NEW s \in Samplers,
         Sample(s) \/ Load(s) \/ Swap(s) \/ Retry(s) \/ Report(s)
  PROVE  ReadingsApart'
<1>1. UNCHANGED <<clock, suspends, drifted>>
  BY DEF Sample, Load, Swap, Retry, Report
<1>2. Readings' \subseteq Readings
  <2>1. ASSUME NEW t \in Samplers, pc'[t] \in {"load", "cas"} PROVE offset'[t] \in Readings
    BY <2>1 DEF NInv, IInv, TypeOK, Readings, Sample, Load, Swap, Retry, Report
  <2>2. {baseline', first', latest'} \ {suspendBaselineUnset} \subseteq Readings
    <3>1. CASE Swap(s)
      <4>1. offset[s] \in Readings
        BY <3>1 DEF Swap, Readings
      <4>2. baseline' = offset[s] /\ first' \in {first, offset[s]} /\ latest' \in {latest, offset[s]}
        BY <3>1 DEF Swap
      <4> QED
        BY <4>1, <4>2 DEF Readings
    <3>2. CASE ~Swap(s)
      BY <3>2 DEF Sample, Load, Retry, Report, Readings
    <3> QED
      BY <3>1, <3>2
  <2> QED
    BY <1>1, <2>1, <2>2 DEF Readings, suspendBaselineUnset
<1> QED
  BY <1>1, <1>2 DEF NInv, ReadingsApart

(* A winning CAS that reports nothing stays in the epoch of the baseline   *)
(* it replaces or goes back to an earlier one.                             *)
LEMMA SwapMisses ==
  ASSUME SuspendAssumption, NInv, NEW s \in Samplers, Swap(s)
  PROVE  NothingMissed'
<1>1. /\ offset[s] \in Nat \ {0} /\ prev[s] = baseline /\ baseline \in Nat /\ first \in Nat
      /\ latest \in Nat /\ MaxDrift \in Nat /\ baseline' = offset[s]
  BY DEF NInv, IInv, TypeOK, Claims, Swap, SuspendAssumption, suspendBaselineUnset
<1>2. first' = (IF baseline = 0 THEN offset[s] ELSE first)
  BY <1>1 DEF Swap, suspendBaselineUnset
<1>3. latest' = (IF offset[s] > latest THEN offset[s] ELSE latest)
  BY DEF Swap
<1>4. (baseline = 0 <=> first = 0) /\ (baseline = 0 <=> latest = 0)
  BY DEF NInv, NothingMissed, suspendBaselineUnset
<1>5. baseline' # 0 /\ first' # 0 /\ latest' # 0
  BY <1>1, <1>2, <1>3, <1>4
<1>6. ASSUME suspendEvents' = 0, \A t \in Samplers : pc'[t] # "report"
      PROVE  baseline' - first' <= MaxDrift /\ latest' - first' <= MaxDrift
  <2>1. CASE baseline = 0
    BY <1>1, <1>2, <1>3, <1>4, <2>1
  <2>2. CASE baseline # 0
    <3>1. suspendEvents = 0 /\ \A t \in Samplers : pc[t] # "report"
      BY <1>6 DEF Swap, NInv, IInv, TypeOK
    <3>2. baseline - first <= MaxDrift /\ latest - first <= MaxDrift
      BY <2>2, <3>1 DEF NInv, NothingMissed, suspendBaselineUnset
    <3>3. offset[s] - baseline < SuspendDivergenceThreshold
      BY <1>1, <1>6, <2>2 DEF Swap, NInv, IInv, TypeOK, suspendBaselineUnset
    <3>4. {first, baseline, offset[s]} \subseteq Readings
      BY <1>4, <2>2 DEF Readings, Swap, suspendBaselineUnset
    <3>5. Apart(first, baseline) /\ Apart(baseline, offset[s]) /\ Apart(first, offset[s])
      BY <3>4 DEF NInv, ReadingsApart
    <3>6. offset[s] - first <= MaxDrift
      BY <1>1, <3>2, <3>3, <3>5, CloseChain
    <3> QED
      BY <1>1, <1>2, <1>3, <2>2, <3>2, <3>6
  <2> QED
    BY <2>1, <2>2
<1> QED
  BY <1>5, <1>6 DEF NothingMissed, suspendBaselineUnset

(* The other steps publish nothing; Report counts what was pending.        *)
LEMMA OtherMisses ==
  ASSUME NInv, NEW s \in Samplers, Sample(s) \/ Load(s) \/ Retry(s) \/ Report(s)
  PROVE  NothingMissed'
<1>1. UNCHANGED <<baseline, first, latest>>
  BY DEF Sample, Load, Retry, Report
<1>2. CASE Report(s)
  <2>1. suspendEvents' # 0
    BY <1>2 DEF Report, NInv, IInv, TypeOK
  <2> QED
    BY <1>1, <2>1 DEF NInv, NothingMissed
<1>3. CASE ~Report(s)
  <2>1. suspendEvents' = suspendEvents /\ \A t \in Samplers : pc[t] = "report" => pc'[t] = "report"
    BY <1>3 DEF Sample, Load, Retry, NInv, IInv, TypeOK
  <2> QED
    BY <1>1, <2>1 DEF NInv, NothingMissed
<1> QED
  BY <1>2, <1>3

LEMMA NextNInv == SuspendAssumption /\ NInv /\ [Next]_vars => NInv'
<1> SUFFICES ASSUME SuspendAssumption, NInv, [Next]_vars PROVE NInv'
  OBVIOUS
<1>1. IInv'
  BY NextIInv DEF NInv
<1>2. CASE Drift \/ Suspend
  <2>1. ReadingsApart'
    BY <1>2, ClockMoves DEF NInv, IInv
  <2>2. NothingMissed'
    BY <1>2 DEF Drift, Suspend, NInv, NothingMissed
  <2> QED
    BY <1>1, <2>1, <2>2 DEF NInv
<1>3. ASSUME NEW s \in Samplers,
             Sample(s) \/ Load(s) \/ Swap(s) \/ Retry(s) \/ Report(s)
      PROVE  NInv'
  BY <1>1, <1>3, SamplerReads, SwapMisses, OtherMisses DEF NInv
<1>4. CASE UNCHANGED vars
  <2>1. Readings' = Readings /\ clock' = clock /\ suspends' = suspends /\ drifted' = drifted
    BY <1>4 DEF vars, Readings
  <2>2. ReadingsApart'
    BY <2>1 DEF NInv, ReadingsApart
  <2>3. NothingMissed'
    BY <1>4 DEF vars, NInv, NothingMissed
  <2> QED
    BY <1>1, <2>2, <2>3 DEF NInv
<1> QED
  BY <1>2, <1>3, <1>4 DEF Next

(* Whoever wins and loses the race for the baseline, a suspend that a call *)
(* of observeSuspend has sampled is counted once no call is under way.     *)
THEOREM SuspendNoticedHolds ==
  ASSUME SuspendAssumption PROVE Spec => []SuspendNoticed
<1>1. ASSUME NInv PROVE SuspendNoticed
  <2> SUFFICES ASSUME \A s \in Samplers : pc[s] = "idle",
                      latest - first >= SuspendDivergenceThreshold, ~(suspendEvents >= 1)
               PROVE  FALSE
    BY DEF SuspendNoticed
  <2>1. /\ suspendEvents = 0 /\ \A s \in Samplers : pc[s] # "report"
        /\ latest \in Nat /\ first \in Nat /\ MaxDrift \in Nat
        /\ SuspendDivergenceThreshold \in Nat \ {0} /\ MaxDrift < SuspendDivergenceThreshold
    BY <1>1 DEF NInv, IInv, TypeOK, SuspendAssumption
  <2>2. CASE baseline = suspendBaselineUnset
    BY <1>1, <2>1, <2>2 DEF NInv, NothingMissed, suspendBaselineUnset
  <2>3. CASE baseline # suspendBaselineUnset
    BY <1>1, <2>1, <2>3 DEF NInv, NothingMissed
  <2> QED
    BY <2>2, <2>3
<1> QED
  BY InitNInv, NextNInv, <1>1, PTL DEF Spec

-----------------------------------------------------------------------------
(***************************************************************************)
(* OpeningSound for any number of calls, attempts and connections: a call  *)
(* has at most the stream of its attempt, and who judges a connection has  *)
(* seen it dead or a stream fail on it.                                    *)
(***************************************************************************)
CONSTANTS Calls, MaxDialed, bootstrapMaxAttempts

\* A call has at least one attempt.
ASSUME OpeningAssumption == MaxDialed \in Nat /\ bootstrapMaxAttempts \in Nat \ {0}

VARIABLES conns, alive, usable, accused, killed, bpc, attempt, bconn, open, cancelled

bvars == <<conns, alive, usable, accused, killed, bpc, attempt, bconn, open, cancelled>>

B == INSTANCE Bootstrap WITH pc <- bpc, conn <- bconn, MaxConns <- MaxDialed

(* A call has the stream of its attempt open exactly between Open and the  *)
(* verdict; it comes to the verdict uncancelled only if the connection is  *)
(* dead, or a stream failed or a probe was not answered on it; what was    *)
(* given up is not handed out.                                             *)
OfCall(c) ==
  /\ open[c] = (IF bpc[c] \in {"write", "await", "probe", "judge", "ok"} THEN {attempt[c]} ELSE {})
  /\ bpc[c] = "settle" => attempt[c] < bootstrapMaxAttempts
  /\ bconn[c] <= conns
  /\ bpc[c] = "judge" /\ c \notin cancelled => bconn[c] \notin alive \/ bconn[c] \in accused
  /\ bpc[c] \in {"write", "settle", "await", "probe", "judge"} => bconn[c] # 0

HandedOut == usable \subseteq 1 .. conns /\ killed \subseteq 1 .. conns /\ usable \cap killed = {}

OpeningInv ==
  /\ B!TypeOK
  /\ \A c \in Calls : OfCall(c)
  /\ HandedOut
LEMMA OpeningInit == B!Init => OpeningInv
<1> SUFFICES ASSUME B!Init PROVE OpeningInv
  OBVIOUS
<1>1. B!TypeOK
  BY OpeningAssumption DEF B!Init, B!TypeOK, B!Conns
<1>2. \A c \in Calls : OfCall(c)
  BY DEF B!Init, OfCall
<1> QED
  BY <1>1, <1>2 DEF OpeningInv, HandedOut, B!Init

(* A step of one call: the others stay, and what may be held against a     *)
(* connection only grows.                                                  *)
OthersKept(c) ==
  \A w \in Calls : w # c => /\ bpc'[w] = bpc[w] /\ attempt'[w] = attempt[w]
                            /\ bconn'[w] = bconn[w] /\ open'[w] = open[w]
Onward ==
  /\ conns <= conns' /\ \A x \in alive' : x \in alive \/ x > conns
  /\ accused \subseteq accused' /\ cancelled \subseteq cancelled'

LEMMA OneCall ==
  ASSUME OpeningInv, B!TypeOK', NEW c \in Calls, OfCall(c)', OthersKept(c), Onward, HandedOut'
  PROVE  OpeningInv'
<1>1. ASSUME NEW w \in Calls, w # c PROVE OfCall(w)'
  <2>1. OfCall(w) /\ bconn[w] \in Nat /\ conns \in Nat /\ conns' \in Nat
    BY OpeningAssumption DEF OpeningInv, B!TypeOK
  <2>2. /\ bpc'[w] = bpc[w] /\ attempt'[w] = attempt[w]
        /\ bconn'[w] = bconn[w] /\ open'[w] = open[w]
    BY <1>1 DEF OthersKept
  <2>3. bconn[w] <= conns'
    BY <2>1 DEF OfCall, Onward
  <2>4. bconn[w] \notin alive => bconn[w] \notin alive'
    BY <2>1 DEF OfCall, Onward
  <2> QED
    BY <2>1, <2>2, <2>3, <2>4 DEF OfCall, Onward
<1> QED
  BY Zenon, <1>1 DEF OpeningInv

LEMMA StartStep ==
  ASSUME OpeningInv, NEW c \in Calls, B!Start(c)
  PROVE  OpeningInv'
<1>1. /\ UNCHANGED <<conns, alive, usable, accused, killed, attempt, bconn, open, cancelled>> /\ bpc[c] = "idle"
      /\ B!TypeOK /\ OfCall(c)
  BY DEF B!Start, B!connVars, OpeningInv
<1>2. PICK l \in {"open", "failed"} : bpc' = [bpc EXCEPT ![c] = l]
  BY DEF B!Start, B!Goto
<1>3. B!TypeOK'
  BY <1>1, <1>2 DEF B!TypeOK
<1>4. bpc'[c] \in {"open", "failed"} /\ \A w \in Calls : w # c => bpc'[w] = bpc[w]
  BY Zenon, <1>1, <1>2 DEF B!TypeOK
<1>5. OfCall(c)'
  BY <1>1, <1>4 DEF OfCall
<1>6. OthersKept(c)
  BY <1>1, <1>4 DEF OthersKept
<1>7. Onward /\ HandedOut'
  BY <1>1, OpeningAssumption DEF B!TypeOK, OpeningInv, Onward, HandedOut
<1> QED
  BY <1>3, <1>5, <1>6, <1>7, OneCall

LEMMA NewStreamStep ==
  ASSUME OpeningInv, NEW c \in Calls, B!Open(c)
  PROVE  OpeningInv' /\ (bpc'[c] = "write" => bconn'[c] \notin killed)
<1>1. /\ UNCHANGED <<accused, killed, attempt, cancelled>> /\ bpc[c] = "open"
      /\ B!TypeOK /\ OfCall(c) /\ open[c] = {} /\ conns \in Nat /\ conns <= MaxDialed
      /\ attempt[c] \in 1 .. bootstrapMaxAttempts
  BY OpeningAssumption DEF B!Open, OpeningInv, OfCall, B!TypeOK
<1>2. CASE B!Goto(c, "failed") /\ UNCHANGED <<conns, alive, usable, bconn, open>>
  <2>1. B!TypeOK'
    BY <1>1, <1>2 DEF B!TypeOK, B!Goto
  <2>2. bpc'[c] = "failed" /\ \A w \in Calls : w # c => bpc'[w] = bpc[w]
    BY <1>1, <1>2 DEF B!TypeOK, B!Goto
  <2>3. OfCall(c)'
    BY Zenon, <1>1, <1>2, <2>2 DEF OfCall
  <2>4. OthersKept(c)
    BY Zenon, <1>1, <1>2, <2>2 DEF OthersKept
  <2>5. Onward /\ HandedOut'
    <3>1. /\ conns' = conns /\ alive' = alive /\ usable' = usable
          /\ accused' = accused /\ killed' = killed /\ cancelled' = cancelled
      BY Zenon, <1>1, <1>2
    <3>2. conns <= conns'
      BY <1>1, <3>1
    <3>3. Onward
      BY Zenon, <3>1, <3>2 DEF Onward
    <3>4. HandedOut'
      BY Zenon, <3>1 DEF OpeningInv, HandedOut
    <3> QED
      BY Zenon, <3>3, <3>4
  <2>6. OpeningInv'
    BY <2>1, <2>3, <2>4, <2>5, OneCall
  <2> QED
    BY <2>2, <2>6
<1>3. ASSUME NEW n \in 0 .. MaxDialed, NEW x \in 1 .. n, conns <= n,
             conns' = n, bconn' = [bconn EXCEPT ![c] = x], open' = [open EXCEPT ![c] = @ \cup {attempt[c]}],
             B!Goto(c, "write"), alive' \subseteq 1 .. MaxDialed, \A y \in alive' : y \in alive \/ y > conns,
             usable' \subseteq 1 .. n, usable' \cap killed = {}, x \notin killed
      PROVE  OpeningInv' /\ (bpc'[c] = "write" => bconn'[c] \notin killed)
  <2>0. n \in Nat /\ x \in Nat /\ x # 0 /\ x <= n /\ n <= MaxDialed /\ 1 .. n \subseteq 1 .. MaxDialed
    BY OpeningAssumption
  <2>1. /\ bpc'[c] = "write" /\ bconn'[c] = x /\ open'[c] = {attempt[c]}
        /\ \A w \in Calls : w # c => bpc'[w] = bpc[w] /\ bconn'[w] = bconn[w] /\ open'[w] = open[w]
    BY <1>1, <1>3 DEF B!TypeOK, B!Goto
  <2>2. B!TypeOK'
    <3>1. bpc' \in [Calls -> {"idle", "open", "write", "settle", "await", "probe", "judge", "ok", "failed"}]
      BY <1>1, <1>3 DEF B!TypeOK, B!Goto
    <3>2. bconn' \in [Calls -> 0 .. MaxDialed]
      <4>1. x \in 0 .. MaxDialed
        BY <2>0, OpeningAssumption
      <4> QED
        BY <1>1, <1>3, <4>1 DEF B!TypeOK
    <3>3. open' \in [Calls -> SUBSET (1 .. bootstrapMaxAttempts)]
      BY <1>1, <1>3 DEF B!TypeOK
    <3>4. alive' \subseteq B!Conns /\ usable' \subseteq B!Conns
      BY Zenon, <1>3, <2>0 DEF B!Conns
    <3> QED
      BY <1>1, <1>3, <3>1, <3>2, <3>3, <3>4 DEF B!TypeOK
  <2>3. OfCall(c)'
    BY Zenon, <1>1, <1>3, <2>0, <2>1 DEF OfCall
  <2>4. OthersKept(c) /\ Onward
    BY Zenon, <1>1, <1>3, <2>1 DEF OthersKept, Onward
  <2>5. HandedOut'
    <3>1. \A y \in 1 .. conns : y \in 1 .. n
      BY <1>1, <1>3, <2>0
    <3> QED
      BY <1>1, <1>3, <3>1 DEF OpeningInv, HandedOut
  <2>6. OpeningInv'
    BY <2>2, <2>3, <2>4, <2>5, OneCall
  <2> QED
    BY <1>3, <2>1, <2>6
<1>4. CASE /\ usable # {}
           /\ \E x \in usable : (\A y \in usable : y <= x) /\ bconn' = [bconn EXCEPT ![c] = x]
           /\ open' = [open EXCEPT ![c] = @ \cup {attempt[c]}]
           /\ B!Goto(c, "write") /\ UNCHANGED <<conns, alive, usable>>
  <2>1. usable \in SUBSET (1 .. conns) /\ usable \cap killed = {}
    BY DEF OpeningInv, HandedOut
  <2>3. PICK x \in usable : bconn' = [bconn EXCEPT ![c] = x]
    BY Zenon, <1>4
  <2>4. x \in 1 .. conns /\ x \notin killed /\ conns \in 0 .. MaxDialed /\ conns <= conns
    BY <1>1, <2>1 DEF B!TypeOK
  <2>5. alive' \subseteq 1 .. MaxDialed /\ \A y \in alive' : y \in alive \/ y > conns
    BY <1>1, <1>4 DEF B!TypeOK, B!Conns
  <2> QED
    BY Zenon, <1>3, <1>4, <2>1, <2>3, <2>4, <2>5
<1>5. CASE /\ usable = {} /\ conns < MaxDialed
           /\ conns' = conns + 1 /\ alive' = alive \cup {conns + 1} /\ usable' = {conns + 1}
           /\ bconn' = [bconn EXCEPT ![c] = conns + 1]
           /\ open' = [open EXCEPT ![c] = @ \cup {attempt[c]}]
           /\ B!Goto(c, "write")
  <2> DEFINE n == conns + 1
  <2>1. n \in 0 .. MaxDialed /\ n \in 1 .. n /\ conns <= n /\ n > conns /\ n \in 1 .. MaxDialed
    BY <1>1, <1>5, OpeningAssumption
  <2>2. n \notin killed
    BY <1>1 DEF OpeningInv, HandedOut
  <2>3. conns' = n /\ alive' = alive \cup {n} /\ usable' = {n} /\ bconn' = [bconn EXCEPT ![c] = n]
    BY <1>5
  <2> HIDE DEF n
  <2>4. alive' \subseteq 1 .. MaxDialed /\ (\A y \in alive' : y \in alive \/ y > conns) /\ usable' \subseteq 1 .. n /\ usable' \cap killed = {}
    BY Zenon, <1>1, <2>1, <2>2, <2>3 DEF B!TypeOK, B!Conns
  <2> QED
    BY Zenon, <1>3, <1>5, <2>1, <2>2, <2>3, <2>4
<1> QED
  BY Zenon, <1>2, <1>4, <1>5 DEF B!Open, B!Goto

(* A step of a call that keeps its connection and its attempt.             *)
LEMMA QuietCall ==
  ASSUME OpeningInv, NEW c \in Calls, UNCHANGED <<conns, alive, usable, killed, attempt, bconn, cancelled>>,
         NEW l \in {"settle", "await", "probe", "judge", "ok", "failed"}, B!Goto(c, l),
         bpc[c] \in {"write", "await", "probe"},
         accused' = accused \/ accused' = accused \cup {bconn[c]},
         open' = (IF l \in {"settle", "failed"} THEN [open EXCEPT ![c] = @ \ {attempt[c]}] ELSE open),
         l = "settle" => attempt[c] < bootstrapMaxAttempts,
         l = "judge" /\ c \notin cancelled => bconn[c] \notin alive \/ bconn[c] \in accused'
  PROVE  OpeningInv'
<1>1. B!TypeOK /\ OfCall(c) /\ open[c] = {attempt[c]} /\ bconn[c] \in 0 .. MaxDialed /\ bconn[c] # 0 /\ conns \in Nat
  BY OpeningAssumption DEF OpeningInv, OfCall, B!TypeOK
<1>2. bpc'[c] = l /\ \A w \in Calls : w # c => bpc'[w] = bpc[w]
  BY <1>1 DEF B!TypeOK, B!Goto
<1>3. /\ open'[c] = (IF l \in {"settle", "failed"} THEN {} ELSE {attempt[c]})
      /\ \A w \in Calls : w # c => open'[w] = open[w]
  BY Zenon, <1>1 DEF B!TypeOK
<1>4. B!TypeOK'
  <2>1. bpc' \in [Calls -> {"idle", "open", "write", "settle", "await", "probe", "judge", "ok", "failed"}]
    BY Zenon, <1>1 DEF B!TypeOK, B!Goto
  <2>2. open' \in [Calls -> SUBSET (1 .. bootstrapMaxAttempts)]
    BY Zenon, <1>1 DEF B!TypeOK
  <2>3. accused' \subseteq B!Conns
    <3>1. bconn[c] \in B!Conns
      BY <1>1, OpeningAssumption DEF B!Conns
    <3>2. accused \subseteq B!Conns
      BY Zenon, <1>1 DEF B!TypeOK
    <3> QED
      BY <3>1, <3>2
  <2> QED
    BY Zenon, <1>1, <2>1, <2>2, <2>3 DEF B!TypeOK
<1>5. OfCall(c)'
  BY Zenon, <1>1, <1>2, <1>3 DEF OfCall
<1>6. OthersKept(c)
  BY Zenon, <1>2, <1>3 DEF OthersKept
<1>7. Onward /\ HandedOut'
  BY <1>1 DEF OpeningInv, Onward, HandedOut
<1> QED
  BY Zenon, <1>4, <1>5, <1>6, <1>7, OneCall

LEMMA RecordStep ==
  ASSUME OpeningInv, NEW c \in Calls, B!WriteRecord(c)
  PROVE  OpeningInv'
<1>1. UNCHANGED <<conns, alive, usable, killed, attempt, bconn, cancelled>> /\ bpc[c] = "write"
  BY Zenon DEF B!WriteRecord
<1>2. CASE B!Goto(c, "await") /\ UNCHANGED <<open, accused>>
  BY <1>1, <1>2, QuietCall
<1>3. ASSUME NEW closedPipe \in BOOLEAN, B!CloseStream(c), accused' = accused \cup {bconn[c]},
             B!Goto(c, IF closedPipe /\ ~B!Last(c) /\ c \notin cancelled THEN "settle" ELSE "failed")
      PROVE  OpeningInv'
  <2>1. attempt[c] \in 1 .. bootstrapMaxAttempts
    BY DEF OpeningInv, B!TypeOK
  <2>2. ~B!Last(c) => attempt[c] < bootstrapMaxAttempts
    BY <2>1, OpeningAssumption DEF B!Last
  <2>3. open' = [open EXCEPT ![c] = @ \ {attempt[c]}]
    BY <1>3 DEF B!CloseStream
  <2>4. CASE closedPipe /\ ~B!Last(c) /\ c \notin cancelled
    BY Zenon, <1>1, <1>3, <2>2, <2>3, <2>4, QuietCall
  <2>5. CASE ~(closedPipe /\ ~B!Last(c) /\ c \notin cancelled)
    BY Zenon, <1>1, <1>3, <2>3, <2>5, QuietCall
  <2> QED
    BY <2>4, <2>5
<1> QED
  BY Zenon, <1>2, <1>3 DEF B!WriteRecord

LEMMA AwaitStep ==
  ASSUME OpeningInv, NEW c \in Calls, B!Await(c) \/ B!ConnAlive(c)
  PROVE  OpeningInv'
<1>1. /\ UNCHANGED <<conns, alive, usable, killed, attempt, bconn, cancelled>> /\ bpc[c] \in {"await", "probe"}
      /\ UNCHANGED open
  BY Zenon DEF B!Await, B!ConnAlive, B!connVars
<1>2. CASE B!Goto(c, "ok") /\ UNCHANGED accused
  BY Zenon, <1>1, <1>2, QuietCall
<1>3. CASE accused' = accused \cup {bconn[c]} /\ B!Goto(c, "judge")
  BY Zenon, <1>1, <1>3, QuietCall
<1>4. CASE (c \in cancelled \/ bconn[c] \notin alive) /\ B!Goto(c, "judge") /\ UNCHANGED accused
  BY Zenon, <1>1, <1>4, QuietCall
<1>5. CASE B!Goto(c, "probe") /\ UNCHANGED accused
  BY <1>1, <1>5, QuietCall
<1> QED
  BY <1>2, <1>3, <1>4, <1>5 DEF B!Await, B!ConnAlive, B!connVars

LEMMA OnwardStays ==
  ASSUME conns \in Nat, UNCHANGED <<conns, accused, cancelled>>, alive' \subseteq alive
  PROVE  Onward
  BY DEF Onward

(* A call that has closed its stream tries again or gives up.              *)
LEMMA NextAttempt ==
  ASSUME OpeningInv, NEW c \in Calls, UNCHANGED <<conns, accused, bconn, cancelled>>,
         alive' \subseteq alive, usable' \subseteq usable, HandedOut',
         open' = [open EXCEPT ![c] = {}],
         \/ B!Goto(c, "failed") /\ UNCHANGED attempt
         \/ B!Again(c) /\ attempt[c] < bootstrapMaxAttempts
  PROVE  OpeningInv'
<1>1. /\ B!TypeOK /\ OfCall(c) /\ conns \in Nat /\ conns <= MaxDialed /\ attempt[c] \in 1 .. bootstrapMaxAttempts
      /\ bconn[c] <= conns
  BY OpeningAssumption DEF OpeningInv, OfCall, B!TypeOK
<1>2. /\ bpc'[c] \in {"failed", "open"}
      /\ \A w \in Calls : w # c => bpc'[w] = bpc[w] /\ attempt'[w] = attempt[w] /\ open'[w] = open[w]
      /\ open'[c] = {}
  BY <1>1 DEF B!TypeOK, B!Goto, B!Again
<1>3. B!TypeOK'
  <2>1. bpc' \in [Calls -> {"idle", "open", "write", "settle", "await", "probe", "judge", "ok", "failed"}]
    BY <1>1 DEF B!TypeOK, B!Goto, B!Again
  <2>2. open' \in [Calls -> SUBSET (1 .. bootstrapMaxAttempts)]
    BY <1>1 DEF B!TypeOK
  <2>3. attempt' \in [Calls -> 1 .. bootstrapMaxAttempts]
    <3>1. attempt[c] < bootstrapMaxAttempts => attempt[c] + 1 \in 1 .. bootstrapMaxAttempts
      BY <1>1, OpeningAssumption
    <3> QED
      BY Zenon, <1>1, <3>1 DEF B!TypeOK, B!Again
  <2>4. killed' \subseteq B!Conns
    BY <1>1, OpeningAssumption DEF B!Conns, HandedOut
  <2> QED
    BY <1>1, <2>1, <2>2, <2>3, <2>4 DEF B!TypeOK
<1>4. OfCall(c)'
  BY <1>1, <1>2 DEF OfCall
<1>5. OthersKept(c)
  BY Zenon, <1>2 DEF OthersKept
<1>6. Onward
  BY Zenon, <1>1, OnwardStays
<1> QED
  BY Zenon, <1>3, <1>4, <1>5, <1>6, OneCall

LEMMA SettleStep ==
  ASSUME OpeningInv, NEW c \in Calls, B!SettleRetry(c)
  PROVE  OpeningInv'
<1>1. /\ UNCHANGED <<conns, alive, accused, killed, bconn, open, cancelled>> /\ bpc[c] = "settle" /\ B!Again(c)
      /\ usable' \subseteq usable
  BY Zenon DEF B!SettleRetry
<1>2. B!TypeOK /\ open[c] = {} /\ attempt[c] < bootstrapMaxAttempts
  BY Zenon, <1>1 DEF OpeningInv, OfCall
<1>3. open' = [open EXCEPT ![c] = {}]
  BY <1>1, <1>2 DEF B!TypeOK
<1>4. HandedOut'
  BY Zenon, <1>1 DEF OpeningInv, HandedOut
<1> QED
  BY Zenon, <1>1, <1>2, <1>3, <1>4, NextAttempt

LEMMA JudgeStep ==
  ASSUME OpeningInv, NEW c \in Calls, B!Judge(c)
  PROVE  OpeningInv' /\ \A x \in killed' \ killed : x \in alive => x \in accused
<1>1. UNCHANGED <<conns, accused, bconn, cancelled>> /\ bpc[c] = "judge" /\ B!CloseStream(c)
  BY Zenon DEF B!Judge
<1>2. /\ B!TypeOK /\ OfCall(c) /\ open[c] = {attempt[c]} /\ attempt[c] \in 1 .. bootstrapMaxAttempts
      /\ bconn[c] \in 1 .. conns /\ (c \notin cancelled => bconn[c] \notin alive \/ bconn[c] \in accused)
  BY <1>1, OpeningAssumption DEF OpeningInv, OfCall, B!TypeOK
<1>3. open' = [open EXCEPT ![c] = {}]
  BY Zenon, <1>1, <1>2 DEF B!CloseStream, B!TypeOK
<1>4. CASE B!Goto(c, "failed") /\ UNCHANGED <<attempt, alive, usable, killed>>
  <2>1. OpeningInv'
    <3>1. HandedOut' /\ alive' \subseteq alive /\ usable' \subseteq usable
      BY <1>1, <1>4 DEF OpeningInv, HandedOut
    <3> QED
      BY Zenon, <1>1, <1>3, <1>4, <3>1, NextAttempt
  <2> QED
    BY <1>4, <2>1
<1>5. CASE /\ c \notin cancelled /\ B!InvalidateConn(bconn[c])
           /\ IF B!Last(c) THEN B!Goto(c, "failed") /\ UNCHANGED attempt ELSE B!Again(c)
  <2>1. killed' = killed \cup {bconn[c]} /\ usable' = usable \ {bconn[c]} /\ alive' = alive \ {bconn[c]}
    BY <1>5 DEF B!InvalidateConn
  <2>2. ~B!Last(c) => attempt[c] < bootstrapMaxAttempts
    BY <1>2, OpeningAssumption DEF B!Last
  <2>3. HandedOut' /\ alive' \subseteq alive /\ usable' \subseteq usable
    BY Zenon, <1>1, <1>2, <2>1 DEF OpeningInv, HandedOut
  <2>4. OpeningInv'
    BY Zenon, <1>1, <1>3, <1>5, <2>2, <2>3, NextAttempt
  <2> QED
    BY Zenon, <1>2, <1>5, <2>1, <2>4
<1> QED
  BY Zenon, <1>4, <1>5 DEF B!Judge

LEMMA OutsideStep ==
  ASSUME OpeningInv, (\E c \in Calls : B!Cancel(c)) \/ (\E x \in B!Conns : B!Die(x)) \/ UNCHANGED bvars
  PROVE  OpeningInv'
<1>1. /\ UNCHANGED <<conns, usable, accused, killed, bpc, attempt, bconn, open>>
      /\ alive' \subseteq alive /\ cancelled \subseteq cancelled' /\ cancelled' \subseteq Calls
  BY DEF B!Cancel, B!Die, B!connVars, B!callVars, bvars, OpeningInv, B!TypeOK
<1>2. B!TypeOK'
  BY Zenon, <1>1 DEF OpeningInv, B!TypeOK
<1>3. ASSUME NEW c \in Calls PROVE OfCall(c)'
  <2>1. OfCall(c)
    BY DEF OpeningInv
  <2> QED
    BY <1>1, <2>1 DEF OfCall
<1> QED
  BY Zenon, <1>1, <1>2, <1>3 DEF OpeningInv, HandedOut

Spared == \A x \in killed' \ killed : x \in alive => x \in accused
Elsewhere == \A c \in Calls : bpc[c] = "open" /\ bpc'[c] = "write" => bconn'[c] \notin killed

(* A step of one call leaves the places of the others.                     *)
LEMMA OthersStay ==
  ASSUME B!TypeOK, NEW c \in Calls, B!Start(c) \/ B!CallStep(c)
  PROVE  \A w \in Calls : w # c => bpc'[w] = bpc[w]
<1>1. \E l : B!Goto(c, l)
  BY DEF B!Start, B!CallStep, B!Open, B!WriteRecord, B!SettleRetry, B!Again, B!Await, B!ConnAlive, B!Judge
<1> QED
  BY Zenon, <1>1 DEF B!Goto, B!TypeOK

LEMMA OpeningNext == OpeningInv /\ B!Next => OpeningInv' /\ Spared /\ Elsewhere
<1> SUFFICES ASSUME OpeningInv, B!Next PROVE OpeningInv' /\ Spared /\ Elsewhere
  OBVIOUS
<1>1. ASSUME NEW c \in Calls, B!Start(c) \/ B!CallStep(c) PROVE OpeningInv' /\ Spared /\ Elsewhere
  <2>1. B!TypeOK /\ \A w \in Calls : w # c => bpc'[w] = bpc[w]
    BY Zenon, <1>1, OthersStay DEF OpeningInv
  <2>2. CASE B!Open(c)
    <3>1. killed' = killed
      BY <2>2 DEF B!Open
    <3> QED
      BY Zenon, <2>1, <2>2, <3>1, NewStreamStep DEF Spared, Elsewhere
  <2>3. CASE B!Judge(c)
    <3>1. bpc[c] = "judge"
      BY Zenon, <2>3 DEF B!Judge
    <3> QED
      BY Zenon, <2>1, <2>3, <3>1, JudgeStep DEF Spared, Elsewhere
  <2>4. CASE B!Start(c) \/ B!WriteRecord(c) \/ B!SettleRetry(c) \/ B!Await(c) \/ B!ConnAlive(c)
    <3>1. killed' = killed /\ bpc[c] # "open"
      BY Zenon, <2>4 DEF B!Start, B!WriteRecord, B!SettleRetry, B!Await, B!ConnAlive, B!connVars
    <3> QED
      BY <2>1, <2>4, <3>1, StartStep, RecordStep, SettleStep, AwaitStep DEF Spared, Elsewhere
  <2> QED
    BY <1>1, <2>2, <2>3, <2>4 DEF B!CallStep
<1>2. ASSUME (\E c \in Calls : B!Cancel(c)) \/ (\E x \in B!Conns : B!Die(x)) PROVE OpeningInv' /\ Spared /\ Elsewhere
  <2>1. killed' = killed /\ bpc' = bpc
    BY Zenon, <1>2 DEF B!Cancel, B!Die, B!connVars, B!callVars
  <2> QED
    BY <1>2, <2>1, OutsideStep DEF Spared, Elsewhere
<1> QED
  BY <1>1, <1>2 DEF B!Next

-----------------------------------------------------------------------------
(***************************************************************************)
(* A conviction by probes is earned, for any cycle counts and any number   *)
(* of connections: the slow probes that the loop has counted are at most   *)
(* the slow verdicts in a row.                                             *)
(***************************************************************************)
CONSTANTS DegradedPersistCycles, DegradedRecoverCycles, ProbeConfirmCycles, Probes, MaxConns

VARIABLES
  conn, dialed, dialing, live, active, heavy, degraded, speed,
  lastHeavy, lowCycles, recoverCycles, slept, suspected, probeConn, probeLow, cooling, hold,
  unsupported, hpc, link, probed, inRow, own

hvars == <<conn, dialed, dialing, live, active, heavy, degraded, speed,
           lastHeavy, lowCycles, recoverCycles, slept, suspected, probeConn, probeLow, cooling, hold,
           unsupported, hpc, link, probed, inRow, own>>

H == INSTANCE SlotHealth

ASSUME HealthAssumption ==
  /\ DegradedPersistCycles \in Nat /\ DegradedRecoverCycles \in Nat \ {0}
  /\ ProbeConfirmCycles \in Nat \ {0} /\ MaxConns \in Nat

HealthInv ==
  /\ H!TypeOK
  /\ dialing => dialed < MaxConns
  /\ hpc = "check" => unsupported < 2
  /\ probeLow <= inRow
  /\ H!ConfirmedInARow

(* The type invariant in the two parts the provers take it in.             *)
Flags ==
  /\ dialing \in BOOLEAN /\ live \in BOOLEAN /\ active \in BOOLEAN /\ heavy \in BOOLEAN
  /\ degraded \in BOOLEAN /\ slept \in BOOLEAN /\ own \in BOOLEAN /\ speed \in H!Speeds
  /\ suspected \in BOOLEAN /\ cooling \in BOOLEAN /\ hold \in BOOLEAN /\ link \in BOOLEAN
  /\ hpc \in {"tick", "sample", "retire", "remove", "probe", "check", "convict"}
Cycles ==
  /\ conn \in 0 .. MaxConns /\ dialed \in 0 .. MaxConns /\ probeConn \in 0 .. MaxConns
  /\ probed \in 0 .. MaxConns
  /\ lastHeavy \in 0 .. 1 /\ lowCycles \in 0 .. DegradedPersistCycles
  /\ recoverCycles \in 0 .. DegradedRecoverCycles - 1
  /\ probeLow \in 0 .. ProbeConfirmCycles - 1 /\ unsupported \in 0 .. 2
  /\ inRow \in 0 .. ProbeConfirmCycles
LEMMA HealthTypes == (H!TypeOK <=> Flags /\ Cycles) /\ (H!TypeOK' <=> Flags' /\ Cycles')
  BY DEF H!TypeOK, H!Conns, Flags, Cycles

LEMMA HealthInit == H!Init => HealthInv
<1> SUFFICES ASSUME H!Init PROVE HealthInv
  OBVIOUS
<1>1. Flags
  BY Zenon DEF H!Init, Flags, H!Speeds
<1>2. Cycles
  BY HealthAssumption DEF H!Init, Cycles
<1>3. dialing = FALSE /\ hpc = "tick" /\ probeLow = 0 /\ inRow = 0
  BY Zenon DEF H!Init
<1> QED
  BY <1>1, <1>2, <1>3, HealthTypes DEF HealthInv, H!ConfirmedInARow

(* The dials, the streams, the pool, the network and the deadlines.        *)
LEMMA AroundStep ==
  ASSUME HealthInv,
         \/ H!DialReset \/ H!DialSwap \/ H!Lose \/ H!Streams \/ H!Grow \/ H!Suspend
         \/ H!Weather \/ H!CooldownOver \/ H!HoldOver
  PROVE  HealthInv'
<1> USE DEF H!DialReset, H!DialSwap, H!Lose, H!Streams, H!Grow, H!Suspend, H!Weather,
            H!CooldownOver, H!HoldOver
<1>1. UNCHANGED <<lastHeavy, lowCycles, recoverCycles, probeConn, probeLow, unsupported, hpc, probed, inRow>>
  BY Zenon DEF H!counts, H!probe, H!loop, H!history
<1>2. Flags'
  <2>1. Flags
    BY Zenon, HealthTypes DEF HealthInv
  <2>2. H!DialReset \/ H!DialSwap \/ H!Grow => Flags'
    BY Zenon, <2>1 DEF Flags, H!env, H!probe, H!loop, H!counts
  <2>3. ASSUME H!Lose PROVE Flags'
    <3>1. degraded' \in BOOLEAN /\ own' \in BOOLEAN
      BY Zenon, <2>1, <2>3 DEF Flags
    <3> QED
      BY Zenon, <2>1, <2>3, <3>1 DEF Flags, H!env, H!probe, H!loop, H!counts
  <2>4. H!Streams \/ H!Suspend \/ H!CooldownOver \/ H!HoldOver => Flags'
    BY Zenon, <2>1 DEF Flags, H!env, H!net, H!probe, H!loop, H!counts, H!history
  <2>5. H!Weather => Flags'
    BY Zenon, <2>1 DEF Flags, H!net, H!probe, H!loop, H!counts, H!history
  <2> QED
    BY Zenon, <2>2, <2>3, <2>4, <2>5
<1>3. \/ UNCHANGED dialed /\ conn' \in {conn, 0} /\ (dialing' => dialing \/ dialed < MaxConns)
      \/ dialing /\ dialed' = dialed + 1 /\ conn' = dialed + 1 /\ ~dialing'
  BY Zenon DEF H!net
<1>4. Cycles /\ (dialing => dialed < MaxConns)
  BY Zenon, HealthTypes DEF HealthInv
<1>5. conn' \in 0 .. MaxConns /\ dialed' \in 0 .. MaxConns
  BY <1>3, <1>4, HealthAssumption DEF Cycles
<1>6. Cycles'
  BY Zenon, <1>1, <1>4, <1>5 DEF Cycles
<1>7. dialing' => dialed' < MaxConns
  BY <1>3, <1>4
<1> QED
  BY Zenon, <1>1, <1>2, <1>6, <1>7, HealthTypes DEF HealthInv, H!ConfirmedInARow

LEMMA BeginStep ==
  ASSUME HealthInv, H!HealthBegin
  PROVE  HealthInv'
<1>1. /\ UNCHANGED <<conn, dialed, dialing, unsupported, probed>>
      /\ hpc' \in {"sample", "retire"} /\ lastHeavy' \in {0, 1}
      /\ lowCycles' \in {0, lowCycles} /\ recoverCycles' \in {0, recoverCycles}
  BY DEF H!HealthBegin, H!net
<1>2. Flags /\ Cycles
  BY HealthTypes DEF HealthInv
<1>3. Flags'
  BY Zenon, <1>1, <1>2 DEF H!HealthBegin, H!probe, H!env, H!net, H!linkOK, H!resetProbeState, Flags
<1>4. probeConn' \in {0, probeConn} /\ (heavy => inRow' = inRow /\ probeLow' \in {0, probeLow})
      /\ (~heavy => inRow' = 0 /\ probeLow' = 0)
  BY DEF H!HealthBegin, H!probe, H!resetProbeState
<1>5. probeLow <= inRow
  BY DEF HealthInv
<1>6. Cycles' /\ probeLow' <= inRow'
  BY <1>1, <1>2, <1>4, <1>5, HealthAssumption DEF Cycles
<1> QED
  BY <1>1, <1>3, <1>6, HealthTypes DEF HealthInv, H!ConfirmedInARow

LEMMA SampleStep ==
  ASSUME HealthInv, H!SampleHigh \/ H!SampleLow
  PROVE  HealthInv'
<1>1. UNCHANGED <<conn, dialed, dialing, lastHeavy, unsupported, probed>> /\ hpc' = "retire"
  BY DEF H!SampleHigh, H!SampleLow, H!net, H!history
<1>2. Flags /\ Cycles /\ probeLow <= inRow
  BY HealthTypes DEF HealthInv
<1>3. Flags'
  <2>1. H!SampleHigh => Flags'
    BY Zenon, <1>1, <1>2 DEF H!SampleHigh, H!env, H!net, Flags
  <2>2. H!SampleLow => Flags'
    BY Zenon, <1>1, <1>2 DEF H!SampleLow, H!env, H!net, H!history, Flags
  <2> QED
    BY <2>1, <2>2
<1>4. CASE H!SampleHigh
  <2>1. lowCycles' = 0 /\ probeLow' = 0 /\ inRow' = 0 /\ UNCHANGED probeConn
    BY <1>4 DEF H!SampleHigh
  <2>2. recoverCycles' \in {0, recoverCycles}
        \/ (recoverCycles' = recoverCycles + 1 /\ ~(recoverCycles + 1 >= DegradedRecoverCycles))
    BY <1>4 DEF H!SampleHigh
  <2>3. recoverCycles' \in 0 .. DegradedRecoverCycles - 1
    BY <1>2, <2>2, HealthAssumption DEF Cycles
  <2>4. Cycles' /\ probeLow' <= inRow'
    BY <1>1, <1>2, <2>1, <2>3, HealthAssumption DEF Cycles
  <2> QED
    BY <1>1, <1>3, <2>4, HealthTypes DEF HealthInv, H!ConfirmedInARow
<1>5. CASE H!SampleLow
  <2>1. recoverCycles' = 0 /\ UNCHANGED <<probeLow, inRow>> /\ probeConn' \in {conn, probeConn}
        /\ lowCycles' \in {0, H!UpTo(DegradedPersistCycles, lowCycles)}
    BY <1>5 DEF H!SampleLow, H!history
  <2>2. lowCycles' \in 0 .. DegradedPersistCycles
    BY <1>2, <2>1, HealthAssumption DEF Cycles, H!UpTo
  <2>3. Cycles'
    BY <1>1, <1>2, <2>1, <2>2, HealthAssumption DEF Cycles
  <2> QED
    BY Zenon, <1>1, <1>2, <1>3, <2>1, <2>3, HealthTypes DEF HealthInv, H!ConfirmedInARow
<1> QED
  BY <1>4, <1>5

LEMMA RetireStep ==
  ASSUME HealthInv, H!Skip \/ H!Retire \/ H!Remove \/ H!Convict
  PROVE  HealthInv'
<1>1. /\ UNCHANGED <<dialed, dialing, lastHeavy, lowCycles, recoverCycles, probeConn, probeLow, unsupported, inRow>>
      /\ conn' \in {conn, 0} /\ probed' \in {probed, 0} /\ hpc' \in {"remove", "probe", "tick"}
  BY DEF H!Skip, H!Retire, H!Remove, H!Convict, H!net, H!counts, H!probe, H!loop, H!history
<1>2. Flags /\ Cycles
  BY Zenon, HealthTypes DEF HealthInv
<1>3. Flags'
  <2>1. H!Skip \/ H!Retire => Flags'
    BY Zenon, <1>2 DEF H!Skip, H!Retire, H!env, H!probe, H!net, H!counts, H!loop, H!history, Flags
  <2>2. H!Remove \/ H!Convict => Flags'
    BY Zenon, <1>2 DEF H!Remove, H!Convict, H!env, H!probe, H!net, H!counts, H!history, Flags
  <2> QED
    BY Zenon, <2>1, <2>2
<1>4. Cycles'
  BY <1>1, <1>2, HealthAssumption DEF Cycles
<1> QED
  BY Zenon, <1>1, <1>3, <1>4, HealthTypes DEF HealthInv, H!ConfirmedInARow

LEMMA ProbeStep ==
  ASSUME HealthInv, H!ProbeStart \/ H!ProbeStale \/ H!ProbeFast \/ H!ProbeFails
  PROVE  HealthInv'
<1>1. /\ UNCHANGED <<conn, dialed, dialing, lastHeavy, lowCycles, recoverCycles>>
      /\ probeConn' \in {conn, probeConn, 0} /\ probed' \in {conn, 0} /\ hpc' \in {"check", "tick"}
      /\ (probeLow' = 0 \/ UNCHANGED <<probeLow, inRow>>) /\ inRow' \in {inRow, 0}
  BY DEF H!ProbeStart, H!ProbeStale, H!ProbeFast, H!ProbeFails, H!resetProbeState, H!net, H!counts, H!probe,
         H!history
<1>2. \/ UNCHANGED unsupported /\ (hpc' = "check" => ~(unsupported >= 2))
      \/ hpc = "check" /\ hpc' = "tick" /\ unsupported' = unsupported + 1
  BY DEF H!ProbeStart, H!ProbeStale, H!ProbeFast, H!ProbeFails, H!passive, H!probeUnsupported
<1>3. Flags /\ Cycles /\ probeLow <= inRow /\ (hpc = "check" => unsupported < 2)
  BY HealthTypes DEF HealthInv
<1>4. Flags'
  <2>1. H!ProbeStart => Flags'
    BY Zenon, <1>1, <1>3 DEF H!ProbeStart, H!resetProbeState, H!env, H!net, H!counts, H!history, H!probe, Flags
  <2>2. H!ProbeStale => Flags'
    BY Zenon, <1>1, <1>3 DEF H!ProbeStale, H!resetProbeState, H!env, H!net, H!counts, H!history, Flags
  <2>3. H!ProbeFast \/ H!ProbeFails => Flags'
    BY Zenon, <1>1, <1>3 DEF H!ProbeFast, H!ProbeFails, H!env, H!net, H!counts, H!history, Flags
  <2> QED
    BY <2>1, <2>2, <2>3
<1>5. Cycles' /\ probeLow' <= inRow' /\ (hpc' = "check" => unsupported' < 2)
  BY <1>1, <1>2, <1>3, HealthAssumption DEF Cycles
<1>6. dialing' => dialed' < MaxConns
  BY <1>1 DEF HealthInv
<1> QED
  BY <1>1, <1>4, <1>5, <1>6, HealthTypes DEF HealthInv, H!ConfirmedInARow

LEMMA SlowStep ==
  ASSUME HealthInv, H!ProbeSlow
  PROVE  HealthInv'
<1>1. /\ UNCHANGED <<conn, dialed, dialing, lastHeavy, lowCycles, recoverCycles, unsupported>>
      /\ probeConn' = conn /\ probed' \in {probed, 0}
      /\ inRow' = H!UpTo(ProbeConfirmCycles, inRow)
      /\ \/ probeLow + 1 >= ProbeConfirmCycles /\ probeLow' = 0 /\ hpc' = "convict"
         \/ ~(probeLow + 1 >= ProbeConfirmCycles) /\ probeLow' = probeLow + 1 /\ hpc' = "tick"
  BY DEF H!ProbeSlow, H!net, H!counts
<1>2. Flags /\ Cycles /\ probeLow <= inRow
  BY HealthTypes DEF HealthInv
<1>3. Flags'
  BY Zenon, <1>1, <1>2 DEF H!ProbeSlow, H!env, H!net, H!counts, Flags
<1>4. inRow' \in 0 .. ProbeConfirmCycles
  BY <1>1, <1>2, HealthAssumption DEF Cycles, H!UpTo
<1>5. probeLow' \in 0 .. ProbeConfirmCycles - 1 /\ probeLow' <= inRow'
      /\ (hpc' = "convict" => inRow' >= ProbeConfirmCycles)
  BY <1>1, <1>2, HealthAssumption DEF Cycles, H!UpTo
<1>6. Cycles'
  BY <1>1, <1>2, <1>4, <1>5, HealthAssumption DEF Cycles
<1>7. dialing' => dialed' < MaxConns
  BY <1>1 DEF HealthInv
<1> QED
  BY <1>1, <1>3, <1>5, <1>6, <1>7, HealthTypes DEF HealthInv, H!ConfirmedInARow

LEMMA HealthNext == HealthInv /\ H!Next => HealthInv'
  BY AroundStep, BeginStep, SampleStep, RetireStep, ProbeStep, SlowStep DEF H!Next, H!Health

-----------------------------------------------------------------------------
(***************************************************************************)
(* ServerLifecycle for any number of callers of Shutdown.                  *)
(***************************************************************************)
CONSTANT Stoppers

VARIABLES manual, start, certCache, cache, published, stopped, shutdown, taken, stats, listener

svars == <<manual, start, certCache, cache, published, stopped, shutdown, taken, stats, listener>>

S == INSTANCE ServerLifecycle

(* Start is past the point where it gives away what it made.               *)
Given == start \in {"serve", "listen", "returned"}

(* The cache of the certificate has not been stopped yet, and somebody is  *)
(* going to: Start itself, the server that is up, or the Shutdown that     *)
(* took it.                                                                *)
CacheOwned ==
  /\ certCache # 0
  /\ \/ start \in {"setup", "publish", "undo"} \/ published.any
     \/ \E p \in Stoppers : taken[p].any /\ shutdown[p] \in {"stats", "cache"}

(* What Start gave away is the server's until the first Shutdown takes it. *)
Ownership ==
  /\ published.cache = IF published.any THEN certCache ELSE 0
  /\ \A p \in Stoppers : taken[p].cache = IF taken[p].any THEN certCache ELSE 0
  /\ \A p, q \in Stoppers : taken[p].any /\ taken[q].any => p = q
  /\ \A p \in Stoppers : shutdown[p] = "idle" => ~taken[p].any
  /\ stopped => ~published.any
  /\ ~stopped => \A p \in Stoppers : shutdown[p] = "idle"
  /\ Given <=> published.any \/ \E p \in Stoppers : taken[p].any

(* Only the owned cache runs, and none was stopped twice.                  *)
CachesRight ==
  /\ start = "tls" => certCache = 0 /\ cache[1] = "none" /\ cache[2] = "none"
  /\ start = "retry" => certCache = 0 /\ cache[1] = "stopped" /\ cache[2] = "none"
  /\ \A c \in S!Caches : cache[c] # "stopped_twice" /\ (cache[c] = "live" <=> CacheOwned /\ c = certCache)

(* How far the Shutdown that took the server is shows in what runs.        *)
ShutdownSeen ==
  /\ ~Given => stats = "off" /\ listener = "none"
  /\ start = "serve" => stats \in {"off", "told"}
  /\ start \in {"listen", "returned"} => stats \in {"running", "ended"}
  /\ stats \in {"told", "ended"} => \E p \in Stoppers : taken[p].any /\ shutdown[p] # "stats"
  /\ \A p \in Stoppers : taken[p].any =>
       /\ shutdown[p] \in {"cache", "http", "done"} =>
            stats \in {"told", "ended"} /\ (start # "serve" => stats = "ended")
       /\ shutdown[p] = "done" => listener = "down"

LifeInv == S!ServerTypeOK /\ Ownership /\ CachesRight /\ ShutdownSeen

LEMMA LifeInit == S!ServerInit => LifeInv
<1> SUFFICES ASSUME S!ServerInit PROVE LifeInv
  OBVIOUS
<1>1. S!ServerTypeOK
  BY Zenon DEF S!ServerInit, S!ServerTypeOK, S!Nothing
<1>2. Ownership
  BY DEF S!ServerInit, S!Nothing, Ownership, Given
<1>3. CachesRight
  BY Zenon DEF S!ServerInit, S!Nothing, S!Caches, CachesRight, CacheOwned
<1>4. ShutdownSeen
  BY DEF S!ServerInit, S!Nothing, ShutdownSeen, Given
<1> QED  BY <1>1, <1>2, <1>3, <1>4 DEF LifeInv

(* initTLS, manageCertAgain: a certificate that is to be had starts a      *)
(* cache, which is Start's own.                                            *)
LEMMA CertificateStep ==
  ASSUME LifeInv, S!initTLS \/ S!manageCertAgain
  PROVE  LifeInv'
<1>0. S!ServerTypeOK /\ Ownership /\ CachesRight /\ ShutdownSeen
  BY Zenon DEF LifeInv
<1>1. /\ manual' = manual /\ published' = published /\ stopped' = stopped /\ shutdown' = shutdown
      /\ taken' = taken /\ stats' = stats /\ listener' = listener
  BY Zenon DEF S!initTLS, S!manageCertAgain
<1>2. start \in {"tls", "retry"} /\ certCache = 0 /\ cache[1] \in {"none", "stopped"} /\ cache[2] = "none"
  BY Zenon, <1>0 DEF CachesRight, S!initTLS, S!manageCertAgain
<1>3. \/ /\ start' = "setup" /\ certCache' = 0 /\ cache' = cache
      \/ /\ start' = "setup" /\ certCache' = 1 /\ cache' = [cache EXCEPT ![1] = "live"]
      \/ /\ start' = "setup" /\ certCache' = 2 /\ cache' = [cache EXCEPT ![2] = "live"]
      \/ /\ start' = "retry" /\ certCache' = 0 /\ cache' = [cache EXCEPT ![1] = "stopped"]
      \/ /\ start' = "failed" /\ certCache' = 0 /\ cache' = cache
      \/ /\ start' = "failed" /\ certCache' = 0 /\ cache' = [cache EXCEPT ![1] = "stopped"]
      \/ /\ start' = "failed" /\ certCache' = 0 /\ cache' = [cache EXCEPT ![2] = "stopped"]
  BY Zenon, <1>2 DEF S!initTLS, S!manageCertAgain
<1>4. ~Given /\ ~Given' /\ ~published.any /\ \A p \in Stoppers : ~taken[p].any
  BY Zenon, <1>0, <1>2, <1>3 DEF Given, Ownership
<1>5. S!ServerTypeOK'
  BY <1>0, <1>1, <1>3 DEF S!ServerTypeOK, S!Caches
<1>6. Ownership'
  BY Zenon, <1>0, <1>1, <1>4 DEF Ownership, Given
<1>7. CachesRight'
  <2>1. cache \in [{1, 2} -> {"none", "live", "stopped", "stopped_twice"}]
    BY Zenon, <1>0 DEF S!ServerTypeOK, S!Caches
  <2>2. ~CacheOwned' \/ start' = "setup"
    BY Zenon, <1>1, <1>3, <1>4 DEF CacheOwned
  <2>3. start' = "setup" => (CacheOwned' <=> certCache' # 0)
    BY <1>1 DEF CacheOwned
  <2>4. CASE cache' = cache /\ certCache' = 0 /\ start' \in {"setup", "failed"}
    BY Zenon, <1>2, <2>1, <2>2, <2>3, <2>4 DEF CachesRight, S!Caches
  <2>5. ASSUME NEW c \in {1, 2}, certCache' = c, cache' = [cache EXCEPT ![c] = "live"], start' = "setup"
        PROVE  CachesRight'
    <3>1. CacheOwned'
      BY <2>3, <2>5
    <3>2. \A d \in {1, 2} : cache[d] \in {"none", "stopped"} /\ cache'[d] = IF d = c THEN "live" ELSE cache[d]
      BY Zenon, <1>2, <2>1, <2>5
    <3> QED  BY <2>5, <3>1, <3>2 DEF CachesRight, S!Caches
  <2>6. CASE start' = "retry" /\ certCache' = 0 /\ cache' = [cache EXCEPT ![1] = "stopped"]
    <3>1. ~CacheOwned'
      BY <2>2, <2>6
    <3>2. cache'[1] = "stopped" /\ cache'[2] = "none"
      BY <1>2, <2>1, <2>6
    <3> QED  BY <2>6, <3>1, <3>2 DEF CachesRight, S!Caches
  <2>7. ASSUME NEW c \in {1, 2}, certCache' = 0, cache' = [cache EXCEPT ![c] = "stopped"], start' = "failed"
        PROVE  CachesRight'
    BY Zenon, <1>2, <2>1, <2>2, <2>7 DEF CachesRight, S!Caches
  <2> QED  BY Zenon, <1>3, <2>4, <2>5, <2>6, <2>7
<1>8. ShutdownSeen'
  BY Zenon, <1>0, <1>1, <1>4 DEF ShutdownSeen, Given
<1> QED  BY <1>5, <1>6, <1>7, <1>8 DEF LifeInv

(* Setup, Undo: nothing has been given away, and nothing is after an undo. *)
LEMMA SetupStep ==
  ASSUME LifeInv, S!Setup \/ S!Undo
  PROVE  LifeInv'
<1>0. S!ServerTypeOK /\ Ownership /\ CachesRight /\ ShutdownSeen
  BY DEF LifeInv
<1>1. /\ manual' = manual /\ published' = published /\ stopped' = stopped /\ shutdown' = shutdown
      /\ taken' = taken /\ stats' = stats /\ listener' = listener /\ certCache' = certCache
  BY DEF S!Setup, S!Undo
<1>2. ~Given /\ ~Given' /\ start' \in {"publish", "undo", "failed"}
  BY Zenon DEF Given, S!Setup, S!Undo
<1>3. ~published.any /\ \A p \in Stoppers : ~taken[p].any
  BY Zenon, <1>0, <1>2 DEF Ownership
<1>4. S!ServerTypeOK'
  <2>1. cache' \in [{1, 2} -> {"none", "live", "stopped", "stopped_twice"}]
    <3>1. cache \in [{1, 2} -> {"none", "live", "stopped", "stopped_twice"}] /\ certCache \in {0, 1, 2}
      BY <1>0 DEF S!ServerTypeOK, S!Caches
    <3>2. cache' = cache \/ S!Stop(certCache)
      BY Zenon DEF S!Setup, S!Undo
    <3> QED  BY <3>1, <3>2 DEF S!Stop
  <2> QED  BY <1>0, <1>1, <1>2, <2>1 DEF S!ServerTypeOK, S!Caches
<1>5. Ownership'
  BY <1>0, <1>1, <1>2 DEF Ownership
<1>6. CachesRight'
  <2>1. CASE S!Setup
    <3>1. CacheOwned' <=> CacheOwned
      BY Zenon, <1>1, <2>1 DEF CacheOwned, S!Setup
    <3> QED  BY <1>0, <1>1, <1>2, <2>1, <3>1 DEF CachesRight, S!Setup
  <2>2. CASE S!Undo
    <3>1. ~CacheOwned' /\ (CacheOwned <=> certCache # 0)
      BY Zenon, <1>1, <1>3, <2>2 DEF CacheOwned, S!Undo
    <3> QED  BY Zenon, <1>0, <1>1, <2>2, <3>1 DEF CachesRight, S!Undo, S!Stop, S!ServerTypeOK, S!Caches
  <2> QED  BY Zenon, <2>1, <2>2
<1>7. ShutdownSeen'
  BY <1>0, <1>1, <1>2, <1>3 DEF ShutdownSeen
<1> QED  BY <1>4, <1>5, <1>6, <1>7 DEF LifeInv

(* Publish: the server takes over, unless Shutdown came first.             *)
LEMMA PublishStep ==
  ASSUME LifeInv, S!Publish
  PROVE  LifeInv'
<1>0. S!ServerTypeOK /\ Ownership /\ CachesRight /\ ShutdownSeen
  BY Zenon DEF LifeInv
<1>1. /\ manual' = manual /\ stopped' = stopped /\ shutdown' = shutdown /\ cache' = cache
      /\ taken' = taken /\ stats' = stats /\ certCache' = certCache /\ start = "publish"
  BY Zenon DEF S!Publish
<1>2. ~Given /\ ~published.any /\ \A p \in Stoppers : ~taken[p].any
  BY Zenon, <1>0, <1>1 DEF Given, Ownership
<1>3. S!ServerTypeOK'
  <2>1. start' \in {"undo", "serve"} /\ listener' \in {listener, "made"}
    BY DEF S!Publish
  <2>2. published' \in [any : BOOLEAN, cache : {0, 1, 2}]
    <3>1. published \in [any : BOOLEAN, cache : {0, 1, 2}] /\ certCache \in {0, 1, 2}
      BY Zenon, <1>0 DEF S!ServerTypeOK
    <3>2. published' = published \/ published' = [any |-> TRUE, cache |-> certCache]
      BY DEF S!Publish
    <3>3. [any |-> TRUE, cache |-> certCache] \in [any : BOOLEAN, cache : {0, 1, 2}]
      BY <3>1
    <3> QED  BY Zenon, <3>1, <3>2, <3>3
  <2> QED  BY Zenon, <1>0, <1>1, <2>1, <2>2 DEF S!ServerTypeOK
<1>4. CASE stopped
  <2>1. start' = "undo" /\ published' = published /\ listener' = listener
    BY Zenon, <1>4 DEF S!Publish
  <2>2. ~Given' /\ (CacheOwned' <=> CacheOwned)
    BY Zenon, <1>1, <2>1 DEF Given, CacheOwned
  <2>3. Ownership'
    BY Zenon, <1>0, <1>1, <1>2, <2>1, <2>2 DEF Ownership
  <2>4. CachesRight'
    BY Zenon, <1>0, <1>1, <2>1, <2>2 DEF CachesRight
  <2>5. ShutdownSeen'
    BY Zenon, <1>0, <1>1, <1>2, <2>1, <2>2 DEF ShutdownSeen
  <2> QED  BY Zenon, <1>3, <2>3, <2>4, <2>5 DEF LifeInv
<1>5. CASE ~stopped
  <2>1. start' = "serve" /\ published'.any /\ published'.cache = certCache /\ listener' = "made"
    BY <1>5 DEF S!Publish
  <2>2. Given' /\ (CacheOwned' <=> CacheOwned)
    BY Zenon, <1>1, <2>1 DEF Given, CacheOwned
  <2>3. Ownership'
    BY Zenon, <1>0, <1>1, <1>2, <1>5, <2>1, <2>2 DEF Ownership
  <2>4. CachesRight'
    BY Zenon, <1>0, <1>1, <2>1, <2>2 DEF CachesRight
  <2>5. ShutdownSeen'
    BY Zenon, <1>0, <1>1, <1>2, <2>1, <2>2 DEF ShutdownSeen
  <2> QED  BY <1>3, <2>3, <2>4, <2>5 DEF LifeInv
<1> QED  BY <1>4, <1>5

(* Serve, Listen: a stats loop told to end before it began ends at once,   *)
(* and a server that was shut down does not begin to listen.               *)
LEMMA ServeStep ==
  ASSUME LifeInv, S!Serve \/ S!Listen
  PROVE  LifeInv'
<1>0. S!ServerTypeOK /\ Ownership /\ CachesRight /\ ShutdownSeen
  BY DEF LifeInv
<1>1. /\ manual' = manual /\ published' = published /\ stopped' = stopped /\ shutdown' = shutdown
      /\ taken' = taken /\ certCache' = certCache /\ cache' = cache
  BY DEF S!Serve, S!Listen
<1>2. Given /\ Given' /\ start' \in {"listen", "returned"} /\ start \in {"serve", "listen"}
  BY Zenon DEF Given, S!Serve, S!Listen
<1>3. S!ServerTypeOK'
  BY <1>0, <1>1 DEF S!ServerTypeOK, S!Serve, S!Listen
<1>4. Ownership'
  BY Zenon, <1>0, <1>1, <1>2 DEF Ownership
<1>5. CachesRight'
  <2>1. CacheOwned' <=> CacheOwned
    BY Zenon, <1>1, <1>2 DEF CacheOwned
  <2> QED  BY Zenon, <1>0, <1>1, <1>2, <2>1 DEF CachesRight
<1>6. ShutdownSeen'
  <2>1. CASE S!Serve
    <3>1. start = "serve" /\ start' = "listen" /\ listener' = listener
          /\ stats' = IF stats = "told" THEN "ended" ELSE "running"
      BY Zenon, <2>1 DEF S!Serve
    <3>2. stats \in {"off", "told"}
      BY Zenon, <1>0, <3>1 DEF ShutdownSeen
    <3> QED  BY Zenon, <1>0, <1>1, <1>2, <3>1, <3>2 DEF ShutdownSeen
  <2>2. CASE S!Listen
    <3>1. start = "listen" /\ stats' = stats /\ (listener = "down" => listener' = "down")
      BY <2>2 DEF S!Listen
    <3> QED  BY Zenon, <1>0, <1>1, <1>2, <3>1 DEF ShutdownSeen
  <2> QED  BY <2>1, <2>2
<1> QED  BY <1>3, <1>4, <1>5, <1>6 DEF LifeInv

(* Shutdown: the first caller takes what is published.                     *)
LEMMA ShutdownBegins ==
  ASSUME LifeInv, NEW p \in Stoppers, S!Shutdown(p)
  PROVE  LifeInv'
<1>0. S!ServerTypeOK /\ Ownership /\ CachesRight /\ ShutdownSeen
  BY Zenon DEF LifeInv
<1>1. /\ manual' = manual /\ start' = start /\ certCache' = certCache /\ cache' = cache
      /\ stats' = stats /\ listener' = listener /\ shutdown[p] = "idle" /\ stopped' = TRUE
  BY Zenon DEF S!Shutdown
<1>2. ~taken[p].any /\ (Given' <=> Given)
  BY Zenon, <1>0, <1>1 DEF Ownership, Given
<1>3. S!ServerTypeOK'
  <2>1. shutdown' \in [Stoppers -> {"idle", "stats", "cache", "http", "done"}]
    BY <1>0 DEF S!ServerTypeOK, S!Shutdown
  <2>2. /\ published' \in [any : BOOLEAN, cache : {0, 1, 2}]
        /\ taken' \in [Stoppers -> [any : BOOLEAN, cache : {0, 1, 2}]]
    <3>1. published \in [any : BOOLEAN, cache : {0, 1, 2}] /\ S!Nothing \in [any : BOOLEAN, cache : {0, 1, 2}]
          /\ taken \in [Stoppers -> [any : BOOLEAN, cache : {0, 1, 2}]]
      BY Zenon, <1>0 DEF S!ServerTypeOK, S!Nothing
    <3>2. \/ published' = published /\ taken' = taken
          \/ published' = S!Nothing /\ taken' = [taken EXCEPT ![p] = published]
      BY DEF S!Shutdown
    <3> HIDE DEF S!Nothing
    <3> QED  BY Zenon, <3>1, <3>2
  <2> QED  BY Zenon, <1>0, <1>1, <2>1, <2>2 DEF S!ServerTypeOK
<1>4. CASE stopped
  <2>1. shutdown' = [shutdown EXCEPT ![p] = "done"] /\ taken' = taken /\ published' = published
    BY Zenon, <1>4 DEF S!Shutdown
  <2>2. shutdown'[p] = "done" /\ \A q \in Stoppers : q # p => shutdown'[q] = shutdown[q]
    BY Zenon, <1>0, <2>1 DEF S!ServerTypeOK
  <2>3. CacheOwned' <=> CacheOwned
    BY <1>1, <1>2, <2>1, <2>2 DEF CacheOwned
  <2>4. Ownership'
    BY Zenon, <1>0, <1>1, <1>2, <1>4, <2>1, <2>2 DEF Ownership
  <2>5. CachesRight'
    BY Zenon, <1>0, <1>1, <2>3 DEF CachesRight
  <2>6. ShutdownSeen'
    BY Zenon, <1>0, <1>1, <1>2, <2>1, <2>2 DEF ShutdownSeen
  <2> QED  BY Zenon, <1>3, <2>4, <2>5, <2>6 DEF LifeInv
<1>5. CASE ~stopped
  <2>1. /\ shutdown' = [shutdown EXCEPT ![p] = "stats"] /\ taken' = [taken EXCEPT ![p] = published]
        /\ ~published'.any /\ published'.cache = 0
    BY <1>5 DEF S!Shutdown, S!Nothing
  <2>2. /\ shutdown'[p] = "stats" /\ taken'[p] = published
        /\ \A q \in Stoppers : q # p => shutdown'[q] = shutdown[q] /\ taken'[q] = taken[q]
    BY Zenon, <1>0, <2>1 DEF S!ServerTypeOK
  <2>3. \A q \in Stoppers : shutdown[q] = "idle" /\ ~taken[q].any
    BY Zenon, <1>0, <1>5 DEF Ownership
  <2>4. CacheOwned' <=> CacheOwned
    BY Zenon, <1>1, <2>1, <2>2, <2>3 DEF CacheOwned
  <2>5. Ownership'
    BY <1>0, <1>1, <1>2, <2>1, <2>2, <2>3 DEF Ownership
  <2>6. CachesRight'
    BY <1>0, <1>1, <2>4 DEF CachesRight
  <2>7. ShutdownSeen'
    BY Zenon, <1>0, <1>1, <1>2, <2>2, <2>3 DEF ShutdownSeen
  <2> QED  BY <1>3, <2>5, <2>6, <2>7 DEF LifeInv
<1> QED  BY <1>4, <1>5

(* The steps of a Shutdown: who took nothing does nothing.                 *)
LEMMA ShutdownGoesOn ==
  ASSUME LifeInv, NEW p \in Stoppers, S!CloseStats(p) \/ S!StopCache(p) \/ S!ShutdownHTTP(p)
  PROVE  LifeInv'
<1>0. S!ServerTypeOK /\ Ownership /\ CachesRight /\ ShutdownSeen
  BY Zenon DEF LifeInv
<1>1. /\ manual' = manual /\ start' = start /\ certCache' = certCache
      /\ published' = published /\ taken' = taken /\ stopped' = stopped
  BY Zenon DEF S!CloseStats, S!StopCache, S!ShutdownHTTP
<1>2. /\ shutdown'[p] \in {"cache", "http", "done"} /\ shutdown[p] \in {"stats", "cache", "http"}
      /\ \A q \in Stoppers : q # p => shutdown'[q] = shutdown[q]
  BY <1>0 DEF S!CloseStats, S!StopCache, S!ShutdownHTTP, S!ServerTypeOK
<1>3. taken[p].any => Given /\ \A q \in Stoppers : q # p => ~taken[q].any
  BY Zenon, <1>0 DEF Ownership
<1>4. S!ServerTypeOK'
  <2>1. cache' \in [{1, 2} -> {"none", "live", "stopped", "stopped_twice"}]
    <3>1. /\ cache \in [{1, 2} -> {"none", "live", "stopped", "stopped_twice"}]
          /\ taken[p].cache \in {0, 1, 2}
      BY Zenon, <1>0 DEF S!ServerTypeOK, S!Caches
    <3>2. cache' = cache \/ S!Stop(taken[p].cache)
      BY Zenon DEF S!CloseStats, S!StopCache, S!ShutdownHTTP
    <3> QED  BY Zenon, <3>1, <3>2 DEF S!Stop
  <2>2. shutdown' \in [Stoppers -> {"idle", "stats", "cache", "http", "done"}]
    BY <1>0 DEF S!ServerTypeOK, S!CloseStats, S!StopCache, S!ShutdownHTTP
  <2>3. stats' \in {stats, "told", "ended"} /\ listener' \in {listener, "down"}
    BY Zenon DEF S!CloseStats, S!StopCache, S!ShutdownHTTP
  <2> QED  BY <1>0, <1>1, <2>1, <2>2, <2>3 DEF S!ServerTypeOK, S!Caches
<1>5. Ownership'
  BY Zenon, <1>0, <1>1, <1>2 DEF Ownership, Given
<1>6. CachesRight'
  <2>1. CASE S!CloseStats(p) \/ S!ShutdownHTTP(p)
    <3>1. shutdown'[p] \in {"stats", "cache"} <=> shutdown[p] \in {"stats", "cache"}
      BY <1>0, <2>1 DEF S!CloseStats, S!ShutdownHTTP, S!ServerTypeOK
    <3>2. CacheOwned' <=> CacheOwned
      BY Zenon, <1>1, <1>2, <3>1 DEF CacheOwned
    <3>3. cache' = cache
      BY Zenon, <2>1 DEF S!CloseStats, S!ShutdownHTTP
    <3> QED  BY Zenon, <1>0, <1>1, <3>2, <3>3 DEF CachesRight
  <2>2. CASE S!StopCache(p) /\ ~taken[p].any
    <3>1. cache' = cache
      BY Zenon, <1>0, <2>2 DEF Ownership, S!StopCache, S!Stop
    <3>2. CacheOwned' <=> CacheOwned
      BY Zenon, <1>1, <1>2, <2>2 DEF CacheOwned
    <3> QED  BY <1>0, <1>1, <3>1, <3>2 DEF CachesRight
  <2>3. CASE S!StopCache(p) /\ taken[p].any
    <3>1. shutdown[p] = "cache" /\ shutdown'[p] = "http" /\ taken[p].cache = certCache
      BY <1>0, <2>3 DEF Ownership, S!StopCache, S!ServerTypeOK
    <3>2. ~published.any /\ start \notin {"setup", "publish", "undo", "tls", "retry"}
      BY Zenon, <1>0, <1>2, <1>3, <2>3 DEF Ownership, Given
    <3>3. ~CacheOwned' /\ (CacheOwned <=> certCache # 0)
      BY Zenon, <1>1, <1>2, <1>3, <2>3, <3>1, <3>2 DEF CacheOwned
    <3>4. cache' = IF certCache = 0 THEN cache
                   ELSE [cache EXCEPT ![certCache] = IF @ = "live" THEN "stopped" ELSE "stopped_twice"]
      BY Zenon, <2>3, <3>1 DEF S!StopCache, S!Stop
    <3>5. certCache \in {0, 1, 2} /\ cache \in [{1, 2} -> {"none", "live", "stopped", "stopped_twice"}]
      BY <1>0 DEF S!ServerTypeOK, S!Caches
    <3> QED  BY Zenon, <1>0, <1>1, <3>2, <3>3, <3>4, <3>5 DEF CachesRight, S!Caches
  <2> QED  BY Zenon, <2>1, <2>2, <2>3
<1>7. ShutdownSeen'
  <2>1. CASE taken[p].any
    <3>1. /\ stats' = (IF start = "serve" THEN "told" ELSE "ended")
          /\ start \in {"serve", "listen", "returned"}
      <4>1. start \in {"serve", "listen", "returned"}
        BY Zenon, <1>3, <2>1 DEF Given
      <4>2. CASE S!CloseStats(p)
        <5>1. stats \notin {"told", "ended"}
          BY Zenon, <1>0, <1>3, <2>1, <4>2 DEF ShutdownSeen, S!CloseStats
        <5>2. (start = "serve" => stats = "off") /\ (start # "serve" => stats = "running")
          BY Zenon, <1>0, <4>1, <5>1 DEF ShutdownSeen
        <5>3. stats' = IF stats = "off" THEN "told" ELSE "ended"
          BY Zenon, <2>1, <4>2 DEF S!CloseStats
        <5> QED  BY <4>1, <5>2, <5>3
      <4>3. CASE S!StopCache(p) \/ S!ShutdownHTTP(p)
        <5>1. stats' = stats /\ shutdown[p] \in {"cache", "http"}
          BY Zenon, <4>3 DEF S!StopCache, S!ShutdownHTTP
        <5> QED  BY Zenon, <1>0, <2>1, <4>1, <5>1 DEF ShutdownSeen
      <4> QED  BY Zenon, <4>2, <4>3
    <3>2. shutdown'[p] = "done" => listener' = "down"
      BY <1>0, <2>1 DEF S!CloseStats, S!StopCache, S!ShutdownHTTP, S!ServerTypeOK
    <3> QED  BY Zenon, <1>1, <1>2, <1>3, <2>1, <3>1, <3>2 DEF ShutdownSeen, Given
  <2>2. CASE ~taken[p].any
    <3>1. stats' = stats /\ listener' = listener
      BY Zenon, <2>2 DEF S!CloseStats, S!StopCache, S!ShutdownHTTP
    <3> QED  BY Zenon, <1>0, <1>1, <1>2, <2>2, <3>1 DEF ShutdownSeen, Given
  <2> QED  BY Zenon, <2>1, <2>2
<1> QED  BY <1>4, <1>5, <1>6, <1>7 DEF LifeInv

LEMMA LifeNext == LifeInv /\ S!ServerNext => LifeInv'
<1> SUFFICES ASSUME LifeInv, S!ServerNext PROVE LifeInv'
  OBVIOUS
<1> QED  BY CertificateStep, SetupStep, PublishStep, ServeStep, ShutdownBegins, ShutdownGoesOn DEF S!ServerNext

LEMMA LifeStays == LifeInv /\ UNCHANGED svars => LifeInv'
<1> SUFFICES ASSUME LifeInv, UNCHANGED svars PROVE LifeInv'
  BY Zenon
<1>1. S!ServerTypeOK'
  BY DEF LifeInv, S!ServerTypeOK, S!Caches, svars
<1>2. (Given' <=> Given) /\ (CacheOwned' <=> CacheOwned)
  BY DEF Given, CacheOwned, svars
<1>3. Ownership'
  BY Zenon, <1>2 DEF LifeInv, Ownership, svars
<1>4. CachesRight'
  BY Zenon, <1>2 DEF LifeInv, CachesRight, svars
<1>5. ShutdownSeen'
  BY Zenon, <1>2 DEF LifeInv, ShutdownSeen, svars
<1> QED  BY <1>1, <1>3, <1>4, <1>5 DEF LifeInv

LEMMA LifeProper == LifeInv => S!StoppedOnce
<1> SUFFICES ASSUME LifeInv PROVE S!StoppedOnce
  OBVIOUS
<1>0. S!ServerTypeOK /\ Ownership /\ CachesRight /\ ShutdownSeen
  BY Zenon DEF LifeInv
<1>1. \A c \in S!Caches : cache[c] # "stopped_twice"
  BY Zenon, <1>0 DEF CachesRight
<1>2. start = "failed" => ~CacheOwned
  BY Zenon, <1>0 DEF Ownership, Given, CacheOwned
<1>3. ASSUME start \in {"returned", "failed"}, stopped, \A p \in Stoppers : shutdown[p] \in {"idle", "done"}
      PROVE  ~CacheOwned /\ stats # "running" /\ listener # "serving" /\ ~published.any
  <2>1. ~published.any /\ ~CacheOwned
    BY Zenon, <1>0, <1>3 DEF Ownership, CacheOwned
  <2>2. CASE start = "failed"
    BY Zenon, <1>0, <2>1, <2>2 DEF ShutdownSeen, Given
  <2>3. CASE start = "returned"
    <3>1. PICK p \in Stoppers : taken[p].any
      BY Zenon, <1>0, <2>1, <2>3 DEF Ownership, Given
    <3>2. shutdown[p] = "done"
      BY Zenon, <1>0, <1>3, <3>1 DEF Ownership
    <3> QED  BY Zenon, <1>0, <2>1, <2>3, <3>1, <3>2 DEF ShutdownSeen
  <2> QED  BY Zenon, <1>3, <2>2, <2>3
<1>4. ~CacheOwned => {c \in S!Caches : cache[c] = "live"} = {}
  BY Zenon, <1>0 DEF CachesRight
<1> QED  BY Zenon, <1>1, <1>2, <1>3, <1>4 DEF S!StoppedOnce

-----------------------------------------------------------------------------
VARIABLE part  \* which of them moves

MCInit ==
  /\ part \in {"suspend", "health", "opening", "server"}
  /\ Init /\ H!Init /\ B!Init /\ S!ServerInit /\ (part # "server" => manual)
mcVars == <<vars, hvars, bvars, svars, part>>

MCNext ==
  /\ \/ part = "suspend" /\ Next /\ UNCHANGED <<hvars, bvars, svars>>
     \/ part = "health" /\ H!Next /\ UNCHANGED <<vars, bvars, svars>>
     \/ part = "opening" /\ B!Next /\ UNCHANGED <<vars, hvars, svars>>
     \/ part = "server" /\ S!ServerNext /\ UNCHANGED <<vars, hvars, bvars>>
  /\ UNCHANGED part

\* SlotHealth's Fairness, while it is the one that moves.
MCSpec ==
  /\ MCInit /\ [][MCNext]_mcVars
  /\ WF_hvars(part = "health" /\ H!Health) /\ WF_hvars(part = "health" /\ H!CooldownOver)
  /\ WF_hvars(part = "health" /\ H!HoldOver) /\ WF_hvars(part = "health" /\ H!DialSwap)

(* SlotHealth: a conviction by probes rests on slow verdicts in a row.     *)
(* The slot and the sampler keep their types.                              *)
ConvictionsEarned == TypeOK /\ H!TypeOK /\ H!ConfirmedInARow

(* ServerLifecycle: what a start has published is stopped exactly once,    *)
(* whichever of Shutdown and a failing start comes first, and when both    *)
(* are through nothing of the server runs.                                 *)
ShutdownSound == S!ServerTypeOK /\ S!StoppedOnce

(* Bootstrap: a call leaves no stream behind but the one it returns; a     *)
(* connection that works is given up only if a stream failed on it by      *)
(* itself or a probe had no answer; after a verdict the next attempt is on *)
(* another connection.                                                     *)
(* There are no more attempts than allowed (TypeOK).                       *)
OpeningSound == [](B!TypeOK /\ B!NoStreamLeft) /\ B!HealthySpared /\ B!RetryElsewhere

(* SlotHealth: a connection that stays slow is convicted in the end, and a *)
(* conviction ends once the slot stays fast or idle.                       *)
HealthDecides == H!SlowConvicted /\ H!ConvictionEnds

-----------------------------------------------------------------------------
LEMMA HealthStays == HealthInv /\ UNCHANGED hvars => HealthInv'
<1> SUFFICES ASSUME HealthInv, UNCHANGED hvars PROVE HealthInv'
  OBVIOUS
<1>1. Flags /\ Cycles
  BY Zenon, HealthTypes DEF HealthInv
<1>2. Flags'
  BY <1>1 DEF hvars, Flags
<1>3. Cycles'
  BY <1>1 DEF hvars, Cycles
<1> QED
  BY Zenon, <1>2, <1>3, HealthTypes DEF HealthInv, H!ConfirmedInARow, hvars

LEMMA OpeningStays ==
  ASSUME OpeningInv, UNCHANGED bvars
  PROVE  OpeningInv' /\ [Spared]_B!vars /\ [Elsewhere]_B!vars
<1>1. UNCHANGED B!vars
  BY Zenon DEF bvars, B!vars, B!connVars, B!callVars
<1>2. OpeningInv'
  BY OutsideStep DEF bvars
<1> QED
  BY Zenon, <1>1, <1>2

(* Each of them keeps its invariant, and so does a step of another.        *)
LifecycleInv == IInv /\ HealthInv /\ OpeningInv /\ LifeInv

LEMMA LifecycleInit == MCInit => LifecycleInv
  BY Zenon, SuspendHolds, InitIInv, HealthInit, OpeningInit, LifeInit DEF MCInit, LifecycleInv

LEMMA LifecycleNext ==
  LifecycleInv /\ [MCNext]_mcVars => LifecycleInv' /\ [Spared]_B!vars /\ [Elsewhere]_B!vars
<1> SUFFICES ASSUME LifecycleInv, [MCNext]_mcVars
             PROVE  LifecycleInv' /\ [Spared]_B!vars /\ [Elsewhere]_B!vars
  BY Zenon
<1>1. /\ Next \/ UNCHANGED vars
      /\ H!Next \/ UNCHANGED hvars
      /\ B!Next \/ UNCHANGED bvars
      /\ S!ServerNext \/ UNCHANGED svars
  BY DEF MCNext, mcVars
<1>2. IInv /\ HealthInv /\ OpeningInv /\ LifeInv
  BY Zenon DEF LifecycleInv
<1>3. IInv'
  BY Zenon, <1>1, <1>2, SuspendHolds, NextIInv
<1>4. HealthInv'
  BY Zenon, <1>1, <1>2, HealthNext, HealthStays
<1>5. OpeningInv' /\ [Spared]_B!vars /\ [Elsewhere]_B!vars
  BY Zenon, <1>1, <1>2, OpeningNext, OpeningStays
<1>6. LifeInv'
  BY Zenon, <1>1, <1>2, LifeNext, LifeStays
<1> QED
  BY Zenon, <1>3, <1>4, <1>5, <1>6 DEF LifecycleInv

LEMMA LifecycleInvHolds == MCSpec => []LifecycleInv
  BY LifecycleInit, LifecycleNext, PTL DEF MCSpec

(* Whatever connections, streams and weather come and go, probeSlot        *)
(* convicts a slot only after ProbeConfirmCycles slow verdicts in a row,   *)
(* and the fields of the slot and of the sampler keep their types.         *)
THEOREM ConvictionsEarnedHolds == MCSpec => []ConvictionsEarned
<1>1. LifecycleInv => ConvictionsEarned
  BY DEF LifecycleInv, ConvictionsEarned, IInv, HealthInv
<1> QED
  BY <1>1, LifecycleInvHolds, PTL

(* openAndBootstrap leaves no stream behind but the one it returns, makes  *)
(* no more attempts than allowed, gives up a connection that works only if *)
(* a stream failed or a probe was not answered on it, and after a verdict  *)
(* tries another connection.                                               *)
THEOREM OpeningSoundHolds == MCSpec => OpeningSound
<1>1. LifecycleInv => B!TypeOK /\ B!NoStreamLeft
  BY Zenon DEF LifecycleInv, OpeningInv, OfCall, B!NoStreamLeft
<1> QED
  BY <1>1, LifecycleInit, LifecycleNext, PTL DEF MCSpec, OpeningSound, B!HealthySpared, B!RetryElsewhere, Spared, Elsewhere

(* Start and any number of Shutdowns stop every certificate cache exactly  *)
(* once, and when they are through no listener and no statistics run.      *)
THEOREM ShutdownSoundHolds == MCSpec => []ShutdownSound
<1>1. LifecycleInv => ShutdownSound
  BY LifeProper DEF LifecycleInv, LifeInv, ShutdownSound
<1> QED
  BY <1>1, LifecycleInvHolds, PTL
=============================================================================
