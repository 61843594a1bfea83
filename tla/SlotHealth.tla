----------------------------- MODULE SlotHealth -----------------------------
(***************************************************************************)
(* The health loop over one slot (transport/http2/lifecycle.go):           *)
(* evaluateSlotHealth suspects a slot whose throughput stays low,          *)
(* evaluateProbes and probeSlot convict or clear it by downloading the     *)
(* probe payload over its connection, and a convicted idle slot is         *)
(* retired.  Meanwhile the connection is lost and redialed, streams come,  *)
(* become heavy and go, the pool grows again, the machine sleeps,          *)
(* and the link and the origin change speed.                               *)
(*                                                                         *)
(* Connections are numbered in the order they are dialed, 0 is none.       *)
(* Throughput is high or low; the cooldown and the hold window of a probe  *)
(* are flags that time clears.                                             *)
(***************************************************************************)
EXTENDS Naturals

CONSTANTS
  DegradedPersistCycles, DegradedRecoverCycles, ProbeConfirmCycles,
  Probes,        \* probeFunc is configured
  MaxConns       \* bound: connections dialed

VARIABLES
  conn, dialed, dialing,           \* connIdentity, connections so far, a dial has reset the slot
  live,                            \* the slot is in the live range of its pool
  active, heavy, degraded,         \* active > 0, heavy > 0, s.degraded
  speed,                           \* what limits the slot: see Speeds
  lastHeavy, lowCycles, recoverCycles,
  slept,                           \* suspendEvents is ahead of samplingEpoch
  suspected, probeConn, probeLow, cooling, hold,  \* probeLow is probeLowCycles
  unsupported,                     \* unsupportedCount
  hpc, link, probed,               \* the loop: its step, its linkOK, the connection being probed
  inRow, own                       \* history: slow verdicts in a row; the mark is of this connection

net == <<conn, dialed, dialing, live>>
env == <<active, heavy, speed>>
counts == <<lastHeavy, lowCycles, recoverCycles, slept>>
probe == <<suspected, probeConn, probeLow, cooling, hold>>
history == <<inRow, own>>
loop == <<hpc, link, probed>>
vars == <<net, env, degraded, counts, probe, unsupported, loop, history>>

Conns == 0 .. MaxConns

(* Fast; held back by the origin, by the connection, by a connection whose *)
(* probes the server does not answer as it should, by the link.            *)
Speeds == {"high", "origin", "low", "deaf", "congested"}
linkOK == speed # "congested"

TypeOK ==
  /\ conn \in Conns /\ dialed \in Conns /\ dialing \in BOOLEAN /\ live \in BOOLEAN
  /\ active \in BOOLEAN /\ slept \in BOOLEAN /\ heavy \in BOOLEAN /\ degraded \in BOOLEAN
  /\ speed \in Speeds
  /\ lastHeavy \in 0 .. 1
  /\ lowCycles \in 0 .. DegradedPersistCycles /\ recoverCycles \in 0 .. DegradedRecoverCycles - 1
  /\ suspected \in BOOLEAN /\ probeConn \in Conns /\ cooling \in BOOLEAN /\ hold \in BOOLEAN
  /\ probeLow \in 0 .. ProbeConfirmCycles - 1 /\ unsupported \in 0 .. 2
  /\ hpc \in {"tick", "sample", "retire", "remove", "probe", "check", "convict"}
  /\ link \in BOOLEAN /\ probed \in Conns
  /\ inRow \in 0 .. ProbeConfirmCycles /\ own \in BOOLEAN

Init ==
  /\ conn = 0 /\ dialed = 0 /\ dialing = FALSE /\ live = FALSE
  /\ active = FALSE /\ slept = FALSE /\ heavy = FALSE /\ degraded = FALSE
  /\ speed = "high"
  /\ lastHeavy = 0 /\ lowCycles = 0 /\ recoverCycles = 0
  /\ suspected = FALSE /\ probeConn = 0 /\ probeLow = 0 /\ cooling = FALSE /\ hold = FALSE
  /\ unsupported = 0
  /\ hpc = "tick" /\ link = TRUE /\ probed = 0
  /\ inRow = 0 /\ own = TRUE

probeUnsupported == unsupported >= 2

-----------------------------------------------------------------------------
(* The dial clears the old connection's conclusions before it publishes    *)
(* the new identity.                                                       *)
DialReset ==
  /\ ~dialing /\ dialed < MaxConns
  /\ degraded' = FALSE /\ own' = TRUE /\ dialing' = TRUE
  /\ UNCHANGED <<conn, dialed, live, env, counts, probe, unsupported, loop, inRow>>

DialSwap ==
  /\ dialing
  /\ dialed' = dialed + 1 /\ conn' = dialed + 1 /\ dialing' = FALSE
  /\ own' = ~degraded
  /\ UNCHANGED <<live, env, degraded, counts, probe, unsupported, loop, inRow>>

(* The connection closes, or is given up by whoever found it dead or past  *)
(* the idle timeout, which clears the slot's marks (retireConn).           *)
Lose ==
  /\ conn # 0 /\ conn' = 0
  /\ degraded' \in {degraded, FALSE} /\ own' = (own \/ ~degraded')
  /\ UNCHANGED <<dialed, dialing, live, env, counts, probe, unsupported, loop, inRow>>

(* The first stream is counted, one becomes heavy, the heavy ones end, the *)
(* last one ends.                                                          *)
Streams ==
  /\ \/ ~active /\ active' = TRUE /\ UNCHANGED heavy
     \/ active /\ ~heavy /\ conn # 0 /\ heavy' = TRUE /\ UNCHANGED active
     \/ heavy /\ heavy' = FALSE /\ UNCHANGED active
     \/ active /\ ~heavy /\ active' = FALSE /\ UNCHANGED heavy
  /\ UNCHANGED <<net, speed, degraded, counts, probe, unsupported, loop, history>>

(* The pool grows by the slot, which clears its marks.  (What CloseIdle    *)
(* takes out of a pool is in Scheduler.)                                   *)
Grow ==
  /\ ~live /\ live' = TRUE /\ degraded' = FALSE /\ own' = TRUE
  /\ UNCHANGED <<conn, dialed, dialing, env, counts, probe, unsupported, loop, inRow>>

\* observeSuspend has counted a suspend, on whichever goroutine.
Suspend ==
  /\ ~slept /\ slept' = TRUE
  /\ UNCHANGED <<net, env, degraded, lastHeavy, lowCycles, recoverCycles, probe, unsupported, loop, history>>

Weather ==
  /\ speed' \in Speeds \ {speed}
  /\ UNCHANGED <<net, active, heavy, degraded, counts, probe, unsupported, loop, history>>

\* lastProbeAt + probeCooldown, probeHoldUntil.
CooldownOver ==
  /\ cooling /\ cooling' = FALSE
  /\ UNCHANGED <<net, env, degraded, counts, suspected, probeConn, probeLow, hold, unsupported, loop, history>>

HoldOver ==
  /\ hold /\ hold' = FALSE
  /\ UNCHANGED <<net, env, degraded, counts, suspected, probeConn, probeLow, cooling, unsupported, loop, history>>

-----------------------------------------------------------------------------
probeStateStale == probeConn # 0 /\ probeConn # conn
passive == probeUnsupported \/ ~Probes

resetProbeState ==
  /\ suspected' = FALSE /\ probeConn' = 0 /\ probeLow' = 0
  /\ cooling' = FALSE /\ hold' = FALSE

(* slotProber.probe: the payload's speed is the connection's; a server that *)
(* does not answer as it should truncates it, has no such endpoint, or      *)
(* gives nothing that can be measured.                                      *)
probeVerdicts ==
  IF speed \in {"deaf", "congested"} THEN {"slow", "unsupported", "inconclusive"}
  ELSE {IF speed = "low" THEN "slow" ELSE "fast"}

\* A count of which only "at least n" is asked.
UpTo(n, c) == IF c < n THEN c + 1 ELSE n

(* Mutant: an idle slot keeps the slow probes counted so far.              *)
HealthBeginKeeps ==
  /\ hpc = "tick" /\ live /\ link' = linkOK /\ slept' = FALSE
  /\ IF probeStateStale THEN resetProbeState ELSE UNCHANGED probe
  /\ lastHeavy' = IF heavy THEN 1 ELSE 0
  /\ IF heavy /\ (lastHeavy = 0 \/ slept)
     THEN lowCycles' = 0 /\ recoverCycles' = 0
     ELSE UNCHANGED <<lowCycles, recoverCycles>>
  /\ hpc' = IF heavy /\ lastHeavy = 1 /\ ~slept /\ linkOK /\ (hold => probeStateStale)
             THEN "sample" ELSE "retire"
  /\ inRow' = IF heavy THEN inRow ELSE 0
  /\ UNCHANGED <<net, env, degraded, unsupported, probed, own>>

(* resetSamplingOnSuspend, evaluate and evaluateSlotHealth up to the       *)
(* sample: what belongs to a connection that is gone is dropped; an idle   *)
(* slot, the first sample of heavy traffic or after a suspend, a slow link *)
(* and the hold window give no verdict.                                    *)
HealthBegin ==
  /\ hpc = "tick" /\ live /\ link' = linkOK /\ slept' = FALSE
  /\ CASE probeStateStale -> resetProbeState
       [] ~probeStateStale /\ ~heavy ->
            suspected' = FALSE /\ probeLow' = 0 /\ UNCHANGED <<probeConn, cooling, hold>>
       [] OTHER -> UNCHANGED probe
  /\ lastHeavy' = IF heavy THEN 1 ELSE 0
  /\ IF heavy /\ (lastHeavy = 0 \/ slept)
     THEN lowCycles' = 0 /\ recoverCycles' = 0
     ELSE UNCHANGED <<lowCycles, recoverCycles>>
  /\ hpc' = IF heavy /\ lastHeavy = 1 /\ ~slept /\ linkOK /\ (hold => probeStateStale)
             THEN "sample" ELSE "retire"
  /\ inRow' = IF heavy THEN inRow ELSE 0
  /\ UNCHANGED <<net, env, degraded, unsupported, probed, own>>

(* Mutant: the count of fast cycles is not reset on recovery.              *)
SampleHighKeeps ==
  /\ hpc = "sample" /\ speed = "high" /\ hpc' = "retire"
  /\ lowCycles' = 0 /\ suspected' = FALSE /\ probeLow' = 0 /\ inRow' = 0
  /\ degraded' = (degraded /\ recoverCycles + 1 < DegradedRecoverCycles) /\ own' = (own \/ ~degraded')
  /\ recoverCycles' = IF degraded THEN recoverCycles + 1 ELSE recoverCycles
  /\ UNCHANGED <<net, env, lastHeavy, slept, probeConn, cooling, hold, unsupported, link, probed>>

(* evaluateSlotHealth, throughput above the threshold.                     *)
SampleHigh ==
  /\ hpc = "sample" /\ speed = "high" /\ hpc' = "retire"
  /\ lowCycles' = 0 /\ suspected' = FALSE /\ probeLow' = 0 /\ inRow' = 0
  /\ LET recovered == degraded /\ recoverCycles + 1 >= DegradedRecoverCycles
     IN  /\ degraded' = (degraded /\ ~recovered)
         /\ own' = (own \/ ~degraded')
         /\ recoverCycles' = CASE recovered -> 0
                               [] degraded /\ ~recovered -> recoverCycles + 1
                               [] OTHER -> recoverCycles
  /\ UNCHANGED <<net, env, lastHeavy, slept, probeConn, cooling, hold, unsupported, link, probed>>

(* evaluateSlotHealth, throughput below the threshold: after               *)
(* DegradedPersistCycles in a row the slot is suspected, or convicted at   *)
(* once when the server cannot be probed.                                  *)
SampleLow ==
  /\ hpc = "sample" /\ speed # "high" /\ hpc' = "retire"
  /\ recoverCycles' = 0
  /\ LET persists == lowCycles + 1 >= DegradedPersistCycles /\ ~degraded
     IN  /\ lowCycles' = IF persists THEN 0 ELSE UpTo(DegradedPersistCycles, lowCycles)
         /\ degraded' = (degraded \/ (persists /\ passive))
         /\ IF persists /\ ~passive
            THEN suspected' = TRUE /\ probeConn' = conn
            ELSE UNCHANGED <<suspected, probeConn>>
  /\ UNCHANGED <<net, env, lastHeavy, slept, probeLow, cooling, hold, unsupported, link, probed, history>>

\* A slot that is not live at the tick is left alone.
Skip ==
  /\ hpc = "tick" /\ ~live /\ slept /\ slept' = FALSE
  /\ UNCHANGED <<net, env, degraded, lastHeavy, lowCycles, recoverCycles, probe, unsupported, loop, history>>

(* evaluate and retire: the idle connections of a convicted slot without   *)
(* streams are closed, as far as h2 finds them idle.                       *)
Retire ==
  /\ hpc = "retire"
  /\ IF link /\ degraded /\ ~active
     THEN hpc' = "remove" /\ conn' \in {0, conn}
     ELSE hpc' = "probe" /\ UNCHANGED conn
  /\ UNCHANGED <<dialed, dialing, live, env, degraded, counts, probe, unsupported, link, probed, history>>

(* Mutant: a convicted slot stays in the pool.                             *)
RemoveNever ==
  /\ hpc = "remove" /\ hpc' = "probe"
  /\ UNCHANGED <<net, env, degraded, counts, probe, unsupported, link, probed, history>>

(* scheduler.remove: the slot leaves the pool unless a stream has come. It *)
(* keeps its mark until the pool grows by it, and what the loop counted.   *)
Remove ==
  /\ hpc = "remove" /\ hpc' = "probe"
  /\ live' = (live /\ active)
  /\ UNCHANGED <<conn, dialed, dialing, env, degraded, counts, probe, unsupported, link, probed, history>>

(* evaluateProbes: probe a suspected slot that has a connection and is not *)
(* cooling down.                                                           *)
ProbeStart ==
  /\ hpc = "probe"
  /\ LET asked == link /\ live /\ ~passive
         drop == asked /\ (probeStateStale \/ (suspected /\ ~degraded /\ conn = 0))
         go == asked /\ ~drop /\ suspected /\ ~degraded /\ ~cooling
     IN  /\ IF drop THEN resetProbeState ELSE UNCHANGED probe
         /\ IF go THEN hpc' = "check" /\ probed' = conn ELSE hpc' = "tick" /\ probed' = 0
  /\ link' = TRUE
  /\ UNCHANGED <<net, env, degraded, counts, unsupported, history>>

\* probeSlot: the connection was replaced during the probe.
ProbeStale ==
  /\ hpc = "check" /\ conn # probed
  /\ resetProbeState /\ hpc' = "tick" /\ probed' = 0
  /\ UNCHANGED <<net, env, degraded, counts, unsupported, link, history>>

ProbeFast ==
  /\ hpc = "check" /\ conn = probed /\ "fast" \in probeVerdicts
  /\ probeConn' = conn /\ cooling' = TRUE
  /\ probeLow' = 0 /\ suspected' = FALSE /\ hold' = TRUE /\ inRow' = 0
  /\ hpc' = "tick" /\ probed' = 0
  /\ UNCHANGED <<net, env, degraded, counts, unsupported, link, own>>

(* Mutant: the slow probes are counted but nothing follows.                *)
ProbeSlowCounts ==
  /\ hpc = "check" /\ conn = probed /\ "slow" \in probeVerdicts
  /\ probeConn' = conn /\ cooling' = TRUE
  /\ inRow' = UpTo(ProbeConfirmCycles, inRow)
  /\ probeLow' = (probeLow + 1) % ProbeConfirmCycles
  /\ hpc' = "tick" /\ probed' = 0
  /\ UNCHANGED <<net, env, degraded, counts, suspected, hold, unsupported, link, own>>

(* A slow or truncated download.                                           *)
ProbeSlow ==
  /\ hpc = "check" /\ conn = probed /\ "slow" \in probeVerdicts
  /\ probeConn' = conn /\ cooling' = TRUE
  /\ inRow' = UpTo(ProbeConfirmCycles, inRow)
  /\ IF probeLow + 1 >= ProbeConfirmCycles
     THEN probeLow' = 0 /\ suspected' = FALSE /\ hpc' = "convict" /\ UNCHANGED probed
     ELSE probeLow' = probeLow + 1 /\ hpc' = "tick" /\ probed' = 0 /\ UNCHANGED suspected
  /\ UNCHANGED <<net, env, degraded, counts, hold, unsupported, link, own>>

(* No verdict: the endpoint is missing, or there was no usable answer.     *)
ProbeFails ==
  /\ hpc = "check" /\ conn = probed /\ {"unsupported", "inconclusive"} \subseteq probeVerdicts
  /\ probeConn' = conn /\ cooling' = TRUE
  /\ unsupported' \in {unsupported, unsupported + 1}
  /\ hpc' = "tick" /\ probed' = 0
  /\ UNCHANGED <<net, env, degraded, counts, suspected, probeLow, hold, link, history>>

\* degraded.Store(true), after the identity was compared.
Convict ==
  /\ hpc = "convict" /\ hpc' = "tick"
  /\ degraded' = TRUE /\ own' = (conn = probed) /\ probed' = 0
  /\ UNCHANGED <<net, env, counts, probe, unsupported, link, inRow>>

Health ==
  \/ HealthBegin \/ Skip \/ SampleHigh \/ SampleLow \/ Retire \/ Remove
  \/ ProbeStart \/ ProbeStale \/ ProbeFast \/ ProbeSlow \/ ProbeFails \/ Convict

Next ==
  \/ DialReset \/ DialSwap \/ Lose \/ Streams \/ Grow \/ Suspend \/ Weather \/ CooldownOver \/ HoldOver
  \/ Health

Spec == Init /\ [][Next]_vars

(* The loop ticks and its probe has a timeout; the cooldown and the hold   *)
(* window are deadlines; a dial that has reset the slot goes on to publish *)
(* its connection.                                                         *)
Fairness == WF_vars(Health) /\ WF_vars(CooldownOver) /\ WF_vars(HoldOver) /\ WF_vars(DialSwap)
FairSpec == Spec /\ Fairness

-----------------------------------------------------------------------------
(* A slot is convicted by probes only after ProbeConfirmCycles slow        *)
(* verdicts in a row: none fast, no idle cycle and no fast cycle between   *)
(* them (clearProbeProgress), whatever connections came and went.          *)
ConfirmedInARow == hpc = "convict" => inRow >= ProbeConfirmCycles

(* A slot whose own connection stays slow under heavy traffic on a healthy *)
(* link, while the machine stays awake, is convicted in the end, after     *)
(* hold windows, cooldowns and whatever was counted before, and stays      *)
(* convicted.                                                              *)
SlowConvicted ==
  <>[](live /\ heavy /\ conn # 0 /\ ~dialing /\ ~slept /\ speed = "low")
    => <>[]degraded

(* A verdict is not for ever: on a good link a slot that stays fast under  *)
(* heavy traffic recovers, one without streams leaves the pool, and        *)
(* neither is convicted again on what was counted before.                  *)
ConvictionEnds ==
  <>[](heavy /\ ~slept /\ speed = "high") \/ <>[](linkOK /\ ~active)
    => <>[](degraded => ~live)

(* What the comment in probeSlot asks: a probe's verdict is not held       *)
(* against a connection other than the one it measured.                    *)
ProbeVerdictOwn == degraded /\ conn # 0 /\ ~passive => own
=============================================================================
