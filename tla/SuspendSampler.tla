--------------------------- MODULE SuspendSampler ---------------------------
(***************************************************************************)
(* suspendSampler and observeSuspend (transport/http2/lifecycle.go): the   *)
(* health loop and every opening stream sample how far the wall clock has  *)
(* run ahead of the monotonic clock, and the one that advances the shared  *)
(* baseline over a jump reports that the machine was suspended.            *)
(*                                                                         *)
(* The difference of the clocks is a number that a suspend raises by Sleep *)
(* and that drifts a little otherwise.  Each call reads it once, before    *)
(* its loop.                                                               *)
(***************************************************************************)
EXTENDS Integers

CONSTANTS
  Samplers,                       \* the goroutines that call observeSuspend
  SuspendDivergenceThreshold,
  Sleep,                          \* what one suspend adds
  MaxDrift, MaxSuspends, MaxCalls \* bounds

suspendBaselineUnset == 0

(* What the theorems ask of the constants.                                 *)
SuspendAssumption ==
  /\ SuspendDivergenceThreshold \in Nat \ {0}
  /\ Sleep \in Nat /\ Sleep >= SuspendDivergenceThreshold
  /\ MaxDrift \in Nat /\ MaxDrift < SuspendDivergenceThreshold
  /\ MaxSuspends \in Nat /\ MaxCalls \in Nat

VARIABLES
  clock, drifted, suspends,  \* suspendOffset(now), and what went into it
  baseline,
  suspendEvents,
  calls,
  pc, offset, prev,          \* of each sampler
  first, latest              \* history: the first baseline, the latest sample returned
vars == <<clock, drifted, suspends, baseline, suspendEvents, calls, pc, offset, prev, first, latest>>

TypeOK ==
  /\ clock \in Nat \ {0} /\ drifted \in 0 .. MaxDrift /\ suspends \in 0 .. MaxSuspends
  /\ baseline \in Nat /\ suspendEvents \in Nat /\ calls \in 0 .. MaxCalls
  /\ pc \in [Samplers -> {"idle", "load", "cas", "report"}]
  /\ offset \in [Samplers -> Nat] /\ prev \in [Samplers -> Nat]
  /\ first \in Nat /\ latest \in Nat

Init ==
  /\ clock = 1 /\ drifted = 0 /\ suspends = 0
  /\ baseline = suspendBaselineUnset /\ suspendEvents = 0 /\ calls = 0
  /\ pc = [s \in Samplers |-> "idle"]
  /\ offset = [s \in Samplers |-> 0] /\ prev = [s \in Samplers |-> 0]
  /\ first = 0 /\ latest = 0

-----------------------------------------------------------------------------
\* The wall clock is adjusted.
Drift ==
  /\ drifted < MaxDrift
  /\ drifted' = drifted + 1 /\ clock' = clock + 1
  /\ UNCHANGED <<suspends, baseline, suspendEvents, calls, pc, offset, prev, first, latest>>

\* The machine sleeps; a sampler may be anywhere in its call.
Suspend ==
  /\ suspends < MaxSuspends
  /\ suspends' = suspends + 1 /\ clock' = clock + Sleep
  /\ UNCHANGED <<drifted, baseline, suspendEvents, calls, pc, offset, prev, first, latest>>

\* observeSuspend(time.Now()): the caller reads the clocks.
Sample(s) ==
  /\ pc[s] = "idle" /\ calls < MaxCalls
  /\ calls' = calls + 1
  /\ offset' = [offset EXCEPT ![s] = clock]
  /\ pc' = [pc EXCEPT ![s] = "load"]
  /\ UNCHANGED <<clock, drifted, suspends, baseline, suspendEvents, prev, first, latest>>

Load(s) ==
  /\ pc[s] = "load"
  /\ prev' = [prev EXCEPT ![s] = baseline]
  /\ pc' = [pc EXCEPT ![s] = "cas"]
  /\ UNCHANGED <<clock, drifted, suspends, baseline, suspendEvents, calls, offset, first, latest>>

\* The CAS wins: the sampler returns offset - prev, or nothing when it set the
\* first baseline.
Swap(s) ==
  /\ pc[s] = "cas" /\ baseline = prev[s]
  /\ baseline' = offset[s]
  /\ LET divergence == IF prev[s] = suspendBaselineUnset THEN 0 ELSE offset[s] - prev[s]
     IN  pc' = [pc EXCEPT ![s] =
           IF divergence < SuspendDivergenceThreshold THEN "idle" ELSE "report"]
  /\ first' = IF prev[s] = suspendBaselineUnset THEN offset[s] ELSE first
  /\ latest' = IF offset[s] > latest THEN offset[s] ELSE latest
  /\ UNCHANGED <<clock, drifted, suspends, suspendEvents, calls, offset, prev>>

(* Mutant: the loser gives up instead of trying again.                     *)
GiveUp(s) ==
  /\ pc[s] = "cas" /\ baseline # prev[s]
  /\ pc' = [pc EXCEPT ![s] = "idle"]
  /\ latest' = IF offset[s] > latest THEN offset[s] ELSE latest
  /\ UNCHANGED <<clock, drifted, suspends, baseline, suspendEvents, calls, offset, prev, first>>

\* Another sampler was first: load again.
Retry(s) ==
  /\ pc[s] = "cas" /\ baseline # prev[s]
  /\ pc' = [pc EXCEPT ![s] = "load"]
  /\ UNCHANGED <<clock, drifted, suspends, baseline, suspendEvents, calls, offset, prev, first, latest>>

\* suspendEvents.Add(1), reportSuspend: a step of its own, after the CAS.
Report(s) ==
  /\ pc[s] = "report"
  /\ suspendEvents' = suspendEvents + 1
  /\ pc' = [pc EXCEPT ![s] = "idle"]
  /\ UNCHANGED <<clock, drifted, suspends, baseline, calls, offset, prev, first, latest>>

Next ==
  \/ Drift \/ Suspend
  \/ \E s \in Samplers : Sample(s) \/ Load(s) \/ Swap(s) \/ Retry(s) \/ Report(s)

Spec == Init /\ [][Next]_vars

-----------------------------------------------------------------------------
(* What the comment on suspendBaseline says: one suspend is counted once.  *)
(* A CAS hands each advance of the baseline to one caller, but a caller    *)
(* that read the clocks before the suspend and wins its CAS after it was   *)
(* counted puts the baseline back, and the next caller counts it again.    *)
SuspendCountedOnce == suspendEvents <= suspends

(* No suspend goes unnoticed: once observeSuspend has returned for a       *)
(* sample taken after a suspend that followed the first baseline, and no   *)
(* call is under way, at least one event has been counted.                 *)
SuspendNoticed ==
  (\A s \in Samplers : pc[s] = "idle") /\ latest - first >= SuspendDivergenceThreshold
    => suspendEvents >= 1
=============================================================================
