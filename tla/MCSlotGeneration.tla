-------------------------- MODULE MCSlotGeneration --------------------------
(***************************************************************************)
(* Small instances of SlotGeneration for TLC.  In one of them a stream, a  *)
(* sweep and a closing transport meet over several connections, in the     *)
(* other two streams, a sweep and the health loop over one connection that *)
(* may be dead: all of them at once are too many.                          *)
(***************************************************************************)
EXTENDS SlotGeneration

VARIABLE part  \* "verdicts" or "opens"

MCInit == Init /\ part \in {"verdicts", "opens"}
MCNext ==
  LET streams == IF part = "opens" THEN Streams ELSE {CHOOSE s \in Streams : TRUE} IN
  /\ \/ \E t \in streams \cup Sweepers : RetireStep(t)
     \/ \E s \in streams : StreamStep(s)
     \/ (part = "verdicts" \/ Len(cgen) = 0) /\ \E d \in Dialers : DialStep(d)
     \/ \E u \in Sweepers : SweepStep(u)
     \/ part = "opens" /\ \E h \in Health : HealthStep(h)
     \/ \E t \in IF part = "opens" THEN Health ELSE Closers : PoolStep(t)
     \/ Recycle \/ CloseConn
  /\ UNCHANGED part

\* The Fairness of the streams, which nobody stops.
OpensRun ==
  \A s \in Streams :
    /\ WF_vars(part = "opens" /\ RetireStep(s))
    /\ WF_vars(part = "opens" /\ (Pick(s) \/ Gate(s) \/ ProbeAlive(s) \/ ProbeDead(s) \/ Unlock(s)
                                  \/ Submit(s) \/ CloseStream(s)))
    /\ SF_vars(part = "opens" /\ reverifySlot(s))
MCSpec == MCInit /\ [][MCNext]_<<vars, part>> /\ OpensRun

(* An Open that has begun ends, with a stream or without one, however the  *)
(* probes that the Opens of the slot queue behind turn out.                *)
OpenReturns == \A s \in Streams : []<>(part = "opens" => pc[s] = "idle")
=============================================================================
