------------------------------ MODULE MCShaper ------------------------------
(***************************************************************************)
(* Small instances of Shaper for TLC.  "close": p1 pushes bulk data, or a  *)
(* frame too large to be taken, p2 is the goroutine that sends FIN or RST, *)
(* and the stream is closed twice.  "cover": p1 alone pushes, with padding *)
(* and cover traffic, and the stream is closed once.  "bulk": the same     *)
(* with more frames, and nobody closes.                                    *)
(***************************************************************************)
EXTENDS Shaper

CONSTANTS p1, c1, k1

VARIABLE part  \* "close", "cover" or "bulk"

BulkAndControl == [p \in Pushers |-> IF p = p1 THEN {5, 9} ELSE {1}]
Padded(closers, maxFrames) == INSTANCE Shaper
  WITH Pushers <- {p1}, Closers <- closers, MaxFrames <- maxFrames, Sizes <- [p \in {p1} |-> {3, 4}],
       PadSizes <- {3}, BudgetCap <- 1, RatioNum <- 1

MCInit == Init /\ part \in {"close", "cover", "bulk"}
MCNext ==
  /\ \/ part = "close" /\ Next /\ pc'[c1] = "idle"
     \/ part = "cover" /\ Padded({k1}, 3)!Next
     \/ part = "bulk" /\ Padded({}, 4)!Next
  /\ UNCHANGED part

\* Shaper's Fairness, in the first of them.
CloseRuns ==
  /\ \A t \in Threads : WF_vars(part = "close" /\ Step(t))
  /\ \A t \in Timers : WF_vars(part = "close" /\ TimerStep(t))
  /\ \A k \in Closers :
       WF_vars(part = "close" /\ (CloseFlush(k) \/ CloseSnapshot(k) \/ CloseDrain(k) \/ CloseFree(k)))
MCSpec == MCInit /\ [][MCNext]_<<vars, part>> /\ CloseRuns

(* A Close that has begun returns, and a pushed frame leaves without the   *)
(* help of a later push, Flush or Close.                                   *)
EverythingLeaves == []<>(part = "close" => NoneClosing /\ AllWritten)
=============================================================================
