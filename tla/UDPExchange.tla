----------------------------- MODULE UDPExchange -----------------------------
(***************************************************************************)
(* Sending on a UDP exchange while it is being closed                      *)
(* (client/proxy/stream.go, UDPExchange).                                  *)
(*                                                                         *)
(* Writing to the shaper may stall for ever under back pressure, with the  *)
(* exchange's mutex held, until the stream is cut; and the close of a      *)
(* stream may stall after it has cut it.                                   *)
(***************************************************************************)
EXTENDS Naturals, Sequences

CONSTANTS Senders, Closers, None, Finisher

VARIABLES
  mu,       \* who holds ue.mu
  closed,   \* ue.closed
  once,     \* closeOnce: "free", "running", "done"
  pushed,   \* the frames the shaper has taken
  cut,      \* the stream is cancelled and its pipe closed: writes fail
  pc,       \* of each sender
  cpc,      \* of each caller of Close
  fpc,      \* the goroutine that finishes gracefully
  lpc       \* the one that closes the stream once the grace is over

vars == <<mu, closed, once, pushed, cut, pc, cpc, fpc, lpc>>

TypeOK ==
  /\ mu \in Senders \cup {None, Finisher} /\ closed \in BOOLEAN /\ cut \in BOOLEAN
  /\ once \in {"free", "running", "done"} /\ pushed \in Seq({"DATAGRAM", "FIN"})
  /\ pc \in [Senders -> {"idle", "lock", "check", "push", "end"}]
  /\ cpc \in [Closers -> {"idle", "wait", "select", "end"}]
  /\ fpc \in {"none", "lock", "fin", "flush", "unlock", "stream", "closing", "end"}
  /\ lpc \in {"none", "stream", "end"}
  /\ \A s \in Senders : mu = s <=> pc[s] \in {"check", "push"}

Init ==
  /\ mu = None /\ closed = FALSE /\ once = "free" /\ pushed = <<>> /\ cut = FALSE
  /\ pc = [s \in Senders |-> "idle"] /\ cpc = [c \in Closers |-> "idle"]
  /\ fpc = "none" /\ lpc = "none"

Goto(s, l) == pc' = [pc EXCEPT ![s] = l]

-----------------------------------------------------------------------------
(* Send: the lock, the check under it, the push.                           *)
Start(s) ==
  /\ pc[s] = "idle" /\ Goto(s, "lock")
  /\ UNCHANGED <<mu, closed, once, pushed, cut, cpc, fpc, lpc>>

Lock(s) ==
  /\ pc[s] = "lock" /\ mu = None
  /\ mu' = s /\ Goto(s, "check")
  /\ UNCHANGED <<closed, once, pushed, cut, cpc, fpc, lpc>>

(* Mutant: there is no check under the lock.                               *)
CheckNothing(s) ==
  /\ pc[s] = "check"
  /\ Goto(s, "push") /\ UNCHANGED mu
  /\ UNCHANGED <<closed, once, pushed, cut, cpc, fpc, lpc>>

Check(s) ==
  /\ pc[s] = "check"
  /\ IF closed THEN mu' = None /\ Goto(s, "end") ELSE UNCHANGED mu /\ Goto(s, "push")
  /\ UNCHANGED <<closed, once, pushed, cut, cpc, fpc, lpc>>

Push(s) ==
  /\ pc[s] = "push"
  /\ \/ ~cut /\ pushed' = Append(pushed, "DATAGRAM")
     \/ UNCHANGED pushed
  /\ mu' = None /\ Goto(s, "end")
  /\ UNCHANGED <<closed, once, cut, cpc, fpc, lpc>>

-----------------------------------------------------------------------------
(* Close: one caller runs the body, the others wait until it is done.      *)
Close(c) ==
  /\ cpc[c] = "idle"
  /\ IF once = "free"
     THEN /\ once' = "running" /\ closed' = TRUE /\ fpc' = "lock"
          /\ cpc' = [cpc EXCEPT ![c] = "select"]
     ELSE UNCHANGED <<once, closed, fpc>> /\ cpc' = [cpc EXCEPT ![c] = "wait"]
  /\ UNCHANGED <<mu, pushed, cut, pc, lpc>>

Wait(c) ==
  /\ cpc[c] = "wait" /\ once = "done"
  /\ cpc' = [cpc EXCEPT ![c] = "end"]
  /\ UNCHANGED <<mu, closed, once, pushed, cut, pc, fpc, lpc>>

(* Mutant: the body waits for the graceful end only.                       *)
SelectDone(c) ==
  /\ cpc[c] = "select" /\ fpc = "end"
  /\ UNCHANGED lpc
  /\ once' = "done" /\ cpc' = [cpc EXCEPT ![c] = "end"]
  /\ UNCHANGED <<mu, closed, pushed, cut, pc, fpc>>

(* Mutant: when the grace is over, nobody closes the stream.               *)
SelectGiveUp(c) ==
  /\ cpc[c] = "select"
  /\ UNCHANGED lpc
  /\ once' = "done" /\ cpc' = [cpc EXCEPT ![c] = "end"]
  /\ UNCHANGED <<mu, closed, pushed, cut, pc, fpc>>

(* The select: the graceful end, or the end of udpCloseGrace.              *)
Select(c) ==
  /\ cpc[c] = "select"
  /\ \/ fpc = "end" /\ UNCHANGED lpc
     \/ lpc' = "stream"
  /\ once' = "done" /\ cpc' = [cpc EXCEPT ![c] = "end"]
  /\ UNCHANGED <<mu, closed, pushed, cut, pc, fpc>>

(* The goroutine that takes the lock, pushes the FIN, flushes, closes the  *)
(* shaper and then the stream.                                             *)
FinLock ==
  /\ fpc = "lock" /\ mu = None /\ mu' = Finisher /\ fpc' = "fin"
  /\ UNCHANGED <<closed, once, pushed, cut, pc, cpc, lpc>>

FinPush ==
  /\ fpc = "fin" /\ fpc' = "flush"
  /\ \/ ~cut /\ pushed' = Append(pushed, "FIN")
     \/ UNCHANGED pushed
  /\ UNCHANGED <<mu, closed, once, cut, pc, cpc, lpc>>

FinFlush ==
  /\ fpc = "flush" /\ fpc' = "unlock"
  /\ UNCHANGED <<mu, closed, once, pushed, cut, pc, cpc, lpc>>

FinTxClose ==
  /\ fpc = "unlock" /\ mu' = None /\ fpc' = "stream"
  /\ UNCHANGED <<closed, once, pushed, cut, pc, cpc, lpc>>

FinCut ==
  /\ fpc = "stream" /\ cut' = TRUE /\ fpc' = "closing"
  /\ UNCHANGED <<mu, closed, once, pushed, pc, cpc, lpc>>

FinEnd ==
  /\ fpc = "closing" /\ fpc' = "end"
  /\ UNCHANGED <<mu, closed, once, pushed, cut, pc, cpc, lpc>>

LateClose ==
  /\ lpc = "stream" /\ cut' = TRUE /\ lpc' = "end"
  /\ UNCHANGED <<mu, closed, once, pushed, pc, cpc, fpc>>

-----------------------------------------------------------------------------
SendStep(s) == Lock(s) \/ Check(s)
FinQuick == FinLock \/ FinCut
FinSlow == FinPush \/ FinFlush \/ FinTxClose

Next ==
  \/ \E s \in Senders : Start(s) \/ SendStep(s) \/ Push(s)
  \/ \E c \in Closers : Close(c) \/ Wait(c) \/ Select(c)
  \/ FinQuick \/ FinSlow \/ FinEnd \/ LateClose

Spec == Init /\ [][Next]_vars

(* The mutex is fair and the grace timer fires.  What writes to the stream *)
(* comes back for certain only once the stream is cut, and the close of    *)
(* the stream not even then (FinEnd).                                      *)
Fairness ==
  /\ \A s \in Senders : SF_vars(Lock(s)) /\ WF_vars(Check(s)) /\ WF_vars(cut /\ Push(s))
  /\ \A c \in Closers : WF_vars(Wait(c)) /\ WF_vars(Select(c))
  /\ SF_vars(FinLock) /\ WF_vars(FinCut) /\ WF_vars(cut /\ FinSlow) /\ WF_vars(LateClose)
FairSpec == Spec /\ Fairness

-----------------------------------------------------------------------------
(* A datagram is never written after the FIN, after which the server no    *)
(* longer reads the association.                                           *)
FinLast ==
  \A i \in DOMAIN pushed : pushed[i] = "FIN" => i = Len(pushed)

(* Close comes back to each of its callers, even if a Send holds the mutex *)
(* on a stalled stream and the stream's own close stalls.                  *)
CloseReturns == \A c \in Closers : (cpc[c] # "idle") ~> (cpc[c] = "end")

(* Once Close was called the stream is cut, so that nobody stays blocked   *)
(* in a Send for ever.                                                     *)
SendersEnd == closed ~> [](cut /\ mu = None /\ \A s \in Senders : pc[s] # "push")
=============================================================================
