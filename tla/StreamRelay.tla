----------------------------- MODULE StreamRelay -----------------------------
(***************************************************************************)
(* One proxied TCP stream of the client: relay.bidirectional               *)
(* (relay/relay.go) over copyLocalToRemote and copyRemoteToLocal           *)
(* (client/proxy/stream.go), which reads ahead of the local connection     *)
(* through a bounded queue.                                                *)
(*                                                                         *)
(* The server sends the data frames 1 .. Down and then End; the local      *)
(* application sends Up chunks.  Time passes in ticks.                     *)
(***************************************************************************)
EXTENDS Naturals, Sequences

CONSTANTS
  Down, Up,              \* bounds: data frames down, chunks up
  remotePrefetchFrames,
  drainIdle, idleTimeout \* in ticks

ASSUME RelayAssumption ==
  Down \in Nat /\ Up \in Nat /\ remotePrefetchFrames \in Nat /\ idleTimeout \in Nat

VARIABLES
  End,              \* how the server ends: "FIN", "RST", "EOF", "error"
  ppc, read,        \* the goroutine that reads ahead, data frames it has read
  queue,            \* frames
  wpc, written,     \* the writer to the local connection, data frames written
  upc, sentUp,      \* copyLocalToRemote and the chunks it has pushed
  errCh,            \* results of the two directions
  activity,         \* the activity channel holds a token
  since,            \* ticks since idleSince
  draining,         \* SlotDraining
  firstErr, received, out  \* of the relay: "none" while it runs
\* done (the writer has returned) is wpc = "end"; onClose has run once out # "none".

down == <<ppc, read, queue>>
writer == <<wpc, written>>
up == <<upc, sentUp>>
loop == <<firstErr, received, out>>
vars == <<End, down, writer, up, errCh, activity, since, draining, loop>>

Frame == {"DATA", "FIN", "RST", "error"}

TypeOK ==
  /\ End \in {"FIN", "RST", "EOF", "error"}
  /\ ppc \in {"loop", "read", "put", "last", "end"} /\ read \in 0 .. Down
  /\ queue \in Seq(Frame) /\ Len(queue) <= remotePrefetchFrames
  /\ wpc \in {"take", "write", "end"} /\ written \in 0 .. Down
  /\ upc \in {"read", "push", "fin", "end"} /\ sentUp \in 0 .. Up
  /\ errCh \in Seq({"nil", "error"}) /\ Len(errCh) <= 2
  /\ activity \in BOOLEAN /\ draining \in BOOLEAN
  /\ since \in 0 .. idleTimeout
  /\ firstErr \in BOOLEAN /\ received \in 0 .. 2
  /\ out \in {"none", "ok", "error", "drained", "timeout"}

Init ==
  /\ End \in {"FIN", "RST", "EOF", "error"}
  /\ ppc = "loop" /\ read = 0 /\ queue = <<>>
  /\ wpc = "take" /\ written = 0 /\ upc = "read" /\ sentUp = 0
  /\ errCh = <<>> /\ activity = FALSE /\ since = 0 /\ draining = FALSE
  /\ firstErr = FALSE /\ received = 0 /\ out = "none"

connsClosed == out # "none"
done == wpc = "end"

-----------------------------------------------------------------------------
(* Reading ahead.                                                          *)
PrefetchLoop ==
  /\ ppc = "loop" /\ ppc' = IF done THEN "end" ELSE "read"
  /\ UNCHANGED <<End, read, queue, writer, up, errCh, activity, since, draining, loop>>

(* ReadFrame: a data frame, the server's end, or, once the stream has been *)
(* closed, an error.                                                       *)
ReadFrame ==
  /\ ppc = "read"
  /\ \/ /\ read < Down
        /\ read' = read + 1 /\ ppc' = "put" /\ activity' = TRUE
     \/ /\ read = Down /\ ppc' = (IF End = "EOF" THEN "end" ELSE "last") /\ UNCHANGED read
        /\ activity' = (activity \/ End = "FIN")
     \/ /\ connsClosed
        /\ ppc' = "last" /\ UNCHANGED <<read, activity>>
  /\ UNCHANGED <<End, queue, writer, up, errCh, since, draining, loop>>

(* Mutant: the goroutine waits for room in the queue only.                 *)
PutBlind ==
  /\ ppc \in {"put", "last"}
  /\ Len(queue) < remotePrefetchFrames
  /\ queue' = Append(queue, IF ppc = "put" THEN "DATA" ELSE IF connsClosed THEN "error" ELSE End)
  /\ ppc' = IF ppc = "put" THEN "loop" ELSE "end"
  /\ UNCHANGED <<End, read, writer, up, errCh, activity, since, draining, loop>>

(* Mutant: the queue has no limit.                                         *)
PutUnbounded ==
  /\ ppc \in {"put", "last"}
  /\ queue' = Append(queue, IF ppc = "put" THEN "DATA" ELSE IF connsClosed THEN "error" ELSE End)
  /\ ppc' = IF ppc = "put" THEN "loop" ELSE "end"
  /\ UNCHANGED <<End, read, writer, up, errCh, activity, since, draining, loop>>

(* Room in the queue, or a writer that is gone.                            *)
Put ==
  /\ ppc \in {"put", "last"}
  /\ \/ /\ Len(queue) < remotePrefetchFrames
        /\ queue' = Append(queue, IF ppc = "put" THEN "DATA" ELSE IF connsClosed THEN "error" ELSE End)
        /\ ppc' = IF ppc = "put" THEN "loop" ELSE "end"
     \/ done /\ UNCHANGED queue /\ ppc' = "end"
  /\ UNCHANGED <<End, read, writer, up, errCh, activity, since, draining, loop>>

-----------------------------------------------------------------------------
(* copyRemoteToLocal returns.                                              *)
Return(r) == wpc' = "end" /\ errCh' = Append(errCh, r)

(* Mutant: the end of the stream overtakes the queue.                      *)
TakeOvertaken ==
  /\ wpc = "take"
  /\ \/ /\ queue # <<>> /\ queue' = Tail(queue)
        /\ IF Head(queue) = "DATA"
           THEN wpc' = "write" /\ UNCHANGED errCh
           ELSE Return(IF Head(queue) = "FIN" THEN "nil" ELSE "error")
     \/ ppc = "end" /\ Return("nil") /\ UNCHANGED queue
  /\ UNCHANGED <<End, ppc, read, written, up, activity, since, draining, loop>>

(* The next frame, or the end of the queue after a plain EOF.              *)
Take ==
  /\ wpc = "take"
  /\ \/ /\ queue # <<>> /\ queue' = Tail(queue)
        /\ IF Head(queue) = "DATA"
           THEN wpc' = "write" /\ UNCHANGED errCh
           ELSE Return(IF Head(queue) = "FIN" THEN "nil" ELSE "error")
     \/ queue = <<>> /\ ppc = "end" /\ Return("nil") /\ UNCHANGED queue
  /\ UNCHANGED <<End, ppc, read, written, up, activity, since, draining, loop>>

(* The local connection takes the frame as slowly as it likes; the write   *)
(* may fail, and fails when the connection has been closed.                *)
WriteLocal ==
  /\ wpc = "write"
  /\ \/ /\ ~connsClosed
        /\ written' = written + 1 /\ wpc' = "take" /\ UNCHANGED errCh
     \/ Return("error") /\ UNCHANGED written
  /\ UNCHANGED <<End, down, up, activity, since, draining, loop>>

-----------------------------------------------------------------------------
(* copyLocalToRemote: read a chunk and push it, until the application ends *)
(* or fails, or a connection has been closed.                              *)
ReadLocal ==
  /\ upc = "read"
  /\ \/ /\ sentUp < Up /\ ~connsClosed
        /\ upc' = "push" /\ activity' = TRUE
     \/ upc' = "fin" /\ UNCHANGED activity
  /\ UNCHANGED <<End, down, writer, sentUp, errCh, since, draining, loop>>

(* A push that fails because the stream is being closed is no error.       *)
PushData ==
  /\ upc = "push"
  /\ \/ ~connsClosed /\ sentUp' = sentUp + 1 /\ upc' = "read" /\ UNCHANGED errCh
     \/ \E r \in {"nil", "error"} : upc' = "end" /\ errCh' = Append(errCh, r) /\ UNCHANGED sentUp
  /\ UNCHANGED <<End, down, writer, activity, since, draining, loop>>

PushFin ==
  /\ upc = "fin" /\ upc' = "end" /\ activity' = TRUE
  /\ \E r \in {"nil", "error"} : (connsClosed => r = "error") /\ errCh' = Append(errCh, r)
  /\ UNCHANGED <<End, down, writer, sentUp, since, draining, loop>>

-----------------------------------------------------------------------------
(* bidirectional: the select.                                              *)
TakeResult ==
  /\ out = "none" /\ errCh # <<>> /\ errCh' = Tail(errCh)
  /\ received' = received + 1 /\ firstErr' = (firstErr \/ Head(errCh) = "error")
  /\ IF firstErr' THEN out' = "error" /\ UNCHANGED since
     ELSE IF received' = 2 THEN out' = "ok" /\ UNCHANGED since
     ELSE out' = "none" /\ since' = 0
  /\ UNCHANGED <<End, down, writer, up, activity, draining>>

TakeActivity ==
  /\ out = "none" /\ activity
  /\ activity' = FALSE /\ since' = 0
  /\ UNCHANGED <<End, down, writer, up, errCh, draining, loop>>

Drain ==
  /\ out = "none" /\ draining /\ since >= drainIdle
  /\ out' = "drained"
  /\ UNCHANGED <<End, down, writer, up, errCh, activity, since, draining, firstErr, received>>

IdleTimeout ==
  /\ out = "none" /\ since = idleTimeout
  /\ out' = "timeout"
  /\ UNCHANGED <<End, down, writer, up, errCh, activity, since, draining, firstErr, received>>

(* The environment: time, by which the relay has dealt with what it was    *)
(* told, and the health loop that marks the slot.                          *)
Tick ==
  /\ out = "none" /\ ~activity /\ errCh = <<>> /\ since < idleTimeout
  /\ since' = since + 1
  /\ UNCHANGED <<End, down, writer, up, errCh, activity, draining, loop>>

MarkSlot ==
  /\ out = "none" /\ ~draining /\ draining' = TRUE
  /\ UNCHANGED <<End, down, writer, up, errCh, activity, since, loop>>

-----------------------------------------------------------------------------
PrefetchStep == PrefetchLoop \/ ReadFrame \/ Put
UploadStep == ReadLocal \/ PushData \/ PushFin
RelayStep == TakeResult \/ TakeActivity \/ Drain \/ IdleTimeout

Next ==
  \/ PrefetchStep \/ Take \/ WriteLocal \/ UploadStep \/ RelayStep
  \/ Tick \/ MarkSlot

Spec == Init /\ [][Next]_vars

(* Time passes and goroutines run on.  Reading and writing a connection    *)
(* may block as long as it is open.                                        *)
Fairness ==
  /\ WF_vars(PrefetchLoop) /\ WF_vars(connsClosed /\ ReadFrame) /\ WF_vars(Put)
  /\ WF_vars(Take) /\ WF_vars(connsClosed /\ WriteLocal)
  /\ WF_vars(connsClosed /\ UploadStep)
  /\ WF_vars(TakeResult) /\ WF_vars(TakeActivity) /\ WF_vars(IdleTimeout) /\ WF_vars(Tick)
FairSpec == Spec /\ Fairness

-----------------------------------------------------------------------------
(* When the relay ends without an error, every data frame the server sent  *)
(* before its end has been written to the local connection, also the ones  *)
(* that were only read ahead: the end takes the same queue, and one        *)
(* direction's end does not cut the other.                                 *)
NormalEndComplete == out = "ok" => written = Down

(* A stream nobody uses ends: its relay comes back whatever blocks.  It    *)
(* does not wait for its goroutines, but they end too: the reader ahead    *)
(* even if the queue is full and nobody takes from it any more.            *)
RelayEnds == <>(out # "none" /\ ppc = "end" /\ wpc = "end" /\ upc = "end")
=============================================================================
