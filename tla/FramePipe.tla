------------------------------ MODULE FramePipe ------------------------------
(***************************************************************************)
(* What one direction of a proxied stream promises: frames numbered 1, 2,  *)
(* ... in the order they are accepted reach the peer as a prefix of that   *)
(* order, nothing is accepted or delivered once the pipe is closed, and a  *)
(* pipe that was never broken is only closed when all of it was delivered. *)
(***************************************************************************)
EXTENDS Naturals

VARIABLES
  accepted,   \* frames 1..accepted were taken from the callers
  delivered,  \* the peer can decode frames 1..delivered
  broken,     \* a write failed: the peer decodes nothing more
  closed

pipeVars == <<accepted, delivered, broken, closed>>

PipeInit == accepted = 0 /\ delivered = 0 /\ broken = FALSE /\ closed = FALSE

Accept ==
  /\ ~closed
  /\ accepted' = accepted + 1
  /\ UNCHANGED <<delivered, broken, closed>>

Deliver ==
  /\ ~broken /\ ~closed
  /\ delivered' \in delivered .. accepted
  /\ UNCHANGED <<accepted, broken, closed>>

Break ==
  /\ ~closed
  /\ broken' = TRUE
  /\ UNCHANGED <<accepted, delivered, closed>>

Shut ==
  /\ broken \/ delivered = accepted
  /\ closed' = TRUE
  /\ UNCHANGED <<accepted, delivered, broken>>

PipeNext == Accept \/ Deliver \/ Break \/ Shut

PipeSpec == PipeInit /\ [][PipeNext]_pipeVars
==============================================================================
