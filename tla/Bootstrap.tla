----------------------------- MODULE Bootstrap -----------------------------
(***************************************************************************)
(* Opening a stream and sending its bootstrap record, with the retries on  *)
(* another connection (client/proxy/stream.go, openAndBootstrap), by       *)
(* several calls that share the connections of a transport.                *)
(*                                                                         *)
(* The transport hands out the newest connection that has not been given   *)
(* up, and dials another when there is none.  A connection may die at any  *)
(* time, which its streams see as silence or as an error.                  *)
(***************************************************************************)
EXTENDS Naturals

CONSTANTS
  Calls,
  MaxConns,              \* bound: connections dialed
  bootstrapMaxAttempts

VARIABLES
  conns,      \* connections dialed so far: 1 .. conns
  alive,      \* those that work
  usable,     \* those the transport still hands out
  accused,    \* those on which a stream failed by itself or a probe had no answer
  killed,     \* those given up by InvalidateConn
  pc, attempt,
  conn,       \* of each call: the connection of its stream
  open,       \* of each call: attempts whose stream is open
  cancelled   \* calls whose context is done

connVars == <<conns, alive, usable, accused, killed>>
callVars == <<pc, attempt, conn, open>>
vars == <<connVars, callVars, cancelled>>

Conns == 1 .. MaxConns

TypeOK ==
  /\ conns \in 0 .. MaxConns
  /\ alive \subseteq Conns /\ usable \subseteq Conns /\ accused \subseteq Conns /\ killed \subseteq Conns
  /\ pc \in [Calls -> {"idle", "open", "write", "settle", "await", "probe", "judge", "ok", "failed"}]
  /\ attempt \in [Calls -> 1 .. bootstrapMaxAttempts]
  /\ conn \in [Calls -> 0 .. MaxConns]
  /\ open \in [Calls -> SUBSET (1 .. bootstrapMaxAttempts)]
  /\ cancelled \subseteq Calls

Init ==
  /\ conns = 0 /\ alive = {} /\ usable = {} /\ accused = {} /\ killed = {}
  /\ pc = [c \in Calls |-> "idle"] /\ attempt = [c \in Calls |-> 1]
  /\ conn = [c \in Calls |-> 0] /\ open = [c \in Calls |-> {}]
  /\ cancelled = {}

Goto(c, l) == pc' = [pc EXCEPT ![c] = l]
CloseStream(c) == open' = [open EXCEPT ![c] = @ \ {attempt[c]}]

-----------------------------------------------------------------------------
(* The record is built; one that is too long is refused.                   *)
Start(c) ==
  /\ pc[c] = "idle"
  /\ Goto(c, "open") \/ Goto(c, "failed")
  /\ UNCHANGED <<connVars, attempt, conn, open, cancelled>>

(* transport.Open, and the keys of a fresh salt.  A failure of either ends *)
(* the call; the stream is closed.                                         *)
Open(c) ==
  /\ pc[c] = "open"
  /\ \/ Goto(c, "failed") /\ UNCHANGED <<conns, alive, usable, conn, open>>
     \/ /\ usable # {}
        /\ \E x \in usable : (\A y \in usable : y <= x) /\ conn' = [conn EXCEPT ![c] = x]
        /\ open' = [open EXCEPT ![c] = @ \cup {attempt[c]}]
        /\ Goto(c, "write") /\ UNCHANGED <<conns, alive, usable>>
     \/ /\ usable = {} /\ conns < MaxConns
        /\ conns' = conns + 1 /\ alive' = alive \cup {conns + 1} /\ usable' = {conns + 1}
        /\ conn' = [conn EXCEPT ![c] = conns + 1]
        /\ open' = [open EXCEPT ![c] = @ \cup {attempt[c]}]
        /\ Goto(c, "write")
  /\ UNCHANGED <<accused, killed, attempt, cancelled>>

(* Mutant: one attempt more.                                               *)
LastLate(c) == attempt[c] > bootstrapMaxAttempts

Last(c) == attempt[c] = bootstrapMaxAttempts

Again(c) ==
  /\ attempt' = [attempt EXCEPT ![c] = @ + 1] /\ Goto(c, "open")

(* WriteRecord: only a closed pipe is worth another attempt.               *)
WriteRecord(c) ==
  /\ pc[c] = "write"
  /\ \/ Goto(c, "await") /\ UNCHANGED <<open, accused>>
     \/ \E closedPipe \in BOOLEAN :
          /\ CloseStream(c)
          /\ accused' = accused \cup {conn[c]}
          /\ Goto(c, IF closedPipe /\ ~Last(c) /\ c \notin cancelled THEN "settle" ELSE "failed")
  /\ UNCHANGED <<conns, alive, usable, killed, attempt, conn, cancelled>>

Streams(x) == {c \in Calls : conn[c] = x /\ open[c] # {}}

(* settleDeadStream and CloseIdle: connections without streams are given   *)
(* up.  This stream may not have settled in time.                          *)
SettleRetry(c) ==
  /\ pc[c] = "settle"
  /\ \E keep \in {{}, {conn[c]}} : usable' = {x \in usable : Streams(x) # {} \/ x \in keep}
  /\ Again(c)
  /\ UNCHANGED <<conns, alive, accused, killed, conn, open, cancelled>>

(* awaitBootstrapResponse: the answer, a failure of the stream, the end of *)
(* the context, or the end of the window.                                  *)
Await(c) ==
  /\ pc[c] = "await"
  /\ \/ conn[c] \in alive /\ Goto(c, "ok") /\ UNCHANGED accused
     \/ accused' = accused \cup {conn[c]} /\ Goto(c, "judge")
     \/ Goto(c, IF c \in cancelled THEN "judge" ELSE "probe") /\ UNCHANGED accused
  /\ UNCHANGED <<conns, alive, usable, killed, attempt, conn, open, cancelled>>

(* ConnAlive: the probe is answered, on this connection or on another one  *)
(* of its generation; the context ends; or nothing comes within            *)
(* bootstrapLivenessTimeout, also on a connection that works.              *)
ConnAlive(c) ==
  /\ pc[c] = "probe"
  /\ \/ alive # {} /\ Goto(c, "ok") /\ UNCHANGED accused
     \/ c \in cancelled /\ Goto(c, "judge") /\ UNCHANGED accused
     \/ c \notin cancelled /\ accused' = accused \cup {conn[c]} /\ Goto(c, "judge")
  /\ UNCHANGED <<conns, alive, usable, killed, attempt, conn, open, cancelled>>

(* Mutant: the connection is closed, and handed out again.                 *)
InvalidateConnOnly(x) ==
  /\ killed' = killed \cup {x} /\ UNCHANGED usable /\ alive' = alive \ {x}

(* The connection is closed under its streams, and no longer handed out.   *)
InvalidateConn(x) ==
  /\ killed' = killed \cup {x} /\ usable' = usable \ {x} /\ alive' = alive \ {x}

(* Mutant: a cancelled call gives the connection up as well.               *)
JudgeCancelled(c) ==
  /\ pc[c] = "judge"
  /\ CloseStream(c)
  /\ InvalidateConn(conn[c])
  /\ IF Last(c) \/ c \in cancelled THEN Goto(c, "failed") /\ UNCHANGED attempt ELSE Again(c)
  /\ UNCHANGED <<conns, accused, conn, cancelled>>

(* Mutant: the stream of a failed attempt stays open.                      *)
JudgeForgets(c) ==
  /\ pc[c] = "judge"
  /\ UNCHANGED open
  /\ IF c \in cancelled
     THEN Goto(c, "failed") /\ UNCHANGED <<attempt, alive, usable, killed>>
     ELSE /\ InvalidateConn(conn[c])
          /\ IF Last(c) THEN Goto(c, "failed") /\ UNCHANGED attempt ELSE Again(c)
  /\ UNCHANGED <<conns, accused, conn, cancelled>>

(* The verdict: nothing if the context is done, else the connection is     *)
(* given up, with every stream on it, and the call tries another.          *)
Judge(c) ==
  /\ pc[c] = "judge"
  /\ CloseStream(c)
  /\ IF c \in cancelled
     THEN Goto(c, "failed") /\ UNCHANGED <<attempt, alive, usable, killed>>
     ELSE /\ InvalidateConn(conn[c])
          /\ IF Last(c) THEN Goto(c, "failed") /\ UNCHANGED attempt ELSE Again(c)
  /\ UNCHANGED <<conns, accused, conn, cancelled>>

-----------------------------------------------------------------------------
Cancel(c) ==
  /\ pc[c] \notin {"idle", "ok", "failed"} /\ c \notin cancelled
  /\ cancelled' = cancelled \cup {c}
  /\ UNCHANGED <<connVars, callVars>>

Die(x) ==
  /\ x \in alive /\ alive' = alive \ {x}
  /\ UNCHANGED <<conns, usable, accused, killed, callVars, cancelled>>

CallStep(c) ==
  Open(c) \/ WriteRecord(c) \/ SettleRetry(c) \/ Await(c) \/ ConnAlive(c) \/ Judge(c)

Next ==
  \/ \E c \in Calls : Start(c) \/ CallStep(c) \/ Cancel(c)
  \/ \E x \in Conns : Die(x)

Spec == Init /\ [][Next]_vars

-----------------------------------------------------------------------------
(* A call leaves no stream behind but the one it returns.                  *)
NoStreamLeft ==
  \A c \in Calls : /\ pc[c] \in {"open", "settle", "failed"} => open[c] = {}
                   /\ pc[c] = "ok" => open[c] = {attempt[c]}

(* A connection that works is given up only if a stream failed on it or a  *)
(* probe of it had no answer: not because a server was slow to answer a    *)
(* stream, and not because a caller lost patience, for other calls share   *)
(* it.                                                                     *)
HealthySpared ==
  [][\A x \in killed' \ killed : x \in alive => x \in accused]_vars

(* After a verdict the next attempt is on another connection.              *)
RetryElsewhere ==
  [][\A c \in Calls : pc[c] = "open" /\ pc'[c] = "write" => conn'[c] \notin killed]_vars
=============================================================================
