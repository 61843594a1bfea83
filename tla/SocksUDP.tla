------------------------------ MODULE SocksUDP ------------------------------
(***************************************************************************)
(* SOCKS5 UDP ASSOCIATE (udpAssociate and udpRelayLoop of                  *)
(* client/proxy/socks5.go).  An association owns a UDP socket and lives as *)
(* long as its TCP control connection: one goroutine relays the datagrams, *)
(* a second one watches the control connection.  The server's Close ends   *)
(* every association, the ones that are just being set up included.        *)
(***************************************************************************)
EXTENDS Naturals, FiniteSets

CONSTANTS Relays,       \* associations
          Ports         \* source ports the client uses

VARIABLES handler,      \* the goroutine of the request
          watcher,      \* the goroutine that reads the control connection
          control,      \* the control connection: "open", "client_gone", "closed"
          socket,       \* the UDP socket of the association
          udpRelays, udpRelaysClosed,  \* the server's table
          closing,      \* Close: "no", "closing", "closed"
          toClose,      \* sockets Close took from the table
          peer,         \* where the replies of the association go
          reply         \* the reply to the request (history)

udpVars == <<handler, watcher, control, socket, udpRelays, udpRelaysClosed, closing, toClose, peer, reply>>
table == <<udpRelays, udpRelaysClosed>>
server == <<closing, toClose>>

NoPeer == "none"
Stranger == "stranger"       \* any source with another IP

UDPTypeOK ==
  /\ handler \in [Relays -> {"none", "listening", "replying", "loop", "leaving", "returned"}]
  /\ watcher \in [Relays -> {"none", "reading", "ended"}]
  /\ control \in [Relays -> {"open", "client_gone", "closed"}]
  /\ socket \in [Relays -> {"none", "open", "closed"}]
  /\ udpRelays \subseteq Relays /\ udpRelaysClosed \in BOOLEAN
  /\ closing \in {"no", "closing", "closed"} /\ toClose \subseteq Relays
  /\ peer \in [Relays -> Ports \cup {NoPeer, Stranger}]
  /\ reply \in [Relays -> {"none", "success", "failure"}]

UDPInit ==
  /\ handler = [r \in Relays |-> "none"] /\ watcher = [r \in Relays |-> "none"]
  /\ control = [r \in Relays |-> "open"] /\ socket = [r \in Relays |-> "none"]
  /\ udpRelays = {} /\ udpRelaysClosed = FALSE
  /\ closing = "no" /\ toClose = {}
  /\ peer = [r \in Relays |-> NoPeer]
  /\ reply = [r \in Relays |-> "none"]

At(r, from) == handler[r] = from
Go(r, to) == handler' = [handler EXCEPT ![r] = to]
CloseSocket(r) == socket' = [socket EXCEPT ![r] = "closed"]

-----------------------------------------------------------------------------
(* udpAssociate listens on a port of the kernel's choice; a failure is     *)
(* reported and ends the request.                                          *)
udpAssociate(r) ==
  /\ At(r, "none")
  /\ \/ Go(r, "listening") /\ socket' = [socket EXCEPT ![r] = "open"] /\ UNCHANGED reply
     \/ Go(r, "returned") /\ reply' = [reply EXCEPT ![r] = "failure"] /\ UNCHANGED socket
  /\ UNCHANGED <<watcher, control, table, server, peer>>

(* Mutant: the table is not asked whether the server is closed. *)
addUDPRelayAlways(r) ==
  /\ At(r, "listening")
  /\ udpRelays' = udpRelays \cup {r}
  /\ Go(r, "replying")
  /\ UNCHANGED <<udpRelaysClosed, socket, reply, watcher, control, server, peer>>

(* addUDPRelay: registered before the reply, under the lock of Close; a    *)
(* closed server refuses and the request closes its socket itself.         *)
addUDPRelay(r) ==
  /\ At(r, "listening")
  /\ IF udpRelaysClosed
       THEN /\ CloseSocket(r) /\ Go(r, "returned")
            /\ reply' = [reply EXCEPT ![r] = "failure"]
            /\ UNCHANGED udpRelays
       ELSE /\ udpRelays' = udpRelays \cup {r}
            /\ Go(r, "replying")
            /\ UNCHANGED <<socket, reply>>
  /\ UNCHANGED <<udpRelaysClosed, watcher, control, server, peer>>

removeUDPRelay(r) ==
  /\ udpRelays' = udpRelays \ {r}
  /\ CloseSocket(r)

(* The success reply; then the two goroutines run. *)
Reply(r) ==
  /\ At(r, "replying")
  /\ \/ /\ control[r] = "open"
        /\ reply' = [reply EXCEPT ![r] = "success"]
        /\ watcher' = [watcher EXCEPT ![r] = "reading"]
        /\ Go(r, "loop")
        /\ UNCHANGED <<udpRelays, socket>>
     \/ /\ control[r] # "open"
        /\ removeUDPRelay(r) /\ Go(r, "returned")
        /\ UNCHANGED <<reply, watcher>>
  /\ UNCHANGED <<udpRelaysClosed, control, server, peer>>

(* The client leaves. *)
Leave(r) ==
  /\ control[r] = "open" /\ handler[r] # "none"
  /\ control' = [control EXCEPT ![r] = "client_gone"]
  /\ UNCHANGED <<handler, watcher, socket, table, server, peer, reply>>

(* The watcher: the end of the control connection closes the socket. *)
Watch(r) ==
  /\ watcher[r] = "reading" /\ control[r] # "open"
  /\ CloseSocket(r)
  /\ watcher' = [watcher EXCEPT ![r] = "ended"]
  /\ UNCHANGED <<handler, control, table, server, peer, reply>>

(* Mutant: the source is noted before it is compared with the client. *)
udpRelayLoopAny(r) ==
  /\ At(r, "loop") /\ socket[r] = "open"
  /\ \E src \in Ports \cup {Stranger} : peer' = [peer EXCEPT ![r] = src]
  /\ UNCHANGED <<handler, watcher, control, socket, table, server, reply>>

(* udpRelayLoop: a datagram of the client sets where replies go; one of    *)
(* another source is dropped.                                              *)
udpRelayLoop(r) ==
  /\ At(r, "loop") /\ socket[r] = "open"
  /\ \E src \in Ports : peer' = [peer EXCEPT ![r] = src]
  /\ UNCHANGED <<handler, watcher, control, socket, table, server, reply>>

LoopEnds(r) ==
  /\ At(r, "loop") /\ socket[r] = "closed"
  /\ Go(r, "leaving")
  /\ UNCHANGED <<watcher, control, socket, table, server, peer, reply>>

(* Mutant: the control connection is left to the client. *)
LeaveHandlerOnly(r) ==
  /\ At(r, "leaving")
  /\ removeUDPRelay(r)
  /\ Go(r, "returned")
  /\ UNCHANGED <<control, udpRelaysClosed, watcher, server, peer, reply>>

(* The deferred end: the relay leaves the table and the control connection *)
(* is closed, which wakes the watcher.                                     *)
LeaveHandler(r) ==
  /\ At(r, "leaving")
  /\ removeUDPRelay(r)
  /\ control' = [control EXCEPT ![r] = "closed"]
  /\ Go(r, "returned")
  /\ UNCHANGED <<udpRelaysClosed, watcher, server, peer, reply>>

-----------------------------------------------------------------------------
(* closeUDPRelays: the table is emptied and shut under its lock, the       *)
(* sockets are closed after it.                                            *)
closeUDPRelays ==
  /\ closing = "no"
  /\ closing' = "closing"
  /\ udpRelaysClosed' = TRUE
  /\ toClose' = udpRelays /\ udpRelays' = {}
  /\ UNCHANGED <<handler, watcher, control, socket, peer, reply>>

CloseRelays ==
  /\ closing = "closing"
  /\ IF toClose = {} THEN closing' = "closed" /\ UNCHANGED <<toClose, socket>>
     ELSE \E r \in toClose :
            /\ CloseSocket(r)
            /\ toClose' = toClose \ {r}
            /\ UNCHANGED closing
  /\ UNCHANGED <<handler, watcher, control, table, peer, reply>>

HandlerStep(r) == addUDPRelay(r) \/ Reply(r) \/ LoopEnds(r) \/ LeaveHandler(r)

UDPNext ==
  \/ closeUDPRelays \/ CloseRelays
  \/ \E r \in Relays : udpAssociate(r) \/ HandlerStep(r) \/ udpRelayLoop(r) \/ Watch(r) \/ Leave(r)

(* Every goroutine that can go on does. *)
UDPFairness ==
  /\ WF_udpVars(CloseRelays)
  /\ \A r \in Relays : WF_udpVars(HandlerStep(r)) /\ WF_udpVars(Watch(r))

UDPSpec == UDPInit /\ [][UDPNext]_udpVars /\ UDPFairness

-----------------------------------------------------------------------------
(* After Close no association holds a socket, unless its request is still  *)
(* at the step that will be refused; an association the client was told of *)
(* is in the table as long as it relays; replies go only to the client.    *)
AssociationsOwned ==
  /\ closing = "closed" => \A r \in Relays : socket[r] = "open" => handler[r] = "listening"
  /\ \A r \in Relays : handler[r] = "loop" /\ closing = "no" => r \in udpRelays
  /\ \A r \in Relays : handler[r] = "returned" => socket[r] # "open"
  /\ \A r \in Relays : peer[r] # Stranger

(* Close, like the end of a control connection, ends both goroutines of an *)
(* association and its socket.                                             *)
EndedWithControl ==
  \A r \in Relays :
    handler[r] # "none" /\ (closing # "no" \/ control[r] # "open")
      => handler[r] = "returned" /\ watcher[r] \in {"none", "ended"} /\ socket[r] # "open"
AssociationEnds == []<>EndedWithControl
=============================================================================
