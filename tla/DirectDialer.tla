---------------------------- MODULE DirectDialer ----------------------------
(***************************************************************************)
(* How the client dials past its own TUN device (client/client.go).  While *)
(* TUN mode is on, sockets are bound to the physical interface, because an *)
(* unbound one would be routed back into the tunnel.  The binding goes     *)
(* stale when the machine sleeps or changes networks: a dial that fails    *)
(* for that reason detects the interface anew, rebuilds the dialer and     *)
(* tries once more, and a loop does the same every 30 seconds.  The server *)
(* is dialed by its resolved addresses first and by its name in the end.   *)
(***************************************************************************)
EXTENDS Integers, FiniteSets

CONSTANTS Phys,                \* physical interfaces
          Dials,               \* dials of the server
          MaxChanges,          \* bound: how often the network changes
          MaxIPs,              \* bound: resolved addresses of the server
          Budget,              \* the time a caller's context gives a dial
          serverIPDialTimeout  \* the time of one address, and the reserve

TUN == "tun"
None == "none"

Refreshers == Dials \cup {"loop"}

VARIABLES route,    \* the interface of the default route, TUN or None
          changes,  \* how often it has changed
          tunMode,  \* c.tunMode: the routes may point at the TUN device
          dialer,   \* the interface c.dialer binds to, None if it binds none
          bound,    \* c.bound: the interface it is recorded to be bound to
          refresh,  \* each refreshDirectDialer in progress
          ips,      \* c.serverIPs: how many addresses were resolved
          dial,     \* where each dial stands
          left,     \* the time its context has left
          tryLeft,  \* the time this stage of it, the addresses or the name, has left
          used      \* a socket of it was bound to the TUN device (history)

binding == <<dialer, bound, refresh>>
network == <<route, changes, tunMode, ips>>
dialing == <<dial, left, tryLeft, used>>
dialerVars == <<binding, network, dialing>>

DialerTypeOK ==
  /\ route \in Phys \cup {TUN, None} /\ changes \in 0 .. MaxChanges
  /\ tunMode \in BOOLEAN
  /\ dialer \in Phys \cup {TUN, None} /\ bound \in Phys \cup {TUN, None}
  /\ \A r \in Refreshers : /\ refresh[r].at \in {"idle", "detected", "store", "record", "done"}
                           /\ refresh[r].saw \in Phys \cup {TUN, None}
                           /\ refresh[r].ret \in BOOLEAN
  /\ ips \in 0 .. MaxIPs
  /\ \A d \in Dials : /\ dial[d].at \in {"idle", "pinned", "stale", "again", "domain", "ok", "failed"}
                      /\ dial[d].left \in 0 .. MaxIPs
                      /\ dial[d].domain \in BOOLEAN
  /\ left \in [Dials -> 0 .. Budget] /\ tryLeft \in [Dials -> 0 .. Budget]
  /\ used \in [Dials -> BOOLEAN]

Idle == [at |-> "idle", saw |-> None, ret |-> FALSE]
NoDial == [at |-> "idle", left |-> 0, domain |-> FALSE]

(* initDirectDialer: the default route's interface unless it is the TUN    *)
(* device (a crashed session may have left its routes); then any other     *)
(* interface; then an unbound dialer.                                      *)
DialerInit ==
  /\ route \in Phys \cup {TUN, None}
  /\ changes = 0
  /\ tunMode \in BOOLEAN
  /\ IF route \in Phys THEN dialer = route ELSE dialer \in Phys \cup {None}
  /\ bound = dialer
  /\ refresh = [r \in Refreshers |-> Idle]
  /\ ips \in 0 .. MaxIPs
  /\ dial = [d \in Dials |-> NoDial]
  /\ left = [d \in Dials |-> 0] /\ tryLeft = [d \in Dials |-> 0]
  /\ used = [d \in Dials |-> FALSE]

-----------------------------------------------------------------------------
(* The machine sleeps, wakes up or joins another network. *)
NetworkChange ==
  /\ changes < MaxChanges
  /\ route' \in (Phys \cup {TUN, None}) \ {route}
  /\ changes' = changes + 1
  /\ UNCHANGED <<tunMode, ips, binding, dialing>>

SetTunMode ==
  /\ tunMode' = ~tunMode
  /\ UNCHANGED <<route, changes, ips, binding, dialing>>

(* publishServerIPs of the runner; an empty list drops the addresses. *)
SetServerIPs ==
  /\ ips' \in 0 .. MaxIPs
  /\ UNCHANGED <<route, changes, tunMode, binding, dialing>>

-----------------------------------------------------------------------------
(* Mutant: the TUN device is taken for a physical interface. *)
CompareAny(r) ==
  /\ refresh[r].at = "detected"
  /\ refresh' = [refresh EXCEPT ![r] =
       IF @.saw \in {None, bound} THEN [@ EXCEPT !.at = "done"]
       ELSE [@ EXCEPT !.at = "store"]]
  /\ UNCHANGED <<dialer, bound, network, dialing>>

(* refreshDirectDialer: the interface is detected, *)
Detect(r) ==
  /\ refresh' = [refresh EXCEPT ![r] = [at |-> "detected", saw |-> route, ret |-> FALSE]]
  /\ UNCHANGED <<dialer, bound, network, dialing>>

(* and nothing is done when there is none, when it is the TUN device, or   *)
(* when the recorded one is the same.                                      *)
Compare(r) ==
  /\ refresh[r].at = "detected"
  /\ refresh' = [refresh EXCEPT ![r] =
       IF @.saw \in {None, TUN, bound} THEN [@ EXCEPT !.at = "done"]
       ELSE [@ EXCEPT !.at = "store"]]
  /\ UNCHANGED <<dialer, bound, network, dialing>>

(* Otherwise the dialer is replaced and its interface recorded: two stores *)
(* that nothing makes one.                                                 *)
StoreDialer(r) ==
  /\ refresh[r].at = "store"
  /\ dialer' = refresh[r].saw
  /\ refresh' = [refresh EXCEPT ![r].at = "record"]
  /\ UNCHANGED <<bound, network, dialing>>

StoreBound(r) ==
  /\ refresh[r].at = "record"
  /\ bound' = refresh[r].saw
  /\ refresh' = [refresh EXCEPT ![r].at = "done", ![r].ret = TRUE]
  /\ UNCHANGED <<dialer, network, dialing>>

(* dialerRefreshLoop looks every 30 seconds while TUN mode is on. *)
dialerRefreshLoop ==
  \/ tunMode /\ refresh["loop"].at = "idle" /\ Detect("loop")
  \/ /\ refresh["loop"].at = "done"
     /\ refresh' = [refresh EXCEPT !["loop"] = Idle]
     /\ UNCHANGED <<dialer, bound, network, dialing>>

-----------------------------------------------------------------------------
Min2(a, b) == IF a < b THEN a ELSE b

(* Mutant: the addresses may use up all the time there is. *)
withDomainFallbackReserveNot(time) == time

(* The addresses' share of the time; all of it when it is no longer than   *)
(* the reserve itself.                                                     *)
withDomainFallbackReserve(time) ==
  IF time > serverIPDialTimeout THEN time - serverIPDialTimeout ELSE time

(* What an attempt at the next address may take: its own limit within the  *)
(* share of the addresses.                                                 *)
PinnedTime(share) == Min2(serverIPDialTimeout, share)

(* dialWithConfig: the resolved addresses if there are any, else the name. *)
dialWithConfig(d) ==
  /\ dial[d].at = "idle"
  /\ left' = [left EXCEPT ![d] = Budget]
  /\ LET share == withDomainFallbackReserve(Budget) IN
     IF ips > 0
       THEN /\ dial' = [dial EXCEPT ![d] = [at |-> "pinned", left |-> ips, domain |-> FALSE]]
            /\ tryLeft' = [tryLeft EXCEPT ![d] = share]
       ELSE /\ dial' = [dial EXCEPT ![d] = [at |-> "domain", left |-> 0, domain |-> TRUE]]
            /\ tryLeft' = [tryLeft EXCEPT ![d] = Budget]
  /\ used' = [used EXCEPT ![d] = FALSE]
  /\ UNCHANGED <<binding, network>>

(* One socket: it fails at once on an interface the machine no longer has  *)
(* as its route (a stale binding), connects, or fails after some time.     *)
Stale == tunMode /\ dialer # None /\ dialer # route

Bind(d) == used[d] \/ (tunMode /\ dialer = TUN)

(* dialAddr's first socket, for an address or for the name. *)
dialAddr(d) ==
  /\ \/ dial[d].at = "domain"
     \/ dial[d].at = "pinned" /\ dial[d].left > 0 /\ tryLeft[d] > 0
  /\ used' = [used EXCEPT ![d] = Bind(d)]
  /\ \/ /\ Stale
        /\ refresh[d].at = "idle"
        /\ dial' = [dial EXCEPT ![d].at = "stale"]
        /\ refresh' = [refresh EXCEPT ![d] = [at |-> "detected", saw |-> route, ret |-> FALSE]]
        /\ UNCHANGED <<left, tryLeft>>
     \/ /\ ~Stale /\ left[d] > 0
        /\ dial' = [dial EXCEPT ![d].at = "ok"]
        /\ UNCHANGED <<left, tryLeft, refresh>>
     \/ /\ \E t \in 0 .. (IF dial[d].domain THEN left[d] ELSE PinnedTime(tryLeft[d])) :
             /\ left' = [left EXCEPT ![d] = @ - t]
             /\ tryLeft' = [tryLeft EXCEPT ![d] = @ - t]
        /\ dial' = [dial EXCEPT ![d] =
             IF @.domain THEN [@ EXCEPT !.at = "failed"]
             ELSE [@ EXCEPT !.left = @ - 1]]
        /\ UNCHANGED refresh
  /\ UNCHANGED <<dialer, bound, network>>

(* No address or no time for one is left: the name is dialed with what the *)
(* caller's context has left.                                              *)
AfterPinned(d) ==
  /\ dial[d].at = "pinned"
  /\ dial[d].left = 0 \/ tryLeft[d] = 0
  /\ dial' = [dial EXCEPT ![d] = [at |-> "domain", left |-> 0, domain |-> TRUE]]
  /\ tryLeft' = [tryLeft EXCEPT ![d] = left[d]]
  /\ UNCHANGED <<left, used, binding, network>>

(* The refresh a stale dial waits for is over: one more socket when it     *)
(* rebuilt the dialer, else the error stands.                              *)
Refreshed(d) ==
  /\ dial[d].at = "stale"
  /\ refresh[d].at = "done"
  /\ refresh' = [refresh EXCEPT ![d] = Idle]
  /\ dial' = [dial EXCEPT ![d] =
       IF refresh[d].ret THEN [@ EXCEPT !.at = "again"]
       ELSE IF @.domain THEN [@ EXCEPT !.at = "failed"]
       ELSE [@ EXCEPT !.at = "pinned", !.left = @ - 1]]
  /\ UNCHANGED <<left, tryLeft, used, dialer, bound, network>>

DialAgain(d) ==
  /\ dial[d].at = "again"
  /\ used' = [used EXCEPT ![d] = Bind(d)]
  /\ \/ ~Stale /\ dial' = [dial EXCEPT ![d].at = "ok"]
     \/ dial' = [dial EXCEPT ![d] =
          IF @.domain THEN [@ EXCEPT !.at = "failed"]
          ELSE [@ EXCEPT !.at = "pinned", !.left = @ - 1]]
  /\ UNCHANGED <<left, tryLeft, binding, network>>

(* The caller has its answer and dials again some other time. *)
DialOver(d) ==
  /\ dial[d].at \in {"ok", "failed"}
  /\ dial' = [dial EXCEPT ![d] = NoDial]
  /\ left' = [left EXCEPT ![d] = 0]
  /\ tryLeft' = [tryLeft EXCEPT ![d] = 0]
  /\ used' = [used EXCEPT ![d] = FALSE]
  /\ UNCHANGED <<binding, network>>

refreshDirectDialer(r) == Compare(r) \/ StoreDialer(r) \/ StoreBound(r)

DialStep(d) ==
  \/ dialWithConfig(d) \/ dialAddr(d) \/ AfterPinned(d) \/ Refreshed(d)
  \/ DialAgain(d) \/ DialOver(d)

DialerNext ==
  \/ NetworkChange \/ SetTunMode \/ SetServerIPs
  \/ \E r \in Refreshers : refreshDirectDialer(r)
  \/ dialerRefreshLoop
  \/ \E d \in Dials : DialStep(d)

DialerSpec == DialerInit /\ [][DialerNext]_dialerVars

-----------------------------------------------------------------------------
(* No socket is ever bound to the TUN device itself, whatever the default  *)
(* route says: it would be routed back into the tunnel.                    *)
NeverThroughTUN == TUN \notin {dialer, bound} /\ \A d \in Dials : ~used[d]

(* After the resolved addresses have failed, the name still has its        *)
(* reserve, however the addresses used their time.                         *)
NameHasItsTurn ==
  \A d \in Dials :
    dial[d].at = "domain" /\ Budget > serverIPDialTimeout
      => left[d] >= serverIPDialTimeout

(* What the dials rely on. *)
DialerSound == NeverThroughTUN /\ NameHasItsTurn
=============================================================================
