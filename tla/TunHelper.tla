----------------------------- MODULE TunHelper ------------------------------
(***************************************************************************)
(* The privileged helper of the desktop client                             *)
(* (cmd/easyss/internal/tunhelper): a process that creates the TUN device, *)
(* its routes and the system's DNS, hands the descriptor to the client     *)
(* over a socket, and undoes everything when the client closes the FIFO    *)
(* that is its stdin - or dies, since the kernel closes it then.  Helpers  *)
(* of successive sessions are kept apart by a file lock, not by the FIFO   *)
(* and the socket: their paths name the client's process, so that a late   *)
(* helper meets those of the session that is then under way.               *)
(***************************************************************************)
EXTENDS Naturals, FiniteSets

CONSTANTS MaxHelpers, MaxCrashes

Helpers == 1..MaxHelpers

VARIABLES
  parent,    \* the client: where tunUpViaHelper or tunDown is
  cur,       \* the helper of the client's session, or 0
  spawned,   \* helpers asked for so far
  crashes,
  helper,    \* of a helper: where it is
  pid,       \* of a helper: the client process that asked for it
  stdin,     \* of a helper: the session whose FIFO it opened, or 0
  fifo,      \* of the session a helper was asked for in: its FIFO
  listener,  \* of that session: the client's socket accepts
  msg,       \* of that session: what was first sent over the socket
  fdSent,    \* of a helper
  originDNS, \* of a helper: what it saved
  lockBy,    \* the helper that holds tunControlLockPath, or 0
  attached,  \* who holds the device's descriptor: helpers, and 0 for the client
  routes,    \* helpers whose routes are in place
  dns,       \* the system's resolver: "user", or "tun"
  left       \* a cleanup gave up with routes in place; it is logged or told

helperVars == <<parent, cur, spawned, crashes, helper, pid, stdin, fifo, listener, msg, fdSent, originDNS, lockBy,
                attached, routes, dns, left>>
machine == <<attached, routes, dns, left>>
links == <<pid, stdin, fifo, listener, msg>>
own == <<fdSent, originDNS, lockBy>>
client == <<parent, cur, spawned, crashes>>

HelperTypeOK ==
  /\ parent \in {"idle", "spawning", "receiving", "up", "waiting"} /\ cur \in 0..MaxHelpers
  /\ spawned \in 0..MaxHelpers /\ crashes \in 0..MaxCrashes
  /\ helper \in [Helpers -> {"none", "asking", "opening", "fetch", "lock", "device", "script", "dns", "send", "alive",
                             "clean", "restore", "unlock", "notify", "exit"}]
  /\ fifo \in [Helpers -> {"none", "made", "open", "closed", "abandoned"}]
  /\ pid \in [Helpers -> 0..MaxCrashes] /\ stdin \in [Helpers -> 0..MaxHelpers] /\ listener \in [Helpers -> BOOLEAN]
  /\ msg \in [Helpers -> {"none", "fd", "failed"}] /\ fdSent \in [Helpers -> BOOLEAN]
  /\ originDNS \in [Helpers -> {"unset", "user", "tun"}] /\ lockBy \in 0..MaxHelpers
  /\ attached \subseteq 0..MaxHelpers /\ routes \subseteq Helpers /\ dns \in {"user", "tun"} /\ left \in BOOLEAN

HelperInit ==
  /\ parent = "idle" /\ cur = 0 /\ spawned = 0 /\ crashes = 0
  /\ pid = [h \in Helpers |-> 0] /\ stdin = pid
  /\ helper = [h \in Helpers |-> "none"] /\ fifo = helper /\ msg = helper
  /\ listener = [h \in Helpers |-> FALSE] /\ fdSent = listener /\ originDNS = [h \in Helpers |-> "unset"]
  /\ lockBy = 0 /\ attached = {} /\ routes = {} /\ dns = "user" /\ left = FALSE

At(h, from, to) == helper[h] = from /\ helper' = [helper EXCEPT ![h] = to]

-----------------------------------------------------------------------------
(* The client.  spawnTunHelper: the FIFO, the socket, the elevator.        *)
spawnTunHelper ==
  /\ parent = "idle" /\ spawned < MaxHelpers
  /\ LET h == spawned + 1 IN
     /\ spawned' = h /\ cur' = h /\ parent' = "spawning"
     /\ fifo' = [fifo EXCEPT ![h] = "made"] /\ listener' = [listener EXCEPT ![h] = TRUE]
     /\ helper' = [helper EXCEPT ![h] = "asking"] /\ pid' = [pid EXCEPT ![h] = crashes]
  /\ UNCHANGED <<crashes, stdin, msg, own, machine>>

(* The user authorises it: a shell in the background opens the FIFO.       *)
Elevated(h) == At(h, "asking", "opening") /\ UNCHANGED <<client, links, own, machine>>

(* The session that uses the paths a helper was given, and whether there   *)
(* is a FIFO: one that a killed client left has no writer any more.        *)
Session(h) == IF pid[h] = crashes THEN cur ELSE 0
PathThere(h) == \E g \in Helpers : pid[g] = pid[h] /\ fifo[g] \in {"made", "open", "abandoned"}

(* Both ends open the FIFO together; without it the shell's redirection    *)
(* fails and no helper runs.                                               *)
OpenFifo(h) ==
  /\ \/ /\ Session(h) # 0 /\ fifo[Session(h)] \in {"made", "open"} /\ At(h, "opening", "fetch")
        /\ fifo' = [fifo EXCEPT ![Session(h)] = "open"] /\ stdin' = [stdin EXCEPT ![h] = Session(h)]
     \/ ~PathThere(h) /\ At(h, "opening", "exit") /\ UNCHANGED <<fifo, stdin>>
  /\ UNCHANGED <<client, pid, listener, msg, own, machine>>

FifoOpened ==
  /\ parent = "spawning" /\ fifo[cur] = "open" /\ parent' = "receiving"
  /\ UNCHANGED <<cur, spawned, crashes, helper, links, own, machine>>

(* The session ends before it began: refused, timed out, or reported by    *)
(* the helper.  The elevator is killed, the listener and the FIFO closed.  *)
GiveUp ==
  /\ \/ parent = "spawning"
     \/ parent = "receiving" /\ msg[cur] \in {"none", "failed"}
  /\ parent' = "idle" /\ cur' = 0
  /\ fifo' = [fifo EXCEPT ![cur] = "closed"] /\ listener' = [listener EXCEPT ![cur] = FALSE]
  /\ helper' = [helper EXCEPT ![cur] = IF helper[cur] = "asking" THEN "exit" ELSE helper[cur]]
  /\ UNCHANGED <<spawned, crashes, pid, stdin, msg, own, machine>>

ReceiveFd ==
  /\ parent = "receiving" /\ msg[cur] = "fd" /\ parent' = "up"
  /\ listener' = [listener EXCEPT ![cur] = FALSE] /\ attached' = attached \cup {0}
  /\ UNCHANGED <<cur, spawned, crashes, helper, pid, stdin, fifo, msg, own, routes, dns, left>>

(* tunDown: the engine closes the descriptor, then the FIFO is closed.     *)
tunDown ==
  /\ parent = "up" /\ parent' = "waiting" /\ attached' = attached \ {0}
  /\ fifo' = [fifo EXCEPT ![cur] = "closed"]
  /\ UNCHANGED <<cur, spawned, crashes, helper, pid, stdin, listener, msg, own, routes, dns, left>>

(* teardown: the lock is free, or the wait ran out; then the routes are    *)
(* looked at and rolled back.                                              *)
teardown ==
  /\ parent = "waiting" /\ parent' = "idle" /\ cur' = 0
  /\ \E rolled \in BOOLEAN : IF routes = {} \/ rolled THEN routes' = {} /\ UNCHANGED left
                             ELSE left' = TRUE /\ UNCHANGED routes
  /\ UNCHANGED <<spawned, crashes, helper, links, own, attached, dns>>

(* The client is killed; the kernel closes what it held.  Its FIFO stays   *)
(* behind with no writer.  Another client may start.                       *)
Crash ==
  /\ cur # 0 /\ crashes < MaxCrashes /\ crashes' = crashes + 1
  /\ parent' = "idle" /\ cur' = 0 /\ attached' = attached \ {0}
  /\ fifo' = [fifo EXCEPT ![cur] = IF fifo[cur] = "open" THEN "abandoned" ELSE fifo[cur]]
  /\ listener' = [listener EXCEPT ![cur] = FALSE]
  /\ UNCHANGED <<spawned, helper, pid, stdin, msg, own, routes, dns, left>>

-----------------------------------------------------------------------------
(* The helper.  setup: the configuration, the lock, the DNS to restore,    *)
(* the device; a failure closes the lock file.  The HTTP entrance gives    *)
(* the configuration of whichever session is under way.                    *)
fetchTunConfig(h) ==
  /\ \/ cur # 0 /\ At(h, "fetch", "lock")
     \/ At(h, "fetch", "notify")
  /\ UNCHANGED <<client, links, own, machine>>

(* Mutant: a wait for the lock that ran out is only logged.                *)
FlockWaitIgnored(h) ==
  /\ At(h, "lock", "device") /\ lockBy' = IF lockBy = 0 THEN h ELSE lockBy
  /\ UNCHANGED <<client, links, fdSent, originDNS, machine>>

FlockWait(h) ==
  /\ \/ lockBy = 0 /\ At(h, "lock", "device") /\ lockBy' = h
     \/ lockBy # 0 /\ At(h, "lock", "notify") /\ UNCHANGED lockBy
  /\ UNCHANGED <<client, links, fdSent, originDNS, machine>>

openTunDevice(h) ==
  /\ originDNS' = [originDNS EXCEPT ![h] = dns]
  /\ \/ At(h, "device", "script") /\ attached' = attached \cup {h} /\ UNCHANGED lockBy
     \/ At(h, "device", "notify") /\ lockBy' = 0 /\ UNCHANGED attached
  /\ UNCHANGED <<client, links, fdSent, routes, dns, left>>

(* configure: routes of an earlier device are removed, then the create     *)
(* script runs; a failure may leave some of them and closes the device.    *)
RunCreateScript(h) ==
  /\ \/ At(h, "script", "dns") /\ routes' = {h} /\ UNCHANGED attached
     \/ At(h, "script", "clean") /\ routes' \in {{}, {h}} /\ attached' = attached \ {h}
  /\ UNCHANGED <<client, links, own, dns, left>>

SetDNS(h) ==
  /\ At(h, "dns", "send") /\ dns' \in {dns, "tun"}
  /\ UNCHANGED <<client, links, own, attached, routes, left>>

(* The client accepts one connection: the first message is the session's.  *)
Listening(h) == Session(h) # 0 /\ listener[Session(h)]
Deliver(h, m) ==
  msg' = IF Listening(h) /\ msg[Session(h)] = "none" THEN [msg EXCEPT ![Session(h)] = m] ELSE msg

(* The client's listener may be gone by now.                               *)
sendFD(h) ==
  /\ IF Listening(h)
     THEN At(h, "send", "alive") /\ fdSent' = [fdSent EXCEPT ![h] = TRUE]
     ELSE At(h, "send", "clean") /\ UNCHANGED fdSent
  /\ Deliver(h, "fd")
  /\ attached' = attached \ {h}
  /\ UNCHANGED <<client, pid, stdin, fifo, listener, originDNS, lockBy, routes, dns, left>>

(* keepAlive: what the system dropped is put back, until the end of file.  *)
KeepRoutes(h) ==
  /\ helper[h] = "alive" /\ routes' = {h} /\ dns' \in {dns, "tun"}
  /\ UNCHANGED <<client, helper, links, own, attached, left>>

EndOfFile(h) == stdin[h] # 0 /\ fifo[stdin[h]] \in {"closed", "abandoned"}

StdinDone(h) ==
  /\ EndOfFile(h) /\ At(h, "alive", "clean")
  /\ UNCHANGED <<client, links, own, machine>>

(* The system drops the routes: sleep, wake, a change of network.          *)
RoutesDropped ==
  /\ routes # {} /\ routes' = {} /\ UNCHANGED <<client, helper, links, own, attached, dns, left>>

(* cleanup: the routes, in three attempts; the DNS; then the lock.         *)
cleanupTunRoutes(h) ==
  /\ At(h, "clean", "restore")
  /\ \/ routes' = {} /\ UNCHANGED left
     \/ routes # {} /\ left' = TRUE /\ UNCHANGED routes
  /\ UNCHANGED <<client, links, own, attached, dns>>

RestoreDNS(h) ==
  /\ At(h, "restore", "unlock") /\ dns' = originDNS[h]
  /\ UNCHANGED <<client, links, own, attached, routes, left>>

(* Mutant: a helper that failed keeps the lock file open.                  *)
closeLockNot(h) ==
  /\ At(h, "unlock", IF fdSent[h] THEN "exit" ELSE "notify")
  /\ lockBy' = IF lockBy = h /\ fdSent[h] THEN 0 ELSE lockBy
  /\ UNCHANGED <<client, links, fdSent, originDNS, machine>>

closeLock(h) ==
  /\ At(h, "unlock", IF fdSent[h] THEN "exit" ELSE "notify")
  /\ lockBy' = IF lockBy = h THEN 0 ELSE lockBy
  /\ UNCHANGED <<client, links, fdSent, originDNS, machine>>

notifyStartFailure(h) ==
  /\ At(h, "notify", "exit")
  /\ Deliver(h, "failed")
  /\ UNCHANGED <<client, pid, stdin, fifo, listener, own, machine>>

-----------------------------------------------------------------------------
HelperStep(h) ==
  \/ OpenFifo(h) \/ fetchTunConfig(h) \/ FlockWait(h) \/ openTunDevice(h) \/ RunCreateScript(h) \/ SetDNS(h)
  \/ sendFD(h) \/ StdinDone(h) \/ cleanupTunRoutes(h) \/ RestoreDNS(h) \/ closeLock(h) \/ notifyStartFailure(h)
ClientStep ==
  FifoOpened \/ GiveUp \/ ReceiveFd \/ teardown

HelperNext ==
  \/ spawnTunHelper \/ ClientStep \/ tunDown \/ Crash \/ RoutesDropped
  \/ \E h \in Helpers : Elevated(h) \/ HelperStep(h) \/ KeepRoutes(h)

HelperFairness == \A h \in Helpers : WF_helperVars(HelperStep(h))
HelperSpec == HelperInit /\ [][HelperNext]_helperVars /\ HelperFairness
-----------------------------------------------------------------------------
Working == {"script", "dns", "send", "alive", "clean", "restore"}

(* What a helper saves, and will restore, is the user's resolver, never    *)
(* the one an earlier helper put there: it reads it only with the lock     *)
(* held, and a helper restores it before it gives the lock back            *)
(* (lifecycle.go setup, cleanup).                                          *)
SavedDNSIsUsers == \A h \in Helpers : originDNS[h] # "tun"

(* Only one helper at a time has changed the machine, so that the cleanup  *)
(* of an old session never removes what a new one installed.               *)
OneInCharge == \A g, h \in Helpers : helper[g] \in Working /\ helper[h] \in Working => g = h

(* When no helper is at work the user's resolver is back, no routes are    *)
(* left unless a cleanup said so, and no helper holds the device: also     *)
(* when the client was killed at any point.                                *)
AllBack ==
  (\A h \in Helpers : helper[h] \notin Working \cup {"unlock"})
    => dns = "user" /\ (routes # {} => left) /\ attached \subseteq {0}

HelperSound == SavedDNSIsUsers /\ OneInCharge /\ AllBack

(* A helper whose stdin ends, or that finds no FIFO to open.               *)
Orphaned(h) ==
  \/ EndOfFile(h)
  \/ stdin[h] = 0 /\ helper[h] \notin {"none", "asking"} /\ ~PathThere(h)

(* Once the client's end of the FIFO is gone, the helper undoes its        *)
(* changes and goes (keepAlive); a helper that holds the lock always       *)
(* gives it back by then, so the next one can run.                         *)
NoneOrphaned == \A h \in Helpers : Orphaned(h) => helper[h] = "exit" /\ lockBy # h
HelperGoes == []<>NoneOrphaned
=============================================================================
