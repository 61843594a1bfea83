------------------------------ MODULE SysProxy ------------------------------
(***************************************************************************)
(* The system proxy: the two desktop settings and the session environment  *)
(* that cmd/easyss/internal/sysproxy points at the local HTTP entry, and   *)
(* the calls of the application that set and revert them: at the start, on *)
(* a click of the tray, around a change of server and at the exit.  Every  *)
(* external command may fail, and a click runs in a goroutine of its own.  *)
(***************************************************************************)
EXTENDS Naturals, FiniteSets

CONSTANTS Clicks,    \* the clicks on the menu item, each in its goroutine
          MaxSwitches

VARIABLES
  tray,      \* a tray application, or a headless one
  desktop,   \* the HTTP and HTTPS settings: the user's, ours, or cleared
  env,       \* the session environment of systemd and of D-Bus
  store,     \* State.store: where the proxy was published
  previous,  \* State.previous: what the snapshot holds
  written,   \* the environments ever written (history)
  applied,   \* App.sysProxyApplied
  checked,   \* the menu item
  phase,     \* where the main sequence of calls stands
  wasOn, switches, late, op

sysVars == <<tray, desktop, env, store, previous, written, applied, checked, phase, wasOn, switches, late, op>>
machine == <<desktop, env>>
state == <<store, previous, written>>
app == <<tray, checked, phase, wasOn, switches, late>>

Protos == {"http", "https"}
Stores == {"systemd", "dbus"}
Ops == Clicks \cup {"main"}
Idle == [do |-> "none", at |-> "idle", failed |-> {}, env |-> FALSE, undone |-> TRUE]
At(o, l) == op[o].at = l

SysTypeOK ==
  /\ tray \in BOOLEAN /\ desktop \in [Protos -> {"user", "easyss", "off"}]
  /\ env \in [Stores -> {"user", "easyss", "blank"}] /\ store \in Stores \cup {"none"}
  /\ previous \in {"nothing", "user", "unknown", "easyss", "blank"} /\ written \subseteq Stores
  /\ applied \in BOOLEAN /\ checked \in BOOLEAN /\ wasOn \in BOOLEAN /\ late \in BOOLEAN
  /\ switches \in 0..MaxSwitches
  /\ phase \in {"init", "run", "stop", "teardown", "restore", "leave", "closing", "exit teardown", "last", "exited"}
  /\ \A o \in Ops : op[o].do \in {"none", "on", "off", "teardown"} /\ op[o].failed \subseteq Protos

SysInit ==
  /\ tray \in BOOLEAN /\ desktop = [p \in Protos |-> "user"] /\ env = [s \in Stores |-> "user"]
  /\ store = "none" /\ previous = "nothing" /\ written = {}
  /\ applied = FALSE /\ checked \in BOOLEAN /\ phase = "init" /\ wasOn = FALSE /\ switches = 0
  /\ late = FALSE /\ op = [o \in Ops |-> Idle]

-----------------------------------------------------------------------------
(* State.Enable and State.Disable, one external command after the other.   *)
Call(o, do) == op' = [op EXCEPT ![o] = [Idle EXCEPT !.do = do, !.at = "http"]]

(* onHTTP, then onHTTPS, or offHTTP, then offHTTPS.                        *)
Setting(o, p, next) ==
  /\ At(o, p)
  /\ \/ /\ desktop' = [desktop EXCEPT ![p] = IF op[o].do = "on" THEN "easyss" ELSE "off"]
        /\ op' = [op EXCEPT ![o].at = next]
     \/ /\ op' = [op EXCEPT ![o].at = next, ![o].failed = @ \cup {p}] /\ UNCHANGED desktop
  /\ UNCHANGED <<env, state, applied, app>>

(* The result: an error only if neither mechanism took effect.             *)
Fails(o) == op[o].failed # {} /\ ~op[o].env
After(o, took) ==
  op' = [op EXCEPT ![o].env = took,
                   ![o].at = IF op[o].do = "on" /\ op[o].failed # {} /\ ~took THEN "undo http" ELSE "told"]

(* Mutant: the environment is read again whenever the proxy is published.  *)
snapshotAlways == IF store = "none" THEN {env["systemd"], "unknown"} ELSE {env["systemd"]}

(* The values before the first publication, unless they cannot be read.    *)
snapshot == IF store = "none" THEN {env["systemd"], "unknown"} ELSE {previous}

(* State.set: systemd first, D-Bus only if systemd is not to be had.       *)
set(o) ==
  /\ At(o, "env") /\ op[o].do = "on" /\ previous' \in snapshot
  /\ \/ \E s \in Stores : /\ env' = [env EXCEPT ![s] = "easyss"] /\ store' = s /\ written' = written \cup {s}
                          /\ After(o, TRUE)
     \/ UNCHANGED <<env, store, written>> /\ After(o, FALSE)
  /\ UNCHANGED <<desktop, applied, app>>

(* A value that was not read is cleared; so is one that was not set, which *)
(* the user's stands for too.                                              *)
restore == IF previous = "unknown" THEN "blank" ELSE previous

(* Mutant: what was published is forgotten although the commands failed.   *)
unsetForgets(o) ==
  /\ At(o, "env") /\ op[o].do # "on" /\ store # "none"
  /\ store' = "none" /\ previous' = "nothing" /\ After(o, TRUE)
  /\ env' \in {env, [env EXCEPT ![store] = restore]}
  /\ UNCHANGED <<written, desktop, applied, app>>

(* State.unset: the store in use is restored, and forgotten once it is.    *)
unset(o) ==
  /\ At(o, "env") /\ op[o].do # "on"
  /\ \/ /\ store # "none" /\ env' = [env EXCEPT ![store] = restore]
        /\ store' = "none" /\ previous' = "nothing" /\ After(o, TRUE)
     \/ UNCHANGED <<env, store, previous>> /\ After(o, FALSE)
  /\ UNCHANGED <<written, desktop, applied, app>>

(* Mutant: both settings are cleared, also the one that was never written. *)
revertAppliedBoth(o) == Protos

(* revertApplied: only what was written is cleared, and that may fail.     *)
revertApplied(o) == Protos \ op[o].failed

Undo(o, p, at, next) ==
  /\ At(o, at)
  /\ \/ /\ p \in revertApplied(o) /\ desktop' = [desktop EXCEPT ![p] = "off"]
        /\ op' = [op EXCEPT ![o].at = next]
     \/ /\ op' = [op EXCEPT ![o].at = next, ![o].undone = @ /\ p \notin revertApplied(o)]
        /\ UNCHANGED desktop
  /\ UNCHANGED <<env, state, applied, app>>

(* Mutant: only a call that succeeded counts as a change.                  *)
setSysProxyOnOnly(o) == applied \/ ~Fails(o)

(* setSysProxyOn: a residue also counts as a change.                       *)
setSysProxyOn(o) == applied \/ ~Fails(o) \/ ~op[o].undone

(* setSysProxyOn, setSysProxyOff, and ToggleCheck taking a click back.     *)
Told(o) ==
  /\ At(o, "told")
  /\ op' = [op EXCEPT ![o] = IF o = "main" /\ phase # "closing" THEN Idle
                             ELSE [Idle EXCEPT !.do = op[o].do, !.failed = IF o \in Clicks THEN {} ELSE op[o].failed]]
  /\ applied' = CASE op[o].do = "on" -> setSysProxyOn(o)
                  [] op[o].do = "off" -> applied /\ Fails(o)
                  [] op[o].do = "teardown" -> applied
  /\ checked' = IF o \in Clicks /\ Fails(o) THEN ~(op[o].do = "on") ELSE checked
  /\ UNCHANGED <<machine, state, tray, phase, wasOn, switches, late>>

-----------------------------------------------------------------------------
(* toggleSysProxy: ToggleCheck in a goroutine.                             *)
toggleSysProxy(c) ==
  /\ tray /\ phase # "exited" /\ phase # "init" /\ op[c].do = "none"
  /\ checked' = ~checked /\ Call(c, IF checked THEN "off" ELSE "on")
  /\ late' = (late \/ phase = "closing")
  /\ UNCHANGED <<machine, state, applied, tray, phase, wasOn, switches>>

Ready == At("main", "idle")
To(l) == phase' = l /\ UNCHANGED <<machine, state, applied, tray, checked, switches>>

(* startLocalService of the tray, setupSysProxy without one.               *)
startLocalService ==
  /\ Ready /\ phase = "init" /\ To("run") /\ UNCHANGED <<wasOn, late>>
  /\ IF checked \/ tray THEN Call("main", IF checked THEN "on" ELSE "off") ELSE UNCHANGED op

(* Close: setSysProxyOff, then teardownSysProxy of Stop.                   *)
Close(from, to) == Ready /\ phase = from /\ To(to) /\ Call("main", "off")

teardownSysProxy(from, to) ==
  /\ Ready /\ phase = from /\ phase' = to /\ applied' = FALSE
  /\ IF applied THEN Call("main", "teardown") ELSE UNCHANGED op
  /\ UNCHANGED <<machine, state, tray, checked, wasOn, switches, late>>

(* restartServiceInSequence, which restores the proxy that was on.         *)
restartService ==
  /\ tray /\ phase = "run" /\ switches < MaxSwitches /\ Ready
  /\ switches' = switches + 1 /\ wasOn' = checked /\ phase' = "teardown" /\ Call("main", "off")
  /\ UNCHANGED <<machine, state, applied, tray, checked, late>>

(* The restored proxy, unless neither server could be started.             *)
restoreSysProxy ==
  /\ Ready /\ phase = "restore" /\ To("run") /\ wasOn' = FALSE /\ UNCHANGED late
  /\ \/ wasOn /\ Call("main", "on")
     \/ UNCHANGED op

(* exitApp and trayExit of the tray; Stop of the headless application.     *)
exitApp == tray /\ Close("run", "leave") /\ UNCHANGED <<wasOn, late>>
trayExit == Close("leave", "exit teardown") /\ UNCHANGED <<wasOn, late>>
Last == Close("last", "closing") /\ late' = (\E c \in Clicks : op[c].at # "idle") /\ UNCHANGED wasOn
Stop == ~tray /\ teardownSysProxy("run", "closing")
Exit == Ready /\ phase = "closing" /\ To("exited") /\ UNCHANGED <<wasOn, late, op>>

Calls == \/ startLocalService \/ restartService \/ restoreSysProxy \/ exitApp \/ trayExit \/ Last \/ Stop \/ Exit
         \/ teardownSysProxy("teardown", "restore") \/ teardownSysProxy("exit teardown", "last")

Command(o) ==
  \/ Setting(o, "http", "https") \/ Setting(o, "https", "env") \/ set(o) \/ unset(o)
  \/ Undo(o, "http", "undo http", "undo https") \/ Undo(o, "https", "undo https", "told") \/ Told(o)

SysNext == Calls \/ (\E c \in Clicks : toggleSysProxy(c)) \/ (phase # "exited" /\ \E o \in Ops : Command(o))
SysSpec == SysInit /\ [][SysNext]_sysVars

-----------------------------------------------------------------------------
Quiet == \A o \in Ops : op[o].at = "idle"
Ours == \E p \in Protos : desktop[p] = "easyss"

(* When the application has left, no click overlapped its last revert, and *)
(* the commands of that revert worked, the desktop settings no longer      *)
(* point at the local entry that is gone.                                  *)
ExitClean ==
  phase = "exited" /\ ~late /\ Quiet /\ op["main"].do \in {"off", "teardown"} /\ op["main"].failed = {} => ~Ours

(* State.store tells where the proxy is published as long as it is, so     *)
(* that a revert which failed can be tried again; once it is forgotten,    *)
(* the environment is as the user had it, or cleared.                      *)
EnvRemembered == \A s \in Stores : env[s] = "easyss" /\ written = {s} => store = s

(* A setting Enable could not write keeps the user's value when Enable     *)
(* reports that it failed and takes its own changes back.                  *)
FailedSideKept ==
  ~tray /\ At("main", "told") /\ op["main"].do = "on" /\ Fails("main")
    => \A p \in op["main"].failed : desktop[p] = "user"

(* A headless application that has changed a setting knows it, and reverts *)
(* it when it is stopped.                                                  *)
ChangeKnown == ~tray /\ phase = "run" /\ Quiet /\ (Ours \/ store # "none") => applied

SysProxySound == ExitClean /\ EnvRemembered /\ FailedSideKept /\ ChangeKnown
=============================================================================
