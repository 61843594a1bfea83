----------------------------- MODULE TunSession -----------------------------
(***************************************************************************)
(* The desktop client's session (cmd/easyss/internal/app/session.go and    *)
(* app.go): the core that serves, the TUN session laid over it, and who    *)
(* changes them - the stop/start sequence of a server switch, the tray's   *)
(* TUN clicks, and the goroutine every TUN manager starts on.  seqMu is    *)
(* held for the whole of a sequence, tunMu (lock) for every TUN change.    *)
(***************************************************************************)
EXTENDS Naturals, FiniteSets

CONSTANTS Servers, MaxCores, MaxMgrs, MaxClicks, MaxSwitches

Cores == 1..MaxCores
Mgrs == 1..MaxMgrs

VARIABLES
  elevated,   \* the process may create a device itself
  idx, pref,  \* of the published configuration: DefaultServerIndex, EnableTun2socks
  core,       \* the installed core, or 0
  cores,      \* cores made so far
  served,     \* of a core: the server it was built for
  ready,      \* of a core: the server's domain is resolved
  mode, fwd,  \* of a core's client: TunMode, TunForwarding
  offered,    \* of a core: its HTTP entry serves a TUN configuration
  seq,        \* the sequence that holds seqMu
  switches, clicks,
  lock,       \* tunMu: who holds it, the step it is at, and whether a session's device is being taken down
  mgr, mgrs,  \* tunMgr, or 0; managers made so far
  tunActive,
  fifo,       \* the manager whose helper's stdin is held (tunHelperStdin), or 0
  start,      \* of a manager: where its goroutine is
  engine,     \* of a manager: its engine runs
  route,      \* of a manager: the machine's routes point at its device
  helper,     \* of a manager: its helper process
  left        \* managers whose routes survived the teardown; the user was told

sessVars == <<elevated, idx, pref, core, cores, served, ready, mode, fwd, offered, seq, switches, clicks,
              lock, mgr, mgrs, tunActive, fifo, start, engine, route, helper, left>>
coreVars == <<core, cores, served, ready>>
published == <<mode, fwd>>
mgrVars == <<mgr, mgrs, tunActive, fifo, start, engine, route, helper, left>>
seqVars == <<seq, switches, clicks>>

Free == [by |-> "free", step |-> "none", dev |-> FALSE]
Idle == [pc |-> "idle", target |-> 0, prevIdx |-> 0, prevTun |-> FALSE, snapTun |-> FALSE, back |-> FALSE]

SessTypeOK ==
  /\ elevated \in BOOLEAN /\ idx \in Servers /\ pref \in BOOLEAN
  /\ core \in 0..MaxCores /\ cores \in 0..MaxCores /\ served \in [Cores -> Servers \cup {0}]
  /\ {ready, mode, fwd, offered} \subseteq [Cores -> BOOLEAN]
  /\ seq \in [pc : {"idle", "tunDown", "stop", "publish", "run", "sync", "startup"}, target : Servers \cup {0},
              prevIdx : Servers \cup {0}, prevTun : BOOLEAN, snapTun : BOOLEAN, back : BOOLEAN]
  /\ switches \in 0..MaxSwitches /\ clicks \in 0..MaxClicks
  /\ lock \in [by : {"free", "tray", "seq", "stop", "goroutine"},
               step : {"none", "clear", "stop", "signal", "verify", "finish", "spawn", "install"},
               dev : BOOLEAN]
  /\ mgr \in 0..MaxMgrs /\ mgrs \in 0..MaxMgrs /\ tunActive \in BOOLEAN /\ fifo \in 0..MaxMgrs
  /\ start \in [Mgrs -> {"none", "starting", "mark", "rollback", "done"}]
  /\ {engine, route} \subseteq [Mgrs -> BOOLEAN]
  /\ helper \in [Mgrs -> {"none", "up", "told", "gone"}] /\ left \subseteq Mgrs

(* New: a configuration is published, no core runs, and App.Start is about *)
(* to be called.                                                           *)
SessInit ==
  /\ elevated \in BOOLEAN /\ idx \in Servers /\ pref \in BOOLEAN
  /\ core = 0 /\ cores = 0 /\ served = [c \in Cores |-> 0] /\ ready = [c \in Cores |-> FALSE]
  /\ mode = [c \in Cores |-> FALSE] /\ fwd = mode /\ offered = mode
  /\ seq = [Idle EXCEPT !.pc = "run", !.snapTun = pref, !.back = TRUE] /\ switches = 0 /\ clicks = 0
  /\ lock = Free /\ mgr = 0 /\ mgrs = 0 /\ tunActive = FALSE /\ fifo = 0
  /\ start = [m \in Mgrs |-> "none"] /\ engine = [m \in Mgrs |-> FALSE] /\ route = engine
  /\ helper = [m \in Mgrs |-> "none"] /\ left = {}

-----------------------------------------------------------------------------
(* syncTunStateLocked: the installed core's client is told whether routes  *)
(* may point at the TUN and whether the engine forwards.                   *)
syncTunStateLocked(m, active) ==
  IF core = 0 THEN UNCHANGED published
  ELSE mode' = [mode EXCEPT ![core] = (m # 0)] /\ fwd' = [fwd EXCEPT ![core] = active]

(* adoptTunManager and startTunEngine for the manager just made.           *)
adoptTunManager(m) ==
  /\ mgr' = m /\ mgrs' = m /\ tunActive' = FALSE
  /\ syncTunStateLocked(m, FALSE)
  /\ start' = [start EXCEPT ![m] = "starting"]

-----------------------------------------------------------------------------
(* start: runCore with the snapshot taken on entry; the new client seeds   *)
(* its TUN mode from it.  A failure ends the sequence or rolls it back.    *)
runCore ==
  /\ seq.pc = "run" /\ cores < MaxCores
  /\ \E resolved \in BOOLEAN :
       /\ cores' = cores + 1 /\ core' = cores + 1
       /\ served' = [served EXCEPT ![cores + 1] = idx] /\ ready' = [ready EXCEPT ![cores + 1] = resolved]
       /\ mode' = [mode EXCEPT ![cores + 1] = seq.snapTun]
  /\ seq' = [seq EXCEPT !.pc = "sync"]
  /\ UNCHANGED <<elevated, idx, pref, fwd, offered, switches, clicks, lock, mgrVars>>

(* Mutant: the roll back forgets the server's index.                       *)
runCoreFailsKeeps ==
  /\ seq.pc = "run"
  /\ IF seq.back THEN seq' = Idle /\ UNCHANGED <<idx, pref>>
     ELSE /\ pref' = seq.prevTun /\ seq' = [seq EXCEPT !.back = TRUE, !.snapTun = seq.prevTun] /\ UNCHANGED idx
  /\ UNCHANGED <<elevated, coreVars, published, offered, switches, clicks, lock, mgrVars>>

(* restartServiceInSequence: when the start fails, the index and the TUN   *)
(* preference go back and the previous server is started; when that fails  *)
(* too, nothing runs.                                                      *)
runCoreFails ==
  /\ seq.pc = "run"
  /\ IF seq.back THEN seq' = Idle /\ UNCHANGED <<idx, pref>>
     ELSE /\ idx' = seq.prevIdx /\ pref' = seq.prevTun
          /\ seq' = [seq EXCEPT !.back = TRUE, !.snapTun = seq.prevTun]
  /\ UNCHANGED <<elevated, coreVars, published, offered, switches, clicks, lock, mgrVars>>

SyncStarted ==
  /\ seq.pc = "sync" /\ lock = Free
  /\ syncTunStateLocked(mgr, tunActive)
  /\ seq' = IF seq.snapTun THEN [seq EXCEPT !.pc = "startup"] ELSE Idle
  /\ UNCHANGED <<elevated, idx, pref, coreVars, offered, switches, clicks, lock, mgrVars>>

(* The preference was on: no device without privileges, none before the    *)
(* server's domain is resolved, and otherwise only when nobody made a      *)
(* manager and the preference still stands (startupTunWantedLocked).       *)
startTunEngineAtStartup ==
  /\ seq.pc = "startup" /\ seq' = Idle
  /\ IF elevated /\ ready[core]
     THEN /\ lock = Free /\ UNCHANGED pref
          /\ IF mgr = 0 /\ pref /\ mgrs < MaxMgrs THEN adoptTunManager(mgrs + 1)
             ELSE UNCHANGED <<mgr, mgrs, tunActive, start, published>>
     ELSE pref' = FALSE /\ UNCHANGED <<mgr, mgrs, tunActive, start, published>>
  /\ UNCHANGED <<elevated, idx, coreVars, offered, switches, clicks, lock, fifo, engine, route, helper, left>>

DomainResolved ==
  /\ core # 0 /\ ~ready[core] /\ ready' = [ready EXCEPT ![core] = TRUE]
  /\ UNCHANGED <<elevated, idx, pref, core, cores, served, published, offered, seqVars, lock, mgrVars>>

-----------------------------------------------------------------------------
(* switchServer, in seqMu: nothing when the server already serves; else    *)
(* the intent and the values to roll back to are taken, and Close begins.  *)
switchServer(i) ==
  /\ seq.pc = "idle" /\ switches < MaxSwitches /\ switches' = switches + 1
  /\ seq' = IF core # 0 /\ idx = i THEN Idle
            ELSE [Idle EXCEPT !.pc = "tunDown", !.target = i, !.prevIdx = idx, !.prevTun = pref]
  /\ UNCHANGED <<elevated, idx, pref, coreVars, published, offered, clicks, lock, mgrVars>>

(* closeService: the same stop with no server to start.                    *)
closeService ==
  /\ seq.pc = "idle" /\ switches < MaxSwitches /\ switches' = switches + 1
  /\ seq' = [Idle EXCEPT !.pc = "tunDown"]
  /\ UNCHANGED <<elevated, idx, pref, coreVars, published, offered, clicks, lock, mgrVars>>

(* Only the index and the TUN preference are published after the stop.     *)
PublishTarget ==
  /\ seq.pc = "publish" /\ idx' = seq.target /\ pref' = FALSE
  /\ seq' = [seq EXCEPT !.pc = "run", !.snapTun = FALSE]
  /\ UNCHANGED <<elevated, coreVars, published, offered, switches, clicks, lock, mgrVars>>

-----------------------------------------------------------------------------
(* tunDownLocked, with tunMu held from its first step to its last.  It is  *)
(* entered by App.Stop's tunDown, by stop, by a tray click and by the      *)
(* goroutine of a manager that failed to start.                            *)
(* Mutant: stop trusts the teardown App.Stop has just made.                *)
tunDownOnce ==
  /\ seq.pc \in {"tunDown", "stop"} /\ lock = Free
  /\ lock' = [by |-> IF seq.pc = "stop" THEN "stop" ELSE "seq", step |-> IF seq.pc = "stop" THEN "finish" ELSE "clear",
              dev |-> mgr # 0]
  /\ UNCHANGED <<elevated, idx, pref, coreVars, published, offered, seqVars, mgrVars>>

tunDown ==
  /\ seq.pc \in {"tunDown", "stop"} /\ lock = Free
  /\ lock' = [by |-> IF seq.pc = "stop" THEN "stop" ELSE "seq", step |-> "clear", dev |-> mgr # 0]
  /\ UNCHANGED <<elevated, idx, pref, coreVars, published, offered, seqVars, mgrVars>>

disableTun2socks ==
  /\ clicks < MaxClicks /\ clicks' = clicks + 1 /\ lock = Free
  /\ lock' = [by |-> "tray", step |-> "clear", dev |-> mgr # 0]
  /\ UNCHANGED <<elevated, idx, pref, coreVars, published, offered, seq, switches, mgrVars>>

(* Mutant: a failed start takes down whatever session is current.          *)
rollbackFailedTunStartAny(m) ==
  /\ start[m] = "rollback" /\ lock = Free
  /\ start' = [start EXCEPT ![m] = "done"]
  /\ lock' = [by |-> "goroutine", step |-> "clear", dev |-> mgr # 0]
  /\ UNCHANGED <<elevated, idx, pref, coreVars, published, offered, seqVars, mgr, mgrs, tunActive, fifo, engine, route, helper, left>>

(* A failed start is rolled back only while its manager is the session's.  *)
rollbackFailedTunStart(m) ==
  /\ start[m] = "rollback" /\ lock = Free
  /\ start' = [start EXCEPT ![m] = "done"]
  /\ lock' = IF mgr = m THEN [by |-> "goroutine", step |-> "clear", dev |-> mgr # 0] ELSE lock
  /\ UNCHANGED <<elevated, idx, pref, coreVars, published, offered, seqVars, mgr, mgrs, tunActive, fifo, engine, route, helper, left>>

(* Mutant: the dialer is unbound before the routes are gone.               *)
ClearActiveUnbinds ==
  /\ lock.step = "clear" /\ lock' = [lock EXCEPT !.step = "stop"]
  /\ tunActive' = FALSE /\ syncTunStateLocked(0, FALSE)
  /\ UNCHANGED <<elevated, idx, pref, coreVars, offered, seqVars, mgr, mgrs, fifo, start, engine, route, helper, left>>

ClearActive ==
  /\ lock.step = "clear" /\ lock' = [lock EXCEPT !.step = "stop"]
  /\ tunActive' = FALSE /\ syncTunStateLocked(mgr, FALSE)
  /\ UNCHANGED <<elevated, idx, pref, coreVars, offered, seqVars, mgr, mgrs, fifo, start, engine, route, helper, left>>

(* Mutant: Stop waits until the manager's goroutine is through.            *)
StopEngineJoins ==
  /\ lock.step = "stop" /\ (mgr # 0 => start[mgr] = "done")
  /\ lock' = [lock EXCEPT !.step = "signal"] /\ mgr' = 0
  /\ engine' = [m \in Mgrs |-> engine[m] /\ m # mgr]
  /\ \E stays \in BOOLEAN : route' = [m \in Mgrs |-> route[m] /\ (m # mgr \/ fifo = m \/ stays)]
  /\ UNCHANGED <<elevated, idx, pref, coreVars, published, offered, seqVars, mgrs, tunActive, fifo, start, helper, left>>

(* Manager.Stop (see TunManager): it waits for a start in progress, which  *)
(* gives up with an error, and takes back what this process installed; the *)
(* close script may fail.  A helper's routes are the helper's.             *)
StopEngine ==
  /\ lock.step = "stop" /\ lock' = [lock EXCEPT !.step = "signal"] /\ mgr' = 0
  /\ start' = [m \in Mgrs |-> IF m = mgr /\ start[m] = "starting" THEN "rollback" ELSE start[m]]
  /\ engine' = [m \in Mgrs |-> engine[m] /\ m # mgr]
  /\ \E stays \in BOOLEAN : route' = [m \in Mgrs |-> route[m] /\ (m # mgr \/ fifo = m \/ stays)]
  /\ UNCHANGED <<elevated, idx, pref, coreVars, published, offered, seqVars, mgrs, tunActive, fifo, helper, left>>

(* Closing the FIFO is the helper's end of file.                           *)
SignalHelper ==
  /\ lock.step = "signal" /\ lock' = [lock EXCEPT !.step = "verify"]
  /\ helper' = [m \in Mgrs |-> IF m = fifo /\ helper[m] = "up" THEN "told" ELSE helper[m]] /\ fifo' = 0
  /\ UNCHANGED <<elevated, idx, pref, coreVars, published, offered, seqVars, mgr, mgrs, tunActive, start, engine, route, left>>

(* verifyTeardown, when there was a session: the routes are looked at      *)
(* again after the helper is gone, or the wait for it ran out, and rolled  *)
(* back if they are still there.                                           *)
VerifyTeardown ==
  /\ lock.step = "verify" /\ lock' = [lock EXCEPT !.step = "finish"]
  /\ \E rolled \in BOOLEAN :
       IF ~lock.dev THEN UNCHANGED <<route, left>>
       ELSE IF rolled THEN route' = [m \in Mgrs |-> FALSE] /\ UNCHANGED left
       ELSE left' = left \cup {m \in Mgrs : route[m]} /\ UNCHANGED route
  /\ UNCHANGED <<elevated, idx, pref, coreVars, published, offered, seqVars, mgr, mgrs, tunActive, fifo, start, engine, helper>>

(* The client is unbound only now.  stop takes the core away in the same   *)
(* critical section; the sequence goes on.                                 *)
FinishTeardown ==
  /\ lock.step = "finish" /\ lock' = Free
  /\ offered' = [c \in Cores |-> offered[c] /\ c # core]
  /\ syncTunStateLocked(mgr, tunActive) /\ pref' = FALSE
  /\ core' = IF lock.by = "stop" THEN 0 ELSE core
  /\ seq' = CASE lock.by = "seq" -> [seq EXCEPT !.pc = "stop"]
              [] lock.by = "stop" -> IF seq.target = 0 THEN Idle ELSE [seq EXCEPT !.pc = "publish"]
              [] OTHER -> seq
  /\ UNCHANGED <<elevated, idx, cores, served, ready, switches, clicks, mgrVars>>

HelperCleans(m) ==
  /\ helper[m] = "told" /\ helper' = [helper EXCEPT ![m] = "gone"]
  /\ route' = [route EXCEPT ![m] = FALSE]
  /\ UNCHANGED <<elevated, idx, pref, coreVars, published, offered, seqVars, lock, mgr, mgrs, tunActive, fifo, start, engine, left>>

-----------------------------------------------------------------------------
(* The tray's enable: refused before the server's domain is resolved, and  *)
(* nothing to do when a manager exists or no core does.                    *)
CanEnable == clicks < MaxClicks /\ (core # 0 => ready[core])

tunUp ==
  /\ CanEnable /\ elevated /\ lock = Free /\ clicks' = clicks + 1
  /\ IF mgr = 0 /\ core # 0 /\ mgrs < MaxMgrs THEN pref' = TRUE /\ adoptTunManager(mgrs + 1)
     ELSE UNCHANGED <<pref, mgr, mgrs, tunActive, start, published>>
  /\ UNCHANGED <<elevated, idx, coreVars, offered, seq, switches, lock, fifo, engine, route, helper, left>>

(* tunUpViaHelper keeps tunMu over the whole of the helper's start.        *)
tunUpViaHelper ==
  /\ CanEnable /\ ~elevated /\ lock = Free /\ clicks' = clicks + 1
  /\ IF mgr = 0 /\ core # 0 /\ mgrs < MaxMgrs
     THEN lock' = [by |-> "tray", step |-> "spawn", dev |-> FALSE] /\ offered' = [offered EXCEPT ![core] = TRUE]
     ELSE UNCHANGED <<lock, offered>>
  /\ UNCHANGED <<elevated, idx, pref, coreVars, published, seq, switches, mgrVars>>

(* spawnHelperTun: no helper, or a helper with its routes whose descriptor *)
(* did not arrive (it is told to go), or one that handed it over.          *)
spawnHelperTun ==
  /\ lock.step = "spawn"
  /\ \/ /\ lock' = Free /\ offered' = [offered EXCEPT ![core] = FALSE] /\ UNCHANGED <<mgrs, helper, route>>
     \/ /\ lock' = Free /\ offered' = [offered EXCEPT ![core] = FALSE]
        /\ mgrs' = mgrs + 1 /\ helper' = [helper EXCEPT ![mgrs + 1] = "told"] /\ route' = [route EXCEPT ![mgrs + 1] = TRUE]
     \/ /\ lock' = [lock EXCEPT !.step = "install"] /\ UNCHANGED <<mgrs, offered>>
        /\ helper' = [helper EXCEPT ![mgrs + 1] = "up"] /\ route' = [route EXCEPT ![mgrs + 1] = TRUE]
  /\ UNCHANGED <<elevated, idx, pref, coreVars, published, seqVars, mgr, tunActive, fifo, start, engine, left>>

installHelperTun ==
  /\ lock.step = "install" /\ lock' = Free
  /\ pref' = TRUE /\ adoptTunManager(mgrs + 1) /\ fifo' = mgrs + 1
  /\ UNCHANGED <<elevated, idx, coreVars, offered, seqVars, engine, route, helper, left>>

-----------------------------------------------------------------------------
(* The goroutine of a manager: Start fails and takes its own changes back  *)
(* (its close script may fail), or the engine runs (see TunManager); then  *)
(* the session is told.                                                    *)
StartReturns(m) ==
  /\ start[m] = "starting"
  /\ \/ /\ start' = [start EXCEPT ![m] = "rollback"] /\ UNCHANGED engine
        /\ \E stays \in BOOLEAN : route' = [route EXCEPT ![m] = fifo = m \/ stays]
     \/ /\ start' = [start EXCEPT ![m] = "mark"] /\ engine' = [engine EXCEPT ![m] = TRUE]
        /\ route' = [route EXCEPT ![m] = TRUE]
  /\ UNCHANGED <<elevated, idx, pref, coreVars, published, offered, seqVars, lock, mgr, mgrs, tunActive, fifo, helper, left>>

(* Mutant: the engine of a session already torn down is announced.         *)
markTunEngineUpAny(m) ==
  /\ start[m] = "mark" /\ lock = Free /\ start' = [start EXCEPT ![m] = "done"]
  /\ tunActive' = TRUE /\ syncTunStateLocked(mgr, TRUE)
  /\ UNCHANGED <<elevated, idx, pref, coreVars, offered, seqVars, lock, mgr, mgrs, fifo, engine, route, helper, left>>

markTunEngineUp(m) ==
  /\ start[m] = "mark" /\ lock = Free /\ start' = [start EXCEPT ![m] = "done"]
  /\ IF mgr = m THEN tunActive' = TRUE /\ syncTunStateLocked(mgr, TRUE) ELSE UNCHANGED <<tunActive, published>>
  /\ UNCHANGED <<elevated, idx, pref, coreVars, offered, seqVars, lock, mgr, mgrs, fifo, engine, route, helper, left>>

-----------------------------------------------------------------------------
TeardownStep == ClearActive \/ StopEngine \/ SignalHelper \/ VerifyTeardown \/ FinishTeardown
HelperUp == spawnHelperTun \/ installHelperTun
Goroutine(m) == StartReturns(m) \/ markTunEngineUp(m) \/ rollbackFailedTunStart(m)

SessNext ==
  \/ runCore \/ runCoreFails \/ SyncStarted \/ startTunEngineAtStartup \/ DomainResolved
  \/ (\E i \in Servers : switchServer(i)) \/ closeService \/ PublishTarget
  \/ tunDown \/ disableTun2socks \/ TeardownStep \/ tunUp \/ tunUpViaHelper \/ HelperUp
  \/ \E m \in Mgrs : Goroutine(m) \/ HelperCleans(m)

SessFairness == WF_sessVars(TeardownStep) /\ WF_sessVars(HelperUp)
SessSpec == SessInit /\ [][SessNext]_sessVars /\ SessFairness

-----------------------------------------------------------------------------
(* Forwarding is announced to a core only while the session's own manager  *)
(* has its engine running: forward DNS answers on this flag alone          *)
(* (session.go syncTunStateLocked, markTunEngineUp).                       *)
ForwardHonest == \A c \in Cores : fwd[c] => c = core /\ mgr # 0 /\ engine[mgr] /\ lock.step # "signal"

(* While the machine's routes lead into the device of an adopted session,  *)
(* the serving core's dialer is bound to the physical interface, until the *)
(* teardown has verified them gone or told the user (tunDownLocked).       *)
BoundWhileRouted ==
  \A m \in Mgrs : core # 0 /\ route[m] /\ start[m] # "none" /\ m \notin left => mode[core]

(* Whatever interleaves with the stop, a session without a core has no     *)
(* manager, no helper's stdin, no running engine, and no routes but those  *)
(* the user was told of or a helper is removing (session.go stop).         *)
StoppedClean ==
  core = 0 => /\ mgr = 0 /\ fifo = 0
              /\ \A m \in Mgrs : ~engine[m] /\ helper[m] # "up" /\ (route[m] => m \in left \/ helper[m] = "told")

(* Between sequences the core that runs is the configured server's, and a  *)
(* switch that failed ends on the server it left                           *)
(* (restartServiceInSequence).                                             *)
ServesSelected ==
  /\ seq.pc = "idle" /\ core # 0 => served[core] = idx
  /\ seq.pc \in {"sync", "startup"} /\ seq.prevIdx # 0 => served[core] = IF seq.back THEN seq.prevIdx ELSE seq.target

(* An engine whose start succeeded keeps running until somebody asks for   *)
(* its end: a failed start of an earlier manager never stops it            *)
(* (rollbackFailedTunStart's identity check).                              *)
FailureStaysHome == lock.by = "goroutine" /\ lock.step \in {"clear", "stop"} => mgr = 0 \/ ~engine[mgr]

SessionSound == ForwardHonest /\ BoundWhileRouted /\ StoppedClean /\ ServesSelected /\ FailureStaysHome

(* tunMu is always given back: the teardown, which waits for a manager     *)
(* that is starting, never waits for something that waits for tunMu.       *)
TunMuFree == lock = Free
TunMuReturned == []<>TunMuFree
=============================================================================
