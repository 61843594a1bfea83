------------------------------- MODULE MCHost -------------------------------
(***************************************************************************)
(* What runs on the user's machine around the tunnel, for TLC: the core    *)
(* with its ports, the TUN session of the tray with its managers and its   *)
(* privileged helper, the dialer that keeps off the TUN device, the system *)
(* proxy, the update menu, the installation of an update and the lock of   *)
(* the instance.  Where they meet, each of them is modelled with what the  *)
(* others may do to it, so one of them moves and the others stay as they   *)
(* began.                                                                  *)
(***************************************************************************)
EXTENDS TunManager

CONSTANTS
  Stoppers,
  Servers, MaxCores, MaxMgrs, MaxClicks, MaxSwitches,
  MaxHelpers, MaxCrashes,
  Phys, Dials, MaxChanges, MaxIPs, Budget, serverIPDialTimeout,
  ProxyClicks, MaxProxySwitches,
  MaxTag, MaxChecks, Clicks,
  cleanupRetries,
  Procs, MaxFiles

VARIABLES
  part,  \* which of them moves
  enabled, byDomain, run, eps, listening, built, serve, closing, cleanup, coreStop, client,
  done, domainReady, domainIPs, retry, retryCancel, cancelled, lateAttempts,
  elevated, idx, pref, core, cores, served, ready, mode, fwd, offered, seq, switches, clicks,
  lock, mgr, mgrs, tunActive, fifo, mgrStart, mgrEngine, route, helper, left,
  parent, cur, spawned, crashes, process, pid, stdin, pipe, listener, msg, fdSent, originDNS, lockBy,
  attached, hostRoutes, hostDNS, orphaned,
  netRoute, changes, tunMode, dialer, bound, refresh, ips, dial, timeLeft, tryLeft, used,
  tray, desktop, env, store, previous, written, applied, checked, phase, wasOn, proxySwitches,
  late, op,
  state, pending, notified, told, overtaken, label, disabled, latest, rounds, check, timers,
  download,
  kind, exe, aside, staging, zip, up, result, viaProxy, rolledBack, stuck, restart, toRemove, attempts,
  overlapped,
  path, made, lockedBy, proc, file, removed

rvars == <<enabled, byDomain, run, eps, listening, built, serve, closing, cleanup, coreStop,
           client, done, domainReady, domainIPs, retry, retryCancel, cancelled, lateAttempts>>
tvars == <<elevated, idx, pref, core, cores, served, ready, mode, fwd, offered, seq, switches,
           clicks, lock, mgr, mgrs, tunActive, fifo, mgrStart, mgrEngine, route, helper, left>>
hvars == <<parent, cur, spawned, crashes, process, pid, stdin, pipe, listener, msg, fdSent, originDNS, lockBy,
           attached, hostRoutes, hostDNS, orphaned>>
dvars == <<netRoute, changes, tunMode, dialer, bound, refresh, ips, dial, timeLeft, tryLeft,
           used>>
svars == <<tray, desktop, env, store, previous, written, applied, checked, phase, wasOn,
           proxySwitches, late, op>>
uvars == <<state, pending, notified, told, overtaken, label, disabled, latest, rounds, check,
           timers, download>>
ivars == <<kind, exe, aside, staging, zip, up, result, viaProxy, rolledBack, stuck, restart, toRemove,
           attempts, overlapped>>
lvars == <<path, made, lockedBy, proc, file, removed>>
mcVars == <<tunVars, rvars, tvars, hvars, dvars, svars, uvars, ivars, lvars, part>>

R == INSTANCE Runner
     WITH stop <- coreStop, ready <- domainReady, ips <- domainIPs, late <- lateAttempts,
          bound <- listening
T == INSTANCE TunSession WITH start <- mgrStart, engine <- mgrEngine
H == INSTANCE TunHelper
     WITH routes <- hostRoutes, dns <- hostDNS, fifo <- pipe, helper <- process, left <- orphaned
D == INSTANCE DirectDialer WITH route <- netRoute, left <- timeLeft
S == INSTANCE SysProxy
     WITH MaxSwitches <- MaxProxySwitches, Clicks <- ProxyClicks, switches <- proxySwitches
U == INSTANCE Updater
I == INSTANCE SelfUpdate WITH start <- restart, pending <- toRemove
L == INSTANCE Singleton

(* Where a part that does not move could begin in several ways, one is     *)
(* enough.                                                                 *)
MCInit ==
  /\ part \in {"manager", "core", "session", "helper", "dialer", "proxy", "menu", "install", "lock"}
  /\ H!HelperInit /\ U!UpdaterInit
  /\ TunInit /\ (part # "manager" => owner = "local" /\ ~managesDNS)
  /\ R!RunnerInit /\ (part # "core" => enabled = {} /\ ~byDomain)
  /\ T!SessInit /\ (part # "session" => ~elevated /\ ~pref /\ idx = CHOOSE s \in Servers : TRUE)
  /\ D!DialerInit
  /\ (part # "dialer" => netRoute = D!None /\ dialer = D!None /\ ~tunMode /\ ips = 0)
  /\ S!SysInit /\ (part # "proxy" => ~tray /\ ~checked)
  /\ I!UpdateInit /\ (part # "install" => kind = "unix" /\ ~viaProxy)
  /\ L!SingletonInit /\ (part # "lock" => \A p \in Procs : proc[p] = "start")

MCNext ==
  /\ \/ part = "manager" /\ TunNext
     \/ part = "core" /\ R!RunnerNext
     \/ part = "session" /\ T!SessNext
     \/ part = "helper" /\ H!HelperNext
     \/ part = "dialer" /\ D!DialerNext
     \/ part = "proxy" /\ S!SysNext
     \/ part = "menu" /\ U!UpdaterNext
     \/ part = "install" /\ I!UpdateNext
     \/ part = "lock" /\ L!SingletonNext
  /\ part # "manager" => UNCHANGED tunVars
  /\ part # "core" => UNCHANGED rvars
  /\ part # "session" => UNCHANGED tvars
  /\ part # "helper" => UNCHANGED hvars
  /\ part # "dialer" => UNCHANGED dvars
  /\ part # "proxy" => UNCHANGED svars
  /\ part # "menu" => UNCHANGED uvars
  /\ part # "install" => UNCHANGED ivars
  /\ part # "lock" => UNCHANGED lvars
  /\ UNCHANGED part
MCSpec == MCInit /\ [][MCNext]_mcVars

(* The fairness of the parts (modules Runner, TunSession, TunHelper,       *)
(* Updater).                                                               *)
CoreRuns ==
  /\ WF_rvars(part = "core" /\ R!cleanupStep) /\ WF_rvars(part = "core" /\ R!retryServerDomain)
  /\ WF_rvars(part = "core" /\ R!Socks5Serve) /\ WF_rvars(part = "core" /\ R!ForwardServe)
  /\ WF_rvars(part = "core" /\ (R!HTTPServe \/ R!TrackListener))
SessionRuns == WF_tvars(part = "session" /\ T!TeardownStep) /\ WF_tvars(part = "session" /\ T!HelperUp)
HelperRuns == \A h \in H!Helpers : WF_hvars(part = "helper" /\ H!HelperStep(h))
MenuRuns ==
  /\ WF_uvars(part = "menu" /\ U!Running /\ U!resetMenu)
  /\ WF_uvars(part = "menu" /\ U!Running /\ (U!runDownload \/ U!revertDownload))
  /\ \A c \in U!Checkers : WF_uvars(part = "menu" /\ U!Running /\ U!CheckStep(c))
FairSpec == MCSpec /\ CoreRuns /\ SessionRuns /\ HelperRuns /\ MenuRuns

-----------------------------------------------------------------------------
(* The type invariants of the nine.                                        *)
TypesOK ==
  /\ TunTypeOK /\ R!RunnerTypeOK /\ T!SessTypeOK /\ H!HelperTypeOK /\ D!DialerTypeOK
  /\ S!SysTypeOK /\ U!UpdaterTypeOK /\ I!UpdateTypeOK /\ L!SingletonTypeOK

(* TunSession, TunHelper: forwarding is announced only while the session's *)
(* own engine runs, a failed start never takes down the session that came  *)
(* after it, and routes and resolver are the user's again when the helper  *)
(* is gone, killed clients and overlapping helpers included.               *)
TunSessionSound == T!SessionSound /\ H!HelperSound

(* Runner, DirectDialer: no port outlives its core, the parts of a core    *)
(* close in order, a retry that raced Stop makes one attempt at most; no   *)
(* dial goes through the TUN device, and the name of the server has its    *)
(* turn after all its addresses.                                           *)
CoreSound == R!CoreSound /\ D!DialerSound

(* SysProxy, Updater, SelfUpdate, Singleton: an exit gives the settings of *)
(* the desktop back, a check or a download has the menu for itself, an     *)
(* update killed anywhere leaves an executable, and no second instance     *)
(* runs while the lock file stays in place.                                *)
DesktopSound == S!SysProxySound /\ U!UpdaterSound /\ I!UpdateSound /\ L!LockHolds

(* Runner, TunSession, TunHelper, Updater: a stopped core frees its ports  *)
(* and ends its retries, the mutex of the TUN session is given back, a     *)
(* helper whose client is gone goes, and the menu item becomes usable      *)
(* again.                                                                  *)
EverythingEnds == []<>(R!CoreOver /\ T!TunMuFree /\ H!NoneOrphaned /\ U!ItemUsable)
=============================================================================
