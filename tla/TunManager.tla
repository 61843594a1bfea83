----------------------------- MODULE TunManager -----------------------------
(***************************************************************************)
(* One TUN session of the client (client/tun/tun.go and teardown.go):      *)
(* Start on a goroutine of its own, Stop from the tray or on exit, and the *)
(* teardown both share.  The machine's side is the engine, the device's    *)
(* descriptor, the routes and the system's DNS.                            *)
(***************************************************************************)
EXTENDS Naturals, TLAPS

CONSTANT Callers   \* callers of Stop

VARIABLES
  owner,       \* who takes routes and DNS back: "local", or the "helper" that handed over a descriptor
  managesDNS,  \* manageSystemDNS
  start,       \* where Start is
  ctxDone,     \* the session's context is cancelled
  started, running, engineUp, deviceUp, dnsTouched, tornDown,
  dnsChanged,  \* set by saveAndSetDNSStep
  stop,        \* of a caller: where its Stop is
  stopMu,      \* the caller that holds the lock, or none
  tear,        \* the teardown that runs: who runs it, its next step, and what it has to take back
  engine, fd, routes, dns,   \* of the machine
  closed,      \* runs of the close script
  leftBy       \* steps of the teardown that failed

tunVars == <<owner, managesDNS, start, ctxDone, started, running, engineUp, deviceUp, dnsTouched,
             tornDown, dnsChanged, stop, stopMu, tear, engine, fd, routes, dns, closed, leftBy>>
flags == <<started, running, engineUp, deviceUp, dnsTouched, tornDown, dnsChanged>>
machine == <<engine, fd, routes, dns, closed, leftBy>>
config == <<owner, managesDNS>>

NoOne == "none"

ASSUME CallersAssumption == NoOne \notin Callers /\ "start" \notin Callers

NoTear == [by |-> NoOne, step |-> "none", engine |-> FALSE, device |-> FALSE, dns |-> FALSE]
Tears == [by : {NoOne, "start"} \cup Callers, step : {"none", "engine", "device", "dns"},
          engine : BOOLEAN, device : BOOLEAN, dns : BOOLEAN]

TunTypeOK ==
  /\ owner \in {"local", "helper"} /\ managesDNS \in BOOLEAN
  /\ start \in {"new", "entered", "prepare", "engine", "started", "settle", "dns", "script", "last", "undo", "done"}
  /\ {ctxDone, started, running, engineUp, deviceUp, dnsTouched, tornDown, dnsChanged} \subseteq BOOLEAN
  /\ stop \in [Callers -> {"idle", "wait", "take", "teardown", "returned"}]
  /\ stopMu \in Callers \cup {NoOne}
  /\ tear \in Tears
  /\ engine \in BOOLEAN /\ fd \in {"none", "open", "closed"} /\ routes \in {"none", "some", "all"}
  /\ dns \in {"origin", "tun"} /\ closed \in 0..2 /\ leftBy \subseteq {"device", "dns"}

TunInit ==
  /\ owner \in {"local", "helper"} /\ managesDNS \in BOOLEAN
  /\ start = "new" /\ ctxDone = FALSE /\ started = FALSE /\ running = FALSE /\ engineUp = FALSE
  /\ deviceUp = FALSE /\ dnsTouched = FALSE /\ tornDown = FALSE /\ dnsChanged = FALSE
  /\ stop = [c \in Callers |-> "idle"] /\ stopMu = NoOne /\ tear = NoTear
  /\ engine = FALSE /\ fd = (IF owner = "helper" THEN "open" ELSE "none") /\ routes = "none"
  /\ dns = "origin" /\ closed = 0 /\ leftBy = {}

-----------------------------------------------------------------------------
(* Start, step by step; an error goes to "undo", the deferred function.    *)
EnterStart ==
  /\ start = "new" /\ start' = "entered" /\ started' = TRUE
  /\ UNCHANGED <<config, ctxDone, running, engineUp, deviceUp, dnsTouched, tornDown, dnsChanged, stop, stopMu, tear, machine>>

(* releaseUnownedFD: the descriptor has not gone to the engine.            *)
releaseUnownedFD == fd' = IF fd = "open" THEN "closed" ELSE fd

CheckFirst ==
  /\ start = "entered"
  /\ IF ctxDone THEN start' = "undo" /\ releaseUnownedFD ELSE start' = "prepare" /\ UNCHANGED fd
  /\ UNCHANGED <<config, ctxDone, flags, stop, stopMu, tear, engine, routes, dns, closed, leftBy>>

(* prepareEngine: validateEngineKey refuses, or not.                       *)
prepareEngine ==
  /\ start = "prepare"
  /\ \/ start' = "engine" /\ UNCHANGED fd
     \/ start' = "undo" /\ releaseUnownedFD
  /\ UNCHANGED <<config, ctxDone, flags, stop, stopMu, tear, engine, routes, dns, closed, leftBy>>

(* startEngine: engine.Start takes the descriptor over; when it fails      *)
(* engine.Stop closes it.                                                  *)
startEngine ==
  /\ start = "engine"
  /\ \/ start' = "started" /\ engine' = TRUE /\ engineUp' = TRUE /\ UNCHANGED fd
     \/ start' = "undo" /\ fd' = (IF fd = "open" THEN "closed" ELSE fd) /\ UNCHANGED <<engine, engineUp>>
  /\ UNCHANGED <<config, ctxDone, started, running, deviceUp, dnsTouched, tornDown, dnsChanged, stop, stopMu, tear, routes, dns, closed, leftBy>>

CheckStarted ==
  /\ start = "started"
  /\ start' = IF ctxDone THEN "undo" ELSE IF owner = "local" THEN "dns" ELSE "last"
  /\ UNCHANGED <<config, ctxDone, flags, stop, stopMu, tear, machine>>

(* saveAndSetDNSStep may fail before or after it changed anything, and     *)
(* changes nothing when the user has chosen a server.                      *)
saveAndSetDNSStep ==
  \E changes \in BOOLEAN :
    /\ dnsTouched' = TRUE /\ dnsChanged' = changes
    /\ dns' \in IF changes THEN {"origin", "tun"} ELSE {"origin"}

(* configureLocalDevice; deviceUp is set before the script runs.           *)
configureLocalDevice ==
  /\ start = "dns" /\ start' = "script" /\ deviceUp' = TRUE
  /\ IF managesDNS THEN saveAndSetDNSStep ELSE UNCHANGED <<dnsTouched, dnsChanged, dns>>
  /\ UNCHANGED <<config, ctxDone, started, running, engineUp, tornDown, stop, stopMu, tear, engine, fd, routes, closed, leftBy>>

(* The create script runs under the session's context and may stop halfway. *)
createDev ==
  /\ start = "script"
  /\ \/ start' = "last" /\ routes' = "all"
     \/ start' = "undo" /\ routes' \in {"none", "some"}
  /\ UNCHANGED <<config, ctxDone, flags, stop, stopMu, tear, engine, fd, dns, closed, leftBy>>

(* The last look at the context, and apart from it the mark as running.    *)
CheckLast ==
  /\ start = "last" /\ start' = IF ctxDone THEN "undo" ELSE "settle"
  /\ UNCHANGED <<config, ctxDone, flags, stop, stopMu, tear, machine>>

MarkRunning ==
  /\ start = "settle" /\ start' = "done" /\ running' = TRUE
  /\ UNCHANGED <<config, ctxDone, started, engineUp, deviceUp, dnsTouched, tornDown, dnsChanged, stop, stopMu, tear, machine>>

-----------------------------------------------------------------------------
(* Mutant: the teardown looks at no mark of an earlier one.                *)
BeginTeardownAgain(by) ==
  /\ tornDown' = TRUE /\ engineUp' = FALSE /\ UNCHANGED deviceUp
  /\ tear' = [by |-> by, step |-> "engine", engine |-> engineUp, device |-> deviceUp, dns |-> dnsTouched]

(* teardown, under the lock: the first one takes over what is up.          *)
BeginTeardown(by) ==
  /\ ~tornDown /\ tornDown' = TRUE /\ engineUp' = FALSE /\ deviceUp' = FALSE
  /\ tear' = [by |-> by, step |-> "engine", engine |-> engineUp, device |-> deviceUp, dns |-> dnsTouched]

(* engine.Stop closes the descriptor it took over.                         *)
stopEngine ==
  /\ engine' = (engine /\ ~tear.engine) /\ fd' = (IF tear.engine /\ fd = "open" THEN "closed" ELSE fd)
  /\ UNCHANGED <<routes, dns, closed, leftBy>>

(* The close script may fail; a device still attached to a descriptor      *)
(* cannot be removed.                                                      *)
closeTunDevAndDelIPRoute ==
  /\ IF tear.device
       THEN /\ closed' = closed + 1
            /\ \/ routes' = (IF engine THEN "some" ELSE "none") /\ UNCHANGED leftBy
               \/ leftBy' = leftBy \cup {"device"} /\ UNCHANGED routes
       ELSE UNCHANGED <<routes, closed, leftBy>>
  /\ UNCHANGED <<engine, fd, dns>>

(* restoreDNSStep: what saveAndSetDNSStep changed is put back, or not.     *)
restoreDNSStep ==
  /\ IF tear.dns /\ managesDNS /\ dnsChanged
       THEN \/ dns' = "origin" /\ UNCHANGED leftBy
            \/ leftBy' = leftBy \cup {"dns"} /\ UNCHANGED dns
       ELSE UNCHANGED <<dns, leftBy>>
  /\ UNCHANGED <<engine, fd, routes, closed>>

TearAt(step, next) == tear.step = step /\ tear' = [tear EXCEPT !.step = next]

(* Mutant: the close script runs before the engine is stopped.             *)
TeardownStepsDeviceFirst ==
  \/ TearAt("engine", IF owner = "local" THEN "device" ELSE "none") /\ owner = "local" /\ closeTunDevAndDelIPRoute
  \/ TearAt("device", "dns") /\ stopEngine
  \/ TearAt("dns", "none") /\ restoreDNSStep

(* The rest of teardown: the engine first, then, in a session of its own,  *)
(* the device and the DNS.                                                 *)
TeardownSteps ==
  \/ TearAt("engine", IF owner = "local" THEN "device" ELSE "none") /\ stopEngine
  \/ TearAt("device", "dns") /\ closeTunDevAndDelIPRoute
  \/ TearAt("dns", "none") /\ restoreDNSStep

Teardown ==
  /\ tear.step # "none" /\ TeardownSteps
  /\ UNCHANGED <<config, start, ctxDone, flags, stop, stopMu>>

(* The deferred function of Start: a failure is taken back, then done is   *)
(* closed.                                                                 *)
UndoStart ==
  /\ start = "undo" /\ tear.by # "start"
  /\ \/ BeginTeardown("start") /\ UNCHANGED start
     \/ tornDown /\ start' = "done" /\ UNCHANGED <<tornDown, engineUp, deviceUp, tear>>
  /\ UNCHANGED <<config, ctxDone, started, running, dnsTouched, dnsChanged, stop, stopMu, machine>>

UndoneStart ==
  /\ start = "undo" /\ tear.by = "start" /\ tear.step = "none" /\ start' = "done" /\ tear' = NoTear
  /\ UNCHANGED <<config, ctxDone, flags, stop, stopMu, machine>>

-----------------------------------------------------------------------------
(* Mutant: a Stop that comes before Start leaves no trace.                 *)
EnterStopUnmarked(c) ==
  /\ stop[c] = "idle" /\ stopMu = NoOne /\ stopMu' = c
  /\ ctxDone' = (ctxDone \/ started) /\ stop' = [stop EXCEPT ![c] = IF started THEN "wait" ELSE "take"]
  /\ UNCHANGED <<config, start, flags, tear, machine>>

(* Stop, under stopMu: the intent is left whether or not Start has begun.  *)
EnterStop(c) ==
  /\ stop[c] = "idle" /\ stopMu = NoOne /\ stopMu' = c
  /\ ctxDone' = TRUE /\ stop' = [stop EXCEPT ![c] = IF started THEN "wait" ELSE "take"]
  /\ UNCHANGED <<config, start, flags, tear, machine>>

(* Mutant: Stop does not wait for Start.                                   *)
AwaitStartNot(c) ==
  /\ stop[c] = "wait" /\ stop' = [stop EXCEPT ![c] = "take"]
  /\ UNCHANGED <<config, start, ctxDone, flags, stopMu, tear, machine>>

AwaitStart(c) ==
  /\ stop[c] = "wait" /\ start = "done" /\ stop' = [stop EXCEPT ![c] = "take"]
  /\ UNCHANGED <<config, start, ctxDone, flags, stopMu, tear, machine>>

hasSomethingToTearDown == engineUp \/ deviceUp \/ dnsTouched

TakeRunning(c) ==
  LET go == running \/ hasSomethingToTearDown IN
  /\ stop[c] = "take" /\ running' = FALSE
  /\ stop' = [stop EXCEPT ![c] = IF go THEN "teardown" ELSE "returned"]
  /\ stopMu' = IF go THEN stopMu ELSE NoOne
  /\ UNCHANGED <<config, start, ctxDone, started, engineUp, deviceUp, dnsTouched, tornDown, dnsChanged, tear, machine>>

StopTeardown(c) ==
  /\ stop[c] = "teardown" /\ tear.by # c
  /\ \/ BeginTeardown(c) /\ UNCHANGED <<stop, stopMu>>
     \/ /\ tornDown /\ stop' = [stop EXCEPT ![c] = "returned"] /\ stopMu' = NoOne
        /\ UNCHANGED <<tornDown, engineUp, deviceUp, tear>>
  /\ UNCHANGED <<config, start, ctxDone, started, running, dnsTouched, dnsChanged, machine>>

StopReturns(c) ==
  /\ stop[c] = "teardown" /\ tear.by = c /\ tear.step = "none"
  /\ stop' = [stop EXCEPT ![c] = "returned"] /\ stopMu' = NoOne /\ tear' = NoTear
  /\ UNCHANGED <<config, start, ctxDone, flags, machine>>

StartSteps ==
  \/ EnterStart \/ CheckFirst \/ prepareEngine \/ startEngine \/ CheckStarted \/ configureLocalDevice
  \/ createDev \/ CheckLast \/ MarkRunning \/ UndoStart \/ UndoneStart
StopSteps(c) == EnterStop(c) \/ AwaitStart(c) \/ TakeRunning(c) \/ StopTeardown(c) \/ StopReturns(c)

TunNext == StartSteps \/ Teardown \/ \E c \in Callers : StopSteps(c)
TunSpec == TunInit /\ [][TunNext]_tunVars

-----------------------------------------------------------------------------
(* Once a Stop has returned the session is not running, and unless a step  *)
(* of the teardown failed the engine is off, the descriptor closed, the    *)
(* routes gone and DNS as it was, for good: as soon as Start, should it    *)
(* only begin now, is through.  The close script never runs twice, and     *)
(* a Start that failed leaves just as little behind.                       *)
TunLeavesNothing ==
  LET stopped == \E c \in Callers : stop[c] = "returned"
      failed == start = "done" /\ ~running /\ \A c \in Callers : stop[c] = "idle" IN
  /\ closed <= 1
  /\ stopped => ~running
  /\ (stopped /\ start \in {"new", "done"}) \/ failed =>
       /\ ~engine /\ (start = "done" => fd # "open")
       /\ routes = "none" \/ "device" \in leftBy
       /\ dns = "origin" \/ "dns" \in leftBy

-----------------------------------------------------------------------------
(***************************************************************************)
(* TunLeavesNothing for any number of callers of Stop.                     *)
(*                                                                         *)
(* It speaks of a session that is over.  What is inductive is who owes the *)
(* teardown at every moment: up to the first one, what is up on the        *)
(* machine has its mark; from then on, what is still up is on the list of  *)
(* the teardown that runs.  A Stop returns only when no teardown runs, or  *)
(* when Start has nothing up and will see that it is not wanted.           *)
(***************************************************************************)
Early == {"new", "entered", "prepare", "engine"}

(* Stop, and with it a teardown, is one caller's at a time. *)
OneStop ==
  \A c \in Callers :
    /\ stop[c] \in {"wait", "take", "teardown"} <=> stopMu = c
    /\ tear.by = c => stop[c] = "teardown"

(* Who runs the teardown, and how far Start is by then. *)
OneTeardown ==
  /\ tear.by = NoOne => tear.step = "none"
  /\ tear.by # NoOne => tornDown
  /\ tear.by = "start" => start = "undo"
  /\ tear.step \in {"device", "dns"} => owner = "local"
  /\ tornDown => ~running /\ ~engineUp /\ ~deviceUp /\ start \in {"undo", "done"}

(* What Start has done when it is at a step. *)
StartSteady ==
  /\ started <=> start # "new"
  /\ running => start = "done"
  /\ start \in Early => ~engineUp /\ ~deviceUp /\ ~dnsTouched
  /\ start \in {"dns", "script"} => owner = "local"
  /\ start = "script" => deviceUp
  /\ fd = "open" => engine \/ start \in Early
  /\ start = "done" /\ ~tornDown => running \/ \E c \in Callers : stop[c] = "teardown"

(* Start was not wanted any more before it had done anything. *)
Unwanted == start \in {"new", "entered", "undo"} /\ ~engineUp /\ ~deviceUp /\ ~dnsTouched

(* What a Stop knows when it is past its wait. *)
StopSteady ==
  \A c \in Callers :
    /\ stop[c] # "idle" => ctxDone
    /\ stop[c] = "wait" => started
    /\ stop[c] \in {"take", "returned"} => start = "done" \/ Unwanted
    /\ stop[c] = "teardown" => start = "done"
    /\ stop[c] \in {"teardown", "returned"} => ~running
    /\ stop[c] = "returned" /\ start = "done" => tornDown /\ tear.by = NoOne

(* What is up on the machine is marked, or on the list of the teardown. *)
DeviceOwed(mark) == routes # "none" => mark
DNSOwed(mark) == dns = "tun" => mark /\ dnsChanged /\ managesDNS
DeviceBack == (routes = "none" \/ "device" \in leftBy) /\ closed <= 1
Owed ==
  /\ ~tornDown => /\ engine <=> engineUp
                  /\ DeviceOwed(deviceUp) /\ DNSOwed(dnsTouched) /\ closed = 0
                  /\ deviceUp \/ dnsTouched => owner = "local"
  /\ tear.step = "engine" => /\ engine => tear.engine
                             /\ DeviceOwed(tear.device) /\ DNSOwed(tear.dns) /\ closed = 0
                             /\ tear.device \/ tear.dns => owner = "local"
  /\ tear.step = "device" => ~engine /\ DeviceOwed(tear.device) /\ DNSOwed(tear.dns) /\ closed = 0
  /\ tear.step = "dns" => ~engine /\ DeviceBack /\ DNSOwed(tear.dns)
  /\ tornDown /\ tear.step = "none" => ~engine /\ DeviceBack /\ (dns = "origin" \/ "dns" \in leftBy)

IInv == TunTypeOK /\ OneStop /\ OneTeardown /\ StartSteady /\ StopSteady /\ Owed

(* Time limits for the leaves below.                                       *)
USE SMTT(30), ZenonT(30)

(* The fields of a teardown that begins. *)
LEMMA BeginTypes ==
  ASSUME TunTypeOK, NEW by \in {"start"} \cup Callers, BeginTeardown(by)
  PROVE  /\ tornDown' = TRUE /\ engineUp' = FALSE /\ deviceUp' = FALSE
         /\ tear' \in Tears /\ tear'.by = by /\ tear'.step = "engine"
<1>1. engineUp \in BOOLEAN /\ deviceUp \in BOOLEAN /\ dnsTouched \in BOOLEAN
  BY DEF TunTypeOK, Tears
<1> QED  BY <1>1 DEF BeginTeardown, Tears

(* Start. *)
LEMMA StartKeeps ==
  ASSUME IInv, EnterStart \/ CheckFirst \/ prepareEngine \/ startEngine \/ CheckStarted
  PROVE  IInv'
<1> USE DEF config, flags, machine
<1>0. TunTypeOK /\ OneStop /\ OneTeardown /\ StartSteady /\ StopSteady /\ Owed
  BY DEF IInv
<1>1. CASE EnterStart
  <2>1. TunTypeOK'
    BY <1>0, <1>1 DEF EnterStart, TunTypeOK, Tears
  <2>2. OneStop'
    BY <1>0, <1>1 DEF EnterStart, OneStop, TunTypeOK, Tears
  <2>3. OneTeardown'
    BY <1>0, <1>1 DEF EnterStart, OneTeardown, TunTypeOK, Tears
  <2>4. StartSteady'
    BY <1>0, <1>1 DEF EnterStart, StartSteady, Early, TunTypeOK, Tears, OneTeardown
  <2>5. StopSteady'
    BY <1>0, <1>1 DEF EnterStart, StopSteady, Unwanted, TunTypeOK, Tears, StartSteady, Early
  <2>6. Owed'
    BY <1>0, <1>1 DEF EnterStart, Owed, DeviceOwed, DNSOwed, DeviceBack, TunTypeOK, Tears, OneTeardown,
         StartSteady, Early
  <2> QED  BY <2>1, <2>2, <2>3, <2>4, <2>5, <2>6 DEF IInv
<1>2. CASE CheckFirst
  <2>1. TunTypeOK'
    BY <1>0, <1>2 DEF CheckFirst, releaseUnownedFD, TunTypeOK, Tears
  <2>2. OneStop'
    BY <1>0, <1>2 DEF CheckFirst, releaseUnownedFD, OneStop, TunTypeOK, Tears
  <2>3. OneTeardown'
    BY <1>0, <1>2 DEF CheckFirst, releaseUnownedFD, OneTeardown, TunTypeOK, Tears
  <2>4. StartSteady'
    BY <1>0, <1>2 DEF CheckFirst, releaseUnownedFD, StartSteady, Early, TunTypeOK, Tears, OneTeardown
  <2>5. StopSteady'
    BY <1>0, <1>2 DEF CheckFirst, releaseUnownedFD, StopSteady, Unwanted, TunTypeOK, Tears, StartSteady, Early
  <2>6. Owed'
    BY <1>0, <1>2 DEF CheckFirst, releaseUnownedFD, Owed, DeviceOwed, DNSOwed, DeviceBack, TunTypeOK,
         Tears, OneTeardown, StartSteady, Early
  <2> QED  BY <2>1, <2>2, <2>3, <2>4, <2>5, <2>6 DEF IInv
<1>3. CASE prepareEngine
  <2>1. TunTypeOK'
    BY <1>0, <1>3 DEF prepareEngine, releaseUnownedFD, TunTypeOK, Tears
  <2>2. OneStop'
    BY <1>0, <1>3 DEF prepareEngine, releaseUnownedFD, OneStop, TunTypeOK, Tears
  <2>3. OneTeardown'
    BY <1>0, <1>3 DEF prepareEngine, releaseUnownedFD, OneTeardown, TunTypeOK, Tears
  <2>4. StartSteady'
    BY <1>0, <1>3 DEF prepareEngine, releaseUnownedFD, StartSteady, Early, TunTypeOK, Tears, OneTeardown
  <2>5. StopSteady'
    BY <1>0, <1>3 DEF prepareEngine, releaseUnownedFD, StopSteady, Unwanted, TunTypeOK, Tears, StartSteady,
         Early
  <2>6. Owed'
    BY <1>0, <1>3 DEF prepareEngine, releaseUnownedFD, Owed, DeviceOwed, DNSOwed, DeviceBack, TunTypeOK,
         Tears, OneTeardown, StartSteady, Early
  <2> QED  BY <2>1, <2>2, <2>3, <2>4, <2>5, <2>6 DEF IInv
<1>4. CASE startEngine
  <2>1. TunTypeOK'
    <3>1. /\ start' \in {"started", "undo"} /\ engine' \in {TRUE, engine} /\ engineUp' \in {TRUE, engineUp}
          /\ fd' \in {fd, "closed"}
      BY Zenon, <1>4 DEF startEngine
    <3>2. engine' \in BOOLEAN /\ engineUp' \in BOOLEAN
      BY Zenon, <1>0, <3>1 DEF TunTypeOK, Tears
    <3> QED  BY <1>0, <1>4, <3>1, <3>2 DEF startEngine, TunTypeOK, Tears
  <2>2. OneStop'
    BY <1>0, <1>4 DEF startEngine, OneStop, TunTypeOK, Tears
  <2>3. OneTeardown'
    BY <1>0, <1>4 DEF startEngine, OneTeardown, TunTypeOK, Tears
  <2>4. StartSteady'
    BY <1>0, <1>4 DEF startEngine, StartSteady, Early, TunTypeOK, Tears, OneTeardown
  <2>5. StopSteady'
    BY <1>0, <1>4 DEF startEngine, StopSteady, Unwanted, TunTypeOK, Tears, StartSteady, Early
  <2>6. Owed'
    BY <1>0, <1>4 DEF startEngine, Owed, DeviceOwed, DNSOwed, DeviceBack, TunTypeOK, Tears, OneTeardown,
         StartSteady, Early
  <2> QED  BY <2>1, <2>2, <2>3, <2>4, <2>5, <2>6 DEF IInv
<1>5. CASE CheckStarted
  <2>1. TunTypeOK'
    BY <1>0, <1>5 DEF CheckStarted, TunTypeOK, Tears
  <2>2. OneStop'
    BY <1>0, <1>5 DEF CheckStarted, OneStop, TunTypeOK, Tears
  <2>3. OneTeardown'
    BY <1>0, <1>5 DEF CheckStarted, OneTeardown, TunTypeOK, Tears
  <2>4. StartSteady'
    BY <1>0, <1>5 DEF CheckStarted, StartSteady, Early, TunTypeOK, Tears, OneTeardown
  <2>5. StopSteady'
    BY <1>0, <1>5 DEF CheckStarted, StopSteady, Unwanted, TunTypeOK, Tears, StartSteady, Early
  <2>6. Owed'
    BY <1>0, <1>5 DEF CheckStarted, Owed, DeviceOwed, DNSOwed, DeviceBack, TunTypeOK, Tears, OneTeardown,
         StartSteady, Early
  <2> QED  BY <2>1, <2>2, <2>3, <2>4, <2>5, <2>6 DEF IInv
<1> QED  BY <1>1, <1>2, <1>3, <1>4, <1>5

(* Start, from the device on. *)
LEMMA DeviceKeeps ==
  ASSUME IInv, configureLocalDevice \/ createDev \/ CheckLast \/ MarkRunning
  PROVE  IInv'
<1> USE DEF config, flags, machine
<1>0. TunTypeOK /\ OneStop /\ OneTeardown /\ StartSteady /\ StopSteady /\ Owed
  BY DEF IInv
<1>1. CASE configureLocalDevice
  <2>1. TunTypeOK'
    <3>1. dnsTouched' \in BOOLEAN /\ dnsChanged' \in BOOLEAN
      BY Zenon, <1>0, <1>1 DEF configureLocalDevice, saveAndSetDNSStep, TunTypeOK, Tears
    <3>2. dns' \in {"origin", "tun"}
      BY <1>0, <1>1 DEF configureLocalDevice, saveAndSetDNSStep, TunTypeOK, Tears
    <3> QED  BY <1>0, <1>1, <3>1, <3>2 DEF configureLocalDevice, TunTypeOK, Tears
  <2>2. OneStop'
    BY <1>0, <1>1 DEF configureLocalDevice, saveAndSetDNSStep, OneStop, TunTypeOK, Tears
  <2>3. OneTeardown'
    BY <1>0, <1>1 DEF configureLocalDevice, saveAndSetDNSStep, OneTeardown, TunTypeOK, Tears
  <2>4. StartSteady'
    BY <1>0, <1>1 DEF configureLocalDevice, saveAndSetDNSStep, StartSteady, Early, TunTypeOK, Tears,
         OneTeardown
  <2>5. StopSteady'
    BY <1>0, <1>1 DEF configureLocalDevice, saveAndSetDNSStep, StopSteady, Unwanted, TunTypeOK, Tears,
         StartSteady, Early
  <2>6. Owed'
    BY <1>0, <1>1 DEF configureLocalDevice, saveAndSetDNSStep, Owed, DeviceOwed, DNSOwed, DeviceBack,
         TunTypeOK, Tears, OneTeardown, StartSteady, Early
  <2> QED  BY <2>1, <2>2, <2>3, <2>4, <2>5, <2>6 DEF IInv
<1>2. CASE createDev
  <2>1. TunTypeOK'
    BY <1>0, <1>2 DEF createDev, TunTypeOK, Tears
  <2>2. OneStop'
    BY <1>0, <1>2 DEF createDev, OneStop, TunTypeOK, Tears
  <2>3. OneTeardown'
    BY <1>0, <1>2 DEF createDev, OneTeardown, TunTypeOK, Tears
  <2>4. StartSteady'
    BY <1>0, <1>2 DEF createDev, StartSteady, Early, TunTypeOK, Tears, OneTeardown
  <2>5. StopSteady'
    BY <1>0, <1>2 DEF createDev, StopSteady, Unwanted, TunTypeOK, Tears, StartSteady, Early
  <2>6. Owed'
    BY <1>0, <1>2 DEF createDev, Owed, DeviceOwed, DNSOwed, DeviceBack, TunTypeOK, Tears, OneTeardown,
         StartSteady, Early
  <2> QED  BY <2>1, <2>2, <2>3, <2>4, <2>5, <2>6 DEF IInv
<1>3. CASE CheckLast
  <2>1. TunTypeOK'
    BY <1>0, <1>3 DEF CheckLast, TunTypeOK, Tears
  <2>2. OneStop'
    BY <1>0, <1>3 DEF CheckLast, OneStop, TunTypeOK, Tears
  <2>3. OneTeardown'
    BY <1>0, <1>3 DEF CheckLast, OneTeardown, TunTypeOK, Tears
  <2>4. StartSteady'
    BY <1>0, <1>3 DEF CheckLast, StartSteady, Early, TunTypeOK, Tears, OneTeardown
  <2>5. StopSteady'
    BY <1>0, <1>3 DEF CheckLast, StopSteady, Unwanted, TunTypeOK, Tears, StartSteady, Early
  <2>6. Owed'
    BY <1>0, <1>3 DEF CheckLast, Owed, DeviceOwed, DNSOwed, DeviceBack, TunTypeOK, Tears, OneTeardown,
         StartSteady, Early
  <2> QED  BY <2>1, <2>2, <2>3, <2>4, <2>5, <2>6 DEF IInv
<1>4. CASE MarkRunning
  <2>1. TunTypeOK'
    BY <1>0, <1>4 DEF MarkRunning, TunTypeOK, Tears
  <2>2. OneStop'
    BY <1>0, <1>4 DEF MarkRunning, OneStop, TunTypeOK, Tears
  <2>3. OneTeardown'
    BY <1>0, <1>4 DEF MarkRunning, OneTeardown, TunTypeOK, Tears
  <2>4. StartSteady'
    BY <1>0, <1>4 DEF MarkRunning, StartSteady, Early, TunTypeOK, Tears, OneTeardown
  <2>5. StopSteady'
    BY <1>0, <1>4 DEF MarkRunning, StopSteady, Unwanted, TunTypeOK, Tears, StartSteady, Early
  <2>6. Owed'
    BY <1>0, <1>4 DEF MarkRunning, Owed, DeviceOwed, DNSOwed, DeviceBack, TunTypeOK, Tears, OneTeardown,
         StartSteady, Early
  <2> QED  BY <2>1, <2>2, <2>3, <2>4, <2>5, <2>6 DEF IInv
<1> QED  BY <1>1, <1>2, <1>3, <1>4

(* The steps of a teardown: each takes back one thing on its list. *)
LEMMA TeardownKeeps ==
  ASSUME IInv, Teardown
  PROVE  IInv'
<1> USE DEF config, flags, machine
<1>0. TunTypeOK /\ OneStop /\ OneTeardown /\ StartSteady /\ StopSteady /\ Owed
  BY DEF IInv
<1>1. CASE Teardown /\ tear.step = "engine"
  <2>1. TunTypeOK'
    BY <1>0, <1>1 DEF Teardown, TeardownSteps, TearAt, stopEngine, TunTypeOK, Tears
  <2>2. OneStop'
    BY <1>0, <1>1 DEF Teardown, TeardownSteps, TearAt, stopEngine, OneStop, TunTypeOK, Tears
  <2>3. OneTeardown'
    BY <1>0, <1>1 DEF Teardown, TeardownSteps, TearAt, stopEngine, OneTeardown, TunTypeOK, Tears
  <2>4. StartSteady'
    BY <1>0, <1>1 DEF Teardown, TeardownSteps, TearAt, stopEngine, StartSteady, Early, TunTypeOK, Tears,
         OneTeardown
  <2>5. StopSteady'
    BY <1>0, <1>1 DEF Teardown, TeardownSteps, TearAt, stopEngine, StopSteady, Unwanted, TunTypeOK, Tears,
         StartSteady, Early
  <2>6. Owed'
    BY <1>0, <1>1 DEF Teardown, TeardownSteps, TearAt, stopEngine, Owed, DeviceOwed, DNSOwed, DeviceBack,
         TunTypeOK, Tears, OneTeardown, StartSteady, Early
  <2> QED  BY <2>1, <2>2, <2>3, <2>4, <2>5, <2>6 DEF IInv
<1>2. CASE Teardown /\ tear.step = "device"
  <2>1. TunTypeOK'
    <3>1. closed' \in 0 .. 2 /\ routes' \in {"none", "some", "all"} /\ leftBy' \subseteq {"device", "dns"}
      BY <1>0, <1>2 DEF Teardown, TeardownSteps, TearAt, closeTunDevAndDelIPRoute, TunTypeOK, Tears, Owed
    <3>2. tear' \in Tears /\ UNCHANGED <<engine, fd, dns>>
      BY <1>0, <1>2 DEF Teardown, TeardownSteps, TearAt, closeTunDevAndDelIPRoute, TunTypeOK, Tears
    <3> QED  BY <1>0, <1>2, <3>1, <3>2 DEF Teardown, TunTypeOK, Tears
  <2>2. OneStop'
    BY <1>0, <1>2 DEF Teardown, TeardownSteps, TearAt, closeTunDevAndDelIPRoute, OneStop, TunTypeOK, Tears
  <2>3. OneTeardown'
    BY <1>0, <1>2 DEF Teardown, TeardownSteps, TearAt, closeTunDevAndDelIPRoute, OneTeardown, TunTypeOK, Tears
  <2>4. StartSteady'
    BY <1>0, <1>2 DEF Teardown, TeardownSteps, TearAt, closeTunDevAndDelIPRoute, StartSteady, Early,
         TunTypeOK, Tears, OneTeardown
  <2>5. StopSteady'
    BY <1>0, <1>2 DEF Teardown, TeardownSteps, TearAt, closeTunDevAndDelIPRoute, StopSteady, Unwanted,
         TunTypeOK, Tears, StartSteady, Early
  <2>6. Owed'
    BY <1>0, <1>2 DEF Teardown, TeardownSteps, TearAt, closeTunDevAndDelIPRoute, Owed, DeviceOwed, DNSOwed,
         DeviceBack, TunTypeOK, Tears, OneTeardown, StartSteady, Early
  <2> QED  BY <2>1, <2>2, <2>3, <2>4, <2>5, <2>6 DEF IInv
<1>3. CASE Teardown /\ tear.step = "dns"
  <2>1. TunTypeOK'
    BY <1>0, <1>3 DEF Teardown, TeardownSteps, TearAt, restoreDNSStep, TunTypeOK, Tears
  <2>2. OneStop'
    BY <1>0, <1>3 DEF Teardown, TeardownSteps, TearAt, restoreDNSStep, OneStop, TunTypeOK, Tears
  <2>3. OneTeardown'
    BY <1>0, <1>3 DEF Teardown, TeardownSteps, TearAt, restoreDNSStep, OneTeardown, TunTypeOK, Tears
  <2>4. StartSteady'
    BY <1>0, <1>3 DEF Teardown, TeardownSteps, TearAt, restoreDNSStep, StartSteady, Early, TunTypeOK,
         Tears, OneTeardown
  <2>5. StopSteady'
    BY <1>0, <1>3 DEF Teardown, TeardownSteps, TearAt, restoreDNSStep, StopSteady, Unwanted, TunTypeOK,
         Tears, StartSteady, Early
  <2>6. Owed'
    BY <1>0, <1>3 DEF Teardown, TeardownSteps, TearAt, restoreDNSStep, Owed, DeviceOwed, DNSOwed,
         DeviceBack, TunTypeOK, Tears, OneTeardown, StartSteady, Early
  <2> QED  BY <2>1, <2>2, <2>3, <2>4, <2>5, <2>6 DEF IInv
<1> QED  BY <1>0, <1>1, <1>2, <1>3 DEF Teardown, TunTypeOK, Tears

(* The deferred function of a Start that failed. *)
LEMMA UndoKeeps ==
  ASSUME IInv, UndoStart \/ UndoneStart
  PROVE  IInv'
<1> USE DEF config, flags, machine
<1>0. TunTypeOK /\ OneStop /\ OneTeardown /\ StartSteady /\ StopSteady /\ Owed
  BY DEF IInv
<1>1. CASE UndoStart
  <2>1. TunTypeOK'
    <3>1. CASE BeginTeardown("start")
      <4>1. tear' \in Tears /\ {tornDown', engineUp', deviceUp'} \subseteq BOOLEAN
        BY Zenon, <1>0, <3>1, BeginTypes
      <4>2. start' = start
        BY Zenon, <1>1, <3>1 DEF UndoStart, BeginTeardown
      <4>3. UNCHANGED <<owner, managesDNS, ctxDone, started, running, dnsTouched, dnsChanged, stop, stopMu, machine>>
        BY <1>1 DEF UndoStart
      <4> QED  BY <1>0, <4>1, <4>2, <4>3 DEF TunTypeOK
    <3>2. CASE ~BeginTeardown("start")
      BY <1>0, <1>1, <3>2 DEF UndoStart, TunTypeOK, Tears
    <3> QED  BY <3>1, <3>2
  <2>2. OneStop'
    BY <1>0, <1>1, CallersAssumption DEF UndoStart, BeginTeardown, OneStop, TunTypeOK, Tears
  <2>3. OneTeardown'
    <3>1. CASE BeginTeardown("start")
      BY Zenon, <1>0, <1>1, <3>1, BeginTypes, CallersAssumption DEF UndoStart, OneTeardown, TunTypeOK, Tears,
           NoOne, StartSteady, BeginTeardown
    <3>2. CASE ~BeginTeardown("start")
      BY <1>0, <1>1, <3>2 DEF UndoStart, OneTeardown, TunTypeOK, Tears
    <3> QED  BY <3>1, <3>2
  <2>4. StartSteady'
    BY <1>0, <1>1 DEF UndoStart, BeginTeardown, StartSteady, Early, TunTypeOK, Tears, OneTeardown
  <2>5. StopSteady'
    BY <1>0, <1>1 DEF UndoStart, BeginTeardown, StopSteady, Unwanted, TunTypeOK, Tears, StartSteady, Early,
         OneStop, OneTeardown
  <2>6. Owed'
    BY <1>0, <1>1 DEF UndoStart, BeginTeardown, Owed, DeviceOwed, DNSOwed, DeviceBack, TunTypeOK, Tears,
         OneTeardown, StartSteady, Early
  <2> QED  BY <2>1, <2>2, <2>3, <2>4, <2>5, <2>6 DEF IInv
<1>2. CASE UndoneStart
  <2>1. TunTypeOK'
    BY <1>0, <1>2 DEF UndoneStart, NoTear, NoOne, TunTypeOK, Tears
  <2>2. OneStop'
    BY <1>0, <1>2, CallersAssumption DEF UndoneStart, NoTear, NoOne, OneStop, TunTypeOK, Tears
  <2>3. OneTeardown'
    BY <1>0, <1>2 DEF UndoneStart, NoTear, NoOne, OneTeardown, TunTypeOK, Tears
  <2>4. StartSteady'
    BY <1>0, <1>2 DEF UndoneStart, NoTear, NoOne, StartSteady, Early, TunTypeOK, Tears, OneTeardown
  <2>5. StopSteady'
    BY <1>0, <1>2 DEF UndoneStart, NoTear, NoOne, StopSteady, Unwanted, TunTypeOK, Tears, StartSteady,
         Early, OneTeardown
  <2>6. Owed'
    BY <1>0, <1>2 DEF UndoneStart, NoTear, NoOne, Owed, DeviceOwed, DNSOwed, DeviceBack, TunTypeOK, Tears,
         OneTeardown, StartSteady, Early
  <2> QED  BY <2>1, <2>2, <2>3, <2>4, <2>5, <2>6 DEF IInv
<1> QED  BY <1>1, <1>2

(* Stop. *)
LEMMA StopKeeps ==
  ASSUME IInv, NEW c \in Callers, StopSteps(c)
  PROVE  IInv'
<1> USE DEF config, flags, machine
<1>0. TunTypeOK /\ OneStop /\ OneTeardown /\ StartSteady /\ StopSteady /\ Owed
  BY DEF IInv
<1>1. CASE EnterStop(c)
  <2>1. TunTypeOK'
    BY <1>0, <1>1 DEF EnterStop, TunTypeOK, Tears
  <2>2. OneStop'
    BY <1>0, <1>1, CallersAssumption DEF EnterStop, OneStop, TunTypeOK, Tears
  <2>3. OneTeardown'
    BY <1>0, <1>1 DEF EnterStop, OneTeardown, TunTypeOK, Tears
  <2>4. StartSteady'
    BY <1>0, <1>1 DEF EnterStop, StartSteady, Early, TunTypeOK, Tears, OneTeardown
  <2>5. StopSteady'
    BY <1>0, <1>1 DEF EnterStop, StopSteady, Unwanted, TunTypeOK, Tears, StartSteady, Early, OneStop
  <2>6. Owed'
    BY <1>0, <1>1 DEF EnterStop, Owed, DeviceOwed, DNSOwed, DeviceBack, TunTypeOK, Tears, OneTeardown,
         StartSteady, Early
  <2> QED  BY <2>1, <2>2, <2>3, <2>4, <2>5, <2>6 DEF IInv
<1>2. CASE AwaitStart(c)
  <2>1. TunTypeOK'
    BY <1>0, <1>2 DEF AwaitStart, TunTypeOK, Tears
  <2>2. OneStop'
    BY <1>0, <1>2 DEF AwaitStart, OneStop, TunTypeOK, Tears
  <2>3. OneTeardown'
    BY <1>0, <1>2 DEF AwaitStart, OneTeardown, TunTypeOK, Tears
  <2>4. StartSteady'
    BY <1>0, <1>2 DEF AwaitStart, StartSteady, Early, TunTypeOK, Tears, OneTeardown
  <2>5. StopSteady'
    BY <1>0, <1>2 DEF AwaitStart, StopSteady, Unwanted, TunTypeOK, Tears, StartSteady, Early
  <2>6. Owed'
    BY <1>0, <1>2 DEF AwaitStart, Owed, DeviceOwed, DNSOwed, DeviceBack, TunTypeOK, Tears, OneTeardown,
         StartSteady, Early
  <2> QED  BY <2>1, <2>2, <2>3, <2>4, <2>5, <2>6 DEF IInv
<1>3. CASE TakeRunning(c)
  <2>1. TunTypeOK'
    <3>1. /\ stop' \in {[stop EXCEPT ![c] = "teardown"], [stop EXCEPT ![c] = "returned"]}
          /\ stopMu' \in {stopMu, NoOne} /\ running' = FALSE
      BY Zenon, <1>3 DEF TakeRunning
    <3>2. stop' \in [Callers -> {"idle", "wait", "take", "teardown", "returned"}]
      BY <1>0, <3>1 DEF TunTypeOK, Tears
    <3>3. stopMu' \in Callers \cup {NoOne}
      BY <1>0, <3>1 DEF TunTypeOK
    <3>4. UNCHANGED <<owner, managesDNS, start, ctxDone, started, engineUp, deviceUp, dnsTouched, tornDown,
                      dnsChanged, tear, machine>>
      BY <1>3 DEF TakeRunning
    <3>5. {ctxDone, started, running, engineUp, deviceUp, dnsTouched, tornDown, dnsChanged}' \subseteq BOOLEAN
      BY Zenon, <1>0, <3>1, <3>4 DEF TunTypeOK
    <3> QED  BY <1>0, <3>2, <3>3, <3>4, <3>5 DEF TunTypeOK
  <2>2. OneStop'
    BY <1>0, <1>3, CallersAssumption DEF TakeRunning, hasSomethingToTearDown, OneStop, TunTypeOK, Tears
  <2>3. OneTeardown'
    BY <1>0, <1>3 DEF TakeRunning, hasSomethingToTearDown, OneTeardown, TunTypeOK, Tears
  <2>4. StartSteady'
    BY <1>0, <1>3 DEF TakeRunning, hasSomethingToTearDown, StartSteady, Early, TunTypeOK, Tears, OneTeardown
  <2>5. StopSteady'
    BY <1>0, <1>3 DEF TakeRunning, hasSomethingToTearDown, StopSteady, Unwanted, TunTypeOK, Tears,
         StartSteady, Early, OneStop, OneTeardown
  <2>6. Owed'
    BY <1>0, <1>3 DEF TakeRunning, hasSomethingToTearDown, Owed, DeviceOwed, DNSOwed, DeviceBack,
         TunTypeOK, Tears, OneTeardown, StartSteady, Early
  <2> QED  BY <2>1, <2>2, <2>3, <2>4, <2>5, <2>6 DEF IInv
<1>4. CASE StopTeardown(c)
  <2>1. TunTypeOK'
    <3>1. CASE BeginTeardown(c)
      <4>1. tear' \in Tears /\ {tornDown', engineUp', deviceUp'} \subseteq BOOLEAN
        BY Zenon, <1>0, <3>1, BeginTypes
      <4>2. stop' = stop /\ stopMu' = stopMu
        BY Zenon, <1>4, <3>1 DEF StopTeardown, BeginTeardown
      <4>3. UNCHANGED <<owner, managesDNS, start, ctxDone, started, running, dnsTouched, dnsChanged, machine>>
        BY <1>4 DEF StopTeardown
      <4> QED  BY <1>0, <4>1, <4>2, <4>3 DEF TunTypeOK
    <3>2. CASE ~BeginTeardown(c)
      BY <1>0, <1>4, <3>2 DEF StopTeardown, TunTypeOK, Tears
    <3> QED  BY <3>1, <3>2
  <2>2. OneStop'
    BY <1>0, <1>4, CallersAssumption DEF StopTeardown, BeginTeardown, OneStop, TunTypeOK, Tears
  <2>3. OneTeardown'
    <3>1. CASE BeginTeardown(c)
      <4>1. ~running /\ start = "done" /\ running' = running /\ start' = start
        BY <1>0, <1>4 DEF StopTeardown, StopSteady
      <4>2. tornDown' /\ ~engineUp' /\ ~deviceUp' /\ tear'.by = c /\ tear'.step = "engine"
        BY Zenon, <1>0, <3>1, BeginTypes
      <4>3. c # NoOne /\ c # "start"
        BY CallersAssumption
      <4> QED  BY <4>1, <4>2, <4>3 DEF OneTeardown
    <3>2. CASE ~BeginTeardown(c)
      BY <1>0, <1>4, <3>2 DEF StopTeardown, OneTeardown, TunTypeOK, Tears
    <3> QED  BY <3>1, <3>2
  <2>4. StartSteady'
    <3>1. tornDown'
      BY <1>0, <1>4 DEF StopTeardown, BeginTeardown
    <3>2. engineUp' = engineUp \/ engineUp' = FALSE
      BY <1>4 DEF StopTeardown, BeginTeardown
    <3>3. deviceUp' = deviceUp \/ deviceUp' = FALSE
      BY <1>4 DEF StopTeardown, BeginTeardown
    <3>4. start = "done" /\ UNCHANGED <<start, started, running, dnsTouched, owner, fd, engine>>
      BY <1>0, <1>4 DEF StopTeardown, StopSteady
    <3> QED  BY <1>0, <3>1, <3>4 DEF StartSteady, Early
  <2>5. StopSteady'
    BY <1>0, <1>4 DEF StopTeardown, BeginTeardown, StopSteady, Unwanted, TunTypeOK, Tears, StartSteady,
         Early, OneStop, OneTeardown
  <2>6. Owed'
    BY <1>0, <1>4 DEF StopTeardown, BeginTeardown, Owed, DeviceOwed, DNSOwed, DeviceBack, TunTypeOK, Tears,
         OneTeardown, StartSteady, Early
  <2> QED  BY <2>1, <2>2, <2>3, <2>4, <2>5, <2>6 DEF IInv
<1>5. CASE StopReturns(c)
  <2>1. TunTypeOK'
    BY <1>0, <1>5 DEF StopReturns, NoTear, NoOne, TunTypeOK, Tears
  <2>2. OneStop'
    BY <1>0, <1>5, CallersAssumption DEF StopReturns, NoTear, NoOne, OneStop, TunTypeOK, Tears
  <2>3. OneTeardown'
    BY <1>0, <1>5, CallersAssumption DEF StopReturns, NoTear, NoOne, OneTeardown, TunTypeOK, Tears
  <2>4. StartSteady'
    BY <1>0, <1>5, CallersAssumption DEF StopReturns, NoTear, NoOne, StartSteady, Early, TunTypeOK, Tears,
         OneTeardown
  <2>5. StopSteady'
    BY <1>0, <1>5, CallersAssumption DEF StopReturns, NoTear, NoOne, StopSteady, Unwanted, TunTypeOK,
         Tears, StartSteady, Early, OneStop, OneTeardown
  <2>6. Owed'
    BY <1>0, <1>5 DEF StopReturns, NoTear, NoOne, Owed, DeviceOwed, DNSOwed, DeviceBack, TunTypeOK, Tears,
         OneTeardown, StartSteady, Early
  <2> QED  BY <2>1, <2>2, <2>3, <2>4, <2>5, <2>6 DEF IInv
<1> QED  BY <1>1, <1>2, <1>3, <1>4, <1>5 DEF StopSteps

LEMMA InitKeeps == TunInit => IInv
<1> SUFFICES ASSUME TunInit PROVE IInv
  OBVIOUS
<1>1. TunTypeOK
  <2>1. tear \in Tears
    BY DEF TunInit, Tears, NoTear
  <2>2. stop \in [Callers -> {"idle", "wait", "take", "teardown", "returned"}] /\ stopMu \in Callers \cup {NoOne}
    BY DEF TunInit
  <2>3. fd \in {"none", "open", "closed"}
    BY DEF TunInit
  <2>4. {ctxDone, started, running, engineUp, deviceUp, dnsTouched, tornDown, dnsChanged} \subseteq BOOLEAN
    BY Zenon DEF TunInit
  <2>5. engine \in BOOLEAN /\ closed \in 0..2 /\ leftBy \subseteq {"device", "dns"}
    <3>1. engine = FALSE /\ closed = 0 /\ leftBy = {}
      BY DEF TunInit
    <3>2. engine \in BOOLEAN
      BY Zenon, <3>1
    <3>3. closed \in 0..2
      BY <3>1
    <3>4. leftBy \subseteq {"device", "dns"}
      BY <3>1
    <3> QED  BY <3>2, <3>3, <3>4
  <2>6. /\ owner \in {"local", "helper"} /\ managesDNS \in BOOLEAN
        /\ start = "new" /\ routes = "none" /\ dns = "origin"
    BY DEF TunInit
  <2> QED  BY <2>1, <2>2, <2>3, <2>4, <2>5, <2>6 DEF TunTypeOK
<1>2. OneStop
  BY CallersAssumption DEF TunInit, OneStop, NoTear, NoOne
<1>3. OneTeardown
  BY DEF TunInit, OneTeardown, NoTear, NoOne
<1>4. StartSteady
  BY DEF TunInit, StartSteady, Early
<1>5. StopSteady
  BY DEF TunInit, StopSteady
<1>6. Owed
  BY DEF TunInit, Owed, DeviceOwed, DNSOwed, NoTear
<1> QED  BY <1>1, <1>2, <1>3, <1>4, <1>5, <1>6 DEF IInv

LEMMA StepKeeps == IInv /\ [TunNext]_tunVars => IInv'
<1>1. IInv /\ TunNext => IInv'
  BY StartKeeps, DeviceKeeps, TeardownKeeps, UndoKeeps, StopKeeps DEF TunNext, StartSteps
<1>2. IInv /\ UNCHANGED tunVars => IInv'
  <2> SUFFICES ASSUME IInv, UNCHANGED tunVars PROVE IInv'
    OBVIOUS
  <2> USE DEF tunVars, IInv
  <2>1. TunTypeOK' /\ OneStop' /\ OneTeardown'
    BY DEF TunTypeOK, Tears, OneStop, OneTeardown
  <2>2. StartSteady' /\ StopSteady'
    BY DEF StartSteady, StopSteady, Unwanted
  <2>3. Owed'
    BY DEF Owed, DeviceOwed, DNSOwed, DeviceBack
  <2> QED  BY <2>1, <2>2, <2>3
<1> QED  BY <1>1, <1>2

(* However the callers of Stop meet Start and each other: after a Stop has *)
(* returned, or a Start has failed, nothing of the session stays on the    *)
(* machine but what a failing step of the teardown has left.               *)
THEOREM TunLeavesNothingHolds == TunSpec => []TunLeavesNothing
<1>1. IInv => TunLeavesNothing
  <2> SUFFICES ASSUME IInv PROVE TunLeavesNothing
    OBVIOUS
  <2> DEFINE stopped == \E c \in Callers : stop[c] = "returned"
             failed == start = "done" /\ ~running /\ \A c \in Callers : stop[c] = "idle"
  <2>1. closed <= 1
    BY DEF IInv, TunTypeOK, Tears, OneTeardown, Owed, DeviceBack
  <2>2. stopped => ~running
    BY DEF IInv, StopSteady
  <2>3. ASSUME start = "done", stopped \/ failed
        PROVE  tornDown /\ tear.step = "none"
    <3>1. CASE stopped
      BY <2>3, <3>1 DEF IInv, StopSteady, OneTeardown
    <3>2. CASE failed
      <4>1. tornDown
        BY <2>3, <3>2 DEF IInv, StartSteady
      <4>2. tear.by = NoOne
        BY <2>3, <3>2 DEF IInv, TunTypeOK, Tears, OneTeardown, OneStop
      <4> QED  BY <4>1, <4>2 DEF IInv, OneTeardown
    <3> QED  BY <2>3, <3>1, <3>2
  <2>4. ASSUME start = "done", stopped \/ failed
        PROVE  ~engine /\ fd # "open" /\ (routes = "none" \/ "device" \in leftBy) /\ (dns = "origin" \/ "dns" \in leftBy)
    BY <2>3, <2>4 DEF IInv, Owed, DeviceBack, StartSteady, Early
  <2>5. ASSUME start = "new"
        PROVE  ~engine /\ routes = "none" /\ dns = "origin"
    BY <2>5 DEF IInv, TunTypeOK, Tears, OneTeardown, StartSteady, Early, Owed, DeviceOwed, DNSOwed
  <2> QED  BY <2>1, <2>2, <2>4, <2>5 DEF TunLeavesNothing
<1> QED  BY <1>1, InitKeeps, StepKeeps, PTL DEF TunSpec
=============================================================================
