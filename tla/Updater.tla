------------------------------ MODULE Updater -------------------------------
(***************************************************************************)
(* The update item of the tray menu (cmd/easyss/internal/tray/update.go):  *)
(* one atomic state that the periodic check, the user's clicks, the        *)
(* download and the timer that resets the label move by compare-and-swap,  *)
(* and the label and the pending release they write beside it.  restart is *)
(* restartAfterUpdate, which returns only if it failed.                    *)
(***************************************************************************)
EXTENDS Naturals, FiniteSets

CONSTANTS MaxTag,     \* the newest release that will appear; 0 is the version that runs
          MaxChecks,  \* the rounds of the periodic check
          Clicks

VARIABLES
  state,      \* Updater.state
  pending,    \* pendingUpdate: the tag of the release, 0 for none
  notified,   \* lastNotifiedTag
  told,       \* how often each release was announced (history)
  overtaken,  \* an older release was announced after a newer one (history)
  label,      \* what the item says
  disabled,
  latest,     \* the newest release there is
  rounds,     \* of runUpdateCheckLoop
  check,      \* the two kinds of goroutine that check: the loop's and each click's
  timers,     \* label resets that are due
  download    \* the goroutine of downloadAndInstall

updaterVars == <<state, pending, notified, told, overtaken, label, disabled, latest, rounds, check, timers, download>>
item == <<label, disabled>>
notice == <<notified, told, overtaken>>

Checkers == Clicks \cup {"loop"}
Tags == 0..MaxTag
NoCheck == [at |-> "idle", was |-> FALSE, rel |-> 0]

UpdaterTypeOK ==
  /\ state \in {"idle", "checking", "available", "downloading"} /\ pending \in Tags /\ notified \in Tags
  /\ told \in [1..MaxTag -> 0..2] /\ overtaken \in BOOLEAN /\ disabled \in BOOLEAN /\ latest \in Tags /\ rounds \in 0..MaxChecks
  /\ label \in {"check", "checking", "failed", "up to date", "available", "downloading", "retry", "restart"}
  /\ timers \in 0..2 /\ download \in {"none", "load", "mark", "restart", "revert", "gone"}
  /\ \A c \in Checkers : /\ check[c].at \in {"idle", "begun", "ask", "finish", "store", "publish", "label", "offer", "load", "swap", "done"}
                         /\ check[c].rel \in Tags /\ check[c].was \in BOOLEAN

UpdaterInit ==
  /\ state = "idle" /\ pending = 0 /\ notified = 0 /\ told = [t \in 1..MaxTag |-> 0] /\ overtaken = FALSE
  /\ label = "check" /\ disabled = FALSE /\ latest = 0 /\ rounds = 0
  /\ check = [c \in Checkers |-> NoCheck] /\ timers = 0 /\ download = "none"

setUpdateItem(l, off) == label' = l /\ disabled' = off
Goto(c, l) == check' = [check EXCEPT ![c].at = l]
Interactive(c) == c \in Clicks

-----------------------------------------------------------------------------
(* onUpdateClicked: what a click does depends on the state it finds.       *)
onUpdateClicked(c) ==
  /\ check[c].at = "idle" /\ ~disabled
  /\ Goto(c, CASE state = "idle" -> "begun" [] state = "available" -> "load" [] OTHER -> "done")
  /\ UNCHANGED <<state, pending, notice, item, latest, rounds, timers, download>>

runUpdateCheckLoop ==
  /\ check["loop"].at = "idle" /\ rounds < MaxChecks /\ rounds' = rounds + 1 /\ Goto("loop", "begun")
  /\ UNCHANGED <<state, pending, notice, item, latest, timers, download>>

(* A goroutine that is done: the loop begins again, a click is over.       *)
Over(c) == IF Interactive(c) THEN "done" ELSE "idle"

(* beginUpdateCheck: from idle or available, by compare-and-swap.          *)
beginUpdateCheck(c) ==
  LET ok == state \in {"idle", "available"} IN
  /\ check[c].at = "begun"
  /\ IF ok
       THEN state' = "checking" /\ check' = [check EXCEPT ![c].at = "ask", ![c].was = (state = "available")]
       ELSE check' = [check EXCEPT ![c].at = Over(c)] /\ UNCHANGED state
  /\ IF ok /\ Interactive(c) THEN setUpdateItem("checking", TRUE) ELSE UNCHANGED item
  /\ UNCHANGED <<pending, notice, latest, rounds, timers, download>>

(* checkUpdate: the answer of the release API, or none.                    *)
checkUpdate(c) ==
  /\ check[c].at = "ask"
  /\ \/ /\ latest > 0 /\ check' = [check EXCEPT ![c].at = "store", ![c].rel = latest] /\ UNCHANGED item
     \/ /\ Goto(c, "finish")
        /\ IF Interactive(c)
             THEN \/ setUpdateItem("failed", TRUE)
                  \/ latest = 0 /\ IF check[c].was THEN UNCHANGED item ELSE setUpdateItem("up to date", TRUE)
             ELSE UNCHANGED item
  /\ UNCHANGED <<state, pending, notice, latest, rounds, timers, download>>

(* Mutant: every check that finds nothing ends in the idle state.          *)
finishUpdateCheckAlways(c) ==
  /\ check[c].at = "finish" /\ Goto(c, Over(c)) /\ timers' = timers + 1
  /\ UNCHANGED <<state, pending, notice, item, latest, rounds, download>>

(* finishUpdateCheck: back to the update that was on offer, or to idle     *)
(* once the label has been read (scheduleUpdateMenuReset).                 *)
finishUpdateCheck(c) ==
  /\ check[c].at = "finish"
  /\ IF check[c].was /\ pending > 0
       THEN state' = "available" /\ Goto(c, "offer") /\ UNCHANGED timers
       ELSE timers' = timers + 1 /\ Goto(c, Over(c)) /\ UNCHANGED state
  /\ UNCHANGED <<pending, notice, item, latest, rounds, download>>

Offer(c) ==
  /\ check[c].at = "offer" /\ Goto(c, Over(c)) /\ setUpdateItem("available", FALSE)
  /\ UNCHANGED <<state, pending, notice, latest, rounds, timers, download>>

(* A newer release: first the release, then the state, then the item.      *)
StorePending(c) ==
  /\ check[c].at = "store" /\ pending' = check[c].rel /\ Goto(c, "publish")
  /\ UNCHANGED <<state, notice, item, latest, rounds, timers, download>>

StoreState(c) ==
  /\ check[c].at = "publish" /\ state' = "available" /\ Goto(c, "label")
  /\ UNCHANGED <<pending, notice, item, latest, rounds, timers, download>>

(* Mutant: every check announces what it found.                            *)
shouldNotifyAlways(tag) == TRUE

shouldNotify(tag) == notified # tag

notifyUpdateAvailable(c) ==
  LET tag == check[c].rel IN
  /\ check[c].at = "label" /\ Goto(c, Over(c)) /\ setUpdateItem("available", FALSE)
  /\ IF shouldNotify(tag)
       THEN /\ notified' = tag /\ told' = [told EXCEPT ![tag] = IF @ = 2 THEN 2 ELSE @ + 1]
            /\ overtaken' = (overtaken \/ tag < notified)
       ELSE UNCHANGED notice
  /\ UNCHANGED <<state, pending, latest, rounds, timers, download>>

(* The timer: from checking to idle, and only then is the label reset.     *)
resetMenu ==
  /\ timers > 0 /\ timers' = timers - 1
  /\ IF state = "checking" THEN state' = "idle" /\ setUpdateItem("check", FALSE) ELSE UNCHANGED <<state, item>>
  /\ UNCHANGED <<pending, notice, latest, rounds, check, download>>

-----------------------------------------------------------------------------
(* downloadAndInstall: the release is read, then the state is taken.       *)
downloadAndInstall(c) ==
  /\ check[c].at = "load"
  /\ IF pending = 0 THEN Goto(c, "done") ELSE check' = [check EXCEPT ![c].at = "swap", ![c].rel = pending]
  /\ UNCHANGED <<state, pending, notice, item, latest, rounds, timers, download>>

TakeDownload(c) ==
  /\ check[c].at = "swap" /\ Goto(c, "done")
  /\ IF state = "available"
       THEN state' = "downloading" /\ setUpdateItem("downloading", TRUE) /\ download' = "load"
       ELSE UNCHANGED <<state, item, download>>
  /\ UNCHANGED <<pending, notice, latest, rounds, timers>>

(* runDownload: a failure offers the release again; so does a failed       *)
(* restart.  A restart that works ends the process.                        *)
runDownload ==
  /\ \/ download = "load" /\ setUpdateItem("retry", FALSE) /\ download' = "revert"
     \/ download = "load" /\ download' = "restart" /\ UNCHANGED item
     \/ download = "restart" /\ setUpdateItem("restart", FALSE) /\ download' = "revert"
     \/ download = "restart" /\ download' = "gone" /\ UNCHANGED item
  /\ UNCHANGED <<state, pending, notice, latest, rounds, check, timers>>

(* Mutant: the failed download leaves the state as it is.                  *)
revertDownloadNot ==
  /\ download = "revert" /\ download' = "none"
  /\ UNCHANGED <<state, pending, notice, item, latest, rounds, check, timers>>

revertDownload ==
  /\ download = "revert" /\ download' = "none" /\ state' = "available"
  /\ UNCHANGED <<pending, notice, item, latest, rounds, check, timers>>

Release ==
  /\ latest < MaxTag /\ latest' = latest + 1
  /\ UNCHANGED <<state, pending, notice, item, rounds, check, timers, download>>

Running == download # "gone"
CheckStep(c) ==
  \/ beginUpdateCheck(c) \/ checkUpdate(c) \/ finishUpdateCheck(c) \/ Offer(c) \/ StorePending(c) \/ StoreState(c)
  \/ notifyUpdateAvailable(c) \/ downloadAndInstall(c) \/ TakeDownload(c)

UpdaterNext ==
  /\ Running
  /\ \/ runUpdateCheckLoop \/ resetMenu \/ runDownload \/ revertDownload \/ Release
     \/ \E c \in Clicks : onUpdateClicked(c)
     \/ \E c \in Checkers : CheckStep(c)

(* The goroutines run, requests end by their time limits, the timer fires. *)
UpdaterFairness ==
  /\ WF_updaterVars(Running /\ resetMenu) /\ WF_updaterVars(Running /\ (runDownload \/ revertDownload))
  /\ \A c \in Checkers : WF_updaterVars(Running /\ CheckStep(c))
UpdaterSpec == UpdaterInit /\ [][UpdaterNext]_updaterVars /\ UpdaterFairness

-----------------------------------------------------------------------------
(* One goroutine at a time has the state: while it says checking, one      *)
(* check or one label reset is to come, while it says downloading, one     *)
(* download is.                                                            *)
OneHolder ==
  LET holders == {c \in Checkers : check[c].at \in {"ask", "finish", "store", "publish"}} IN
  /\ Cardinality(holders) + timers = IF state = "checking" THEN 1 ELSE 0
  /\ state = "downloading" <=> download # "none"

(* The state offers an update only when a release is pending, a pending    *)
(* release never disappears from the menu (the state is not idle), and a   *)
(* release is announced by one system notification, unless the goroutine   *)
(* of an older one was overtaken.                                          *)
OfferedKnown ==
  /\ state = "available" => pending > 0
  /\ pending > 0 => state # "idle"
  /\ (overtaken \/ \A t \in 1..MaxTag : told[t] <= 1)

UpdaterSound == OneHolder /\ OfferedKnown

(* The item always becomes usable again: no failure, of a check, of a      *)
(* download or of a restart, leaves it disabled or the state taken.        *)
ItemUsable == Running => state \in {"idle", "available"} /\ ~disabled
ItemReturns == []<>ItemUsable
=============================================================================
