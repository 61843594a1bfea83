----------------------------- MODULE Singleton ------------------------------
(***************************************************************************)
(* cmd/easyss/internal/singleton on unix: processes of one user that take  *)
(* the lock file, run, and give it back.  A lock belongs to an open file   *)
(* (an inode), the path names at most one of them.                         *)
(***************************************************************************)
EXTENDS Naturals, FiniteSets

CONSTANTS Procs, MaxFiles
NoFile == 0

VARIABLES
  path,     \* the file the lock path names
  made,     \* files created so far
  lockedBy, \* the process that holds the lock of each file
  proc,     \* where each process stands
  file,     \* the file it has open
  removed   \* a Release removed the path (history)

lockVars == <<path, made, lockedBy, proc, file, removed>>
None == "none"

SingletonTypeOK ==
  /\ path \in 0..MaxFiles /\ made \in 0..MaxFiles /\ lockedBy \in [1..MaxFiles -> Procs \cup {None}]
  /\ proc \in [Procs -> {"out", "check", "checked", "spawn", "start", "opened", "runs", "remove", "again", "reopened", "unguarded", "gone"}]
  /\ file \in [Procs -> 0..MaxFiles] /\ removed \in BOOLEAN

SingletonInit ==
  /\ path = NoFile /\ made = 0 /\ lockedBy = [f \in 1..MaxFiles |-> None] /\ removed = FALSE
  /\ proc \in [Procs -> {"start", "check"}] /\ file = [p \in Procs |-> NoFile]

Goes(p, from, to) == proc[p] = from /\ proc' = [proc EXCEPT ![p] = to]
Unlocks(p) == lockedBy' = [f \in 1..MaxFiles |-> IF lockedBy[f] = p THEN None ELSE lockedBy[f]]

(* OpenFile with O_CREATE.                                                 *)
OpenFile(p) ==
  IF path # NoFile
    THEN file' = [file EXCEPT ![p] = path] /\ UNCHANGED <<path, made>>
    ELSE made < MaxFiles /\ made' = made + 1 /\ path' = made + 1 /\ file' = [file EXCEPT ![p] = made + 1]

(* FlockTry: with the lock on to ok, without it to failed.                 *)
FlockTry(p, ok, failed) ==
  IF lockedBy[file[p]] = None
    THEN lockedBy' = [lockedBy EXCEPT ![file[p]] = p] /\ proc' = [proc EXCEPT ![p] = ok] /\ UNCHANGED file
    ELSE proc' = [proc EXCEPT ![p] = failed] /\ file' = [file EXCEPT ![p] = NoFile] /\ UNCHANGED lockedBy

-----------------------------------------------------------------------------
(* runDaemon: the parent tries the lock, gives it back and starts the      *)
(* child, which takes it for itself.                                       *)
runDaemon(p) ==
  \/ Goes(p, "check", "checked") /\ OpenFile(p) /\ UNCHANGED <<lockedBy, removed>>
  \/ proc[p] = "checked" /\ FlockTry(p, "spawn", "gone") /\ UNCHANGED <<path, made, removed>>
  \/ Goes(p, "spawn", "start") /\ Unlocks(p) /\ file' = [file EXCEPT ![p] = NoFile] /\ UNCHANGED <<path, made, removed>>

(* TryAcquire, the open and the lock being two steps.                      *)
OpenLockFile(p) == Goes(p, "start", "opened") /\ OpenFile(p) /\ UNCHANGED <<lockedBy, removed>>

(* Mutant: a process that did not get the lock runs all the same.          *)
TryAcquireAnyway(p) == proc[p] = "opened" /\ FlockTry(p, "runs", "runs") /\ UNCHANGED <<path, made, removed>>

TryAcquire(p) == proc[p] = "opened" /\ FlockTry(p, "runs", "gone") /\ UNCHANGED <<path, made, removed>>

(* Release: unlock and close, then remove the path - whatever it names by  *)
(* then.  restartAfterUpdate goes on: the new process starts, or could not *)
(* be started.                                                             *)
Release(p) ==
  \/ Goes(p, "runs", "remove") /\ Unlocks(p) /\ file' = [file EXCEPT ![p] = NoFile] /\ UNCHANGED <<path, made, removed>>
  \/ /\ \E to \in {"gone", "start", "again"} : Goes(p, "remove", to)
     /\ path' = NoFile /\ removed' = TRUE /\ UNCHANGED <<made, lockedBy, file>>

(* restartAfterUpdate when the new process cannot be started: TryAcquire   *)
(* once more, and on with the service whether or not it got the lock.      *)
restartFailed(p) ==
  \/ Goes(p, "again", "reopened") /\ OpenFile(p) /\ UNCHANGED <<lockedBy, removed>>
  \/ proc[p] = "reopened" /\ FlockTry(p, "runs", "unguarded") /\ UNCHANGED <<path, made, removed>>

(* The end of a process that runs without a tray, or is killed: the kernel *)
(* drops the lock, the path stays.                                         *)
Exit(p) ==
  /\ proc[p] \notin {"gone", "start", "check"} /\ proc' = [proc EXCEPT ![p] = "gone"]
  /\ Unlocks(p) /\ file' = [file EXCEPT ![p] = NoFile] /\ UNCHANGED <<path, made, removed>>

SingletonNext == \E p \in Procs : runDaemon(p) \/ OpenLockFile(p) \/ TryAcquire(p) \/ Release(p) \/ restartFailed(p) \/ Exit(p)
SingletonSpec == SingletonInit /\ [][SingletonNext]_lockVars

-----------------------------------------------------------------------------
Running == {p \in Procs : proc[p] \in {"runs", "unguarded"}}

(* One application instance at a time, as the comment on TryAcquire says.  *)
OneInstance == Cardinality(Running) <= 1

(* While no Release has removed the path, processes that start, are killed *)
(* or only check before they daemonize never let a second instance run;    *)
(* and an instance that got the lock keeps it while it runs.               *)
LockHolds ==
  /\ ~removed => OneInstance
  /\ \A p \in Procs : proc[p] = "runs" => file[p] # NoFile /\ lockedBy[file[p]] = p
=============================================================================
