----------------------------- MODULE SelfUpdate -----------------------------
(***************************************************************************)
(* selfupdate: updateFor downloads a release, unpacks it beside the        *)
(* program and puts it in the program's place, and CleanupOld of the next  *)
(* start removes what an update left.  Every step may fail, and the        *)
(* process may be killed between any two.                                  *)
(***************************************************************************)
EXTENDS Naturals, FiniteSets

CONSTANT cleanupRetries

VARIABLES
  kind,       \* how the program is replaced: over itself (unix), or by way of .old (windows, bundle)
  exe,        \* what stands in the program's place
  aside,      \* the .old beside it
  staging,    \* the staging directory
  zip,        \* the downloaded file
  up,         \* where updateFor stands
  result,     \* what it returned
  viaProxy,   \* the local proxy is still to be tried by Client.Get
  rolledBack, \* the rollback of the rename failed (history)
  stuck,      \* what updateFor tried to remove and could not (history)
  start,      \* CleanupOld of a process that starts
  pending,    \* the artifacts it found and has not removed
  attempts,
  overlapped  \* an update and a cleanup were under way at the same time (history)

updateVars == <<kind, exe, aside, staging, zip, up, result, viaProxy, rolledBack, stuck, start, pending,
                attempts, overlapped>>
files == <<exe, aside, staging, zip>>
cleaning == <<start, pending, attempts, overlapped>>

Ended == {"idle", "returned", "killed"}

UpdateTypeOK ==
  /\ kind \in {"unix", "aside"} /\ exe \in {"old", "new", "part", "none"} /\ aside \in {"none", "old"}
  /\ staging \in {"none", "empty", "part", "new", "taken"} /\ zip \in {"none", "empty", "part", "whole"}
  /\ up \in Ended \cup {"get", "copy", "stage", "unzip", "install", "moved", "leave"}
  /\ result \in {"none", "ok", "error"} /\ viaProxy \in BOOLEAN /\ rolledBack \in BOOLEAN
  /\ start \in {"none", "clean", "retry", "done"} /\ pending \subseteq {"staging", "aside"}
  /\ attempts \in 0..cleanupRetries /\ overlapped \in BOOLEAN /\ stuck \subseteq {"zip", "staging"}

(* An earlier update may have left its .old, a killed one its staging.     *)
UpdateInit ==
  /\ kind \in {"unix", "aside"} /\ exe = "old" /\ aside \in {"none"} \cup (IF kind = "aside" THEN {"old"} ELSE {})
  /\ staging = "none" /\ zip = "none" /\ up = "idle" /\ result = "none" /\ viaProxy \in BOOLEAN
  /\ rolledBack = FALSE /\ stuck = {} /\ start = "none" /\ pending = {} /\ attempts = 0 /\ overlapped = FALSE

End(r) == up' = "leave" /\ result' = r
Keep == UNCHANGED <<kind, rolledBack, stuck, cleaning>>

-----------------------------------------------------------------------------
(* updateFor up to the request: no asset, no temporary file, or on.  The   *)
(* start whose cleanup is over is done with; the next one comes later.     *)
(* The retries of this process's own cleanup may still be running.         *)
updateFor ==
  /\ up = "idle"
  /\ \/ End("error") /\ UNCHANGED zip
     \/ up' = "get" /\ zip' = "empty" /\ UNCHANGED result
  /\ IF start = "done"
       THEN start' = "none" /\ pending' = {} /\ attempts' = 0 /\ UNCHANGED overlapped
       ELSE overlapped' = (start # "none") /\ UNCHANGED <<start, pending, attempts>>
  /\ UNCHANGED <<kind, exe, aside, staging, viaProxy, rolledBack, stuck>>

(* remove of downloadAsset: os.Remove may fail, which nobody hears of.     *)
remove(content) ==
  \/ zip' = "none" /\ UNCHANGED stuck
  \/ zip' = content /\ stuck' = {"zip"}

(* Client.Get: the local proxy first, then a direct request.               *)
Get ==
  /\ up = "get"
  /\ \/ up' = "copy" /\ UNCHANGED <<zip, result, viaProxy, stuck>>
     \/ viaProxy /\ viaProxy' = FALSE /\ UNCHANGED <<up, zip, result, stuck>>
     \/ ~viaProxy /\ remove("empty") /\ End("error") /\ UNCHANGED viaProxy
  /\ UNCHANGED <<kind, exe, aside, staging, rolledBack, cleaning>>

(* Mutant: a download of the wrong size is given up, but not removed.      *)
downloadAssetKeeps ==
  /\ up = "copy"
  /\ \/ up' = "stage" /\ zip' \in {"whole", "part"} /\ UNCHANGED result
     \/ zip' = "part" /\ up' = "returned" /\ result' = "error"
  /\ UNCHANGED <<exe, aside, staging, viaProxy>> /\ Keep

(* downloadAsset: a copy that fails or has the wrong size is removed; one  *)
(* whose size is not known may be cut short.                               *)
downloadAsset ==
  /\ up = "copy"
  /\ \/ up' = "stage" /\ zip' \in {"whole", "part"} /\ UNCHANGED <<result, stuck>>
     \/ remove("part") /\ End("error")
  /\ UNCHANGED <<kind, exe, aside, staging, viaProxy, rolledBack, cleaning>>

MkdirTemp ==
  /\ up = "stage"
  /\ \/ up' = "unzip" /\ staging' = "empty" /\ UNCHANGED result
     \/ End("error") /\ UNCHANGED staging
  /\ UNCHANGED <<exe, aside, zip, viaProxy>> /\ Keep

(* Mutant: an entry that cannot be written whole does not end the update.  *)
unzipOn ==
  /\ up = "unzip" /\ up' = "install" /\ staging' \in {"part", "new"}
  /\ UNCHANGED <<exe, aside, zip, result, viaProxy>> /\ Keep

(* unzip: the checksums tell a file that was cut short; a full disk or the *)
(* size limit ends it half way.                                            *)
unzip ==
  /\ up = "unzip"
  /\ \/ zip = "whole" /\ staging # "none" /\ up' = "install" /\ staging' = "new" /\ UNCHANGED result
     \/ End("error") /\ staging' \in {staging, IF staging = "none" THEN "none" ELSE "part"}
  /\ UNCHANGED <<exe, aside, zip, viaProxy>> /\ Keep

Staged == staging \in {"part", "new"}

(* installAt on unix: one rename.                                          *)
installAt ==
  /\ up = "install" /\ kind = "unix"
  /\ \/ Staged /\ exe' = staging /\ staging' = "taken" /\ End("ok")
     \/ End("error") /\ UNCHANGED <<exe, staging>>
  /\ UNCHANGED <<aside, zip, viaProxy>> /\ Keep

(* Mutant: the program is removed instead of moved aside.                  *)
MoveAsideRemoves ==
  /\ up = "install" /\ kind = "aside" /\ up' = "moved" /\ exe' = "none" /\ aside' = "none"
  /\ UNCHANGED <<staging, zip, result, viaProxy>> /\ Keep

(* installAt on Windows and installBundle: an earlier .old goes, the       *)
(* program is moved aside.                                                 *)
MoveAside ==
  /\ up = "install" /\ kind = "aside"
  /\ \/ Staged /\ exe # "none" /\ up' = "moved" /\ exe' = "none" /\ aside' = "old" /\ UNCHANGED result
     \/ End("error") /\ aside' \in {"none", aside} /\ UNCHANGED exe
  /\ UNCHANGED <<staging, zip, viaProxy>> /\ Keep

(* Mutant: the failed rename is reported and nothing is put back.          *)
MoveInNoRollback ==
  /\ up = "moved"
  /\ \/ exe' = staging /\ staging' = "taken" /\ End("ok")
     \/ End("error") /\ UNCHANGED <<exe, staging>>
  /\ UNCHANGED <<aside, zip, viaProxy>> /\ Keep

(* The new program is moved in, or the old one back.                       *)
MoveIn ==
  /\ up = "moved"
  /\ \/ Staged /\ exe' = staging /\ staging' = "taken" /\ End("ok") /\ UNCHANGED <<aside, rolledBack>>
     \/ aside = "old" /\ exe' = "old" /\ aside' = "none" /\ End("error") /\ UNCHANGED <<staging, rolledBack>>
     \/ rolledBack' = TRUE /\ End("error") /\ UNCHANGED <<exe, aside, staging>>
  /\ UNCHANGED <<kind, zip, viaProxy, stuck, cleaning>>

Present == {f \in {"zip", "staging"} : IF f = "zip" THEN zip # "none" ELSE staging # "none"}

(* Mutant: the staging directory is not removed.                           *)
LeaveStaging ==
  /\ up = "leave" /\ up' = "returned"
  /\ zip' = IF "zip" \in stuck THEN zip ELSE "none"
  /\ UNCHANGED <<exe, aside, staging, result, viaProxy>> /\ Keep

(* The deferred removals of the staging directory and of the download,     *)
(* whose errors are dropped.                                               *)
Leave ==
  /\ up = "leave" /\ up' = "returned"
  /\ stuck' \in {f \cup stuck : f \in SUBSET Present}
  /\ zip' = IF "zip" \in stuck' THEN zip ELSE "none"
  /\ staging' = IF "staging" \in stuck' THEN staging ELSE "none"
  /\ UNCHANGED <<kind, exe, aside, result, viaProxy, rolledBack, cleaning>>

Kill ==
  /\ up \notin Ended /\ up' = "killed" /\ UNCHANGED <<files, result, viaProxy>> /\ Keep

-----------------------------------------------------------------------------
Found == {a \in {"staging", "aside"} : IF a = "staging" THEN staging # "none" ELSE aside = "old"}

(* CleanupOld: the artifacts beside the program that runs (its directory   *)
(* can be read).                                                           *)
CleanupOld ==
  /\ start = "none" /\ exe # "none" /\ pending' = Found
  /\ start' = "clean" /\ overlapped' = (up \notin Ended)
  /\ UNCHANGED <<kind, files, up, result, viaProxy, rolledBack, stuck, attempts>>

(* Mutant: what could not be removed is given up after the first try.      *)
RemoveAllOnce ==
  /\ start \in {"clean", "retry"}
  /\ \E gone \in SUBSET pending :
       /\ staging' = IF "staging" \in gone THEN "none" ELSE staging
       /\ aside' = IF "aside" \in gone THEN "none" ELSE aside
       /\ pending' = {} /\ start' = "done" /\ UNCHANGED attempts
  /\ UNCHANGED <<kind, exe, zip, up, result, viaProxy, rolledBack, stuck, overlapped>>

(* RemoveAll of each; what another process still holds is tried again, the *)
(* wait doubling, cleanupRetries times.                                    *)
RemoveAll ==
  /\ start \in {"clean", "retry"}
  /\ \E gone \in SUBSET pending :
       /\ staging' = IF "staging" \in gone THEN "none" ELSE staging
       /\ aside' = IF "aside" \in gone THEN "none" ELSE aside
       /\ pending' = pending \ gone
       /\ IF gone = pending \/ attempts = cleanupRetries
            THEN start' = "done" /\ UNCHANGED attempts
            ELSE start' = "retry" /\ attempts' = attempts + 1
  /\ UNCHANGED <<kind, exe, zip, up, result, viaProxy, rolledBack, stuck, overlapped>>

UpdateNext ==
  \/ updateFor \/ Get \/ downloadAsset \/ MkdirTemp \/ unzip \/ installAt \/ MoveAside \/ MoveIn \/ Leave \/ Kill
  \/ CleanupOld \/ RemoveAll
UpdateSpec == UpdateInit /\ [][UpdateNext]_updateVars

-----------------------------------------------------------------------------
(* The program is never lost and never half: whatever fails and whenever   *)
(* the process is killed, the old or the new program stands in its place,  *)
(* or the old one beside it - unless a cleanup was under way meanwhile, of *)
(* a second start or the retries of the process's own.                     *)
NeverLost == exe # "part" /\ (overlapped \/ exe # "none" \/ aside = "old")

(* updateFor tells the truth: after a success the new program is in place, *)
(* after an error the old one, unless the rollback failed too.             *)
ResultHonest ==
  up = "returned" => \/ exe = IF result = "ok" THEN "new" ELSE "old"
                     \/ rolledBack

(* An update that returned leaves a download or a staging directory only   *)
(* if it tried to remove it and failed; CleanupOld of a later start gives  *)
(* up on a leftover only after all its retries.                            *)
NothingLitters ==
  /\ up = "returned" => (zip # "none" => "zip" \in stuck) /\ (staging # "none" => "staging" \in stuck)
  /\ start = "done" /\ ~overlapped /\ up \in Ended /\ Found # {} => attempts = cleanupRetries

UpdateSound == NeverLost /\ ResultHonest /\ NothingLitters
=============================================================================
