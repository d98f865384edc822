----------------------------- MODULE GenTransaction -----------------------------
(***************************************************************************)
(* How the gx generators publish: the file transaction of the controller and *)
(* service pipelines (src/gx/internal/gen/fs/transaction.go) and the         *)
(* directory transaction of the dao pipeline (fs/directories.go,             *)
(* dao/pipeline_runtime.go), which also updates go.mod and go.sum.           *)
(*                                                                           *)
(* Both move what is at a path into a backup and rename staged output into   *)
(* its place, path by path, and undo that when a step fails.  They differ in *)
(* the order of the renames, in the order of undoing, and in what becomes of *)
(* the backup when an undo is refused.  Every check and every rename may     *)
(* fail.  Every state is one in which the process may be killed.  Nobody     *)
(* else writes to the paths; what others do to their parents shows as a      *)
(* check that fails.                                                         *)
(***************************************************************************)
EXTENDS Naturals

CONSTANTS N,             \* number of paths
          ModuleFiles    \* go.mod and go.sum

ASSUME PathAssumption == N \in Nat \ {0}

Path == 1 .. N           \* in the order of publication

VARIABLES
    kind,         \* "files" or "directories": which transaction
    deletes,      \* paths to delete, the others are written
    before,       \* what was at a path when the command began
    place,        \* what is there now; a removal that failed may leave a part
    backup,       \* what the backup holds of a path
    installed,    \* paths whose staged output has been renamed into place
    at, next,     \* what the command does, and to which path
    err,          \* the command has an error to return
    committed,    \* the publication is final
    changed,      \* module files that differ from the snapshot of discover
    refused       \* ghost: a step of undoing failed

files == <<place, backup, installed>>
cursor == <<at, next>>
command == <<kind, deletes, before>>
vars == <<command, files, cursor, err, committed, changed, refused>>

Content == {"old", "new", "part", "none"}
Working == {"stage", "preflight", "backup", "install", "snapshot", "require", "tidy", "commit"}
Step == Working \cup {"deferred", "remove", "restore", "modules", "close", "returned"}

TypeOK ==
    /\ kind \in {"files", "directories"} /\ deletes \subseteq Path
    /\ before \in [Path -> {"old", "none"}]
    /\ place \in [Path -> Content] /\ backup \in [Path -> {"old", "none"}]
    /\ installed \subseteq Path
    /\ at \in Step /\ next \in Path
    /\ err \in BOOLEAN /\ committed \in BOOLEAN
    /\ changed \subseteq ModuleFiles /\ refused \in BOOLEAN

\* Writes are published before deletions; directories are only replaced.
Init ==
    /\ kind \in {"files", "directories"}
    /\ \/ deletes = {}
       \/ kind = "files" /\ \E i \in Path : deletes = i .. N
    /\ before \in [Path -> {"old", "none"}]
    /\ place = before /\ backup = [p \in Path |-> "none"] /\ installed = {}
    /\ at = "stage" /\ next = 1
    /\ err = FALSE /\ committed = FALSE /\ changed = {} /\ refused = FALSE

Go(step, path) == at' = step /\ next' = path

-----------------------------------------------------------------------------
(* Publishing                                                               *)

\* Output is staged next to the project's files.  The paths of a file transaction are
\* distinct, and none is inside another.
StageFiles ==
    /\ at = "stage" /\ kind = "files"
    /\ Go("backup", 1)
    /\ UNCHANGED <<command, files, err, committed, changed, refused>>

\* The dao pipeline generates, formats and validates two directories.
StageDirectories ==
    /\ at = "stage" /\ kind = "directories"
    /\ Go("preflight", 1)
    /\ UNCHANGED <<command, files, err, committed, changed, refused>>

\* That stages and targets do not overlap is checked before anything is moved.
Preflight ==
    /\ at = "preflight"
    /\ Go("backup", 1)
    /\ UNCHANGED <<command, files, err, committed, changed, refused>>

\* Files: each path is backed up and installed in turn.
NextFile == IF next < N THEN Go("backup", next + 1) ELSE Go("close", N)

\* Directories: all are backed up, then all are installed.
AfterBackUp ==
    \/ kind = "files" /\ next \in deletes /\ NextFile
    \/ kind = "files" /\ next \notin deletes /\ Go("install", next)
    \/ kind = "directories" /\ next < N /\ Go("backup", next + 1)
    \/ kind = "directories" /\ next = N /\ Go("install", 1)

AfterInstall ==
    \/ kind = "files" /\ NextFile
    \/ kind = "directories" /\ next < N /\ Go("install", next + 1)
    \/ kind = "directories" /\ next = N /\ Go("snapshot", N)

MovedOld(p) == backup' = [backup EXCEPT ![p] = "old"]

\* What is at the path, if anything, is renamed into the backup.
BackUp ==
    /\ at = "backup"
    /\ \/ place[next] # "none" /\ MovedOld(next) /\ place' = [place EXCEPT ![next] = "none"]
       \/ place[next] = "none" /\ UNCHANGED <<backup, place>>
    /\ AfterBackUp
    /\ UNCHANGED <<command, installed, err, committed, changed, refused>>

Install ==
    /\ at = "install"
    /\ place' = [place EXCEPT ![next] = "new"]
    /\ installed' = installed \cup {next}
    /\ AfterInstall
    /\ UNCHANGED <<command, backup, err, committed, changed, refused>>

\* The dao pipeline lists what it has published.
Snapshot ==
    /\ at = "snapshot"
    /\ Go("require", N)
    /\ UNCHANGED <<command, files, err, committed, changed, refused>>

\* It adds the requirements of the generated code to go.mod and tidies.
Require ==
    /\ at = "require"
    /\ changed' \in {changed, ModuleFiles \cap {"go.mod"}}
    /\ Go("tidy", N)
    /\ UNCHANGED <<command, files, err, committed, refused>>

Tidy ==
    /\ at = "tidy"
    /\ changed' \in SUBSET ModuleFiles
    /\ Go("commit", N)
    /\ UNCHANGED <<command, files, err, committed, refused>>

\* The backup is removed; an error then is reported, but the publication stands.
Commit ==
    /\ at = "commit"
    /\ committed' = TRUE
    /\ \E kept \in SUBSET Path :
         /\ backup' = [p \in Path |-> IF p \in kept THEN backup[p] ELSE "none"]
         /\ err' \in IF \E p \in kept : backup[p] # "none" THEN {TRUE} ELSE BOOLEAN
    /\ Go("deferred", N)
    /\ UNCHANGED <<command, place, installed, changed, refused>>

-----------------------------------------------------------------------------
(* Failing                                                                  *)

\* What undoes the steps so far: staging is only thrown away, a failure inside the
\* transaction rolls it back, a later one goes through Run's deferred rollback.
AfterFailure ==
    \/ at \in {"stage", "preflight"} /\ Go(IF kind = "files" THEN "close" ELSE "returned", N)
    \/ at \in {"backup", "install", "snapshot"} /\ Go("remove", N)
    \/ at \in {"require", "tidy", "commit"} /\ Go("deferred", N)

\* A step fails before its effect.  Writing go.mod, and go mod tidy, may fail half
\* way.
Fail ==
    /\ at \in Working
    /\ err' = TRUE
    /\ changed' \in IF at \in {"require", "tidy"} THEN SUBSET ModuleFiles ELSE {changed}
    /\ AfterFailure
    /\ UNCHANGED <<command, files, committed, refused>>

\* Mutant: the publication is undone although it is final.
AlwaysReversible == TRUE
Reversible == ~committed

\* rollbackFailedStage.  Rollback does nothing to a committed transaction.
Deferred ==
    /\ at = "deferred"
    /\ IF err /\ Reversible
       THEN Go(IF committed THEN "modules" ELSE "remove", N)
       ELSE Go("returned", N)
    /\ UNCHANGED <<command, files, err, committed, changed, refused>>

\* The dao pipeline goes on with the module files.  Before its deferred rollback is
\* in place it does not, but then it has not changed them either.
Undone == Go(IF kind = "files" THEN "close" ELSE "modules", N)

\* Files: all that was installed is removed, then all backups are restored.
\* Directories: one after the other.
AfterRemove(skip) ==
    \/ kind = "files" /\ next > 1 /\ Go("remove", next - 1)
    \/ kind = "files" /\ next = 1 /\ Go("restore", N)
    \/ kind = "directories" /\ ~skip /\ Go("restore", next)
    \/ kind = "directories" /\ skip /\ next > 1 /\ Go("remove", next - 1)
    \/ kind = "directories" /\ skip /\ next = 1 /\ Undone

AfterRestore ==
    IF next = 1 THEN Undone
    ELSE Go(IF kind = "files" THEN "restore" ELSE "remove", next - 1)

\* What was installed is removed.  A directory whose removal fails is left as it is,
\* possibly in part, and not restored.
Remove ==
    /\ at = "remove"
    /\ \/ /\ next \in installed
          /\ place' = [place EXCEPT ![next] = "none"]
          /\ AfterRemove(FALSE) /\ UNCHANGED refused
       \/ /\ next \in installed
          /\ place' \in {place} \cup
               IF kind = "directories" THEN {[place EXCEPT ![next] = "part"]} ELSE {}
          /\ refused' = TRUE
          /\ AfterRemove(TRUE)
       \/ /\ next \notin installed
          /\ AfterRemove(FALSE) /\ UNCHANGED <<place, refused>>
    /\ UNCHANGED <<command, backup, installed, err, committed, changed>>

\* Mutant: only what was installed is restored.
RestorableInstalled(p) == backup[p] = "old" /\ p \in installed
Restorable(p) == backup[p] = "old"

Restore ==
    /\ at = "restore"
    /\ \/ /\ Restorable(next)
          /\ place' = [place EXCEPT ![next] = "old"]
          /\ backup' = [backup EXCEPT ![next] = "none"]
          /\ UNCHANGED refused
       \/ /\ Restorable(next)
          /\ refused' = TRUE
          /\ UNCHANGED <<place, backup>>
       \/ ~Restorable(next) /\ UNCHANGED <<place, backup, refused>>
    /\ AfterRestore
    /\ UNCHANGED <<command, installed, err, committed, changed>>

\* Mutant: the backup is removed whether or not it was restored.
RetainsNothing(p) == FALSE
Retained(p) == backup[p] = "old"

\* The rollback of directories keeps the backup of what it could not restore.  The
\* module files are written back, where that does not fail.
RestoreModules ==
    /\ at = "modules"
    /\ backup' = [p \in Path |-> IF Retained(p) THEN "old" ELSE "none"]
    /\ changed' \in SUBSET changed
    /\ refused' = (refused \/ changed' # {})
    /\ Go("returned", N)
    /\ UNCHANGED <<command, place, installed, err, committed>>

\* The file transaction removes its backup, after a success and after a rollback; an
\* error then is reported.
Close ==
    /\ at = "close"
    /\ committed' = ~err
    /\ \E kept \in SUBSET Path :
         /\ backup' = [p \in Path |-> IF p \in kept THEN backup[p] ELSE "none"]
         /\ err' \in IF \E p \in kept : backup[p] # "none" THEN {TRUE} ELSE {err, TRUE}
    /\ Go("returned", N)
    /\ UNCHANGED <<command, place, installed, changed, refused>>

Next ==
    \/ StageFiles \/ StageDirectories \/ Preflight \/ BackUp \/ Install \/ Snapshot \/ Require \/ Tidy \/ Commit
    \/ Fail \/ Deferred \/ Remove \/ Restore \/ RestoreModules \/ Close

Spec == Init /\ [][Next]_vars

-----------------------------------------------------------------------------
(* Properties                                                               *)

\* What a user finds who moves the backup back and deletes what is new.
Restored ==
    [p \in Path |-> IF backup[p] = "old" \/ place[p] = "old" THEN "old" ELSE "none"]

After == [p \in Path |-> IF p \in deletes THEN "none" ELSE "new"]

\* "Existing targets remain recoverable until Commit succeeds", also after a
\* rollback that failed (directories.go:29, 175-177): wherever the command stops, a
\* kill included, what was there before is in place or in the backup.  The file
\* transaction keeps this only while it is open: its Rollback removes the backup
\* of what it could not restore.
Recoverable ==
    \/ committed
    \/ kind = "files" /\ refused /\ at = "returned"
    \/ Restored = before

\* "A failed write is rolled back" (README.md:460), "DAO and Entity are replaced in
\* pairs" with go.mod and go.sum (gx/README.md:115, 233-235): a command that could
\* undo what it had to has published everything or changed nothing.
AllOrNothing ==
    at = "returned" /\ ~refused =>
        \/ committed /\ place = After
        \/ ~committed /\ err /\ place = before /\ changed = {}

\* "A cleanup-only failure must not restore the old go.mod/go.sum while leaving the
\* new directories published" (pipeline_runtime.go:64-67).
ModulesStay == [][committed => changed' = changed /\ place' = place]_vars

\* What the proofs need.  Where the command is says which transaction it runs and
\* what can have happened ...
Undoing == {"remove", "restore", "modules"}

StageInv ==
    /\ kind = "directories" => deletes = {} /\ at # "close"
    /\ kind = "files" =>
          /\ changed = {}
          /\ at \notin {"preflight", "snapshot", "require", "tidy", "commit", "deferred", "modules"}
    /\ at \in Working \cup Undoing \cup {"close"} => ~committed
    /\ at \in Working => ~err
    /\ at \in Undoing => err
    /\ at \in Working \cup {"deferred"} => ~refused
    /\ at \in {"deferred", "returned"} => committed \/ err
    /\ at \in {"stage", "preflight", "backup", "install", "snapshot", "require"} => changed = {}
    /\ at = "returned" /\ ~committed /\ ~refused => changed = {}

\* ... how far the publication has come ...
Untouched(p) == place[p] = before[p] /\ backup[p] = "none" /\ p \notin installed

PublishInv ==
    /\ at \in {"stage", "preflight"} => \A p \in Path : Untouched(p)
    /\ at = "backup" => \A p \in Path : p >= next => Untouched(p)
    /\ at = "backup" /\ kind = "files" => \A p \in Path : p < next => place[p] = After[p]
    /\ at = "backup" /\ kind = "directories" =>
          \A p \in Path : p < next => place[p] = "none" /\ p \notin installed
    /\ at = "install" =>
          /\ next \notin deletes
          /\ \A p \in Path : p < next => place[p] = After[p]
          /\ place[next] = "none" /\ next \notin installed
    /\ at = "install" /\ kind = "files" => \A p \in Path : p > next => Untouched(p)
    /\ at = "install" /\ kind = "directories" =>
          \A p \in Path : p > next => place[p] = "none" /\ p \notin installed
    /\ at \in {"snapshot", "require", "tidy", "commit"} => \A p \in Path : place[p] = After[p]
    /\ committed \/ (at = "close" /\ ~err) => \A p \in Path : place[p] = After[p]
    /\ at \in Working \cup {"deferred"} => \A p \in installed : place[p] = "new"

\* ... and how far the rollback has, if nothing refused it.
Removed(p) == place[p] \in {"old", "none"}

UndoInv ==
    /\ \A p \in Path \ installed : Removed(p)
    /\ at = "remove" => \A p \in installed : p <= next => place[p] = "new"
    /\ at = "restore" /\ kind = "directories" =>
          \A p \in installed : p < next => place[p] = "new"
    /\ ~refused =>
          /\ at = "remove" => \A p \in Path : p > next => Removed(p)
          /\ at = "remove" /\ kind = "directories" => \A p \in Path : p > next => backup[p] = "none"
          /\ at = "restore" =>
                /\ \A p \in Path : (kind = "files" \/ p >= next) => Removed(p)
                /\ \A p \in Path : p > next => backup[p] = "none"
          /\ at = "modules" \/ (at \in {"close", "returned"} /\ ~committed /\ err) =>
                \A p \in Path : Removed(p) /\ backup[p] = "none"

GenInv == TypeOK /\ StageInv /\ PublishInv /\ UndoInv /\ Recoverable

=============================================================================
