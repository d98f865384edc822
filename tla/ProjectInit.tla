------------------------------ MODULE ProjectInit ------------------------------
(***************************************************************************)
(* gx init (src/gx/internal/gen/module): download a demo archive into a     *)
(* staging directory, check it, write the names of the new project into it  *)
(* and rename it to the target, whose previous directory is kept in a       *)
(* backup until the new one is in place.  Every call into the file system   *)
(* may fail, the process may be killed between two of them, and the         *)
(* developer may write files into the target at any time.                   *)
(***************************************************************************)
EXTENDS Naturals

CONSTANTS File,       \* files a developer may have in a project directory
          MaxRuns,    \* bound on the number of commands
          MaxWrites   \* bound on the number of files written meanwhile

VARIABLES target,     \* the directory of the project
          staging,    \* .gx-init-*
          backup,     \* .gx-backup-* of the running command
          retained,   \* the backups that earlier commands have left
          options,    \* the options of the last command
          at,         \* the step of the running command, or "idle"
          result,     \* what the last command has returned
          before,     \* ghost: the target as the last command discovered it
          runs, writes,
          written     \* ghost: the files written to the target since then

initVars == <<target, staging, backup, retained, options, at, result, before, runs, writes, written>>

NoDemo == [module |-> "none", name |-> "none", complete |-> FALSE]

Directory(files, demo) == [exists |-> TRUE, files |-> files, demo |-> demo]

NoDirectory == [exists |-> FALSE, files |-> {}, demo |-> NoDemo]

Empty(d) == d.files = {} /\ d.demo = NoDemo

\* A module path may contain the name of the demo, which is then replaced in it.
ModulePath == {"plain", "named", "malformed"}

Name == {"plain", "malformed"}

Options == [module : ModulePath, name : Name, force : BOOLEAN, dry : BOOLEAN]

\* What the entries of an archive may be, and what the demo in it may lack.
Entry == {"demo", "outside", "traversal", "link", "twice", "large"}

Part == {"files", "skills", "routing", "module", "name", "config", "gitignore", "driver"}

ProjectInitInit ==
    /\ target \in {NoDirectory, Directory({}, NoDemo)} \cup {Directory({f}, NoDemo) : f \in File}
    /\ staging = NoDirectory /\ backup = NoDirectory /\ retained = {}
    /\ options = [module |-> "plain", name |-> "plain", force |-> FALSE, dry |-> FALSE]
    /\ at = "idle" /\ result = "none" /\ before = target
    /\ runs = 0 /\ writes = 0 /\ written = {}

-----------------------------------------------------------------------------
(* The stages before publication (pipeline.go)                               *)

Call ==
    /\ at = "idle" /\ runs < MaxRuns
    /\ runs' = runs + 1
    /\ options' \in Options
    /\ at' = "discover" /\ result' = "none"
    /\ before' = target /\ written' = {}
    /\ retained' = retained \cup {backup}
    /\ backup' = NoDirectory /\ staging' = NoDirectory
    /\ UNCHANGED <<target, writes>>

\* validateProjectName, CheckPath and validateInitTarget.
Admissible ==
    /\ options.module # "malformed" /\ options.name # "malformed"
    /\ target.exists /\ ~Empty(target) => options.force

Discover ==
    /\ at = "discover" /\ Admissible
    /\ before' = target /\ written' = {}
    /\ IF options.dry THEN at' = "idle" /\ result' = "planned"
       ELSE at' = "extract" /\ UNCHANGED result
    /\ UNCHANGED <<target, staging, backup, retained, options, runs, writes>>

MakeStaging ==
    /\ at = "extract" /\ ~staging.exists
    /\ staging' = Directory({}, NoDemo)
    /\ UNCHANGED <<target, backup, retained, options, at, result, before, runs, writes, written>>

\* extractDemo: every name is checked, but only entries of the demo are extracted.
Extracts(entries) ==
    "demo" \in entries /\ entries \cap {"traversal", "link", "twice", "large"} = {}

\* The archive lacks some part, or none.
Extract ==
    /\ at = "extract" /\ staging.exists
    /\ \E entries \in SUBSET Entry, missing \in {{}} \cup {{p} : p \in Part} :
         /\ Extracts(entries)
         /\ staging' = Directory({}, [module |-> "demo", name |-> "demo", complete |-> missing = {}])
    /\ at' = "rewrite"
    /\ UNCHANGED <<target, backup, retained, options, result, before, runs, writes, written>>

\* replaceDemoIdentifiers: the module path first, then the name, everywhere.
Renamed(module) == IF module = "named" THEN "renamed" ELSE module

\* validateDemo, then replaceDemoIdentifiers.
Rewrite ==
    /\ at = "rewrite" /\ staging.demo.complete
    /\ staging' = [staging EXCEPT !.demo.module = Renamed(options.module),
                                  !.demo.name = options.name]
    /\ at' = "validate"
    /\ UNCHANGED <<target, backup, retained, options, result, before, runs, writes, written>>

Wanted == [module |-> options.module, name |-> options.name, complete |-> TRUE]

\* Mutant: only the name of the project is looked for.
NamedAsWanted == staging.demo.name = options.name

\* validateInitializedDemo.
Initialized ==
    staging.demo.module = options.module /\ staging.demo.name = options.name

Validate ==
    /\ at = "validate" /\ Initialized
    /\ at' = "commit"
    /\ UNCHANGED <<target, staging, backup, retained, options, result, before, runs, writes, written>>

-----------------------------------------------------------------------------
(* Publication (commitInitTargetWithRemove)                                  *)

StatTarget ==
    /\ at = "commit"
    /\ at' = IF target.exists THEN "backup" ELSE "install"
    /\ UNCHANGED <<target, staging, backup, retained, options, result, before, runs, writes, written>>

\* Mutant: the directory is deleted to make room.
Deleted(d) == NoDirectory

\* What a rename leaves at the backup's place.
Moved(d) == d

BackUp ==
    /\ at = "backup" /\ target.exists
    /\ backup' = Moved(target) /\ target' = NoDirectory
    /\ at' = "install"
    /\ UNCHANGED <<staging, retained, options, result, before, runs, writes, written>>

\* A directory is renamed only to a place where there is none, or an empty one.
Install ==
    /\ at = "install" /\ Empty(target)
    /\ target' = staging /\ staging' = NoDirectory
    /\ IF backup.exists THEN at' = "clean" /\ UNCHANGED result
       ELSE at' = "idle" /\ result' = "ok"
    /\ UNCHANGED <<backup, retained, options, before, runs, writes, written>>

InstallFails ==
    /\ at = "install" /\ backup.exists
    /\ at' = "restore"
    /\ UNCHANGED <<target, staging, backup, retained, options, result, before, runs, writes, written>>

Restore ==
    /\ at = "restore" /\ Empty(target)
    /\ target' = backup /\ backup' = NoDirectory
    /\ at' = "failed"
    /\ UNCHANGED <<staging, retained, options, result, before, runs, writes, written>>

RestoreFails ==
    /\ at = "restore"
    /\ at' = "failed"
    /\ UNCHANGED <<target, staging, backup, retained, options, result, before, runs, writes, written>>

\* Removing the backup, which may leave part of it behind.
Clean ==
    /\ at = "clean"
    /\ \/ backup' = NoDirectory /\ result' = "ok"
       \/ /\ \E files \in SUBSET backup.files : backup' = [backup EXCEPT !.files = files]
          /\ result' = "error"
    /\ at' = "idle"
    /\ UNCHANGED <<target, staging, retained, options, before, runs, writes, written>>

\* A refusal or a failed call of the stages before the first rename, or of the
\* renames that need no undo.
Fail ==
    /\ \/ at \in {"discover", "extract", "rewrite", "validate", "commit", "backup"}
       \/ at = "install" /\ ~backup.exists
    /\ at' = "failed"
    /\ UNCHANGED <<target, staging, backup, retained, options, result, before, runs, writes, written>>

\* The deferred removal of the staging directory.
Return ==
    /\ at = "failed"
    /\ staging' = NoDirectory
    /\ at' = "idle" /\ result' = "error"
    /\ UNCHANGED <<target, backup, retained, options, before, runs, writes, written>>

Kill ==
    /\ at # "idle"
    /\ at' = "idle" /\ result' = "killed"
    /\ UNCHANGED <<target, staging, backup, retained, options, before, runs, writes, written>>

\* The developer writes a file, and makes the directory if there is none.
Write ==
    /\ writes < MaxWrites
    /\ writes' = writes + 1
    /\ \E f \in File : /\ target' = Directory(target.files \cup {f}, target.demo)
                        /\ written' = written \cup {f}
    /\ UNCHANGED <<staging, backup, retained, options, at, result, before, runs>>

ProjectInitNext ==
    \/ Call \/ Discover \/ MakeStaging \/ Extract \/ Rewrite \/ Validate
    \/ StatTarget \/ BackUp \/ Install \/ InstallFails \/ Restore \/ RestoreFails
    \/ Clean \/ Fail \/ Return \/ Kill \/ Write

-----------------------------------------------------------------------------
(* Properties                                                               *)

Backups == retained \cup {backup}

\* The backups a reader may have to look into (the error of the command names the
\* last): wherever gx init stops, the project it found is in the target or in one of
\* them as a whole, or it was to be replaced (--force) and the new one is in place.
ProjectKept ==
    \/ before.files \subseteq target.files /\ before.demo = target.demo
    \/ \E b \in Backups : before.files \subseteq b.files /\ before.demo = b.demo
    \/ options.force /\ target.demo = Wanted
    \/ Empty(before)

\* The project that was found, with what was written to it since.
Holds(d) == before.files \subseteq d.files /\ before.demo = d.demo

Kept(d) == Holds(d) /\ d.files \subseteq before.files \cup written

\* "No failed check changes an existing target" (gx/README.md:112-113), and a target
\* is replaced as a whole: it is what was found, or else no file of that is left in it
\* but only those written since, with no project (the old one is in a backup then) or
\* one that passed the checks and has the wanted names.  After a success it is that one.
ReplacedAsWhole ==
    /\ Kept(target) \/ (target.demo \in {NoDemo, Wanted} /\ target.files \subseteq written)
    /\ target.demo = NoDemo /\ before.demo # NoDemo => \E b \in Backups : b.demo = before.demo
    /\ result = "ok" => target.demo = Wanted /\ target.files \subseteq written

-----------------------------------------------------------------------------
(* The inductive invariant behind them                                      *)

Demo == [module : ModulePath \cup {"none", "demo", "renamed"},
         name : Name \cup {"none", "demo"}, complete : BOOLEAN]

Directories == [exists : BOOLEAN, files : SUBSET File, demo : Demo]

\* The stages at which the target is still what the command discovered.
Unpublished == {"discover", "extract", "rewrite", "validate", "commit", "backup"}

InitTypeOK ==
    /\ target \in Directories /\ staging \in Directories /\ backup \in Directories
    /\ before \in Directories /\ retained \subseteq Directories
    /\ options \in Options
    /\ at \in Unpublished \cup {"idle", "install", "restore", "clean", "failed"}
    /\ result \in {"none", "planned", "ok", "error", "killed"}
    /\ written \subseteq File

\* Where the project that was found is at each stage, and that only --force or an
\* empty directory brings a command to the renames.
WhereInv ==
    /\ target.exists \/ Empty(target)
    /\ at \in Unpublished => Kept(target) /\ backup = NoDirectory
    /\ at \in {"install", "clean"} => Kept(backup) \/ Empty(before)
    /\ at = "restore" => Kept(backup) /\ backup.exists
    /\ at \in {"install", "clean"} /\ backup.exists => Kept(backup)
    /\ at \notin {"idle", "discover", "failed"} => options.force \/ Empty(before)

\* What is staged, and what is installed, passed the checks.
StagedInv ==
    /\ at \in {"rewrite", "validate", "commit", "backup", "install"} => staging.exists
    /\ at = "validate" => staging.demo.complete
    /\ at \in {"commit", "backup", "install"} => staging.demo = Wanted
    /\ at = "clean" => target.demo = Wanted /\ target.files \subseteq written
    /\ staging.files = {}
    /\ at # "idle" => result = "none"

ProjectInv ==
    InitTypeOK /\ WhereInv /\ StagedInv /\ ProjectKept /\ ReplacedAsWhole

=============================================================================
