-------------------------------- MODULE GxProofs --------------------------------
(***************************************************************************)
(* What the gx commands guarantee, for any project.  The transactions: for  *)
(* any number of paths, any set of module files and any sequence of         *)
(* failures, from GenInv (Recoverable alone is not inductive, a backup      *)
(* could overwrite what an earlier step left at the path).  init: from      *)
(* ProjectInv.  The layout of dao's models, and what ctrl and service leave *)
(* in a developer's files and in their own, follows from one step of each.  *)
(***************************************************************************)
EXTENDS Gx, FiniteSetTheorems, TLAPS

\* An index of the loops is a path.
LEMMA Indices ==
    /\ N \in Nat /\ N >= 1
    /\ 1 \in Path /\ N \in Path
    /\ \A i \in Path : i \in Nat /\ i >= 1 /\ i <= N
    /\ \A i \in Path : i < N => i + 1 \in Path
    /\ \A i \in Path : i > 1 => i - 1 \in Path
BY PathAssumption DEF Path

-----------------------------------------------------------------------------
(* Types                                                                    *)

LEMMA TypeInit == Init => TypeOK
<1> SUFFICES ASSUME Init PROVE TypeOK
  OBVIOUS
<1>1. place \in [Path -> Content] /\ backup \in [Path -> {"old", "none"}]
  BY DEF Init, Content
<1>2. deletes \subseteq Path
  BY PathAssumption DEF Init, Path
<1> QED
  BY <1>1, <1>2, Indices DEF Init, TypeOK, Step, Working

\* Assignments to what is at a path and in the backup keep the types.
LEMMA TypeOfFiles ==
    ASSUME TypeOK, NEW p \in Path
    PROVE  /\ \A c \in Content : [place EXCEPT ![p] = c] \in [Path -> Content]
           /\ \A c \in {"old", "none"} : [backup EXCEPT ![p] = c] \in [Path -> {"old", "none"}]
BY DEF TypeOK

\* Where the command goes next is a step and a path.
LEMMA TypeOfGo ==
    ASSUME TypeOK, NEW s \in Step, NEW i \in Path, Go(s, i)
    PROVE  at' \in Step /\ next' \in Path
BY DEF Go

LEMMA TypeOfNext ==
    ASSUME TypeOK
    PROVE  /\ NextFile => at' \in Step /\ next' \in Path
           /\ AfterBackUp => at' \in Step /\ next' \in Path
           /\ AfterInstall => at' \in Step /\ next' \in Path
           /\ AfterFailure => at' \in Step /\ next' \in Path
           /\ Undone => at' \in Step /\ next' \in Path
           /\ \A b \in BOOLEAN : AfterRemove(b) => at' \in Step /\ next' \in Path
           /\ AfterRestore => at' \in Step /\ next' \in Path
<1> USE Indices DEF Go, Step, Working
<1>0. next \in Path
  BY DEF TypeOK
<1>1. NextFile => at' \in Step /\ next' \in Path
  BY <1>0 DEF NextFile
<1>2. Undone => at' \in Step /\ next' \in Path
  BY <1>0 DEF Undone
<1>3. AfterBackUp => at' \in Step /\ next' \in Path
  BY <1>0, <1>1 DEF AfterBackUp
<1>4. AfterInstall => at' \in Step /\ next' \in Path
  BY <1>0, <1>1 DEF AfterInstall
<1>5. AfterFailure => at' \in Step /\ next' \in Path
  BY <1>0 DEF AfterFailure
<1>6. ASSUME NEW b \in BOOLEAN PROVE AfterRemove(b) => at' \in Step /\ next' \in Path
  BY <1>0, <1>2 DEF AfterRemove
<1>7. AfterRestore => at' \in Step /\ next' \in Path
  <2> SUFFICES ASSUME AfterRestore PROVE at' \in Step /\ next' \in Path
    OBVIOUS
  <2>1. CASE next = 1
    BY <2>1, <1>2 DEF AfterRestore
  <2>2. CASE next # 1
    <3>1. next > 1 /\ next - 1 \in Path
      BY <1>0, <2>2
    <3> QED
      BY <3>1, <2>2 DEF AfterRestore
  <2> QED
    BY <2>1, <2>2
<1> QED
  BY <1>1, <1>2, <1>3, <1>4, <1>5, <1>6, <1>7

LEMMA TypeStep == TypeOK /\ [Next]_vars => TypeOK'
<1> SUFFICES ASSUME TypeOK, [Next]_vars PROVE TypeOK'
  OBVIOUS
<1>0. next \in Path /\ {"old", "new", "part", "none"} = Content
  BY DEF TypeOK, Content
<1> USE DEF TypeOK, command, files
<1>1. CASE StageFiles \/ StageDirectories \/ Preflight
  BY <1>1, Indices DEF StageFiles, StageDirectories, Preflight, Go, Step, Working
<1>2. CASE BackUp
  <2>1. at' \in Step /\ next' \in Path
    BY <1>2, TypeOfNext DEF BackUp
  <2>2. place' \in [Path -> Content] /\ backup' \in [Path -> {"old", "none"}]
    BY <1>2, <1>0, TypeOfFiles DEF BackUp, MovedOld
  <2> QED
    BY <1>2, <2>1, <2>2 DEF BackUp
<1>3. CASE Install
  <2>1. at' \in Step /\ next' \in Path
    BY <1>3, TypeOfNext DEF Install
  <2>2. place' \in [Path -> Content] /\ installed' \subseteq Path
    BY <1>3, <1>0, TypeOfFiles DEF Install
  <2> QED
    BY <1>3, <2>1, <2>2 DEF Install
<1>4. CASE Snapshot
  BY <1>4, Indices DEF Snapshot, Go, Step, Working
<1>5. CASE Require
  BY <1>5, Indices DEF Require, Go, Step, Working
<1>6. CASE Tidy
  BY <1>6, Indices DEF Tidy, Go, Step, Working
<1>7. CASE Commit
  BY <1>7, Indices DEF Commit, Go, Step
<1>8. CASE Fail
  <2>1. at' \in Step /\ next' \in Path
    BY <1>8, TypeOfNext DEF Fail
  <2>2. changed' \subseteq ModuleFiles
    BY <1>8 DEF Fail
  <2> QED
    BY <1>8, <2>1, <2>2 DEF Fail
<1>9. CASE Deferred
  BY <1>9, Indices DEF Deferred, Go, Step
<1>10. CASE Remove
  <2>1. at' \in Step /\ next' \in Path
    BY <1>10, TypeOfNext DEF Remove
  <2>2. refused' \in BOOLEAN
    BY <1>10 DEF Remove
  <2>3. \/ place' = place \/ place' = [place EXCEPT ![next] = "none"]
        \/ place' = [place EXCEPT ![next] = "part"]
    BY <1>10 DEF Remove
  <2>4. place' \in [Path -> Content]
    BY <2>3, <1>0, TypeOfFiles
  <2> QED
    BY <1>10, <2>1, <2>2, <2>4 DEF Remove
<1>11. CASE Restore
  <2>1. at' \in Step /\ next' \in Path
    BY <1>11, TypeOfNext DEF Restore
  <2>2. place' \in [Path -> Content] /\ backup' \in [Path -> {"old", "none"}] /\ refused' \in BOOLEAN
    BY <1>11, <1>0, TypeOfFiles DEF Restore
  <2> QED
    BY <1>11, <2>1, <2>2 DEF Restore
<1>12. CASE RestoreModules
  BY <1>12, Indices DEF RestoreModules, Go, Step
<1>13. CASE Close
  <2>1. backup' \in [Path -> {"old", "none"}]
    BY <1>13 DEF Close
  <2>2. err' \in BOOLEAN
    BY <1>13 DEF Close
  <2> QED
    BY <1>13, <2>1, <2>2, Indices DEF Close, Go, Step
<1>14. CASE UNCHANGED vars
  BY <1>14 DEF vars, cursor
<1> QED
  BY <1>1, <1>2, <1>3, <1>4, <1>5, <1>6, <1>7, <1>8, <1>9, <1>10, <1>11, <1>12, <1>13, <1>14
  DEF Next

-----------------------------------------------------------------------------
(* Which step the command is at                                             *)

LEMMA StageStep == TypeOK /\ StageInv /\ [Next]_vars => StageInv'
<1> SUFFICES ASSUME TypeOK, StageInv, [Next]_vars PROVE StageInv'
  OBVIOUS
<1> USE DEF TypeOK, StageInv, command, Working, Undoing, Go
<1>1. CASE StageFiles \/ StageDirectories \/ Preflight
  BY <1>1 DEF StageFiles, StageDirectories, Preflight
<1>2. CASE BackUp
  BY <1>2 DEF BackUp, AfterBackUp, NextFile
<1>3. CASE Install
  BY <1>3 DEF Install, AfterInstall, NextFile
<1>4. CASE Snapshot
  BY <1>4 DEF Snapshot
<1>5. CASE Require
  BY <1>5 DEF Require
<1>6. CASE Tidy
  BY <1>6 DEF Tidy
<1>7. CASE Commit
  BY <1>7 DEF Commit
<1>8. CASE Fail
  BY <1>8 DEF Fail, AfterFailure
<1>9. CASE Deferred
  BY <1>9 DEF Deferred, Reversible
<1>10. CASE Remove
  BY <1>10 DEF Remove, AfterRemove, Undone
<1>11. CASE Restore
  BY <1>11 DEF Restore, AfterRestore, Undone
<1>12. CASE RestoreModules
  BY <1>12 DEF RestoreModules
<1>13. CASE Close
  BY <1>13 DEF Close
<1>14. CASE UNCHANGED vars
  BY <1>14 DEF vars, cursor
<1> QED
  BY <1>1, <1>2, <1>3, <1>4, <1>5, <1>6, <1>7, <1>8, <1>9, <1>10, <1>11, <1>12, <1>13, <1>14
  DEF Next

-----------------------------------------------------------------------------
(* How far the publication has come                                         *)

LEMMA PublishStep ==
    TypeOK /\ StageInv /\ PublishInv /\ [Next]_vars => PublishInv'
<1> SUFFICES ASSUME TypeOK, StageInv, PublishInv, [Next]_vars PROVE PublishInv'
  OBVIOUS
<1> USE Indices DEF TypeOK, PublishInv, StageInv, Untouched, After, command, files, Working, Go
<1>1. CASE StageFiles \/ StageDirectories \/ Preflight
  <2>1. at \in {"stage", "preflight"} /\ UNCHANGED <<command, files, err, committed>>
    BY <1>1 DEF StageFiles, StageDirectories, Preflight
  <2>2. at' = "preflight" \/ (at' = "backup" /\ next' = 1)
    BY <1>1 DEF StageFiles, StageDirectories, Preflight
  <2>3. \A p \in Path : Untouched(p)
    BY <2>1
  <2>4. \A p \in installed : place[p] = "new"
    BY <2>1
  <2> QED
    BY <2>1, <2>2, <2>3, <2>4
<1>2. CASE BackUp
  BY <1>2 DEF BackUp, AfterBackUp, NextFile, MovedOld
<1>3. CASE Install
  BY <1>3 DEF Install, AfterInstall, NextFile
<1>4. CASE Snapshot
  BY <1>4 DEF Snapshot
<1>5. CASE Require
  BY <1>5 DEF Require
<1>6. CASE Tidy
  BY <1>6 DEF Tidy
<1>7. CASE Commit
  BY <1>7 DEF Commit
<1>8. CASE Fail
  BY <1>8 DEF Fail, AfterFailure
<1>9. CASE Deferred
  BY <1>9 DEF Deferred, Reversible
<1>10. CASE Remove
  BY <1>10 DEF Remove, AfterRemove, Undone, Undoing
<1>11. CASE Restore
  BY <1>11 DEF Restore, AfterRestore, Undone, Undoing
<1>12. CASE RestoreModules
  BY <1>12 DEF RestoreModules, Undoing
<1>13. CASE Close
  BY <1>13 DEF Close
<1>14. CASE UNCHANGED vars
  BY <1>14 DEF vars, cursor
<1> QED
  BY <1>1, <1>2, <1>3, <1>4, <1>5, <1>6, <1>7, <1>8, <1>9, <1>10, <1>11, <1>12, <1>13, <1>14
  DEF Next

-----------------------------------------------------------------------------
(* How far the rollback has come                                            *)

LEMMA UndoStep ==
    TypeOK /\ StageInv /\ PublishInv /\ UndoInv /\ [Next]_vars => UndoInv'
<1> SUFFICES ASSUME TypeOK, StageInv, PublishInv, UndoInv, [Next]_vars PROVE UndoInv'
  OBVIOUS
<1> USE Indices DEF TypeOK, StageInv, UndoInv, Removed, command, files, Working, Undoing, Go
<1>1. CASE StageFiles \/ StageDirectories \/ Preflight
  BY <1>1 DEF StageFiles, StageDirectories, Preflight
<1>2. CASE BackUp
  BY <1>2 DEF BackUp, AfterBackUp, NextFile, MovedOld
<1>3. CASE Install
  BY <1>3 DEF Install, AfterInstall, NextFile
<1>4. CASE Snapshot
  BY <1>4 DEF Snapshot
<1>5. CASE Require
  BY <1>5 DEF Require
<1>6. CASE Tidy
  BY <1>6 DEF Tidy
<1>7. CASE Commit
  BY <1>7 DEF Commit
<1>8. CASE Fail
  BY <1>8 DEF Fail, AfterFailure, PublishInv, Untouched
<1>9. CASE Deferred
  BY <1>9 DEF Deferred, Reversible, PublishInv
<1>10. CASE Remove
  BY <1>10 DEF Remove, AfterRemove, Undone
<1>11. CASE Restore
  <2>1. at = "restore" /\ UNCHANGED <<kind, installed, committed, err>> /\ err
    BY <1>11 DEF Restore
  <2>2. \A p \in Path : p # next => place'[p] = place[p] /\ backup'[p] = backup[p]
    BY <1>11 DEF Restore
  <2>3. place'[next] \in {place[next], "old"}
    BY <1>11 DEF Restore
  <2>4. ~refused' => ~refused /\ backup'[next] = "none"
    BY <1>11 DEF Restore, Restorable
  <2>5. \A p \in Path : Removed(p) => Removed(p)'
    BY <2>2, <2>3
  <2>6. ~refused' => /\ \A p \in Path : kind = "files" \/ p >= next => Removed(p)'
                     /\ \A p \in Path : p >= next => backup'[p] = "none"
    BY <2>1, <2>2, <2>4, <2>5
  <2>7. CASE next = 1
    <3>1. at' \in {"close", "modules"} /\ at' # "remove" /\ at' # "restore"
      BY <1>11, <2>7 DEF Restore, AfterRestore, Undone
    <3>2. ~refused' => \A p \in Path : Removed(p)' /\ backup'[p] = "none"
      BY <2>6, <2>7
    <3> QED
      BY <2>1, <2>5, <3>1, <3>2
  <2>8. CASE next # 1
    <3>1. next > 1 /\ next' = next - 1
      BY <1>11, <2>8 DEF Restore, AfterRestore
    <3>2. CASE kind = "files"
      <4>1. at' = "restore"
        BY <1>11, <2>8, <3>2 DEF Restore, AfterRestore
      <4> QED
        BY <2>1, <2>5, <2>6, <3>1, <3>2, <4>1
    <3>3. CASE kind = "directories"
      <4>1. at' = "remove"
        BY <1>11, <2>8, <3>3 DEF Restore, AfterRestore
      <4>2. \A p \in installed' : p <= next' => place'[p] = "new"
        BY <2>1, <2>2, <3>1, <3>3
      <4> QED
        BY <2>1, <2>5, <2>6, <3>1, <3>3, <4>1, <4>2
    <3> QED
      BY <3>2, <3>3
  <2> QED
    BY <2>7, <2>8
<1>12. CASE RestoreModules
  BY <1>12 DEF RestoreModules, Retained
<1>13. CASE Close
  <2>1. at = "close" /\ at' = "returned" /\ committed' = ~err
        /\ UNCHANGED <<place, installed, refused>>
    BY <1>13 DEF Close
  <2>2. \A p \in Path : backup[p] = "none" => backup'[p] = "none"
    BY <1>13 DEF Close
  <2> QED
    BY <2>1, <2>2
<1>14. CASE UNCHANGED vars
  BY <1>14 DEF vars, cursor
<1> QED
  BY <1>1, <1>2, <1>3, <1>4, <1>5, <1>6, <1>7, <1>8, <1>9, <1>10, <1>11, <1>12, <1>13, <1>14
  DEF Next

-----------------------------------------------------------------------------
(* What was there before is not lost                                        *)

Kept(p) == before[p] = "old" <=> backup[p] = "old" \/ place[p] = "old"

\* Recoverable, path by path.
LEMMA RecoverablePaths ==
    ASSUME TypeOK
    PROVE  Restored = before <=> \A p \in Path : Kept(p)
BY DEF TypeOK, Restored, Kept

LEMMA RecoverableStep == GenInv /\ [Next]_vars => Recoverable'
<1> SUFFICES ASSUME GenInv, [Next]_vars, ~Recoverable' PROVE FALSE
  OBVIOUS
<1>1. TypeOK /\ TypeOK'
  BY TypeStep DEF GenInv
<1>2. ~committed' /\ ~(kind' = "files" /\ refused' /\ at' = "returned")
  BY DEF Recoverable
<1>3. ~(\A p \in Path : Kept(p)')
  <2>1. Restored' = before' <=> \A p \in Path : Kept(p)'
    BY <1>1 DEF TypeOK, Restored, Kept
  <2> QED
    BY <2>1 DEF Recoverable
<1>4. ~committed /\ ~(kind = "files" /\ refused /\ at = "returned")
  <2> USE <1>1, <1>2 DEF TypeOK, GenInv, StageInv, command, files, Working, Undoing
  <2> QED
    BY DEF Next, StageFiles, StageDirectories, Preflight, BackUp, Install, Snapshot, Require, Tidy, Commit, Fail, Deferred, Remove,
       Restore, RestoreModules, Close, vars, cursor
<1>5. \A p \in Path : Kept(p)
  BY <1>1, <1>4, RecoverablePaths DEF GenInv, Recoverable
<1>a. BackUp => at = "backup" /\ next \in Path /\ Untouched(next) /\ UNCHANGED before
  <2> SUFFICES ASSUME BackUp
               PROVE  at = "backup" /\ next \in Path /\ Untouched(next) /\ UNCHANGED before
    OBVIOUS
  <2>1. at = "backup" /\ next \in Path /\ UNCHANGED before
    BY <1>1 DEF BackUp, TypeOK, command
  <2>2. \A p \in Path : p >= next => Untouched(p)
    BY <2>1 DEF GenInv, PublishInv
  <2>3. next >= next
    BY <2>1, Indices
  <2> QED
    BY <2>1, <2>2, <2>3
<1> USE <1>1, <1>2, <1>3, <1>4, <1>5, Indices DEF TypeOK, Kept, command, files, GenInv
<1>6. CASE BackUp
  <2>1. at = "backup" /\ next \in Path /\ Untouched(next) /\ UNCHANGED before
    BY <1>6, <1>a
  <2>2. \A p \in Path : p # next => Kept(p)'
    BY <1>6 DEF BackUp, MovedOld
  <2>3. \A p \in Path : p = next => Kept(p)'
    BY <1>6, <2>1 DEF BackUp, MovedOld, Untouched
  <2>4. \A p \in Path : Kept(p)'
    BY <2>2, <2>3
  <2> QED
    BY <2>4
<1>7. CASE Install
  BY <1>7 DEF Install, PublishInv
<1>8. CASE Commit
  BY <1>8 DEF Commit
<1>9. CASE Remove
  <2>1. at = "remove" /\ next \in Path /\ UNCHANGED <<before, backup>>
    BY <1>9 DEF Remove
  <2>2. \A p \in Path : p # next => place'[p] = place[p]
    BY <1>9 DEF Remove
  <2>3. place'[next] = place[next] \/ (next \in installed /\ place'[next] \in {"none", "part"})
    BY <1>9 DEF Remove
  <2>4. next \in installed => place[next] = "new"
    <3>1. next <= next
      BY <2>1
    <3>2. \A p \in installed : p <= next => place[p] = "new"
      BY <2>1 DEF UndoInv
    <3> QED
      BY <3>1, <3>2
  <2>5. place'[next] = "old" <=> place[next] = "old"
    BY <2>3, <2>4
  <2>6. \A p \in Path : place'[p] = "old" <=> place[p] = "old"
    BY <2>2, <2>5
  <2>7. \A p \in Path : Kept(p)'
    BY <2>1, <2>6
  <2> QED
    BY <2>7
<1>10. CASE Restore
  BY <1>10 DEF Restore, Restorable
<1>11. CASE RestoreModules
  BY <1>11 DEF RestoreModules, Retained
<1>12. CASE Close
  <2>1. at = "close" /\ at' = "returned" /\ err /\ UNCHANGED <<kind, refused, before, place>>
    BY <1>12 DEF Close, Go
  <2>2. kind = "files" /\ ~refused
    BY <2>1 DEF StageInv
  <2>3. \A p \in Path : backup[p] = "none"
    BY <2>1, <2>2 DEF UndoInv
  <2>4. \A p \in Path : backup'[p] = "none"
    BY <1>12, <2>3 DEF Close
  <2>5. \A p \in Path : Kept(p)'
    BY <2>1, <2>3, <2>4
  <2> QED
    BY <2>5
<1>13. CASE UNCHANGED <<before, place, backup>>
  BY <1>13
<1> QED
  BY <1>6, <1>7, <1>8, <1>9, <1>10, <1>11, <1>12, <1>13
  DEF Next, StageFiles, StageDirectories, Preflight, Snapshot, Require, Tidy, Fail, Deferred, vars

-----------------------------------------------------------------------------
(* Theorems                                                                 *)

LEMMA GenInit == Init => GenInv
<1> SUFFICES ASSUME Init PROVE GenInv
  OBVIOUS
<1>1. TypeOK
  BY TypeInit
<1>2. StageInv
  BY PathAssumption DEF Init, StageInv, Working, Undoing
<1>3. \A p \in Path : Untouched(p) /\ Removed(p) /\ Kept(p)
  BY DEF Init, Untouched, Removed, Kept
<1>4. PublishInv
  BY <1>3 DEF Init, PublishInv, Working
<1>5. UndoInv
  BY <1>3 DEF Init, UndoInv
<1>6. Recoverable
  BY <1>1, <1>3, RecoverablePaths DEF Recoverable
<1> QED
  BY <1>1, <1>2, <1>4, <1>5, <1>6 DEF GenInv

\* The invariant of a publication and its rollback.
THEOREM GenInvariant == Spec => []GenInv
<1>1. GenInv /\ [Next]_vars => GenInv'
  BY TypeStep, StageStep, PublishStep, UndoStep, RecoverableStep DEF GenInv
<1> QED
  BY GenInit, <1>1, PTL DEF Spec

\* Wherever a command stops, what was there before is in place or in the backup;
\* the exception is a file transaction that was refused an undo and is closed.
THEOREM NothingLost == Spec => []Recoverable
<1>1. GenInv => Recoverable
  BY DEF GenInv
<1> QED
  BY <1>1, GenInvariant, PTL

\* A command that was not refused an undo has published all or nothing.
THEOREM Atomic == Spec => []AllOrNothing
<1>1. GenInv => AllOrNothing
  <2> SUFFICES ASSUME GenInv, at = "returned", ~refused
               PROVE  \/ committed /\ place = After
                      \/ ~committed /\ err /\ place = before /\ changed = {}
    BY DEF AllOrNothing
  <2> USE DEF GenInv
  <2>1. CASE committed
    <3>1. \A p \in Path : place[p] = After[p]
      BY <2>1 DEF PublishInv
    <3>2. place = After
      BY <3>1 DEF TypeOK, After
    <3> QED
      BY <2>1, <3>2
  <2>2. CASE ~committed
    <3>1. err /\ changed = {}
      BY <2>2 DEF StageInv
    <3>2. \A p \in Path : Removed(p) /\ backup[p] = "none"
      BY <2>2, <3>1 DEF UndoInv
    <3>3. \A p \in Path : Kept(p)
      BY <2>2, RecoverablePaths DEF Recoverable
    <3>4. \A p \in Path : place[p] = before[p]
      BY <3>2, <3>3 DEF Removed, Kept, TypeOK
    <3>5. place = before
      BY <3>4 DEF TypeOK
    <3> QED
      BY <2>2, <3>1, <3>5
  <2> QED
    BY <2>1, <2>2
<1> QED
  BY <1>1, GenInvariant, PTL

\* Once a publication is final its module files are not rolled back.
THEOREM FinalStays == Spec => ModulesStay
<1> DEFINE Step1 == committed => changed' = changed /\ place' = place
<1>1. GenInv /\ [Next]_vars => [Step1]_vars
  <2> SUFFICES ASSUME GenInv, Next, committed
               PROVE  changed' = changed /\ place' = place
    OBVIOUS
  <2>1. at \notin Working \cup Undoing \cup {"close"}
    BY DEF GenInv, StageInv
  <2> QED
    BY <2>1 DEF Next, StageFiles, StageDirectories, Preflight, BackUp, Install, Snapshot, Require, Tidy, Commit, Fail, Deferred,
       Remove, Restore, RestoreModules, Close, Working, Undoing, files
<1> QED
  BY <1>1, GenInvariant, PTL DEF Spec, ModulesStay


-----------------------------------------------------------------------------
(* gx init                                                                  *)

\* What a directory made by a step looks like.
LEMMA DirectoriesMade ==
    /\ Project!NoDirectory \in Project!Directories
    /\ Project!NoDirectory.files = {} /\ Project!NoDirectory.demo = Project!NoDemo
    /\ Project!NoDirectory.exists = FALSE
    /\ \A fs \in SUBSET File, d \in Project!Demo :
         /\ Project!Directory(fs, d) \in Project!Directories
         /\ Project!Directory(fs, d).exists /\ Project!Directory(fs, d).demo = d
         /\ Project!Directory(fs, d).files = fs
    /\ Project!NoDemo \in Project!Demo
BY DEF Project!NoDirectory, Project!Directories, Project!Directory, Project!NoDemo,
       Project!Demo, Project!Name, Project!ModulePath

\* The demo that a command asks for is one, and is complete.
LEMMA WantedDemo ==
    ASSUME options \in Project!Options
    PROVE  /\ Project!Wanted \in Project!Demo /\ Project!Wanted # Project!NoDemo
           /\ \A d \in Project!Demo : d.complete /\ d.module = options.module
                                      /\ d.name = options.name => d = Project!Wanted
BY DEF Project!Options, Project!Wanted, Project!Demo, Project!NoDemo, Project!ModulePath,
       Project!Name

LEMMA ProjectInitially ==
    ASSUME Project!ProjectInitInit \/ NoProject
    PROVE  Project!ProjectInv
<1> USE DEF Project!ProjectInitInit, NoProject
<1>0. /\ initAt = "idle" /\ result = "none" /\ retained = {} /\ found = target /\ written = {}
      /\ staging = Project!NoDirectory /\ initBackup = Project!NoDirectory
      /\ options = [module |-> "plain", name |-> "plain", force |-> FALSE, dry |-> FALSE]
  OBVIOUS
<1>1. target \in Project!Directories /\ (target.exists \/ Project!Empty(target))
  <2>1. target = Project!NoDirectory
        \/ \E fs \in SUBSET File : target = Project!Directory(fs, Project!NoDemo)
    OBVIOUS
  <2> QED
    BY <2>1, DirectoriesMade DEF Project!Empty
<1>2. options \in Project!Options
  BY <1>0 DEF Project!Options, Project!ModulePath, Project!Name
<1> USE DirectoriesMade
<1>3. Project!InitTypeOK
  BY <1>0, <1>1, <1>2 DEF Project!InitTypeOK
<1>4. Project!WhereInv /\ Project!StagedInv
  BY <1>0, <1>1 DEF Project!WhereInv, Project!StagedInv, Project!Unpublished
<1>5. Project!ProjectKept /\ Project!ReplacedAsWhole
  BY <1>0 DEF Project!ProjectKept, Project!ReplacedAsWhole, Project!Backups, Project!Kept,
       Project!Holds
<1> QED
  BY <1>3, <1>4, <1>5 DEF Project!ProjectInv

\* The stages that touch neither the target nor a backup.
LEMMA PreparationStep ==
    ASSUME Project!ProjectInv,
           \/ Project!Discover \/ Project!MakeStaging \/ Project!Extract \/ Project!Rewrite
           \/ Project!Validate \/ Project!StatTarget \/ Project!InstallFails
           \/ Project!RestoreFails \/ Project!Fail \/ Project!Return \/ Project!Kill
    PROVE  Project!ProjectInv'
<1> USE DEF Project!Unpublished
<1>0. /\ Project!InitTypeOK /\ Project!WhereInv /\ Project!StagedInv
      /\ Project!ProjectKept /\ Project!ReplacedAsWhole
  BY DEF Project!ProjectInv
<1>1. UNCHANGED <<target, initBackup, retained, options>>
  BY DEF Project!Discover, Project!MakeStaging, Project!Extract, Project!Rewrite,
         Project!Validate, Project!StatTarget, Project!InstallFails, Project!RestoreFails,
         Project!Fail, Project!Return, Project!Kill
<1>2. \/ UNCHANGED <<found, written>>
      \/ Project!Discover /\ found' = target /\ written' = {}
  BY DEF Project!Discover, Project!MakeStaging, Project!Extract, Project!Rewrite,
         Project!Validate, Project!StatTarget, Project!InstallFails, Project!RestoreFails,
         Project!Fail, Project!Return, Project!Kill
<1>3. initAt # "idle" /\ result' \in {result, "planned", "error", "killed"} /\ result = "none"
  BY <1>0 DEF Project!Discover, Project!MakeStaging, Project!Extract, Project!Rewrite,
         Project!Validate, Project!StatTarget, Project!InstallFails, Project!RestoreFails,
         Project!Fail, Project!Return, Project!Kill, Project!StagedInv, Project!InitTypeOK
<1>4. /\ staging' \in Project!Directories
      /\ initAt' \in {"rewrite", "validate", "commit", "backup", "install"} => staging'.exists
      /\ initAt' = "validate" => staging'.demo.complete
      /\ initAt' \in {"commit", "backup", "install"} => staging'.demo = Project!Wanted
      /\ staging'.files = {}
  <2> USE DEF Project!StagedInv
  <2>1. CASE Project!Extract
    <3>1. PICK b \in BOOLEAN :
            staging' = Project!Directory({}, [module |-> "demo", name |-> "demo", complete |-> b])
      BY <2>1 DEF Project!Extract
    <3>2. [module |-> "demo", name |-> "demo", complete |-> b] \in Project!Demo
      BY DEF Project!Demo, Project!ModulePath, Project!Name
    <3> QED
      BY <2>1, <3>1, <3>2, DirectoriesMade DEF Project!Extract
  <2>2. CASE Project!Rewrite
    <3>1. /\ staging.demo.complete /\ staging \in Project!Directories
          /\ Project!Renamed(options.module) \in Project!ModulePath \cup {"renamed"}
          /\ options.name \in Project!Name
      BY <1>0, <2>2 DEF Project!Rewrite, Project!InitTypeOK, Project!Options, Project!Renamed,
                        Project!ModulePath
    <3>2. staging' = [exists |-> staging.exists, files |-> staging.files,
                      demo |-> [module |-> Project!Renamed(options.module),
                                name |-> options.name, complete |-> staging.demo.complete]]
      BY <2>2, <3>1 DEF Project!Rewrite, Project!Directories, Project!Demo
    <3>3. staging' \in Project!Directories /\ staging'.demo.complete /\ staging'.exists
          /\ staging'.files = {}
      <4>1. staging.exists
        BY <1>0, <2>2 DEF Project!Rewrite, Project!StagedInv
      <4> QED
        BY <1>0, <3>1, <3>2, <4>1 DEF Project!Directories, Project!Demo
    <3> QED
      BY <2>2, <3>3 DEF Project!Rewrite, Project!StagedInv
  <2>3. CASE Project!Validate
    <3>1. staging.demo.complete /\ staging.demo \in Project!Demo
      BY <1>0, <2>3 DEF Project!Validate, Project!StagedInv, Project!InitTypeOK, Project!Directories
    <3>2. staging.demo = Project!Wanted
      BY <1>0, <2>3, <3>1, WantedDemo DEF Project!Validate, Project!Initialized, Project!InitTypeOK
    <3> QED
      BY <1>0, <2>3, <3>2 DEF Project!Validate, Project!InitTypeOK, Project!StagedInv
  <2>4. CASE Project!MakeStaging
    BY <1>0, <2>4, DirectoriesMade DEF Project!MakeStaging
  <2>5. CASE Project!Return
    BY <2>5, DirectoriesMade DEF Project!Return
  <2>6. CASE Project!StatTarget
    BY <1>0, <2>6 DEF Project!StatTarget, Project!StagedInv, Project!InitTypeOK
  <2>7. CASE \/ Project!Discover \/ Project!InstallFails \/ Project!RestoreFails
             \/ Project!Fail \/ Project!Kill
    BY <1>0, <2>7 DEF Project!Discover, Project!InstallFails, Project!RestoreFails,
         Project!Fail, Project!Kill, Project!InitTypeOK
  <2> QED
    BY <2>1, <2>2, <2>3, <2>4, <2>5, <2>6, <2>7
<1>5. Project!InitTypeOK'
  BY <1>0, <1>1, <1>2, <1>3, <1>4 DEF Project!InitTypeOK, Project!Discover, Project!MakeStaging,
     Project!Extract, Project!Rewrite, Project!Validate, Project!StatTarget,
     Project!InstallFails, Project!RestoreFails, Project!Fail, Project!Return, Project!Kill
<1>6. Project!StagedInv'
  BY <1>0, <1>1, <1>3, <1>4 DEF Project!StagedInv, Project!Discover, Project!MakeStaging,
     Project!Extract, Project!Rewrite, Project!Validate, Project!StatTarget,
     Project!InstallFails, Project!RestoreFails, Project!Fail, Project!Return, Project!Kill,
     Project!Wanted
<1>7. Project!WhereInv'
  <2>1. CASE Project!Discover
    BY <1>0, <1>1, <2>1 DEF Project!Discover, Project!WhereInv, Project!Kept, Project!Holds,
         Project!Admissible, Project!Empty, Project!Directories, Project!InitTypeOK
  <2>2. CASE Project!StatTarget
    BY <1>0, <1>1, <2>2, DirectoriesMade DEF Project!StatTarget, Project!WhereInv, Project!Kept, Project!Holds,
         Project!Empty, Project!Directories, Project!InitTypeOK
  <2>3. CASE ~Project!Discover /\ ~Project!StatTarget
    BY <1>0, <1>1, <1>2, <2>3 DEF Project!WhereInv, Project!Kept, Project!Holds, Project!MakeStaging,
         Project!Extract, Project!Rewrite, Project!Validate, Project!InstallFails,
         Project!RestoreFails, Project!Fail, Project!Return, Project!Kill, Project!Empty
  <2> QED
    BY <2>1, <2>2, <2>3
<1>8. Project!ProjectKept' /\ Project!ReplacedAsWhole'
  BY <1>0, <1>1, <1>2, <1>3 DEF Project!ProjectKept, Project!ReplacedAsWhole, Project!Backups, Project!Kept,
       Project!Holds,
     Project!Wanted, Project!Empty
<1> QED
  BY <1>5, <1>6, <1>7, <1>8 DEF Project!ProjectInv

\* The next command starts from the target as it is, and keeps the backup of the last.
LEMMA CallStep ==
    ASSUME Project!ProjectInv, Project!Call
    PROVE  Project!ProjectInv'
<1>1. /\ found' = target /\ target' = target /\ initAt' = "discover" /\ result' = "none"
      /\ options' \in Project!Options
      /\ retained' = retained \cup {initBackup} /\ written' = {}
      /\ initBackup' = Project!NoDirectory /\ staging' = Project!NoDirectory
  BY DEF Project!Call
<1> USE DirectoriesMade DEF Project!ProjectInv
<1>2. Project!InitTypeOK'
  BY <1>1 DEF Project!InitTypeOK, Project!Unpublished
<1>3. Project!WhereInv' /\ Project!StagedInv'
  BY <1>1 DEF Project!WhereInv, Project!StagedInv, Project!Unpublished, Project!Kept, Project!Holds,
              Project!Empty
<1>4. Project!ProjectKept' /\ Project!ReplacedAsWhole'
  BY <1>1 DEF Project!ProjectKept, Project!ReplacedAsWhole, Project!Kept, Project!Holds
<1> QED
  BY <1>2, <1>3, <1>4

\* The renames, and the removal of the backup.
LEMMA RenameStep ==
    ASSUME Project!ProjectInv,
           Project!BackUp \/ Project!Install \/ Project!Restore \/ Project!Clean
    PROVE  Project!ProjectInv'
<1>0. /\ Project!InitTypeOK /\ Project!WhereInv /\ Project!StagedInv
      /\ Project!ProjectKept /\ Project!ReplacedAsWhole
      /\ Project!Wanted \in Project!Demo /\ Project!Wanted # Project!NoDemo
  BY WantedDemo DEF Project!ProjectInv, Project!InitTypeOK
<1>1. UNCHANGED <<retained, options, found, written>>
  BY DEF Project!BackUp, Project!Install, Project!Restore, Project!Clean
<1> USE DirectoriesMade DEF Project!Unpublished
<1>2. CASE Project!BackUp
  <2>1. /\ initAt = "backup" /\ target.exists /\ initBackup' = target
        /\ target' = Project!NoDirectory /\ initAt' = "install"
        /\ UNCHANGED <<staging, result>> /\ Project!Kept(target)
    BY <1>0, <1>2 DEF Project!BackUp, Project!Moved, Project!WhereInv
  <2>2. Project!InitTypeOK' /\ Project!StagedInv'
    BY <1>0, <1>1, <2>1 DEF Project!InitTypeOK, Project!StagedInv, Project!Wanted
  <2>3. Project!WhereInv'
    BY <1>0, <1>1, <2>1 DEF Project!WhereInv, Project!Kept, Project!Holds, Project!Empty
  <2>4. Project!ProjectKept' /\ Project!ReplacedAsWhole'
    BY <1>0, <1>1, <2>1 DEF Project!ProjectKept, Project!ReplacedAsWhole, Project!Backups, Project!Kept,
       Project!Holds,
         Project!Kept, Project!Holds, Project!StagedInv
  <2> QED
    BY <2>2, <2>3, <2>4 DEF Project!ProjectInv
<1>3. CASE Project!Install
  <2>1. /\ initAt = "install" /\ target' = staging /\ staging' = Project!NoDirectory
        /\ initBackup' = initBackup
        /\ \/ initBackup.exists /\ initAt' = "clean" /\ result' = result
           \/ ~initBackup.exists /\ initAt' = "idle" /\ result' = "ok"
        /\ staging.demo = Project!Wanted /\ staging.files = {}
        /\ options.force \/ Project!Empty(found)
        /\ initBackup.exists => Project!Kept(initBackup)
        /\ Project!Kept(initBackup) \/ Project!Empty(found)
    BY <1>0, <1>3 DEF Project!Install, Project!StagedInv, Project!WhereInv
  <2>2. Project!InitTypeOK' /\ Project!StagedInv'
    BY <1>0, <1>1, <2>1 DEF Project!InitTypeOK, Project!StagedInv, Project!Wanted
  <2>3. target'.exists
    BY <1>0, <2>1 DEF Project!StagedInv
  <2>4. Project!WhereInv'
    BY <1>0, <1>1, <2>1, <2>3 DEF Project!WhereInv, Project!Kept, Project!Holds, Project!Empty
  <2>5. Project!ProjectKept' /\ Project!ReplacedAsWhole'
    BY <1>0, <1>1, <2>1 DEF Project!ProjectKept, Project!ReplacedAsWhole, Project!Backups, Project!Kept,
       Project!Holds,
         Project!Empty, Project!Wanted
  <2> QED
    BY <2>2, <2>4, <2>5 DEF Project!ProjectInv
<1>4. CASE Project!Restore
  <2>1. /\ initAt = "restore" /\ target' = initBackup /\ initBackup' = Project!NoDirectory
        /\ initAt' = "failed" /\ UNCHANGED <<staging, result>>
        /\ Project!Kept(initBackup) /\ initBackup.exists
    BY <1>0, <1>4 DEF Project!Restore, Project!WhereInv
  <2>2. Project!InitTypeOK' /\ Project!StagedInv'
    BY <1>0, <1>1, <2>1 DEF Project!InitTypeOK, Project!StagedInv
  <2>3. Project!WhereInv'
    BY <1>0, <1>1, <2>1 DEF Project!WhereInv
  <2>4. Project!ProjectKept' /\ Project!ReplacedAsWhole'
    BY <1>0, <1>1, <2>1 DEF Project!ProjectKept, Project!ReplacedAsWhole, Project!Kept, Project!Holds,
         Project!StagedInv
  <2> QED
    BY <2>2, <2>3, <2>4 DEF Project!ProjectInv
<1>5. CASE Project!Clean
  <2>1. /\ initAt = "clean" /\ initAt' = "idle" /\ UNCHANGED <<target, staging>>
        /\ result' \in {"ok", "error"} /\ target.demo = Project!Wanted
        /\ target.files \subseteq written
        /\ options.force \/ Project!Empty(found)
    BY <1>0, <1>5 DEF Project!Clean, Project!StagedInv, Project!WhereInv
  <2>2. initBackup' \in Project!Directories
    BY <1>0, <1>5 DEF Project!Clean, Project!InitTypeOK, Project!Directories
  <2>3. Project!InitTypeOK' /\ Project!StagedInv' /\ Project!WhereInv'
    BY <1>0, <1>1, <2>1, <2>2 DEF Project!InitTypeOK, Project!StagedInv, Project!WhereInv,
         Project!Empty
  <2>4. Project!ProjectKept' /\ Project!ReplacedAsWhole'
    BY <1>0, <1>1, <2>1 DEF Project!ProjectKept, Project!ReplacedAsWhole, Project!Empty,
         Project!Wanted
  <2> QED
    BY <2>3, <2>4 DEF Project!ProjectInv
<1> QED
  BY <1>2, <1>3, <1>4, <1>5

\* What the developer writes meanwhile adds to the target.
LEMMA WriteStep ==
    ASSUME Project!ProjectInv, Project!Write
    PROVE  Project!ProjectInv'
<1>0. /\ Project!InitTypeOK /\ Project!WhereInv /\ Project!StagedInv
      /\ Project!ProjectKept /\ Project!ReplacedAsWhole
  BY DEF Project!ProjectInv
<1>1. /\ UNCHANGED <<staging, initBackup, retained, options, initAt, result, found>>
      /\ target' \in Project!Directories /\ target'.exists
      /\ target.files \subseteq target'.files /\ target'.demo = target.demo
      /\ written \subseteq written' /\ written' \subseteq File
      /\ target'.files \subseteq target.files \cup written'
  <2>1. PICK f \in File : /\ target' = Project!Directory(target.files \cup {f}, target.demo)
                           /\ written' = written \cup {f}
    BY DEF Project!Write
  <2>2. target.files \cup {f} \in SUBSET File /\ written \subseteq File /\ target.demo \in Project!Demo
    BY <1>0 DEF Project!InitTypeOK, Project!Directories
  <2> QED
    BY <2>1, <2>2, DirectoriesMade DEF Project!Write
<1>2. Project!InitTypeOK' /\ Project!StagedInv'
  BY <1>0, <1>1 DEF Project!InitTypeOK, Project!StagedInv, Project!Wanted
<1>3. Project!WhereInv'
  BY <1>0, <1>1 DEF Project!WhereInv, Project!Kept, Project!Holds, Project!Empty
<1>4. Project!ProjectKept' /\ Project!ReplacedAsWhole'
  BY <1>0, <1>1 DEF Project!ProjectKept, Project!ReplacedAsWhole, Project!Backups, Project!Kept,
       Project!Holds,
       Project!Wanted, Project!Empty
<1> QED
  BY <1>2, <1>3, <1>4 DEF Project!ProjectInv

\* The inductive invariant of gx init, whichever command is followed.
THEOREM ProjectInvariant == GxSpec => []Project!ProjectInv
<1>1. GxInit => Project!ProjectInv
  BY ProjectInitially DEF GxInit
<1>2. Project!ProjectInv /\ [GxNext]_gxVars => Project!ProjectInv'
  <2> SUFFICES ASSUME Project!ProjectInv, [GxNext]_gxVars
               PROVE  Project!ProjectInv'
    OBVIOUS
  <2>1. CASE Project!ProjectInitNext
    BY <2>1, PreparationStep, CallStep, RenameStep, WriteStep DEF Project!ProjectInitNext
  <2>2. CASE UNCHANGED projectVars
    BY <2>2 DEF projectVars, Project!ProjectInv, Project!InitTypeOK, Project!WhereInv,
         Project!StagedInv, Project!ProjectKept, Project!ReplacedAsWhole, Project!Kept, Project!Holds,
         Project!Empty, Project!Backups, Project!Wanted
  <2> QED
    BY <2>1, <2>2 DEF GxNext, gxVars
<1> QED
  BY <1>1, <1>2, PTL DEF GxSpec

\* ProjectKept: wherever gx init stops or is killed, what it found is in the target or
\* in a backup, or was to be replaced and is.
THEOREM FoundProjectKept == GxSpec => []ProjectKept
<1>1. Project!ProjectInv => ProjectKept
  BY DEF Project!ProjectInv, ProjectKept
<1> QED
  BY <1>1, ProjectInvariant, PTL

\* ReplacedAsWhole: a target is what was found, with what was written since, or has no
\* file of that left and is nothing or the project asked for.
THEOREM TargetReplaced == GxSpec => []ReplacedAsWhole
<1>1. Project!ProjectInv => ReplacedAsWhole
  BY DEF Project!ProjectInv, ReplacedAsWhole
<1> QED
  BY <1>1, ProjectInvariant, PTL

-----------------------------------------------------------------------------
(* gx dao                                                                   *)

\* The cardinality ModelTables speaks of is the one of FiniteSets.
LEMMA CardinalityOfModels == \A S : Models!Cardinality(S) = Cardinality(S)
BY DEF Models!Cardinality, Cardinality

\* A database that exposes one schema has all its tables in it.
LEMMA OneSchema ==
    ASSUME NEW ts \in SUBSET (Schema \X TableName), Models!Cardinality(Models!Schemas(ts)) = 1
    PROVE  \A t, u \in ts : t[1] = u[1]
<1>1. Models!Schemas(ts) \subseteq Schema
  BY DEF Models!Schemas
<1>2. IsFiniteSet(Models!Schemas(ts))
  BY <1>1, SchemaAssumption, FS_Subset
<1>3. PICK s : Models!Schemas(ts) = {s}
  BY <1>2, FS_Singleton, CardinalityOfModels
<1> QED
  BY <1>3 DEF Models!Schemas

\* What a generation leaves: each model is of a table of the database, in the place
\* that a complete generation gives it.
LEMMA Generated ==
    ASSUME tables \subseteq Models!Table, Models!Generate
    PROVE  ModelsInPlace'
<1>1. PICK request \in Models!Requests :
        /\ Models!Generates(request)
        /\ models' = Models!ModelsOf(request)
        /\ generation' = [request |-> request, tables |-> tables, driver |-> Models!Driver]
  BY DEF Models!Generate
<1>2. UNCHANGED <<tables, system, dotEnv>>
  BY DEF Models!Generate
<1>3. /\ generation'.tables = tables /\ generation'.driver = Models!Driver
  BY <1>1, <1>2
<1>4. Models!Selected(request) \subseteq tables
  BY DEF Models!Selected
<1>5. ASSUME NEW m \in models'
      PROVE  /\ m.of \in tables
             /\ m.place = IF Models!Flat THEN <<"flat", m.of[2]>> ELSE m.of
  <2>1. CASE Models!Driver = "postgres"
    BY <1>1, <1>4, <1>5, <2>1 DEF Models!ModelsOf, Models!PostgresModels, Models!Place
  <2>2. CASE Models!Driver # "postgres"
    BY <1>1, <1>4, <1>5, <2>2 DEF Models!ModelsOf, Models!OtherModels, Models!Generates
  <2> QED
    BY <2>1, <2>2
<1>6. ASSUME NEW m \in models', NEW n \in models', m.place = n.place
      PROVE  m = n
  <2>1. m = [place |-> m.place, of |-> m.of] /\ n = [place |-> n.place, of |-> n.of]
    BY <1>1, <1>6 DEF Models!ModelsOf, Models!OtherModels, Models!PostgresModels
  <2>2. m.of = n.of
    <3>1. m.of \in Schema \X TableName /\ n.of \in Schema \X TableName
      BY <1>5 DEF Models!Table
    <3>2. CASE Models!Flat
      <4>1. m.of[2] = n.of[2]
        <5>1. <<"flat", m.of[2]>> = <<"flat", n.of[2]>>
          BY <1>5, <1>6, <3>2
        <5> QED
          BY <5>1
      <4>2. m.of[1] = n.of[1]
        <5>1. \A t, u \in tables : t[1] = u[1]
          BY <3>2, OneSchema DEF Models!Flat, Models!Table
        <5> QED
          BY <1>5, <5>1
      <4> QED
        BY <3>1, <4>1, <4>2
    <3>3. CASE ~Models!Flat
      BY <1>5, <1>6, <3>3
    <3> QED
      BY <3>2, <3>3
  <2> QED
    BY <1>6, <2>1, <2>2
<1>7. "driver" \in DOMAIN system /\ system["driver"] # "empty"
        => Models!Driver = system["driver"]
  BY DEF Models!Driver, Models!Lookup
<1>8. ASSUME NEW m \in models'
      PROVE  /\ m.of \in generation'.tables
             /\ m.place = IF Models!Cardinality(Models!Schemas(generation'.tables)) = 1
                          THEN <<"flat", m.of[2]>> ELSE m.of
  BY <1>3, <1>5 DEF Models!Flat
<1>9. "driver" \in DOMAIN system' /\ system'["driver"] # "empty"
        => generation'.driver = system'["driver"]
  BY <1>2, <1>3, <1>7
<1>10. Models!ModelsInPlace'
  BY <1>6, <1>8, <1>9 DEF Models!ModelsInPlace
<1> QED
  BY <1>10 DEF ModelsInPlace

\* ModelsInPlace: whichever tables are asked for, and however the database changes
\* between generations, a model is where a complete generation puts it.
THEOREM ModelsPlaced == GxSpec => []ModelsInPlace
<1> DEFINE ModelInv == tables \subseteq Models!Table /\ ModelsInPlace
<1>1. GxInit => ModelInv
  BY DEF GxInit, NoModels, Models!ModelTablesInit, ModelsInPlace, Models!ModelsInPlace
<1>2. ModelInv /\ [GxNext]_gxVars => ModelInv'
  <2> SUFFICES ASSUME tables \subseteq Models!Table, ModelsInPlace, [GxNext]_gxVars
               PROVE  tables' \subseteq Models!Table /\ ModelsInPlace'
    OBVIOUS
  <2>1. CASE Models!Generate
    BY <2>1, Generated DEF Models!Generate
  <2>2. CASE Models!Migrate
    BY <2>2 DEF Models!Migrate, ModelsInPlace, Models!ModelsInPlace
  <2>3. CASE UNCHANGED modelVars
    BY <2>3 DEF modelVars, ModelsInPlace, Models!ModelsInPlace
  <2> QED
    BY <2>1, <2>2, <2>3 DEF GxNext, gxVars, Models!ModelTablesNext
<1> QED
  BY <1>1, <1>2, PTL DEF GxSpec

-----------------------------------------------------------------------------
(* gx ctrl and gx service                                                   *)

\* What a file of the project is after the transaction.
LEMMA AppliedAt ==
    ASSUME NEW outputs, NEW p \in Code!Path
    PROVE  LET after == Code!Applied(outputs)[p] IN
           \/ p \in Code!Deletes(outputs) /\ after = Code!NoFile
           \/ \E o \in Code!Writes(outputs) : o.path = p /\ after = Code!Content(o)
           \/ /\ p \notin Code!Deletes(outputs) /\ after = disk[p]
              /\ \A o \in Code!Writes(outputs) : o.path # p
<1>1. CASE p \in Code!Deletes(outputs)
  BY <1>1 DEF Code!Applied
<1>2. CASE p \notin Code!Deletes(outputs) /\ \E o \in Code!Writes(outputs) : o.path = p
  <2> DEFINE w == CHOOSE o \in Code!Writes(outputs) : o.path = p
  <2>1. w \in Code!Writes(outputs) /\ w.path = p
    BY <1>2
  <2>2. Code!Applied(outputs)[p] = Code!Content(w)
    BY <1>2 DEF Code!Applied
  <2> QED
    BY <2>1, <2>2
<1>3. CASE p \notin Code!Deletes(outputs) /\ \A o \in Code!Writes(outputs) : o.path # p
  BY <1>3 DEF Code!Applied
<1> QED
  BY <1>1, <1>2, <1>3

\* A step of a command either leaves the files as they are or applies what it rendered.
LEMMA PublishEffect ==
    ASSUME Code!Publish, NEW p \in Code!Path
    PROVE  LET outputs == Code!Rendered(generating) IN
           \/ disk' = disk
           \/ /\ p \in Code!Deletes(outputs) /\ disk'[p] = Code!NoFile
              /\ Code!Consistent(outputs)
           \/ \E o \in Code!Writes(outputs) : o.path = p /\ disk'[p] = Code!Content(o)
           \/ /\ p \notin Code!Deletes(outputs) /\ disk'[p] = disk[p]
              /\ \A o \in Code!Writes(outputs) : o.path # p
<1> DEFINE outputs == Code!Rendered(generating)
<1>1. Code!Consistent(outputs) /\ (disk' = disk \/ disk' = Code!Applied(outputs))
  BY DEF Code!Publish
<1> HIDE DEF outputs
<1>2. \/ p \in Code!Deletes(outputs) /\ Code!Applied(outputs)[p] = Code!NoFile
      \/ \E o \in Code!Writes(outputs) : o.path = p /\ Code!Applied(outputs)[p] = Code!Content(o)
      \/ /\ p \notin Code!Deletes(outputs) /\ Code!Applied(outputs)[p] = disk[p]
         /\ \A o \in Code!Writes(outputs) : o.path # p
  BY AppliedAt
<1> QED
  BY <1>1, <1>2 DEF outputs

\* The rule of an output says which kind of file it is for: only contracts, services
\* and the import aggregator are written whoever owns them, and only a scan with
\* --clean deletes.
RuleFits(o) ==
    /\ o.mode = "Forced" => o.path[1] \in {"contract", "nested"}
    /\ o.mode = "Replacing" => o.path[1] = "service"
    /\ o.mode = "Updated" => /\ o.path = Code!Imports
                             /\ disk[Code!Imports].body \ Logic \subseteq o.file.body
    /\ o.mode = "Planned" => o.path[1] \in {"package", "constructors", "model"}
    /\ o.mode = "DeveloperOwned" => o.path[1] \in {"api", "implementation", "logic"}
    /\ o.mode = "Delete" => o.path[1] \in {"package", "implementation"}
    /\ o.mode \in {"Forced", "Replacing", "Updated", "Planned", "DeveloperOwned", "Delete"}

LEMMA CtrlRules ==
    ASSUME NEW c \in Code!CtrlCommands
    PROVE  /\ \A o \in Code!ScanControllers(c) : RuleFits(o)
           /\ \A o \in Code!ScanControllers(c) : o.mode = "Delete" => c.clean
           /\ \A r \in Api : \A o \in Code!NamedControllers(r) :
                RuleFits(o) /\ o.mode # "Delete"
<1> USE DEF RuleFits, Code!Output
<1>1. ASSUME NEW m, NEW apis, NEW k \in {"contract", "nested"},
             NEW o \in Code!ModuleOutputs(m, apis, k)
      PROVE  RuleFits(o) /\ o.mode # "Delete"
  BY <1>1 DEF Code!ModuleOutputs
<1>2. ASSUME NEW r, NEW o, o \in Code!Legacy(<<"api", r>>) \/ o = Code!Implementation(r)
      PROVE  RuleFits(o) /\ o.mode # "Delete"
  BY <1>2 DEF Code!Legacy, Code!Implementation
<1>3. ASSUME NEW ms, NEW o \in Code!Stale(ms)
      PROVE  RuleFits(o)
  BY <1>3 DEF Code!Stale
<1>4. ASSUME NEW o \in Code!ScanControllers(c)
      PROVE  RuleFits(o) /\ (o.mode = "Delete" => c.clean)
  <2> HIDE DEF RuleFits, Code!Output
  <2> DEFINE apis == Code!Present(Code!Root(c.dir))
             ms == {ModuleOf[r] : r \in apis}
             k == IF c.dir = {} THEN "contract" ELSE "nested"
  <2>1. \/ \E r \in apis : o \in Code!Legacy(<<"api", r>>)
        \/ \E m \in ms : o \in Code!ModuleOutputs(m, Code!OfModule(apis, m), k)
        \/ \E r \in apis : o = Code!Implementation(r)
        \/ c.clean /\ o \in Code!Stale(ms)
    <3>1. \/ o \in UNION {Code!Legacy(<<"api", r>>) : r \in apis}
          \/ o \in UNION {Code!ModuleOutputs(m, Code!OfModule(apis, m), k) : m \in ms}
          \/ o \in {Code!Implementation(r) : r \in apis}
          \/ o \in (IF c.clean THEN Code!Stale(ms) ELSE {})
      BY <1>4 DEF Code!ScanControllers
    <3> HIDE DEF apis, ms, k
    <3>2. CASE o \in UNION {Code!Legacy(<<"api", r>>) : r \in apis}
      BY <3>2
    <3>3. CASE o \in UNION {Code!ModuleOutputs(m, Code!OfModule(apis, m), k) : m \in ms}
      BY <3>3
    <3>4. CASE o \in {Code!Implementation(r) : r \in apis}
      BY <3>4
    <3>5. CASE o \in (IF c.clean THEN Code!Stale(ms) ELSE {})
      BY <3>5
    <3> QED
      BY <3>1, <3>2, <3>3, <3>4, <3>5
  <2> QED
    BY <1>1, <1>2, <1>3, <2>1
<1>5. ASSUME NEW r \in Api, NEW o \in Code!NamedControllers(r)
      PROVE  RuleFits(o) /\ o.mode # "Delete"
  <2> DEFINE seed == Code!Output(<<"api", r>>, "DeveloperOwned", Code!GoFile("none", {"seed"}))
  <2>1. RuleFits(seed) /\ seed.mode # "Delete"
    OBVIOUS
  <2> HIDE DEF RuleFits, Code!Output
  <2>2. \/ o \in Code!ModuleOutputs(ModuleOf[r], Code!Contracted(r), "contract")
        \/ o = seed \/ o = Code!Implementation(r)
    BY <1>5 DEF Code!NamedControllers
  <2> QED
    BY <1>1, <1>2, <2>1, <2>2
<1> QED
  BY <1>4, <1>5

LEMMA ServiceRules ==
    ASSUME NEW c \in Code!ServiceCommands
    PROVE  /\ \A o \in Code!ScanServices(c) : RuleFits(o) /\ o.mode # "Delete"
           /\ \A l \in Logic : \A o \in Code!NamedService(l) :
                RuleFits(o) /\ o.mode # "Delete"
<1> USE DEF RuleFits, Code!Output
<1>1. ASSUME NEW l, NEW signatures
      PROVE  /\ RuleFits(Code!Service(l, signatures))
             /\ Code!Service(l, signatures).mode # "Delete"
  BY DEF Code!Service
<1>2. ASSUME NEW desired
      PROVE  RuleFits(Code!Aggregator(desired)) /\ Code!Aggregator(desired).mode # "Delete"
  BY DEF Code!Aggregator, Code!Aggregated, Code!GoFile
<1>3. ASSUME NEW o, o \in Code!Model \/ (\E l \in Logic : o \in Code!LegacyLogic(l))
      PROVE  RuleFits(o) /\ o.mode # "Delete"
  <2>1. CASE o \in Code!Model
    BY <2>1 DEF Code!Model
  <2>2. ASSUME NEW l \in Logic, o \in Code!LegacyLogic(l)
        PROVE  RuleFits(o) /\ o.mode # "Delete"
    BY <2>2 DEF Code!LegacyLogic
  <2> QED
    BY <1>3, <2>1, <2>2
<1>4. ASSUME NEW o \in Code!ScanServices(c)
      PROVE  RuleFits(o) /\ o.mode # "Delete"
  <2> HIDE DEF RuleFits, Code!Output
  <2> DEFINE ms == Code!Scanned(c.module)
  <2>1. ms \subseteq Logic
    BY DEF Code!Scanned
  <2>2. \/ \E l \in ms : o \in Code!LegacyLogic(l)
        \/ \E l \in ms : o = Code!Service(l, disk[<<"logic", l>>].body)
        \/ o \in Code!Model \/ o = Code!Aggregator(ms)
    <3>1. \/ o \in UNION {Code!LegacyLogic(l) : l \in ms}
          \/ o \in {Code!Service(l, disk[<<"logic", l>>].body) : l \in ms}
          \/ o \in Code!Model \/ o \in {Code!Aggregator(ms)}
      BY <1>4 DEF Code!ScanServices
    <3> HIDE DEF ms
    <3>2. CASE o \in UNION {Code!LegacyLogic(l) : l \in ms}
      BY <3>2
    <3>3. CASE o \in {Code!Service(l, disk[<<"logic", l>>].body) : l \in ms}
      BY <3>3
    <3> QED
      BY <3>1, <3>2, <3>3
  <2> QED
    BY <1>1, <1>2, <1>3, <2>1, <2>2
<1>5. ASSUME NEW l \in Logic, NEW o \in Code!NamedService(l)
      PROVE  RuleFits(o) /\ o.mode # "Delete"
  <2> DEFINE seed == Code!Output(<<"logic", l>>, "DeveloperOwned", Code!GoFile("none", {"seed"}))
  <2>1. RuleFits(seed) /\ seed.mode # "Delete"
    OBVIOUS
  <2> HIDE DEF RuleFits, Code!Output
  <2>2. \/ o = Code!Service(l, {"seed"}) \/ o = Code!Aggregator({l})
        \/ o = seed \/ o \in Code!Model
    BY <1>5 DEF Code!NamedService
  <2> QED
    BY <1>1, <1>2, <1>3, <2>1, <2>2
<1> QED
  BY <1>4, <1>5

\* The rules, of whatever command runs.
LEMMA RenderedRules ==
    ASSUME Code!CommandInv, generating # Code!NoCommand, NEW o \in Code!Rendered(generating)
    PROVE  /\ RuleFits(o)
           /\ o.mode = "Delete" => /\ generating \in Code!CtrlCommands
                                  /\ generating.names = <<>> /\ generating.clean
<1>1. CASE generating \in Code!CtrlCommands
  <2>1. generating.kind = "ctrl" /\ generating.names \in Seq(Api)
    BY <1>1 DEF Code!CtrlCommands
  <2>2. CASE generating.names = <<>>
    BY <1>1, <2>1, <2>2, CtrlRules DEF Code!Rendered
  <2>3. CASE generating.names # <<>>
    <3>1. Head(generating.names) \in Api
      BY <2>1, <2>3
    <3>2. o \in Code!NamedControllers(Head(generating.names))
      BY <2>1, <2>3 DEF Code!Rendered
    <3> QED
      BY <1>1, <3>1, <3>2, CtrlRules
  <2> QED
    BY <2>2, <2>3
<1>2. CASE generating \in Code!ServiceCommands
  <2>1. generating.kind = "service" /\ generating.names \in Seq(Logic)
    BY <1>2 DEF Code!ServiceCommands
  <2>2. CASE generating.names = <<>>
    BY <1>2, <2>1, <2>2, ServiceRules DEF Code!Rendered
  <2>3. CASE generating.names # <<>>
    <3>1. Head(generating.names) \in Logic
      BY <2>1, <2>3
    <3>2. o \in Code!NamedService(Head(generating.names))
      BY <2>1, <2>3 DEF Code!Rendered
    <3> QED
      BY <1>2, <3>1, <3>2, ServiceRules
  <2> QED
    BY <2>2, <2>3
<1> QED
  BY <1>1, <1>2 DEF Code!CommandInv

\* A command is one of the command line, as is what is left of one.
LEMMA CommandsTyped == Code!Commands \subseteq Code!CtrlCommands \cup Code!ServiceCommands
<1>1. ASSUME NEW S
      PROVE  {<<x>> : x \in S} \cup (S \X S) \in SUBSET Seq(S)
  <2>1. \A x \in S : <<x>> \in Seq(S)
    OBVIOUS
  <2>2. \A x, y \in S : <<x, y>> \in Seq(S)
    OBVIOUS
  <2>3. ASSUME NEW t \in S \X S
        PROVE  t \in Seq(S)
    <3>1. t = <<t[1], t[2]>> /\ t[1] \in S /\ t[2] \in S
      BY <2>3
    <3>2. <<t[1], t[2]>> \in Seq(S)
      BY <2>2, <3>1
    <3> QED
      BY <3>1, <3>2, Zenon
  <2>4. {<<x>> : x \in S} \subseteq Seq(S)
    BY <2>1
  <2> QED
    BY <2>3, <2>4
<1>2. ASSUME NEW ns \in SUBSET Seq(Api), NEW ds \in SUBSET SUBSET Api, NEW bs \in SUBSET BOOLEAN
      PROVE  [kind : {"ctrl"}, names : ns, dir : ds, clean : bs, dry : {FALSE}]
               \subseteq Code!CtrlCommands
  BY DEF Code!CtrlCommands
<1>3. ASSUME NEW ns \in SUBSET Seq(Logic), NEW ms \in SUBSET SUBSET Logic
      PROVE  [kind : {"service"}, names : ns, module : ms, dry : {FALSE}]
               \subseteq Code!ServiceCommands
  BY DEF Code!ServiceCommands
<1>4. Code!ScansOfApis \cup Code!NamedApis \subseteq Code!CtrlCommands
  <2>1. /\ {{}} \cup {{r} : r \in Api} \in SUBSET SUBSET Api /\ {{}} \in SUBSET SUBSET Api
        /\ {<<>>} \in SUBSET Seq(Api)
        /\ {FALSE} \in SUBSET BOOLEAN /\ BOOLEAN \in SUBSET BOOLEAN
    OBVIOUS
  <2>2. Code!ScansOfApis \subseteq Code!CtrlCommands
    <3> DEFINE ds == {{}} \cup {{r} : r \in Api}
    <3>1. [kind : {"ctrl"}, names : {<<>>}, dir : ds, clean : BOOLEAN, dry : {FALSE}]
            \subseteq Code!CtrlCommands
      <4> HIDE DEF ds
      <4> QED
        BY <1>2, <2>1 DEF ds
    <3> QED
      BY <3>1 DEF Code!ScansOfApis
  <2>3. Code!NamedApis \subseteq Code!CtrlCommands
    <3> DEFINE ns == {<<r>> : r \in Api} \cup (Api \X Api)
    <3>1. ns \in SUBSET Seq(Api)
      BY <1>1
    <3>2. [kind : {"ctrl"}, names : ns, dir : {{}}, clean : {FALSE}, dry : {FALSE}]
            \subseteq Code!CtrlCommands
      <4> HIDE DEF ns
      <4> QED
        BY <1>2, <2>1, <3>1
    <3>3. Code!NamedApis = [kind : {"ctrl"}, names : ns, dir : {{}}, clean : {FALSE}, dry : {FALSE}]
      BY DEF Code!NamedApis
    <3> HIDE DEF ns
    <3> QED
      BY <3>2, <3>3
  <2> QED
    BY <2>2, <2>3
<1>5. Code!ScansOfLogic \cup Code!NamedLogic \subseteq Code!ServiceCommands
  <2>1. /\ {{}} \cup {{l} : l \in Logic} \in SUBSET SUBSET Logic /\ {{}} \in SUBSET SUBSET Logic
        /\ {<<>>} \in SUBSET Seq(Logic)
    OBVIOUS
  <2>2. Code!ScansOfLogic \subseteq Code!ServiceCommands
    BY <1>3, <2>1 DEF Code!ScansOfLogic
  <2>3. Code!NamedLogic \subseteq Code!ServiceCommands
    <3> DEFINE ns == {<<l>> : l \in Logic} \cup (Logic \X Logic)
    <3>1. ns \in SUBSET Seq(Logic)
      BY <1>1
    <3>2. [kind : {"service"}, names : ns, module : {{}}, dry : {FALSE}]
            \subseteq Code!ServiceCommands
      <4> HIDE DEF ns
      <4> QED
        BY <1>3, <2>1, <3>1
    <3>3. Code!NamedLogic = [kind : {"service"}, names : ns, module : {{}}, dry : {FALSE}]
      BY DEF Code!NamedLogic
    <3> HIDE DEF ns
    <3> QED
      BY <3>2, <3>3
  <2> QED
    BY <2>2, <2>3
<1>6. ASSUME NEW c, NEW d \in Code!Dry(c)
      PROVE  /\ c \in Code!CtrlCommands => d \in Code!CtrlCommands
             /\ c \in Code!ServiceCommands => d \in Code!ServiceCommands
  BY <1>6 DEF Code!Dry, Code!CtrlCommands, Code!ServiceCommands
<1>7. ASSUME NEW d \in Code!Commands
      PROVE  d \in Code!CtrlCommands \cup Code!ServiceCommands
  <2> DEFINE all == Code!ScansOfApis \cup Code!NamedApis \cup Code!ScansOfLogic \cup Code!NamedLogic
  <2>1. d \in all \/ \E c \in all : d \in Code!Dry(c)
    BY <1>7 DEF Code!Commands
  <2> QED
    BY <1>4, <1>5, <1>6, <2>1
<1> QED
  BY <1>7

LEMMA RestTyped ==
    ASSUME Code!CommandInv, generating # Code!NoCommand
    PROVE  Code!Rest(generating) \in Code!CtrlCommands \cup Code!ServiceCommands
                                       \cup {Code!NoCommand}
<1>1. CASE generating \in Code!CtrlCommands
  BY <1>1 DEF Code!Rest, Code!CtrlCommands
<1>2. CASE generating \in Code!ServiceCommands
  <2>1. /\ generating.names \in Seq(Logic)
        /\ Len(generating.names) > 1 => Tail(generating.names) \in Seq(Logic)
    BY <1>2 DEF Code!ServiceCommands
  <2>2. \A ns \in Seq(Logic) : [generating EXCEPT !.names = ns] \in Code!ServiceCommands
    BY <1>2 DEF Code!ServiceCommands
  <2> QED
    BY <2>1, <2>2 DEF Code!Rest
<1> QED
  BY <1>1, <1>2 DEF Code!CommandInv

LEMMA CommandStep == Code!CommandInv /\ [GxNext]_gxVars => Code!CommandInv'
<1> SUFFICES ASSUME Code!CommandInv, [GxNext]_gxVars
             PROVE  Code!CommandInv'
  OBVIOUS
<1>1. CASE Code!GeneratorsNext
  BY <1>1, CommandsTyped, RestTyped DEF Code!GeneratorsNext, Code!Run, Code!Publish,
     Code!Fail, Code!Edit, Code!CommandInv
<1>2. CASE UNCHANGED codeVars
  BY <1>2 DEF codeVars, Code!CommandInv
<1> QED
  BY <1>1, <1>2 DEF GxNext, gxVars

LEMMA CommandInitially == GxInit => Code!CommandInv
BY DEF GxInit, NoCode, Code!GeneratorsInit, Code!CommandInv

\* A developer's implementation of an API that still exists is not deleted: a scan of
\* the whole project with --clean expects it, and refuses to do both.
LEMMA ExpectedStays ==
    ASSUME NEW c \in Code!CtrlCommands, c.names = <<>>, c.dir = {},
           NEW r \in Code!Present(Api), disk[<<"implementation", r>>].header = "first",
           Code!Consistent(Code!ScanControllers(c))
    PROVE  <<"implementation", r>> \notin Code!Deletes(Code!ScanControllers(c))
<1> DEFINE o == Code!Implementation(r)
           p == <<"implementation", r>>
<1>1. o \in Code!ScanControllers(c)
  BY DEF Code!ScanControllers, Code!Root
<1>2. o.path = p /\ o.mode = "DeveloperOwned"
  BY DEF Code!Implementation, Code!Output
<1>3. Code!Content(o) # disk[p]
  BY <1>2 DEF Code!Content, Code!GoFile
<1>4. o \in Code!Writes(Code!ScanControllers(c))
  BY <1>1, <1>2, <1>3 DEF Code!Writes, Code!Owns
<1> QED
  BY <1>2, <1>4 DEF Code!Consistent

\* What DeveloperWorkStays says of one file.
WorkStays(p) ==
    /\ /\ Code!Exists(disk[p]) /\ Code!Kind(p) \notin Code!Replaced
       /\ ~Code!Generated(disk[p])
       => disk'[p].body = disk[p].body \/ Code!Kind(p) = "imports"
    /\ /\ disk[p].header = "first"
       /\ Code!Kind(p) \in Code!DeveloperKinds
       /\ Code!Kind(p) = "implementation" => p[2] \in Code!Present(Api)
       /\ generating.kind = "ctrl" => generating.names # <<>> \/ generating.dir = {}
       => disk'[p].body = disk[p].body
    /\ Code!Kind(p) = "imports" => disk[p].body \ Logic \subseteq disk'[p].body

LEMMA WorkStaysAt ==
    ASSUME Code!CommandInv, generating # Code!NoCommand, Code!Publish, NEW p \in Code!Path
    PROVE  WorkStays(p)
<1> DEFINE outputs == Code!Rendered(generating)
<1>1. \A o \in outputs :
        /\ RuleFits(o)
        /\ o.mode = "Delete" => /\ generating \in Code!CtrlCommands
                               /\ generating.names = <<>> /\ generating.clean
  BY RenderedRules
<1> USE DEF WorkStays, Code!Kind, Code!DeveloperKinds, Code!Replaced, Code!Generated
<1>2. CASE disk' = disk
  BY <1>2
<1>3. CASE p \notin Code!Deletes(outputs) /\ disk'[p] = disk[p]
  BY <1>3
<1>4. ASSUME NEW o \in Code!Writes(outputs), o.path = p, disk'[p] = Code!Content(o)
      PROVE  WorkStays(p)
  <2>1. RuleFits(o) /\ Code!Owns(o) /\ o.mode # "Delete"
    BY <1>1, <1>4 DEF Code!Writes
  <2>2. CASE o.mode = "DeveloperOwned"
    <3>1. p[1] \in {"api", "implementation", "logic"}
      BY <1>4, <2>1, <2>2 DEF RuleFits
    <3>2. disk[p].header = "first" => disk'[p].body = disk[p].body
      BY <1>4, <2>2 DEF Code!Content, Code!GoFile
    <3>3. disk[p].header = "first" \/ ~Code!Exists(disk[p])
      BY <1>4, <2>1, <2>2 DEF Code!Owns
    <3> QED
      BY <3>1, <3>2, <3>3
  <2>3. CASE o.mode = "Updated"
    <3>1. p[1] = "imports" /\ disk'[p] = o.file /\ disk[p].body \ Logic \subseteq o.file.body
      BY <1>4, <2>1, <2>3 DEF RuleFits, Code!Content, Code!Imports
    <3> QED
      BY <3>1
  <2>4. CASE o.mode \in {"Forced", "Replacing", "Planned"}
    <3>1. p[1] \in {"contract", "nested", "service", "package", "constructors", "model"}
      BY <1>4, <2>1, <2>4 DEF RuleFits
    <3>2. /\ o.mode = "Planned" => Code!Generated(disk[p]) \/ ~Code!Exists(disk[p])
          /\ o.mode # "Planned" => p[1] \in Code!Replaced
      BY <1>4, <2>1, <2>4 DEF RuleFits, Code!Owns
    <3> QED
      BY <2>4, <3>1, <3>2
  <2> QED
    BY <2>1, <2>2, <2>3, <2>4 DEF RuleFits
<1>5. CASE p \in Code!Deletes(outputs) /\ Code!Consistent(outputs)
  <2>1. PICK o \in outputs : o.path = p /\ o.mode = "Delete" /\ Code!Generated(disk[p])
    BY <1>5 DEF Code!Deletes
  <2>2. /\ p[1] \in {"package", "implementation"}
        /\ generating \in Code!CtrlCommands /\ generating.names = <<>>
    BY <1>1, <2>1 DEF RuleFits
  <2>3. generating.kind = "ctrl" /\ outputs = Code!ScanControllers(generating)
    BY <2>2 DEF Code!CtrlCommands, Code!Rendered
  <2>4. ASSUME disk[p].header = "first", p[1] = "implementation",
               p[2] \in Code!Present(Api), generating.dir = {}
        PROVE  FALSE
    <3>1. p = <<"implementation", p[2]>>
      BY <2>4 DEF Code!Path, Code!Imports
    <3> QED
      BY <1>5, <2>2, <2>3, <2>4, <3>1, ExpectedStays
  <2> QED
    BY <2>1, <2>2, <2>3, <2>4
<1> QED
  BY <1>2, <1>3, <1>4, <1>5, PublishEffect

\* DeveloperWorkStays: whatever gx commands run, in whatever order with the
\* developer's edits, none changes what the developer wrote.
THEOREM WorkOfDevelopersStays == GxSpec => DeveloperWorkStays
<1> DEFINE Stays == generating # Code!NoCommand => \A p \in Code!Path : WorkStays(p)
<1>1. Code!CommandInv /\ [GxNext]_gxVars => [Stays]_(Code!generatorVars)
  <2> SUFFICES ASSUME Code!CommandInv, GxNext, generating # Code!NoCommand,
                      UNCHANGED codeVars => FALSE, NEW p \in Code!Path
               PROVE  WorkStays(p)
    BY DEF gxVars, codeVars, Code!generatorVars
  <2>1. Code!GeneratorsNext
    BY DEF GxNext
  <2>2. CASE Code!Publish
    BY <2>2, WorkStaysAt
  <2>3. CASE Code!Fail
    BY <2>3 DEF Code!Fail, WorkStays
  <2> QED
    BY <2>1, <2>2, <2>3 DEF Code!GeneratorsNext, Code!Run, Code!Edit
<1> QED
  BY <1>1, CommandInitially, CommandStep, PTL
     DEF GxSpec, DeveloperWorkStays, Code!DeveloperWorkStays, WorkStays

\* What is left at the path of an output that no other output shares.
LEMMA SoleOutput ==
    ASSUME NEW outputs, NEW o \in outputs, NEW p \in Code!Path, o.path = p, o.mode # "Delete",
           \A q \in outputs : q.path = p => q = o
    PROVE  /\ o.mode \in {"Forced", "Replacing", "Updated"} => Code!Applied(outputs)[p] = o.file
           /\ o.mode = "Planned" => \/ Code!Applied(outputs)[p] = o.file
                                    \/ /\ Code!Applied(outputs)[p] = disk[p]
                                       /\ ~Code!Generated(disk[p])
<1>1. p \notin Code!Deletes(outputs)
  BY DEF Code!Deletes
<1>2. \A q \in Code!Writes(outputs) : q.path = p => q = o
  BY DEF Code!Writes
<1>3. \/ o \in Code!Writes(outputs) /\ Code!Applied(outputs)[p] = Code!Content(o)
      \/ o \notin Code!Writes(outputs) /\ Code!Applied(outputs)[p] = disk[p]
  BY <1>1, <1>2, AppliedAt
<1>4. o.mode # "DeveloperOwned" => Code!Content(o) = o.file
  BY DEF Code!Content
<1>5. o \notin Code!Writes(outputs) => Code!Content(o) = disk[p] \/ ~Code!Owns(o)
  BY DEF Code!Writes
<1>6. /\ o.mode \in {"Forced", "Replacing", "Updated"} => Code!Owns(o)
      /\ o.mode = "Planned" /\ Code!Generated(disk[p]) => Code!Owns(o)
  BY DEF Code!Owns
<1> QED
  BY <1>3, <1>4, <1>5, <1>6

\* What a scan of the whole project renders, by path.
LEMMA ScanOutputs ==
    ASSUME NEW c \in Code!CtrlCommands, c.dir = {}, NEW r \in Code!Present(Api)
    PROVE  LET apis    == Code!Present(Api)
               m       == ModuleOf[r]
               outputs == Code!ScanControllers(c)
               contract == Code!Output(<<"contract", m>>, "Forced",
                                       Code!GoFile("none", Code!OfModule(apis, m)))
               constructors ==
                 Code!Output(<<"constructors", m>>, "Planned",
                             Code!GoFile("first", Code!Versions(Code!OfModule(apis, m))))
           IN  /\ contract \in outputs /\ constructors \in outputs
               /\ \A q \in outputs : q.path = <<"contract", m>> => q = contract
               /\ \A q \in outputs : q.path = <<"constructors", m>> => q = constructors
               /\ Code!Implementation(r) \in outputs
<1> DEFINE apis == Code!Present(Api)
           ms == {ModuleOf[s] : s \in apis}
           m == ModuleOf[r]
           outputs == Code!ScanControllers(c)
           moduleOf(n) == Code!ModuleOutputs(n, Code!OfModule(apis, n), "contract")
           contract == Code!Output(<<"contract", m>>, "Forced",
                                   Code!GoFile("none", Code!OfModule(apis, m)))
           constructors == Code!Output(<<"constructors", m>>, "Planned",
                             Code!GoFile("first", Code!Versions(Code!OfModule(apis, m))))
<1>1. outputs = (UNION {Code!Legacy(<<"api", s>>) : s \in apis})
                  \cup (UNION {moduleOf(n) : n \in ms})
                  \cup {Code!Implementation(s) : s \in apis}
                  \cup (IF c.clean THEN Code!Stale(ms) ELSE {})
  BY DEF Code!ScanControllers, Code!Root
<1>2. r \in apis /\ m \in ms
  OBVIOUS
<1>3. contract \in moduleOf(m) /\ constructors \in moduleOf(m)
  BY DEF Code!ModuleOutputs
<1> HIDE DEF apis, outputs, ms, moduleOf
<1>4. contract \in outputs /\ constructors \in outputs /\ Code!Implementation(r) \in outputs
  BY <1>1, <1>2, <1>3
<1>5. ASSUME NEW q \in outputs, q.path \in {<<"contract", m>>, <<"constructors", m>>}
      PROVE  q \in {contract, constructors}
  <2>1. ASSUME NEW s, q \in Code!Legacy(<<"api", s>>) \/ q = Code!Implementation(s)
        PROVE  FALSE
    BY <1>5, <2>1 DEF Code!Legacy, Code!Implementation, Code!Output
  <2>2. q \notin Code!Stale(ms)
    BY <1>5 DEF Code!Stale, Code!Output
  <2>3. PICK n \in ms : q \in moduleOf(n)
    BY <1>1, <2>1, <2>2
  <2> QED
    BY <1>5, <2>3 DEF moduleOf, Code!ModuleOutputs, Code!Output
<1>6. contract.path = <<"contract", m>> /\ constructors.path = <<"constructors", m>>
  BY DEF Code!Output
<1>7. contract # constructors /\ contract.path # constructors.path
  BY <1>6
<1> QED
  BY <1>4, <1>5, <1>6, <1>7 DEF apis, outputs

\* What a scan renders for a developer's file is its own content or a first version.
LEMMA ScanOwned ==
    ASSUME NEW c \in Code!CtrlCommands, NEW q \in Code!ScanControllers(c), q.mode = "DeveloperOwned"
    PROVE  \E r \in Code!Present(Code!Root(c.dir)) :
             q \in Code!Legacy(<<"api", r>>) \/ q = Code!Implementation(r)
<1> DEFINE apis == Code!Present(Code!Root(c.dir))
           ms == {ModuleOf[r] : r \in apis}
           k == IF c.dir = {} THEN "contract" ELSE "nested"
<1>1. \/ q \in UNION {Code!Legacy(<<"api", r>>) : r \in apis}
      \/ q \in UNION {Code!ModuleOutputs(m, Code!OfModule(apis, m), k) : m \in ms}
      \/ q \in {Code!Implementation(r) : r \in apis}
      \/ q \in (IF c.clean THEN Code!Stale(ms) ELSE {})
  BY DEF Code!ScanControllers
<1>2. \A m, S, n : q \notin Code!ModuleOutputs(m, S, n)
  BY DEF Code!ModuleOutputs, Code!Output
<1>3. q \notin Code!Stale(ms)
  BY DEF Code!Stale, Code!Output
<1> HIDE DEF apis, ms, k
<1>4. q \notin UNION {Code!ModuleOutputs(m, Code!OfModule(apis, m), k) : m \in ms}
  BY <1>2
<1>5. \/ q \in UNION {Code!Legacy(<<"api", r>>) : r \in apis}
      \/ q \in {Code!Implementation(r) : r \in apis}
  BY <1>1, <1>3, <1>4
<1> QED
  BY <1>5 DEF apis

\* A scan of the whole project neither adds nor removes an API definition.
LEMMA ScanKeepsApis ==
    ASSUME NEW c \in Code!CtrlCommands, NEW r \in Api
    PROVE  LET p == <<"api", r>> IN
           Code!Exists(Code!Applied(Code!ScanControllers(c))[p]) <=> Code!Exists(disk[p])
<1> DEFINE p == <<"api", r>>
           outputs == Code!ScanControllers(c)
<1>1. p \in Code!Path
  BY DEF Code!Path
<1>2. p \notin Code!Deletes(outputs)
  BY CtrlRules DEF Code!Deletes, RuleFits
<1>3. ASSUME NEW o \in Code!Writes(outputs), o.path = p
      PROVE  Code!Exists(Code!Content(o)) /\ Code!Exists(disk[p])
  <2>1. o \in outputs /\ o.mode # "Delete" /\ Code!Content(o) # disk[p] /\ RuleFits(o)
    BY <1>3, CtrlRules DEF Code!Writes
  <2>2. o.mode = "DeveloperOwned"
    BY <1>3, <2>1 DEF RuleFits, Code!Imports
  <2>3. PICK s : o \in Code!Legacy(<<"api", s>>) \/ o = Code!Implementation(s)
    BY <2>1, <2>2, ScanOwned
  <2>4. o \in Code!Legacy(p)
    BY <1>3, <2>3 DEF Code!Legacy, Code!Implementation, Code!Output
  <2>5. o.file = disk[p] /\ Code!Generated(disk[p])
    BY <2>4 DEF Code!Legacy, Code!Output
  <2> QED
    BY <1>3, <2>1, <2>5 DEF Code!Content, Code!Generated, Code!Exists, Code!NoFile, Code!GoFile
<1> HIDE DEF outputs
<1>4. \/ \E o \in Code!Writes(outputs) : o.path = p /\ Code!Applied(outputs)[p] = Code!Content(o)
      \/ Code!Applied(outputs)[p] = disk[p]
  BY <1>1, <1>2, AppliedAt
<1> QED
  BY <1>3, <1>4 DEF outputs

\* After a scan without --clean every API has an implementation.
LEMMA ScanImplements ==
    ASSUME NEW c \in Code!CtrlCommands, c.dir = {}, ~c.clean, NEW r \in Code!Present(Api)
    PROVE  Code!Exists(Code!Applied(Code!ScanControllers(c))[<<"implementation", r>>])
<1> DEFINE p == <<"implementation", r>>
           outputs == Code!ScanControllers(c)
           o == Code!Implementation(r)
<1>1. p \in Code!Path
  BY DEF Code!Path, Code!Present
<1>2. p \notin Code!Deletes(outputs)
  BY CtrlRules DEF Code!Deletes
<1>3. o \in outputs
  BY ScanOutputs
<1>4. /\ o.path = p /\ o.mode = "DeveloperOwned" /\ Code!Exists(Code!Content(o))
      /\ o.file # Code!NoFile
  BY DEF Code!Implementation, Code!Output, Code!Content, Code!Exists, Code!NoFile, Code!GoFile
<1>5. ASSUME NEW q \in Code!Writes(outputs), q.path = p
      PROVE  q = o
  <2>1. q \in outputs /\ q.mode # "Delete" /\ RuleFits(q)
    BY <1>5, CtrlRules DEF Code!Writes
  <2>2. q.mode = "DeveloperOwned"
    BY <1>5, <2>1 DEF RuleFits, Code!Imports
  <2>3. PICK s : q \in Code!Legacy(<<"api", s>>) \/ q = Code!Implementation(s)
    BY <2>1, <2>2, ScanOwned
  <2> QED
    BY <1>5, <2>3 DEF Code!Legacy, Code!Implementation, Code!Output
<1>6. o \notin Code!Writes(outputs) => Code!Exists(disk[p])
  BY <1>3, <1>4 DEF Code!Writes, Code!Owns
<1> HIDE DEF outputs, o
<1>7. \/ \E q \in Code!Writes(outputs) : q.path = p /\ Code!Applied(outputs)[p] = Code!Content(q)
      \/ Code!Applied(outputs)[p] = disk[p] /\ \A q \in Code!Writes(outputs) : q.path # p
  BY <1>1, <1>2, AppliedAt
<1> QED
  BY <1>4, <1>5, <1>6, <1>7 DEF outputs

\* The controllers that a scan of the whole project leaves.
LEMMA CtrlFollows ==
    ASSUME NEW c \in Code!CtrlCommands, c.dir = {}, NEW r \in Code!Present(Api)
    PROVE  LET m     == ModuleOf[r]
               apis  == Code!Present(Api)
               after == Code!Applied(Code!ScanControllers(c))
           IN  /\ after[<<"contract", m>>].body = Code!OfModule(apis, m)
               /\ Code!Exists(after[<<"implementation", r>>]) \/ c.clean
               /\ \/ after[<<"constructors", m>>].body = Code!Versions(Code!OfModule(apis, m))
                  \/ ~Code!Generated(after[<<"constructors", m>>])
<1> DEFINE m     == ModuleOf[r]
           apis  == Code!Present(Api)
           outputs == Code!ScanControllers(c)
           after == Code!Applied(outputs)
           contract == Code!Output(<<"contract", m>>, "Forced",
                                   Code!GoFile("none", Code!OfModule(apis, m)))
           constructors ==
             Code!Output(<<"constructors", m>>, "Planned",
                         Code!GoFile("first", Code!Versions(Code!OfModule(apis, m))))
<1>1. <<"contract", m>> \in Code!Path /\ <<"constructors", m>> \in Code!Path
  BY DEF Code!Path, Code!Module, Code!Present
<1>2. /\ contract \in outputs /\ constructors \in outputs
      /\ \A q \in outputs : q.path = <<"contract", m>> => q = contract
      /\ \A q \in outputs : q.path = <<"constructors", m>> => q = constructors
  BY ScanOutputs
<1>3. /\ contract.path = <<"contract", m>> /\ contract.mode = "Forced"
      /\ contract.file = Code!GoFile("none", Code!OfModule(apis, m))
      /\ constructors.path = <<"constructors", m>> /\ constructors.mode = "Planned"
      /\ constructors.file = Code!GoFile("first", Code!Versions(Code!OfModule(apis, m)))
  BY DEF Code!Output
<1> HIDE DEF contract, constructors, outputs, apis, m
<1>4. Code!Applied(outputs)[<<"contract", m>>] = contract.file
  BY <1>1, <1>2, <1>3, SoleOutput
<1>5. \/ Code!Applied(outputs)[<<"constructors", m>>] = constructors.file
      \/ /\ Code!Applied(outputs)[<<"constructors", m>>] = disk[<<"constructors", m>>]
         /\ ~Code!Generated(disk[<<"constructors", m>>])
  BY <1>1, <1>2, <1>3, SoleOutput
<1>6. c.clean \/ Code!Exists(Code!Applied(outputs)[<<"implementation", r>>])
  BY ScanImplements DEF outputs
<1>7. /\ contract.file.body = Code!OfModule(apis, m)
      /\ constructors.file.body = Code!Versions(Code!OfModule(apis, m))
  BY <1>3 DEF Code!GoFile
<1> QED
  BY <1>4, <1>5, <1>6, <1>7 DEF outputs, apis, m

\* What gx service renders at the path of a Logic module, of its service, and at that
\* of the aggregator.
LEMMA ServiceOutputs ==
    ASSUME NEW c \in Code!ServiceCommands, NEW q \in Code!ScanServices(c)
    PROVE  LET scanned == Code!Scanned(c.module) IN
           /\ \A l \in Logic : q.path = <<"logic", l>> => q \in Code!LegacyLogic(l)
           /\ \A l \in Logic : q.path = <<"service", l>> =>
                q = Code!Service(l, disk[<<"logic", l>>].body)
           /\ q.path = Code!Imports => q = Code!Aggregator(scanned)
<1> DEFINE scanned == Code!Scanned(c.module)
<1>1. \/ q \in UNION {Code!LegacyLogic(l) : l \in scanned}
      \/ q \in {Code!Service(l, disk[<<"logic", l>>].body) : l \in scanned}
      \/ q \in Code!Model \/ q \in {Code!Aggregator(scanned)}
  BY DEF Code!ScanServices
<1> HIDE DEF scanned
<1>2. ASSUME NEW l, q \in Code!LegacyLogic(l)
      PROVE  q.path = <<"logic", l>>
  BY <1>2 DEF Code!LegacyLogic, Code!Output
<1>3. ASSUME NEW l, q = Code!Service(l, disk[<<"logic", l>>].body)
      PROVE  q.path = <<"service", l>>
  BY <1>3 DEF Code!Service, Code!Output
<1>4. q \in Code!Model => q.path = <<"model", "testmodel">>
  BY DEF Code!Model, Code!Output
<1>5. Code!Aggregator(scanned).path = <<"imports", "logic">> /\ Code!Imports = <<"imports", "logic">>
  BY DEF Code!Aggregator, Code!Output, Code!Imports
<1>6. CASE q \in UNION {Code!LegacyLogic(l) : l \in scanned}
  BY <1>2, <1>5, <1>6 DEF scanned
<1>7. CASE q \in {Code!Service(l, disk[<<"logic", l>>].body) : l \in scanned}
  <2>1. PICK l \in scanned : q = Code!Service(l, disk[<<"logic", l>>].body)
    BY <1>7
  <2>2. q.path = <<"service", l>>
    BY <1>3, <2>1
  <2> QED
    BY <1>5, <2>1, <2>2
<1> QED
  BY <1>1, <1>4, <1>5, <1>6, <1>7 DEF scanned

\* The services and the imports that a scan of the whole project leaves: the Logic
\* files keep their content, and the aggregator imports those that there are.
LEMMA ServiceFollows ==
    ASSUME NEW c \in Code!ServiceCommands, c.module = {}
    PROVE  LET after == Code!Applied(Code!ScanServices(c)) IN
           /\ \A l \in Logic :
                /\ Code!Exists(after[<<"logic", l>>]) <=> Code!Exists(disk[<<"logic", l>>])
                /\ Code!Exists(disk[<<"logic", l>>]) =>
                     after[<<"service", l>>].body = after[<<"logic", l>>].body
           /\ after[Code!Imports].body \cap Logic = Code!Scanned({})
<1> DEFINE outputs == Code!ScanServices(c)
           scanned == Code!Scanned({})
           service(l) == Code!Service(l, disk[<<"logic", l>>].body)
<1>1. \A q \in outputs : RuleFits(q) /\ q.mode # "Delete"
  BY ServiceRules
<1>2. Code!Deletes(outputs) = {}
  BY <1>1 DEF Code!Deletes
<1>3. ASSUME NEW l \in Logic
      PROVE  /\ Code!Exists(Code!Applied(outputs)[<<"logic", l>>])
                  <=> Code!Exists(disk[<<"logic", l>>])
             /\ Code!Applied(outputs)[<<"logic", l>>].body = disk[<<"logic", l>>].body
  <2> DEFINE p == <<"logic", l>>
  <2>1. p \in Code!Path
    BY DEF Code!Path
  <2>2. ASSUME NEW q \in Code!Writes(outputs), q.path = p
        PROVE  /\ Code!Exists(Code!Content(q)) /\ Code!Exists(disk[p])
               /\ Code!Content(q).body = disk[p].body
    <3>1. q \in Code!LegacyLogic(l)
      BY <2>2, ServiceOutputs DEF Code!Writes
    <3>2. q.mode = "DeveloperOwned" /\ disk[p].header = "first"
      BY <3>1 DEF Code!LegacyLogic, Code!Output
    <3> QED
      BY <2>2, <3>2 DEF Code!Content, Code!Exists, Code!NoFile, Code!GoFile
  <2> HIDE DEF outputs
  <2>3. \/ \E q \in Code!Writes(outputs) : q.path = p /\ Code!Applied(outputs)[p] = Code!Content(q)
        \/ Code!Applied(outputs)[p] = disk[p]
    BY <1>2, <2>1, AppliedAt
  <2> QED
    BY <2>2, <2>3
<1>4. ASSUME NEW l \in Logic, Code!Exists(disk[<<"logic", l>>])
      PROVE  Code!Applied(outputs)[<<"service", l>>].body = disk[<<"logic", l>>].body
  <2>1. service(l) \in outputs
    <3>1. l \in Code!Scanned(c.module)
      BY <1>4 DEF Code!Scanned
    <3> QED
      BY <3>1 DEF Code!ScanServices
  <2>2. /\ service(l).path = <<"service", l>> /\ service(l).mode = "Replacing"
        /\ service(l).file.body = disk[<<"logic", l>>].body
    BY DEF Code!Service, Code!Output, Code!GoFile
  <2>3. \A q \in outputs : q.path = <<"service", l>> => q = service(l)
    BY ServiceOutputs
  <2>4. <<"service", l>> \in Code!Path
    BY DEF Code!Path
  <2> HIDE DEF outputs, service
  <2>5. Code!Applied(outputs)[<<"service", l>>] = service(l).file
    BY <2>1, <2>2, <2>3, <2>4, SoleOutput
  <2> QED
    BY <2>2, <2>5
<1>5. Code!Applied(outputs)[Code!Imports].body \cap Logic = scanned
  <2> DEFINE aggregator == Code!Aggregator(scanned)
  <2>1. aggregator \in outputs
    BY DEF Code!ScanServices
  <2>2. /\ aggregator.path = Code!Imports /\ aggregator.mode = "Updated"
        /\ aggregator.file.body = (disk[Code!Imports].body \ Logic) \cup scanned
    BY DEF Code!Aggregator, Code!Aggregated, Code!Output, Code!GoFile
  <2>3. \A q \in outputs : q.path = Code!Imports => q = aggregator
    BY ServiceOutputs
  <2>4. Code!Imports \in Code!Path /\ scanned \subseteq Logic
    BY DEF Code!Path, Code!Imports, Code!Scanned
  <2> HIDE DEF outputs, aggregator, scanned
  <2>5. Code!Applied(outputs)[Code!Imports] = aggregator.file
    BY <2>1, <2>2, <2>3, <2>4, SoleOutput
  <2> QED
    BY <2>2, <2>4, <2>5
<1> QED
  BY <1>3, <1>4, <1>5

\* A command that has succeeded is a scan, or one of names; what it rendered is there.
LEMMA FollowsStep ==
    ASSUME Code!CommandInv, Code!Publish
    PROVE  FollowsSources'
<1>1. \/ done' = Code!NoCommand
      \/ done' = generating /\ disk' = Code!Applied(Code!Rendered(generating))
  BY DEF Code!Publish
<1>2. CASE done' = Code!NoCommand
  BY <1>2 DEF FollowsSources, Code!FollowsSources, Code!NoCommand
<1>3. ASSUME done' = generating, disk' = Code!Applied(Code!Rendered(generating)),
             generating.kind = "ctrl", generating.names = <<>>, generating.dir = {},
             NEW r \in Code!Present(Api)'
      PROVE  LET m == ModuleOf[r] IN
             /\ disk'[<<"contract", m>>].body = Code!OfModule(Code!Present(Api)', m)
             /\ Code!Exists(disk'[<<"implementation", r>>]) \/ generating.clean
             /\ \/ disk'[<<"constructors", m>>].body
                     = Code!Versions(Code!OfModule(Code!Present(Api)', m))
                \/ ~Code!Generated(disk'[<<"constructors", m>>])
  <2>1. generating \in Code!CtrlCommands
    BY <1>3 DEF Code!CommandInv, Code!ServiceCommands, Code!NoCommand
  <2>2. Code!Rendered(generating) = Code!ScanControllers(generating)
    BY <1>3 DEF Code!Rendered
  <2>3. Code!Present(Api)' = Code!Present(Api)
    <3>1. \A s \in Api :
            Code!Exists(disk'[<<"api", s>>]) <=> Code!Exists(disk[<<"api", s>>])
      BY <1>3, <2>1, <2>2, ScanKeepsApis
    <3> QED
      BY <3>1 DEF Code!Present
  <2> QED
    BY <1>3, <2>1, <2>2, <2>3, CtrlFollows
<1>4. ASSUME done' = generating, disk' = Code!Applied(Code!Rendered(generating)),
             generating.kind = "service", generating.names = <<>>, generating.module = {}
      PROVE  /\ \A l \in Code!Scanned({})' :
                  disk'[<<"service", l>>].body = disk'[<<"logic", l>>].body
             /\ disk'[Code!Imports].body \cap Logic = Code!Scanned({})'
  <2>1. generating \in Code!ServiceCommands
    BY <1>4 DEF Code!CommandInv, Code!CtrlCommands, Code!NoCommand
  <2>2. Code!Rendered(generating) = Code!ScanServices(generating)
    BY <1>4 DEF Code!Rendered
  <2>3. /\ \A l \in Logic :
             /\ Code!Exists(disk'[<<"logic", l>>]) <=> Code!Exists(disk[<<"logic", l>>])
             /\ Code!Exists(disk[<<"logic", l>>]) =>
                  disk'[<<"service", l>>].body = disk'[<<"logic", l>>].body
        /\ disk'[Code!Imports].body \cap Logic = Code!Scanned({})
    BY <1>4, <2>1, <2>2, ServiceFollows
  <2>4. Code!Scanned({})' = Code!Scanned({})
    BY <2>3 DEF Code!Scanned
  <2> QED
    BY <2>3, <2>4 DEF Code!Scanned
<1>5. CASE done' = generating /\ disk' = Code!Applied(Code!Rendered(generating))
  BY <1>3, <1>4, <1>5 DEF FollowsSources, Code!FollowsSources
<1> QED
  BY <1>1, <1>2, <1>5

\* FollowsSources: after a successful scan, and until somebody changes the project,
\* the generated code agrees with the sources it was generated from.
THEOREM CodeFollowsSources == GxSpec => []FollowsSources
<1>1. GxInit => FollowsSources
  BY DEF GxInit, NoCode, Code!GeneratorsInit, Code!NoCommand, FollowsSources, Code!FollowsSources
<1>2. Code!CommandInv /\ FollowsSources /\ [GxNext]_gxVars => FollowsSources'
  <2> SUFFICES ASSUME Code!CommandInv, FollowsSources, [GxNext]_gxVars
               PROVE  FollowsSources'
    OBVIOUS
  <2>1. CASE Code!Publish
    BY <2>1, FollowsStep
  <2>2. CASE done' = Code!NoCommand
    BY <2>2 DEF FollowsSources, Code!FollowsSources, Code!NoCommand
  <2>3. CASE UNCHANGED codeVars
    BY <2>3 DEF codeVars, FollowsSources, Code!FollowsSources, Code!Present, Code!Scanned
  <2>4. Code!GeneratorsNext => Code!Publish \/ done' = Code!NoCommand
    BY DEF Code!GeneratorsNext, Code!Run, Code!Fail, Code!Edit
  <2> QED
    BY <2>1, <2>2, <2>3, <2>4 DEF GxNext, gxVars
<1> QED
  BY <1>1, <1>2, CommandInitially, CommandStep, PTL DEF GxSpec

=============================================================================
