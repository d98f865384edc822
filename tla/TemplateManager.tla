---------------------------- MODULE TemplateManager ----------------------------
(***************************************************************************)
(* The template manager, src/template/template.go: the parsed snapshot that *)
(* Execute serves, the root and functions it was parsed from, and the       *)
(* watcher that drops the snapshot when files change.                       *)
(*                                                                          *)
(* updateMu is held across parsing by every method that publishes; mu only  *)
(* around single reads and writes, so it is one action each.  The files of  *)
(* a root are a version number that every edit raises; parsing reads it in  *)
(* one step.  A parse or the preparation of a watcher may fail.             *)
(***************************************************************************)
EXTENDS Naturals

CONSTANTS Proc,                   \* goroutines that call the manager
          Root, NoRoot,           \* template directories
          Func,                   \* names of template functions
          NoCache,                \* manager.templates = nil
          Nobody,                 \* updateMu is free
          MaxEdits                \* bound: edits of the files of a root

ASSUME RootAssumption == NoRoot \notin Root
ASSUME NobodyAssumption == Nobody \notin Proc

Snapshot == [root : Root, functions : SUBSET Func, version : Nat]

ASSUME CacheAssumption == NoCache \notin Snapshot

VARIABLES
    disk,                         \* version of the files under each root
    root, functions, templates,   \* the manager's fields
    watcher,                      \* root the current watcher watches, or NoRoot
    loop,                         \* its watchLoop: none, waiting or handling an event
    oldLoop,                      \* a loop told to stop: none, stopping or handling
    changed,                      \* an undelivered event of the watcher
    updateMu,                     \* who holds updateMu
    pc, method,                   \* per goroutine: where it is, in which method
    target,                       \* SetRoot's and AddFunc's argument
    parsed,                       \* the snapshot it has parsed
    added                         \* ghost: functions whose AddFunc returned nil

fields == <<root, functions, templates>>
watching == <<watcher, loop, oldLoop, changed>>
calls == <<pc, method, target, parsed>>
vars == <<disk, fields, watching, updateMu, calls, added>>

Method == {"Reload", "Execute", "SetRoot", "AddFunc", "Close"}

TypeOK ==
    /\ disk \in [Root -> Nat]
    /\ root \in Root \cup {NoRoot}
    /\ functions \subseteq Func
    /\ templates \in Snapshot \cup {NoCache}
    /\ watcher \in Root \cup {NoRoot}
    /\ loop \in {"none", "waiting", "handling"}
    /\ oldLoop \in {"none", "stopping", "handling"}
    /\ changed \in BOOLEAN
    /\ updateMu \in Proc \cup {Nobody}
    /\ pc \in [Proc -> {"idle", "lock", "locked", "parsed", "joining", "reread", "panicked"}]
    /\ method \in [Proc -> Method]
    /\ target \in [Proc -> Root \cup Func \cup {NoRoot}]
    /\ parsed \in [Proc -> Snapshot \cup {NoCache}]
    /\ added \subseteq Func

Init ==
    /\ disk = [r \in Root |-> 0]
    /\ root = NoRoot /\ functions = {} /\ templates = NoCache
    /\ watcher = NoRoot /\ loop = "none" /\ oldLoop = "none" /\ changed = FALSE
    /\ updateMu = Nobody
    /\ pc = [p \in Proc |-> "idle"]
    /\ method = [p \in Proc |-> "Reload"]
    /\ target = [p \in Proc |-> NoRoot]
    /\ parsed = [p \in Proc |-> NoCache]
    /\ added = {}

-----------------------------------------------------------------------------
(* Calls                                                                    *)

Goto(p, label) == pc' = [pc EXCEPT ![p] = label]

\* A method that publishes begins: it goes on when it gets updateMu.
Begin(p, m, arg) ==
    /\ pc[p] = "idle"
    /\ Goto(p, "lock")
    /\ method' = [method EXCEPT ![p] = m]
    /\ target' = [target EXCEPT ![p] = arg]
    /\ UNCHANGED <<disk, fields, watching, updateMu, parsed, added>>

\* Execute serves a snapshot it finds; without one it reloads first.
Execute(p) == templates = NoCache /\ Begin(p, "Execute", NoRoot)

\* updateMu.Lock, then the read of root and functions under mu.
Acquire(p) ==
    /\ updateMu = Nobody
    /\ updateMu' = p

Lock(p) ==
    /\ pc[p] = "lock"
    /\ Acquire(p)
    /\ Goto(p, "locked")
    /\ UNCHANGED <<disk, fields, watching, method, target, parsed, added>>

Unlock(p) == updateMu' = IF updateMu = p THEN Nobody ELSE updateMu

\* What method p holds updateMu for would parse.
Wanted(p) ==
    [root      |-> IF method[p] = "SetRoot" THEN target[p] ELSE root,
     functions |-> IF method[p] = "AddFunc" THEN functions \cup {target[p]} ELSE functions]

\* parseRoot: every file of the root, as they are now.
Parse(p) ==
    LET w == Wanted(p) IN
    /\ pc[p] = "locked" /\ method[p] # "Close" /\ w.root # NoRoot
    /\ parsed' = [parsed EXCEPT ![p] = [root |-> w.root, functions |-> w.functions,
                                        version |-> disk[w.root]]]
    /\ Goto(p, "parsed")
    /\ UNCHANGED <<disk, fields, watching, updateMu, method, target, added>>

\* parseRoot or prepareWatcher fails: nothing was changed.
Fail(p) ==
    /\ pc[p] \in {"locked", "parsed"}
    /\ pc[p] = "parsed" => method[p] = "SetRoot"
    /\ method[p] # "Close"
    /\ Goto(p, "idle")
    /\ Unlock(p)
    /\ parsed' = [parsed EXCEPT ![p] = NoCache]
    /\ UNCHANGED <<disk, fields, watching, method, target, added>>

\* Reload, Execute and AddFunc publish what they parsed.
Publish(p) ==
    /\ pc[p] = "parsed" /\ method[p] # "SetRoot"
    /\ templates' = parsed[p]
    /\ functions' = IF method[p] = "AddFunc" THEN parsed[p].functions ELSE functions
    /\ added' = IF method[p] = "AddFunc" THEN added \cup {target[p]} ELSE added
    /\ Goto(p, IF method[p] = "Execute" THEN "reread" ELSE "idle")
    /\ parsed' = [parsed EXCEPT ![p] = NoCache]
    /\ Unlock(p)
    /\ UNCHANGED <<disk, root, watching, method, target>>

\* Mutant: AddFunc never parses again.
NeverRooted == TRUE
Unrooted == root = NoRoot

\* AddFunc before there is a root only records the function.
AddFuncOnly(p) ==
    /\ pc[p] = "locked" /\ method[p] = "AddFunc" /\ Unrooted
    /\ functions' = functions \cup {target[p]}
    /\ added' = added \cup {target[p]}
    /\ Goto(p, "idle")
    /\ Unlock(p)
    /\ UNCHANGED <<disk, root, templates, watching, method, target, parsed>>

\* Execute reads the snapshot again after its Reload and looks its template up:
\* Lookup on a nil snapshot dereferences nil.
Reread(p) ==
    /\ pc[p] = "reread"
    /\ Goto(p, IF templates = NoCache THEN "panicked" ELSE "idle")
    /\ UNCHANGED <<disk, fields, watching, updateMu, method, target, parsed, added>>

\* Mutant: a snapshot is dropped under updateMu, like other updates.
DroppedUnderUpdateMu == updateMu = Nobody /\ templates' = NoCache
Dropped == templates' = NoCache

\* Invalidate, called by the application.
Invalidate ==
    /\ templates # NoCache
    /\ Dropped
    /\ UNCHANGED <<disk, root, functions, watching, updateMu, calls, added>>

-----------------------------------------------------------------------------
(* The watcher                                                              *)

\* stopWatcherUnlocked, called by SetRoot once its watcher is prepared and by
\* Close: the manager forgets the watcher and tells its loop to stop, which may
\* yet choose a pending event over the stop ...
StopWatcher(p) ==
    /\ \/ pc[p] = "parsed" /\ method[p] = "SetRoot"
       \/ pc[p] = "locked" /\ method[p] = "Close"
    /\ watcher' = NoRoot /\ loop' = "none" /\ changed' = FALSE
    /\ oldLoop' \in CASE loop = "waiting" /\ changed -> {"stopping", "handling"}
                      [] loop = "waiting" /\ ~changed -> {"stopping"}
                      [] loop = "handling" -> {"handling"}
                      [] OTHER             -> {oldLoop}
    /\ Goto(p, "joining")
    /\ UNCHANGED <<disk, fields, updateMu, method, target, parsed, added>>

\* Mutant: the loop is not waited for.
NotJoined == TRUE

\* ... and waits for it to end.
Joined == oldLoop = "none"

\* SetRoot publishes root, snapshot and watcher together.  The watcher saw no
\* change between the parse and its preparation.
PublishRoot(p) ==
    LET s == parsed[p] IN
    /\ pc[p] = "joining" /\ method[p] = "SetRoot" /\ Joined
    /\ root' = s.root
    /\ templates' = s
    /\ watcher' = s.root /\ loop' = "waiting" /\ changed' = FALSE
    /\ Goto(p, "idle")
    /\ parsed' = [parsed EXCEPT ![p] = NoCache]
    /\ Unlock(p)
    /\ UNCHANGED <<disk, functions, oldLoop, method, target, added>>

\* Close returns; so does SetRoot if closing the old watcher reported an error.
Closed(p) ==
    /\ pc[p] = "joining" /\ Joined
    /\ Goto(p, "idle")
    /\ parsed' = [parsed EXCEPT ![p] = NoCache]
    /\ Unlock(p)
    /\ UNCHANGED <<disk, fields, watching, method, target, added>>

\* The files of a root change; the watcher of that root reports it.
Edit(r) ==
    /\ disk[r] < MaxEdits
    /\ disk' = [disk EXCEPT ![r] = @ + 1]
    /\ changed' = (changed \/ watcher = r)
    /\ UNCHANGED <<fields, watcher, loop, oldLoop, updateMu, calls, added>>

\* watchLoop takes the event ...
Event ==
    /\ loop = "waiting" /\ changed
    /\ changed' = FALSE
    /\ loop' = "handling"
    /\ UNCHANGED <<disk, fields, watcher, oldLoop, updateMu, calls, added>>

\* ... and calls Invalidate, for which it needs mu only.
HandleEvent ==
    /\ loop = "handling"
    /\ Dropped
    /\ loop' = "waiting"
    /\ UNCHANGED <<disk, root, functions, watcher, oldLoop, changed, updateMu, calls, added>>

\* A loop told to stop may still be handling an event, and then ends.
HandleLast ==
    /\ oldLoop = "handling"
    /\ Dropped
    /\ oldLoop' = "stopping"
    /\ UNCHANGED <<disk, root, functions, watcher, loop, changed, updateMu, calls, added>>

LoopEnds ==
    /\ oldLoop = "stopping"
    /\ oldLoop' = "none"
    /\ UNCHANGED <<disk, fields, watcher, loop, changed, updateMu, calls, added>>

CallNext(p) ==
    \/ Lock(p) \/ Parse(p) \/ Fail(p) \/ Publish(p) \/ AddFuncOnly(p) \/ Reread(p)
    \/ StopWatcher(p) \/ PublishRoot(p) \/ Closed(p)

Next ==
    \/ \E p \in Proc :
         \/ Execute(p) \/ Begin(p, "Reload", NoRoot) \/ Begin(p, "Close", NoRoot)
         \/ \E r \in Root : Begin(p, "SetRoot", r)
         \/ \E f \in Func : Begin(p, "AddFunc", f)
         \/ CallNext(p)
    \/ Invalidate
    \/ \E r \in Root : Edit(r)
    \/ Event \/ HandleEvent \/ HandleLast \/ LoopEnds

Spec == Init /\ [][Next]_vars

\* Goroutines that can go on do; updateMu is granted fairly (strong fairness:
\* sync.Mutex hands a starving waiter the lock).
Fairness ==
    /\ \A p \in Proc : SF_vars(Lock(p)) /\ WF_vars(CallNext(p))
    /\ WF_vars(HandleLast) /\ WF_vars(LoopEnds)

FairSpec == Spec /\ Fairness

-----------------------------------------------------------------------------
(* Properties                                                               *)

\* The snapshot being served was parsed from the manager's root with all of its
\* functions: no publisher overtakes another between parse and publication.
SnapshotMatches ==
    templates # NoCache => templates.root = root /\ templates.functions = functions

\* A function whose AddFunc succeeded is never lost to a concurrent update.
FunctionsKept == added \subseteq functions

\* The loop of a watcher that was replaced or closed never drops a snapshot of
\* its successor: SetRoot publishes only after joining it.
DropsAreCurrent ==
    [][HandleLast /\ templates # NoCache => watcher = NoRoot]_vars

\* SetRoot and Close wait for the watch loop while they hold updateMu; the loop
\* never needs updateMu to end, so every method returns.
MethodsReturn == \A p \in Proc : pc[p] # "idle" ~> pc[p] \in {"idle", "panicked"}

\* "SetRoot, AddFunc, Reload, Execute and watcher reload coordinate safely"
\* (README.md:448): Execute always has a snapshot to look its template up in.
ExecuteHasSnapshot == \A p \in Proc : pc[p] # "panicked"

\* updateMu has one holder: the goroutine between Lock and its return.
Holds(p) == pc[p] \in {"locked", "parsed", "joining"}
MutexInv == \A p \in Proc : Holds(p) <=> updateMu = p

TargetInv ==
    \A p \in Proc : pc[p] # "idle" =>
        /\ method[p] = "SetRoot" => target[p] \in Root
        /\ method[p] = "AddFunc" => target[p] \in Func

\* What the holder has parsed stays what it would parse: only it changes root and
\* functions.
ParsedInv ==
    \A p \in Proc :
        /\ pc[p] = "parsed" => method[p] # "Close"
        /\ pc[p] = "joining" => method[p] \in {"SetRoot", "Close"}
        /\ pc[p] = "parsed" \/ (pc[p] = "joining" /\ method[p] = "SetRoot")
             => /\ parsed[p] \in Snapshot
                /\ parsed[p].root = Wanted(p).root
                /\ parsed[p].functions = Wanted(p).functions

\* A loop told to stop still exists only while the method that stopped it waits.
LoopInv ==
    oldLoop # "none" =>
        /\ watcher = NoRoot /\ loop = "none"
        /\ \E p \in Proc : pc[p] = "joining"

\* The inductive invariant.
TemplateInv ==
    /\ TypeOK /\ SnapshotMatches /\ FunctionsKept
    /\ MutexInv /\ TargetInv /\ ParsedInv /\ LoopInv

=============================================================================
