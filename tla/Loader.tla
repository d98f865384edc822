-------------------------------- MODULE Loader --------------------------------
(***************************************************************************)
(* The loader of persistent jobs, src/scheduler/persistence.go and           *)
(* reconcile.go: Sync brings the jobs of a scheduler to the definitions that *)
(* a store lists, one scheduler call at a time, and undoes them in reverse   *)
(* when one fails.                                                           *)
(*                                                                           *)
(* The scheduler is seen through the contract of Add, Replace and Remove     *)
(* (Scheduler): a call takes full effect, or it fails and the jobs are as    *)
(* before.  Any call may fail.  The jobs the loader manages are its own:     *)
(* the application does not touch them.  Several goroutines may call Sync,   *)
(* and the store changes at any time.  A definition is its name and its      *)
(* version, the token by which Sync tells changes; a disabled definition     *)
(* counts as absent.                                                         *)
(***************************************************************************)
EXTENDS Naturals, Sequences

CONSTANTS ID, Name,          \* persistent job IDs and runtime names
          Version,           \* versions of a definition
          Absent,            \* no definition, no job
          Caller, NoCaller,    \* goroutines that call Sync
          MaxRev             \* bound: changes of the store

Stored == [name : Name, version : Version]
Job == [id : ID, version : Version]
Definitions == [ID -> Stored \cup {Absent}]
NoDefinitions == [i \in ID |-> Absent]
Snapshot == [rev : Nat, defs : Definitions]

ASSUME AbsentAssumption == Absent \notin Stored \cup Job \cup Snapshot
ASSUME NoCallerAssumption == NoCaller \notin Caller

VARIABLES
    store,        \* what Store.List would return, and the number of its changes
    mu,           \* who holds loader.mu
    listed,       \* per caller: the snapshot its Sync has read
    loaded,       \* loader.loaded
    jobs,         \* the scheduler's jobs, by name
    undos,        \* the calls of this Sync that succeeded, oldest first
    failing,      \* this Sync is rolling back
    committed,    \* ghost: the snapshot loaded was taken from
    damaged       \* ghost: the scheduler refused an undo

sync == <<mu, listed, undos, failing>>
loaderVars == <<store, sync, loaded, jobs, committed, damaged>>

SchedulerCall == [op : {"replace", "remove", "add"}, id : ID]

LoaderTypeOK ==
    /\ store \in Snapshot
    /\ mu \in Caller \cup {NoCaller}
    /\ listed \in [Caller -> Snapshot \cup {Absent}]
    /\ loaded \in Definitions
    /\ jobs \in [Name -> Job \cup {Absent}]
    /\ undos \in Seq(SchedulerCall)
    /\ failing \in BOOLEAN
    /\ committed \in Nat
    /\ damaged \in BOOLEAN

LoaderInit ==
    /\ store = [rev |-> 0, defs |-> NoDefinitions]
    /\ mu = NoCaller /\ listed = [p \in Caller |-> Absent]
    /\ loaded = NoDefinitions
    /\ jobs = [n \in Name |-> Absent]
    /\ undos = <<>> /\ failing = FALSE
    /\ committed = 0 /\ damaged = FALSE

-----------------------------------------------------------------------------
(* Beginning                                                                *)

\* Somebody edits the definitions.
EditStore ==
    /\ store.rev < MaxRev
    /\ \E d \in Definitions : store' = [rev |-> store.rev + 1, defs |-> d]
    /\ UNCHANGED <<sync, loaded, jobs, committed, damaged>>

Lock(p) ==
    /\ mu = NoCaller
    /\ mu' = p
    /\ UNCHANGED <<store, listed, undos, failing, loaded, jobs, committed, damaged>>

\* Mutant: the store is read before loader.mu is taken.
AnyoneLists(p) == p \in Caller
MayList(p) == mu = p

\* prepareDefinitions accepts definitions only if no two share a name.
Prepared(d) ==
    \A i, j \in ID : i # j /\ d[i] # Absent /\ d[j] # Absent => d[i].name # d[j].name

\* Store.List, and the validation of what it returned.
List(p) ==
    /\ MayList(p) /\ listed[p] = Absent
    /\ Prepared(store.defs)
    /\ listed' = [listed EXCEPT ![p] = store]
    /\ UNCHANGED <<store, mu, undos, failing, loaded, jobs, committed, damaged>>

\* Listing or validation failed, or the context has ended: nothing was changed.
Refuse(p) ==
    /\ mu = p /\ listed[p] = Absent
    /\ mu' = NoCaller
    /\ UNCHANGED <<store, listed, undos, failing, loaded, jobs, committed, damaged>>

-----------------------------------------------------------------------------
(* What there is to do                                                      *)

desired(p) == listed[p].defs

Kept(p, i) ==
    /\ loaded[i] # Absent /\ desired(p)[i] # Absent
    /\ loaded[i].name = desired(p)[i].name

Done(op, i) == \E k \in DOMAIN undos : undos[k] = [op |-> op, id |-> i]

\* Mutant: only the name of a definition is compared.
NeverChanged(p, i) == FALSE
Changed(p, i) == Kept(p, i) /\ loaded[i].version # desired(p)[i].version

\* Mutant: a job with a new version is removed and added anew.
StaleOrChanged(p, i) == loaded[i] # Absent /\ loaded[i] # desired(p)[i]
Stale(p, i) == loaded[i] # Absent /\ ~Kept(p, i)

Fresh(p, i) == desired(p)[i] # Absent /\ ~Kept(p, i)

ToReplace(p) == {i \in ID : Changed(p, i) /\ ~Done("replace", i)}
ToRemove(p) == {i \in ID : Stale(p, i) /\ ~Done("remove", i)}
ToAdd(p) == {i \in ID : Fresh(p, i) /\ ~Done("add", i)}

\* Mutant: additions do not wait for the removals.
AddsAnyTime(p) == ToReplace(p) = {}
RemovalsDone(p) == ToReplace(p) = {} /\ ToRemove(p) = {}

-----------------------------------------------------------------------------
(* The scheduler                                                            *)

Desired(p, i) == [id |-> i, version |-> desired(p)[i].version]
Loaded(i) == [id |-> i, version |-> loaded[i].version]

\* Replace needs the job, Add a free name.  Removing a job that is not there is a
\* success for the loader.
CanReplace(n) == jobs[n] # Absent
CanAdd(n) == jobs[n] = Absent
Put(n, job) == jobs' = [jobs EXCEPT ![n] = job]

-----------------------------------------------------------------------------
(* Reconciling                                                              *)

Working(p) == mu = p /\ listed[p] # Absent /\ ~failing

Record(op, i) ==
    /\ undos' = Append(undos, [op |-> op, id |-> i])
    /\ UNCHANGED <<store, mu, listed, failing, loaded, committed, damaged>>

\* Same ID, same name, another version.
Replace(p, i) ==
    /\ Working(p) /\ i \in ToReplace(p)
    /\ CanReplace(loaded[i].name)
    /\ Put(loaded[i].name, Desired(p, i))
    /\ Record("replace", i)

\* Stale and renamed jobs, before additions that may use their names.
Remove(p, i) ==
    /\ Working(p) /\ ToReplace(p) = {} /\ i \in ToRemove(p)
    /\ Put(loaded[i].name, Absent)
    /\ Record("remove", i)

Add(p, i) ==
    /\ Working(p) /\ RemovalsDone(p) /\ i \in ToAdd(p)
    /\ CanAdd(desired(p)[i].name)
    /\ Put(desired(p)[i].name, Desired(p, i))
    /\ Record("add", i)

\* The next call failed, or the context ended, which is noticed before every
\* definition, also before those there is nothing to do for.
Fail(p) ==
    /\ Working(p)
    /\ \/ ToReplace(p) \cup ToRemove(p) \cup ToAdd(p) # {}
       \/ \E i \in ID : Kept(p, i)
    /\ failing' = TRUE
    /\ UNCHANGED <<store, mu, listed, undos, loaded, jobs, committed, damaged>>

\* Sync returns.
Leave(p) ==
    /\ mu' = NoCaller
    /\ listed' = [listed EXCEPT ![p] = Absent]
    /\ undos' = <<>> /\ failing' = FALSE
    /\ UNCHANGED store

\* Everything succeeded: what was read is what is loaded.
Commit(p) ==
    /\ Working(p) /\ RemovalsDone(p) /\ ToAdd(p) = {}
    /\ loaded' = desired(p)
    /\ committed' = listed[p].rev
    /\ Leave(p)
    /\ UNCHANGED <<jobs, damaged>>

-----------------------------------------------------------------------------
(* Rolling back                                                             *)

\* The undo of a call, if the scheduler carries it out; Add and Replace fail when
\* the name is taken or the job is missing.
Undone(p, call) ==
    LET i == call.id IN
    CASE call.op = "add" -> Put(desired(p)[i].name, Absent)
      [] call.op = "remove" /\ CanAdd(loaded[i].name) -> Put(loaded[i].name, Loaded(i))
      [] call.op = "replace" /\ CanReplace(loaded[i].name) -> Put(loaded[i].name, Loaded(i))
      [] OTHER -> UNCHANGED jobs

\* Mutant: calls are undone in the order they were made.
Oldest(s) == [call |-> Head(s), rest |-> Tail(s)]
Latest(s) == [call |-> s[Len(s)], rest |-> SubSeq(s, 1, Len(s) - 1)]

\* The latest call is undone, or the scheduler refuses; the rollback goes on.
Undo(p) ==
    /\ mu = p /\ failing /\ undos # <<>>
    /\ \/ Undone(p, Latest(undos).call) /\ UNCHANGED damaged
       \/ damaged' = TRUE /\ UNCHANGED jobs
    /\ undos' = Latest(undos).rest
    /\ UNCHANGED <<store, mu, listed, failing, loaded, committed>>

\* The rollback is complete and Sync returns the error.
GiveUp(p) ==
    /\ mu = p /\ failing /\ undos = <<>>
    /\ Leave(p)
    /\ UNCHANGED <<loaded, jobs, committed, damaged>>

LoaderNext ==
    \/ EditStore
    \/ \E p \in Caller :
         \/ Lock(p) \/ List(p) \/ Refuse(p) \/ Fail(p) \/ Commit(p) \/ Undo(p) \/ GiveUp(p)
         \/ \E i \in ID : Replace(p, i) \/ Remove(p, i) \/ Add(p, i)

LoaderSpec == LoaderInit /\ [][LoaderNext]_loaderVars

-----------------------------------------------------------------------------
(* Properties                                                               *)

\* The jobs that definitions d stand for.
Runtime(d) ==
    [n \in Name |->
       IF \E i \in ID : d[i] # Absent /\ d[i].name = n
       THEN LET i == CHOOSE i \in ID : d[i] # Absent /\ d[i].name = n
            IN [id |-> i, version |-> d[i].version]
       ELSE Absent]

\* "Only complete success commits the loaded snapshot" and a failure is rolled back
\* (README.md, persistent jobs): between Syncs the scheduler has exactly the
\* loaded jobs, unless it refused an undo.
LoadedIsScheduled == mu = NoCaller /\ ~damaged => jobs = Runtime(loaded)

\* An ID never has jobs under two names, not even during a rename or its rollback.
NeverTwice ==
    ~damaged => \A n, m \in Name :
        n # m /\ jobs[n] # Absent /\ jobs[m] # Absent => jobs[n].id # jobs[m].id

\* "Same-ID/same-name version updates can use the scheduler's atomic Replace path
\* and preserve the overlap gate" (reconcile.go:62-63): a job whose definition keeps
\* its name is never unscheduled, and one that did not change is not touched.
KeptJobsStay ==
    [][\A p \in Caller, i \in ID :
         mu = p /\ listed[p] # Absent /\ Kept(p, i) /\ ~damaged =>
           LET n == loaded[i].name IN
           /\ jobs'[n] # Absent /\ jobs'[n].id = i
           /\ ~Changed(p, i) => jobs'[n] = jobs[n]]_loaderVars

\* "An older Store.List snapshot cannot commit after a newer concurrent Sync"
\* (reconcile.go:18-20).
NewestCommits == [][committed' >= committed]_loaderVars

-----------------------------------------------------------------------------
(* The inductive invariant                                                  *)

\* In the middle of a Sync an ID is scheduled by its new definition, by none, or still
\* by the loaded one, as the calls that are not undone have it.
Current ==
    [i \in ID |-> IF Done("replace", i) \/ Done("add", i) THEN desired(mu)[i]
                  ELSE IF Done("remove", i) THEN Absent ELSE loaded[i]]

\* Jobs s are those of definitions d and no others, so no two of d share a name.
Scheduled(s, d) ==
    /\ \A i \in ID : d[i] # Absent => s[d[i].name] = [id |-> i, version |-> d[i].version]
    /\ \A n \in Name : s[n] # Absent => \E i \in ID : d[i] # Absent /\ d[i].name = n

\* Only the Sync that holds mu has listed the store, and nothing was committed since.
ListInv ==
    /\ committed <= store.rev /\ Prepared(loaded)
    /\ undos # <<>> \/ failing => mu \in Caller /\ listed[mu] # Absent
    /\ \A p \in Caller : listed[p] # Absent =>
          /\ p = mu /\ Prepared(desired(p))
          /\ committed <= listed[p].rev /\ listed[p].rev <= store.rev

\* Each call was made once and for its reason, and additions after all the others: the
\* latest of them can always be undone.
UndoInv ==
    /\ \A k \in DOMAIN undos :
          LET i == undos[k].id IN
          /\ undos[k].op = "replace" => Changed(mu, i)
          /\ undos[k].op = "remove" => Stale(mu, i)
          /\ undos[k].op = "add" =>
                /\ Fresh(mu, i) /\ (Stale(mu, i) => Done("remove", i))
                /\ \A m \in DOMAIN undos : m > k => undos[m].op = "add"
          /\ \A m \in DOMAIN undos : undos[m] = undos[k] => m = k
    /\ ~failing /\ (\E k \in DOMAIN undos : undos[k].op = "add") => RemovalsDone(mu)

LoaderInv == LoaderTypeOK /\ ListInv /\ UndoInv /\ (~damaged => Scheduled(jobs, Current))

=============================================================================
