------------------------------ MODULE Scheduler ------------------------------
(***************************************************************************)
(* The built-in job scheduler, src/scheduler/scheduler.go: the manager, its *)
(* job records (generations), the handles they hold in the gocron engine,   *)
(* and the goroutines in which the engine runs triggers.                    *)
(*                                                                          *)
(* Manager methods hold manager.mu from their first read to their last      *)
(* write, so the ones that change the engine are split only where a trigger *)
(* can observe them half way: after a record's engine job is installed and  *)
(* before the record is published or aborted.  op is the method that holds  *)
(* manager.mu between those steps.  The engine is external: it triggers     *)
(* installed jobs at any time and may refuse to install or to remove a job. *)
(***************************************************************************)
EXTENDS Gate, FiniteSets, Sequences

CONSTANTS Name,       \* job names
          Call,       \* goroutines in which the engine runs triggers
          Policies,   \* overlap policies applications use
          MaxRec,     \* bound: generations created in a behaviour
          MayFail     \* whether the engine may refuse to remove a job

Rec == 1..MaxRec
NoRec == 0

ASSUME TokenAssumption == Token = Rec /\ NoToken = NoRec
ASSUME SchedulerAssumption == Name # {} /\ Policies \subseteq Policy /\ MaxRec \in Nat

VARIABLES
    engine,      \* manager.inner: "none", "running" or "closed"
    started,     \* manager.started
    stop,        \* manager.stopping and manager.stopped
    jobs,        \* manager.jobs: the registered generation of each name
    made,        \* generations created so far
    name, gateOf, policyOf,  \* of each record: definition and shared gate
    state,       \* active and ready of each record: "pending" (not published),
                 \* "active", or "inactive" (aborted or deactivated; ready closed)
    inner,       \* records that hold their own engine handle
    cleanup,     \* handles of other records a record must still remove
    installed,   \* records whose engine job exists
    gates,       \* the overlap gates, named by the record that created them
    op,          \* the Add or Replace that holds manager.mu
    pc, at       \* per goroutine: where it is, and the generation it runs

records == <<name, gateOf, policyOf>>
calls == <<pc, at>>
manager == <<engine, started, stop, jobs, made, records, state, inner, cleanup, installed, op>>
vars == <<manager, gates, calls>>

NoOp == [kind |-> "none", new |-> NoRec, old |-> NoRec]

\* "remove": the replacement is installed, the old engine job is not yet removed.
\* "commit": every engine change of the method has succeeded.
Op == {NoOp} \cup [kind : {"remove", "commit"}, new : Rec, old : Rec \cup {NoRec}]

TypeOK ==
    /\ engine \in {"none", "running", "closed"}
    /\ started \in BOOLEAN
    /\ stop \in {"no", "stopping", "stopped"}
    /\ jobs \in [Name -> Rec \cup {NoRec}]
    /\ made \in 0..MaxRec
    /\ name \in [Rec -> Name]
    /\ gateOf \in [Rec -> Rec]
    /\ policyOf \in [Rec -> Policy]
    /\ state \in [Rec -> {"pending", "active", "inactive"}]
    /\ inner \subseteq Rec
    /\ cleanup \in [Rec -> SUBSET Rec]
    /\ installed \subseteq Rec
    /\ gates \in [Rec -> GateState]
    /\ op \in Op
    /\ pc \in [Call -> {"idle", "triggered", "runnable", "running"}]
    /\ at \in [Call -> Rec \cup {NoRec}]

Init ==
    /\ engine = "none" /\ started = FALSE /\ stop = "no" /\ op = NoOp
    /\ jobs = [n \in Name |-> NoRec]
    /\ made = 0
    /\ name = [r \in Rec |-> CHOOSE n \in Name : TRUE]
    /\ gateOf = [r \in Rec |-> r]
    /\ policyOf = [r \in Rec |-> "SkipIfRunning"]
    /\ state = [r \in Rec |-> "pending"]
    /\ inner = {} /\ installed = {}
    /\ cleanup = [r \in Rec |-> {}]
    /\ gates = [r \in Rec |-> NewGate("SkipIfRunning")]
    /\ pc = [c \in Call |-> "idle"]
    /\ at = [c \in Call |-> NoRec]

-----------------------------------------------------------------------------
(* Records                                                                  *)

Registered == {jobs[n] : n \in Name} \ {NoRec}

MutexFree == op = NoOp

Accepting == MutexFree /\ stop = "no"

\* newJobRecord: the next record, for a definition, sharing gate g.
NewRecord(r, n, p, g) ==
    /\ r = made + 1 /\ r \in Rec
    /\ made' = r
    /\ name' = [name EXCEPT ![r] = n]
    /\ policyOf' = [policyOf EXCEPT ![r] = p]
    /\ gateOf' = [gateOf EXCEPT ![r] = g]

\* Mutant: a record is published before the method that makes it commits.
PublishedAtOnce == "active"

\* A record made before Start is published at once, and nothing is installed.
FreshState == IF started THEN "pending" ELSE "active"

\* abort: an unpublished record never runs.  Mutant: its ready channel is left
\* open.
NotAborted(r) == state
Aborted(r) == [state EXCEPT ![r] = "inactive"]

\* setPolicy on a shared gate.  Mutant: the replacement gets a gate of its own.
SwitchedToFresh(g, p) == [gates EXCEPT ![g] = NewGate(p)]
Switched(g, p) == [gates EXCEPT ![g] = WithPolicy(@, p)]

\* installLocked: the engine has a job whose task runs record r.
Install(r) ==
    /\ installed' = installed \cup {r}
    /\ inner' = inner \cup {r}

-----------------------------------------------------------------------------
(* removeEngineJobsLocked: the outcomes of removing every handle record r   *)
(* owns.  The cleanup handles go first; while one of them stays (left) the  *)
(* record's own handle is not touched (primary: the record still holds it). *)

\* Mutant: the record's own handle is removed whatever became of the others.
RemovalsUnordered(r) ==
    {o \in [left : SUBSET cleanup[r], primary : BOOLEAN] :
        /\ o.primary => r \in inner
        /\ ~MayFail => o.left = {} /\ ~o.primary}

Removals(r) ==
    {o \in [left : SUBSET cleanup[r], primary : BOOLEAN] :
        /\ o.left # {} => o.primary = (r \in inner)
        /\ o.primary => r \in inner
        /\ ~MayFail => o.left = {} /\ ~o.primary}

Clean(o) == o.left = {} /\ ~o.primary

RemovedHandles(r, o) ==
    (cleanup[r] \ o.left) \cup (IF r \in inner /\ ~o.primary THEN {r} ELSE {})

\* The cleanup of the old record after a Replace that failed with outcome o for
\* it and u for the replacement new.  Mutant: the replacement's handle is lost.
InheritedOwn(new, o, u) == o.left
Inherited(new, o, u) == o.left \cup (IF u.primary THEN {new} ELSE {})

-----------------------------------------------------------------------------
(* Manager methods                                                          *)

\* Start: installs every registered job in a new engine and runs it.
Start ==
    /\ Accepting /\ ~started
    /\ engine' = "running"
    /\ started' = TRUE
    /\ installed' = Registered
    /\ inner' = inner \cup Registered
    /\ UNCHANGED <<stop, jobs, made, records, state, cleanup, op, gates, calls>>

\* Start fails on a job the engine refuses (a Once whose time has passed): the
\* engine is discarded, the handles taken from it stay in the records.
StartFails ==
    /\ Accepting /\ ~started
    /\ \E S \in SUBSET Registered :
         /\ S # Registered
         /\ inner' = inner \cup S
    /\ UNCHANGED <<engine, started, stop, jobs, made, records, state, cleanup,
                   installed, op, gates, calls>>

\* Without an engine Stop is complete at once.
StopOutcome == IF engine = "none" THEN "stopped" ELSE "stopping"

\* Stop: refuses further changes and starts the engine's shutdown.
Stop ==
    /\ Accepting
    /\ stop' = StopOutcome
    /\ UNCHANGED <<engine, started, jobs, made, records, state, inner, cleanup,
                   installed, op, gates, calls>>

\* The shutdown goroutine: the engine stops triggering, with or without its
\* running jobs having returned ...
EngineShutdown ==
    /\ stop = "stopping" /\ engine = "running"
    /\ engine' = "closed"
    /\ installed' = {}
    /\ UNCHANGED <<started, stop, jobs, made, records, state, inner, cleanup, op, gates, calls>>

\* ... and then the attempt is closed under manager.mu.
StopCompletes ==
    /\ stop = "stopping" /\ engine = "closed" /\ MutexFree
    /\ stop' = "stopped"
    /\ UNCHANGED <<engine, started, jobs, made, records, state, inner, cleanup,
                   installed, op, gates, calls>>

\* Add: before Start the record is simply registered; on a running engine it is
\* installed first.  (A refused installation leaves nothing behind.)
Add(n, p) ==
    /\ Accepting /\ jobs[n] = NoRec
    /\ \E r \in Rec :
         /\ NewRecord(r, n, p, r)
         /\ gates' = [gates EXCEPT ![r] = NewGate(p)]
         /\ state' = [state EXCEPT ![r] = FreshState]
         /\ \/ /\ ~started
               /\ jobs' = [jobs EXCEPT ![n] = r]
               /\ UNCHANGED <<inner, installed, op>>
            \/ /\ started
               /\ Install(r)
               /\ op' = [kind |-> "commit", new |-> r, old |-> NoRec]
               /\ UNCHANGED jobs
    /\ UNCHANGED <<engine, started, stop, cleanup, calls>>

\* Replace: the replacement shares the gate of the old generation.  Before Start
\* it takes over at once; on a running engine it is installed first.
Replace(n, p) ==
    LET old == jobs[n] IN
    /\ Accepting /\ old # NoRec
    /\ \E r \in Rec :
         /\ NewRecord(r, n, p, gateOf[old])
         /\ \/ /\ ~started
               /\ state' = [state EXCEPT ![r] = FreshState, ![old] = "inactive"]
               /\ gates' = Switched(gateOf[old], p)
               /\ jobs' = [jobs EXCEPT ![n] = r]
               /\ UNCHANGED <<inner, installed, op>>
            \/ /\ started
               /\ state' = [state EXCEPT ![r] = FreshState]
               /\ Install(r)
               /\ op' = [kind |-> "remove", new |-> r, old |-> old]
               /\ UNCHANGED <<jobs, gates>>
    /\ UNCHANGED <<engine, started, stop, cleanup, calls>>

\* Replace removed every engine job of the old generation.
ReplaceRemoves ==
    /\ op.kind = "remove"
    /\ \E o \in Removals(op.old) :
         /\ Clean(o)
         /\ installed' = installed \ RemovedHandles(op.old, o)
    /\ inner' = inner \ {op.old}
    /\ cleanup' = [cleanup EXCEPT ![op.old] = {}]
    /\ op' = [op EXCEPT !.kind = "commit"]
    /\ UNCHANGED <<engine, started, stop, jobs, made, records, state, gates, calls>>

\* The old engine jobs could not all be removed: the replacement is aborted and
\* its own engine job removed, or else left to the old record's cleanup.
ReplaceFails ==
    LET new == op.new
        old == op.old IN
    /\ op.kind = "remove"
    /\ state' = Aborted(new)
    /\ \E o \in Removals(old), u \in Removals(new) :
         /\ ~Clean(o)
         /\ installed' = installed \ (RemovedHandles(old, o) \cup RemovedHandles(new, u))
         /\ inner' = (inner \ {old, new}) \cup (IF o.primary THEN {old} ELSE {})
         /\ cleanup' = [cleanup EXCEPT ![old] = Inherited(new, o, u), ![new] = {}]
    /\ op' = NoOp
    /\ UNCHANGED <<engine, started, stop, jobs, made, records, gates, calls>>

\* The commit of Add and Replace on a running engine: deactivate the old
\* generation, switch the gate's policy, register and publish the new one.
Commit ==
    LET new == op.new
        old == op.old IN
    /\ op.kind = "commit"
    /\ state' = [r \in Rec |-> CASE r = new -> "active"
                                 [] r = old -> "inactive"
                                 [] OTHER   -> state[r]]
    /\ gates' = Switched(gateOf[new], policyOf[new])
    /\ jobs' = [jobs EXCEPT ![name[new]] = new]
    /\ op' = NoOp
    /\ UNCHANGED <<engine, started, stop, made, records, inner, cleanup, installed, calls>>

\* Remove: allowed after Stop too, when the engine may no longer answer.  While
\* an engine handle stays, the job stays.
Remove(n) ==
    LET r == jobs[n] IN
    /\ MutexFree /\ r # NoRec
    /\ \E o \in Removals(r) :
         \/ /\ ~started \/ Clean(o)
            /\ state' = [state EXCEPT ![r] = "inactive"]
            /\ jobs' = [jobs EXCEPT ![n] = NoRec]
            /\ installed' = installed \ RemovedHandles(r, o)
            /\ inner' = inner \ {r}
            /\ cleanup' = [cleanup EXCEPT ![r] = {}]
         \/ /\ started /\ ~Clean(o)
            /\ installed' = installed \ RemovedHandles(r, o)
            /\ inner' = IF o.primary THEN inner ELSE inner \ {r}
            /\ cleanup' = [cleanup EXCEPT ![r] = o.left]
            /\ UNCHANGED <<state, jobs>>
    /\ UNCHANGED <<engine, started, stop, made, records, op, gates, calls>>

-----------------------------------------------------------------------------
(* Triggers                                                                 *)

\* The engine fires the job it holds for record r in goroutine c.
Trigger(c, r) ==
    /\ engine = "running" /\ r \in installed
    /\ pc[c] = "idle"
    /\ pc' = [pc EXCEPT ![c] = "triggered"]
    /\ at' = [at EXCEPT ![c] = r]
    /\ UNCHANGED <<manager, gates>>

\* runnable lets a published generation through ...
Pass(c) ==
    /\ pc[c] = "triggered" /\ state[at[c]] = "active"
    /\ pc' = [pc EXCEPT ![c] = "runnable"]
    /\ UNCHANGED <<manager, gates, at>>

\* ... and turns away one that was aborted or deactivated, or whose engine
\* context ended while it waited to be published (the select may see that first
\* even if the generation was published meanwhile).
TurnAway(c) ==
    /\ pc[c] = "triggered"
    /\ state[at[c]] = "inactive" \/ at[c] \notin installed
    /\ pc' = [pc EXCEPT ![c] = "idle"]
    /\ at' = [at EXCEPT ![c] = NoRec]
    /\ UNCHANGED <<manager, gates>>

\* runWithToken: the gate decides.  Between Pass and EnterGate nothing is
\* held, so the generation may have been replaced meanwhile.
EnterGate(c) ==
    LET g == gateOf[at[c]] IN
    /\ pc[c] = "runnable"
    /\ \/ /\ Admits(gates[g])
          /\ gates' = [gates EXCEPT ![g] = Admit(@, at[c])]
          /\ pc' = [pc EXCEPT ![c] = "running"]
          /\ UNCHANGED at
       \/ /\ Queues(gates[g])
          /\ gates' = [gates EXCEPT ![g] = Enqueue(@, at[c])]
          /\ pc' = [pc EXCEPT ![c] = "idle"]
          /\ at' = [at EXCEPT ![c] = NoRec]
       \/ /\ ~Admits(gates[g]) /\ ~Queues(gates[g])
          /\ pc' = [pc EXCEPT ![c] = "idle"]
          /\ at' = [at EXCEPT ![c] = NoRec]
          /\ UNCHANGED gates
    /\ UNCHANGED manager

\* executeAccepted: the handler returned (or panicked, which execute recovers).
Finish(c) ==
    LET g == gateOf[at[c]]
        next == NextExecution(gates[g], at[c]) IN
    /\ pc[c] = "running"
    /\ gates' = [gates EXCEPT ![g] = Finished(@, at[c])]
    /\ at' = [at EXCEPT ![c] = next]
    /\ pc' = [pc EXCEPT ![c] = IF next = NoToken THEN "idle" ELSE "running"]
    /\ UNCHANGED manager

ManagerNext ==
    \/ Start \/ StartFails \/ Stop \/ EngineShutdown \/ StopCompletes
    \/ \E n \in Name, p \in Policies : Add(n, p) \/ Replace(n, p)
    \/ ReplaceRemoves \/ ReplaceFails \/ Commit
    \/ \E n \in Name : Remove(n)

CallNext(c) ==
    \/ \E r \in Rec : Trigger(c, r)
    \/ Pass(c) \/ TurnAway(c) \/ EnterGate(c) \/ Finish(c)

Next == ManagerNext \/ \E c \in Call : CallNext(c)

Spec == Init /\ [][Next]_vars

\* Goroutines are scheduled, handlers return, and a method that holds
\* manager.mu runs to its end; nobody is obliged to call a method or to trigger.
Fairness ==
    /\ WF_vars(EngineShutdown)
    /\ WF_vars(StopCompletes)
    /\ WF_vars(ReplaceRemoves \/ ReplaceFails)
    /\ WF_vars(Commit)
    /\ \A c \in Call : WF_vars(Pass(c) \/ TurnAway(c) \/ EnterGate(c) \/ Finish(c))

FairSpec == Spec /\ Fairness

-----------------------------------------------------------------------------
(* Properties                                                               *)

\* A generation that is not, or no longer, registered never gets past runnable:
\* an immediate trigger cannot run a replacement before it commits, nor one that
\* was aborted and whose engine job could not be removed (Replace, abort).
OnlyRegisteredPass ==
    [][\A c \in Call : pc[c] = "triggered" /\ pc'[c] = "runnable"
                         => at[c] \in Registered]_vars

\* No engine handle becomes invisible to later cleanup (the contract of Replace):
\* each belongs to the method under way or to a registered record.
HandleOwned ==
    \A h \in installed :
        \/ h = op.new
        \/ \E r \in Registered : (h = r /\ r \in inner) \/ h \in cleanup[r]

\* A failed Replace or Remove leaves the job scheduled: while the engine runs
\* every registered job is published and has its own engine job.
RegisteredIsScheduled ==
    engine = "running" =>
        \A r \in Registered :
            \/ op.kind = "commit" /\ r = op.old
            \/ state[r] = "active" /\ r \in installed /\ r \in inner

\* What one record removes as stale is never the engine job of a live generation.
CleanupIsStale ==
    \A r \in Registered : \A h \in cleanup[r] : state[h] = "inactive"

\* The gate of every job, seen through Replace and through stale triggers, is an
\* overlap gate: the scheduler implements OverlapGate for each gate it makes.
OG(g) == INSTANCE OverlapGate WITH
            gate <- gates[g],
            current <- [c \in Call |-> IF pc[c] = "running" /\ gateOf[at[c]] = g
                                       THEN at[c] ELSE NoToken]

ImplementsOverlapGate ==
    [][\A g \in Rec : [OG(g)!Next]_(OG(g)!vars)]_vars

\* A trigger does not wait for ever for its generation to be published.
TriggersResolve ==
    \A c \in Call : pc[c] = "triggered" ~> pc[c] # "triggered"

\* "The last active execution takes over the queued work"
\* (docs/architecture.md:235), "clearing the accepted queue would silently lose
\* work during Replace" (overlap.go:115-117): an accepted trigger leaves the gate
\* only by being executed.
LastExecutionTakesQueue ==
    [][\A g \in Rec : gates[g].queued /\ ~gates'[g].queued =>
         \E c \in Call : /\ pc[c] = "running" /\ gateOf[at[c]] = g
                         /\ pc'[c] = "running"
                         /\ at'[c] = gates[g].queuedToken]_vars

-----------------------------------------------------------------------------
(* Strengthenings the proofs need; TLC checks them as invariants first.      *)

Made == 1..made

\* A record that is not made yet has left no trace; one that is made belongs to one
\* gate, and a goroutine or a waiting trigger that names it is at that gate.
RecordInv ==
    /\ \A r \in Rec \ Made :
         /\ state[r] = "pending" /\ r \notin inner /\ r \notin installed
         /\ cleanup[r] = {} /\ gates[r] = NewGate("SkipIfRunning")
    /\ \A r \in Made : gateOf[r] \in Made /\ policyOf[r] \in Policies
    /\ \A c \in Call : IF pc[c] = "idle" THEN at[c] = NoRec ELSE at[c] \in Made
    /\ \A g \in Rec : \A t \in {gates[g].queuedToken, gates[g].queuedHandler} :
         t # NoToken => t \in Made /\ gateOf[t] = g

\* The registered records are the active ones, each under its own name, and what a
\* record must still remove can never run.
JobsInv ==
    /\ \A n \in Name : jobs[n] # NoRec => jobs[n] \in Made /\ name[jobs[n]] = n
    /\ \A r \in Rec : r \in Registered <=> state[r] = "active"
    /\ \A r \in Rec : \A h \in cleanup[r] : state[h] = "inactive"

\* Nothing is installed before Start, and Stop ends the engine.
EngineInv ==
    /\ started <=> engine # "none"
    /\ engine = "closed" => stop # "no"
    /\ ~started => installed = {} /\ \A r \in Rec : cleanup[r] = {}

\* The record a method is about to publish is made, installed and not registered; the
\* one it replaces is registered, and owns nothing any more once its jobs are removed.
OpInv ==
    op # NoOp =>
        /\ engine = "running" /\ stop = "no"
        /\ op.new \in Made /\ state[op.new] = "pending" /\ cleanup[op.new] = {}
        /\ op.new \in inner /\ op.new \in installed
        /\ jobs[name[op.new]] = op.old
        /\ op.old = NoRec => op.kind = "commit"
        /\ op.old # NoRec => gateOf[op.new] = gateOf[op.old]
        /\ op.kind = "commit" /\ op.old # NoRec => cleanup[op.old] = {} /\ op.old \notin inner

SchedulerInv ==
    /\ TypeOK /\ RecordInv /\ JobsInv /\ EngineInv /\ OpInv
    /\ HandleOwned /\ RegisteredIsScheduled

=============================================================================
