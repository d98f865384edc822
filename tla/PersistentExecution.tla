------------------------- MODULE PersistentExecution -------------------------
(***************************************************************************)
(* The executions of one persistent job on two instances of an application, *)
(* src/scheduler/persistent_execution.go.  This instance runs its triggers  *)
(* through the overlap gate of the job (OverlapGate); what the gate runs is *)
(* Loader.execute.  The other instance shares nothing but the locker, so    *)
(* its executions begin at any time.                                        *)
(*                                                                          *)
(* The locker is external and keeps the contract of persistence.go:214-217: *)
(* a lease lasts for its ttl, or, for a ttl of zero, as long as its holder  *)
(* renews it.  Time is what is left of leases and of contexts, in ticks.    *)
(***************************************************************************)
EXTENDS OverlapGate

CONSTANTS Peer,      \* executions of the other instance
          Nobody,    \* no holder
          Timeout,   \* the job's timeout, if it has one
          Grace      \* what persistentLockTTL adds to it

ASSUME PeerAssumption == Peer \cap Call = {} /\ Nobody \notin Peer \cup Call
ASSUME TimeAssumption == Timeout \in Nat \ {0} /\ Grace \in Nat \ {0}

VARIABLES definition,  \* the job's execution mode and timeout
          run,         \* where each execution is in Loader.execute
          lease        \* the lease on the job's key: its holder, what is left of it,
                       \* and whether the holder's adapter keeps it

persistentVars == <<gate, current, definition, run, lease>>

Runner == Call \cup Peer

Stage == {"idle", "start", "lock", "handle", "unlock", "record", "returned"}

\* Final statuses of a run record; "running" is the initial one.
RunStatus == {"running", "success", "failed", "skipped", "timeout", "canceled"}

\* Budget of an execution: its context ends when Grace of it is left.
Budget(d) == IF d.timeout = 0 THEN 0 ELSE d.timeout + Grace

\* Mutant: the lease ends with the context.
TTLWithoutGrace(d) == d.timeout

\* persistentLockTTL: the ttl a Singleton execution asks for.
TTL(d) == IF d.timeout = 0 THEN 0 ELSE d.timeout + Grace

Free == [holder |-> Nobody, left |-> 0, kept |-> FALSE]

Idle == [at |-> "idle", left |-> 0, ctx |-> "open", lock |-> FALSE, status |-> "running"]

Definition == [mode : {"Singleton", "EveryInstance"}, timeout : {0, Timeout}]

Execution == [at : Stage, left : 0..(Timeout + Grace), ctx : {"open", "timeout", "canceled"},
              lock : BOOLEAN, status : RunStatus]

Lease == [holder : Runner \cup {Nobody}, left : 0..(Timeout + Grace), kept : BOOLEAN]

PersistentTypeOK ==
    /\ definition \in Definition
    /\ run \in [Runner -> Execution]
    /\ lease \in Lease

PersistentInit ==
    /\ Init
    /\ definition \in Definition
    /\ run = [e \in Runner |-> Idle]
    /\ lease = Free

\* An execution begins: manager.jobContext gives it a context with the timeout.
Begun == [Idle EXCEPT !.at = "start", !.left = Budget(definition)]

\* The trigger is admitted by the gate of this instance.
StartCall(c, t) ==
    /\ Start(c, t)
    /\ run' = [run EXCEPT ![c] = Begun]
    /\ UNCHANGED <<definition, lease>>

StartPeer(p) ==
    /\ run[p].at = "idle"
    /\ run' = [run EXCEPT ![p] = Begun]
    /\ UNCHANGED <<gate, current, definition, lease>>

QueueCall(t) == Queue(t) /\ UNCHANGED <<definition, run, lease>>

ReplacePolicy(p) == SetPolicy(p) /\ UNCHANGED <<definition, run, lease>>

\* The recorder is told, or fails to be: the error is only reported.
RecordStart(e) ==
    /\ run[e].at = "start"
    /\ run' = [run EXCEPT ![e].at =
                 IF definition.mode = "Singleton" THEN "lock" ELSE "handle"]
    /\ UNCHANGED <<gate, current, definition, lease>>

\* finish(status, err) with no lock held goes on to the record.
Concluded(r, status) ==
    [at |-> "record", left |-> 0, ctx |-> "open", lock |-> r.lock, status |-> status]

Held(e) == [holder |-> e, left |-> TTL(definition), kept |-> TRUE]

Acquire(e) ==
    /\ run[e].at = "lock"
    /\ lease = Free
    /\ lease' = Held(e)
    /\ run' = [run EXCEPT ![e].at = "handle", ![e].lock = TRUE]
    /\ UNCHANGED <<gate, current, definition>>

NotAcquired(e) ==
    /\ run[e].at = "lock"
    /\ lease # Free
    /\ run' = [run EXCEPT ![e] = Concluded(@, "skipped")]
    /\ UNCHANGED <<gate, current, definition, lease>>

\* The locker reports an error, panics, or returns no lock; the backend may have
\* granted the lease all the same.
LockFails(e) ==
    /\ run[e].at = "lock"
    /\ \/ UNCHANGED lease
       \/ lease = Free /\ lease' = [Held(e) EXCEPT !.kept = FALSE]
    /\ run' = [run EXCEPT ![e] = Concluded(@, "failed")]
    /\ UNCHANGED <<gate, current, definition>>

\* The status of a run whose handler returned err ("panic" for one that panicked).
StatusOf(ctx, err) ==
    IF err = "panic" THEN "failed"
    ELSE IF "timeout" \in {ctx, err} THEN "timeout"
    ELSE IF "canceled" \in {ctx, err} THEN "canceled"
    ELSE IF err = "error" THEN "failed" ELSE "success"

\* Mutant: only a run that ended well unlocks.
HandlerKeepsLock(e) ==
    /\ run[e].at = "handle"
    /\ \E err \in {"none", "error"} :
         run' = [run EXCEPT ![e] =
                   [Concluded(@, StatusOf(@.ctx, err)) EXCEPT
                      !.at = IF run[e].lock /\ err = "none" THEN "unlock" ELSE "record"]]
    /\ UNCHANGED <<gate, current, definition, lease>>

HandlerReturns(e) ==
    /\ run[e].at = "handle"
    /\ \E err \in {"none", "error", "timeout", "canceled", "panic"} :
         run' = [run EXCEPT ![e] =
                   [Concluded(@, StatusOf(@.ctx, err)) EXCEPT
                      !.at = IF run[e].lock THEN "unlock" ELSE "record"]]
    /\ UNCHANGED <<gate, current, definition, lease>>

Released(e) == IF lease.holder = e THEN Free ELSE lease

\* The lease of e, if it has one, is no longer renewed.
Unkept(e) == IF lease.holder = e THEN [lease EXCEPT !.kept = FALSE] ELSE lease

\* finish goes on to the record; the lock of this run is done with.
Unlocked(r, status) == [Concluded(r, status) EXCEPT !.lock = FALSE]

\* Mutant: a failed unlock is only reported.
UnlockReported(e) ==
    /\ run[e].at = "unlock"
    /\ lease' \in {Released(e), Unkept(e)}
    /\ run' = [run EXCEPT ![e] = Unlocked(@, @.status)]
    /\ UNCHANGED <<gate, current, definition>>

\* Unlock on a context of its own; one that fails may have taken effect or not,
\* and turns a success into a failure.
Unlock(e) ==
    /\ run[e].at = "unlock"
    /\ \/ /\ lease' = Released(e)
          /\ run' = [run EXCEPT ![e] = Unlocked(@, @.status)]
       \/ /\ lease' \in {Released(e), Unkept(e)}
          /\ run' = [run EXCEPT ![e] =
                       Unlocked(@, IF @.status = "success" THEN "failed" ELSE @.status)]
    /\ UNCHANGED <<gate, current, definition>>

\* The recorder is told how the run ended, or fails to be; execute returns (or
\* panics again, which manager.execute recovers).
RecordFinish(e) ==
    /\ run[e].at = "record"
    /\ run' = [run EXCEPT ![e] = IF e \in Call THEN [Idle EXCEPT !.at = "returned"]
                                              ELSE Idle]
    /\ UNCHANGED <<gate, current, definition, lease>>

\* The gate of this instance ends the execution or takes over a queued trigger.
ReturnCall(c) ==
    /\ run[c].at = "returned"
    /\ Finish(c)
    /\ run' = [run EXCEPT ![c] = IF current'[c] = NoToken THEN Idle ELSE Begun]
    /\ UNCHANGED <<definition, lease>>

\* The manager stops, or the engine gives the execution up.
Cancel(e) ==
    /\ run[e].at \in {"start", "lock", "handle"} /\ run[e].ctx = "open"
    /\ run' = [run EXCEPT ![e].ctx = "canceled"]
    /\ UNCHANGED <<gate, current, definition, lease>>

\* The other instance dies: nothing of it is left but its lease.
Crash(p) ==
    /\ run[p].at # "idle"
    /\ run' = [run EXCEPT ![p] = Idle]
    /\ lease' = Unkept(p)
    /\ UNCHANGED <<gate, current, definition>>

-----------------------------------------------------------------------------
(* Time                                                                      *)

Handling == {e \in Runner : run[e].at = "handle"}

\* Handlers watch their context: they return within the grace of its deadline.
Prompt == \A e \in Handling : definition.timeout > 0 => run[e].left > 1

Aged(r) ==
    IF r.left = 0 THEN r
    ELSE [r EXCEPT !.left = @ - 1,
                   !.ctx = IF @ = "open" /\ r.left - 1 <= Grace THEN "timeout" ELSE @]

Tick ==
    /\ Prompt
    /\ \/ lease.left > 0
       \/ \E e \in Runner : run[e].left > 0
    /\ run' = [e \in Runner |-> Aged(run[e])]
    /\ lease' = CASE lease.left > 1 -> [lease EXCEPT !.left = @ - 1]
                  [] lease.left = 1 -> Free
                  [] OTHER          -> lease
    /\ UNCHANGED <<gate, current, definition>>

\* A lease without a ttl whose holder no longer renews it ends in the backend.
Lapse ==
    /\ lease # Free /\ lease.left = 0 /\ ~lease.kept
    /\ lease' = Free
    /\ UNCHANGED <<gate, current, definition, run>>

Step(e) ==
    \/ RecordStart(e) \/ Acquire(e) \/ NotAcquired(e) \/ LockFails(e)
    \/ HandlerReturns(e) \/ Unlock(e) \/ RecordFinish(e)

PersistentNext ==
    \/ \E c \in Call, t \in Token : StartCall(c, t)
    \/ \E t \in Token : QueueCall(t)
    \/ \E p \in Policies : ReplacePolicy(p)
    \/ \E c \in Call : ReturnCall(c)
    \/ \E p \in Peer : StartPeer(p) \/ Crash(p)
    \/ \E e \in Runner : Step(e) \/ Cancel(e)
    \/ Tick \/ Lapse

PersistentSpec == PersistentInit /\ [][PersistentNext]_persistentVars

\* Executions go on (their handlers return), time passes, and the backend drops
\* leases that nobody renews.
PersistentFairSpec ==
    /\ PersistentSpec
    /\ \A e \in Runner : WF_persistentVars(Step(e))
    /\ \A c \in Call : WF_persistentVars(ReturnCall(c))
    /\ WF_persistentVars(Tick) /\ WF_persistentVars(Lapse)

-----------------------------------------------------------------------------
(* Properties                                                               *)

\* A Singleton job has one handler at a time on all instances, whatever the locker
\* reports and whoever dies: its lease outlasts its context by the grace handlers
\* need (persistentLockTTL), and only an acquired lock lets a handler start.
OneInstance == definition.mode = "Singleton" => \A e, f \in Handling : e = f

\* A run goes into the history as a success only when its lock is gone from the
\* backend, so that who reads the history can start the job at once (finish unlocks
\* first, and a failed unlock is a failed run).
SuccessMeansReleased ==
    \A e \in Runner : run[e].at = "record" /\ run[e].status = "success"
                        => lease.holder # e

\* A lease never blocks a job for ever, neither that of an instance that died nor
\* one whose reply was lost.
LeaseEnds == lease # Free ~> lease = Free

-----------------------------------------------------------------------------
(* The strengthening the proofs need                                         *)

\* Only a Singleton run asks for the lock.
LocksIfSingleton ==
    definition.mode = "EveryInstance" =>
        lease = Free /\ \A e \in Runner : run[e].at # "lock"

\* A run that handles under a lock has a lease that outlasts its context: by what
\* is left of it, or, without a timeout, for as long as the adapter keeps it.
Covered(e) ==
    /\ run[e].lock
    /\ lease.holder = e
    /\ IF definition.timeout = 0 THEN lease.left = 0 /\ lease.kept
                                 ELSE lease.left > 0 /\ lease.left >= run[e].left

LeaseInv ==
    /\ PersistentTypeOK
    /\ SuccessMeansReleased
    /\ LocksIfSingleton
    /\ definition.mode = "Singleton" => \A e \in Handling : Covered(e)

=============================================================================
