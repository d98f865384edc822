----------------------------- MODULE OverlapGate -----------------------------
(***************************************************************************)
(* One overlap gate and the goroutines that execute through it.  Triggers   *)
(* of any generation arrive in any order: a generation that was replaced    *)
(* may still have triggers under way.  A skipped trigger changes nothing    *)
(* and is a stuttering step here.                                           *)
(***************************************************************************)
EXTENDS Gate, FiniteSets

CONSTANTS Call,       \* goroutines in which the engine runs triggers
          Policies    \* the policies this job is ever given

ASSUME PoliciesAssumption == Policies \subseteq Policy
ASSUME CallAssumption == IsFiniteSet(Call)

VARIABLES gate,       \* the gate
          current     \* generation a goroutine is executing, or NoToken

vars == <<gate, current>>

Executing == {c \in Call : current[c] # NoToken}

TypeOK == gate \in GateState /\ current \in [Call -> OptToken]

Init ==
    /\ \E p \in Policies : gate = NewGate(p)
    /\ current = [c \in Call |-> NoToken]

\* A trigger of generation t is admitted and executes in goroutine c.
Start(c, t) ==
    /\ current[c] = NoToken
    /\ Admits(gate)
    /\ gate' = Admit(gate, t)
    /\ current' = [current EXCEPT ![c] = t]

\* A trigger of generation t is accepted as the one pending trigger.
Queue(t) ==
    /\ Queues(gate)
    /\ gate' = Enqueue(gate, t)
    /\ UNCHANGED current

\* The handler running in goroutine c returns.
Finish(c) ==
    /\ current[c] # NoToken
    /\ gate' = Finished(gate, current[c])
    /\ current' = [current EXCEPT ![c] = NextExecution(gate, @)]

\* Replace gives the job another policy.
SetPolicy(p) ==
    /\ gate' = WithPolicy(gate, p)
    /\ UNCHANGED current

Next ==
    \/ \E c \in Call, t \in Token : Start(c, t)
    \/ \E t \in Token : Queue(t)
    \/ \E c \in Call : Finish(c)
    \/ \E p \in Policies : SetPolicy(p)

Spec == Init /\ [][Next]_vars

\* Handlers return: a job that never returns blocks its gate for ever.
FairSpec == Spec /\ \A c \in Call : WF_vars(Finish(c))

-----------------------------------------------------------------------------
(* Properties                                                               *)

\* The counter the gate decides by is the number of executions under way: no
\* path of runWithToken or executeAccepted loses or double-counts one, so the
\* gate neither stays closed nor admits beside a running job.
ActiveCountsExecutions == gate.active = Cardinality(Executing)

\* An accepted trigger always has an execution under way that will look for it
\* when it ends; the call that queued it has long returned.
QueueHasDrainer == gate.queued => Executing # {}

\* Under SkipIfRunning and QueueOne an execution begins (in a new goroutine or as
\* the take-over of a queued trigger) only when no other goroutine executes,
\* whatever policies and generations went before.
SerialStart ==
    [][gate.policy # "AllowOverlap" =>
         \A c \in Call : current'[c] # NoToken /\ current'[c] # current[c]
                           => \A d \in Executing : d = c]_vars

\* If the job is never given AllowOverlap, two executions never overlap.
SerialExclusion ==
    "AllowOverlap" \notin Policies => \A c, d \in Executing : c = d

\* "A trigger accepted under QueueOne is committed work" (overlap.go:115): the
\* pending trigger leaves the gate only by being executed, by the generation it
\* came from.
AcceptedTriggerRuns ==
    [][gate.queued /\ ~gate'.queued
         => \E c \in Executing : current'[c] = gate.queuedToken]_vars

\* An accepted trigger does not wait for ever, provided handlers return.
QueueDrains == gate.queued ~> ~gate.queued

-----------------------------------------------------------------------------
(* Strengthenings the proofs need; TLC checks them as invariants first.      *)

\* What the counter, the queue and its handler agree on under every policy.
GateInv ==
    /\ TypeOK
    /\ ActiveCountsExecutions
    /\ gate.queued => gate.active > 0
    /\ gate.queued <=> gate.queuedToken # NoToken
    /\ gate.queuedHandler \in {NoToken, gate.queuedToken}

\* Without AllowOverlap there is one execution at most, activeToken names its
\* generation, and a pending trigger without a handler is of that generation.
SerialInv ==
    "AllowOverlap" \notin Policies =>
        /\ gate.policy # "AllowOverlap"
        /\ gate.active \in {0, 1}
        /\ \A c \in Executing : current[c] = gate.activeToken
        /\ gate.queued /\ gate.queuedHandler = NoToken
             => gate.queuedToken = gate.activeToken

=============================================================================
