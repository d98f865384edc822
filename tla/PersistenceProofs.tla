-------------------------- MODULE PersistenceProofs --------------------------
(***************************************************************************)
(* What the overlap gate of a job guarantees for any number of goroutines   *)
(* and generations (from GateInv and SerialInv of OverlapGate), and what a  *)
(* persistent job adds to it for any number of executions on either         *)
(* instance and any timeout and grace.  Exclusion across the instances      *)
(* rests on LeaseInv; what holds of the overlap gate holds there because    *)
(* executing under a recorder and a locker changes nothing of the gate.     *)
(* The loader of persistent jobs, for any number of them and of callers of  *)
(* Sync, follows from LoaderInv.                                            *)
(***************************************************************************)
EXTENDS PersistentExecution, Loader, FiniteSetTheorems, TLAPS

-----------------------------------------------------------------------------
(* Lemmas about the transitions of a gate.                                  *)

\* Every transition of the gate yields a gate.
LEMMA GateTransitionsTyped ==
    ASSUME NEW g \in GateState, NEW t \in Token, NEW p \in Policy
    PROVE  /\ Admit(g, t) \in GateState
           /\ Enqueue(g, t) \in GateState
           /\ Finished(g, t) \in GateState
           /\ NextExecution(g, t) \in OptToken
           /\ WithPolicy(g, p) \in GateState
<1> USE DEF GateState, OptToken, Enqueue, TakeOver, Unqueue, WithPolicy
<1>1. g.active \in Nat /\ g.active + 1 \in Nat
  OBVIOUS
<1>2. ASSUME NEW h \in GateState
      PROVE  Remaining(h) \in Nat
  <2>1. h.active \in Nat
    OBVIOUS
  <2> QED
    BY <2>1 DEF Remaining
<1>3. Unqueue(g) \in GateState
  OBVIOUS
<1>4. Admit(g, t) \in GateState
  <2>1. (IF g.active = 0 THEN t ELSE g.activeToken) \in OptToken
    OBVIOUS
  <2> QED
    BY <1>1, <2>1 DEF Admit
<1>5. Enqueue(g, t) \in GateState
  OBVIOUS
<1>6. Finished(g, t) \in GateState
  <2>1. ASSUME NEW h \in GateState
        PROVE  Retire(h) \in GateState
    <3>1. (IF Remaining(h) = 0 THEN NoToken ELSE h.activeToken) \in OptToken
      OBVIOUS
    <3> QED
      BY <1>2, <3>1 DEF Retire
  <2>2. TakeOver(g) \in GateState
    OBVIOUS
  <2> HIDE DEF TakeOver, Unqueue, GateState
  <2> QED
    BY <1>3, <2>1, <2>2 DEF Finished
<1>7. NextExecution(g, t) \in OptToken
  BY DEF NextExecution, Successor
<1>8. WithPolicy(g, p) \in GateState
  OBVIOUS
<1> QED
  BY <1>4, <1>5, <1>6, <1>7, <1>8

\* The return of an execution lowers the count by one unless the same goroutine
\* goes on with the pending trigger, and leaves the queue only to do so or empty.
LEMMA FinishedCount ==
    ASSUME NEW g \in GateState, NEW t \in Token, g.active > 0
    PROVE  /\ Finished(g, t).policy = g.policy
           /\ NextExecution(g, t) # NoToken =>
                /\ g.active = 1
                /\ Finished(g, t).active = 1
                /\ ~Finished(g, t).queued
                /\ Finished(g, t).activeToken = g.queuedToken
                /\ Finished(g, t).queuedHandler = NoToken
                /\ Finished(g, t).queuedToken = NoToken
           /\ NextExecution(g, t) = NoToken =>
                /\ Finished(g, t).active = g.active - 1
                /\ Finished(g, t).queued => g.queued /\ Finished(g, t).active > 0
<1> USE NoTokenAssumption
      DEF GateState, OptToken, Remaining, Drains, Successor, Retire, Unqueue,
          TakeOver, NextExecution, Finished
<1>1. CASE ~Drains(g)
  BY <1>1
<1>2. CASE Drains(g) /\ Successor(g, t) # NoToken
  BY <1>2
<1>3. CASE Drains(g) /\ Successor(g, t) = NoToken
  BY <1>3
<1> QED
  BY <1>1, <1>2, <1>3

\* A gate whose queue fields agree keeps them in agreement when an execution of
\* generation t returns, and a trigger stays pending only beside other executions.
LEMMA FinishedQueue ==
    ASSUME NEW g \in GateState, NEW t \in Token, g.active > 0,
           g.queued <=> g.queuedToken # NoToken,
           g.queuedHandler \in {NoToken, g.queuedToken}
    PROVE  /\ Finished(g, t).queued => Finished(g, t).active > 0
           /\ Finished(g, t).queued <=> Finished(g, t).queuedToken # NoToken
           /\ Finished(g, t).queuedHandler \in {NoToken, Finished(g, t).queuedToken}
<1> USE NoTokenAssumption
      DEF GateState, OptToken, Remaining, Drains, Successor, Retire, Unqueue,
          TakeOver, Finished
<1>1. CASE ~Drains(g)
  BY <1>1
<1>2. CASE Drains(g) /\ Successor(g, t) # NoToken
  BY <1>2
<1>3. CASE Drains(g) /\ Successor(g, t) = NoToken
  BY <1>3
<1> QED
  BY <1>1, <1>2, <1>3

-----------------------------------------------------------------------------
(* Type correctness                                                         *)

\* The gate's fields and the goroutines' generations keep their types through
\* every call of runWithToken, executeAccepted and setPolicy.
THEOREM TypeCorrect == Spec => []TypeOK
<1>1. Init => TypeOK
  BY PoliciesAssumption DEF Init, TypeOK, NewGate, GateState, OptToken
<1>2. TypeOK /\ [Next]_vars => TypeOK'
  <2> SUFFICES ASSUME TypeOK, [Next]_vars
               PROVE  TypeOK'
    OBVIOUS
  <2>1. ASSUME NEW c \in Call, NEW t \in Token, Start(c, t)
        PROVE  TypeOK'
    BY <2>1, GateTransitionsTyped DEF TypeOK, Start, OptToken, GateState
  <2>2. ASSUME NEW t \in Token, Queue(t)
        PROVE  TypeOK'
    BY <2>2, GateTransitionsTyped DEF TypeOK, Queue, GateState
  <2>3. ASSUME NEW c \in Call, Finish(c)
        PROVE  TypeOK'
    <3>1. current[c] \in Token
      BY <2>3 DEF TypeOK, Finish, OptToken
    <3> QED
      BY <2>3, <3>1, GateTransitionsTyped DEF TypeOK, Finish, GateState
  <2>4. ASSUME NEW p \in Policies, SetPolicy(p)
        PROVE  TypeOK'
    BY <2>4, PoliciesAssumption DEF TypeOK, SetPolicy, WithPolicy, GateState
  <2>5. CASE UNCHANGED vars
    BY <2>5 DEF TypeOK, vars
  <2> QED
    BY <2>1, <2>2, <2>3, <2>4, <2>5 DEF Next
<1> QED
  BY <1>1, <1>2, PTL DEF Spec

-----------------------------------------------------------------------------
(* The counter and the queue, under every mixture of policies               *)

\* Executing is finite, and one goroutine more or less changes its size by one.
LEMMA ExecutingChange ==
    ASSUME NEW c \in Call, TypeOK
    PROVE  /\ IsFiniteSet(Executing)
           /\ Cardinality(Executing) \in Nat
           /\ (Cardinality(Executing) = 0 <=> Executing = {})
           /\ Cardinality(Executing \cup {c}) =
                IF c \in Executing THEN Cardinality(Executing) ELSE Cardinality(Executing) + 1
           /\ Cardinality(Executing \ {c}) =
                IF c \in Executing THEN Cardinality(Executing) - 1 ELSE Cardinality(Executing)
<1>1. IsFiniteSet(Executing)
  BY CallAssumption, FS_Subset DEF Executing
<1> QED
  BY <1>1, FS_CardinalityType, FS_EmptySet, FS_AddElement, FS_RemoveElement

\* The gate counts its executions, and a pending trigger has one to wait for:
\* the inductive invariant behind ActiveCountsExecutions and QueueHasDrainer.
THEOREM GateInvariant == Spec => []GateInv
<1>1. Init => GateInv
  <2> SUFFICES ASSUME Init
               PROVE  GateInv
    OBVIOUS
  <2>1. TypeOK
    BY PoliciesAssumption DEF Init, TypeOK, NewGate, GateState, OptToken
  <2>2. Executing = {}
    BY DEF Init, Executing
  <2>3. ActiveCountsExecutions
    BY <2>2, FS_EmptySet DEF Init, NewGate, ActiveCountsExecutions
  <2> QED
    BY <2>1, <2>3 DEF Init, NewGate, GateInv
<1>2. GateInv /\ TypeOK' /\ [Next]_vars => GateInv'
  <2> SUFFICES ASSUME GateInv, TypeOK', [Next]_vars
               PROVE  GateInv'
    OBVIOUS
  <2> USE DEF GateInv
  <2>1. ASSUME NEW c \in Call, NEW t \in Token, Start(c, t)
        PROVE  GateInv'
    <3>1. gate \in GateState /\ gate' = Admit(gate, t) /\ c \notin Executing
      BY <2>1 DEF Start, TypeOK, Executing
    <3>2. Executing' = Executing \cup {c}
      BY <2>1, NoTokenAssumption DEF Start, TypeOK, Executing
    <3>3. gate'.active = gate.active + 1
      BY <3>1 DEF Admit, GateState
    <3>4. ActiveCountsExecutions'
      BY <3>1, <3>2, <3>3, ExecutingChange DEF ActiveCountsExecutions
    <3>5. /\ gate.active \in Nat
          /\ UNCHANGED <<gate.queued, gate.queuedToken, gate.queuedHandler>>
      BY <3>1 DEF Admit, GateState
    <3> QED
      BY <3>3, <3>4, <3>5
  <2>2. ASSUME NEW t \in Token, Queue(t)
        PROVE  GateInv'
    <3>1. gate \in GateState /\ gate' = Enqueue(gate, t) /\ gate.active # 0
      BY <2>2 DEF Queue, Queues, Admits, TypeOK
    <3>2. /\ gate'.active = gate.active /\ gate.active \in Nat
          /\ gate'.queuedToken = t
          /\ gate'.queuedHandler \in {t, gate.queuedHandler}
      BY <3>1 DEF Enqueue, GateState
    <3>3. /\ gate'.queued
          /\ gate.queuedHandler = NoToken
      BY <2>2, <3>1 DEF Queue, Queues, Enqueue, GateState
    <3>4. ActiveCountsExecutions'
      BY <2>2, <3>2 DEF Queue, ActiveCountsExecutions, Executing
    <3> QED
      BY <3>1, <3>2, <3>3, <3>4, NoTokenAssumption DEF GateState
  <2>3. ASSUME NEW c \in Call, Finish(c)
        PROVE  GateInv'
    <3> DEFINE t == current[c]
    <3>1. gate \in GateState /\ t \in Token /\ c \in Executing /\ gate' = Finished(gate, t)
      BY <2>3 DEF Finish, TypeOK, Executing, OptToken
    <3>2. gate.active > 0 /\ gate.active \in Nat
      <4>1. Cardinality(Executing) \in Nat /\ Cardinality(Executing) # 0
        BY <3>1, ExecutingChange
      <4> QED
        BY <4>1 DEF ActiveCountsExecutions
    <3>3. CASE NextExecution(gate, t) = NoToken
      <4>1. Executing' = Executing \ {c}
        BY <2>3, <3>3 DEF Finish, TypeOK, Executing
      <4>2. gate'.active = gate.active - 1
        BY <3>1, <3>2, <3>3, FinishedCount
      <4>3. ActiveCountsExecutions'
        BY <3>1, <4>1, <4>2, ExecutingChange DEF ActiveCountsExecutions
      <4>4. /\ gate'.queued => gate'.active > 0
            /\ gate'.queued <=> gate'.queuedToken # NoToken
            /\ gate'.queuedHandler \in {NoToken, gate'.queuedToken}
        BY <3>1, <3>2, <3>3, FinishedQueue
      <4> QED
        BY <4>3, <4>4
    <3>4. CASE NextExecution(gate, t) # NoToken
      <4>1. Executing' = Executing
        BY <2>3, <3>1, <3>4 DEF Finish, TypeOK, Executing
      <4>2. /\ gate'.active = gate.active /\ ~gate'.queued
            /\ gate'.queuedToken = NoToken /\ gate'.queuedHandler = NoToken
        BY <3>1, <3>2, <3>4, FinishedCount
      <4>3. ActiveCountsExecutions'
        BY <4>1, <4>2 DEF ActiveCountsExecutions
      <4> QED
        BY <4>2, <4>3
    <3> QED
      BY <3>3, <3>4
  <2>4. ASSUME NEW p \in Policies, SetPolicy(p)
        PROVE  GateInv'
    BY <2>4 DEF SetPolicy, WithPolicy, TypeOK, GateState, ActiveCountsExecutions, Executing
  <2>5. CASE UNCHANGED vars
    BY <2>5 DEF vars, ActiveCountsExecutions, Executing
  <2> QED
    BY <2>1, <2>2, <2>3, <2>4, <2>5 DEF Next
<1> QED
  BY <1>1, <1>2, TypeCorrect, PTL DEF Spec

-----------------------------------------------------------------------------
(* The consequences of GateInv                                              *)

\* ActiveCountsExecutions: the gate's counter is the number of executions.
THEOREM ActiveCount == Spec => []ActiveCountsExecutions
BY GateInvariant, PTL DEF GateInv

\* QueueHasDrainer: an accepted trigger always has an execution to drain it.
THEOREM QueueDrainer == Spec => []QueueHasDrainer
<1>1. GateInv => QueueHasDrainer
  <2> SUFFICES ASSUME GateInv, gate.queued, Executing = {}
               PROVE  FALSE
    BY DEF QueueHasDrainer
  <2>1. gate.active = 0
    BY FS_EmptySet DEF GateInv, ActiveCountsExecutions
  <2> QED
    BY <2>1 DEF GateInv
<1> QED
  BY <1>1, GateInvariant, PTL

\* SerialStart: under a serial policy an execution begins only beside no other,
\* also when earlier generations were allowed to overlap.
THEOREM SerialStarts == Spec => SerialStart
<1> DEFINE AloneAtStart == gate.policy # "AllowOverlap" =>
                     \A c \in Call : current'[c] # NoToken /\ current'[c] # current[c]
                                       => \A d \in Executing : d = c
<1>1. GateInv /\ [Next]_vars => [AloneAtStart]_vars
  <2> SUFFICES ASSUME GateInv, Next, gate.policy # "AllowOverlap",
                      NEW c \in Call, current'[c] # NoToken, current'[c] # current[c],
                      NEW d \in Executing
               PROVE  d = c
    OBVIOUS
  <2> USE DEF GateInv
  <2>1. ASSUME NEW b \in Call, NEW t \in Token, Start(b, t)
        PROVE  d = c
    <3>1. gate.active = 0
      BY <2>1 DEF Start, Admits
    <3> QED
      BY <3>1, ExecutingChange, c \in Call DEF ActiveCountsExecutions
  <2>2. ASSUME NEW b \in Call, Finish(b)
        PROVE  d = c
    <3>1. b = c /\ b \in Executing /\ current[b] \in Token
      BY <2>2 DEF Finish, TypeOK, Executing, OptToken
    <3>2. NextExecution(gate, current[b]) # NoToken
      BY <2>2, <3>1 DEF Finish, TypeOK
    <3>3. Remaining(gate) = 0
      BY <3>2 DEF NextExecution, Drains
    <3>4. Cardinality(Executing) \in Nat /\ Cardinality(Executing) # 0
      BY <3>1, ExecutingChange
    <3>5. Cardinality(Executing) = 1
      BY <3>3, <3>4 DEF Remaining, ActiveCountsExecutions
    <3>6. IsFiniteSet(Executing)
      BY <3>1, ExecutingChange
    <3> QED
      BY <3>1, <3>5, <3>6, FS_Singleton
  <2> QED
    BY <2>1, <2>2 DEF Next, Queue, SetPolicy
<1> QED
  BY <1>1, GateInvariant, PTL DEF Spec, SerialStart

-----------------------------------------------------------------------------
(* Jobs that are never given AllowOverlap                                   *)

\* One execution at most, of the generation activeToken names, and a pending
\* trigger that kept no handler is of that generation: the inductive invariant
\* behind SerialExclusion and AcceptedTriggerRuns.
THEOREM SerialInvariant == Spec => []SerialInv
<1>1. Init => SerialInv
  BY DEF Init, NewGate, SerialInv, Executing
<1>2. GateInv /\ SerialInv /\ [Next]_vars => SerialInv'
  <2> SUFFICES ASSUME GateInv, SerialInv, [Next]_vars, "AllowOverlap" \notin Policies
               PROVE  SerialInv'
    BY DEF SerialInv
  <2>0. gate \in GateState /\ TypeOK
    BY DEF GateInv, TypeOK
  <2>1. ASSUME NEW c \in Call, NEW t \in Token, Start(c, t)
        PROVE  SerialInv'
    <3>1. gate.active = 0 /\ ~gate.queued /\ gate' = Admit(gate, t)
      BY <2>1 DEF Start, Admits, SerialInv, GateInv
    <3>2. Executing = {}
      BY <3>1, <2>0, ExecutingChange, c \in Call DEF GateInv, ActiveCountsExecutions
    <3>3. /\ gate'.active = 1 /\ gate'.activeToken = t /\ ~gate'.queued
          /\ gate'.policy = gate.policy
      BY <2>0, <3>1 DEF Admit, GateState
    <3>4. \A d \in Executing' : current'[d] = t
      BY <2>0, <2>1, <3>2 DEF Start, TypeOK, Executing
    <3> QED
      BY <3>3, <3>4 DEF SerialInv
  <2>2. ASSUME NEW t \in Token, Queue(t)
        PROVE  SerialInv'
    BY <2>0, <2>2, NoTokenAssumption
      DEF Queue, Queues, Enqueue, GateState, GateInv, SerialInv, Executing
  <2>3. ASSUME NEW c \in Call, Finish(c)
        PROVE  SerialInv'
    <3> DEFINE t == current[c]
    <3>1. t \in Token /\ c \in Executing /\ gate' = Finished(gate, t)
      BY <2>0, <2>3 DEF Finish, TypeOK, Executing, OptToken
    <3>2. /\ t = gate.activeToken /\ gate.active = 1
          /\ gate.policy # "AllowOverlap"
      <4>1. Cardinality(Executing) # 0
        BY <2>0, <3>1, ExecutingChange
      <4> QED
        BY <3>1, <4>1 DEF SerialInv, GateInv, ActiveCountsExecutions
    <3>3. Executing = {c}
      <4>1. Cardinality(Executing) = 1 /\ IsFiniteSet(Executing)
        BY <2>0, <3>1, <3>2, ExecutingChange DEF GateInv, ActiveCountsExecutions
      <4> QED
        BY <3>1, <4>1, FS_Singleton
    <3>4. CASE NextExecution(gate, t) = NoToken
      <4>1. Executing' = {}
        BY <2>0, <2>3, <3>3, <3>4 DEF Finish, TypeOK, Executing
      <4>2. /\ gate'.active = 0 /\ ~gate'.queued /\ gate'.policy = gate.policy
        BY <2>0, <3>1, <3>2, <3>4, FinishedCount
      <4> QED
        BY <3>2, <4>1, <4>2 DEF SerialInv
    <3>5. CASE NextExecution(gate, t) # NoToken
      <4>1. /\ gate'.active = 1 /\ ~gate'.queued /\ gate'.policy = gate.policy
            /\ gate'.activeToken = gate.queuedToken
        BY <2>0, <3>1, <3>2, <3>5, FinishedCount
      <4>2. NextExecution(gate, t) = gate.queuedToken
        BY <3>5, <3>2, NoTokenAssumption DEF NextExecution, Successor, GateInv, SerialInv
      <4>3. \A d \in Executing' : current'[d] = gate.queuedToken
        BY <2>0, <2>3, <3>3, <4>2 DEF Finish, TypeOK, Executing
      <4> QED
        BY <3>2, <4>1, <4>3 DEF SerialInv
    <3> QED
      BY <3>4, <3>5
  <2>4. ASSUME NEW p \in Policies, SetPolicy(p)
        PROVE  SerialInv'
    BY <2>0, <2>4 DEF SetPolicy, WithPolicy, GateState, SerialInv, Executing
  <2>5. CASE UNCHANGED vars
    BY <2>5 DEF vars, SerialInv, Executing
  <2> QED
    BY <2>1, <2>2, <2>3, <2>4, <2>5 DEF Next
<1> QED
  BY <1>1, <1>2, GateInvariant, PTL DEF Spec

\* SerialExclusion: a job never given AllowOverlap never runs twice at once,
\* whatever generations and policies it goes through.
THEOREM MutualExclusion == Spec => []SerialExclusion
<1>1. GateInv /\ SerialInv => SerialExclusion
  <2> SUFFICES ASSUME GateInv, SerialInv, "AllowOverlap" \notin Policies,
                      NEW c \in Executing, NEW d \in Executing
               PROVE  c = d
    BY DEF SerialExclusion
  <2>1. c \in Call
    BY DEF Executing
  <2>2. IsFiniteSet(Executing) /\ Cardinality(Executing) # 0
    BY <2>1, ExecutingChange DEF GateInv
  <2>3. Cardinality(Executing) = 1
    BY <2>2 DEF GateInv, SerialInv, ActiveCountsExecutions
  <2> QED
    BY <2>2, <2>3, FS_Singleton
<1> QED
  BY <1>1, GateInvariant, SerialInvariant, PTL

\* AcceptedTriggerRuns: for such a job the trigger QueueOne accepted leaves the
\* gate only by being executed.  (With AllowOverlap in play it may be lost.)
THEOREM AcceptedTrigger ==
    ASSUME "AllowOverlap" \notin Policies
    PROVE  Spec => AcceptedTriggerRuns
<1> DEFINE QueuedExecuted == gate.queued /\ ~gate'.queued
                     => \E c \in Executing : current'[c] = gate.queuedToken
<1>1. GateInv /\ SerialInv /\ [Next]_vars => [QueuedExecuted]_vars
  <2> SUFFICES ASSUME GateInv, SerialInv, Next, gate.queued, ~gate'.queued
               PROVE  \E c \in Executing : current'[c] = gate.queuedToken
    OBVIOUS
  <2>1. gate \in GateState /\ TypeOK
    BY DEF GateInv, TypeOK
  <2>2. PICK c \in Call : Finish(c)
    BY <2>1 DEF Next, Start, Queue, SetPolicy, Admit, Queues, WithPolicy, GateState
  <2>3. c \in Executing /\ current[c] \in Token /\ gate' = Finished(gate, current[c])
    BY <2>1, <2>2 DEF Finish, TypeOK, Executing, OptToken
  <2>4. current[c] = gate.activeToken
    BY <2>3 DEF SerialInv
  <2>5. Successor(gate, current[c]) = gate.queuedToken
    BY <2>4, NoTokenAssumption DEF Successor, GateInv, SerialInv
  <2>6. Drains(gate)
    BY <2>1, <2>3 DEF Finished, Retire, GateState
  <2>7. current'[c] = gate.queuedToken
    BY <2>1, <2>2, <2>5, <2>6 DEF Finish, NextExecution, TypeOK
  <2> QED
    BY <2>3, <2>7
<1> QED
  BY <1>1, GateInvariant, SerialInvariant, PTL DEF Spec, AcceptedTriggerRuns

-----------------------------------------------------------------------------
(* The values of an execution and of a lease                                 *)

\* What an execution begins with is within its bounds, and so is its lease.
LEMMA BeginningsTyped ==
    /\ Idle \in Execution
    /\ \A d \in Definition :
         /\ TTL(d) \in 0..(Timeout + Grace)
         /\ Budget(d) \in 0..(Timeout + Grace)
         /\ [Idle EXCEPT !.at = "start", !.left = Budget(d)] \in Execution
<1>1. Idle \in Execution
  BY TimeAssumption DEF Idle, Execution, Stage, RunStatus
<1>2. ASSUME NEW d \in Definition
      PROVE  /\ TTL(d) \in 0..(Timeout + Grace)
             /\ Budget(d) \in 0..(Timeout + Grace)
             /\ [Idle EXCEPT !.at = "start", !.left = Budget(d)] \in Execution
  <2>1. Budget(d) \in 0..(Timeout + Grace) /\ TTL(d) \in 0..(Timeout + Grace)
    BY TimeAssumption DEF Budget, TTL, Definition
  <2> QED
    BY <2>1, TimeAssumption DEF Idle, Execution, Stage, RunStatus
<1> QED
  BY <1>1, <1>2

\* What a step makes of an execution is an execution again.
LEMMA ExecutionsTyped ==
    ASSUME NEW r \in Execution
    PROVE  /\ \A s \in RunStatus : Concluded(r, s) \in Execution /\ Unlocked(r, s) \in Execution
           /\ \A a \in Stage : [r EXCEPT !.at = a] \in Execution
           /\ [r EXCEPT !.at = "handle", !.lock = TRUE] \in Execution
           /\ [r EXCEPT !.ctx = "canceled"] \in Execution
           /\ Aged(r) \in Execution
<1>1. ASSUME NEW s \in RunStatus
      PROVE  Concluded(r, s) \in Execution /\ Unlocked(r, s) \in Execution
  <2>1. "record" \in Stage /\ 0 \in 0..(Timeout + Grace) /\ r.lock \in BOOLEAN
    BY TimeAssumption DEF Execution, Stage
  <2>2. Concluded(r, s) \in Execution
    BY <2>1 DEF Concluded, Execution
  <2> QED
    BY <2>2 DEF Unlocked, Execution
<1>2. \A a \in Stage : [r EXCEPT !.at = a] \in Execution
  BY DEF Execution
<1>3. [r EXCEPT !.at = "handle", !.lock = TRUE] \in Execution
  BY DEF Execution, Stage
<1>4. [r EXCEPT !.ctx = "canceled"] \in Execution
  BY DEF Execution
<1>5. Aged(r) \in Execution
  <2>1. CASE r.left = 0
    BY <2>1 DEF Aged
  <2>2. CASE r.left # 0
    <3> DEFINE ctx == IF r.ctx = "open" /\ r.left - 1 <= Grace THEN "timeout" ELSE r.ctx
    <3>1. Aged(r) = [at |-> r.at, left |-> r.left - 1, ctx |-> ctx,
                     lock |-> r.lock, status |-> r.status]
      BY <2>2 DEF Aged, Execution
    <3>2. r.left - 1 \in 0..(Timeout + Grace)
      BY <2>2, TimeAssumption DEF Execution
    <3>3. ctx \in {"open", "timeout", "canceled"}
      BY DEF Execution
    <3> HIDE DEF ctx
    <3> QED
      BY <3>1, <3>2, <3>3 DEF Execution
  <2> QED
    BY <2>1, <2>2
<1> QED
  BY <1>1, <1>2, <1>3, <1>4, <1>5

\* Ageing takes a tick from what is left and leaves the rest of an execution.
LEMMA AgedFields ==
    ASSUME NEW r \in Execution
    PROVE  /\ Aged(r).at = r.at
           /\ Aged(r).lock = r.lock
           /\ Aged(r).status = r.status
           /\ r.left > 0 => Aged(r).left = r.left - 1
           /\ r.left = 0 => Aged(r).left = 0
BY DEF Aged, Execution

-----------------------------------------------------------------------------
(* The lease invariant                                                       *)

\* A step of an execution that does not handle afterwards keeps the invariant, if
\* it gives up no lease but its own.
LEMMA StepOutsideHandler ==
    ASSUME LeaseInv,
           NEW e \in Runner, NEW r \in Execution,
           run' = [run EXCEPT ![e] = r],
           r.at # "handle",
           r.at = "lock" => definition.mode = "Singleton",
           r.at = "record" /\ r.status = "success" => lease'.holder # e,
           lease' \in Lease,
           lease.holder # e => lease' = lease,
           lease'.holder \in {lease.holder, Nobody},
           definition' = definition
    PROVE  LeaseInv'
<1>1. PersistentTypeOK'
  BY DEF LeaseInv, PersistentTypeOK
<1>2. ASSUME NEW f \in Runner
      PROVE  run'[f] = IF f = e THEN r ELSE run[f]
  BY DEF LeaseInv, PersistentTypeOK
<1>3. Nobody \notin Runner
  BY PeerAssumption DEF Runner
<1>4. SuccessMeansReleased'
  BY <1>2, <1>3 DEF LeaseInv, SuccessMeansReleased
<1>5. LocksIfSingleton'
  <2> SUFFICES ASSUME definition.mode = "EveryInstance"
               PROVE  lease' = Free /\ \A f \in Runner : run'[f].at # "lock"
    BY DEF LocksIfSingleton
  <2>1. lease = Free /\ \A f \in Runner : run[f].at # "lock"
    BY DEF LeaseInv, LocksIfSingleton
  <2>2. lease.holder = Nobody
    BY <2>1 DEF Free
  <2> QED
    BY <1>2, <1>3, <2>1, <2>2
<1>6. ASSUME definition.mode = "Singleton", NEW f \in Handling'
      PROVE  Covered(f)'
  <2>1. f \in Runner /\ run'[f].at = "handle"
    BY <1>6 DEF Handling
  <2>2. f # e /\ run'[f] = run[f]
    BY <1>2, <2>1
  <2>3. Covered(f)
    BY <1>6, <2>1, <2>2 DEF LeaseInv, Handling
  <2>4. lease' = lease
    BY <2>2, <2>3 DEF Covered
  <2> QED
    BY <2>2, <2>3, <2>4 DEF Covered
<1> QED
  BY <1>1, <1>4, <1>5, <1>6 DEF LeaseInv

\* While an execution holds the lease no other handles: the lease names one holder.
LEMMA OneHandler ==
    ASSUME LeaseInv, definition.mode = "Singleton",
           NEW e \in Handling, NEW f \in Handling
    PROVE  e = f
BY DEF LeaseInv, Covered

\* LeaseInv is inductive.
THEOREM LeaseInvariant == PersistentSpec => []LeaseInv
<1>1. PersistentInit => LeaseInv
  <2> SUFFICES ASSUME PersistentInit
               PROVE  LeaseInv
    OBVIOUS
  <2>1. Idle.at = "idle" /\ Nobody \notin Runner
    BY PeerAssumption DEF Idle, Runner
  <2>2. PersistentTypeOK
    <3>1. definition \in Definition
      BY DEF PersistentInit
    <3>2. lease \in Lease
      BY TimeAssumption DEF PersistentInit, Lease, Free
    <3> QED
      BY <3>1, <3>2, BeginningsTyped DEF PersistentInit, PersistentTypeOK
  <2>3. \A e \in Runner : run[e].at = "idle"
    BY <2>1 DEF PersistentInit
  <2>4. lease = Free
    BY DEF PersistentInit
  <2> QED
    BY <2>2, <2>3, <2>4 DEF LeaseInv, SuccessMeansReleased, LocksIfSingleton, Handling
<1>2. LeaseInv /\ [PersistentNext]_persistentVars => LeaseInv'
  <2> SUFFICES ASSUME LeaseInv, [PersistentNext]_persistentVars
               PROVE  LeaseInv'
    OBVIOUS
  <2>t. /\ definition \in Definition
        /\ run \in [Runner -> Execution]
        /\ lease \in Lease
        /\ Call \subseteq Runner /\ Peer \subseteq Runner
        /\ Nobody \notin Runner
    BY PeerAssumption DEF LeaseInv, PersistentTypeOK, Runner
  <2>b. /\ Begun \in Execution /\ Begun.at = "start"
        /\ Idle \in Execution /\ Idle.at = "idle"
    BY <2>t, BeginningsTyped DEF Begun, Idle
  <2>1. ASSUME NEW c \in Call, NEW t \in Token, StartCall(c, t)
        PROVE  LeaseInv'
    BY <2>1, <2>t, <2>b, StepOutsideHandler DEF StartCall
  <2>2. ASSUME NEW c \in Call, ReturnCall(c)
        PROVE  LeaseInv'
    <3> DEFINE r == IF current'[c] = NoToken THEN Idle ELSE Begun
    <3>1. r \in Execution /\ r.at \in {"idle", "start"}
      BY <2>b
    <3>2. run' = [run EXCEPT ![c] = r] /\ UNCHANGED <<definition, lease>>
      BY <2>2 DEF ReturnCall
    <3> HIDE DEF r
    <3> QED
      BY <3>1, <3>2, <2>t, StepOutsideHandler
  <2>3. ASSUME NEW p \in Peer, StartPeer(p)
        PROVE  LeaseInv'
    BY <2>3, <2>t, <2>b, StepOutsideHandler DEF StartPeer
  <2>4. ASSUME NEW p \in Peer, Crash(p)
        PROVE  LeaseInv'
    <3>1. /\ Unkept(p) \in Lease
          /\ lease.holder # p => Unkept(p) = lease
          /\ Unkept(p).holder = lease.holder
      BY <2>t DEF Unkept, Lease
    <3> QED
      BY <2>4, <3>1, <2>t, <2>b, StepOutsideHandler DEF Crash
  <2>5. ASSUME NEW e \in Runner, RecordStart(e)
        PROVE  LeaseInv'
    <3> DEFINE r == [run[e] EXCEPT !.at = IF definition.mode = "Singleton" THEN "lock" ELSE "handle"]
    <3>1. r \in Execution /\ run' = [run EXCEPT ![e] = r] /\ UNCHANGED <<definition, lease>>
      BY <2>5, <2>t, ExecutionsTyped DEF RecordStart, Stage
    <3>2. CASE definition.mode = "Singleton"
      <4>1. r.at = "lock"
        BY <3>2, <2>t DEF Execution
      <4> HIDE DEF r
      <4> QED
        BY <3>1, <3>2, <4>1, <2>t, StepOutsideHandler
    <3>3. CASE definition.mode = "EveryInstance"
      <4>1. r.at = "handle"
        BY <3>3, <2>t DEF Execution
      <4> HIDE DEF r
      <4>2. \A f \in Runner : run'[f] = IF f = e THEN r ELSE run[f]
        BY <3>1, <2>t
      <4> QED
        BY <3>1, <3>3, <4>1, <4>2, <2>t
           DEF LeaseInv, PersistentTypeOK, SuccessMeansReleased, LocksIfSingleton
    <3> QED
      BY <3>2, <3>3, <2>t DEF Definition
  <2>6. ASSUME NEW e \in Runner, Acquire(e)
        PROVE  LeaseInv'
    <3> DEFINE r == [run[e] EXCEPT !.at = "handle", !.lock = TRUE]
    <3>1. r \in Execution /\ run' = [run EXCEPT ![e] = r] /\ UNCHANGED definition
      BY <2>6, <2>t, ExecutionsTyped DEF Acquire
    <3>2. /\ r.at = "handle" /\ r.lock /\ r.left = run[e].left
          /\ \A f \in Runner : run'[f] = IF f = e THEN r ELSE run[f]
      BY <3>1, <2>t DEF Execution
    <3> HIDE DEF r
    <3>3. lease = Free /\ lease' = Held(e) /\ run[e].at = "lock"
      BY <2>6 DEF Acquire
    <3>4. definition.mode = "Singleton"
      BY <3>3, <2>t DEF LeaseInv, LocksIfSingleton, Definition
    <3>5. lease' \in Lease
      BY <3>3, <2>t, BeginningsTyped DEF Held, Lease
    <3>6. \A f \in Handling : FALSE
      BY <3>3, <3>4, <2>t DEF LeaseInv, Covered, Free, Handling
    <3>7. PersistentTypeOK'
      BY <3>1, <3>5, <2>t DEF PersistentTypeOK
    <3>8. SuccessMeansReleased'
      BY <3>2, <3>3, <2>t DEF LeaseInv, SuccessMeansReleased, Held
    <3>9. LocksIfSingleton'
      BY <3>1, <3>4 DEF LocksIfSingleton
    <3>10. Covered(e)'
      <4>1. run[e].left \in 0..(Timeout + Grace)
        BY <2>t DEF Execution
      <4>2. /\ lease'.holder = e /\ lease'.left = TTL(definition) /\ lease'.kept
            /\ run'[e].lock /\ run'[e].left = run[e].left
        BY <3>2, <3>3 DEF Held
      <4>3. definition.timeout # 0 => definition.timeout = Timeout
        BY <2>t DEF Definition
      <4>4. CASE definition.timeout # 0
        BY <4>1, <4>2, <4>3, <4>4, <3>1, TimeAssumption DEF Covered, TTL
      <4>5. CASE definition.timeout = 0
        BY <4>2, <4>5, <3>1 DEF Covered, TTL
      <4> QED
        BY <4>4, <4>5
    <3>11. \A f \in Handling' : f = e
      BY <3>2, <3>6 DEF Handling
    <3> QED
      BY <3>7, <3>8, <3>9, <3>10, <3>11 DEF LeaseInv
  <2>7. ASSUME NEW e \in Runner, NotAcquired(e)
        PROVE  LeaseInv'
    <3>1. /\ Concluded(run[e], "skipped") \in Execution
          /\ Concluded(run[e], "skipped").at = "record"
          /\ Concluded(run[e], "skipped").status = "skipped"
      BY <2>t, ExecutionsTyped DEF Concluded, RunStatus
    <3> QED
      BY <2>7, <3>1, <2>t, StepOutsideHandler DEF NotAcquired
  <2>8. ASSUME NEW e \in Runner, LockFails(e)
        PROVE  LeaseInv'
    <3> DEFINE r == Concluded(run[e], "failed")
    <3>1. r \in Execution /\ r.at = "record" /\ r.status = "failed"
      BY <2>t, ExecutionsTyped DEF Concluded, RunStatus
    <3>2. run' = [run EXCEPT ![e] = r] /\ UNCHANGED definition
      BY <2>8 DEF LockFails
    <3> HIDE DEF r
    <3>3. CASE UNCHANGED lease
      BY <3>1, <3>2, <3>3, <2>t, StepOutsideHandler
    <3>4. CASE lease = Free /\ lease' = [Held(e) EXCEPT !.kept = FALSE]
      <4>1. run[e].at = "lock"
        BY <2>8 DEF LockFails
      <4>2. definition.mode = "Singleton"
        BY <4>1, <2>t DEF LeaseInv, LocksIfSingleton, Definition
      <4>3. \A f \in Handling : FALSE
        BY <3>4, <4>2, <2>t DEF LeaseInv, Covered, Free, Handling
      <4>4. lease' \in Lease /\ lease'.holder = e
        BY <3>4, <2>t, BeginningsTyped DEF Held, Lease
      <4>5. \A f \in Runner : run'[f] = IF f = e THEN r ELSE run[f]
        BY <3>2, <2>t
      <4>6. PersistentTypeOK'
        BY <3>1, <3>2, <4>4, <2>t DEF PersistentTypeOK
      <4>7. SuccessMeansReleased'
        BY <3>1, <4>4, <4>5 DEF LeaseInv, SuccessMeansReleased
      <4>8. \A f \in Handling' : FALSE
        BY <3>1, <4>3, <4>5 DEF Handling
      <4> QED
        BY <3>2, <4>2, <4>6, <4>7, <4>8 DEF LeaseInv, LocksIfSingleton
    <3> QED
      BY <2>8, <3>3, <3>4 DEF LockFails
  <2>9. ASSUME NEW e \in Runner, HandlerReturns(e)
        PROVE  LeaseInv'
    <3>1. PICK err \in {"none", "error", "timeout", "canceled", "panic"} :
            run' = [run EXCEPT ![e] =
                      [Concluded(@, StatusOf(@.ctx, err)) EXCEPT
                         !.at = IF run[e].lock THEN "unlock" ELSE "record"]]
      BY <2>9 DEF HandlerReturns
    <3> DEFINE c == Concluded(run[e], StatusOf(run[e].ctx, err))
               r == [c EXCEPT !.at = IF run[e].lock THEN "unlock" ELSE "record"]
    <3>2. c \in Execution
      <4>1. StatusOf(run[e].ctx, err) \in RunStatus
        BY DEF StatusOf, RunStatus
      <4> QED
        BY <4>1, <2>t, ExecutionsTyped
    <3>3. run' = [run EXCEPT ![e] = r] /\ UNCHANGED <<definition, lease>> /\ run[e].at = "handle"
      BY <2>9, <3>1 DEF HandlerReturns
    <3> HIDE DEF c
    <3>4. r \in Execution /\ r.at = IF run[e].lock THEN "unlock" ELSE "record"
      <4>1. "unlock" \in Stage /\ "record" \in Stage
        BY DEF Stage
      <4>2. ASSUME NEW a \in Stage
            PROVE  [c EXCEPT !.at = a] \in Execution /\ [c EXCEPT !.at = a].at = a
        BY <3>2, ExecutionsTyped DEF Execution
      <4> QED
        BY <4>1, <4>2
    <3> HIDE DEF r
    <3>5. ~run[e].lock => lease.holder # e
      <4>1. definition.mode = "Singleton" => run[e].lock
        BY <3>3 DEF LeaseInv, Covered, Handling
      <4>2. definition.mode = "EveryInstance" => lease.holder = Nobody
        BY DEF LeaseInv, LocksIfSingleton, Free
      <4> QED
        BY <4>1, <4>2, <2>t DEF Definition
    <3> QED
      BY <3>3, <3>4, <3>5, <2>t, StepOutsideHandler
  <2>10. ASSUME NEW e \in Runner, Unlock(e)
         PROVE  LeaseInv'
    <3>1. /\ Released(e) \in Lease /\ Unkept(e) \in Lease
          /\ lease.holder # e => Released(e) = lease /\ Unkept(e) = lease
          /\ Released(e).holder \in {lease.holder, Nobody} \ {e}
          /\ Unkept(e).holder = lease.holder
      <4>1. Free \in Lease /\ Free.holder = Nobody /\ Nobody # e
        BY <2>t, TimeAssumption DEF Free, Lease
      <4>2. [lease EXCEPT !.kept = FALSE] \in Lease
            /\ [lease EXCEPT !.kept = FALSE].holder = lease.holder
        BY <2>t DEF Lease
      <4> QED
        BY <4>1, <4>2, <2>t DEF Released, Unkept
    <3>2. ASSUME NEW s \in RunStatus
          PROVE  /\ Unlocked(run[e], s) \in Execution
                 /\ Unlocked(run[e], s).at = "record" /\ Unlocked(run[e], s).status = s
      BY <2>t, ExecutionsTyped DEF Unlocked, Concluded
    <3>3. UNCHANGED definition /\ run[e].status \in RunStatus
      BY <2>10, <2>t DEF Unlock, Execution
    <3>4. CASE lease' = Released(e) /\ run' = [run EXCEPT ![e] = Unlocked(@, @.status)]
      BY <3>1, <3>2, <3>3, <3>4, StepOutsideHandler
    <3>5. CASE /\ lease' \in {Released(e), Unkept(e)}
               /\ run' = [run EXCEPT ![e] =
                            Unlocked(@, IF @.status = "success" THEN "failed" ELSE @.status)]
      <4> DEFINE s == IF run[e].status = "success" THEN "failed" ELSE run[e].status
      <4>1. s \in RunStatus /\ s # "success"
        BY <3>3 DEF RunStatus
      <4>2. run' = [run EXCEPT ![e] = Unlocked(run[e], s)]
        BY <3>5
      <4> HIDE DEF s
      <4> QED
        BY <3>1, <3>2, <3>3, <3>5, <4>1, <4>2, StepOutsideHandler
    <3> QED
      BY <2>10, <3>4, <3>5 DEF Unlock
  <2>11. ASSUME NEW e \in Runner, RecordFinish(e)
         PROVE  LeaseInv'
    <3> DEFINE r == IF e \in Call THEN [Idle EXCEPT !.at = "returned"] ELSE Idle
    <3>1. r \in Execution /\ r.at \in {"idle", "returned"}
      BY <2>b, ExecutionsTyped DEF Stage, Idle
    <3>2. run' = [run EXCEPT ![e] = r] /\ UNCHANGED <<definition, lease>>
      BY <2>11 DEF RecordFinish
    <3> HIDE DEF r
    <3> QED
      BY <3>1, <3>2, <2>t, StepOutsideHandler
  <2>12. ASSUME NEW e \in Runner, Cancel(e)
         PROVE  LeaseInv'
    <3> DEFINE r == [run[e] EXCEPT !.ctx = "canceled"]
    <3>1. r \in Execution /\ run' = [run EXCEPT ![e] = r] /\ UNCHANGED <<definition, lease>>
      BY <2>12, <2>t, ExecutionsTyped DEF Cancel
    <3>2. /\ r.at = run[e].at /\ r.lock = run[e].lock /\ r.left = run[e].left
          /\ r.status = run[e].status
      BY <2>t DEF Execution
    <3> HIDE DEF r
    <3>3. ASSUME NEW f \in Runner
          PROVE  /\ run'[f].at = run[f].at /\ run'[f].lock = run[f].lock
                 /\ run'[f].left = run[f].left /\ run'[f].status = run[f].status
      BY <3>1, <3>2, <2>t
    <3>4. PersistentTypeOK'
      BY <3>1, <2>t DEF PersistentTypeOK
    <3> QED
      BY <3>1, <3>3, <3>4
         DEF LeaseInv, SuccessMeansReleased, LocksIfSingleton, Handling, Covered
  <2>13. CASE Tick
    <3>1. ASSUME NEW f \in Runner
          PROVE  run'[f] = Aged(run[f]) /\ run[f] \in Execution
      BY <2>13, <2>t DEF Tick
    <3>2. /\ lease.left > 1 => lease' = [lease EXCEPT !.left = @ - 1]
          /\ lease.left = 1 => lease' = Free
          /\ lease.left = 0 => lease' = lease
          /\ UNCHANGED definition
      BY <2>13, <2>t DEF Tick
    <3>3. lease.left \in Nat
      BY <2>t, TimeAssumption DEF Lease
    <3>4. lease' \in Lease /\ lease'.holder \in {lease.holder, Nobody}
      <4>1. CASE lease.left > 1
        <5>1. lease.left - 1 \in 0..(Timeout + Grace)
          BY <4>1, <2>t, TimeAssumption DEF Lease
        <5> QED
          BY <3>2, <4>1, <5>1, <2>t DEF Lease
      <4>2. CASE lease.left = 1
        <5>1. Free \in Lease /\ Free.holder = Nobody
          BY TimeAssumption DEF Free, Lease
        <5> QED
          BY <3>2, <4>2, <5>1
      <4>3. CASE lease.left = 0
        BY <3>2, <4>3, <2>t
      <4>4. lease.left > 1 \/ lease.left = 1 \/ lease.left = 0
        BY <3>3
      <4> QED
        BY <4>1, <4>2, <4>3, <4>4
    <3>5. PersistentTypeOK'
      <4>1. run' \in [Runner -> Execution]
        BY <2>13, <3>1, ExecutionsTyped DEF Tick
      <4> QED
        BY <3>2, <3>4, <4>1, <2>t DEF PersistentTypeOK
    <3>6. SuccessMeansReleased'
      BY <3>1, <3>4, <2>t, AgedFields DEF LeaseInv, SuccessMeansReleased
    <3>7. LocksIfSingleton'
      BY <3>1, <3>2, <3>3, AgedFields DEF LeaseInv, LocksIfSingleton, Free
    <3>8. ASSUME definition.mode = "Singleton", NEW f \in Handling'
          PROVE  Covered(f)'
      <4>1. f \in Runner /\ f \in Handling
        BY <3>1, <3>8, AgedFields DEF Handling
      <4>2. Covered(f)
        BY <3>8, <4>1 DEF LeaseInv
      <4>3. run'[f].lock
        BY <3>1, <4>1, <4>2, AgedFields DEF Covered
      <4>4. CASE definition.timeout = 0
        BY <3>2, <4>2, <4>3, <4>4 DEF Covered
      <4>5. CASE definition.timeout # 0
        <5>1. definition.timeout > 0
          BY <4>5, <2>t, TimeAssumption DEF Definition
        <5>2. run[f].left > 1 /\ run[f].left \in Nat
          BY <5>1, <2>13, <4>1, <2>t, TimeAssumption DEF Tick, Prompt, Execution
        <5>3. run'[f].left = run[f].left - 1
          BY <3>1, <4>1, <5>2, AgedFields
        <5>4. lease.left >= run[f].left /\ lease.holder = f
          BY <4>2, <4>5 DEF Covered
        <5>5. lease' = [lease EXCEPT !.left = @ - 1]
          BY <3>2, <3>3, <5>2, <5>4
        <5>6. lease'.left = lease.left - 1 /\ lease'.holder = f
          BY <5>4, <5>5, <2>t DEF Lease
        <5> QED
          BY <3>2, <3>3, <4>3, <4>5, <5>2, <5>3, <5>4, <5>6 DEF Covered
      <4> QED
        BY <4>4, <4>5
    <3> QED
      BY <3>2, <3>5, <3>6, <3>7, <3>8 DEF LeaseInv
  <2>14. CASE Lapse
    <3>1. lease.left = 0 /\ ~lease.kept /\ lease' = Free /\ UNCHANGED <<definition, run>>
      BY <2>14 DEF Lapse
    <3>2. definition.mode = "Singleton" => \A f \in Handling : FALSE
      BY <3>1 DEF LeaseInv, Covered
    <3>3. PersistentTypeOK'
      BY <3>1, <2>t, TimeAssumption DEF PersistentTypeOK, Free, Lease
    <3> QED
      BY <3>1, <3>2, <3>3, <2>t
         DEF LeaseInv, SuccessMeansReleased, LocksIfSingleton, Handling, Free
  <2>15. CASE UNCHANGED <<definition, run, lease>>
    BY <2>15 DEF LeaseInv, PersistentTypeOK, SuccessMeansReleased, LocksIfSingleton, Handling, Covered
  <2> QED
    BY <2>1, <2>2, <2>3, <2>4, <2>5, <2>6, <2>7, <2>8, <2>9, <2>10, <2>11, <2>12, <2>13,
       <2>14, <2>15
       DEF PersistentNext, persistentVars, Step, QueueCall, ReplacePolicy
<1> QED
  BY <1>1, <1>2, PTL DEF PersistentSpec

-----------------------------------------------------------------------------
(* What it gives                                                             *)

\* A Singleton job has one handler at a time on all instances
\* (persistent_execution.go, execute and persistentLockTTL).
THEOREM SingletonExclusion == PersistentSpec => []OneInstance
<1>1. LeaseInv => OneInstance
  BY OneHandler DEF OneInstance
<1> QED
  BY <1>1, LeaseInvariant, PTL

\* A run recorded as a success has given its lock back (finish unlocks before it
\* records, and records a failed unlock as a failure).
THEOREM SuccessReleased == PersistentSpec => []SuccessMeansReleased
BY LeaseInvariant, PTL DEF LeaseInv

\* Executing under a recorder and a locker is, for the gate of the job, executing:
\* every theorem about OverlapGate holds of persistent executions.
THEOREM GateImplemented == PersistentSpec => Spec
<1>1. PersistentInit => Init
  BY DEF PersistentInit
<1>2. [PersistentNext]_persistentVars => [Next]_vars
  <2> SUFFICES ASSUME [PersistentNext]_persistentVars
               PROVE  [Next]_vars
    OBVIOUS
  <2>1. ASSUME NEW c \in Call, NEW t \in Token, StartCall(c, t)
        PROVE  Next
    BY <2>1 DEF StartCall, Next
  <2>2. ASSUME NEW t \in Token, QueueCall(t)
        PROVE  Next
    BY <2>2 DEF QueueCall, Next
  <2>3. ASSUME NEW p \in Policies, ReplacePolicy(p)
        PROVE  Next
    BY <2>3 DEF ReplacePolicy, Next
  <2>4. ASSUME NEW c \in Call, ReturnCall(c)
        PROVE  Next
    BY <2>4 DEF ReturnCall, Next
  <2>5. ASSUME NEW p \in Peer, StartPeer(p) \/ Crash(p)
        PROVE  UNCHANGED vars
    BY <2>5 DEF StartPeer, Crash, vars
  <2>6. ASSUME NEW e \in Runner, Step(e) \/ Cancel(e)
        PROVE  UNCHANGED vars
    BY <2>6 DEF Step, RecordStart, Acquire, NotAcquired, LockFails, HandlerReturns, Unlock,
                RecordFinish, Cancel, vars
  <2>7. CASE Tick \/ Lapse
    BY <2>7 DEF Tick, Lapse, vars
  <2>8. CASE UNCHANGED persistentVars
    BY <2>8 DEF persistentVars, vars
  <2> QED
    BY <2>1, <2>2, <2>3, <2>4, <2>5, <2>6, <2>7, <2>8 DEF PersistentNext
<1> QED
  BY <1>1, <1>2, PTL DEF PersistentSpec, Spec

\* Under a serial policy an accepted trigger of a persistent job leaves the queue
\* only by being executed (overlap.go:115-117).
THEOREM AcceptedExecution ==
    ASSUME "AllowOverlap" \notin Policies
    PROVE  PersistentSpec => AcceptedTriggerRuns
BY GateImplemented, AcceptedTrigger, PTL

-----------------------------------------------------------------------------
(* The loader                                                               *)

\* The job of a definition.
JobOf(i, d) == [id |-> i, version |-> d.version]

\* What a call of the scheduler does to the jobs: one that adds a job ...
LEMMA PutNew ==
    ASSUME NEW s \in [Name -> Job \cup {Absent}], NEW d \in Definitions, NEW i \in ID,
           NEW x \in Stored, Scheduled(s, d), d[i] = Absent, s[x.name] = Absent
    PROVE  Scheduled([s EXCEPT ![x.name] = JobOf(i, x)], [d EXCEPT ![i] = x])
<1> DEFINE t == [s EXCEPT ![x.name] = JobOf(i, x)]
           e == [d EXCEPT ![i] = x]
<1>1. x.name \in Name /\ JobOf(i, x) # Absent /\ x # Absent /\ JobOf(i, x) \in Job
  BY AbsentAssumption DEF Stored, Job, JobOf
<1>2. ASSUME NEW j \in ID, e[j] # Absent
      PROVE  t[e[j].name] = JobOf(j, e[j])
  <2>1. CASE j = i
    BY <1>1, <2>1 DEF Definitions
  <2>2. CASE j # i
    <3>1. e[j] = d[j] /\ d[j] \in Stored /\ s[d[j].name] = JobOf(j, d[j])
      BY <1>2, <2>2 DEF Definitions, Scheduled, JobOf
    <3>2. s[d[j].name] # Absent /\ d[j].name \in Name
      BY <3>1, AbsentAssumption DEF Stored, Job, JobOf
    <3> QED
      BY <1>1, <3>1, <3>2
  <2> QED
    BY <2>1, <2>2
<1>3. ASSUME NEW n \in Name, t[n] # Absent
      PROVE  \E j \in ID : e[j] # Absent /\ e[j].name = n
  <2>1. CASE n = x.name
    BY <1>1, <2>1 DEF Definitions
  <2>2. CASE n # x.name
    <3>1. PICK j \in ID : d[j] # Absent /\ d[j].name = n
      BY <1>1, <1>3, <2>2 DEF Scheduled
    <3> QED
      BY <1>1, <2>2, <3>1 DEF Definitions
  <2> QED
    BY <2>1, <2>2
<1> QED
  BY <1>2, <1>3 DEF Scheduled, JobOf

\* ... which removes a job ...
LEMMA PutNone ==
    ASSUME NEW s \in [Name -> Job \cup {Absent}], NEW d \in Definitions, NEW i \in ID,
           Scheduled(s, d), d[i] # Absent
    PROVE  Scheduled([s EXCEPT ![d[i].name] = Absent], [d EXCEPT ![i] = Absent])
<1> DEFINE t == [s EXCEPT ![d[i].name] = Absent]
           e == [d EXCEPT ![i] = Absent]
<1>1. d[i] \in Stored /\ d[i].name \in Name /\ s[d[i].name] = JobOf(i, d[i])
  BY DEF Definitions, Stored, Scheduled, JobOf
<1>2. ASSUME NEW j \in ID, e[j] # Absent
      PROVE  t[e[j].name] = JobOf(j, e[j])
  <2>1. j # i /\ e[j] = d[j] /\ d[j] \in Stored /\ s[d[j].name] = JobOf(j, d[j])
    BY <1>2 DEF Definitions, Scheduled, JobOf
  <2>2. d[j].name # d[i].name /\ d[j].name \in Name
    BY <1>1, <2>1 DEF JobOf, Stored
  <2> QED
    BY <1>1, <2>1, <2>2
<1>3. ASSUME NEW n \in Name, t[n] # Absent
      PROVE  \E j \in ID : e[j] # Absent /\ e[j].name = n
  <2>1. n # d[i].name /\ s[n] # Absent
    BY <1>1, <1>3
  <2>2. PICK j \in ID : d[j] # Absent /\ d[j].name = n
    BY <2>1 DEF Scheduled
  <2> QED
    BY <2>1, <2>2 DEF Definitions
<1> QED
  BY <1>2, <1>3 DEF Scheduled, JobOf

\* ... or gives it another version.
LEMMA PutOther ==
    ASSUME NEW s \in [Name -> Job \cup {Absent}], NEW d \in Definitions, NEW i \in ID,
           NEW x \in Stored, Scheduled(s, d), d[i] # Absent, d[i].name = x.name
    PROVE  Scheduled([s EXCEPT ![x.name] = JobOf(i, x)], [d EXCEPT ![i] = x])
<1> DEFINE t == [s EXCEPT ![x.name] = JobOf(i, x)]
           e == [d EXCEPT ![i] = x]
<1>0. x # Absent /\ x.name \in Name /\ JobOf(i, x) # Absent
  BY AbsentAssumption DEF Stored, JobOf, Job
<1>1. /\ d[i] \in Stored /\ x.name \in Name /\ s[x.name] = JobOf(i, d[i])
      /\ x # Absent /\ JobOf(i, x) # Absent
  BY <1>0 DEF Definitions, Scheduled, JobOf
<1>2. ASSUME NEW j \in ID, e[j] # Absent
      PROVE  t[e[j].name] = JobOf(j, e[j])
  <2>1. CASE j = i
    BY <1>1, <2>1 DEF Definitions
  <2>2. CASE j # i
    <3>1. e[j] = d[j] /\ d[j] \in Stored /\ s[d[j].name] = JobOf(j, d[j])
      BY <1>2, <2>2 DEF Definitions, Scheduled, JobOf
    <3>2. d[j].name # x.name /\ d[j].name \in Name
      BY <1>1, <2>2, <3>1 DEF JobOf, Stored
    <3> QED
      BY <1>1, <3>1, <3>2
  <2> QED
    BY <2>1, <2>2
<1>3. ASSUME NEW n \in Name, t[n] # Absent
      PROVE  \E j \in ID : e[j] # Absent /\ e[j].name = n
  <2>1. CASE n = x.name
    BY <1>1, <2>1 DEF Definitions
  <2>2. CASE n # x.name
    <3>1. PICK j \in ID : d[j] # Absent /\ d[j].name = n
      BY <1>1, <1>3, <2>2 DEF Scheduled
    <3> QED
      BY <1>1, <2>2, <3>1 DEF Definitions
  <2> QED
    BY <2>1, <2>2
<1> QED
  BY <1>2, <1>3 DEF Scheduled, JobOf

\* The calls of a Sync, after one more ...
LEMMA DoneAppend ==
    ASSUME NEW op, NEW i, undos \in Seq(SchedulerCall),
           undos' = Append(undos, [op |-> op, id |-> i]), NEW o, NEW j
    PROVE  Done(o, j)' <=> Done(o, j) \/ (o = op /\ j = i)
<1>1. [op |-> o, id |-> j] = [op |-> op, id |-> i] <=> o = op /\ j = i
  OBVIOUS
<1>2. /\ DOMAIN undos = 1..Len(undos) /\ Len(undos) \in Nat
      /\ DOMAIN undos' = 1..(Len(undos) + 1)
      /\ \A k \in 1..Len(undos) : undos'[k] = undos[k]
      /\ undos'[Len(undos) + 1] = [op |-> op, id |-> i]
  OBVIOUS
<1> QED
  BY <1>1, <1>2 DEF Done

\* ... and one less.
LEMMA DoneUndone ==
    ASSUME undos \in Seq(SchedulerCall), undos # <<>>, undos' = Latest(undos).rest, UndoInv,
           NEW o, NEW j
    PROVE  /\ Latest(undos).call \in SchedulerCall /\ Latest(undos).call = undos[Len(undos)]
           /\ Done(o, j)' <=>
                Done(o, j) /\ ~(o = Latest(undos).call.op /\ j = Latest(undos).call.id)
<1> DEFINE c == Latest(undos).call
           L == Len(undos)
<1>1. /\ L \in Nat /\ L >= 1 /\ DOMAIN undos = 1..L /\ c = undos[L] /\ c \in SchedulerCall
  BY DEF Latest
<1>2. /\ DOMAIN undos' = 1..(L - 1) /\ \A k \in 1..(L - 1) : undos'[k] = undos[k]
  BY <1>1 DEF Latest
<1>3. \A k \in 1..(L - 1) : undos[k] # undos[L]
  BY <1>1 DEF UndoInv
<1>4. c = [op |-> c.op, id |-> c.id]
  BY <1>1 DEF SchedulerCall
<1>5. c = [op |-> o, id |-> j] <=> o = c.op /\ j = c.id
  BY <1>4
<1>6. Done(o, j)' <=> \E k \in 1..(L - 1) : undos[k] = [op |-> o, id |-> j]
  BY <1>2 DEF Done
<1>7. Done(o, j) <=> \E k \in 1..L : undos[k] = [op |-> o, id |-> j]
  BY <1>1 DEF Done
<1> HIDE DEF c, L
<1>8. \A k : k \in 1..L <=> k \in 1..(L - 1) \/ k = L
  BY <1>1 DEF L
<1> QED
  BY <1>1, <1>3, <1>5, <1>6, <1>7, <1>8 DEF c, L

\* What an ID's new and old definition are, in a Sync that has listed the store.
LEMMA SyncTyped ==
    ASSUME LoaderTypeOK, ListInv, NEW i \in ID
    PROVE  /\ loaded[i] \in Stored \cup {Absent}
           /\ mu \in Caller /\ listed[mu] # Absent => /\ desired(mu) \in Definitions
                                                     /\ desired(mu)[i] \in Stored \cup {Absent}
           /\ undos # <<>> => mu \in Caller /\ listed[mu] # Absent
           /\ \A o : Done(o, i) => undos # <<>>
BY DEF LoaderTypeOK, ListInv, Definitions, Snapshot, desired, Done

LEMMA CurrentTyped ==
    ASSUME LoaderTypeOK, ListInv
    PROVE  Current \in Definitions
<1>1. ASSUME NEW i \in ID
      PROVE  Current[i] \in Stored \cup {Absent}
  BY SyncTyped DEF Current
<1> QED
  BY <1>1 DEF Current, Definitions

\* Why a call is among those to be undone.
LEMMA DoneWhy ==
    ASSUME UndoInv, NEW i \in ID
    PROVE  /\ Done("replace", i) => Changed(mu, i)
           /\ Done("remove", i) => Stale(mu, i)
           /\ Done("add", i) => Fresh(mu, i) /\ (Stale(mu, i) => Done("remove", i))
BY DEF UndoInv, Done

\* One more call keeps the order.
LEMMA UndoAppended ==
    ASSUME LoaderTypeOK, UndoInv, NEW op \in {"replace", "remove", "add"}, NEW i \in ID,
           undos' = Append(undos, [op |-> op, id |-> i]), UNCHANGED <<mu, listed, loaded, failing>>,
           ~Done(op, i),
           op = "replace" => Changed(mu, i),
           op = "remove" => Stale(mu, i),
           op = "add" => Fresh(mu, i) /\ RemovalsDone(mu),
           op # "add" => ~RemovalsDone(mu), ~failing
    PROVE  UndoInv'
<1> DEFINE c == [op |-> op, id |-> i]
           L == Len(undos)
<1>1. /\ L \in Nat /\ DOMAIN undos = 1..L /\ DOMAIN undos' = 1..(L + 1)
      /\ \A k \in 1..L : undos'[k] = undos[k] /\ undos[k] \in SchedulerCall
      /\ undos'[L + 1] = c
  BY DEF LoaderTypeOK
<1>2. \A o, j : Done(o, j)' <=> Done(o, j) \/ (o = op /\ j = i)
  BY DoneAppend DEF LoaderTypeOK
<1>3. \A j : /\ Changed(mu, j)' <=> Changed(mu, j)
             /\ Stale(mu, j)' <=> Stale(mu, j)
             /\ Fresh(mu, j)' <=> Fresh(mu, j)
  BY DEF Changed, Stale, Fresh, Kept, desired
<1>4. \A k \in 1..L : undos[k] # c
  BY <1>1 DEF Done
<1>5. op # "add" => \A k \in 1..L : undos[k].op # "add"
  BY <1>1 DEF UndoInv
<1>6. RemovalsDone(mu) => RemovalsDone(mu)'
  BY <1>2, <1>3 DEF RemovalsDone, ToReplace, ToRemove
<1>7. op = "add" /\ Stale(mu, i) => Done("remove", i)
  BY DEF RemovalsDone, ToRemove
<1>8. \A k \in 1..L :
        /\ undos[k].op = "replace" => Changed(mu, undos[k].id)
        /\ undos[k].op = "remove" => Stale(mu, undos[k].id)
        /\ undos[k].op = "add" =>
             /\ Fresh(mu, undos[k].id) /\ (Stale(mu, undos[k].id) => Done("remove", undos[k].id))
             /\ \A m \in 1..L : m > k => undos[m].op = "add"
        /\ \A m \in 1..L : undos[m] = undos[k] => m = k
  BY <1>1 DEF UndoInv
<1>9. (\E k \in 1..L : undos[k].op = "add") => RemovalsDone(mu)
  BY <1>1 DEF UndoInv
<1> HIDE DEF L
<1>10. ASSUME NEW k \in 1..(L + 1), NEW j, undos'[k].id = j
       PROVE  /\ undos'[k].op = "replace" => Changed(mu, j)
              /\ undos'[k].op = "remove" => Stale(mu, j)
              /\ undos'[k].op = "add" =>
                   /\ Fresh(mu, j) /\ (Stale(mu, j) => Done("remove", j)')
                   /\ \A m \in 1..(L + 1) : m > k => undos'[m].op = "add"
              /\ \A m \in 1..(L + 1) : undos'[m] = undos'[k] => m = k
  <2>1. CASE k = L + 1
    <3>1. undos'[k].op = op /\ undos'[k].id = i
      BY <1>1, <2>1
    <3>2. \A m \in 1..(L + 1) : ~(m > k) /\ (m # k => m \in 1..L)
      BY <1>1, <2>1
    <3> QED
      BY <1>1, <1>2, <1>4, <1>7, <1>10, <2>1, <3>1, <3>2
  <2>2. CASE k \in 1..L
    <3>1. undos'[k] = undos[k]
      BY <1>1, <2>2
    <3>2. \A m \in 1..(L + 1) : m \in 1..L \/ m = L + 1
      BY <1>1
    <3>3. undos[k].op = "add" => op = "add"
      BY <1>5, <2>2
    <3>4. \A m \in 1..(L + 1) : undos'[m] = undos[k] => m = k
      BY <1>1, <1>4, <1>8, <2>2, <3>2
    <3>5. undos[k].op = "add" => \A m \in 1..(L + 1) : m > k => undos'[m].op = "add"
      BY <1>1, <1>8, <2>2, <3>2, <3>3
    <3> QED
      BY <1>2, <1>8, <1>10, <2>2, <3>1, <3>4, <3>5
  <2> QED
    BY <1>1, <2>1, <2>2
<1>11. (\E k \in 1..(L + 1) : undos'[k].op = "add") => RemovalsDone(mu)'
  <2>1. ASSUME NEW k \in 1..(L + 1), undos'[k].op = "add"
        PROVE  RemovalsDone(mu)
    <3>1. CASE k = L + 1
      BY <1>1, <2>1, <3>1
    <3>2. CASE k \in 1..L
      BY <1>1, <1>9, <2>1, <3>2
    <3> QED
      BY <1>1, <3>1, <3>2
  <2> QED
    BY <1>6, <2>1
<1> QED
  BY <1>1, <1>3, <1>10, <1>11 DEF UndoInv

\* One call less keeps the order.
LEMMA UndoneLast ==
    ASSUME LoaderTypeOK, UndoInv, undos # <<>>, undos' = Latest(undos).rest,
           UNCHANGED <<mu, listed, loaded, failing>>, failing
    PROVE  UndoInv' /\ undos' \in Seq(SchedulerCall)
<1> DEFINE c == Latest(undos).call
           L == Len(undos)
<1>1. /\ L \in Nat /\ L >= 1 /\ DOMAIN undos = 1..L /\ DOMAIN undos' = 1..(L - 1)
      /\ \A k \in 1..(L - 1) : undos'[k] = undos[k] /\ undos[k] \in SchedulerCall /\ k \in 1..L
      /\ undos[L] = c /\ undos' \in Seq(SchedulerCall)
  BY DEF Latest, LoaderTypeOK
<1>2. \A o, j : Done(o, j)' <=> Done(o, j) /\ ~(o = c.op /\ j = c.id)
  BY DoneUndone DEF LoaderTypeOK
<1>3. \A j : /\ Changed(mu, j)' <=> Changed(mu, j)
             /\ Stale(mu, j)' <=> Stale(mu, j)
             /\ Fresh(mu, j)' <=> Fresh(mu, j)
  BY DEF Changed, Stale, Fresh, Kept, desired
<1>4. \A k \in 1..L :
        /\ undos[k].op = "replace" => Changed(mu, undos[k].id)
        /\ undos[k].op = "remove" => Stale(mu, undos[k].id)
        /\ undos[k].op = "add" =>
             /\ Fresh(mu, undos[k].id) /\ (Stale(mu, undos[k].id) => Done("remove", undos[k].id))
             /\ \A m \in 1..L : m > k => undos[m].op = "add"
        /\ \A m \in 1..L : undos[m] = undos[k] => m = k
  BY <1>1 DEF UndoInv
<1> HIDE DEF L, c
<1>5. \A k \in 1..(L - 1) : undos[k].op = "add" => c.op = "add"
  BY <1>1, <1>4
<1>6. ASSUME NEW k \in 1..(L - 1), NEW j, undos'[k].id = j
      PROVE  /\ undos'[k].op = "replace" => Changed(mu, j)
             /\ undos'[k].op = "remove" => Stale(mu, j)
             /\ undos'[k].op = "add" =>
                  /\ Fresh(mu, j) /\ (Stale(mu, j) => Done("remove", j)')
                  /\ \A m \in 1..(L - 1) : m > k => undos'[m].op = "add"
             /\ \A m \in 1..(L - 1) : undos'[m] = undos'[k] => m = k
  <2>1. undos'[k] = undos[k] /\ k \in 1..L
    BY <1>1
  <2>2. \A m \in 1..(L - 1) : undos'[m] = undos[m] /\ m \in 1..L
    BY <1>1
  <2>3. undos[k].op = "add" /\ Stale(mu, j) => Done("remove", j)'
    BY <1>2, <1>4, <1>5, <1>6, <2>1
  <2> QED
    BY <1>4, <1>6, <2>1, <2>2, <2>3
<1> QED
  BY <1>1, <1>3, <1>6 DEF UndoInv

\* Kept is the opposite of Stale for an ID that is loaded, and of Fresh for one that is
\* desired.
LEMMA Reasons ==
    ASSUME NEW i \in ID
    PROVE  /\ Changed(mu, i) => /\ Kept(mu, i) /\ ~Stale(mu, i) /\ ~Fresh(mu, i)
                                /\ loaded[i] # Absent /\ desired(mu)[i] # Absent
                                /\ desired(mu)[i].name = loaded[i].name
           /\ Stale(mu, i) => loaded[i] # Absent /\ ~Changed(mu, i)
           /\ Fresh(mu, i) => desired(mu)[i] # Absent /\ ~Changed(mu, i)
           /\ loaded[i] # Absent /\ ~Stale(mu, i) => Kept(mu, i) /\ ~Fresh(mu, i)
BY DEF Changed, Stale, Fresh, Kept

\* An ID that is scheduled in the middle of a Sync by another definition than the new
\* one has the name it was loaded with.
LEMMA CurrentAt ==
    ASSUME UndoInv, NEW i \in ID
    PROVE  /\ Done("add", i) => Current[i] = desired(mu)[i] /\ desired(mu)[i] # Absent
           /\ Done("replace", i) => /\ Current[i] = desired(mu)[i] /\ desired(mu)[i] # Absent
                                    /\ desired(mu)[i].name = loaded[i].name
           /\ Done("remove", i) /\ ~Done("add", i) => Current[i] = Absent
           /\ ~Done("replace", i) /\ ~Done("remove", i) /\ ~Done("add", i) => Current[i] = loaded[i]
           /\ Current[i] # Absent /\ ~Done("add", i) =>
                loaded[i] # Absent /\ Current[i].name = loaded[i].name
<1>1. /\ Done("replace", i) => Changed(mu, i)
      /\ Done("remove", i) => Stale(mu, i)
      /\ Done("add", i) => Fresh(mu, i)
  BY DoneWhy
<1> QED
  BY <1>1, Reasons DEF Current

LEMMA ReplaceKeeps ==
    ASSUME LoaderInv, NEW p \in Caller, NEW i \in ID, Replace(p, i)
    PROVE  LoaderInv'
<1> USE DEF LoaderInv
<1>1. /\ mu = p /\ listed[p] # Absent /\ ~failing /\ Changed(mu, i) /\ ~Done("replace", i)
      /\ ~RemovalsDone(mu) /\ jobs' = [jobs EXCEPT ![loaded[i].name] = Desired(p, i)]
      /\ undos' = Append(undos, [op |-> "replace", id |-> i])
      /\ UNCHANGED <<store, mu, listed, failing, loaded, committed, damaged>>
  BY DEF Replace, Working, ToReplace, RemovalsDone, Put, Record
<1>2. /\ loaded[i] \in Stored /\ desired(mu)[i] \in Stored
      /\ desired(mu)[i].name = loaded[i].name /\ Desired(p, i) = JobOf(i, desired(mu)[i])
      /\ ~Stale(mu, i) /\ ~Fresh(mu, i)
  BY <1>1, SyncTyped, Reasons DEF Desired, JobOf
<1>3. UndoInv'
  BY <1>1, UndoAppended
<1>4. LoaderTypeOK'
  <2>1. undos' \in Seq(SchedulerCall)
    BY <1>1 DEF LoaderTypeOK, SchedulerCall
  <2>2. Desired(p, i) \in Job
    BY <1>2 DEF Stored, Job, JobOf
  <2> QED
    BY <1>1, <2>1, <2>2 DEF LoaderTypeOK
<1>5. ListInv'
  BY <1>1 DEF ListInv, Prepared, desired
<1>6. ~damaged => Scheduled(jobs', Current')
  <2> SUFFICES ASSUME ~damaged PROVE Scheduled(jobs', Current')
    OBVIOUS
  <2>1. ~Done("remove", i) /\ ~Done("add", i)
    BY <1>2, DoneWhy
  <2>2. Current[i] = loaded[i]
    BY <1>1, <2>1 DEF Current
  <2>3. Current' = [Current EXCEPT ![i] = desired(mu)[i]]
    <3>1. \A o, j : Done(o, j)' <=> Done(o, j) \/ (o = "replace" /\ j = i)
      BY <1>1, DoneAppend DEF LoaderTypeOK
    <3> QED
      BY <1>1, <3>1 DEF Current, desired
  <2>4. jobs' = [jobs EXCEPT ![desired(mu)[i].name] = JobOf(i, desired(mu)[i])]
    BY <1>1, <1>2
  <2>5. loaded[i] # Absent
    BY <1>1, Reasons
  <2>6. jobs \in [Name -> Job \cup {Absent}] /\ Current \in Definitions
    BY CurrentTyped DEF LoaderTypeOK
  <2> QED
    BY <1>2, <2>2, <2>3, <2>4, <2>5, <2>6, PutOther
<1> QED
  BY <1>1, <1>3, <1>4, <1>5, <1>6

LEMMA RemoveKeeps ==
    ASSUME LoaderInv, NEW p \in Caller, NEW i \in ID, Remove(p, i)
    PROVE  LoaderInv'
<1> USE DEF LoaderInv
<1>1. /\ mu = p /\ listed[p] # Absent /\ ~failing /\ Stale(mu, i) /\ ~Done("remove", i)
      /\ ~RemovalsDone(mu) /\ jobs' = [jobs EXCEPT ![loaded[i].name] = Absent]
      /\ undos' = Append(undos, [op |-> "remove", id |-> i])
      /\ UNCHANGED <<store, mu, listed, failing, loaded, committed, damaged>>
  BY DEF Remove, Working, ToRemove, RemovalsDone, Put, Record
<1>2. loaded[i] \in Stored /\ loaded[i] # Absent /\ ~Changed(mu, i)
  BY <1>1, SyncTyped, Reasons
<1>3. UndoInv'
  BY <1>1, UndoAppended
<1>4. LoaderTypeOK'
  <2>1. undos' \in Seq(SchedulerCall)
    BY <1>1 DEF LoaderTypeOK, SchedulerCall
  <2> QED
    BY <1>1, <2>1 DEF LoaderTypeOK
<1>5. ListInv'
  BY <1>1 DEF ListInv, Prepared, desired
<1>6. ~damaged => Scheduled(jobs', Current')
  <2> SUFFICES ASSUME ~damaged PROVE Scheduled(jobs', Current')
    OBVIOUS
  <2>1. ~Done("replace", i) /\ ~Done("add", i)
    BY <1>1, <1>2, DoneWhy
  <2>2. Current[i] = loaded[i]
    BY <1>1, <2>1 DEF Current
  <2>3. Current' = [Current EXCEPT ![i] = Absent]
    <3>1. \A o, j : Done(o, j)' <=> Done(o, j) \/ (o = "remove" /\ j = i)
      BY <1>1, DoneAppend DEF LoaderTypeOK
    <3> QED
      BY <1>1, <2>1, <3>1 DEF Current, desired
  <2>4. jobs \in [Name -> Job \cup {Absent}] /\ Current \in Definitions
    BY CurrentTyped DEF LoaderTypeOK
  <2> QED
    BY <1>1, <1>2, <2>2, <2>3, <2>4, PutNone
<1> QED
  BY <1>1, <1>3, <1>4, <1>5, <1>6

LEMMA AddKeeps ==
    ASSUME LoaderInv, NEW p \in Caller, NEW i \in ID, Add(p, i)
    PROVE  LoaderInv'
<1> USE DEF LoaderInv
<1>1. /\ mu = p /\ listed[p] # Absent /\ ~failing /\ Fresh(mu, i) /\ ~Done("add", i)
      /\ RemovalsDone(mu) /\ jobs' = [jobs EXCEPT ![desired(mu)[i].name] = Desired(p, i)]
      /\ jobs[desired(mu)[i].name] = Absent
      /\ undos' = Append(undos, [op |-> "add", id |-> i])
      /\ UNCHANGED <<store, mu, listed, failing, loaded, committed, damaged>>
  BY DEF Add, Working, ToAdd, Put, Record, CanAdd
<1>2. /\ desired(mu)[i] \in Stored /\ Desired(p, i) = JobOf(i, desired(mu)[i])
      /\ ~Changed(mu, i)
  BY <1>1, SyncTyped, Reasons DEF Desired, JobOf
<1>3. UndoInv'
  BY <1>1, UndoAppended
<1>4. LoaderTypeOK'
  <2>1. undos' \in Seq(SchedulerCall)
    BY <1>1 DEF LoaderTypeOK, SchedulerCall
  <2>2. Desired(p, i) \in Job
    BY <1>2 DEF Stored, Job, JobOf
  <2> QED
    BY <1>1, <2>1, <2>2 DEF LoaderTypeOK
<1>5. ListInv'
  BY <1>1 DEF ListInv, Prepared, desired
<1>6. ~damaged => Scheduled(jobs', Current')
  <2> SUFFICES ASSUME ~damaged PROVE Scheduled(jobs', Current')
    OBVIOUS
  <2>1. ~Done("replace", i)
    BY <1>2, DoneWhy
  <2>2. Current[i] = Absent
    <3>1. CASE Stale(mu, i)
      BY <1>1, <2>1, <3>1 DEF RemovalsDone, ToRemove, Current
    <3>2. CASE ~Stale(mu, i)
      BY <1>1, <2>1, <3>2, Reasons, DoneWhy DEF Current
    <3> QED
      BY <3>1, <3>2
  <2>3. Current' = [Current EXCEPT ![i] = desired(mu)[i]]
    <3>1. \A o, j : Done(o, j)' <=> Done(o, j) \/ (o = "add" /\ j = i)
      BY <1>1, DoneAppend DEF LoaderTypeOK
    <3> QED
      BY <1>1, <2>1, <3>1 DEF Current, desired
  <2>4. jobs \in [Name -> Job \cup {Absent}] /\ Current \in Definitions
    BY CurrentTyped DEF LoaderTypeOK
  <2> QED
    BY <1>1, <1>2, <2>2, <2>3, <2>4, PutNew
<1> QED
  BY <1>1, <1>3, <1>4, <1>5, <1>6

\* The latest call can be undone: what it needs of the scheduler is there.
LEMMA UndoPossible ==
    ASSUME LoaderInv, NEW p \in Caller, mu = p, failing, undos # <<>>, ~damaged,
           Undone(p, Latest(undos).call), undos' = Latest(undos).rest,
           UNCHANGED <<mu, listed, loaded>>
    PROVE  Scheduled(jobs', Current') /\ jobs' \in [Name -> Job \cup {Absent}]
<1> USE DEF LoaderInv
<1> DEFINE c == Latest(undos).call
<1>0. PICK op \in {"replace", "remove", "add"}, i \in ID : c = [op |-> op, id |-> i]
  <2>1. c \in SchedulerCall
    BY DoneUndone DEF LoaderTypeOK
  <2> QED
    BY <2>1 DEF SchedulerCall
<1>1. /\ c = undos[Len(undos)] /\ c.op = op /\ c.id = i
      /\ \A o, j : Done(o, j)' <=> Done(o, j) /\ ~(o = op /\ j = i)
  <2>1. c.op = op /\ c.id = i
    BY <1>0
  <2> QED
    BY <2>1, DoneUndone DEF LoaderTypeOK
<1>2. i \in ID /\ Done(op, i)
  <2>1. Len(undos) \in DOMAIN undos
    BY DEF LoaderTypeOK
  <2> QED
    BY <1>0, <1>1, <2>1 DEF Done
<1>3. jobs \in [Name -> Job \cup {Absent}] /\ Current \in Definitions /\ Scheduled(jobs, Current)
  BY CurrentTyped DEF LoaderTypeOK
<1>4. /\ loaded[i] \in Stored \cup {Absent} /\ desired(mu)[i] \in Stored \cup {Absent}
  BY <1>2, SyncTyped
<1>5. /\ Done("replace", i) => /\ Current[i] = desired(mu)[i] /\ desired(mu)[i] # Absent
                               /\ desired(mu)[i].name = loaded[i].name
      /\ Done("add", i) => Current[i] = desired(mu)[i] /\ desired(mu)[i] # Absent
      /\ Done("remove", i) /\ ~Done("add", i) => Current[i] = Absent
  BY <1>2, CurrentAt
<1>6. /\ Done("replace", i) => Changed(mu, i)
      /\ Done("remove", i) => Stale(mu, i)
      /\ Done("add", i) => Fresh(mu, i) /\ (Stale(mu, i) => Done("remove", i))
  BY <1>2, DoneWhy
<1>7. /\ Changed(mu, i) => ~Stale(mu, i) /\ ~Fresh(mu, i) /\ loaded[i] # Absent
      /\ Stale(mu, i) => loaded[i] # Absent
      /\ Fresh(mu, i) /\ ~Stale(mu, i) => loaded[i] = Absent
  BY <1>2, Reasons
<1>8. Current' = [Current EXCEPT ![i] =
                    IF Done("replace", i)' \/ Done("add", i)' THEN desired(mu)[i]
                    ELSE IF Done("remove", i)' THEN Absent ELSE loaded[i]]
  BY <1>1, <1>2 DEF Current, desired
<1> HIDE DEF c
<1>9. CASE op = "add"
  <2>1. jobs' = [jobs EXCEPT ![Current[i].name] = Absent]
    BY <1>2, <1>5, <1>9, <1>1 DEF Undone, Put, c
  <2>2. Current' = [Current EXCEPT ![i] = Absent]
    BY <1>1, <1>2, <1>6, <1>7, <1>8, <1>9
  <2> QED
    BY <1>2, <1>3, <1>5, <1>9, <2>1, <2>2, PutNone
<1>10. CASE op = "remove"
  <2>1. \A j \in ID : ~Done("add", j)
    <3>1. \A k \in DOMAIN undos : undos[k].op # "add"
      <4>1. \A k \in DOMAIN undos : k < Len(undos) \/ k = Len(undos)
        BY DEF LoaderTypeOK
      <4>2. Len(undos) \in DOMAIN undos
        BY DEF LoaderTypeOK
      <4> QED
        BY <1>1, <1>10, <4>1, <4>2 DEF UndoInv
    <3> QED
      BY <3>1 DEF Done
  <2>2. Current[i] = Absent /\ loaded[i] \in Stored /\ loaded[i] # Absent
    BY <1>2, <1>4, <1>5, <1>6, <1>7, <1>10, <2>1
  <2>3. jobs[loaded[i].name] = Absent
    <3>1. ASSUME NEW j \in ID, Current[j] # Absent, Current[j].name = loaded[i].name
          PROVE  FALSE
      <4>1. loaded[j] # Absent /\ Current[j].name = loaded[j].name /\ j # i
        BY <2>1, <2>2, <3>1, CurrentAt
      <4> QED
        BY <1>2, <2>2, <3>1, <4>1 DEF ListInv, Prepared
    <3> QED
      BY <1>3, <2>2, <3>1 DEF Scheduled, Stored
  <2>4. jobs' = [jobs EXCEPT ![loaded[i].name] = JobOf(i, loaded[i])]
    BY <1>10, <2>3, <1>1 DEF Undone, Put, CanAdd, Loaded, JobOf, c
  <2>5. Current' = [Current EXCEPT ![i] = loaded[i]]
    BY <1>1, <1>2, <1>6, <1>7, <1>8, <1>10, <2>1
  <2>6. Scheduled(jobs', Current')
    BY <1>2, <1>3, <2>2, <2>3, <2>4, <2>5, PutNew
  <2>7. JobOf(i, loaded[i]) \in Job
    BY <1>2, <2>2 DEF Job, JobOf, Stored
  <2> QED
    BY <1>3, <2>4, <2>6, <2>7
<1>11. CASE op = "replace"
  <2>1. /\ Current[i] # Absent /\ Current[i].name = loaded[i].name
        /\ loaded[i] \in Stored /\ loaded[i] # Absent
    BY <1>2, <1>4, <1>5, <1>6, <1>7, <1>11
  <2>2. jobs[loaded[i].name] # Absent
    <3>1. jobs[loaded[i].name] = JobOf(i, Current[i]) /\ Current[i] \in Stored
      BY <1>2, <1>3, <2>1 DEF Scheduled, JobOf, Definitions
    <3> QED
      BY <1>2, <3>1, AbsentAssumption DEF Stored, Job, JobOf
  <2>3. jobs' = [jobs EXCEPT ![loaded[i].name] = JobOf(i, loaded[i])]
    BY <1>11, <2>2, <1>1 DEF Undone, Put, CanReplace, Loaded, JobOf, c
  <2>4. Current' = [Current EXCEPT ![i] = loaded[i]]
    BY <1>1, <1>2, <1>6, <1>7, <1>8, <1>11
  <2>5. Scheduled(jobs', Current')
    BY <1>2, <1>3, <2>1, <2>3, <2>4, PutOther
  <2>6. JobOf(i, loaded[i]) \in Job
    BY <1>2, <2>1 DEF Job, JobOf, Stored
  <2> QED
    BY <1>3, <2>3, <2>5, <2>6
<1> QED
  BY <1>2, <1>9, <1>10, <1>11

LEMMA UndoTyped ==
    ASSUME LoaderInv, undos # <<>>, Undone(mu, Latest(undos).call)
    PROVE  jobs' \in [Name -> Job \cup {Absent}]
<1> USE DEF LoaderInv
<1>1. PICK op \in {"replace", "remove", "add"}, i \in ID :
        Latest(undos).call = [op |-> op, id |-> i]
  <2>1. Latest(undos).call \in SchedulerCall
    BY DEF LoaderTypeOK, Latest
  <2> QED
    BY <2>1 DEF SchedulerCall
<1>2. Len(undos) \in DOMAIN undos /\ undos[Len(undos)] = [op |-> op, id |-> i]
  BY <1>1 DEF LoaderTypeOK, Latest
<1>3. Done(op, i)
  BY <1>2 DEF Done
<1>4. op # "add" => Loaded(i) \in Job
  <2>1. op # "add" => loaded[i] \in Stored
    BY <1>3, DoneWhy, Reasons, SyncTyped
  <2> QED
    BY <2>1 DEF Stored, Job, Loaded
<1>5. jobs \in [Name -> Job \cup {Absent}]
  BY DEF LoaderTypeOK
<1> QED
  BY <1>1, <1>4, <1>5 DEF Undone, Put

LEMMA UndoKeeps ==
    ASSUME LoaderInv, NEW p \in Caller, Undo(p)
    PROVE  LoaderInv'
<1> USE DEF LoaderInv
<1>1. /\ mu = p /\ failing /\ undos # <<>> /\ undos' = Latest(undos).rest
      /\ UNCHANGED <<store, mu, listed, failing, loaded, committed>>
      /\ \/ Undone(p, Latest(undos).call) /\ UNCHANGED damaged
         \/ damaged' = TRUE /\ UNCHANGED jobs
  BY DEF Undo
<1>2. UndoInv' /\ undos' \in Seq(SchedulerCall)
  BY <1>1, UndoneLast
<1>3. jobs' \in [Name -> Job \cup {Absent}]
  BY <1>1, UndoTyped DEF LoaderTypeOK
<1>4. LoaderTypeOK'
  BY <1>1, <1>2, <1>3 DEF LoaderTypeOK
<1>5. ListInv'
  BY <1>1 DEF ListInv, Prepared, desired
<1>6. ~damaged' => Scheduled(jobs', Current')
  BY <1>1, UndoPossible DEF LoaderTypeOK
<1> QED
  BY <1>2, <1>4, <1>5, <1>6

\* Everything that was to be done is done: the jobs are those of the new definitions.
LEMMA CommitReached ==
    ASSUME LoaderInv, mu \in Caller, listed[mu] # Absent, RemovalsDone(mu), ToAdd(mu) = {}
    PROVE  Current = desired(mu)
<1> USE DEF LoaderInv
<1>1. ASSUME NEW i \in ID
      PROVE  Current[i] = desired(mu)[i]
  <2>1. /\ loaded[i] \in Stored \cup {Absent} /\ desired(mu)[i] \in Stored \cup {Absent}
    BY SyncTyped
  <2>2. /\ Changed(mu, i) => Done("replace", i)
        /\ Stale(mu, i) => Done("remove", i)
        /\ Fresh(mu, i) => Done("add", i)
    BY DEF RemovalsDone, ToReplace, ToRemove, ToAdd
  <2>3. /\ Done("replace", i) => Changed(mu, i)
        /\ Done("remove", i) => Stale(mu, i)
        /\ Done("add", i) => Fresh(mu, i)
    BY DoneWhy
  <2>4. CASE Kept(mu, i)
    <3>1. ~Stale(mu, i) /\ ~Fresh(mu, i)
      BY <2>4 DEF Stale, Fresh
    <3>2. ~Changed(mu, i) => loaded[i] = desired(mu)[i]
      BY <2>1, <2>4 DEF Changed, Kept, Stored
    <3> QED
      BY <2>2, <2>3, <3>1, <3>2 DEF Current
  <2>5. CASE ~Kept(mu, i)
    BY <2>2, <2>3, <2>5 DEF Stale, Fresh, Changed, Current
  <2> QED
    BY <2>4, <2>5
<1>2. desired(mu) \in [ID -> Stored \cup {Absent}]
  BY DEF LoaderTypeOK, Snapshot, Definitions, desired
<1> QED
  BY <1>1, <1>2 DEF Current

LEMMA CommitKeeps ==
    ASSUME LoaderInv, NEW p \in Caller, Commit(p)
    PROVE  LoaderInv'
<1> USE DEF LoaderInv
<1>1. /\ mu = p /\ listed[p] # Absent /\ ~failing /\ RemovalsDone(p) /\ ToAdd(p) = {}
      /\ loaded' = desired(p) /\ committed' = listed[p].rev
      /\ mu' = NoCaller /\ listed' = [listed EXCEPT ![p] = Absent]
      /\ undos' = <<>> /\ failing' = FALSE
      /\ UNCHANGED <<store, jobs, damaged>>
  BY DEF Commit, Working, Leave
<1>2. listed[p] \in Snapshot
  BY <1>1 DEF LoaderTypeOK
<1>3. LoaderTypeOK'
  <2>1. desired(p) \in Definitions /\ listed[p].rev \in Nat
    BY <1>2 DEF desired, Snapshot
  <2>2. <<>> \in Seq(SchedulerCall)
    OBVIOUS
  <2> QED
    BY <1>1, <2>1, <2>2 DEF LoaderTypeOK
<1>4. ListInv'
  <2>1. \A q \in Caller : listed'[q] = Absent
    BY <1>1 DEF ListInv, LoaderTypeOK
  <2> QED
    BY <1>1, <2>1 DEF ListInv, Prepared, desired
<1>5. UndoInv'
  BY <1>1 DEF UndoInv
<1>6. Current' = Current
  <2>1. Current' = desired(p)
    BY <1>1, <1>2 DEF Current, Done, desired, Snapshot, Definitions
  <2> QED
    BY <1>1, <2>1, CommitReached
<1> QED
  BY <1>1, <1>3, <1>4, <1>5, <1>6 DEF Scheduled

\* The other steps leave jobs, definitions and calls as they are.
LEMMA OthersKeep ==
    ASSUME LoaderInv, NEW p \in Caller,
           EditStore \/ Lock(p) \/ List(p) \/ Refuse(p) \/ Fail(p) \/ GiveUp(p)
    PROVE  LoaderInv'
<1> USE DEF LoaderInv
<1>1. /\ UNCHANGED <<loaded, jobs, undos, committed, damaged>>
      /\ undos # <<>> => UNCHANGED <<mu, listed>> /\ (failing => failing')
  <2>1. undos # <<>> => mu \in Caller /\ listed[mu] # Absent
    BY DEF ListInv
  <2>2. CASE EditStore \/ Fail(p)
    BY <2>2 DEF EditStore, Fail, sync
  <2>3. CASE Lock(p) \/ List(p) \/ Refuse(p)
    BY <2>1, <2>3, NoCallerAssumption DEF Lock, List, MayList, Refuse
  <2>4. CASE GiveUp(p)
    BY <2>4 DEF GiveUp, Leave
  <2> QED
    BY <2>2, <2>3, <2>4
<1>2. LoaderTypeOK'
  <2>1. CASE EditStore
    BY <2>1 DEF EditStore, sync, LoaderTypeOK, Snapshot
  <2>2. CASE Lock(p) \/ Refuse(p)
    BY <2>2 DEF Lock, Refuse, LoaderTypeOK
  <2>3. CASE List(p)
    BY <2>3 DEF List, LoaderTypeOK
  <2>4. CASE Fail(p)
    BY <2>4 DEF Fail, LoaderTypeOK
  <2>5. CASE GiveUp(p)
    BY <1>1, <2>5 DEF GiveUp, Leave, LoaderTypeOK
  <2> QED
    BY <2>1, <2>2, <2>3, <2>4, <2>5
<1>3. ListInv'
  <2>1. CASE EditStore
    BY <2>1 DEF EditStore, sync, LoaderTypeOK, Snapshot, ListInv, Prepared, desired
  <2>2. CASE Lock(p)
    BY <2>2, NoCallerAssumption DEF Lock, ListInv, Prepared, desired, LoaderTypeOK
  <2>3. CASE List(p)
    BY <2>3 DEF List, MayList, ListInv, Prepared, desired, LoaderTypeOK, Snapshot
  <2>4. CASE Refuse(p)
    BY <2>4 DEF Refuse, ListInv, Prepared, desired, LoaderTypeOK
  <2>5. CASE Fail(p)
    BY <2>5 DEF Fail, Working, ListInv, Prepared, desired, LoaderTypeOK
  <2>6. CASE GiveUp(p)
    BY <2>6 DEF GiveUp, Leave, ListInv, Prepared, desired, LoaderTypeOK
  <2> QED
    BY <2>1, <2>2, <2>3, <2>4, <2>5, <2>6
<1>4. UndoInv'
  <2>1. CASE undos = <<>>
    BY <1>1, <2>1 DEF UndoInv
  <2>2. CASE undos # <<>>
    BY <1>1, <2>2 DEF UndoInv, RemovalsDone, ToReplace, ToRemove, Changed, Stale, Fresh, Kept,
       Done, desired
  <2> QED
    BY <2>1, <2>2
<1>5. Current' = Current
  <2>1. CASE undos = <<>>
    BY <1>1, <2>1 DEF Current, Done
  <2>2. CASE undos # <<>>
    BY <1>1, <2>2 DEF Current, Done, desired
  <2> QED
    BY <2>1, <2>2
<1> QED
  BY <1>1, <1>2, <1>3, <1>4, <1>5

LEMMA LoaderStep == LoaderInv /\ [LoaderNext]_loaderVars => LoaderInv'
<1> SUFFICES ASSUME LoaderInv, [LoaderNext]_loaderVars
             PROVE  LoaderInv'
  OBVIOUS
<1>1. CASE EditStore
  <2>1. LoaderTypeOK'
    BY <1>1 DEF EditStore, sync, LoaderInv, LoaderTypeOK, Snapshot
  <2>2. ListInv'
    BY <1>1 DEF EditStore, sync, LoaderInv, LoaderTypeOK, Snapshot, ListInv, Prepared, desired
  <2>3. UndoInv' /\ Current' = Current
    BY <1>1 DEF EditStore, sync, LoaderInv, UndoInv, RemovalsDone, ToReplace, ToRemove, Changed,
       Stale, Fresh, Kept, Done, desired, Current
  <2> QED
    BY <1>1, <2>1, <2>2, <2>3 DEF LoaderInv, EditStore
<1>2. CASE UNCHANGED loaderVars
  <2> USE <1>2 DEF loaderVars, sync, LoaderInv
  <2>1. LoaderTypeOK' /\ ListInv'
    BY DEF LoaderTypeOK, ListInv, Prepared, desired
  <2>2. UndoInv'
    BY DEF UndoInv, RemovalsDone, ToReplace, ToRemove, Changed, Stale, Fresh, Kept, Done, desired
  <2>3. Current' = Current
    BY DEF Current, Done, desired
  <2> QED
    BY <2>1, <2>2, <2>3
<1>3. ASSUME NEW p \in Caller,
             Lock(p) \/ List(p) \/ Refuse(p) \/ Fail(p) \/ GiveUp(p)
      PROVE  LoaderInv'
  BY <1>3, OthersKeep
<1>4. ASSUME NEW p \in Caller, NEW i \in ID, Replace(p, i) \/ Remove(p, i) \/ Add(p, i)
      PROVE  LoaderInv'
  BY <1>4, ReplaceKeeps, RemoveKeeps, AddKeeps
<1> QED
  BY <1>1, <1>2, <1>3, <1>4, UndoKeeps, CommitKeeps DEF LoaderNext

\* The inductive invariant of the loader.  While a Sync is under way the jobs are those
\* of a mixture of the old and the new definitions (Current), and each call of it can
\* be undone because what was called later has been undone before.
THEOREM LoaderInvariant == LoaderSpec => []LoaderInv
<1>1. LoaderInit => LoaderInv
  <2> SUFFICES ASSUME LoaderInit PROVE LoaderInv
    OBVIOUS
  <2>1. <<>> \in Seq(SchedulerCall) /\ NoDefinitions \in Definitions
    BY DEF NoDefinitions, Definitions
  <2>2. LoaderTypeOK
    BY <2>1 DEF LoaderInit, LoaderTypeOK, Snapshot
  <2>3. ListInv /\ UndoInv /\ Scheduled(jobs, Current)
    BY DEF LoaderInit, ListInv, UndoInv, Prepared, NoDefinitions, Scheduled, Current, Done
  <2> QED
    BY <2>2, <2>3 DEF LoaderInv
<1> QED
  BY <1>1, LoaderStep, PTL DEF LoaderSpec

\* The jobs of definitions, as Runtime computes them.
LEMMA ScheduledRuntime ==
    ASSUME NEW s \in [Name -> Job \cup {Absent}], NEW d \in Definitions, Scheduled(s, d)
    PROVE  s = Runtime(d)
<1>1. ASSUME NEW n \in Name
      PROVE  s[n] = Runtime(d)[n]
  <2>1. CASE \E i \in ID : d[i] # Absent /\ d[i].name = n
    <3> DEFINE i == CHOOSE i \in ID : d[i] # Absent /\ d[i].name = n
    <3>1. i \in ID /\ d[i] # Absent /\ d[i].name = n
      BY <2>1
    <3>2. Runtime(d)[n] = [id |-> i, version |-> d[i].version]
      BY <2>1 DEF Runtime
    <3> QED
      BY <3>1, <3>2 DEF Scheduled
  <2>2. CASE ~\E i \in ID : d[i] # Absent /\ d[i].name = n
    BY <2>2 DEF Scheduled, Runtime
  <2> QED
    BY <2>1, <2>2
<1> QED
  BY <1>1 DEF Runtime

\* LoadedIsScheduled: a Sync that succeeded has installed what it read, and one that
\* failed at whatever call has restored what was loaded, unless the scheduler refused.
THEOREM SyncAllOrNothing == LoaderSpec => []LoadedIsScheduled
<1>1. LoaderInv => LoadedIsScheduled
  <2> SUFFICES ASSUME LoaderInv, mu = NoCaller, ~damaged
               PROVE  jobs = Runtime(loaded)
    BY DEF LoadedIsScheduled
  <2>1. undos = <<>>
    BY NoCallerAssumption DEF LoaderInv, ListInv
  <2>2. Current = loaded
    BY <2>1 DEF LoaderInv, LoaderTypeOK, Definitions, Current, Done
  <2> QED
    BY <2>2, ScheduledRuntime DEF LoaderInv, LoaderTypeOK
<1> QED
  BY <1>1, LoaderInvariant, PTL

\* NeverTwice: in no state of a Sync, of its rollback or between two of them does an
\* ID have jobs under two names.
THEOREM OneJobPerID == LoaderSpec => []NeverTwice
<1>1. LoaderInv => NeverTwice
  <2> SUFFICES ASSUME LoaderInv, ~damaged, NEW n \in Name, NEW m \in Name, n # m,
                      jobs[n] # Absent, jobs[m] # Absent
               PROVE  jobs[n].id # jobs[m].id
    BY DEF NeverTwice
  <2> DEFINE d == Current
  <2>0. /\ \A i \in ID : d[i] # Absent => jobs[d[i].name] = [id |-> i, version |-> d[i].version]
        /\ \A k \in Name : jobs[k] # Absent => \E i \in ID : d[i] # Absent /\ d[i].name = k
    BY DEF LoaderInv, Scheduled
  <2> HIDE DEF d
  <2>1. PICK i \in ID : d[i] # Absent /\ d[i].name = n
    BY <2>0
  <2>2. PICK j \in ID : d[j] # Absent /\ d[j].name = m
    BY <2>0
  <2>3. jobs[n].id = i /\ jobs[m].id = j
    <3>1. jobs[n] = [id |-> i, version |-> d[i].version]
      BY <2>0, <2>1
    <3>2. jobs[m] = [id |-> j, version |-> d[j].version]
      BY <2>0, <2>2
    <3> QED
      BY <3>1, <3>2
  <2> QED
    BY <2>1, <2>2, <2>3
<1> QED
  BY <1>1, LoaderInvariant, PTL

\* NewestCommits: a list that was read earlier is never committed after a newer one.
THEOREM CommitsInOrder == LoaderSpec => NewestCommits
<1>1. LoaderInv /\ [LoaderNext]_loaderVars => [committed' >= committed]_loaderVars
  <2> SUFFICES ASSUME LoaderInv, LoaderNext
               PROVE  committed' >= committed
    OBVIOUS
  <2>1. ASSUME NEW p \in Caller, Commit(p)
        PROVE  committed' >= committed
    BY <2>1 DEF Commit, Working, LoaderInv, ListInv, LoaderTypeOK, Snapshot
  <2>2. UNCHANGED committed => committed' >= committed
    BY DEF LoaderInv, LoaderTypeOK
  <2>3. ASSUME NEW p \in Caller,
               \/ Lock(p) \/ List(p) \/ Refuse(p) \/ Fail(p) \/ Undo(p) \/ GiveUp(p)
               \/ \E i \in ID : Replace(p, i) \/ Remove(p, i) \/ Add(p, i)
        PROVE  UNCHANGED committed
    BY <2>3 DEF Lock, List, Refuse, Fail, Undo, GiveUp, Replace, Remove, Add, Record
  <2>4. EditStore => UNCHANGED committed
    BY DEF EditStore
  <2> QED
    BY <2>1, <2>2, <2>3, <2>4 DEF LoaderNext
<1> QED
  BY <1>1, LoaderInvariant, PTL DEF LoaderSpec, NewestCommits

\* The job of ID i has the name it was loaded with, and its definition if that is kept.
JobStands(i) ==
    LET n == loaded[i].name IN
    /\ n \in Name /\ jobs[n] # Absent /\ jobs[n].id = i
    /\ ~Changed(mu, i) => jobs[n] = JobOf(i, loaded[i])

\* So it is with every definition that keeps its name, in any state of a Sync.
LEMMA KeptJob ==
    ASSUME NEW i \in ID
    PROVE  LoaderInv /\ ~damaged /\ Kept(mu, i) => JobStands(i)
<1> SUFFICES ASSUME LoaderInv, ~damaged, Kept(mu, i)
             PROVE  JobStands(i)
  OBVIOUS
<1> USE DEF LoaderInv
<1>1. ~Stale(mu, i) /\ ~Fresh(mu, i) /\ ~Done("remove", i) /\ ~Done("add", i)
  BY DoneWhy DEF Stale, Fresh
<1>2. /\ Done("replace", i) => Changed(mu, i)
      /\ loaded[i] # Absent /\ desired(mu)[i] # Absent /\ loaded[i].name = desired(mu)[i].name
  BY DoneWhy DEF Kept
<1>3. /\ Current[i] # Absent /\ Current[i].name = loaded[i].name
      /\ ~Changed(mu, i) => Current[i] = loaded[i]
  BY <1>1, <1>2 DEF Current
<1>4. /\ jobs[loaded[i].name] = JobOf(i, Current[i])
      /\ Current[i] \in Stored
  BY <1>3, CurrentTyped DEF Scheduled, JobOf, Definitions
<1>5. JobOf(i, Current[i]) \in Job /\ JobOf(i, Current[i]).id = i /\ loaded[i].name \in Name
  BY <1>3, <1>4 DEF Job, JobOf, Stored
<1> QED
  BY <1>3, <1>4, <1>5, AbsentAssumption DEF JobStands

\* KeptJobsStay: no step of a Sync unschedules a job that keeps its name, or touches
\* one whose definition did not change.
THEOREM KeptJobsUntouched == LoaderSpec => KeptJobsStay
<1> DEFINE Stays ==
             \A p \in Caller, i \in ID :
               mu = p /\ listed[p] # Absent /\ Kept(p, i) /\ ~damaged =>
                 LET n == loaded[i].name IN
                 /\ jobs'[n] # Absent /\ jobs'[n].id = i
                 /\ ~Changed(p, i) => jobs'[n] = jobs[n]
<1>0. ASSUME NEW i \in ID
      PROVE  (LoaderInv /\ ~damaged /\ Kept(mu, i) => JobStands(i))'
  <2>1. LoaderInv /\ ~damaged /\ Kept(mu, i) => JobStands(i)
    BY KeptJob
  <2> QED
    BY <2>1, PTL
<1>1. LoaderInv /\ LoaderInv' /\ [LoaderNext]_loaderVars => [Stays]_loaderVars
  <2> SUFFICES ASSUME LoaderInv, LoaderInv', LoaderNext, NEW p \in Caller, NEW i \in ID,
                      mu = p, listed[p] # Absent, Kept(p, i), ~damaged
               PROVE  LET n == loaded[i].name IN
                      /\ jobs'[n] # Absent /\ jobs'[n].id = i
                      /\ ~Changed(p, i) => jobs'[n] = jobs[n]
    OBVIOUS
  <2>1. CASE UNCHANGED jobs
    BY <2>1, KeptJob DEF JobStands
  <2>2. CASE UNCHANGED <<mu, listed, loaded, damaged>>
    <3>1. Kept(mu, i)' /\ (Changed(mu, i)' <=> Changed(mu, i))
      BY <2>2 DEF Kept, Changed, desired
    <3>2. JobStands(i) /\ JobStands(i)'
      BY <1>0, <2>2, <3>1, KeptJob
    <3> QED
      BY <2>2, <3>1, <3>2 DEF JobStands
  <2>3. UNCHANGED jobs \/ UNCHANGED <<mu, listed, loaded, damaged>>
    <3>1. ASSUME NEW q \in Caller,
                 \/ Lock(q) \/ List(q) \/ Refuse(q) \/ Fail(q) \/ Commit(q) \/ GiveUp(q)
          PROVE  UNCHANGED jobs
      BY <3>1 DEF Lock, List, Refuse, Fail, Commit, GiveUp
    <3>2. ASSUME NEW q \in Caller, NEW j \in ID, Replace(q, j) \/ Remove(q, j) \/ Add(q, j)
          PROVE  UNCHANGED <<mu, listed, loaded, damaged>>
      BY <3>2 DEF Replace, Remove, Add, Record
    <3>3. ASSUME NEW q \in Caller, Undo(q)
          PROVE  UNCHANGED jobs \/ UNCHANGED <<mu, listed, loaded, damaged>>
      BY <3>3 DEF Undo
    <3>4. EditStore => UNCHANGED jobs
      BY DEF EditStore
    <3> QED
      BY <3>1, <3>2, <3>3, <3>4 DEF LoaderNext
  <2> QED
    BY <2>1, <2>2, <2>3
<1> QED
  BY <1>1, LoaderInvariant, PTL DEF LoaderSpec, KeptJobsStay

=============================================================================
