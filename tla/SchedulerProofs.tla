--------------------------- MODULE SchedulerProofs ---------------------------
(***************************************************************************)
(* What the scheduler's manager guarantees for any number of jobs,          *)
(* generations and goroutines: no engine handle is forgotten, a registered  *)
(* job stays scheduled, only published generations pass, and every gate it  *)
(* hands from generation to generation is an overlap gate.  The proofs rest *)
(* on SchedulerInv of Scheduler.                                            *)
(***************************************************************************)
EXTENDS Scheduler, TLAPS

-----------------------------------------------------------------------------
(* The values of a gate                                                     *)

\* Every transition of a gate yields a gate.
LEMMA GateTyped ==
    ASSUME NEW g \in GateState, NEW t \in Token, NEW p \in Policy
    PROVE  /\ NewGate(p) \in GateState
           /\ Admit(g, t) \in GateState
           /\ Enqueue(g, t) \in GateState
           /\ Finished(g, t) \in GateState
           /\ NextExecution(g, t) \in OptToken
           /\ WithPolicy(g, p) \in GateState
<1>1. /\ g.policy \in Policy /\ g.active \in Nat /\ g.activeToken \in OptToken
      /\ g.queued \in BOOLEAN /\ g.queuedToken \in OptToken /\ g.queuedHandler \in OptToken
      /\ Remaining(g) \in Nat /\ NoToken \in OptToken /\ t \in OptToken
  BY DEF GateState, OptToken, Remaining
<1>2. Remaining(Unqueue(g)) \in Nat /\ Unqueue(g) \in GateState
  BY <1>1 DEF GateState, Unqueue, Remaining
<1>3. Admit(g, t) \in GateState
  <2>1. (IF g.active = 0 THEN t ELSE g.activeToken) \in OptToken /\ g.active + 1 \in Nat
    BY <1>1
  <2> QED
    BY <1>1, <2>1 DEF Admit, GateState
<1>4. \A h \in GateState : Remaining(h) \in Nat => Retire(h) \in GateState
  <2> SUFFICES ASSUME NEW h \in GateState, Remaining(h) \in Nat
               PROVE  Retire(h) \in GateState
    OBVIOUS
  <2>1. (IF Remaining(h) = 0 THEN NoToken ELSE h.activeToken) \in OptToken
    BY <1>1 DEF GateState
  <2> QED
    BY <2>1 DEF Retire, GateState
<1>5. TakeOver(g) \in GateState
  BY <1>1, <1>2 DEF TakeOver, Unqueue, GateState
<1>6. Finished(g, t) \in GateState
  BY <1>1, <1>2, <1>4, <1>5 DEF Finished
<1>7. NextExecution(g, t) \in OptToken
  BY <1>1 DEF NextExecution, Successor
<1>8. NewGate(p) \in GateState /\ Enqueue(g, t) \in GateState /\ WithPolicy(g, p) \in GateState
  BY <1>1 DEF NewGate, Enqueue, WithPolicy, GateState
<1> QED
  BY <1>3, <1>6, <1>7, <1>8

\* Whom a gate may name as waiting: nobody new but the trigger it accepts, and whom it
\* runs next was waiting.
LEMMA GateTokens ==
    ASSUME NEW g \in GateState, NEW t \in Token, NEW p \in Policy
    PROVE  LET waiting(h) == {h.queuedToken, h.queuedHandler} IN
           /\ waiting(NewGate(p)) \subseteq {NoToken}
           /\ waiting(Admit(g, t)) \subseteq waiting(g)
           /\ waiting(Enqueue(g, t)) \subseteq waiting(g) \cup {t}
           /\ waiting(WithPolicy(g, p)) \subseteq waiting(g)
           /\ waiting(Finished(g, t)) \subseteq waiting(g) \cup {NoToken}
           /\ NextExecution(g, t) \in waiting(g) \cup {NoToken}
<1> USE DEF GateState
<1>1. Finished(g, t) \in {Retire(g), TakeOver(g), Retire(Unqueue(g))}
  BY DEF Finished
<1>2. \A h \in {Retire(g), TakeOver(g), Retire(Unqueue(g))} :
        {h.queuedToken, h.queuedHandler} \subseteq {g.queuedToken, g.queuedHandler, NoToken}
  BY DEF Retire, TakeOver, Unqueue
<1>3. NextExecution(g, t) \in {g.queuedToken, g.queuedHandler, NoToken}
  BY DEF NextExecution, Successor
<1>4. {NewGate(p).queuedToken, NewGate(p).queuedHandler} \subseteq {NoToken}
  BY DEF NewGate
<1>5. {Admit(g, t).queuedToken, Admit(g, t).queuedHandler} \subseteq {g.queuedToken, g.queuedHandler}
  BY DEF Admit
<1>6. {Enqueue(g, t).queuedToken, Enqueue(g, t).queuedHandler}
        \subseteq {t, g.queuedToken, g.queuedHandler}
  BY DEF Enqueue
<1>7. {WithPolicy(g, p).queuedToken, WithPolicy(g, p).queuedHandler}
        \subseteq {g.queuedToken, g.queuedHandler}
  BY DEF WithPolicy
<1> QED
  BY <1>1, <1>2, <1>3, <1>4, <1>5, <1>6, <1>7

-----------------------------------------------------------------------------
(* Types                                                                    *)

\* What the methods that make a record do to the record's definition.
LEMMA NewRecordTyped ==
    ASSUME TypeOK, NEW n \in Name, NEW p \in Policies, NEW r \in Rec, NEW g \in Rec,
           NewRecord(r, n, p, g)
    PROVE  /\ made' \in 0..MaxRec
           /\ name' \in [Rec -> Name] /\ gateOf' \in [Rec -> Rec] /\ policyOf' \in [Rec -> Policy]
BY SchedulerAssumption DEF TypeOK, NewRecord, Rec

LEMMA TypeStep == TypeOK /\ RecordInv /\ [Next]_vars => TypeOK'
<1> SUFFICES ASSUME TypeOK, RecordInv, [Next]_vars
             PROVE  TypeOK'
  OBVIOUS
<1> USE DEF TypeOK
<1>0. /\ Registered \subseteq Rec
      /\ \A g \in GateState, q \in Policy : WithPolicy(g, q) \in GateState
  <2>1. Registered \subseteq Rec
    BY DEF Registered
  <2>2. \A g \in GateState, q \in Policy : WithPolicy(g, q) \in GateState
    BY DEF WithPolicy, GateState
  <2> QED
    BY <2>1, <2>2
<1>1. CASE Start \/ StartFails \/ Stop \/ EngineShutdown \/ StopCompletes
  <2>1. CASE Start
    BY <1>0, <2>1 DEF Start, records, calls
  <2>2. CASE StartFails
    BY <1>0, <2>2 DEF StartFails, records, calls
  <2>3. CASE Stop
    BY <2>3 DEF Stop, StopOutcome, records, calls
  <2>4. CASE EngineShutdown
    BY <2>4 DEF EngineShutdown, records, calls
  <2>5. CASE StopCompletes
    BY <2>5 DEF StopCompletes, records, calls
  <2> QED
    BY <1>1, <2>1, <2>2, <2>3, <2>4, <2>5
<1>2. ASSUME NEW n \in Name, NEW p \in Policies, Add(n, p)
      PROVE  TypeOK'
  <2>1. PICK r \in Rec :
          /\ NewRecord(r, n, p, r)
          /\ gates' = [gates EXCEPT ![r] = NewGate(p)]
          /\ state' = [state EXCEPT ![r] = FreshState]
          /\ \/ jobs' = [jobs EXCEPT ![n] = r] /\ UNCHANGED <<inner, installed, op>>
             \/ Install(r) /\ op' = [kind |-> "commit", new |-> r, old |-> NoRec] /\ UNCHANGED jobs
    BY <1>2 DEF Add
  <2>2. NewGate(p) \in GateState
    BY SchedulerAssumption DEF NewGate, GateState, OptToken
  <2>3. op' \in Op /\ inner' \subseteq Rec /\ installed' \subseteq Rec
        /\ jobs' \in [Name -> Rec \cup {NoRec}]
    BY <2>1 DEF Op, Install
  <2> QED
    BY <1>2, <2>1, <2>2, <2>3, NewRecordTyped DEF Add, FreshState, calls
<1>3. ASSUME NEW n \in Name, NEW p \in Policies, Replace(n, p)
      PROVE  TypeOK'
  <2>1. PICK old \in Rec : old = jobs[n]
    BY <1>3 DEF Replace
  <2>2. PICK r \in Rec :
          /\ NewRecord(r, n, p, gateOf[old])
          /\ \/ /\ state' = [state EXCEPT ![r] = FreshState, ![old] = "inactive"]
                /\ gates' = Switched(gateOf[old], p)
                /\ jobs' = [jobs EXCEPT ![n] = r]
                /\ UNCHANGED <<inner, installed, op>>
             \/ /\ state' = [state EXCEPT ![r] = FreshState]
                /\ Install(r)
                /\ op' = [kind |-> "remove", new |-> r, old |-> old]
                /\ UNCHANGED <<jobs, gates>>
    BY <1>3, <2>1 DEF Replace
  <2>3. gates' \in [Rec -> GateState]
    <3>1. p \in Policy
      BY SchedulerAssumption
    <3>2. WithPolicy(gates[gateOf[old]], p) \in GateState
      BY <1>0, <3>1
    <3> QED
      BY <2>2, <3>2 DEF Switched
  <2>4. op' \in Op /\ inner' \subseteq Rec /\ installed' \subseteq Rec
        /\ jobs' \in [Name -> Rec \cup {NoRec}]
        /\ state' \in [Rec -> {"pending", "active", "inactive"}]
    BY <2>2 DEF Op, Install, FreshState
  <2>5. UNCHANGED <<engine, started, stop, cleanup, pc, at>>
    BY <1>3 DEF Replace, calls
  <2> QED
    BY <2>2, <2>3, <2>4, <2>5, NewRecordTyped
<1>4. CASE ReplaceRemoves \/ ReplaceFails
  <2>1. op.new \in Rec /\ op.old \in Rec \cup {NoRec} /\ op # NoOp
    BY <1>4 DEF ReplaceRemoves, ReplaceFails, Op, NoOp
  <2>2. CASE ReplaceRemoves
    <3>1. op' \in Op
      BY <2>1, <2>2 DEF ReplaceRemoves, Op
    <3> QED
      BY <2>2, <3>1 DEF ReplaceRemoves, records, calls
  <2>3. CASE ReplaceFails
    <3>1. PICK o \in Removals(op.old), u \in Removals(op.new) :
            /\ installed' = installed \ (RemovedHandles(op.old, o) \cup RemovedHandles(op.new, u))
            /\ inner' = (inner \ {op.old, op.new}) \cup (IF o.primary THEN {op.old} ELSE {})
            /\ cleanup' = [cleanup EXCEPT ![op.old] = Inherited(op.new, o, u), ![op.new] = {}]
      BY <2>3 DEF ReplaceFails
    <3>2. o.left \subseteq cleanup[op.old] /\ (o.primary => op.old \in inner)
      BY DEF Removals
    <3>3. cleanup' \in [Rec -> SUBSET Rec] /\ inner' \subseteq Rec
      <4>1. CASE op.old \in Rec
        BY <2>1, <3>1, <3>2, <4>1 DEF Inherited
      <4>2. CASE op.old \notin Rec
        BY <2>1, <3>1, <3>2, <4>2
      <4> QED
        BY <4>1, <4>2
    <3> QED
      BY <2>1, <2>3, <3>1, <3>3 DEF ReplaceFails, Op, Aborted, records, calls
  <2> QED
    BY <1>4, <2>2, <2>3
<1>5. CASE Commit
  <2>1. op.new \in Rec
    BY <1>5 DEF Commit, Op, NoOp
  <2>2. WithPolicy(gates[gateOf[op.new]], policyOf[op.new]) \in GateState
    BY <1>0, <2>1
  <2>3. gates' \in [Rec -> GateState]
    BY <1>5, <2>2 DEF Commit, Switched
  <2>4. state' \in [Rec -> {"pending", "active", "inactive"}]
    BY <1>5 DEF Commit
  <2> QED
    BY <1>5, <2>1, <2>3, <2>4 DEF Commit, Op, records, calls
<1>6. ASSUME NEW n \in Name, Remove(n)
      PROVE  TypeOK'
  <2>1. PICK o \in Removals(jobs[n]) :
         \/ /\ state' = [state EXCEPT ![jobs[n]] = "inactive"]
            /\ jobs' = [jobs EXCEPT ![n] = NoRec]
            /\ installed' = installed \ RemovedHandles(jobs[n], o)
            /\ inner' = inner \ {jobs[n]}
            /\ cleanup' = [cleanup EXCEPT ![jobs[n]] = {}]
         \/ /\ installed' = installed \ RemovedHandles(jobs[n], o)
            /\ inner' = IF o.primary THEN inner ELSE inner \ {jobs[n]}
            /\ cleanup' = [cleanup EXCEPT ![jobs[n]] = o.left]
            /\ UNCHANGED <<state, jobs>>
    BY <1>6 DEF Remove
  <2>2. o.left \subseteq cleanup[jobs[n]] /\ jobs[n] \in Rec
    BY <1>6 DEF Removals, Remove
  <2>3. UNCHANGED <<engine, started, stop, made, name, gateOf, policyOf, op, gates, pc, at>>
    BY <1>6 DEF Remove, records, calls
  <2> QED
    BY <2>1, <2>2, <2>3
<1>7. ASSUME NEW c \in Call, NEW r \in Rec, Trigger(c, r)
      PROVE  TypeOK'
  BY <1>7 DEF Trigger, manager, records
<1>8. ASSUME NEW c \in Call, Pass(c) \/ TurnAway(c)
      PROVE  TypeOK'
  BY <1>8 DEF Pass, TurnAway, manager, records
<1>9. ASSUME NEW c \in Call, EnterGate(c) \/ Finish(c)
      PROVE  TypeOK'
  <2>1. at[c] \in Token /\ gateOf[at[c]] \in Rec
    <3>1. at[c] \in Made
      BY <1>9 DEF RecordInv, EnterGate, Finish
    <3>2. Made \subseteq Rec
      BY SchedulerAssumption DEF Made, Rec
    <3> QED
      BY <3>1, <3>2, TokenAssumption
  <2> DEFINE g == gateOf[at[c]]
  <2>2. UNCHANGED manager
    BY <1>9 DEF EnterGate, Finish
  <2>3. /\ Admit(gates[g], at[c]) \in GateState /\ Enqueue(gates[g], at[c]) \in GateState
        /\ Finished(gates[g], at[c]) \in GateState
        /\ NextExecution(gates[g], at[c]) \in Rec \cup {NoRec}
    BY <2>1, GateTyped, TokenAssumption DEF OptToken, Policy
  <2>4. gates' \in [Rec -> GateState] /\ at' \in [Call -> Rec \cup {NoRec}]
        /\ pc' \in [Call -> {"idle", "triggered", "runnable", "running"}]
    <3>1. CASE EnterGate(c)
      BY <2>1, <2>3, <3>1 DEF EnterGate
    <3>2. CASE Finish(c)
      BY <2>1, <2>3, <3>2 DEF Finish
    <3> QED
      BY <1>9, <3>1, <3>2
  <2> QED
    BY <2>2, <2>4 DEF manager, records
<1>10. CASE UNCHANGED vars
  BY <1>10 DEF vars, manager, records, calls
<1> QED
  BY <1>1, <1>2, <1>3, <1>4, <1>5, <1>6, <1>7, <1>8, <1>9, <1>10 DEF Next, ManagerNext, CallNext

-----------------------------------------------------------------------------
(* Records                                                                  *)

\* The records made so far.
LEMMA MadeFacts ==
    ASSUME TypeOK
    PROVE  /\ Made \subseteq Rec /\ NoRec \notin Rec
           /\ \A n \in Name : jobs[n] # NoRec <=> jobs[n] \in Rec
           /\ Registered \subseteq Rec
           /\ \A r \in Rec : r \in Registered <=> \E n \in Name : jobs[n] = r
BY SchedulerAssumption DEF TypeOK, Made, Rec, NoRec, Registered

\* A new record is none of those made before, and changes none of them.
LEMMA NewRecordEffect ==
    ASSUME TypeOK, NEW n \in Name, NEW p \in Policies, NEW r \in Rec, NEW g \in Rec,
           NewRecord(r, n, p, g)
    PROVE  /\ r \notin Made /\ Made' = Made \cup {r}
           /\ name'[r] = n /\ policyOf'[r] = p /\ gateOf'[r] = g
           /\ \A s \in Rec \ {r} : /\ name'[s] = name[s] /\ policyOf'[s] = policyOf[s]
                                   /\ gateOf'[s] = gateOf[s]
<1>1. r \notin Made /\ Made' = Made \cup {r}
  BY SchedulerAssumption DEF TypeOK, NewRecord, Made, Rec
<1>2. r \in DOMAIN name /\ r \in DOMAIN policyOf /\ r \in DOMAIN gateOf
  BY DEF TypeOK
<1> QED
  BY <1>1, <1>2 DEF NewRecord, TypeOK

LEMMA AddEffect ==
    ASSUME TypeOK, NEW n \in Name, NEW p \in Policies, Add(n, p)
    PROVE  \E r \in Rec :
             /\ NewRecord(r, n, p, r)
             /\ op = NoOp /\ stop = "no" /\ jobs[n] = NoRec
             /\ gates'[r] = NewGate(p) /\ \A g \in Rec \ {r} : gates'[g] = gates[g]
             /\ state'[r] = FreshState /\ \A s \in Rec \ {r} : state'[s] = state[s]
             /\ \/ ~started /\ jobs' = [jobs EXCEPT ![n] = r] /\ UNCHANGED <<inner, installed, op>>
                \/ started /\ Install(r) /\ op' = [kind |-> "commit", new |-> r, old |-> NoRec]
                   /\ UNCHANGED jobs
             /\ UNCHANGED <<engine, started, stop, cleanup, pc, at>>
<1>1. PICK r \in Rec :
        /\ NewRecord(r, n, p, r)
        /\ gates' = [gates EXCEPT ![r] = NewGate(p)]
        /\ state' = [state EXCEPT ![r] = FreshState]
        /\ \/ ~started /\ jobs' = [jobs EXCEPT ![n] = r] /\ UNCHANGED <<inner, installed, op>>
           \/ started /\ Install(r) /\ op' = [kind |-> "commit", new |-> r, old |-> NoRec]
              /\ UNCHANGED jobs
  BY DEF Add
<1>2. /\ gates'[r] = NewGate(p) /\ \A g \in Rec \ {r} : gates'[g] = gates[g]
      /\ state'[r] = FreshState /\ \A s \in Rec \ {r} : state'[s] = state[s]
  BY <1>1 DEF TypeOK
<1>3. /\ op = NoOp /\ stop = "no" /\ jobs[n] = NoRec
      /\ UNCHANGED <<engine, started, stop, cleanup, pc, at>>
  BY DEF Add, Accepting, MutexFree, calls
<1> QED
  BY <1>1, <1>2, <1>3

LEMMA ReplaceEffect ==
    ASSUME TypeOK, RecordInv, JobsInv, NEW n \in Name, NEW p \in Policies, Replace(n, p)
    PROVE  \E r \in Rec, old \in Made :
             /\ old = jobs[n] /\ old \in Registered /\ old # r
             /\ NewRecord(r, n, p, gateOf[old]) /\ gateOf[old] \in Made
             /\ op = NoOp /\ stop = "no"
             /\ state'[r] = FreshState /\ \A s \in Rec \ {r, old} : state'[s] = state[s]
             /\ \/ /\ ~started /\ state'[old] = "inactive"
                   /\ gates' = Switched(gateOf[old], p)
                   /\ jobs' = [jobs EXCEPT ![n] = r] /\ UNCHANGED <<inner, installed, op>>
                \/ /\ started /\ state'[old] = state[old]
                   /\ Install(r) /\ op' = [kind |-> "remove", new |-> r, old |-> old]
                   /\ UNCHANGED <<jobs, gates>>
             /\ UNCHANGED <<engine, started, stop, cleanup, pc, at>>
<1>1. PICK old \in Made : old = jobs[n]
  BY DEF Replace, JobsInv
<1>2. old \in Registered /\ gateOf[old] \in Made /\ old \in Rec /\ gateOf[old] \in Rec
  BY <1>1, MadeFacts DEF RecordInv
<1>3. PICK r \in Rec :
        /\ NewRecord(r, n, p, gateOf[old])
        /\ \/ /\ ~started
              /\ state' = [state EXCEPT ![r] = FreshState, ![old] = "inactive"]
              /\ gates' = Switched(gateOf[old], p)
              /\ jobs' = [jobs EXCEPT ![n] = r] /\ UNCHANGED <<inner, installed, op>>
           \/ /\ started /\ state' = [state EXCEPT ![r] = FreshState]
              /\ Install(r) /\ op' = [kind |-> "remove", new |-> r, old |-> old]
              /\ UNCHANGED <<jobs, gates>>
  BY <1>1 DEF Replace
<1>4. old # r
  BY <1>2, <1>3, NewRecordEffect
<1>5. /\ state'[r] = FreshState /\ \A s \in Rec \ {r, old} : state'[s] = state[s]
      /\ ~started => state'[old] = "inactive"
      /\ started => state'[old] = state[old]
  BY <1>2, <1>3, <1>4 DEF TypeOK
<1>6. op = NoOp /\ stop = "no" /\ UNCHANGED <<engine, started, stop, cleanup, pc, at>>
  BY DEF Replace, Accepting, MutexFree, calls
<1> QED
  BY <1>1, <1>2, <1>3, <1>4, <1>5, <1>6

LEMMA RemoveEffect ==
    ASSUME TypeOK, JobsInv, NEW n \in Name, Remove(n)
    PROVE  \E r \in Made : \E o \in Removals(r) :
             /\ r = jobs[n] /\ r \in Registered /\ op = NoOp
             /\ installed' = installed \ RemovedHandles(r, o)
             /\ \A s \in Rec \ {r} : state'[s] = state[s] /\ cleanup'[s] = cleanup[s]
             /\ \/ /\ ~started \/ Clean(o)
                   /\ state'[r] = "inactive" /\ jobs' = [jobs EXCEPT ![n] = NoRec]
                   /\ inner' = inner \ {r} /\ cleanup'[r] = {}
                \/ /\ started /\ ~Clean(o)
                   /\ inner' = IF o.primary THEN inner ELSE inner \ {r}
                   /\ cleanup'[r] = o.left
                   /\ UNCHANGED <<state, jobs>>
             /\ UNCHANGED <<engine, started, stop, made, records, op, gates, pc, at>>
<1>1. PICK r \in Made : r = jobs[n] /\ r \in Rec /\ r \in Registered
  BY MadeFacts DEF Remove, JobsInv
<1>2. PICK o \in Removals(r) :
         \/ /\ ~started \/ Clean(o)
            /\ state' = [state EXCEPT ![r] = "inactive"]
            /\ jobs' = [jobs EXCEPT ![n] = NoRec]
            /\ installed' = installed \ RemovedHandles(r, o)
            /\ inner' = inner \ {r}
            /\ cleanup' = [cleanup EXCEPT ![r] = {}]
         \/ /\ started /\ ~Clean(o)
            /\ installed' = installed \ RemovedHandles(r, o)
            /\ inner' = IF o.primary THEN inner ELSE inner \ {r}
            /\ cleanup' = [cleanup EXCEPT ![r] = o.left]
            /\ UNCHANGED <<state, jobs>>
  BY <1>1 DEF Remove
<1>3. UNCHANGED <<engine, started, stop, made, records, op, gates, pc, at>> /\ op = NoOp
  BY DEF Remove, calls, MutexFree
<1>4. CASE /\ ~started \/ Clean(o)
           /\ state' = [state EXCEPT ![r] = "inactive"]
           /\ jobs' = [jobs EXCEPT ![n] = NoRec]
           /\ installed' = installed \ RemovedHandles(r, o)
           /\ inner' = inner \ {r}
           /\ cleanup' = [cleanup EXCEPT ![r] = {}]
  <2>1. /\ state'[r] = "inactive" /\ cleanup'[r] = {}
        /\ \A s \in Rec \ {r} : state'[s] = state[s] /\ cleanup'[s] = cleanup[s]
    BY <1>1, <1>4 DEF TypeOK
  <2> QED
    BY <1>1, <1>3, <1>4, <2>1
<1>5. CASE /\ started /\ ~Clean(o)
           /\ installed' = installed \ RemovedHandles(r, o)
           /\ inner' = IF o.primary THEN inner ELSE inner \ {r}
           /\ cleanup' = [cleanup EXCEPT ![r] = o.left]
           /\ UNCHANGED <<state, jobs>>
  <2>1. /\ cleanup'[r] = o.left
        /\ \A s \in Rec \ {r} : state'[s] = state[s] /\ cleanup'[s] = cleanup[s]
    BY <1>1, <1>5 DEF TypeOK
  <2> QED
    BY <1>1, <1>3, <1>5, <2>1
<1> QED
  BY <1>2, <1>4, <1>5

\* A method under way holds two records that are made, the old one registered.
LEMMA OpFacts ==
    ASSUME TypeOK, RecordInv, JobsInv, OpInv, op # NoOp
    PROVE  /\ op.new \in Made /\ op.new \in Rec /\ op.new \notin Registered
           /\ op.old # NoRec => /\ op.old \in Made /\ op.old \in Registered /\ op.old # op.new
                                /\ name[op.old] = name[op.new]
           /\ name[op.new] \in Name /\ jobs[name[op.new]] = op.old
           /\ gateOf[op.new] \in Made /\ policyOf[op.new] \in Policies
           /\ op.kind \in {"remove", "commit"}
<1>1. op.new \in Made /\ op.new \in Rec /\ op.new \notin Registered
  BY MadeFacts DEF OpInv, JobsInv
<1>2. name[op.new] \in Name /\ jobs[name[op.new]] = op.old
  BY <1>1 DEF OpInv, TypeOK
<1>3. op.old # NoRec => /\ op.old \in Made /\ op.old \in Registered /\ op.old # op.new
                        /\ name[op.old] = name[op.new]
  BY <1>1, <1>2, MadeFacts DEF JobsInv
<1>4. gateOf[op.new] \in Made /\ policyOf[op.new] \in Policies /\ op.kind \in {"remove", "commit"}
  BY <1>1 DEF RecordInv, TypeOK, Op, NoOp
<1> QED
  BY <1>1, <1>2, <1>3, <1>4

LEMMA RemovesEffect ==
    ASSUME TypeOK, RecordInv, JobsInv, OpInv, RegisteredIsScheduled, ReplaceRemoves
    PROVE  /\ op # NoOp /\ op.kind = "remove" /\ op.old \in Made
           /\ \A h \in installed : h \in installed' <=> h \notin cleanup[op.old] \cup {op.old}
           /\ installed' \subseteq installed /\ inner' = inner \ {op.old}
           /\ cleanup'[op.old] = {} /\ \A s \in Rec \ {op.old} : cleanup'[s] = cleanup[s]
           /\ op' # NoOp /\ op'.kind = "commit" /\ op'.new = op.new /\ op'.old = op.old
           /\ UNCHANGED <<engine, started, stop, jobs, made, records, state, gates, pc, at>>
<1>1. op # NoOp /\ op.kind = "remove" /\ op.old # NoRec
  BY DEF ReplaceRemoves, NoOp, OpInv
<1>2. op.old \in Made /\ op.old \in Rec /\ op.old \in Registered
  BY <1>1, OpFacts, MadeFacts
<1>3. PICK o \in Removals(op.old) : Clean(o) /\ installed' = installed \ RemovedHandles(op.old, o)
  BY DEF ReplaceRemoves
<1>4. cleanup'[op.old] = {} /\ \A s \in Rec \ {op.old} : cleanup'[s] = cleanup[s]
  BY <1>2 DEF ReplaceRemoves, TypeOK
<1>5. op' = [op EXCEPT !.kind = "commit"] /\ op \in [kind : {"remove", "commit"}, new : Rec, old : Rec \cup {NoRec}]
  BY <1>1 DEF ReplaceRemoves, TypeOK, Op
<1>6. op'.kind = "commit" /\ op'.new = op.new /\ op'.old = op.old
  BY <1>5
<1>7. op' # NoOp
  BY <1>6 DEF NoOp
<1>8. UNCHANGED <<engine, started, stop, jobs, made, records, state, gates, pc, at>>
      /\ inner' = inner \ {op.old}
  BY DEF ReplaceRemoves, calls
<1>9. op.old \in inner
  BY <1>1, <1>2 DEF RegisteredIsScheduled, OpInv
<1>10. RemovedHandles(op.old, o) = cleanup[op.old] \cup {op.old}
  BY <1>3, <1>9 DEF RemovedHandles, Clean
<1> QED
  BY <1>1, <1>2, <1>3, <1>4, <1>6, <1>7, <1>8, <1>10

LEMMA FailsEffect ==
    ASSUME TypeOK, RecordInv, JobsInv, OpInv, RegisteredIsScheduled, ReplaceFails
    PROVE  \E left \in SUBSET cleanup[op.old], own, new \in BOOLEAN :
             /\ op # NoOp /\ op.kind = "remove" /\ op.old \in Made /\ op.old # op.new
             /\ left # {} \/ own
             /\ left # {} => own
             /\ installed' = installed \ ((cleanup[op.old] \ left)
                               \cup (IF own THEN {} ELSE {op.old})
                               \cup (IF new THEN {} ELSE {op.new}))
             /\ inner' = (inner \ {op.old, op.new}) \cup (IF own THEN {op.old} ELSE {})
             /\ cleanup'[op.old] = left \cup (IF new THEN {op.new} ELSE {})
             /\ cleanup'[op.new] = {}
             /\ \A s \in Rec \ {op.old, op.new} : cleanup'[s] = cleanup[s]
             /\ state'[op.new] = "inactive" /\ \A s \in Rec \ {op.new} : state'[s] = state[s]
             /\ op' = NoOp
             /\ UNCHANGED <<engine, started, stop, jobs, made, records, gates, pc, at>>
<1>1. op # NoOp /\ op.kind = "remove" /\ op.old # NoRec
  BY DEF ReplaceFails, NoOp, OpInv
<1>2. /\ op.old \in Made /\ op.old \in Rec /\ op.old \in Registered /\ op.new # op.old
      /\ op.new \in Rec
  BY <1>1, OpFacts, MadeFacts
<1>3. op.old \in inner /\ op.new \in inner /\ cleanup[op.new] = {}
  BY <1>1, <1>2 DEF RegisteredIsScheduled, OpInv
<1>4. PICK o \in Removals(op.old), u \in Removals(op.new) :
         /\ ~Clean(o)
         /\ installed' = installed \ (RemovedHandles(op.old, o) \cup RemovedHandles(op.new, u))
         /\ inner' = (inner \ {op.old, op.new}) \cup (IF o.primary THEN {op.old} ELSE {})
         /\ cleanup' = [cleanup EXCEPT ![op.old] = Inherited(op.new, o, u), ![op.new] = {}]
  BY DEF ReplaceFails
<1>5. /\ o.left \in SUBSET cleanup[op.old] /\ o.primary \in BOOLEAN /\ u.primary \in BOOLEAN
      /\ o.left # {} => o.primary
      /\ o.left # {} \/ o.primary
      /\ RemovedHandles(op.old, o) = (cleanup[op.old] \ o.left) \cup (IF o.primary THEN {} ELSE {op.old})
      /\ RemovedHandles(op.new, u) = IF u.primary THEN {} ELSE {op.new}
  BY <1>3, <1>4 DEF Removals, RemovedHandles, Clean
<1>6. /\ cleanup'[op.old] = o.left \cup (IF u.primary THEN {op.new} ELSE {})
      /\ cleanup'[op.new] = {}
      /\ \A s \in Rec \ {op.old, op.new} : cleanup'[s] = cleanup[s]
  BY <1>2, <1>4 DEF TypeOK, Inherited
<1>7. state'[op.new] = "inactive" /\ \A s \in Rec \ {op.new} : state'[s] = state[s]
  BY <1>2 DEF ReplaceFails, TypeOK, Aborted
<1>8. op' = NoOp /\ UNCHANGED <<engine, started, stop, jobs, made, records, gates, pc, at>>
  BY DEF ReplaceFails, calls
<1>9. installed' = installed \ ((cleanup[op.old] \ o.left)
                               \cup (IF o.primary THEN {} ELSE {op.old})
                               \cup (IF u.primary THEN {} ELSE {op.new}))
  BY <1>4, <1>5
<1> QED
  BY <1>1, <1>2, <1>4, <1>5, <1>6, <1>7, <1>8, <1>9

LEMMA CommitEffect ==
    ASSUME TypeOK, RecordInv, JobsInv, OpInv, Commit
    PROVE  /\ op # NoOp /\ op.kind = "commit" /\ op' = NoOp
           /\ state'[op.new] = "active"
           /\ op.old # NoRec => state'[op.old] = "inactive"
           /\ \A s \in Rec \ {op.new, op.old} : state'[s] = state[s]
           /\ gates' = Switched(gateOf[op.new], policyOf[op.new])
           /\ jobs'[name[op.new]] = op.new
           /\ \A n \in Name \ {name[op.new]} : jobs'[n] = jobs[n]
           /\ Registered' = (Registered \ {op.old}) \cup {op.new}
           /\ UNCHANGED <<engine, started, stop, made, records, inner, cleanup, installed, pc, at>>
<1>1. op # NoOp /\ op.kind = "commit"
  BY DEF Commit, NoOp
<1>2. op.new \in Rec /\ op.old # op.new /\ (op.old # NoRec => op.old \in Rec)
      /\ name[op.new] \in Name /\ jobs[name[op.new]] = op.old
  BY <1>1, OpFacts, MadeFacts
<1>3. /\ state'[op.new] = "active"
      /\ op.old # NoRec => state'[op.old] = "inactive"
      /\ \A s \in Rec \ {op.new, op.old} : state'[s] = state[s]
  <2>1. state' = [r \in Rec |-> CASE r = op.new -> "active"
                                  [] r = op.old -> "inactive"
                                  [] OTHER      -> state[r]]
    BY DEF Commit
  <2>2. state'[op.new] = "active"
    <3>1. \A r \in Rec : r = op.new => state'[r] = "active"
      BY <1>2, <2>1
    <3> QED
      BY <1>2, <3>1
  <2>3. ASSUME op.old # NoRec
        PROVE  state'[op.old] = "inactive"
    <3>1. op.old \in Rec /\ op.old # op.new
      BY <1>2, <2>3
    <3> QED
      BY <2>1, <3>1
  <2>4. \A s \in Rec \ {op.new, op.old} : state'[s] = state[s]
    BY <2>1
  <2> QED
    BY <2>2, <2>3, <2>4
<1>4. /\ jobs'[name[op.new]] = op.new
      /\ \A n \in Name \ {name[op.new]} : jobs'[n] = jobs[n]
  BY <1>2 DEF Commit, TypeOK
<1>5. \A n \in Name : jobs[n] # NoRec /\ jobs[n] = op.old => n = name[op.new]
  BY <1>1, OpFacts DEF JobsInv
<1>6. Registered' = (Registered \ {op.old}) \cup {op.new}
  BY <1>2, <1>4, <1>5, MadeFacts DEF Registered
<1> QED
  BY <1>1, <1>3, <1>4, <1>6 DEF Commit, calls

\* A change of policy leaves the other gates alone, and this one's waiting trigger.
LEMMA SwitchedTokens ==
    ASSUME TypeOK, NEW g \in Rec, NEW p \in Policies
    PROVE  \A h \in Rec : /\ h # g => Switched(g, p)[h] = gates[h]
                          /\ Switched(g, p)[h].queuedToken = gates[h].queuedToken
                          /\ Switched(g, p)[h].queuedHandler = gates[h].queuedHandler
<1>1. \A v \in GateState : /\ WithPolicy(v, p).queuedToken = v.queuedToken
                            /\ WithPolicy(v, p).queuedHandler = v.queuedHandler
  BY DEF WithPolicy, GateState
<1>2. /\ \A h \in Rec : gates[h] \in GateState
      /\ Switched(g, p)[g] = WithPolicy(gates[g], p)
      /\ \A h \in Rec \ {g} : Switched(g, p)[h] = gates[h]
  BY DEF TypeOK, Switched
<1> QED
  BY <1>1, <1>2

\* Every action leaves the records not made yet untouched, and the others at their gates.
LEMMA RecordStep == SchedulerInv /\ [Next]_vars => RecordInv'
<1> SUFFICES ASSUME SchedulerInv, [Next]_vars
             PROVE  RecordInv'
  OBVIOUS
<1> USE DEF SchedulerInv
<1>1. TypeOK'
  BY TypeStep
<1>2. Registered \subseteq Made
  BY MadeFacts DEF JobsInv
<1>3. CASE Start \/ StartFails \/ Stop \/ EngineShutdown \/ StopCompletes
  <2>1. /\ UNCHANGED <<made, gateOf, policyOf, state, cleanup, gates, pc, at>>
        /\ installed' \subseteq installed \cup Registered /\ inner' \subseteq inner \cup Registered
    BY <1>3 DEF Start, StartFails, Stop, EngineShutdown, StopCompletes, records, calls
  <2> QED
    BY <1>2, <2>1 DEF RecordInv, Made
<1>4. ASSUME NEW n \in Name, NEW p \in Policies, Add(n, p)
      PROVE  RecordInv'
  <2>1. PICK r \in Rec :
          /\ NewRecord(r, n, p, r)
          /\ gates'[r] = NewGate(p) /\ \A g \in Rec \ {r} : gates'[g] = gates[g]
          /\ \A s \in Rec \ {r} : state'[s] = state[s]
          /\ inner' \subseteq inner \cup {r} /\ installed' \subseteq installed \cup {r}
          /\ UNCHANGED <<cleanup, pc, at>>
    BY <1>4, AddEffect DEF Install
  <2>2. /\ r \notin Made /\ Made' = Made \cup {r} /\ policyOf'[r] = p /\ gateOf'[r] = r
        /\ \A s \in Rec \ {r} : policyOf'[s] = policyOf[s] /\ gateOf'[s] = gateOf[s]
    BY <2>1, NewRecordEffect
  <2>3. Made \subseteq Rec
    BY MadeFacts
  <2>4. gates'[r].queuedToken = NoRec /\ gates'[r].queuedHandler = NoRec
    BY <2>1, TokenAssumption DEF NewGate
  <2>5. \A s \in Rec \ Made' :
          /\ state'[s] = "pending" /\ s \notin inner' /\ s \notin installed'
          /\ cleanup'[s] = {} /\ gates'[s] = NewGate("SkipIfRunning")
    BY <2>1, <2>2 DEF RecordInv
  <2>6. \A s \in Made' : gateOf'[s] \in Made' /\ policyOf'[s] \in Policies
    BY <2>1, <2>2, <2>3 DEF RecordInv
  <2>7. \A c \in Call : IF pc'[c] = "idle" THEN at'[c] = NoRec ELSE at'[c] \in Made'
    BY <2>1, <2>2 DEF RecordInv
  <2>8. \A g \in Rec : \A t \in {gates'[g].queuedToken, gates'[g].queuedHandler} :
          t # NoToken => t \in Made' /\ gateOf'[t] = g
    BY <2>1, <2>2, <2>3, <2>4, TokenAssumption DEF RecordInv
  <2> QED
    BY <2>5, <2>6, <2>7, <2>8 DEF RecordInv
<1>5. ASSUME NEW n \in Name, NEW p \in Policies, Replace(n, p)
      PROVE  RecordInv'
  <2>1. PICK r \in Rec, old \in Made :
          /\ NewRecord(r, n, p, gateOf[old]) /\ gateOf[old] \in Made
          /\ \A s \in Rec \ {r, old} : state'[s] = state[s]
          /\ gates' = Switched(gateOf[old], p) \/ gates' = gates
          /\ inner' \subseteq inner \cup {r} /\ installed' \subseteq installed \cup {r}
          /\ UNCHANGED <<cleanup, pc, at>>
    BY <1>5, ReplaceEffect DEF Install
  <2>2. Made \subseteq Rec
    BY MadeFacts
  <2>3. /\ r \notin Made /\ Made' = Made \cup {r} /\ policyOf'[r] = p /\ gateOf'[r] = gateOf[old]
        /\ \A s \in Rec \ {r} : policyOf'[s] = policyOf[s] /\ gateOf'[s] = gateOf[s]
    BY <2>1, <2>2, NewRecordEffect
  <2>4. \A g \in Rec : /\ g # gateOf[old] => gates'[g] = gates[g]
                       /\ gates'[g].queuedToken = gates[g].queuedToken
                       /\ gates'[g].queuedHandler = gates[g].queuedHandler
    BY <2>1, <2>2, SwitchedTokens
  <2>5. \A s \in Rec \ Made' :
          /\ state'[s] = "pending" /\ s \notin inner' /\ s \notin installed'
          /\ cleanup'[s] = {} /\ gates'[s] = NewGate("SkipIfRunning")
    BY <2>1, <2>2, <2>3, <2>4 DEF RecordInv
  <2>6. \A s \in Made' : gateOf'[s] \in Made' /\ policyOf'[s] \in Policies
    BY <2>1, <2>2, <2>3 DEF RecordInv
  <2>7. \A c \in Call : IF pc'[c] = "idle" THEN at'[c] = NoRec ELSE at'[c] \in Made'
    BY <2>1, <2>3 DEF RecordInv
  <2>8. \A g \in Rec : \A t \in {gates'[g].queuedToken, gates'[g].queuedHandler} :
          t # NoToken => t \in Made' /\ gateOf'[t] = g
    BY <2>2, <2>3, <2>4 DEF RecordInv
  <2> QED
    BY <2>5, <2>6, <2>7, <2>8 DEF RecordInv
<1>6. CASE ReplaceRemoves
  BY <1>6, RemovesEffect, MadeFacts DEF RecordInv, Made, records
<1>7. CASE ReplaceFails
  <2>1. /\ op.old \in Made /\ op.new \in Made
        /\ installed' \subseteq installed /\ inner' \subseteq inner \cup {op.old}
        /\ \A s \in Rec \ {op.old, op.new} : cleanup'[s] = cleanup[s] /\ state'[s] = state[s]
        /\ UNCHANGED <<made, gateOf, policyOf, gates, pc, at>>
    BY <1>7, FailsEffect, OpFacts DEF records
  <2> QED
    BY <2>1 DEF RecordInv, Made
<1>8. CASE Commit
  <2>1. /\ op.new \in Made /\ gateOf[op.new] \in Made /\ policyOf[op.new] \in Policies
        /\ op.old # NoRec => op.old \in Made
    BY <1>8, CommitEffect, OpFacts
  <2>2. NoRec \notin Rec /\ Made \subseteq Rec
    BY MadeFacts
  <2>3. \A g \in Rec : /\ g # gateOf[op.new] => gates'[g] = gates[g]
                       /\ gates'[g].queuedToken = gates[g].queuedToken
                       /\ gates'[g].queuedHandler = gates[g].queuedHandler
    BY <1>8, <2>1, <2>2, CommitEffect, SwitchedTokens
  <2> QED
    BY <1>8, <2>1, <2>2, <2>3, CommitEffect DEF RecordInv, Made, records
<1>9. ASSUME NEW n \in Name, Remove(n)
      PROVE  RecordInv'
  <2>1. PICK r \in Made :
          /\ installed' \subseteq installed /\ inner' \subseteq inner
          /\ \A s \in Rec \ {r} : cleanup'[s] = cleanup[s] /\ state'[s] = state[s]
          /\ UNCHANGED <<made, gateOf, policyOf, gates, pc, at>>
    BY <1>9, RemoveEffect DEF records
  <2> QED
    BY <2>1 DEF RecordInv, Made
<1>10. ASSUME NEW c \in Call, NEW r \in Rec, Trigger(c, r)
       PROVE  RecordInv'
  <2>1. r \in Made
    BY <1>10 DEF Trigger, RecordInv
  <2> QED
    BY <1>10, <2>1 DEF Trigger, RecordInv, TypeOK, manager, records, Made
<1>11. ASSUME NEW c \in Call, Pass(c) \/ TurnAway(c)
       PROVE  RecordInv'
  <2>1. /\ UNCHANGED <<manager, gates>> /\ \A d \in Call \ {c} : pc'[d] = pc[d] /\ at'[d] = at[d]
        /\ pc[c] = "triggered"
        /\ \/ pc'[c] = "runnable" /\ at'[c] = at[c]
           \/ pc'[c] = "idle" /\ at'[c] = NoRec
    BY <1>11 DEF Pass, TurnAway, TypeOK
  <2> QED
    BY <2>1 DEF RecordInv, manager, records, Made
<1>12. ASSUME NEW c \in Call, EnterGate(c) \/ Finish(c)
       PROVE  RecordInv'
  <2>1. PICK g \in Made : g = gateOf[at[c]] /\ at[c] \in Made
    BY <1>12 DEF EnterGate, Finish, RecordInv
  <2>2. /\ Made \subseteq Rec /\ at[c] \in Token /\ g \in Rec /\ gates[g] \in GateState
        /\ "QueueOne" \in Policy
    BY <2>1, MadeFacts, TokenAssumption DEF TypeOK, Policy
  <2>3. /\ \A h \in Rec \ {g} : gates'[h] = gates[h]
        /\ {gates'[g].queuedToken, gates'[g].queuedHandler}
              \subseteq {gates[g].queuedToken, gates[g].queuedHandler, at[c], NoToken}
    <3>1. gates' = gates
          \/ \E h \in {Admit(gates[g], at[c]), Enqueue(gates[g], at[c]), Finished(gates[g], at[c])} :
                gates' = [gates EXCEPT ![g] = h]
      BY <1>12, <2>1 DEF EnterGate, Finish
    <3> QED
      BY <2>2, <3>1, GateTokens DEF TypeOK
  <2>4. /\ \A d \in Call \ {c} : pc'[d] = pc[d] /\ at'[d] = at[d]
        /\ IF pc'[c] = "idle" THEN at'[c] = NoRec ELSE at'[c] \in Made
    <3>1. CASE EnterGate(c)
      BY <2>1, <3>1 DEF EnterGate, TypeOK
    <3>2. CASE Finish(c)
      <4>1. NextExecution(gates[g], at[c]) \in {gates[g].queuedToken, gates[g].queuedHandler, NoToken}
        BY <2>2, GateTokens
      <4>2. NextExecution(gates[g], at[c]) # NoToken => NextExecution(gates[g], at[c]) \in Made
        BY <2>2, <4>1 DEF RecordInv
      <4>3. /\ \A d \in Call \ {c} : pc'[d] = pc[d] /\ at'[d] = at[d]
            /\ at'[c] = NextExecution(gates[g], at[c])
            /\ pc'[c] = IF NextExecution(gates[g], at[c]) = NoToken THEN "idle" ELSE "running"
        BY <2>1, <3>2 DEF Finish, TypeOK
      <4> QED
        BY <4>2, <4>3, TokenAssumption
    <3> QED
      BY <1>12, <3>1, <3>2
  <2>5. UNCHANGED manager
    BY <1>12 DEF EnterGate, Finish
  <2> QED
    BY <2>1, <2>2, <2>3, <2>4, <2>5 DEF RecordInv, manager, records, Made
<1>13. CASE UNCHANGED vars
  BY <1>13 DEF vars, manager, records, calls, RecordInv, Made
<1> QED
  BY <1>3, <1>4, <1>5, <1>6, <1>7, <1>8, <1>9, <1>10, <1>11, <1>12, <1>13
  DEF Next, ManagerNext, CallNext

-----------------------------------------------------------------------------
(* Registered records, the engine and the method under way                  *)

\* What a change of one entry of manager.jobs makes of the registered records.
LEMMA RegisteredAfter ==
    ASSUME TypeOK, JobsInv, NEW n \in Name, NEW r \in Rec \cup {NoRec},
           jobs' = [jobs EXCEPT ![n] = r]
    PROVE  /\ Registered' = (Registered \ {jobs[n]}) \cup ({r} \ {NoRec})
           /\ jobs'[n] = r /\ \A m \in Name \ {n} : jobs'[m] = jobs[m]
<1>1. jobs'[n] = r /\ \A m \in Name \ {n} : jobs'[m] = jobs[m]
  BY DEF TypeOK
<1>2. \A m \in Name : jobs[m] # NoRec /\ jobs[m] = jobs[n] => m = n
  BY DEF JobsInv
<1>3. Registered' = (Registered \ {jobs[n]}) \cup ({r} \ {NoRec})
  BY <1>1, <1>2 DEF Registered
<1> QED
  BY <1>1, <1>3

\* Triggers do not concern the manager.
LEMMA CallsLeaveManager ==
    ASSUME NEW c \in Call, CallNext(c)
    PROVE  UNCHANGED manager
BY DEF CallNext, Trigger, Pass, TurnAway, EnterGate, Finish

LEMMA JobsStep == SchedulerInv /\ [Next]_vars => JobsInv'
<1> SUFFICES ASSUME SchedulerInv, [Next]_vars
             PROVE  JobsInv'
  OBVIOUS
<1> USE DEF SchedulerInv
<1>1. /\ Made \subseteq Rec /\ Registered \subseteq Made /\ NoRec \notin Rec
      /\ cleanup \in [Rec -> SUBSET Rec]
  BY MadeFacts DEF JobsInv, TypeOK
<1>2. CASE Start \/ StartFails \/ Stop \/ EngineShutdown \/ StopCompletes \/ UNCHANGED manager
  <2>1. UNCHANGED <<jobs, made, name, state, cleanup>>
    BY <1>2 DEF Start, StartFails, Stop, EngineShutdown, StopCompletes, records, manager
  <2> QED
    BY <2>1 DEF JobsInv, Made, Registered
<1>3. ASSUME NEW n \in Name, NEW p \in Policies, Add(n, p)
      PROVE  JobsInv'
  <2>1. PICK r \in Rec :
          /\ NewRecord(r, n, p, r) /\ jobs[n] = NoRec
          /\ state'[r] = FreshState /\ \A s \in Rec \ {r} : state'[s] = state[s]
          /\ \/ ~started /\ jobs' = [jobs EXCEPT ![n] = r]
             \/ started /\ UNCHANGED jobs
          /\ UNCHANGED cleanup
    BY <1>3, AddEffect
  <2>2. /\ r \notin Made /\ Made' = Made \cup {r} /\ name'[r] = n
        /\ \A s \in Rec \ {r} : name'[s] = name[s]
        /\ state[r] = "pending" /\ r \notin Registered
    BY <1>1, <2>1, NewRecordEffect DEF RecordInv
  <2>3. \A s \in Rec : \A h \in cleanup[s] : h \in Rec \ {r} /\ state[h] = "inactive"
    BY <1>1, <2>2 DEF JobsInv
  <2>4. CASE ~started
    <3>1. /\ Registered' = Registered \cup {r} /\ state'[r] = "active"
          /\ jobs'[n] = r /\ \A m \in Name \ {n} : jobs'[m] = jobs[m]
      BY <1>1, <2>1, <2>4, RegisteredAfter DEF FreshState
    <3> QED
      BY <1>1, <2>1, <2>2, <2>3, <3>1 DEF JobsInv
  <2>5. CASE started
    <3>1. Registered' = Registered /\ state'[r] = "pending"
      BY <2>1, <2>5 DEF FreshState, Registered
    <3> QED
      BY <1>1, <2>1, <2>2, <2>3, <2>5, <3>1 DEF JobsInv
  <2> QED
    BY <2>4, <2>5
<1>4. ASSUME NEW n \in Name, NEW p \in Policies, Replace(n, p)
      PROVE  JobsInv'
  <2>1. PICK r \in Rec, old \in Made :
          /\ NewRecord(r, n, p, gateOf[old]) /\ gateOf[old] \in Made
          /\ old = jobs[n] /\ old \in Registered /\ old # r
          /\ state'[r] = FreshState /\ \A s \in Rec \ {r, old} : state'[s] = state[s]
          /\ \/ ~started /\ state'[old] = "inactive" /\ jobs' = [jobs EXCEPT ![n] = r]
             \/ started /\ state'[old] = state[old] /\ UNCHANGED jobs
          /\ UNCHANGED cleanup
    BY <1>4, ReplaceEffect
  <2>2. /\ r \notin Made /\ Made' = Made \cup {r} /\ name'[r] = n
        /\ \A s \in Rec \ {r} : name'[s] = name[s]
        /\ state[r] = "pending" /\ r \notin Registered
    BY <1>1, <2>1, NewRecordEffect DEF RecordInv
  <2>3. \A s \in Rec : \A h \in cleanup[s] : h \in Rec \ {r, old} /\ state[h] = "inactive"
    BY <1>1, <2>1, <2>2 DEF JobsInv
  <2>4. CASE ~started
    <3>1. /\ Registered' = (Registered \ {old}) \cup {r} /\ state'[r] = "active"
          /\ jobs'[n] = r /\ \A m \in Name \ {n} : jobs'[m] = jobs[m]
      BY <1>1, <2>1, <2>4, RegisteredAfter DEF FreshState
    <3> QED
      BY <1>1, <2>1, <2>2, <2>3, <2>4, <3>1 DEF JobsInv
  <2>5. CASE started
    <3>1. Registered' = Registered /\ state'[r] = "pending"
      BY <2>1, <2>5 DEF FreshState, Registered
    <3> QED
      BY <1>1, <2>1, <2>2, <2>3, <2>5, <3>1 DEF JobsInv
  <2> QED
    BY <2>4, <2>5
<1>5. CASE ReplaceRemoves
  BY <1>5, RemovesEffect DEF JobsInv, Made, Registered, records
<1>6. CASE ReplaceFails
  <2>1. PICK left \in SUBSET cleanup[op.old], new \in BOOLEAN :
          /\ cleanup'[op.old] = left \cup (IF new THEN {op.new} ELSE {})
          /\ cleanup'[op.new] = {}
          /\ \A s \in Rec \ {op.old, op.new} : cleanup'[s] = cleanup[s]
          /\ state'[op.new] = "inactive" /\ \A s \in Rec \ {op.new} : state'[s] = state[s]
          /\ UNCHANGED <<jobs, made, name>>
    BY <1>6, FailsEffect DEF records
  <2>2. /\ op.new \in Rec /\ op.old \in Rec /\ op.new \notin Registered
        /\ state[op.new] = "pending"
    BY <1>1, <1>6, FailsEffect, OpFacts DEF OpInv
  <2>3. Registered' = Registered /\ Made' = Made
    BY <2>1 DEF Registered, Made
  <2>4. \A s \in Rec : \A h \in cleanup'[s] : state'[h] = "inactive"
    <3>1. \A s \in Rec : \A h \in cleanup[s] : h \in Rec /\ state'[h] = "inactive"
      BY <1>1, <2>1 DEF JobsInv
    <3> QED
      BY <2>1, <2>2, <3>1
  <2> QED
    BY <2>1, <2>2, <2>3, <2>4 DEF JobsInv
<1>7. CASE Commit
  <2>1. /\ op.new \in Made /\ op.new \in Rec /\ op.new # op.old /\ state[op.new] = "pending"
        /\ op.old # NoRec => op.old \in Registered
        /\ name[op.new] \in Name
    BY <1>1, <1>7, CommitEffect, OpFacts DEF OpInv
  <2>2. \A s \in Rec : \A h \in cleanup[s] : h \in Rec \ {op.new} /\ state'[h] = "inactive"
    BY <1>1, <1>7, <2>1, CommitEffect DEF JobsInv
  <2>3. \A r \in Rec : r \in Registered' <=> state'[r] = "active"
    BY <1>1, <1>7, <2>1, CommitEffect DEF JobsInv
  <2>4. \A n \in Name : jobs'[n] # NoRec => jobs'[n] \in Made' /\ name'[jobs'[n]] = n
    BY <1>7, <2>1, CommitEffect DEF JobsInv, Made, records
  <2> QED
    BY <1>7, <2>2, <2>3, <2>4, CommitEffect DEF JobsInv
<1>8. ASSUME NEW n \in Name, Remove(n)
      PROVE  JobsInv'
  <2>1. PICK r \in Made : \E o \in Removals(r) :
          /\ r = jobs[n] /\ r \in Registered
          /\ \A s \in Rec \ {r} : state'[s] = state[s] /\ cleanup'[s] = cleanup[s]
          /\ \/ /\ state'[r] = "inactive" /\ jobs' = [jobs EXCEPT ![n] = NoRec]
                /\ cleanup'[r] = {}
             \/ /\ cleanup'[r] = o.left /\ UNCHANGED <<state, jobs>>
          /\ UNCHANGED <<made, name>>
    BY <1>8, RemoveEffect DEF records
  <2>2. \A s \in Rec : cleanup'[s] \subseteq cleanup[s]
    BY <2>1 DEF Removals
  <2>3. \A s \in Rec : \A h \in cleanup[s] : h \in Rec \ {r} /\ state'[h] = "inactive"
    BY <1>1, <2>1 DEF JobsInv
  <2>4. CASE state'[r] = "inactive" /\ jobs' = [jobs EXCEPT ![n] = NoRec]
    <3>1. /\ Registered' = Registered \ {r}
          /\ jobs'[n] = NoRec /\ \A m \in Name \ {n} : jobs'[m] = jobs[m]
      BY <2>1, <2>4, RegisteredAfter
    <3> QED
      BY <1>1, <2>1, <2>2, <2>3, <2>4, <3>1 DEF JobsInv, Made
  <2>5. CASE UNCHANGED <<state, jobs>>
    BY <2>1, <2>2, <2>3, <2>5 DEF JobsInv, Made, Registered
  <2> QED
    BY <2>1, <2>4, <2>5
<1> QED
  BY <1>2, <1>3, <1>4, <1>5, <1>6, <1>7, <1>8, CallsLeaveManager DEF Next, ManagerNext, vars

LEMMA EngineStep == SchedulerInv /\ [Next]_vars => EngineInv'
<1> SUFFICES ASSUME SchedulerInv, [Next]_vars
             PROVE  EngineInv'
  OBVIOUS
<1> USE DEF SchedulerInv, EngineInv
<1>1. CASE Start \/ StartFails \/ Stop \/ EngineShutdown \/ StopCompletes \/ UNCHANGED manager
  BY <1>1 DEF Start, StartFails, Stop, StopOutcome, EngineShutdown, StopCompletes, Accepting, manager
<1>2. ASSUME NEW n \in Name, NEW p \in Policies, Add(n, p) \/ Replace(n, p)
      PROVE  EngineInv'
  <2>1. UNCHANGED <<engine, started, stop, cleanup>> /\ (~started => installed' = installed)
    BY <1>2 DEF Add, Replace
  <2> QED
    BY <2>1
<1>3. CASE ReplaceRemoves \/ ReplaceFails \/ Commit
  <2>1. op # NoOp
    BY <1>3, RemovesEffect, FailsEffect, CommitEffect
  <2>2. started /\ UNCHANGED <<engine, started, stop>>
    BY <1>3, <2>1 DEF OpInv, ReplaceRemoves, ReplaceFails, Commit
  <2> QED
    BY <2>2
<1>4. ASSUME NEW n \in Name, Remove(n)
      PROVE  EngineInv'
  <2>1. PICK r \in Made : \E o \in Removals(r) :
          /\ installed' \subseteq installed
          /\ \A s \in Rec \ {r} : cleanup'[s] = cleanup[s]
          /\ cleanup'[r] = {} \/ started
          /\ UNCHANGED <<engine, started, stop>>
    BY <1>4, RemoveEffect
  <2> QED
    BY <2>1
<1> QED
  BY <1>1, <1>2, <1>3, <1>4, CallsLeaveManager DEF Next, ManagerNext, vars

LEMMA OpStep == SchedulerInv /\ [Next]_vars => OpInv'
<1> SUFFICES ASSUME SchedulerInv, [Next]_vars
             PROVE  OpInv'
  OBVIOUS
<1> USE DEF SchedulerInv
<1>1. /\ Made \subseteq Rec /\ Registered \subseteq Made /\ NoRec \notin Rec
      /\ cleanup \in [Rec -> SUBSET Rec]
  BY MadeFacts DEF JobsInv, TypeOK
<1>2. CASE Start \/ StartFails \/ Stop \/ EngineShutdown \/ StopCompletes
  <2>1. op = NoOp /\ op' = op
    BY <1>2 DEF Start, StartFails, Stop, EngineShutdown, StopCompletes, Accepting, MutexFree, OpInv
  <2> QED
    BY <2>1 DEF OpInv
<1>3. CASE UNCHANGED manager
  BY <1>3 DEF manager, records, OpInv, Made
<1>4. ASSUME NEW n \in Name, NEW p \in Policies, Add(n, p)
      PROVE  OpInv'
  <2>1. PICK r \in Rec :
          /\ NewRecord(r, n, p, r)
          /\ op = NoOp /\ stop = "no" /\ jobs[n] = NoRec
          /\ state'[r] = FreshState
          /\ \/ ~started /\ op' = op
             \/ started /\ Install(r) /\ op' = [kind |-> "commit", new |-> r, old |-> NoRec]
                /\ UNCHANGED jobs
          /\ UNCHANGED <<engine, started, stop, cleanup>>
    BY <1>4, AddEffect
  <2>2. /\ r \notin Made /\ Made' = Made \cup {r} /\ name'[r] = n
        /\ cleanup[r] = {}
    BY <1>1, <2>1, NewRecordEffect DEF RecordInv
  <2>3. started => engine = "running"
    BY <2>1 DEF EngineInv, TypeOK
  <2> QED
    BY <1>1, <2>1, <2>2, <2>3 DEF OpInv, FreshState, Install
<1>5. ASSUME NEW n \in Name, NEW p \in Policies, Replace(n, p)
      PROVE  OpInv'
  <2>1. PICK r \in Rec, old \in Made :
          /\ old = jobs[n] /\ old # r
          /\ NewRecord(r, n, p, gateOf[old]) /\ gateOf[old] \in Made
          /\ op = NoOp /\ stop = "no"
          /\ state'[r] = FreshState
          /\ \/ ~started /\ op' = op
             \/ started /\ Install(r) /\ op' = [kind |-> "remove", new |-> r, old |-> old]
                /\ UNCHANGED jobs
          /\ UNCHANGED <<engine, started, stop, cleanup>>
    BY <1>5, ReplaceEffect
  <2>2. /\ r \notin Made /\ Made' = Made \cup {r} /\ name'[r] = n
        /\ gateOf'[r] = gateOf[old] /\ gateOf'[old] = gateOf[old]
        /\ cleanup[r] = {}
    BY <1>1, <2>1, NewRecordEffect DEF RecordInv
  <2>3. started => engine = "running"
    BY <2>1 DEF EngineInv, TypeOK
  <2> QED
    BY <1>1, <2>1, <2>2, <2>3 DEF OpInv, FreshState, Install
<1>6. CASE ReplaceRemoves
  <2>1. /\ op # NoOp /\ op.old \in Made /\ op.new \in Rec /\ op.old # op.new /\ op.old \in Registered
        /\ op'.kind = "commit" /\ op'.new = op.new /\ op'.old = op.old
    BY <1>1, <1>6, RemovesEffect, OpFacts
  <2>2. op.new \notin cleanup[op.old]
    BY <1>1, <2>1 DEF JobsInv, OpInv
  <2>3. cleanup'[op.new] = {} /\ op.new \in installed' /\ op.new \in inner' /\ cleanup'[op.old] = {}
        /\ op.old \notin inner'
    BY <1>6, <2>1, <2>2, RemovesEffect DEF OpInv
  <2> QED
    BY <1>6, <2>1, <2>3, RemovesEffect DEF OpInv, Made, records
<1>7. CASE ReplaceFails \/ Commit
  <2>1. op' = NoOp
    BY <1>7 DEF ReplaceFails, Commit
  <2> QED
    BY <2>1 DEF OpInv
<1>8. ASSUME NEW n \in Name, Remove(n)
      PROVE  OpInv'
  <2>1. op' = NoOp
    BY <1>8 DEF Remove, MutexFree
  <2> QED
    BY <2>1 DEF OpInv
<1> QED
  BY <1>2, <1>3, <1>4, <1>5, <1>6, <1>7, <1>8, CallsLeaveManager DEF Next, ManagerNext, vars

-----------------------------------------------------------------------------
(* The engine's handles                                                     *)

LEMMA OwnedStep == SchedulerInv /\ [Next]_vars => HandleOwned'
<1> SUFFICES ASSUME SchedulerInv, [Next]_vars
             PROVE  HandleOwned'
  OBVIOUS
<1> USE DEF SchedulerInv
<1>1. /\ Made \subseteq Rec /\ Registered \subseteq Made /\ NoRec \notin Rec
      /\ cleanup \in [Rec -> SUBSET Rec] /\ installed \subseteq Rec
  BY MadeFacts DEF JobsInv, TypeOK
<1>2. CASE Start \/ StartFails \/ Stop \/ EngineShutdown \/ StopCompletes
  <2>1. UNCHANGED <<jobs, op, cleanup>> /\ inner \subseteq inner'
        /\ installed' \subseteq installed \cup (inner' \cap Registered)
    BY <1>2 DEF Start, StartFails, Stop, EngineShutdown, StopCompletes
  <2> QED
    BY <2>1 DEF HandleOwned, Registered
<1>3. CASE UNCHANGED manager
  BY <1>3 DEF manager, records, HandleOwned, Registered
<1>4. ASSUME NEW n \in Name, NEW p \in Policies, Add(n, p)
      PROVE  HandleOwned'
  <2>1. PICK r \in Rec :
          /\ op = NoOp /\ jobs[n] = NoRec
          /\ \/ ~started /\ jobs' = [jobs EXCEPT ![n] = r] /\ UNCHANGED <<inner, installed, op>>
             \/ started /\ Install(r) /\ op' = [kind |-> "commit", new |-> r, old |-> NoRec]
                /\ UNCHANGED jobs
          /\ UNCHANGED cleanup
    BY <1>4, AddEffect
  <2>2. CASE ~started
    BY <2>1, <2>2 DEF EngineInv, HandleOwned
  <2>3. CASE started
    <3>1. \A h \in installed : \E s \in Registered : (h = s /\ s \in inner) \/ h \in cleanup[s]
      BY <1>1, <2>1 DEF HandleOwned, NoOp
    <3> QED
      BY <2>1, <2>3, <3>1 DEF HandleOwned, Install, Registered
  <2> QED
    BY <2>2, <2>3
<1>5. ASSUME NEW n \in Name, NEW p \in Policies, Replace(n, p)
      PROVE  HandleOwned'
  <2>1. PICK r \in Rec, old \in Made :
          /\ op = NoOp
          /\ \/ ~started /\ UNCHANGED installed
             \/ started /\ Install(r) /\ op' = [kind |-> "remove", new |-> r, old |-> old]
                /\ UNCHANGED jobs
          /\ UNCHANGED cleanup
    BY <1>5, ReplaceEffect
  <2>2. CASE ~started
    BY <2>1, <2>2 DEF EngineInv, HandleOwned
  <2>3. CASE started
    <3>1. \A h \in installed : \E s \in Registered : (h = s /\ s \in inner) \/ h \in cleanup[s]
      BY <1>1, <2>1 DEF HandleOwned, NoOp
    <3> QED
      BY <2>1, <2>3, <3>1 DEF HandleOwned, Install, Registered
  <2> QED
    BY <2>2, <2>3
<1>6. CASE ReplaceRemoves
  <2>1. /\ \A h \in installed : h \in installed' <=> h \notin cleanup[op.old] \cup {op.old}
        /\ installed' \subseteq installed /\ inner' = inner \ {op.old}
        /\ \A s \in Rec \ {op.old} : cleanup'[s] = cleanup[s]
        /\ op'.new = op.new /\ Registered' = Registered
    BY <1>6, RemovesEffect DEF Registered
  <2> QED
    BY <1>1, <2>1 DEF HandleOwned
<1>7. CASE ReplaceFails
  <2>1. PICK left \in SUBSET cleanup[op.old], own, new \in BOOLEAN :
          /\ op # NoOp
          /\ installed' = installed \ ((cleanup[op.old] \ left)
                               \cup (IF own THEN {} ELSE {op.old})
                               \cup (IF new THEN {} ELSE {op.new}))
          /\ inner' = (inner \ {op.old, op.new}) \cup (IF own THEN {op.old} ELSE {})
          /\ cleanup'[op.old] = left \cup (IF new THEN {op.new} ELSE {})
          /\ \A s \in Rec \ {op.old, op.new} : cleanup'[s] = cleanup[s]
          /\ op.old \in Made
          /\ UNCHANGED jobs
    BY <1>7, FailsEffect
  <2>2. op.old \in Registered /\ op.new \notin Registered /\ Registered' = Registered
    BY <1>1, <2>1, OpFacts DEF Registered
  <2>3. ASSUME NEW h \in installed'
        PROVE  \E r \in Registered : (h = r /\ r \in inner') \/ h \in cleanup'[r]
    <3>1. CASE h = op.new
      BY <2>1, <2>2, <3>1
    <3>2. CASE h # op.new
      <4>1. PICK r \in Registered : (h = r /\ r \in inner) \/ h \in cleanup[r]
        BY <2>1, <3>2 DEF HandleOwned
      <4>2. CASE r = op.old
        BY <2>1, <2>2, <4>1, <4>2
      <4>3. CASE r # op.old
        BY <1>1, <2>1, <2>2, <4>1, <4>3
      <4> QED
        BY <4>2, <4>3
    <3> QED
      BY <3>1, <3>2
  <2> QED
    BY <2>2, <2>3 DEF HandleOwned
<1>8. CASE Commit
  <2>1. /\ Registered' = (Registered \ {op.old}) \cup {op.new} /\ op.new \in inner
        /\ UNCHANGED <<inner, cleanup, installed>>
        /\ op.old # NoRec => cleanup[op.old] = {} /\ op.old \notin inner
    BY <1>8, CommitEffect DEF OpInv
  <2> QED
    BY <1>1, <2>1 DEF HandleOwned
<1>9. ASSUME NEW n \in Name, Remove(n)
      PROVE  HandleOwned'
  <2>1. PICK r \in Made : \E o \in Removals(r) :
             /\ r = jobs[n] /\ r \in Registered /\ op = NoOp /\ op' = op
             /\ installed' = installed \ RemovedHandles(r, o)
             /\ \A s \in Rec \ {r} : cleanup'[s] = cleanup[s]
             /\ \/ /\ ~started \/ Clean(o)
                   /\ jobs' = [jobs EXCEPT ![n] = NoRec]
                   /\ inner' = inner \ {r} /\ cleanup'[r] = {}
                \/ /\ started /\ ~Clean(o)
                   /\ inner' = IF o.primary THEN inner ELSE inner \ {r}
                   /\ cleanup'[r] = o.left
                   /\ UNCHANGED jobs
    BY <1>9, RemoveEffect
  <2>2. PICK o \in Removals(r) :
             /\ installed' = installed \ RemovedHandles(r, o)
             /\ \/ /\ ~started \/ Clean(o)
                   /\ jobs' = [jobs EXCEPT ![n] = NoRec]
                   /\ inner' = inner \ {r} /\ cleanup'[r] = {}
                \/ /\ started /\ ~Clean(o)
                   /\ inner' = IF o.primary THEN inner ELSE inner \ {r}
                   /\ cleanup'[r] = o.left
                   /\ UNCHANGED jobs
    BY <2>1
  <2>3. \A h \in installed : \E s \in Registered : (h = s /\ s \in inner) \/ h \in cleanup[s]
    BY <1>1, <2>1 DEF HandleOwned, NoOp
  <2>4. CASE ~started
    BY <2>2, <2>4 DEF EngineInv, HandleOwned
  <2>5. CASE started /\ Clean(o)
    <3>1. Registered' = Registered \ {r} /\ inner' = inner \ {r}
      BY <2>1, <2>2, <2>5, RegisteredAfter
    <3>2. \A h \in installed' : h \notin cleanup[r] /\ ~(h = r /\ r \in inner)
      BY <2>2, <2>5 DEF Clean, RemovedHandles
    <3> QED
      BY <1>1, <2>1, <2>2, <2>3, <3>1, <3>2 DEF HandleOwned
  <2>6. CASE started /\ ~Clean(o)
    <3>1. Registered' = Registered /\ cleanup'[r] = o.left /\ inner' = IF o.primary THEN inner ELSE inner \ {r}
      BY <2>2, <2>6 DEF Registered
    <3>2. \A h \in installed' : /\ h \in cleanup[r] => h \in o.left
                                /\ h = r /\ r \in inner => o.primary
      BY <2>2 DEF RemovedHandles
    <3> QED
      BY <1>1, <2>1, <2>2, <2>3, <3>1, <3>2 DEF HandleOwned
  <2> QED
    BY <2>4, <2>5, <2>6
<1> QED
  BY <1>2, <1>3, <1>4, <1>5, <1>6, <1>7, <1>8, <1>9, CallsLeaveManager DEF Next, ManagerNext, vars

LEMMA ScheduledStep == SchedulerInv /\ [Next]_vars => RegisteredIsScheduled'
<1> SUFFICES ASSUME SchedulerInv, [Next]_vars, engine' = "running"
             PROVE  RegisteredIsScheduled'
  BY DEF RegisteredIsScheduled
<1> USE DEF SchedulerInv
<1>1. /\ Made \subseteq Rec /\ Registered \subseteq Made /\ NoRec \notin Rec
      /\ cleanup \in [Rec -> SUBSET Rec]
      /\ \A r \in Registered : state[r] = "active"
  BY MadeFacts DEF JobsInv, TypeOK
<1>2. \A s \in Rec : \A h \in cleanup[s] : h \notin Registered
  BY <1>1 DEF JobsInv
<1>3. CASE Start \/ StartFails \/ Stop \/ EngineShutdown \/ StopCompletes
  <2>1. UNCHANGED <<jobs, state, op>> /\ Registered' = Registered
    BY <1>3 DEF Start, StartFails, Stop, EngineShutdown, StopCompletes, Registered
  <2>2. CASE Start
    BY <1>1, <2>1, <2>2 DEF Start, RegisteredIsScheduled
  <2>3. CASE ~Start
    <3>1. engine = "running" /\ installed' = installed /\ inner \subseteq inner'
      BY <1>3, <2>3 DEF StartFails, Stop, EngineShutdown, StopCompletes
    <3> QED
      BY <2>1, <3>1 DEF RegisteredIsScheduled
  <2> QED
    BY <2>2, <2>3
<1>4. CASE UNCHANGED manager
  BY <1>4 DEF manager, records, RegisteredIsScheduled, Registered
<1>5. ASSUME NEW n \in Name, NEW p \in Policies, Add(n, p)
      PROVE  RegisteredIsScheduled'
  <2>1. PICK r \in Rec :
          /\ NewRecord(r, n, p, r) /\ op = NoOp
          /\ \A s \in Rec \ {r} : state'[s] = state[s]
          /\ \/ ~started
             \/ started /\ Install(r) /\ UNCHANGED jobs
          /\ UNCHANGED engine
    BY <1>5, AddEffect
  <2>2. started /\ r \notin Registered /\ Registered' = Registered
    BY <1>1, <2>1, NewRecordEffect DEF EngineInv, Registered
  <2>3. \A s \in Registered : state[s] = "active" /\ s \in installed /\ s \in inner
    BY <2>1 DEF RegisteredIsScheduled, NoOp
  <2> QED
    BY <1>1, <2>1, <2>2, <2>3 DEF RegisteredIsScheduled, Install
<1>6. ASSUME NEW n \in Name, NEW p \in Policies, Replace(n, p)
      PROVE  RegisteredIsScheduled'
  <2>1. PICK r \in Rec, old \in Made :
          /\ NewRecord(r, n, p, gateOf[old]) /\ op = NoOp /\ gateOf[old] \in Made
          /\ \A s \in Rec \ {r, old} : state'[s] = state[s]
          /\ \/ ~started
             \/ started /\ state'[old] = state[old] /\ Install(r) /\ UNCHANGED jobs
          /\ UNCHANGED engine
    BY <1>6, ReplaceEffect
  <2>2. started /\ r \notin Registered /\ Registered' = Registered
    BY <1>1, <2>1, NewRecordEffect DEF EngineInv, Registered
  <2>3. \A s \in Registered : state[s] = "active" /\ s \in installed /\ s \in inner
    BY <2>1 DEF RegisteredIsScheduled, NoOp
  <2> QED
    BY <1>1, <2>1, <2>2, <2>3 DEF RegisteredIsScheduled, Install
<1>7. CASE ReplaceRemoves
  <2>1. /\ \A h \in installed : h \in installed' <=> h \notin cleanup[op.old] \cup {op.old}
        /\ inner' = inner \ {op.old} /\ op.old \in Rec
        /\ op.kind = "remove" /\ op'.kind = "commit" /\ op'.old = op.old
        /\ UNCHANGED <<engine, state>> /\ Registered' = Registered
    BY <1>1, <1>7, RemovesEffect DEF Registered
  <2> QED
    BY <1>1, <1>2, <2>1 DEF RegisteredIsScheduled
<1>8. CASE ReplaceFails
  <2>1. PICK left \in SUBSET cleanup[op.old], own, new \in BOOLEAN :
          /\ op # NoOp /\ op.kind = "remove" /\ op.old \in Made
          /\ left # {} \/ own
          /\ left # {} => own
          /\ installed' = installed \ ((cleanup[op.old] \ left)
                            \cup (IF own THEN {} ELSE {op.old})
                            \cup (IF new THEN {} ELSE {op.new}))
          /\ inner' = (inner \ {op.old, op.new}) \cup (IF own THEN {op.old} ELSE {})
          /\ \A s \in Rec \ {op.new} : state'[s] = state[s]
          /\ UNCHANGED <<engine, jobs>>
    BY <1>8, FailsEffect
  <2>2. op.new \notin Registered /\ op.old \in Rec /\ Registered' = Registered /\ own
    BY <1>1, <2>1, OpFacts DEF Registered
  <2>3. \A s \in Registered : state[s] = "active" /\ s \in installed /\ s \in inner
    BY <2>1 DEF RegisteredIsScheduled
  <2> QED
    BY <1>1, <1>2, <2>1, <2>2, <2>3 DEF RegisteredIsScheduled
<1>9. CASE Commit
  <2>1. /\ Registered' = (Registered \ {op.old}) \cup {op.new}
        /\ op.new \in inner /\ op.new \in installed /\ op.new \in Rec
        /\ state'[op.new] = "active"
        /\ \A s \in Rec \ {op.new, op.old} : state'[s] = state[s]
        /\ UNCHANGED <<engine, inner, installed>>
    BY <1>9, CommitEffect, OpFacts DEF OpInv
  <2> QED
    BY <1>1, <2>1 DEF RegisteredIsScheduled
<1>10. ASSUME NEW n \in Name, Remove(n)
       PROVE  RegisteredIsScheduled'
  <2>1. PICK r \in Made : \E o \in Removals(r) :
          /\ r = jobs[n] /\ op = NoOp
          /\ installed' = installed \ RemovedHandles(r, o)
          /\ \A s \in Rec \ {r} : state'[s] = state[s]
          /\ \/ /\ ~started \/ Clean(o)
                /\ jobs' = [jobs EXCEPT ![n] = NoRec] /\ inner' = inner \ {r}
             \/ /\ started /\ ~Clean(o)
                /\ inner' = IF o.primary THEN inner ELSE inner \ {r}
                /\ UNCHANGED <<state, jobs>>
          /\ UNCHANGED engine
    BY <1>10, RemoveEffect
  <2>2. PICK o \in Removals(r) :
          /\ installed' = installed \ RemovedHandles(r, o)
          /\ \/ /\ ~started \/ Clean(o)
                /\ jobs' = [jobs EXCEPT ![n] = NoRec] /\ inner' = inner \ {r}
             \/ /\ started /\ ~Clean(o)
                /\ inner' = IF o.primary THEN inner ELSE inner \ {r}
                /\ UNCHANGED <<state, jobs>>
    BY <2>1
  <2>3. /\ \A s \in Registered : state[s] = "active" /\ s \in installed /\ s \in inner
        /\ r \in Rec
    BY <1>1, <2>1 DEF RegisteredIsScheduled, NoOp
  <2>4. CASE /\ ~started \/ Clean(o)
             /\ jobs' = [jobs EXCEPT ![n] = NoRec] /\ inner' = inner \ {r}
    <3>1. Registered' = Registered \ {r}
      BY <2>1, <2>4, RegisteredAfter
    <3>2. RemovedHandles(r, o) \subseteq cleanup[r] \cup {r}
      BY DEF RemovedHandles
    <3>3. \A s \in Registered \ {r} : /\ s \in installed' /\ s \in inner'
                                      /\ state'[s] = "active"
      BY <1>1, <1>2, <2>1, <2>2, <2>3, <2>4, <3>2
    <3> QED
      BY <3>1, <3>3 DEF RegisteredIsScheduled
  <2>5. CASE started /\ ~Clean(o) /\ inner' = (IF o.primary THEN inner ELSE inner \ {r})
             /\ UNCHANGED <<state, jobs>>
    <3>1. Registered' = Registered /\ r \in Registered
      BY <2>1, <2>5, <2>3, MadeFacts DEF Registered
    <3>2. o.primary
      BY <2>3, <2>5, <3>1 DEF Removals, Clean
    <3>3. \A s \in Registered : s \in installed' /\ s \in inner'
      BY <1>2, <2>2, <2>3, <2>5, <3>2 DEF RemovedHandles
    <3> QED
      BY <1>1, <2>5, <3>1, <3>3 DEF RegisteredIsScheduled
  <2> QED
    BY <2>2, <2>4, <2>5
<1> QED
  BY <1>3, <1>4, <1>5, <1>6, <1>7, <1>8, <1>9, <1>10, CallsLeaveManager DEF Next, ManagerNext, vars

\* The scheduler's inductive invariant.
THEOREM SchedulerInvariant == Spec => []SchedulerInv
<1>1. Init => SchedulerInv
  <2> SUFFICES ASSUME Init
               PROVE  SchedulerInv
    OBVIOUS
  <2>1. TypeOK
    <3>1. NewGate("SkipIfRunning") \in GateState
      BY DEF NewGate, GateState, Policy, OptToken
    <3>2. (CHOOSE n \in Name : TRUE) \in Name
      BY SchedulerAssumption
    <3>3. name \in [Rec -> Name]
      BY <3>2 DEF Init
    <3>4. gates \in [Rec -> GateState] /\ policyOf \in [Rec -> Policy]
      BY <3>1 DEF Init, Policy
    <3>5. made \in 0..MaxRec /\ op \in Op
      BY SchedulerAssumption DEF Init, Op
    <3> QED
      BY <3>3, <3>4, <3>5 DEF Init, TypeOK
  <2>2. Made = {} /\ Registered = {}
    BY DEF Init, Made, Registered
  <2>3. RecordInv
    BY <2>2, TokenAssumption DEF Init, RecordInv, NewGate
  <2>4. JobsInv
    BY <2>2 DEF Init, JobsInv
  <2> QED
    BY <2>1, <2>2, <2>3, <2>4
    DEF Init, SchedulerInv, EngineInv, OpInv, HandleOwned, RegisteredIsScheduled
<1>2. SchedulerInv /\ [Next]_vars => SchedulerInv'
  BY TypeStep, RecordStep, JobsStep, EngineStep, OpStep, OwnedStep, ScheduledStep DEF SchedulerInv
<1> QED
  BY <1>1, <1>2, PTL DEF Spec

\* HandleOwned (the contract of Replace): no engine handle becomes invisible to cleanup,
\* whichever removals the engine refuses.
THEOREM HandlesOwned == Spec => []HandleOwned
BY SchedulerInvariant, PTL DEF SchedulerInv

\* CleanupIsStale (removeEngineJobsLocked): what a registered record still has to remove
\* as stale is never the engine job of a live generation.
THEOREM CleanupNeverLive == Spec => []CleanupIsStale
<1>1. SchedulerInv => CleanupIsStale
  BY DEF SchedulerInv, TypeOK, JobsInv, Registered, CleanupIsStale
<1> QED
  BY <1>1, SchedulerInvariant, PTL

\* RegisteredIsScheduled: a Replace or Remove that fails leaves the job scheduled.
THEOREM StaysScheduled == Spec => []RegisteredIsScheduled
BY SchedulerInvariant, PTL DEF SchedulerInv

\* OnlyRegisteredPass (runnable): no trigger passes for a generation that was aborted,
\* replaced or removed, or is not committed yet.
THEOREM PassRegistered == Spec => OnlyRegisteredPass
<1>1. SchedulerInv /\ [Next]_vars =>
        [\A c \in Call : pc[c] = "triggered" /\ pc'[c] = "runnable" => at[c] \in Registered]_vars
  <2> SUFFICES ASSUME SchedulerInv, Next, NEW c \in Call,
                      pc[c] = "triggered", pc'[c] = "runnable"
               PROVE  at[c] \in Registered
    OBVIOUS
  <2> USE DEF SchedulerInv
  <2>1. at[c] \in Rec
    BY MadeFacts DEF RecordInv
  <2>2. state[at[c]] = "active"
    <3>1. CASE ManagerNext
      BY <3>1 DEF ManagerNext, Start, StartFails, Stop, EngineShutdown, StopCompletes, Add, Replace,
        ReplaceRemoves, ReplaceFails, Commit, Remove, calls
    <3>2. ASSUME NEW d \in Call, CallNext(d)
          PROVE  state[at[c]] = "active"
      <4>1. d = c /\ Pass(d)
        BY <3>2 DEF CallNext, Trigger, Pass, TurnAway, EnterGate, Finish, TypeOK
      <4> QED
        BY <4>1 DEF Pass
    <3> QED
      BY <3>1, <3>2 DEF Next
  <2> QED
    BY <2>1, <2>2 DEF JobsInv
<1> QED
  BY <1>1, SchedulerInvariant, PTL DEF Spec, OnlyRegisteredPass

-----------------------------------------------------------------------------
(* Every gate is an overlap gate                                            *)

\* What goroutines execute through gate g.
Current(g) == [c \in Call |-> IF pc[c] = "running" /\ gateOf[at[c]] = g THEN at[c] ELSE NoToken]

\* OverlapGate's steps, in the scheduler's own terms.
LEMMA GateSteps ==
    ASSUME NEW g \in Rec
    PROVE  /\ gates'[g] = gates[g] /\ Current(g)' = Current(g) => UNCHANGED OG(g)!vars
           /\ \A c \in Call, t \in Token :
                /\ Current(g)[c] = NoToken /\ Admits(gates[g]) /\ gates'[g] = Admit(gates[g], t)
                /\ Current(g)' = [Current(g) EXCEPT ![c] = t]
                => OG(g)!Next
           /\ \A t \in Token :
                /\ Queues(gates[g]) /\ gates'[g] = Enqueue(gates[g], t)
                /\ Current(g)' = Current(g)
                => OG(g)!Next
           /\ \A c \in Call :
                /\ Current(g)[c] # NoToken /\ gates'[g] = Finished(gates[g], Current(g)[c])
                /\ Current(g)' = [Current(g) EXCEPT ![c] = NextExecution(gates[g], @)]
                => OG(g)!Next
           /\ \A p \in Policies :
                gates'[g] = WithPolicy(gates[g], p) /\ Current(g)' = Current(g)
                => OG(g)!Next
<1> USE DEF Current, OG!Next
<1>1. gates'[g] = gates[g] /\ Current(g)' = Current(g) => UNCHANGED OG(g)!vars
  BY DEF OG!vars
<1>2. ASSUME NEW c \in Call, NEW t \in Token,
             Current(g)[c] = NoToken, Admits(gates[g]), gates'[g] = Admit(gates[g], t),
             Current(g)' = [Current(g) EXCEPT ![c] = t]
      PROVE  OG(g)!Next
  <2>1. OG(g)!Start(c, t)
    BY <1>2 DEF OG!Start, OG!Admits, OG!Admit, Admits, Admit
  <2> QED
    BY <2>1
<1>3. ASSUME NEW t \in Token,
             Queues(gates[g]), gates'[g] = Enqueue(gates[g], t), Current(g)' = Current(g)
      PROVE  OG(g)!Next
  <2>1. OG(g)!Queue(t)
    BY <1>3 DEF OG!Queue, OG!Queues, OG!Admits, OG!Enqueue, Queues, Admits, Enqueue
  <2> QED
    BY <2>1
<1>4. ASSUME NEW c \in Call,
             Current(g)[c] # NoToken, gates'[g] = Finished(gates[g], Current(g)[c]),
             Current(g)' = [Current(g) EXCEPT ![c] = NextExecution(gates[g], @)]
      PROVE  OG(g)!Next
  <2>1. OG(g)!Finish(c)
    BY <1>4
    DEF OG!Finish, OG!Finished, OG!NextExecution, OG!Drains, OG!Successor, OG!Retire, OG!TakeOver,
        OG!Unqueue, OG!Remaining, Finished, NextExecution, Drains, Successor, Retire, TakeOver,
        Unqueue, Remaining
  <2> QED
    BY <2>1
<1>5. ASSUME NEW p \in Policies,
             gates'[g] = WithPolicy(gates[g], p), Current(g)' = Current(g)
      PROVE  OG(g)!Next
  <2>1. OG(g)!SetPolicy(p)
    BY <1>5 DEF OG!SetPolicy, OG!WithPolicy, WithPolicy
  <2> QED
    BY <2>1
<1> QED
  BY <1>1, <1>2, <1>3, <1>4, <1>5

\* A method of the manager changes no execution, and of a gate only the policy.
LEMMA ManagerGates ==
    ASSUME SchedulerInv, ManagerNext, NEW g \in Rec
    PROVE  /\ Current(g)' = Current(g)
           /\ gates'[g] = gates[g] \/ \E p \in Policies : gates'[g] = WithPolicy(gates[g], p)
<1> USE DEF SchedulerInv
<1>1. Made \subseteq Rec /\ \A c \in Call : pc[c] = "running" => at[c] \in Made
  BY MadeFacts DEF RecordInv
<1>2. ASSUME UNCHANGED <<pc, at>>, \A r \in Made : gateOf'[r] = gateOf[r]
      PROVE  Current(g)' = Current(g)
  BY <1>1, <1>2 DEF Current
<1>3. ASSUME NEW h \in Rec, NEW p \in Policies, gates' = Switched(h, p)
      PROVE  gates'[g] = gates[g] \/ \E q \in Policies : gates'[g] = WithPolicy(gates[g], q)
  BY <1>3 DEF Switched, TypeOK
<1>4. CASE Start \/ StartFails \/ Stop \/ EngineShutdown \/ StopCompletes \/ ReplaceRemoves
           \/ ReplaceFails \/ \E n \in Name : Remove(n)
  <2>1. UNCHANGED <<pc, at, gateOf, gates>>
    BY <1>4 DEF Start, StartFails, Stop, EngineShutdown, StopCompletes, ReplaceRemoves, ReplaceFails,
      Remove, records, calls
  <2> QED
    BY <1>2, <2>1
<1>5. ASSUME NEW n \in Name, NEW p \in Policies, Add(n, p)
      PROVE  /\ Current(g)' = Current(g)
             /\ gates'[g] = gates[g] \/ \E q \in Policies : gates'[g] = WithPolicy(gates[g], q)
  <2>1. PICK r \in Rec :
          /\ NewRecord(r, n, p, r)
          /\ gates'[r] = NewGate(p) /\ \A h \in Rec \ {r} : gates'[h] = gates[h]
          /\ UNCHANGED <<pc, at>>
    BY <1>5, AddEffect
  <2>2. r \notin Made /\ \A s \in Rec \ {r} : gateOf'[s] = gateOf[s]
    BY <2>1, NewRecordEffect
  <2>3. gates[r] = NewGate("SkipIfRunning")
    BY <2>2 DEF RecordInv
  <2>4. gates'[r] = WithPolicy(gates[r], p)
    <3>1. PICK v \in GateState :
            /\ v = gates[r] /\ v.active = 0 /\ v.activeToken = NoToken /\ v.queued = FALSE
            /\ v.queuedToken = NoToken /\ v.queuedHandler = NoToken
      BY <2>3 DEF NewGate, TypeOK
    <3>2. WithPolicy(v, p) =
            [policy |-> p, active |-> v.active, activeToken |-> v.activeToken, queued |-> v.queued,
             queuedToken |-> v.queuedToken, queuedHandler |-> v.queuedHandler]
      BY DEF WithPolicy, GateState
    <3>3. WithPolicy(v, p) = NewGate(p)
      BY <3>1, <3>2 DEF NewGate
    <3> QED
      BY <2>1, <3>1, <3>3
  <2> QED
    BY <1>1, <1>2, <2>1, <2>2, <2>4
<1>6. ASSUME NEW n \in Name, NEW p \in Policies, Replace(n, p)
      PROVE  /\ Current(g)' = Current(g)
             /\ gates'[g] = gates[g] \/ \E q \in Policies : gates'[g] = WithPolicy(gates[g], q)
  <2>1. PICK r \in Rec, old \in Made :
          /\ NewRecord(r, n, p, gateOf[old]) /\ gateOf[old] \in Made
          /\ gates' = Switched(gateOf[old], p) \/ gates' = gates
          /\ UNCHANGED <<pc, at>>
    BY <1>6, ReplaceEffect
  <2>2. r \notin Made /\ \A s \in Rec \ {r} : gateOf'[s] = gateOf[s]
    BY <1>1, <2>1, NewRecordEffect
  <2> QED
    BY <1>1, <1>2, <1>3, <2>1, <2>2
<1>7. CASE Commit
  <2>1. /\ gates' = Switched(gateOf[op.new], policyOf[op.new]) /\ UNCHANGED <<pc, at, gateOf>>
        /\ gateOf[op.new] \in Rec /\ policyOf[op.new] \in Policies
    BY <1>1, <1>7, CommitEffect, OpFacts DEF records
  <2> QED
    BY <1>2, <1>3, <2>1
<1> QED
  BY <1>4, <1>5, <1>6, <1>7 DEF ManagerNext

\* What a trigger does to one gate is a step of that gate, or none.
LEMMA CallGates ==
    ASSUME SchedulerInv, NEW c \in Call, CallNext(c), NEW g \in Rec
    PROVE  [OG(g)!Next]_(OG(g)!vars)
<1> USE DEF SchedulerInv
<1>1. /\ Made \subseteq Rec /\ Token = Rec /\ NoToken = NoRec /\ NoRec \notin Rec
      /\ at \in [Call -> Rec \cup {NoRec}] /\ gates \in [Rec -> GateState]
      /\ pc \in [Call -> {"idle", "triggered", "runnable", "running"}]
  BY MadeFacts, TokenAssumption DEF TypeOK
<1>2. UNCHANGED gateOf
  BY CallsLeaveManager DEF manager, records
<1>3. ASSUME pc[c] # "running" \/ gateOf[at[c]] # g,
             pc'[c] # "running" \/ gateOf[at'[c]] # g,
             \A d \in Call \ {c} : pc'[d] = pc[d] /\ at'[d] = at[d]
      PROVE  Current(g)' = Current(g)
  BY <1>2, <1>3 DEF Current
<1>4. CASE (\E r \in Rec : Trigger(c, r)) \/ Pass(c) \/ TurnAway(c)
  <2>1. /\ pc[c] # "running" /\ pc'[c] # "running" /\ gates' = gates
        /\ \A d \in Call \ {c} : pc'[d] = pc[d] /\ at'[d] = at[d]
    BY <1>1, <1>4 DEF Trigger, Pass, TurnAway
  <2> QED
    BY <1>3, <2>1, GateSteps
<1>5. CASE EnterGate(c)
  <2>1. PICK h \in Made : h = gateOf[at[c]] /\ at[c] \in Made
    BY <1>5 DEF EnterGate, RecordInv
  <2>2. /\ pc[c] = "runnable" /\ h \in Rec /\ at[c] \in Token
        /\ \A d \in Call \ {c} : pc'[d] = pc[d] /\ at'[d] = at[d]
    BY <1>1, <1>5, <2>1 DEF EnterGate
  <2>3. CASE /\ Admits(gates[h])
             /\ gates' = [gates EXCEPT ![h] = Admit(@, at[c])]
             /\ pc' = [pc EXCEPT ![c] = "running"]
             /\ UNCHANGED at
    <3>1. CASE g = h
      <4>1. Current(g)[c] = NoToken /\ gates'[g] = Admit(gates[g], at[c])
        BY <1>1, <2>2, <2>3, <3>1 DEF Current
      <4>2. Current(g)' = [Current(g) EXCEPT ![c] = at[c]]
        BY <1>1, <1>2, <2>1, <2>2, <2>3, <3>1 DEF Current
      <4> QED
        BY <2>2, <2>3, <3>1, <4>1, <4>2, GateSteps
    <3>2. CASE g # h
      <4>1. gates'[g] = gates[g] /\ Current(g)' = Current(g)
        BY <1>3, <2>1, <2>2, <2>3, <3>2
      <4> QED
        BY <4>1, GateSteps
    <3> QED
      BY <3>1, <3>2
  <2>4. CASE /\ \/ gates' = gates
                \/ Queues(gates[h]) /\ gates' = [gates EXCEPT ![h] = Enqueue(@, at[c])]
             /\ pc' = [pc EXCEPT ![c] = "idle"]
    <3>1. Current(g)' = Current(g)
      BY <1>1, <1>3, <2>2, <2>4
    <3>2. \/ gates'[g] = gates[g]
          \/ Queues(gates[g]) /\ gates'[g] = Enqueue(gates[g], at[c])
      BY <1>1, <2>4
    <3> QED
      BY <2>2, <3>1, <3>2, GateSteps
  <2> QED
    BY <1>5, <2>1, <2>3, <2>4 DEF EnterGate
<1>6. CASE Finish(c)
  <2>1. PICK h \in Made : h = gateOf[at[c]] /\ at[c] \in Made
    BY <1>6 DEF Finish, RecordInv
  <2> DEFINE next == NextExecution(gates[h], at[c])
  <2>2. /\ pc[c] = "running" /\ h \in Rec /\ at[c] \in Token
        /\ gates' = [gates EXCEPT ![h] = Finished(@, at[c])]
        /\ at' = [at EXCEPT ![c] = next]
        /\ pc' = [pc EXCEPT ![c] = IF next = NoToken THEN "idle" ELSE "running"]
    BY <1>1, <1>6, <2>1 DEF Finish
  <2>3. next # NoToken => gateOf[next] = h
    <3>1. next \in {gates[h].queuedToken, gates[h].queuedHandler, NoToken}
      BY <1>1, <2>2, GateTokens DEF Policy
    <3> QED
      BY <2>2, <3>1 DEF RecordInv
  <2> HIDE DEF next
  <2>4. /\ at'[c] = next /\ pc'[c] = IF next = NoToken THEN "idle" ELSE "running"
        /\ \A d \in Call \ {c} : pc'[d] = pc[d] /\ at'[d] = at[d]
    BY <1>1, <2>2
  <2>5. CASE g = h
    <3>1. Current(g)[c] = at[c] /\ at[c] # NoToken /\ gates'[g] = Finished(gates[g], at[c])
      BY <1>1, <2>1, <2>2, <2>5 DEF Current
    <3>2. Current(g)' = [Current(g) EXCEPT ![c] = next]
      BY <1>1, <1>2, <2>1, <2>2, <2>3, <2>4, <2>5 DEF Current
    <3>3. next = NextExecution(gates[g], Current(g)[c])
      BY <2>5, <3>1 DEF next
    <3> QED
      BY <3>1, <3>2, <3>3, GateSteps
  <2>6. CASE g # h
    <3>1. gates'[g] = gates[g] /\ Current(g)' = Current(g)
      BY <1>1, <1>3, <2>1, <2>2, <2>3, <2>4, <2>6
    <3> QED
      BY <3>1, GateSteps
  <2> QED
    BY <2>5, <2>6
<1> QED
  BY <1>4, <1>5, <1>6 DEF CallNext

\* ImplementsOverlapGate: the gate a job hands from generation to generation by Replace,
\* with stale triggers under way, takes OverlapGate's steps only.
THEOREM GatesImplemented == Spec => ImplementsOverlapGate
<1>1. SchedulerInv /\ [Next]_vars => [\A g \in Rec : [OG(g)!Next]_(OG(g)!vars)]_vars
  <2> SUFFICES ASSUME SchedulerInv, Next, NEW g \in Rec
               PROVE  [OG(g)!Next]_(OG(g)!vars)
    OBVIOUS
  <2>1. CASE ManagerNext
    BY <2>1, ManagerGates, GateSteps
  <2>2. CASE \E c \in Call : CallNext(c)
    BY <2>2, CallGates
  <2> QED
    BY <2>1, <2>2 DEF Next
<1> QED
  BY <1>1, SchedulerInvariant, PTL DEF Spec, ImplementsOverlapGate

=============================================================================
