------------------------- MODULE TemplateManagerProofs -------------------------
(***************************************************************************)
(* What the template manager guarantees for any number of goroutines, roots *)
(* and functions.  The proofs rest on TemplateInv of TemplateManager: who   *)
(* holds updateMu, and what its holder has parsed.                          *)
(***************************************************************************)
EXTENDS TemplateManager, TLAPS

-----------------------------------------------------------------------------
(* Lemmas                                                                   *)

\* What a method parses is a snapshot of a root and of functions the manager
\* knows, once its argument is one.
LEMMA WantedTyped ==
    ASSUME TypeOK, TargetInv, NEW p \in Proc, pc[p] # "idle"
    PROVE  /\ Wanted(p).root \in Root \cup {NoRoot}
           /\ Wanted(p).functions \subseteq Func
BY DEF TypeOK, TargetInv, Wanted

\* The holder is the one goroutine that holds.
LEMMA OneHolder ==
    ASSUME MutexInv, NEW p \in Proc, NEW q \in Proc, Holds(p), Holds(q)
    PROVE  p = q
BY DEF MutexInv

\* While one goroutine holds updateMu at a place where no loop is stopping, no
\* other can be waiting for a loop.
LEMMA NoLoopStopping ==
    ASSUME MutexInv, LoopInv, NEW p \in Proc, pc[p] \in {"locked", "parsed"}
    PROVE  oldLoop = "none"
BY OneHolder DEF LoopInv, Holds

\* Every variable of the manager and of its callers stays within its type.
LEMMA TypeStep ==
    ASSUME TemplateInv, [Next]_vars
    PROVE  TypeOK'
<1> USE DEF TemplateInv, TypeOK
<1>1. ASSUME NEW p \in Proc, NEW m \in Method,
             NEW arg \in Root \cup Func \cup {NoRoot}, Begin(p, m, arg)
      PROVE  TypeOK'
  BY <1>1 DEF Begin, Goto, fields, watching
<1>2. ASSUME NEW p \in Proc, Lock(p)
      PROVE  TypeOK'
  BY <1>2 DEF Lock, Acquire, Goto, fields, watching
<1>3. ASSUME NEW p \in Proc, Parse(p)
      PROVE  TypeOK'
  <2>1. Wanted(p).root \in Root /\ Wanted(p).functions \subseteq Func
    BY <1>3, WantedTyped DEF Parse
  <2>2. [root |-> Wanted(p).root, functions |-> Wanted(p).functions,
         version |-> disk[Wanted(p).root]] \in Snapshot
    BY <2>1 DEF Snapshot
  <2>3. parsed' \in [Proc -> Snapshot \cup {NoCache}]
    BY <1>3, <2>2 DEF Parse
  <2> QED
    BY <1>3, <2>3 DEF Parse, Goto, fields, watching
<1>4. ASSUME NEW p \in Proc, Fail(p)
      PROVE  TypeOK'
  BY <1>4 DEF Fail, Goto, Unlock, fields, watching
<1>5. ASSUME NEW p \in Proc, Publish(p)
      PROVE  TypeOK'
  <2>1. parsed[p] \in Snapshot /\ parsed[p].functions \subseteq Func
    BY <1>5 DEF Publish, ParsedInv, Snapshot
  <2>2. method[p] = "AddFunc" => target[p] \in Func
    BY <1>5 DEF Publish, TargetInv
  <2>3. Unlock(p) => updateMu' \in Proc \cup {Nobody}
    BY DEF Unlock
  <2> QED
    BY <1>5, <2>1, <2>2, <2>3 DEF Publish, Goto, watching
<1>6. ASSUME NEW p \in Proc, AddFuncOnly(p)
      PROVE  TypeOK'
  <2>1. target[p] \in Func
    BY <1>6 DEF AddFuncOnly, TargetInv
  <2> QED
    BY <1>6, <2>1 DEF AddFuncOnly, Goto, Unlock, watching
<1>7. ASSUME NEW p \in Proc, Reread(p)
      PROVE  TypeOK'
  BY <1>7 DEF Reread, Goto, fields, watching
<1>8. ASSUME NEW p \in Proc, StopWatcher(p)
      PROVE  TypeOK'
  BY <1>8 DEF StopWatcher, Goto, fields
<1>9. ASSUME NEW p \in Proc, PublishRoot(p)
      PROVE  TypeOK'
  <2>1. parsed[p] \in Snapshot /\ parsed[p].root \in Root
    BY <1>9 DEF PublishRoot, ParsedInv, Snapshot
  <2> QED
    BY <1>9, <2>1 DEF PublishRoot, Goto, Unlock
<1>10. ASSUME NEW p \in Proc, Closed(p)
       PROVE  TypeOK'
  BY <1>10 DEF Closed, Goto, Unlock, fields, watching
<1>11. CASE Invalidate \/ HandleEvent \/ HandleLast
  BY <1>11 DEF Invalidate, HandleEvent, HandleLast, Dropped, watching, calls
<1>12. ASSUME NEW r \in Root, Edit(r)
       PROVE  TypeOK'
  BY <1>12 DEF Edit, fields, calls
<1>13. CASE Event \/ LoopEnds \/ UNCHANGED vars
  BY <1>13 DEF Event, LoopEnds, vars, fields, watching, calls
<1> QED
  BY <1>1, <1>2, <1>3, <1>4, <1>5, <1>6, <1>7, <1>8, <1>9, <1>10, <1>11, <1>12, <1>13
  DEF Next, CallNext, Execute, Method

-----------------------------------------------------------------------------
(* The parts of the invariant                                               *)

\* What the watch loop and the file system do leaves the calls, the lock and the
\* manager's root and functions alone; they drop snapshots only.
Quiet ==
    /\ UNCHANGED <<calls, updateMu, root, functions, added>>
    /\ templates' \in {templates, NoCache}

\* A call begins with an argument its method can use.
Begins(p) ==
    \/ \E m \in {"Reload", "Close", "Execute"} : Begin(p, m, NoRoot)
    \/ \E r \in Root : Begin(p, "SetRoot", r)
    \/ \E f \in Func : Begin(p, "AddFunc", f)

\* Every step begins a call, is one of a call, or is quiet.
LEMMA StepCases ==
    ASSUME [Next]_vars
    PROVE  (\E p \in Proc : Begins(p) \/ CallNext(p)) \/ Quiet
BY DEF Begins, Quiet, Next, Execute, Invalidate, HandleEvent, HandleLast, Dropped, Edit,
       Event, LoopEnds, vars, fields, calls

\* updateMu has one holder after every step: it is taken when free and given
\* back where the method ends.
LEMMA MutexStep ==
    ASSUME TemplateInv, [Next]_vars
    PROVE  MutexInv'
<1> USE DEF TemplateInv, TypeOK, MutexInv, Holds
<1>1. ASSUME NEW p \in Proc, Begins(p)
      PROVE  MutexInv'
  BY <1>1 DEF Begins, Begin, Goto
<1>2. ASSUME NEW p \in Proc, Lock(p)
      PROVE  MutexInv'
  BY <1>2, NobodyAssumption DEF Lock, Acquire, Goto
<1>3. ASSUME NEW p \in Proc, Parse(p) \/ Reread(p) \/ StopWatcher(p)
      PROVE  MutexInv'
  BY <1>3 DEF Parse, Reread, StopWatcher, Goto
<1>4. ASSUME NEW p \in Proc,
             Fail(p) \/ Publish(p) \/ AddFuncOnly(p) \/ PublishRoot(p) \/ Closed(p)
      PROVE  MutexInv'
  <2>1. updateMu = p /\ updateMu' = Nobody
    BY <1>4 DEF Fail, Publish, AddFuncOnly, PublishRoot, Closed, Unlock
  <2>2. \E label \in {"idle", "reread"} : pc' = [pc EXCEPT ![p] = label]
    BY <1>4 DEF Fail, Publish, AddFuncOnly, PublishRoot, Closed, Goto
  <2> QED
    BY <2>1, <2>2, NobodyAssumption
<1>5. CASE Quiet
  BY <1>5 DEF Quiet, calls
<1> QED
  BY <1>1, <1>2, <1>3, <1>4, <1>5, StepCases DEF CallNext

\* A method keeps its argument while it runs.
LEMMA TargetStep ==
    ASSUME TemplateInv, [Next]_vars
    PROVE  TargetInv'
<1> USE DEF TemplateInv, TypeOK, TargetInv
<1>1. ASSUME NEW p \in Proc, NEW r \in Root, Begin(p, "SetRoot", r)
      PROVE  TargetInv'
  BY <1>1 DEF Begin, Goto, Method
<1>2. ASSUME NEW p \in Proc, NEW f \in Func, Begin(p, "AddFunc", f)
      PROVE  TargetInv'
  BY <1>2 DEF Begin, Goto, Method
<1>3. ASSUME NEW p \in Proc, NEW m \in {"Reload", "Close", "Execute"}, Begin(p, m, NoRoot)
      PROVE  TargetInv'
  BY <1>3 DEF Begin, Goto, Method
<1>4. ASSUME NEW p \in Proc, CallNext(p)
      PROVE  TargetInv'
  <2>1. UNCHANGED <<method, target>>
    BY <1>4 DEF CallNext, Lock, Parse, Fail, Publish, AddFuncOnly, Reread, StopWatcher,
                PublishRoot, Closed
  <2>2. pc[p] # "idle" /\ \A q \in Proc : q # p => pc'[q] = pc[q]
    BY <1>4 DEF CallNext, Lock, Parse, Fail, Publish, AddFuncOnly, Reread, StopWatcher,
                PublishRoot, Closed, Goto
  <2> QED
    BY <2>1, <2>2
<1>5. CASE Quiet
  BY <1>5 DEF Quiet, calls
<1> QED
  BY <1>1, <1>2, <1>3, <1>4, <1>5, StepCases DEF Begins

\* Root and functions change in the hands of the holder of updateMu only, so what
\* another goroutine parsed cannot be outdated: there is no such other goroutine.
LEMMA ParsedStep ==
    ASSUME TemplateInv, [Next]_vars
    PROVE  ParsedInv'
<1> USE DEF TemplateInv, TypeOK, ParsedInv
<1>1. ASSUME NEW p \in Proc, Begins(p)
      PROVE  ParsedInv'
  <2>1. \A q \in Proc : q # p => /\ pc'[q] = pc[q] /\ method'[q] = method[q]
                                 /\ Wanted(q)' = Wanted(q)
    BY <1>1 DEF Begins, Begin, Goto, Wanted, fields
  <2>2. pc'[p] = "lock" /\ parsed' = parsed
    BY <1>1 DEF Begins, Begin, Goto
  <2> QED
    BY <2>1, <2>2
<1>2. ASSUME NEW p \in Proc, Lock(p) \/ Reread(p)
      PROVE  ParsedInv'
  BY <1>2 DEF Lock, Reread, Goto, Wanted, fields
<1>3. ASSUME NEW p \in Proc, Parse(p)
      PROVE  ParsedInv'
  <2>1. Wanted(p).root \in Root /\ Wanted(p).functions \subseteq Func
    BY <1>3, WantedTyped DEF Parse
  <2>2. parsed'[p] \in Snapshot
    BY <1>3, <2>1 DEF Parse, Snapshot
  <2>3. parsed'[p].root = Wanted(p).root /\ parsed'[p].functions = Wanted(p).functions
    BY <1>3 DEF Parse
  <2>4. \A q \in Proc : Wanted(q)' = Wanted(q)
    BY <1>3 DEF Parse, Wanted, fields
  <2>5. \A q \in Proc : q # p => pc'[q] = pc[q] /\ parsed'[q] = parsed[q]
    BY <1>3 DEF Parse, Goto
  <2>6. method' = method /\ pc'[p] = "parsed" /\ method[p] # "Close"
    BY <1>3 DEF Parse, Goto
  <2> QED
    BY <2>2, <2>3, <2>4, <2>5, <2>6
<1>4. ASSUME NEW p \in Proc, StopWatcher(p)
      PROVE  ParsedInv'
  <2>1. \A q \in Proc : Wanted(q)' = Wanted(q)
    BY <1>4 DEF StopWatcher, Wanted, fields
  <2> QED
    BY <1>4, <2>1 DEF StopWatcher, Goto
<1>5. ASSUME NEW p \in Proc,
             Fail(p) \/ Publish(p) \/ AddFuncOnly(p) \/ PublishRoot(p) \/ Closed(p)
      PROVE  ParsedInv'
  <2>1. Holds(p)
    BY <1>5 DEF Fail, Publish, AddFuncOnly, PublishRoot, Closed, Holds
  <2>2. \A q \in Proc : q # p => pc'[q] = pc[q] /\ ~Holds(q)
    BY <1>5, <2>1, OneHolder DEF Fail, Publish, AddFuncOnly, PublishRoot, Closed, Goto
  <2>3. pc'[p] \notin {"parsed", "joining"}
    BY <1>5 DEF Fail, Publish, AddFuncOnly, PublishRoot, Closed, Goto
  <2> QED
    BY <2>2, <2>3 DEF Holds
<1>6. CASE Quiet
  BY <1>6 DEF Quiet, calls, Wanted
<1> QED
  BY <1>1, <1>2, <1>3, <1>4, <1>5, <1>6, StepCases DEF CallNext

\* A loop told to stop goes on only while a goroutine waits for it.
LEMMA LoopStep ==
    ASSUME TemplateInv, [Next]_vars
    PROVE  LoopInv'
<1> USE DEF TemplateInv, TypeOK, LoopInv
<1>1. ASSUME NEW p \in Proc, Begins(p)
      PROVE  LoopInv'
  <2>1. UNCHANGED <<watcher, loop, oldLoop>>
    BY <1>1 DEF Begins, Begin, watching
  <2>2. \A q \in Proc : pc[q] = "joining" => pc'[q] = "joining"
    BY <1>1 DEF Begins, Begin, Goto
  <2> QED
    BY <2>1, <2>2
<1>2. ASSUME NEW p \in Proc, CallNext(p), ~StopWatcher(p), ~PublishRoot(p), ~Closed(p)
      PROVE  LoopInv'
  <2>1. UNCHANGED <<watcher, loop, oldLoop>>
    BY <1>2 DEF CallNext, Lock, Parse, Fail, Publish, AddFuncOnly, Reread, watching
  <2>2. \A q \in Proc : pc[q] = "joining" => pc'[q] = "joining"
    BY <1>2 DEF CallNext, Lock, Parse, Fail, Publish, AddFuncOnly, Reread, Goto
  <2> QED
    BY <2>1, <2>2
<1>3. ASSUME NEW p \in Proc, StopWatcher(p)
      PROVE  LoopInv'
  BY <1>3 DEF StopWatcher, Goto
<1>4. ASSUME NEW p \in Proc, PublishRoot(p) \/ Closed(p)
      PROVE  LoopInv'
  BY <1>4 DEF PublishRoot, Closed, Joined, watching
<1>5. CASE Invalidate \/ (\E r \in Root : Edit(r)) \/ Event \/ HandleEvent \/ HandleLast
            \/ LoopEnds \/ UNCHANGED vars
  BY <1>5 DEF Invalidate, Edit, Event, HandleEvent, HandleLast, LoopEnds, vars, watching, calls
<1> QED
  BY <1>1, <1>2, <1>3, <1>4, <1>5 DEF Next, Execute, Begins

\* The snapshot follows root and functions through every step.
LEMMA SnapshotStep ==
    ASSUME TemplateInv, [Next]_vars
    PROVE  SnapshotMatches'
<1> USE DEF TemplateInv, TypeOK, SnapshotMatches
<1>1. ASSUME NEW p \in Proc, Publish(p)
      PROVE  SnapshotMatches'
  BY <1>1 DEF Publish, ParsedInv, Wanted, Snapshot
<1>2. ASSUME NEW p \in Proc, AddFuncOnly(p)
      PROVE  SnapshotMatches'
  <2>1. templates = NoCache
    BY <1>2, RootAssumption DEF AddFuncOnly, Unrooted, Snapshot
  <2> QED
    BY <1>2, <2>1 DEF AddFuncOnly
<1>3. ASSUME NEW p \in Proc, PublishRoot(p)
      PROVE  SnapshotMatches'
  BY <1>3 DEF PublishRoot, ParsedInv, Wanted
<1>4. ASSUME NEW p \in Proc, Begins(p)
      PROVE  SnapshotMatches'
  BY <1>4 DEF Begins, Begin, fields
<1>5. ASSUME NEW p \in Proc,
             Lock(p) \/ Parse(p) \/ Fail(p) \/ Reread(p) \/ StopWatcher(p) \/ Closed(p)
      PROVE  SnapshotMatches'
  BY <1>5 DEF Lock, Parse, Fail, Reread, StopWatcher, Closed, fields
<1>6. CASE Quiet
  BY <1>6 DEF Quiet
<1> QED
  BY <1>1, <1>2, <1>3, <1>4, <1>5, <1>6, StepCases DEF CallNext

\* No step takes a function away.
LEMMA FunctionsStep ==
    ASSUME TemplateInv, [Next]_vars
    PROVE  FunctionsKept'
<1> USE DEF TemplateInv, TypeOK, FunctionsKept
<1>1. ASSUME NEW p \in Proc, Publish(p)
      PROVE  FunctionsKept'
  BY <1>1 DEF Publish, ParsedInv, Wanted
<1>2. ASSUME NEW p \in Proc, AddFuncOnly(p)
      PROVE  FunctionsKept'
  BY <1>2 DEF AddFuncOnly
<1>3. ASSUME NEW p \in Proc, CallNext(p), ~Publish(p), ~AddFuncOnly(p)
      PROVE  FunctionsKept'
  BY <1>3 DEF CallNext, Lock, Parse, Fail, Reread, StopWatcher, PublishRoot, Closed, fields
<1>4. ASSUME NEW p \in Proc, Begins(p)
      PROVE  FunctionsKept'
  BY <1>4 DEF Begins, Begin, fields
<1>5. CASE Quiet
  BY <1>5 DEF Quiet
<1> QED
  BY <1>1, <1>2, <1>3, <1>4, <1>5, StepCases

-----------------------------------------------------------------------------
(* Theorems                                                                 *)

\* updateMu keeps what its holder parsed current, and the join keeps the old watch
\* loop apart from its successor, in every behaviour (updateMu, stopWatcherUnlocked).
THEOREM TemplateInvariant == Spec => []TemplateInv
<1>1. Init => TemplateInv
  <2>1. Init => TypeOK
    <3> SUFFICES ASSUME Init PROVE TypeOK
      OBVIOUS
    <3>1. disk \in [Root -> Nat]
      BY DEF Init
    <3>2. pc \in [Proc -> {"idle", "lock", "locked", "parsed", "joining", "reread", "panicked"}]
      BY DEF Init
    <3>3. /\ method \in [Proc -> Method]
          /\ target \in [Proc -> Root \cup Func \cup {NoRoot}]
          /\ parsed \in [Proc -> Snapshot \cup {NoCache}]
      BY DEF Init, Method
    <3> QED
      BY <3>1, <3>2, <3>3 DEF Init, TypeOK
  <2>2. Init => MutexInv
    BY NobodyAssumption DEF Init, MutexInv, Holds
  <2>3. Init => SnapshotMatches /\ FunctionsKept /\ TargetInv /\ ParsedInv /\ LoopInv
    BY DEF Init, SnapshotMatches, FunctionsKept, TargetInv, ParsedInv, LoopInv
  <2> QED
    BY <2>1, <2>2, <2>3 DEF TemplateInv
<1>2. TemplateInv /\ [Next]_vars => TemplateInv'
  BY TypeStep, MutexStep, TargetStep, ParsedStep, LoopStep, SnapshotStep, FunctionsStep
  DEF TemplateInv
<1> QED
  BY <1>1, <1>2, PTL DEF Spec

\* The snapshot Execute serves was parsed from the manager's root with all its
\* functions: SetRoot, AddFunc and Reload do not overtake each other.
THEOREM SnapshotCurrent == Spec => []SnapshotMatches
<1>1. TemplateInv => SnapshotMatches
  BY DEF TemplateInv
<1> QED
  BY <1>1, TemplateInvariant, PTL

\* A function whose AddFunc returned nil is never lost to a concurrent update.
THEOREM FunctionsStay == Spec => []FunctionsKept
<1>1. TemplateInv => FunctionsKept
  BY DEF TemplateInv
<1> QED
  BY <1>1, TemplateInvariant, PTL

\* A watch loop that SetRoot or Close stopped drops no snapshot of its successor.
THEOREM StoppedLoopHarmless == Spec => DropsAreCurrent
<1>1. TemplateInv /\ [Next]_vars
        => [HandleLast /\ templates # NoCache => watcher = NoRoot]_vars
  BY DEF TemplateInv, LoopInv, HandleLast
<1> QED
  BY <1>1, TemplateInvariant, PTL DEF Spec, DropsAreCurrent

=============================================================================
