--------------------------- MODULE LifecycleProofs ---------------------------
(***************************************************************************)
(* What the lifecycle guarantees for any number of callers and tasks.  The  *)
(* proofs rest on PhaseInv of Lifecycle.                                    *)
(***************************************************************************)
EXTENDS Lifecycle, TLAPS

-----------------------------------------------------------------------------
(* Control flow                                                             *)

\* A call that moves on or returns keeps labels, methods and results typed.
LEMMA StayTyped ==
    ASSUME FrameOK, NEW p \in Caller
    PROVE  /\ \A label \in Label : Goto(p, label) => FrameOK'
           /\ \A r \in Result : Return(p, r) => FrameOK'
<1>1. "idle" \in Label
  BY DEF Label
<1> QED
  BY <1>1 DEF FrameOK, Goto, Return

\* So does a call that begins, whether or not it returns at once.
LEMMA EnterTyped ==
    ASSUME FrameOK, NEW p \in Caller, NEW m \in Startup \cup Closing
    PROVE  /\ \A label \in Label : Enter(p, m, label) => FrameOK'
           /\ \A r \in Result : EnterReturn(p, m, r) \/ AfterBeginShutdown(p, m, r) => FrameOK'
<1>1. "stop" \in Label
  BY DEF Label
<1> QED
  BY <1>1 DEF FrameOK, Enter, EnterReturn, AfterBeginShutdown

\* What a startup phase returns is a result.
LEMMA OutcomeTyped ==
    ASSUME NEW p \in Caller, NEW err \in HookError
    PROVE  StartupOutcome(p, err) \in Result
<1>1. CASE err = "nil"
  BY <1>1 DEF StartupOutcome, Result
<1>2. CASE err # "nil"
  BY <1>2 DEF StartupOutcome, HookError, Result
<1> QED
  BY <1>1, <1>2

\* A new lifecycle is typed.
LEMMA TypeInit == Init => TypeOK
BY DEF Init, TypeOK, FrameOK, Startup, Result, Label

\* Every step of a method keeps callers' positions, methods and results typed.
LEMMA TypeStep == TypeOK /\ [Next]_vars => TypeOK'
<1> SUFFICES ASSUME TypeOK, [Next]_vars
             PROVE  TypeOK'
  OBVIOUS
<1> USE DEF TypeOK, startup, closing
<1>a. /\ {"idle", "onStart", "mark", "onStarted", "onShutdown", "stop", "onStop"} \subseteq Label
      /\ {"nil", "ctx", "canceled", "inProgress", "startupInProgress"} \subseteq Result
  BY DEF Label, Result
<1>1. ASSUME NEW p \in Caller, NEW m \in Startup, BeginStart(p, m)
      PROVE  TypeOK'
  BY <1>1, <1>a, EnterTyped DEF BeginStart
<1>2. ASSUME NEW p \in Caller, EndOnStart(p)
      PROVE  TypeOK'
  BY <1>2, <1>a, StayTyped, OutcomeTyped DEF EndOnStart
<1>3. ASSUME NEW p \in Caller, MarkStarted(p)
      PROVE  TypeOK'
  BY <1>3, <1>a, StayTyped DEF MarkStarted
<1>4. ASSUME NEW p \in Caller, EndOnStarted(p)
      PROVE  TypeOK'
  BY <1>4, <1>a, StayTyped, OutcomeTyped DEF EndOnStarted
<1>5. ASSUME NEW p \in Caller, NEW m \in Closing, BeginShutdown(p, m)
      PROVE  TypeOK'
  BY <1>5, <1>a, EnterTyped DEF BeginShutdown
<1>6. ASSUME NEW p \in Caller, EndOnShutdown(p)
      PROVE  TypeOK'
  <2>1. HookError \subseteq Result
    BY DEF HookError, Result
  <2>2. FrameOK'
    BY <1>6, <1>a, <2>1 DEF EndOnShutdown, FrameOK
  <2> QED
    BY <1>6, <2>1, <2>2 DEF EndOnShutdown
<1>7. ASSUME NEW p \in Caller, Stop(p)
      PROVE  TypeOK'
  <2>1. result[p] \in Result
    BY DEF FrameOK
  <2> QED
    BY <1>7, <1>a, <2>1, StayTyped DEF Stop
<1>8. ASSUME NEW p \in Caller, EndOnStop(p)
      PROVE  TypeOK'
  <2>1. result[p] \in Result
    BY DEF FrameOK
  <2>2. HookError \subseteq Result
    BY DEF HookError, Result
  <2> QED
    BY <1>8, <1>a, <2>1, <2>2, StayTyped DEF EndOnStop
<1>9. ASSUME NEW p \in Caller, Expire(p) \/ NewContext(p)
      PROVE  TypeOK'
  BY <1>9 DEF Expire, NewContext, FrameOK, frame
<1>10. ASSUME NEW t \in Task, Go(t) \/ TaskFinished(t)
       PROVE  TypeOK'
  BY <1>10 DEF Go, TaskFinished, FrameOK, frame
<1>11. CASE UNCHANGED vars
  BY <1>11 DEF vars, FrameOK, frame
<1> QED
  BY <1>1, <1>2, <1>3, <1>4, <1>5, <1>6, <1>7, <1>8, <1>9, <1>10, <1>11 DEF Next, Step

\* Callers keep their positions, methods and results within their types through
\* every method, and the phase flags stay Boolean.
THEOREM TypeCorrect == Spec => []TypeOK
BY TypeInit, TypeStep, PTL DEF Spec

-----------------------------------------------------------------------------
(* The phases                                                               *)

\* Every step keeps the flags of the four phases apart.
LEMMA PhaseStep == PhaseInv /\ TypeOK' /\ [Next]_vars => PhaseInv'
<1> SUFFICES ASSUME PhaseInv, TypeOK', [Next]_vars
             PROVE  PhaseInv'
  OBVIOUS
<1> USE DEF PhaseInv, OneRunner, PhasesExclusive, In, TypeOK, FrameOK, startup, closing
<1>1. ASSUME NEW p \in Caller, NEW m \in Startup, BeginStart(p, m)
      PROVE  PhaseInv'
  BY <1>1 DEF BeginStart, Enter, EnterReturn, ClosingRequested
<1>2. ASSUME NEW p \in Caller, EndOnStart(p)
      PROVE  PhaseInv'
  BY <1>2 DEF EndOnStart, StartupOutcome, Goto, Return, ClosingRequested
<1>3. ASSUME NEW p \in Caller, MarkStarted(p)
      PROVE  PhaseInv'
  BY <1>3 DEF MarkStarted, Goto, Return, ClosingRequested
<1>4. ASSUME NEW p \in Caller, EndOnStarted(p)
      PROVE  PhaseInv'
  BY <1>4 DEF EndOnStarted, StartupOutcome, Return, ClosingRequested
<1>5. ASSUME NEW p \in Caller, NEW m \in Closing, BeginShutdown(p, m)
      PROVE  PhaseInv'
  <2>1. CASE UNCHANGED shutdownRunning
    <3>1. UNCHANGED shutdownOnce \/ shutdownOnce'
      BY <1>5 DEF BeginShutdown
    <3>2. \/ pc' = pc
          \/ pc[p] = "idle" /\ pc' = [pc EXCEPT ![p] = "stop"] /\ shutdownHooksRun
      BY <1>5, <2>1 DEF BeginShutdown, AfterBeginShutdown, PhaseInProgress, StartupActive,
                        Enter, EnterReturn
    <3> QED
      BY <1>5, <2>1, <3>1, <3>2 DEF BeginShutdown, StartupActive
  <2>2. CASE ~UNCHANGED shutdownRunning
    BY <1>5, <2>2 DEF BeginShutdown, StartupActive, Enter
  <2> QED
    BY <2>1, <2>2
<1>6. ASSUME NEW p \in Caller, EndOnShutdown(p)
      PROVE  PhaseInv'
  BY <1>6 DEF EndOnShutdown
<1>7. ASSUME NEW p \in Caller, Stop(p)
      PROVE  PhaseInv'
  BY <1>7 DEF Stop, Goto, Return
<1>8. ASSUME NEW p \in Caller, EndOnStop(p)
      PROVE  PhaseInv'
  BY <1>8 DEF EndOnStop, Return
<1>9. ASSUME NEW p \in Caller, Expire(p) \/ NewContext(p)
      PROVE  PhaseInv'
  BY <1>9 DEF Expire, NewContext, frame
<1>10. ASSUME NEW t \in Task, Go(t) \/ TaskFinished(t)
       PROVE  PhaseInv'
  BY <1>10 DEF Go, TaskFinished, frame
<1>11. CASE UNCHANGED vars
  BY <1>11 DEF vars, frame
<1> QED
  BY <1>1, <1>2, <1>3, <1>4, <1>5, <1>6, <1>7, <1>8, <1>9, <1>10, <1>11 DEF Next, Step

\* A new lifecycle is in no phase.
LEMMA PhaseInit == Init => PhaseInv
BY TypeInit DEF Init, PhaseInv, OneRunner, PhasesExclusive, In

\* The flags of the four phases exclude one another as PhaseInv says, whoever
\* calls what, however hooks end and whenever contexts expire.
THEOREM PhaseInvariant == Spec => []PhaseInv
BY PhaseInit, PhaseStep, TypeCorrect, PTL DEF Spec

\* Startup hooks never run beside shutdown or stop hooks.
THEOREM Exclusion == Spec => []PhasesExclusive
<1>1. PhaseInv => PhasesExclusive
  BY DEF PhaseInv
<1> QED
  BY <1>1, PhaseInvariant, PTL

\* A phase has one runner, and exactly while its flag is up.
THEOREM SingleRunner == Spec => []OneRunner
<1>1. PhaseInv => OneRunner
  BY DEF PhaseInv
<1> QED
  BY <1>1, PhaseInvariant, PTL

\* After shutdown was requested startup neither begins nor succeeds, and no task
\* is added.
THEOREM FinalRequest == Spec => RequestIsFinal
<1> DEFINE Final ==
      shutdownOnce =>
         /\ \A p \in Caller : pc'[p] \in {"onStart", "onStarted"} => pc[p] = pc'[p]
         /\ startHooksRun' => startHooksRun
         /\ started' => started
         /\ tasks' \subseteq tasks
<1>1. TypeOK /\ [Next]_vars => [Final]_vars
  <2> SUFFICES ASSUME TypeOK, Next, shutdownOnce
               PROVE  Final
    BY DEF vars
  <2> USE DEF TypeOK, FrameOK, startup, closing
  <2>1. ASSUME NEW p \in Caller, NEW m \in Startup, BeginStart(p, m)
        PROVE  Final
    BY <2>1 DEF BeginStart, Enter, EnterReturn, ClosingRequested
  <2>2. ASSUME NEW p \in Caller, EndOnStart(p)
        PROVE  Final
    BY <2>2 DEF EndOnStart, StartupOutcome, Goto, Return, ClosingRequested
  <2>3. ASSUME NEW p \in Caller, MarkStarted(p)
        PROVE  Final
    BY <2>3 DEF MarkStarted, Goto, Return, ClosingRequested
  <2>4. ASSUME NEW p \in Caller, EndOnStarted(p)
        PROVE  Final
    BY <2>4 DEF EndOnStarted, StartupOutcome, Return, ClosingRequested
  <2>5. ASSUME NEW p \in Caller, NEW m \in Closing, BeginShutdown(p, m)
        PROVE  Final
    BY <2>5 DEF BeginShutdown, AfterBeginShutdown, StartupActive, Enter, EnterReturn
  <2>6. ASSUME NEW p \in Caller, EndOnShutdown(p)
        PROVE  Final
    BY <2>6 DEF EndOnShutdown
  <2>7. ASSUME NEW p \in Caller, Stop(p)
        PROVE  Final
    BY <2>7 DEF Stop, Goto, Return
  <2>8. ASSUME NEW p \in Caller, EndOnStop(p)
        PROVE  Final
    BY <2>8 DEF EndOnStop, Return
  <2>9. ASSUME NEW p \in Caller, Expire(p) \/ NewContext(p)
        PROVE  Final
    BY <2>9 DEF Expire, NewContext, frame
  <2>10. ASSUME NEW t \in Task, Go(t) \/ TaskFinished(t)
         PROVE  Final
    BY <2>10 DEF Go, TaskFinished, frame, ClosingRequested
  <2> QED
    BY <2>1, <2>2, <2>3, <2>4, <2>5, <2>6, <2>7, <2>8, <2>9, <2>10 DEF Next, Step
<1> QED
  BY <1>1, TypeCorrect, PTL DEF Spec, RequestIsFinal

\* OnShutdown hooks run once, and OnStop hooks once and after them.
THEOREM ClosingOnce == Spec => ClosingOnceInOrder
<1> DEFINE InOrder ==
      /\ shutdownHooksRun => shutdownHooksRun'
      /\ shutdown => shutdown'
      /\ \A p \in Caller :
           /\ pc[p] = "onShutdown" /\ pc'[p] # "onShutdown" => shutdownHooksRun'
           /\ pc[p] # "onShutdown" /\ pc'[p] = "onShutdown" => ~shutdownHooksRun
           /\ pc[p] = "onStop" /\ pc'[p] # "onStop" => shutdown'
           /\ pc[p] # "onStop" /\ pc'[p] = "onStop" => shutdownHooksRun /\ ~shutdown
<1>1. PhaseInv /\ [Next]_vars => [InOrder]_vars
  <2> SUFFICES ASSUME PhaseInv, Next
               PROVE  InOrder
    BY DEF vars
  <2> USE DEF PhaseInv, TypeOK, FrameOK, startup, closing
  <2>1. ASSUME NEW p \in Caller, NEW m \in Startup, BeginStart(p, m)
        PROVE  InOrder
    BY <2>1 DEF BeginStart, Enter, EnterReturn
  <2>2. ASSUME NEW p \in Caller,
               EndOnStart(p) \/ MarkStarted(p) \/ EndOnStarted(p) \/ EndOnStop(p)
        PROVE  InOrder
    BY <2>2 DEF EndOnStart, MarkStarted, EndOnStarted, EndOnStop, Goto, Return
  <2>3. ASSUME NEW p \in Caller, NEW m \in Closing, BeginShutdown(p, m)
        PROVE  InOrder
    BY <2>3 DEF BeginShutdown, AfterBeginShutdown, Enter, EnterReturn
  <2>4. ASSUME NEW p \in Caller, EndOnShutdown(p)
        PROVE  InOrder
    BY <2>4 DEF EndOnShutdown
  <2>5. ASSUME NEW p \in Caller, Stop(p)
        PROVE  InOrder
    BY <2>5 DEF Stop, Goto, Return, In
  <2>6. ASSUME UNCHANGED <<frame, closing>>
        PROVE  InOrder
    BY <2>6 DEF frame
  <2>7. ASSUME NEW p \in Caller, Expire(p) \/ NewContext(p)
        PROVE  UNCHANGED <<frame, closing>>
    BY <2>7 DEF Expire, NewContext
  <2>8. ASSUME NEW t \in Task, Go(t) \/ TaskFinished(t)
        PROVE  UNCHANGED <<frame, closing>>
    BY <2>8 DEF Go, TaskFinished
  <2> QED
    BY <2>1, <2>2, <2>3, <2>4, <2>5, <2>6, <2>7, <2>8 DEF Next, Step
<1> QED
  BY <1>1, PhaseInvariant, PTL DEF Spec, ClosingOnceInOrder

=============================================================================
