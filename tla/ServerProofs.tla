----------------------------- MODULE ServerProofs -----------------------------
(***************************************************************************)
(* What the server guarantees for any number of goroutines, tasks and       *)
(* requests: cleanup attempts exclude one another (whatever the lifecycle   *)
(* answers); the server implements the lifecycle's specification, so that   *)
(* what LifecycleProofs proves holds of the lifecycle in it; OnStop hooks   *)
(* run after everything has drained; and a Shutdown that reports no error   *)
(* has done its work.  The last section is about what comes after such a    *)
(* server, the processes of a graceful restart: the address stays served,   *)
(* and a process has one living replacement.                                *)
(***************************************************************************)
EXTENDS Server, Restart, TLAPS

LP == INSTANCE LifecycleProofs

-----------------------------------------------------------------------------
(* One cleanup at a time                                                    *)

\* A step that moves one caller between places outside the cleanup, or along it,
\* leaves the attempt with its leader.
LEMMA MovesKeep ==
    ASSUME CleanupInv, NEW p \in Caller, NEW label \in Label, Goto(p, label),
           label \in Cleanup <=> at[p] \in Cleanup, UNCHANGED leader
    PROVE  CleanupInv'
BY DEF CleanupInv, OneCleanup, Goto

\* The labels a caller is sent to.
LEMMA Labels ==
    /\ {"idle", "returned", "start", "starting", "listen", "await", "mark", "marking",
        "serving", "unwind", "shutdown", "closing", "follow", "joined", "http", "drain",
        "jobs", "tasks", "stopping"} \subseteq Label
    /\ {"http", "drain", "jobs", "tasks", "stopping"} \subseteq Cleanup
    /\ \A label \in {"idle", "returned", "start", "starting", "listen", "await", "mark",
                     "marking", "serving", "unwind", "shutdown", "closing", "follow",
                     "joined"} : label \notin Cleanup
    /\ \A p \in Caller : Home(p) \in {"idle", "returned"}
BY DEF Label, RunLabel, ShutdownLabel, Cleanup, Home

\* A Shutdown that returns without leading leaves the cleanup as it was.
LEMMA ReturnKeeps ==
    ASSUME CleanupInv, NEW p \in Caller, NEW good, at[p] \notin Cleanup, Return(p, good),
           UNCHANGED leader
    PROVE  CleanupInv'
BY MovesKeep, Labels DEF Return

\* At most one caller at a time is in shutdownResources, the leader of the active
\* attempt (beginShutdownCleanupAttempt, finishShutdownCleanupAttempt).
THEOREM CleanupInvariant == Spec => []CleanupInv
<1>1. Init => CleanupInv
  BY Labels, CallerAssumption DEF Init, CleanupInv, OneCleanup
<1>2. CleanupInv /\ [Next]_vars => CleanupInv'
  <2> SUFFICES ASSUME CleanupInv, [Next]_vars
               PROVE  CleanupInv'
    OBVIOUS
  <2>1. ASSUME NEW p \in Caller, BeginRun(p) \/ RunStep(p)
        PROVE  CleanupInv'
    <3>1. UNCHANGED leader
      BY <2>1 DEF BeginRun, RunStep, CallStart, StartReturned, Listen, Await, MarkReturned,
                  Unwind, LeaveServing
    <3>2. at[p] \in {"idle", "start", "starting", "listen", "await", "mark", "marking",
                     "serving", "unwind"}
      BY <2>1 DEF BeginRun, RunStep, CallStart, StartReturned, Listen, Await, MarkReturned,
                  Unwind, LeaveServing
    <3>3. \E label \in {"start", "starting", "listen", "await", "mark", "marking",
                        "serving", "unwind", "shutdown"} : Goto(p, label)
      BY <2>1 DEF BeginRun, RunStep, CallStart, StartReturned, Listen, Await, MarkReturned,
                  Unwind, LeaveServing, CleanUp
    <3> QED
      BY <3>1, <3>2, <3>3, MovesKeep, Labels
  <2>2. ASSUME NEW p \in Caller, CallShutdown(p) \/ CallBeginShutdown(p) \/ Follow(p)
        PROVE  CleanupInv'
    BY <2>2, MovesKeep, Labels DEF CallShutdown, CallBeginShutdown, Follow
  <2>3. ASSUME NEW h \in Hook, NEW p \in Caller, HookCalls(h, p)
        PROVE  CleanupInv'
    BY <2>3, MovesKeep, Labels, CallerAssumption DEF HookCalls
  <2>4. ASSUME NEW p \in Caller, InProgress(p) \/ GiveUp(p) \/ Joined(p)
        PROVE  CleanupInv'
    BY <2>4, ReturnKeeps, Labels DEF InProgress, GiveUp, Joined
  <2>5. ASSUME NEW p \in Caller, Lead(p)
        PROVE  CleanupInv'
    BY <2>5, Labels, CallerAssumption DEF Lead, Goto, NoAttempt, CleanupInv, OneCleanup
  <2>6. ASSUME NEW p \in Caller, CloseHTTP(p) \/ Drain(p) \/ WaitJobs(p) \/ WaitTasks(p)
        PROVE  CleanupInv'
    BY <2>6, MovesKeep, Labels DEF CloseHTTP, Drain, WaitJobs, WaitTasks
  <2>7. ASSUME NEW p \in Caller, Finish(p)
        PROVE  CleanupInv'
    BY <2>7, Labels, CallerAssumption DEF Finish, Released, CleanupInv, OneCleanup
  <2>8. ASSUME UNCHANGED <<at, leader>>
        PROVE  CleanupInv'
    BY <2>8 DEF CleanupInv, OneCleanup
  <2>9. ASSUME NEW p \in Caller, LifecycleStep(p) \/ Expire(p)
        PROVE  UNCHANGED <<at, leader>>
    BY <2>9 DEF LifecycleStep, EndOnStart, EndOnShutdown, Expire, server
  <2>10. CASE ServeAccepts \/ ServeReturns \/ JobsStop \/ UNCHANGED vars
    BY <2>8, <2>10 DEF ServeAccepts, ServeReturns, JobsStop, server, vars
  <2>11. ASSUME NEW r \in Request, RequestArrives(r) \/ RequestEnds(r)
         PROVE  CleanupInv'
    BY <2>8, <2>11 DEF RequestArrives, RequestEnds
  <2>12. ASSUME NEW t \in Task, TaskStep(t)
         PROVE  CleanupInv'
    BY <2>8, <2>12 DEF TaskStep, server
  <2> QED
    BY <2>1, <2>2, <2>3, <2>4, <2>5, <2>6, <2>7, <2>8, <2>9, <2>10, <2>11, <2>12,
       CallerAssumption
    DEF Next, ShutdownStep
<1> QED
  BY <1>1, <1>2, PTL DEF Spec

\* HTTP, templates, scheduler, tasks and logger are not closed concurrently.
THEOREM CleanupExclusive == Spec => []OneCleanup
<1>1. CleanupInv => OneCleanup
  BY DEF CleanupInv
<1> QED
  BY <1>1, CleanupInvariant, PTL

-----------------------------------------------------------------------------
(* The lifecycle in the server                                              *)

CallsInv == L!TypeOK /\ at \in [Caller -> Label] /\ CallsMatch

\* The two instances of Lifecycle, the server's and the one whose facts are
\* proved, say the same.
LEMMA SameLifecycle ==
    /\ L!Init => LP!Init
    /\ [L!Next]_(L!vars) => [LP!Next]_(LP!vars)
    /\ (L!TypeOK <=> LP!TypeOK) /\ (L!TypeOK <=> LP!TypeOK)'
    /\ (L!PhaseInv <=> LP!PhaseInv) /\ (L!PhaseInv <=> LP!PhaseInv)'
<1> USE DEF L!Startup, LP!Startup, L!Closing, LP!Closing, L!startup, LP!startup,
            L!closing, LP!closing, L!frame, LP!frame, L!Label, LP!Label, L!Result,
            LP!Result, L!HookError, LP!HookError, L!PhaseInProgress, LP!PhaseInProgress, L!ClosingRequested, LP!ClosingRequested,
            L!StartupActive, LP!StartupActive, L!Goto, LP!Goto, L!Return, LP!Return,
            L!Enter, LP!Enter, L!EnterReturn, LP!EnterReturn
<1>1. L!Init => LP!Init
  BY DEF L!Init, LP!Init
<1>2. (L!TypeOK <=> LP!TypeOK) /\ (L!TypeOK <=> LP!TypeOK)'
  BY DEF L!TypeOK, LP!TypeOK, L!FrameOK, LP!FrameOK
<1>3. (L!PhaseInv <=> LP!PhaseInv) /\ (L!PhaseInv <=> LP!PhaseInv)'
  BY <1>2 DEF L!PhaseInv, LP!PhaseInv, L!OneRunner, LP!OneRunner, L!PhasesExclusive,
              LP!PhasesExclusive, L!In, LP!In
<1>4. [L!Next]_(L!vars) => [LP!Next]_(LP!vars)
  <2>1. ASSUME NEW p \in Caller, NEW m \in L!Startup, L!BeginStart(p, m)
        PROVE  LP!BeginStart(p, m)
    BY <2>1 DEF L!BeginStart, LP!BeginStart
  <2>2. ASSUME NEW p \in Caller, L!EndOnStart(p)
        PROVE  LP!EndOnStart(p)
    BY <2>2 DEF L!EndOnStart, LP!EndOnStart, L!StartupOutcome, LP!StartupOutcome
  <2>3. ASSUME NEW p \in Caller, L!MarkStarted(p)
        PROVE  LP!MarkStarted(p)
    BY <2>3 DEF L!MarkStarted, LP!MarkStarted
  <2>4. ASSUME NEW p \in Caller, L!EndOnStarted(p)
        PROVE  LP!EndOnStarted(p)
    BY <2>4 DEF L!EndOnStarted, LP!EndOnStarted, L!StartupOutcome, LP!StartupOutcome
  <2>5. ASSUME NEW p \in Caller, NEW m \in L!Closing, L!BeginShutdown(p, m)
        PROVE  LP!BeginShutdown(p, m)
    BY <2>5 DEF L!BeginShutdown, LP!BeginShutdown, L!AfterBeginShutdown,
                LP!AfterBeginShutdown
  <2>6. ASSUME NEW p \in Caller, L!EndOnShutdown(p)
        PROVE  LP!EndOnShutdown(p)
    BY <2>6 DEF L!EndOnShutdown, LP!EndOnShutdown
  <2>7. ASSUME NEW p \in Caller, L!Stop(p)
        PROVE  LP!Stop(p)
    BY <2>7 DEF L!Stop, LP!Stop
  <2>8. ASSUME NEW p \in Caller, L!EndOnStop(p)
        PROVE  LP!EndOnStop(p)
    BY <2>8 DEF L!EndOnStop, LP!EndOnStop
  <2>9. ASSUME NEW p \in Caller, L!Expire(p) \/ L!NewContext(p)
        PROVE  LP!Expire(p) \/ LP!NewContext(p)
    BY <2>9 DEF L!Expire, LP!Expire, L!NewContext, LP!NewContext
  <2>10. ASSUME NEW t \in Task, L!Go(t) \/ L!TaskFinished(t)
         PROVE  LP!Go(t) \/ LP!TaskFinished(t)
    BY <2>10 DEF L!Go, LP!Go, L!TaskFinished, LP!TaskFinished
  <2>11. ASSUME UNCHANGED L!vars
         PROVE  UNCHANGED LP!vars
    BY <2>11 DEF L!vars, LP!vars
  <2> QED
    BY <2>1, <2>2, <2>3, <2>4, <2>5, <2>6, <2>7, <2>8, <2>9, <2>10, <2>11
    DEF L!Next, LP!Next, L!Step, LP!Step
<1> QED
  BY <1>1, <1>2, <1>3, <1>4

\* A caller that is not at a label of a call is in no method.
LEMMA NoCall ==
    ASSUME CallsInv, NEW p \in Caller,
           at[p] \notin {"starting", "marking", "closing", "stopping"}
    PROVE  Returned(p)
BY DEF CallsInv, CallsMatch, L!TypeOK, L!FrameOK, L!Label, Returned

\* Renewing the context between calls is the lifecycle's NewContext.
LEMMA Renewed ==
    ASSUME NEW p \in Caller, Returned(p), FreshContext(p), UNCHANGED lifecycle
    PROVE  [L!Next]_(L!vars)
<1>1. CASE p \in expired
  BY <1>1 DEF Returned, FreshContext, lifecycle, L!Next, L!NewContext, L!startup,
              L!closing, L!frame
<1>2. CASE p \notin expired
  BY <1>2 DEF FreshContext, lifecycle, L!vars, L!startup, L!closing, L!frame
<1> QED
  BY <1>1, <1>2

\* What the server does to the lifecycle is a step of one of its methods.
LEMMA LifecycleUsed == CallsInv /\ [Next]_vars => [L!Next]_(L!vars)
<1> SUFFICES ASSUME CallsInv, [Next]_vars
             PROVE  [L!Next]_(L!vars)
  OBVIOUS
<1>1. ASSUME UNCHANGED <<lifecycle, expired>>
      PROVE  UNCHANGED L!vars
  BY <1>1 DEF lifecycle, L!vars, L!startup, L!closing, L!frame
<1>2. ASSUME NEW p \in Caller, BeginRun(p) \/ RunStep(p)
      PROVE  [L!Next]_(L!vars)
  <2>1. CASE CallStart(p)
    BY <2>1 DEF CallStart, L!Next, L!Step, L!Startup
  <2>2. CASE BeginRun(p) \/ MarkReturned(p)
    BY <1>1, <2>2 DEF BeginRun, MarkReturned
  <2>3. CASE StartReturned(p)
    BY <1>1, <2>3, Renewed DEF StartReturned, CleanUp
  <2>4. CASE Listen(p) \/ Await(p) \/ Unwind(p) \/ LeaveServing(p)
    BY <1>1, <2>4, NoCall, Renewed DEF Listen, Await, Unwind, LeaveServing, CleanUp
  <2> QED
    BY <1>2, <2>1, <2>2, <2>3, <2>4 DEF RunStep
<1>3. ASSUME NEW p \in Caller, ShutdownStep(p)
      PROVE  [L!Next]_(L!vars)
  <2>1. CASE CallBeginShutdown(p) \/ WaitTasks(p)
    BY <2>1 DEF CallBeginShutdown, WaitTasks, L!Next, L!Step, L!Closing
  <2>2. CASE InProgress(p) \/ Finish(p)
    BY <2>2, Renewed DEF InProgress, Finish, Return
  <2>3. CASE GiveUp(p) \/ Joined(p)
    BY <2>3, NoCall, Renewed DEF GiveUp, Joined, Return
  <2>4. CASE Lead(p) \/ Follow(p) \/ CloseHTTP(p) \/ Drain(p) \/ WaitJobs(p)
    BY <1>1, <2>4 DEF Lead, Follow, CloseHTTP, Drain, WaitJobs
  <2> QED
    BY <1>3, <2>1, <2>2, <2>3, <2>4 DEF ShutdownStep
<1>4. ASSUME NEW p \in Caller, LifecycleStep(p)
      PROVE  [L!Next]_(L!vars)
  BY <1>4 DEF LifecycleStep, EndOnStart, EndOnShutdown, L!Next, L!Step
<1>5. ASSUME NEW p \in Caller, Expire(p)
      PROVE  [L!Next]_(L!vars)
  BY <1>5 DEF Expire, L!Next
<1>6. ASSUME NEW t \in Task, TaskStep(t)
      PROVE  [L!Next]_(L!vars)
  BY <1>6 DEF TaskStep, L!Next
<1>7. CASE ServeAccepts \/ ServeReturns \/ JobsStop \/ UNCHANGED vars
  BY <1>1, <1>7 DEF ServeAccepts, ServeReturns, JobsStop, vars
<1>8. ASSUME NEW p \in Caller, CallShutdown(p)
      PROVE  [L!Next]_(L!vars)
  BY <1>1, <1>8 DEF CallShutdown
<1>9. ASSUME NEW h \in Hook, NEW p \in Caller, HookCalls(h, p)
      PROVE  [L!Next]_(L!vars)
  BY <1>1, <1>9 DEF HookCalls
<1>10. ASSUME NEW r \in Request, RequestArrives(r) \/ RequestEnds(r)
       PROVE  [L!Next]_(L!vars)
  BY <1>1, <1>10 DEF RequestArrives, RequestEnds
<1> QED
  BY <1>2, <1>3, <1>4, <1>5, <1>6, <1>7, <1>8, <1>9, <1>10, CallerAssumption DEF Next

\* A caller in no method that moves, and calls none, keeps the calls matched.
LEMMA MovesMatch ==
    ASSUME CallsInv, NEW p \in Caller, NEW label \in Label \ {"closing"}, Returned(p),
           Goto(p, label), UNCHANGED lifecycle
    PROVE  at' \in [Caller -> Label] /\ CallsMatch'
BY DEF CallsInv, CallsMatch, Goto, Returned, lifecycle, L!TypeOK, L!FrameOK

\* Where a caller is in the lifecycle follows from where it is in the server.
LEMMA CallsStep == CallsInv /\ [Next]_vars => CallsInv'
<1> SUFFICES ASSUME CallsInv, [Next]_vars
             PROVE  CallsInv'
  OBVIOUS
<1>t. L!TypeOK'
  BY LifecycleUsed, SameLifecycle, LP!TypeStep DEF CallsInv
<1> SUFFICES at' \in [Caller -> Label] /\ CallsMatch'
  BY <1>t DEF CallsInv
<1>1. ASSUME NEW p \in Caller, BeginRun(p) \/ RunStep(p)
      PROVE  at' \in [Caller -> Label] /\ CallsMatch'
  <2>1. CASE CallStart(p)
    BY <2>1, Labels DEF CallStart, Goto, L!BeginStart, L!Enter, L!EnterReturn, CallsInv,
                CallsMatch, L!TypeOK, L!FrameOK
  <2>2. CASE BeginRun(p) \/ Listen(p) \/ Await(p) \/ Unwind(p) \/ LeaveServing(p)
    <3>1. Returned(p)
      BY <2>2, NoCall DEF BeginRun, Listen, Await, Unwind, LeaveServing
    <3> QED
      BY <2>2, <3>1, MovesMatch, Labels
      DEF BeginRun, Listen, Await, Unwind, LeaveServing, CleanUp
  <2>3. CASE StartReturned(p) \/ MarkReturned(p)
    BY <2>3, MovesMatch, Labels DEF StartReturned, MarkReturned, CleanUp
  <2> QED
    BY <1>1, <2>1, <2>2, <2>3 DEF RunStep
<1>2. ASSUME NEW p \in Caller, ShutdownStep(p)
      PROVE  at' \in [Caller -> Label] /\ CallsMatch'
  <2>1. CASE CallBeginShutdown(p)
    BY <2>1, Labels DEF CallBeginShutdown, Goto, L!BeginShutdown, L!AfterBeginShutdown,
                L!Enter, L!EnterReturn, CallsInv, CallsMatch, L!TypeOK, L!FrameOK
  <2>2. CASE WaitTasks(p)
    BY <2>2, Labels DEF WaitTasks, Goto, L!BeginShutdown, L!AfterBeginShutdown,
                L!Enter, L!EnterReturn, CallsInv, CallsMatch, L!TypeOK, L!FrameOK
  <2>3. CASE InProgress(p) \/ Lead(p) \/ Follow(p)
    BY <2>3, MovesMatch, Labels DEF InProgress, Lead, Follow, Return
  <2>4. CASE GiveUp(p) \/ Joined(p) \/ CloseHTTP(p) \/ Drain(p) \/ WaitJobs(p)
    <3>1. Returned(p)
      BY <2>4, NoCall DEF GiveUp, Joined, CloseHTTP, Drain, WaitJobs
    <3> QED
      BY <2>4, <3>1, MovesMatch, Labels
      DEF GiveUp, Joined, CloseHTTP, Drain, WaitJobs, Return
  <2>5. CASE Finish(p)
    BY <2>5, Labels DEF Finish, Released, Returned, CallsInv, CallsMatch, lifecycle
  <2> QED
    BY <1>2, <2>1, <2>2, <2>3, <2>4, <2>5 DEF ShutdownStep
<1>3. ASSUME NEW p \in Caller, LifecycleStep(p)
      PROVE  at' \in [Caller -> Label] /\ CallsMatch'
  <2>1. CASE EndOnStart(p)
    BY <2>1 DEF EndOnStart, L!EndOnStart, L!Goto, L!Return, server, CallsInv, CallsMatch,
                L!TypeOK, L!FrameOK
  <2>2. CASE EndOnShutdown(p)
    BY <2>2 DEF EndOnShutdown, L!EndOnShutdown, server, CallsInv, CallsMatch,
                L!TypeOK, L!FrameOK
  <2>3. CASE (L!MarkStarted(p) \/ L!EndOnStarted(p)) /\ UNCHANGED server
    BY <2>3 DEF L!MarkStarted, L!EndOnStarted, L!Goto, L!Return, server, CallsInv,
                CallsMatch, L!TypeOK, L!FrameOK
  <2>4. CASE (L!Stop(p) \/ L!EndOnStop(p)) /\ UNCHANGED server
    BY <2>4 DEF L!Stop, L!EndOnStop, L!Goto, L!Return, server, CallsInv, CallsMatch,
                L!TypeOK, L!FrameOK
  <2> QED
    BY <1>3, <2>1, <2>2, <2>3, <2>4 DEF LifecycleStep
<1>4. ASSUME UNCHANGED <<at, pc, method>>
      PROVE  at' \in [Caller -> Label] /\ CallsMatch'
  BY <1>4 DEF CallsInv, CallsMatch
<1>5. CASE ServeAccepts \/ ServeReturns \/ JobsStop \/ UNCHANGED vars
  BY <1>4, <1>5 DEF ServeAccepts, ServeReturns, JobsStop, vars, server, lifecycle
<1>6. ASSUME NEW p \in Caller, Expire(p)
      PROVE  UNCHANGED <<at, pc, method>>
  BY <1>6 DEF Expire, L!Expire, L!frame, server
<1>7. ASSUME NEW t \in Task, TaskStep(t)
      PROVE  UNCHANGED <<at, pc, method>>
  BY <1>7 DEF TaskStep, L!Go, L!TaskFinished, L!frame, server
<1>8. ASSUME NEW r \in Request, RequestArrives(r) \/ RequestEnds(r)
      PROVE  UNCHANGED <<at, pc, method>>
  BY <1>8 DEF RequestArrives, RequestEnds, lifecycle
<1>9. ASSUME NEW p \in Caller, CallShutdown(p)
      PROVE  at' \in [Caller -> Label] /\ CallsMatch'
  <2>1. Returned(p)
    BY <1>9, NoCall DEF CallShutdown
  <2> QED
    BY <1>9, <2>1, MovesMatch, Labels DEF CallShutdown
<1>10. ASSUME NEW h \in Hook, NEW p \in Caller, HookCalls(h, p)
       PROVE  at' \in [Caller -> Label] /\ CallsMatch'
  <2>1. h \in Caller /\ Returned(h)
    BY <1>10, NoCall, CallerAssumption DEF HookCalls
  <2> QED
    BY <1>10, <2>1, MovesMatch, Labels DEF HookCalls
<1> QED
  BY <1>1, <1>2, <1>3, <1>4, <1>5, <1>6, <1>7, <1>8, <1>9, <1>10, CallerAssumption DEF Next

\* The server's initial state matches, and is an initial state of the lifecycle.
LEMMA CallsInit == Init => CallsInv /\ L!PhaseInv
<1> SUFFICES ASSUME Init
             PROVE  CallsInv /\ L!PhaseInv
  OBVIOUS
<1>1. L!TypeOK /\ L!PhaseInv
  BY SameLifecycle, LP!TypeInit, LP!PhaseInit DEF Init
<1>2. at \in [Caller -> Label] /\ CallsMatch
  BY Labels DEF Init, L!Init, CallsMatch
<1> QED
  BY <1>1, <1>2 DEF CallsInv

\* Whatever the server does, its lifecycle behaves as Lifecycle specifies.
THEOREM LifecycleImplemented == Spec => ImplementsLifecycle
<1>1. Init => L!Init
  BY DEF Init
<1>2. Spec => []CallsInv
  BY CallsInit, CallsStep, PTL DEF Spec
<1> QED
  BY <1>1, <1>2, LifecycleUsed, PTL DEF Spec, ImplementsLifecycle, L!Spec

-----------------------------------------------------------------------------
(* OnStop hooks run after everything has drained                            *)

\* What a step may do to what Passed speaks of: a request to shut down stays, a
\* task is added before it only, and a request arrives only while accepting.
LEMMA Draining ==
    ASSUME CallsInv, Accepts, [Next]_vars
    PROVE  /\ shutdownOnce => shutdownOnce' /\ tasks' \subseteq tasks
           /\ draining => draining' /\ requests' \subseteq requests
<1> USE DEF lifecycle, serving, server, L!startup, L!closing, L!frame
<1>1. ASSUME NEW p \in Caller, NEW m \in L!Startup, L!BeginStart(p, m)
      PROVE  UNCHANGED <<shutdownOnce, tasks>>
  BY <1>1 DEF L!BeginStart
<1>2. ASSUME NEW p \in Caller, NEW m \in L!Closing, L!BeginShutdown(p, m)
      PROVE  (shutdownOnce => shutdownOnce') /\ UNCHANGED tasks
  BY <1>2 DEF L!BeginShutdown
<1>3. ASSUME NEW p \in Caller, BeginRun(p) \/ RunStep(p)
      PROVE  UNCHANGED <<shutdownOnce, tasks, draining, requests>>
  BY <1>1, <1>3 DEF BeginRun, RunStep, CallStart, StartReturned, Listen, Await,
                    MarkReturned, Unwind, LeaveServing, L!Startup
<1>4. ASSUME NEW p \in Caller, ShutdownStep(p)
      PROVE  /\ (shutdownOnce => shutdownOnce') /\ UNCHANGED tasks
             /\ (draining => draining') /\ UNCHANGED requests
  <2>1. CASE CallBeginShutdown(p) \/ WaitTasks(p)
    <3>1. \E m \in L!Closing : L!BeginShutdown(p, m)
      BY <2>1 DEF CallBeginShutdown, WaitTasks, L!Closing
    <3> QED
      BY <1>2, <2>1, <3>1 DEF CallBeginShutdown, WaitTasks
  <2>2. CASE InProgress(p) \/ GiveUp(p) \/ Joined(p)
    <3>1. UNCHANGED <<shutdownOnce, tasks, draining, requests>>
      BY <2>2 DEF InProgress, GiveUp, Joined
    <3> QED
      BY <3>1
  <2>3. CASE Finish(p)
    <3>1. UNCHANGED <<shutdownOnce, tasks, draining, requests>>
      BY <2>3 DEF Finish
    <3> QED
      BY <3>1
  <2>4. CASE Lead(p) \/ Follow(p) \/ Drain(p) \/ WaitJobs(p)
    <3>1. UNCHANGED <<shutdownOnce, tasks, draining, requests>>
      BY <2>4 DEF Lead, Follow, Drain, WaitJobs
    <3> QED
      BY <3>1
  <2>5. CASE CloseHTTP(p)
    BY <2>5 DEF CloseHTTP
  <2> QED
    BY <1>4, <2>1, <2>2, <2>3, <2>4, <2>5 DEF ShutdownStep
<1>5. ASSUME NEW p \in Caller, LifecycleStep(p) \/ Expire(p)
      PROVE  UNCHANGED <<shutdownOnce, tasks, draining, requests>>
  BY <1>5 DEF LifecycleStep, EndOnStart, EndOnShutdown, L!EndOnStart, L!EndOnShutdown,
              L!MarkStarted, L!Stop, L!EndOnStarted, L!EndOnStop, Expire, L!Expire
<1>6. ASSUME NEW t \in Task, TaskStep(t)
      PROVE  /\ UNCHANGED <<shutdownOnce, draining, requests>>
             /\ shutdownOnce => tasks' \subseteq tasks
  BY <1>6 DEF TaskStep, L!Go, L!TaskFinished, L!ClosingRequested
<1>7. ASSUME NEW r \in Request, RequestArrives(r) \/ RequestEnds(r)
      PROVE  /\ UNCHANGED <<shutdownOnce, tasks, draining>>
             /\ draining => requests' \subseteq requests
  BY <1>7 DEF RequestArrives, RequestEnds, Accepts
<1>8. CASE ServeAccepts \/ ServeReturns \/ JobsStop \/ UNCHANGED vars
  BY <1>8 DEF ServeAccepts, ServeReturns, JobsStop, vars
<1>9. ASSUME NEW h, NEW p, CallShutdown(p) \/ HookCalls(h, p)
      PROVE  UNCHANGED <<shutdownOnce, tasks, draining, requests>>
  BY <1>9 DEF CallShutdown, HookCalls
<1> QED
  BY <1>3, <1>4, <1>5, <1>6, <1>7, <1>8, <1>9, CallerAssumption DEF Next

\* The listener that accepts is the served one, before the drain.
LEMMA AcceptsStep ==
    ASSUME Accepts, [Next]_vars
    PROVE  Accepts'
<1> USE DEF Accepts, serving, server
<1>1. ASSUME NEW p \in Caller, BeginRun(p) \/ RunStep(p)
      PROVE  Accepts'
  BY <1>1 DEF BeginRun, RunStep, CallStart, StartReturned, Listen, Await, MarkReturned,
              CloseListener, Unwind, LeaveServing
<1>2. ASSUME NEW p \in Caller, ShutdownStep(p)
      PROVE  Accepts'
  BY <1>2 DEF ShutdownStep, CallBeginShutdown, InProgress, Lead, Follow, GiveUp,
              Joined, CloseHTTP, Drain, WaitJobs, WaitTasks, Finish
<1>3. ASSUME UNCHANGED <<listener, serve, draining>>
      PROVE  Accepts'
  BY <1>3
<1>4. ASSUME NEW p \in Caller, LifecycleStep(p) \/ Expire(p)
      PROVE  Accepts'
  BY <1>4 DEF LifecycleStep, EndOnStart, EndOnShutdown, Expire
<1>5. ASSUME NEW t \in Task, TaskStep(t)
      PROVE  Accepts'
  BY <1>5 DEF TaskStep
<1>6. ASSUME NEW r \in Request, RequestArrives(r) \/ RequestEnds(r)
      PROVE  Accepts'
  BY <1>6 DEF RequestArrives, RequestEnds
<1>7. CASE ServeAccepts \/ ServeReturns \/ JobsStop \/ UNCHANGED vars
  BY <1>7 DEF ServeAccepts, ServeReturns, JobsStop, vars
<1>8. ASSUME NEW h, NEW p, CallShutdown(p) \/ HookCalls(h, p)
      PROVE  Accepts'
  BY <1>8 DEF CallShutdown, HookCalls
<1> QED
  BY <1>1, <1>2, <1>4, <1>5, <1>6, <1>7, <1>8, CallerAssumption DEF Next

\* What a caller needs for DrainInv.
Drained(q) ==
    /\ at[q] \in Cleanup \ {"http"} => draining
    /\ q \notin expired => Passed(q)
    /\ pc[q] = "onStop" => shutdownOnce /\ requests = {} /\ tasks = {}

Elsewhere == {"idle", "returned", "start", "starting", "listen", "await", "mark", "marking",
              "serving", "unwind", "shutdown", "follow", "joined"}

\* A caller that stays where it is, or leaves the cleanup, stays drained.
LEMMA StaysDrained ==
    ASSUME CallsInv, DrainInv, [Next]_vars, NEW q \in Caller,
           pc'[q] = "onStop" => pc[q] = "onStop",
           \/ at'[q] \in Elsewhere
           \/ at'[q] = at[q] /\ (q \notin expired' => q \notin expired)
    PROVE  Drained(q)'
<1>1. /\ shutdownOnce => shutdownOnce' /\ tasks' \subseteq tasks
      /\ draining => draining' /\ requests' \subseteq requests
  BY Draining DEF DrainInv
<1>2. at[q] \in Cleanup \ {"http"} => draining'
  BY <1>1 DEF DrainInv
<1>3. pc'[q] = "onStop" => shutdownOnce' /\ requests' = {} /\ tasks' = {}
  <2> SUFFICES ASSUME pc[q] = "onStop"
               PROVE  shutdownOnce' /\ requests' = {} /\ tasks' = {}
    OBVIOUS
  <2>1. at[q] = "stopping" /\ shutdownOnce /\ requests = {} /\ tasks = {}
    BY DEF DrainInv, CallsMatch
  <2> QED
    BY <1>1, <1>2, <2>1 DEF DrainInv, Cleanup
<1>4. CASE at'[q] \in Elsewhere
  BY <1>3, <1>4, Labels DEF Drained, Passed, Elsewhere, Cleanup
<1>5. CASE at'[q] = at[q] /\ (q \notin expired' => q \notin expired)
  <2>1. ASSUME q \notin expired'
        PROVE  Passed(q)'
    <3>1. Passed(q)
      BY <1>5, <2>1 DEF DrainInv
    <3>2. at[q] \in {"jobs", "tasks", "stopping"} => draining
      BY DEF DrainInv, Cleanup
    <3> QED
      BY <1>1, <1>5, <3>1, <3>2, Labels DEF Passed
  <2> QED
    BY <1>2, <1>3, <1>5, <2>1 DEF Drained
<1> QED
  BY <1>4, <1>5

\* A cleanup does what it passes: each wait that its context does not cut short
\* finds what it waited for.
LEMMA PassesDrained ==
    ASSUME CallsInv, L!PhaseInv, DrainInv, [Next]_vars, NEW p \in Caller,
           CallBeginShutdown(p) \/ Lead(p) \/ CloseHTTP(p) \/ Drain(p) \/ WaitJobs(p)
             \/ WaitTasks(p)
    PROVE  Drained(p)'
<1> USE Labels DEF Goto, CallsInv, lifecycle, serving
<1>a. /\ shutdownOnce => shutdownOnce' /\ tasks' \subseteq tasks
      /\ draining => draining' /\ requests' \subseteq requests
  BY Draining DEF DrainInv
<1>b. /\ p \notin expired => Passed(p)
      /\ at[p] \in {"drain", "jobs", "tasks", "stopping"} => draining
  BY DEF DrainInv, Cleanup
<1>c. pc[p] = "onStop" => at[p] = "stopping"
  BY DEF CallsMatch
<1>1. CASE CallBeginShutdown(p)
  <2>1. at'[p] = "closing" /\ pc'[p] # "onStop" /\ expired' = expired
    BY <1>1, <1>c DEF CallBeginShutdown, L!BeginShutdown, L!AfterBeginShutdown, L!Enter,
                L!EnterReturn, L!TypeOK, L!FrameOK
  <2>2. p \notin expired => shutdownOnce'
    BY <1>1 DEF CallBeginShutdown, L!BeginShutdown, L!PhaseInv
  <2> QED
    BY <2>1, <2>2 DEF Drained, Passed
<1>2. CASE Lead(p)
  <2>1. at[p] = "closing" /\ at'[p] = "http" /\ pc'[p] # "onStop" /\ expired' = expired
    BY <1>2 DEF Lead, Returned
  <2> QED
    BY <1>a, <1>b, <2>1 DEF Drained, Passed
<1>3. CASE CloseHTTP(p)
  <2>1. /\ at[p] = "http" /\ at'[p] = "drain" /\ draining' = TRUE
        /\ pc' = pc /\ expired' = expired
    BY <1>3 DEF CloseHTTP
  <2>2. shutdownOnce' = shutdownOnce
    BY <1>3 DEF CloseHTTP
  <2> QED
    BY <1>b, <1>c, <2>1, <2>2 DEF Drained, Passed
<1>4. CASE Drain(p)
  <2>1. /\ at[p] = "drain" /\ at'[p] = "jobs"
        /\ requests = {} \/ p \in expired
        /\ pc' = pc /\ expired' = expired
    BY <1>4 DEF Drain, Waited
  <2>2. draining
    BY <1>b, <2>1
  <2> QED
    BY <1>a, <1>b, <1>c, <2>1, <2>2 DEF Drained, Passed
<1>5. CASE WaitJobs(p)
  <2>1. at[p] = "jobs" /\ at'[p] = "tasks" /\ pc' = pc /\ expired' = expired
    BY <1>5 DEF WaitJobs
  <2>2. draining
    BY <1>b, <2>1
  <2> QED
    BY <1>a, <1>b, <1>c, <2>1, <2>2 DEF Drained, Passed
<1>6. CASE WaitTasks(p)
  <2>1. /\ at[p] = "tasks" /\ at'[p] = "stopping"
        /\ tasks = {} \/ p \in expired
        /\ expired' = expired
    BY <1>6 DEF WaitTasks, Waited, TasksDone, L!BeginShutdown
  <2>2. pc'[p] # "onStop"
    BY <1>6, <1>c, <2>1 DEF WaitTasks, L!BeginShutdown, L!AfterBeginShutdown, L!Enter,
                L!EnterReturn, L!TypeOK, L!FrameOK
  <2>3. draining
    BY <1>b, <2>1
  <2> QED
    BY <1>a, <1>b, <2>1, <2>2, <2>3 DEF Drained, Passed
<1> QED
  BY <1>1, <1>2, <1>3, <1>4, <1>5, <1>6

\* OnStop hooks begin when their caller's cleanup has passed the drain.
LEMMA StopDrained ==
    ASSUME CallsInv, DrainInv, [Next]_vars, NEW p \in Caller, L!Stop(p), UNCHANGED server
    PROVE  Drained(p)'
<1>1. at[p] = "stopping" /\ at' = at /\ expired' = expired
  BY DEF L!Stop, CallsInv, CallsMatch, server
<1>2. CASE pc'[p] = "onStop"
  <2>1. p \notin expired
    BY <1>2 DEF L!Stop, L!Return, CallsInv, L!TypeOK, L!FrameOK
  <2>2. draining /\ Passed(p)
    BY <1>1, <2>1 DEF DrainInv, Cleanup
  <2>3. shutdownOnce /\ requests = {} /\ tasks = {}
    BY <1>1, <2>2, Labels DEF Passed
  <2>4. /\ shutdownOnce' /\ tasks' \subseteq tasks
        /\ draining' /\ requests' \subseteq requests
    BY <2>2, <2>3, Draining DEF DrainInv
  <2> QED
    BY <1>1, <2>3, <2>4 DEF Drained, Passed
<1>3. CASE pc'[p] # "onStop"
  BY <1>1, <1>3, StaysDrained
<1> QED
  BY <1>2, <1>3

\* A step of one caller leaves the others drained.
LEMMA OthersDrained ==
    ASSUME CallsInv, DrainInv, [Next]_vars, NEW p \in Caller, NEW q \in Caller, q # p,
           at'[q] = at[q] \/ at'[q] = "joined", pc'[q] = pc[q],
           expired' \in {expired, expired \ {p}}
    PROVE  Drained(q)'
BY StaysDrained DEF Elsewhere

\* Every step keeps DrainInv.
LEMMA DrainStep == CallsInv /\ L!PhaseInv /\ DrainInv /\ [Next]_vars => DrainInv'
<1> SUFFICES ASSUME CallsInv, L!PhaseInv, DrainInv, [Next]_vars, NEW q \in Caller
             PROVE  Drained(q)'
  BY CallsStep, AcceptsStep DEF DrainInv, Drained, CallsInv
<1> USE DEF lifecycle, server
<1>1. ASSUME NEW p \in Caller, RunStep(p) \/ BeginRun(p)
      PROVE  Drained(q)'
  <2>1. /\ at'[p] \in Elsewhere
        /\ \A r \in Caller \ {p} : at'[r] = at[r]
    BY <1>1 DEF BeginRun, RunStep, CallStart, StartReturned, Listen, Await, MarkReturned,
                Unwind, LeaveServing, CleanUp, Goto, CallsInv, Elsewhere
  <2>2. CASE CallStart(p)
    <3>1. /\ pc'[p] # "onStop" \/ pc' = pc
          /\ \A r \in Caller \ {p} : pc'[r] = pc[r]
          /\ expired' = expired
      BY <2>2 DEF CallStart, L!BeginStart, L!Enter, L!EnterReturn, CallsInv, L!TypeOK,
                  L!FrameOK
    <3> QED
      BY <2>1, <3>1, StaysDrained, OthersDrained
  <2>3. CASE ~CallStart(p)
    <3>1. pc' = pc /\ expired' \in {expired, expired \ {p}}
      BY <1>1, <2>3 DEF BeginRun, RunStep, StartReturned, Listen, Await, MarkReturned,
                        Unwind, LeaveServing, CleanUp, FreshContext
    <3> QED
      BY <2>1, <3>1, StaysDrained, OthersDrained
  <2> QED
    BY <2>2, <2>3
<1>2. ASSUME NEW p \in Caller,
             CallBeginShutdown(p) \/ Lead(p) \/ CloseHTTP(p) \/ Drain(p) \/ WaitJobs(p)
               \/ WaitTasks(p)
      PROVE  Drained(q)'
  <2>1. /\ \A r \in Caller \ {p} : at'[r] = at[r] /\ pc'[r] = pc[r]
        /\ expired' = expired
    BY <1>2 DEF CallBeginShutdown, Lead, CloseHTTP, Drain, WaitJobs, WaitTasks, Goto,
                L!BeginShutdown, L!AfterBeginShutdown, L!Enter, L!EnterReturn,
                CallsInv, L!TypeOK, L!FrameOK
  <2> QED
    BY <1>2, <2>1, PassesDrained, OthersDrained
<1>3. ASSUME NEW p \in Caller, Follow(p) \/ InProgress(p) \/ GiveUp(p) \/ Joined(p)
                                 \/ CallShutdown(p)
      PROVE  Drained(q)'
  <2>1. /\ at'[p] \in Elsewhere
        /\ \A r \in Caller \ {p} : at'[r] = at[r]
        /\ pc' = pc /\ expired' \in {expired, expired \ {p}}
    BY <1>3, Labels DEF Follow, InProgress, GiveUp, Joined, CallShutdown, Return, Goto,
                        FreshContext, CallsInv, Elsewhere
  <2> QED
    BY <2>1, StaysDrained, OthersDrained
<1>4. ASSUME NEW p \in Caller, Finish(p)
      PROVE  Drained(q)'
  <2>1. /\ at'[p] \in Elsewhere
        /\ \A r \in Caller \ {p} : at'[r] = at[r] \/ at'[r] = "joined"
        /\ pc' = pc /\ expired' = expired \ {p}
    BY <1>4, Labels DEF Finish, Released, FreshContext, Elsewhere
  <2> QED
    BY <2>1, StaysDrained, OthersDrained
<1>5. ASSUME NEW h \in Hook, NEW p \in Caller, HookCalls(h, p)
      PROVE  Drained(q)'
  <2>1. /\ at'[h] = "shutdown" /\ pc' = pc /\ expired' = expired
        /\ \A r \in Caller \ {h} : at'[r] = at[r]
    BY <1>5, CallerAssumption DEF HookCalls, Goto, CallsInv
  <2> QED
    BY <2>1, StaysDrained, OthersDrained, CallerAssumption DEF Elsewhere
<1>6. ASSUME NEW p \in Caller, LifecycleStep(p)
      PROVE  Drained(q)'
  <2>1. CASE L!Stop(p) /\ UNCHANGED server
    <3>1. /\ \A r \in Caller \ {p} : pc'[r] = pc[r]
          /\ expired' = expired /\ at' = at
      BY <2>1 DEF L!Stop, L!Return, L!Goto, CallsInv, L!TypeOK, L!FrameOK
    <3> QED
      BY <2>1, <3>1, StopDrained, OthersDrained
  <2>2. CASE EndOnStart(p) \/ EndOnShutdown(p)
             \/ ((L!MarkStarted(p) \/ L!EndOnStarted(p) \/ L!EndOnStop(p))
                 /\ UNCHANGED server)
    <3>1. /\ pc'[p] # "onStop" /\ \A r \in Caller \ {p} : pc'[r] = pc[r]
          /\ expired' = expired /\ at' = at
      BY <2>2 DEF EndOnStart, L!EndOnStart, EndOnShutdown, L!EndOnShutdown, L!MarkStarted,
                  L!EndOnStarted, L!EndOnStop, L!Return, L!Goto, CallsInv, L!TypeOK,
                  L!FrameOK
    <3> QED
      BY <3>1, StaysDrained, OthersDrained
  <2> QED
    BY <1>6, <2>1, <2>2 DEF LifecycleStep
<1>7. ASSUME at' = at, pc' = pc, expired \subseteq expired'
      PROVE  Drained(q)'
  BY <1>7, StaysDrained
<1>8. ASSUME NEW p \in Caller, Expire(p)
      PROVE  Drained(q)'
  BY <1>7, <1>8 DEF Expire, L!Expire, L!frame
<1>9. ASSUME NEW t \in Task, TaskStep(t)
      PROVE  Drained(q)'
  BY <1>7, <1>9 DEF TaskStep, L!Go, L!TaskFinished, L!frame
<1>10. ASSUME NEW r \in Request, RequestArrives(r) \/ RequestEnds(r)
       PROVE  Drained(q)'
  BY <1>7, <1>10 DEF RequestArrives, RequestEnds
<1>11. CASE ServeAccepts \/ ServeReturns \/ JobsStop \/ UNCHANGED vars
  BY <1>7, <1>11 DEF ServeAccepts, ServeReturns, JobsStop, vars
<1> QED
  BY <1>1, <1>2, <1>3, <1>4, <1>5, <1>6, <1>8, <1>9, <1>10, <1>11, CallerAssumption
  DEF Next, ShutdownStep

\* The parts of the inductive invariant hold together: the lifecycle's own, the
\* matching of calls, and the drain.
LEMMA DrainBaseInit == Init => CallsInv /\ L!PhaseInv /\ DrainInv
<1>1. Init => DrainInv
  BY CallsInit, Labels DEF Init, L!Init, DrainInv, Accepts, Passed, CallsInv
<1> QED
  BY <1>1, CallsInit

LEMMA DrainBaseStep ==
    CallsInv /\ L!PhaseInv /\ DrainInv /\ [Next]_vars
      => (CallsInv /\ L!PhaseInv /\ DrainInv)'
<1> SUFFICES ASSUME CallsInv, L!PhaseInv, DrainInv, [Next]_vars
             PROVE  (CallsInv /\ L!PhaseInv /\ DrainInv)'
  OBVIOUS
<1>1. CallsInv' /\ DrainInv'
  BY CallsStep, DrainStep
<1>2. LP!TypeOK' /\ [LP!Next]_(LP!vars)
  BY <1>1, LifecycleUsed, SameLifecycle DEF CallsInv
<1>3. L!PhaseInv'
  BY <1>2, SameLifecycle, LP!PhaseStep
<1> QED
  BY <1>1, <1>3

\* What is accepted is served, and a cleanup within its time has done what it has passed.
THEOREM DrainInvariant == Spec => []DrainInv
BY DrainBaseInit, DrainBaseStep, PTL DEF Spec

\* OnStop hooks run after the requests and the tasks have ended and nothing is
\* accepted any more, whatever contexts ended on the way.
THEOREM StopsLast == Spec => []StopAfterDrain
<1>1. DrainInv => StopAfterDrain
  BY Labels DEF DrainInv, CallsMatch, Accepts, StopAfterDrain, L!In, Cleanup
<1> QED
  BY <1>1, DrainInvariant, PTL

-----------------------------------------------------------------------------
(* Types                                                                    *)

\* What TypeOK says besides L!TypeOK and the labels.
OwnTyped ==
    /\ clean \in [Caller -> BOOLEAN]
    /\ hookOf \in [Hook -> Caller \cup {Nobody}]
    /\ running \in BOOLEAN
    /\ leader \in Caller \cup {Nobody}
    /\ listener \in {"none", "bound", "accepting", "closed"}
    /\ serve \in {"none", "called", "accepting", "returned"}
    /\ ready \in BOOLEAN /\ draining \in BOOLEAN
    /\ requests \subseteq Request
    /\ jobs \in {"idle", "running", "stopping", "stopped"}

\* Every step keeps the server's own variables in their types.
LEMMA TypeStep == OwnTyped /\ [Next]_vars => OwnTyped'
<1> SUFFICES ASSUME OwnTyped, [Next]_vars
             PROVE  OwnTyped'
  OBVIOUS
<1> USE DEF OwnTyped, server, serving
<1>1. ASSUME NEW p \in Caller, BeginRun(p) \/ RunStep(p)
      PROVE  OwnTyped'
  <2>1. UNCHANGED <<clean, hookOf, leader, draining, requests, jobs>>
    BY <1>1 DEF BeginRun, RunStep, CallStart, StartReturned, Listen, Await, MarkReturned,
                Unwind, LeaveServing
  <2>2. /\ running' \in {running, TRUE} /\ ready' \in {ready, FALSE}
        /\ listener' \in {listener, "bound", "closed"} /\ serve' \in {serve, "called"}
    BY <1>1 DEF BeginRun, RunStep, CallStart, StartReturned, Listen, Await, MarkReturned,
                CloseListener, Unwind, LeaveServing
  <2> QED
    BY <2>1, <2>2
<1>2. ASSUME NEW p \in Caller, NEW good \in BOOLEAN, Return(p, good),
             UNCHANGED <<hookOf, leader, listener, serve, ready, draining, requests, jobs>>
      PROVE  OwnTyped'
  BY <1>2 DEF Return
<1>3. ASSUME NEW p \in Caller, InProgress(p) \/ GiveUp(p) \/ Joined(p)
      PROVE  OwnTyped'
  <2>1. clean[p] \in BOOLEAN /\ FALSE \in BOOLEAN
    OBVIOUS
  <2> QED
    BY <1>2, <1>3, <2>1 DEF InProgress, GiveUp, Joined
<1>4. ASSUME NEW p \in Caller, CallBeginShutdown(p) \/ Follow(p) \/ Lead(p) \/ CallShutdown(p)
      PROVE  OwnTyped'
  BY <1>4 DEF CallBeginShutdown, Follow, Lead, CallShutdown
<1>5. ASSUME NEW p \in Caller, CloseHTTP(p)
      PROVE  OwnTyped'
  BY <1>5 DEF CloseHTTP
<1>6. ASSUME NEW p \in Caller, Drain(p) \/ WaitJobs(p) \/ WaitTasks(p)
      PROVE  OwnTyped'
  <2>1. UNCHANGED <<hookOf, leader, serving, jobs>>
    BY <1>6 DEF Drain, WaitJobs, WaitTasks
  <2>2. ASSUME NEW done \in BOOLEAN, Waited(p, done)
        PROVE  clean' \in [Caller -> BOOLEAN]
    BY <2>2 DEF Waited
  <2>3. /\ (requests = {}) \in BOOLEAN /\ (jobs # "stopping") \in BOOLEAN
        /\ TasksDone \in BOOLEAN
    BY DEF TasksDone
  <2>4. clean' \in [Caller -> BOOLEAN]
    BY <1>6, <2>2, <2>3 DEF Drain, WaitJobs, WaitTasks
  <2> QED
    BY <2>1, <2>4
<1>7. ASSUME NEW p \in Caller, Finish(p)
      PROVE  OwnTyped'
  <2>1. /\ UNCHANGED <<hookOf, listener, serve, ready, draining, requests, jobs>>
        /\ leader' = Nobody /\ running' = (running /\ p \notin Runner)
    BY <1>7 DEF Finish
  <2>2. clean' \in [Caller -> BOOLEAN]
    BY <1>7 DEF Finish
  <2> QED
    BY <2>1, <2>2
<1>8. ASSUME NEW p \in Caller, LifecycleStep(p) \/ Expire(p)
      PROVE  OwnTyped'
  <2>1. UNCHANGED server
    BY <1>8 DEF LifecycleStep, EndOnStart, EndOnShutdown, Expire
  <2>2. jobs' \in {jobs, "running", "stopping", "stopped"}
    BY <1>8 DEF LifecycleStep, EndOnStart, EndOnShutdown, Expire
  <2> QED
    BY <2>1, <2>2
<1>9. ASSUME NEW h \in Hook, NEW p \in Caller, HookCalls(h, p)
      PROVE  OwnTyped'
  BY <1>9 DEF HookCalls
<1>10. CASE ServeAccepts \/ ServeReturns \/ JobsStop \/ UNCHANGED vars
  BY <1>10 DEF ServeAccepts, ServeReturns, JobsStop, vars
<1>11. ASSUME NEW r \in Request, RequestArrives(r) \/ RequestEnds(r)
       PROVE  OwnTyped'
  BY <1>11 DEF RequestArrives, RequestEnds
<1>12. ASSUME NEW t \in Task, TaskStep(t)
       PROVE  OwnTyped'
  BY <1>12 DEF TaskStep
<1> QED
  BY <1>1, <1>3, <1>4, <1>5, <1>6, <1>7, <1>8, <1>9, <1>10, <1>11, <1>12, CallerAssumption
  DEF Next, ShutdownStep

-----------------------------------------------------------------------------
(* A Shutdown without an error has done its work                            *)

\* What a Shutdown has done is not undone: the hooks that ran have run, no task and
\* no request is added any more, and a scheduler that stopped stays so.
LEMMA WorkStays ==
    ASSUME CallsInv, L!PhaseInv, DrainInv, CleanInv, [Next]_vars
    PROVE  /\ shutdownHooksRun => shutdownHooksRun' /\ tasks' \subseteq tasks
           /\ shutdown => shutdown'
           /\ draining => draining' /\ requests' \subseteq requests
           /\ shutdownHooksRun' => jobs' \in {"stopping", "stopped"}
           /\ shutdownHooksRun /\ jobs = "stopped" => jobs' = "stopped"
<1> USE DEF lifecycle, serving, server, L!startup, L!closing, L!frame
<1> DEFINE Kept == UNCHANGED <<shutdownHooksRun, shutdown, jobs>>
<1>a. /\ shutdownHooksRun => tasks' \subseteq tasks
      /\ draining => draining' /\ requests' \subseteq requests
  BY Draining DEF DrainInv, L!PhaseInv
<1>b. shutdownHooksRun => jobs \in {"stopping", "stopped"}
  BY DEF CleanInv
<1>1. ASSUME NEW p \in Caller, BeginRun(p) \/ RunStep(p)
      PROVE  Kept
  BY <1>1 DEF BeginRun, RunStep, CallStart, StartReturned, Listen, Await, MarkReturned,
              Unwind, LeaveServing, L!BeginStart
<1>2. ASSUME NEW p \in Caller, ShutdownStep(p)
      PROVE  Kept
  <2>1. CASE CallBeginShutdown(p) \/ WaitTasks(p)
    BY <2>1 DEF CallBeginShutdown, WaitTasks, L!BeginShutdown
  <2>2. CASE InProgress(p) \/ GiveUp(p) \/ Joined(p)
    BY <2>2 DEF InProgress, GiveUp, Joined
  <2>3. CASE Finish(p)
    <3>1. UNCHANGED <<lifecycle, jobs>>
      BY <2>3 DEF Finish
    <3> QED
      BY <3>1
  <2>4. CASE Lead(p) \/ Follow(p) \/ CloseHTTP(p) \/ Drain(p) \/ WaitJobs(p)
    <3>1. UNCHANGED <<lifecycle, jobs>>
      BY <2>4 DEF Lead, Follow, CloseHTTP, Drain, WaitJobs
    <3> QED
      BY <3>1
  <2> QED
    BY <1>2, <2>1, <2>2, <2>3, <2>4 DEF ShutdownStep
<1>3. ASSUME NEW p \in Caller, EndOnStart(p)
      PROVE  UNCHANGED <<shutdownHooksRun, shutdown>> /\ ~shutdownHooksRun
  BY <1>3 DEF EndOnStart, L!EndOnStart, L!PhaseInv, L!OneRunner, L!In
<1>4. ASSUME NEW p \in Caller, EndOnShutdown(p)
      PROVE  /\ shutdownHooksRun' /\ shutdown' = shutdown
             /\ jobs' = IF jobs = "running" THEN "stopping" ELSE "stopped"
  BY <1>4 DEF EndOnShutdown, L!EndOnShutdown
<1>5. ASSUME NEW p \in Caller, LifecycleStep(p), ~EndOnStart(p), ~EndOnShutdown(p)
      PROVE  UNCHANGED <<shutdownHooksRun, jobs>> /\ (shutdown => shutdown')
  BY <1>5 DEF LifecycleStep, L!MarkStarted, L!Stop, L!EndOnStarted, L!EndOnStop
<1>6. ASSUME NEW p \in Caller, Expire(p)
      PROVE  Kept
  BY <1>6 DEF Expire, L!Expire
<1>7. ASSUME NEW t \in Task, TaskStep(t)
      PROVE  Kept
  BY <1>7 DEF TaskStep, L!Go, L!TaskFinished
<1>8. ASSUME NEW r \in Request, RequestArrives(r) \/ RequestEnds(r)
      PROVE  Kept
  BY <1>8 DEF RequestArrives, RequestEnds
<1>9. CASE ServeAccepts \/ ServeReturns \/ UNCHANGED vars
  BY <1>a, <1>b, <1>9 DEF ServeAccepts, ServeReturns, vars
<1>10. CASE JobsStop
  BY <1>a, <1>b, <1>10 DEF JobsStop
<1>11. ASSUME NEW h, NEW p, CallShutdown(p) \/ HookCalls(h, p)
       PROVE  Kept
  BY <1>11 DEF CallShutdown, HookCalls
<1>12. ASSUME NEW p \in Caller, LifecycleStep(p)
       PROVE  /\ shutdownHooksRun => shutdownHooksRun'
              /\ shutdown => shutdown'
              /\ shutdownHooksRun' => jobs' \in {"stopping", "stopped"}
              /\ shutdownHooksRun /\ jobs = "stopped" => jobs' = "stopped"
  <2>1. CASE EndOnStart(p)
    BY <1>3, <2>1
  <2>2. CASE EndOnShutdown(p)
    BY <1>b, <1>4, <2>2
  <2>3. CASE ~EndOnStart(p) /\ ~EndOnShutdown(p)
    BY <1>b, <1>5, <1>12, <2>3
  <2> QED
    BY <2>1, <2>2, <2>3
<1> QED
  BY <1>a, <1>b, <1>1, <1>2, <1>6, <1>7, <1>8, <1>9, <1>10, <1>11, <1>12, CallerAssumption
  DEF Next

\* What the steps below start from.
CleanBase == CallsInv /\ L!PhaseInv /\ DrainInv /\ CleanInv

\* Where nothing is claimed of a caller but what it has been told.
Outside == Elsewhere \ {"joined"}

\* A caller that stays where it is, its method and its outcome with it, keeps what it
\* has done; one that goes elsewhere claims nothing.
LEMMA StaysDone ==
    ASSUME CleanBase, [Next]_vars, NEW q \in Caller,
           \/ at'[q] \in Outside
           \/ /\ at'[q] = at[q] /\ clean'[q] = clean[q]
              /\ \/ at[q] \notin {"closing", "stopping"}
                 \/ pc'[q] = pc[q] /\ method'[q] = method[q] /\ result'[q] = result[q]
    PROVE  Done(q)'
<1>1. CASE at'[q] \in Outside
  BY <1>1 DEF Outside, Elsewhere, Done, Cleanup
<1>2. CASE at'[q] = at[q]
  <2>1. Done(q) /\ (at[q] \in {"jobs", "tasks", "stopping"} => draining)
    BY DEF CleanBase, CleanInv, DrainInv, Cleanup
  <2>2. /\ shutdownHooksRun => shutdownHooksRun' /\ tasks' \subseteq tasks
        /\ shutdown => shutdown'
        /\ draining => draining' /\ requests' \subseteq requests
        /\ shutdownHooksRun /\ jobs = "stopped" => jobs' = "stopped"
    BY WorkStays DEF CleanBase
  <2>3. CASE at[q] \in {"closing", "stopping"} /\ at'[q] \notin Outside
    BY <1>2, <2>1, <2>2, <2>3 DEF Done, Returned, Cleanup, Outside, Elsewhere
  <2>4. CASE at[q] \notin {"closing", "stopping"} /\ at'[q] \notin Outside
    BY <1>2, <2>1, <2>2, <2>4 DEF Done, Cleanup, Outside, Elsewhere
  <2> QED
    BY <1>1, <2>3, <2>4
<1> QED
  BY <1>1, <1>2

\* What an error-free method has come to: BeginShutdown returns nil once the
\* OnShutdown hooks have run.
LEMMA BeginShutdownDone ==
    ASSUME CleanBase, [Next]_vars, NEW p \in Caller, CallBeginShutdown(p)
    PROVE  Done(p)'
<1> USE DEF CleanBase, CallsInv, L!TypeOK, L!FrameOK
<1>1. at'[p] = "closing" /\ pc[p] = "idle"
  BY DEF CallBeginShutdown, Goto, L!BeginShutdown
<1>2. pc'[p] = "idle" /\ result'[p] = "nil" => shutdownHooksRun
  BY DEF CallBeginShutdown, L!BeginShutdown, L!AfterBeginShutdown, L!Enter, L!EnterReturn
<1>3. shutdownHooksRun => shutdownHooksRun'
  BY WorkStays
<1> QED
  BY <1>1, <1>2, <1>3 DEF Done, Returned, Cleanup

\* The steps of a cleanup: each wait leaves the outcome clean only if it found what
\* it waited for.
LEMMA CleanupDone ==
    ASSUME CleanBase, [Next]_vars, NEW p \in Caller,
           clean \in [Caller -> BOOLEAN],
           Lead(p) \/ CloseHTTP(p) \/ Drain(p) \/ WaitJobs(p)
    PROVE  Done(p)'
<1> USE DEF Goto, Cleanup
<1>a. at \in [Caller -> Label] /\ Done(p) /\ (at[p] \in {"drain", "jobs", "tasks"} => draining)
  BY DEF CleanBase, CallsInv, CleanInv, DrainInv
<1>b. /\ shutdownHooksRun => shutdownHooksRun' /\ jobs \in {"stopping", "stopped"}
      /\ draining => requests' \subseteq requests
      /\ shutdownHooksRun /\ jobs = "stopped" => jobs' = "stopped"
  BY WorkStays DEF CleanBase, CleanInv
<1>1. CASE Lead(p)
  <2>1. /\ at[p] = "closing" /\ Returned(p) /\ at'[p] = "http"
        /\ clean'[p] = (result[p] = "nil")
    BY <1>a, <1>1 DEF Lead
  <2> QED
    BY <1>a, <1>b, <2>1 DEF Done
<1>2. CASE CloseHTTP(p)
  <2>1. at[p] = "http" /\ at'[p] = "drain" /\ clean' = clean
    BY <1>a, <1>2 DEF CloseHTTP
  <2> QED
    BY <1>a, <1>b, <2>1 DEF Done
<1>3. CASE Drain(p)
  <2>1. at[p] = "drain" /\ at'[p] = "jobs" /\ clean'[p] = (clean[p] /\ requests = {})
    BY <1>a, <1>3 DEF Drain, Waited
  <2> QED
    BY <1>a, <1>b, <2>1 DEF Done
<1>4. CASE WaitJobs(p)
  <2>1. at[p] = "jobs" /\ at'[p] = "tasks" /\ clean'[p] = (clean[p] /\ jobs # "stopping")
    BY <1>a, <1>4 DEF WaitJobs, Waited
  <2> QED
    BY <1>a, <1>b, <2>1 DEF Done
<1> QED
  BY <1>1, <1>2, <1>3, <1>4

\* The call of Stop at the end of a cleanup: it may go on to the OnStop hooks, and
\* returns no nil before them.
LEMMA StopCalled ==
    ASSUME CleanBase, [Next]_vars, NEW p \in Caller, clean \in [Caller -> BOOLEAN],
           WaitTasks(p)
    PROVE  Done(p)'
<1> USE DEF CleanBase, CallsInv, L!TypeOK, L!FrameOK
<1>1. /\ at[p] = "tasks" /\ at'[p] = "stopping" /\ UNCHANGED <<requests, jobs, tasks>>
      /\ clean'[p] = (clean[p] /\ tasks = {})
  BY DEF WaitTasks, Goto, Waited, TasksDone, serving, L!BeginShutdown
<1>2. method'[p] = "Stop" /\ ~(pc'[p] = "idle" /\ result'[p] = "nil")
  BY DEF WaitTasks, L!BeginShutdown, L!AfterBeginShutdown, L!PhaseInProgress, L!Enter,
         L!EnterReturn
<1>3. Done(p) /\ (shutdownHooksRun => shutdownHooksRun')
  BY WorkStays DEF CleanInv
<1> QED
  BY <1>1, <1>2, <1>3 DEF Done, Returned, Cleanup

\* The lifecycle's own steps of a caller in a closing method: the hooks it returns
\* after have run.
LEMMA PhasesDone ==
    ASSUME CleanBase, [Next]_vars, NEW p \in Caller,
           \/ EndOnShutdown(p)
           \/ (L!Stop(p) \/ L!EndOnStop(p)) /\ UNCHANGED <<server, jobs>>
    PROVE  Done(p)'
<1> USE DEF CleanBase, CallsInv, L!TypeOK, L!FrameOK, server, serving
<1>a. /\ at' = at /\ clean' = clean /\ tasks' = tasks /\ requests' = requests
      /\ method' = method
  BY DEF EndOnShutdown, L!EndOnShutdown, L!Stop, L!EndOnStop, L!Return, L!Goto
<1>b. /\ Done(p) /\ (shutdownHooksRun => shutdownHooksRun')
      /\ shutdown => shutdown'
      /\ shutdownHooksRun /\ jobs = "stopped" => jobs' = "stopped"
  BY WorkStays DEF CleanInv
<1>1. CASE EndOnShutdown(p)
  <2>1. /\ pc[p] = "onShutdown" /\ shutdownHooksRun'
        /\ method[p] = "Stop" /\ pc'[p] = "idle" => result'[p] # "nil"
    BY <1>1 DEF EndOnShutdown, L!EndOnShutdown, L!PhaseInProgress
  <2>2. at[p] \in {"closing", "stopping"}
    BY <2>1 DEF CallsMatch
  <2> QED
    BY <1>a, <1>b, <2>1, <2>2 DEF Done, Returned, Cleanup
<1>2. CASE L!Stop(p)
  <2>1. at[p] = "stopping"
    BY <1>2 DEF L!Stop, CallsMatch
  <2>2. pc'[p] = "idle" /\ result'[p] = "nil" /\ shutdownHooksRun => shutdown
    BY <1>2 DEF L!Stop, L!Return, L!Goto
  <2>3. shutdown' = shutdown /\ shutdownHooksRun' = shutdownHooksRun
    BY <1>2 DEF L!Stop
  <2> QED
    BY <1>a, <1>b, <2>1, <2>2, <2>3 DEF Done, Returned, Cleanup
<1>3. CASE L!EndOnStop(p)
  <2>1. at[p] = "stopping" /\ shutdown'
    BY <1>3 DEF L!EndOnStop, CallsMatch
  <2> QED
    BY <1>a, <1>b, <2>1 DEF Done, Returned, Cleanup
<1> QED
  BY <1>1, <1>2, <1>3

\* The end of an attempt tells its outcome to all who wait for it, with what it has
\* done.
LEMMA FinishDone ==
    ASSUME CleanBase, [Next]_vars, NEW p \in Caller, NEW q \in Caller,
           clean \in [Caller -> BOOLEAN], Finish(p)
    PROVE  Done(q)'
<1> USE DEF CleanBase, CallsInv, L!TypeOK, L!FrameOK
<1>1. at[p] = "stopping" /\ Returned(p) /\ UNCHANGED <<lifecycle, draining, requests, jobs>>
  BY DEF Finish
<1>2. at' = Released(p)
  BY DEF Finish
<1>3. CASE q = p
  BY <1>2, <1>3, StaysDone, Labels DEF Released, Outside, Elsewhere
<1>4. CASE q # p /\ at[q] # "follow"
  <2>1. at'[q] = at[q] /\ clean'[q] = clean[q]
    BY <1>2, <1>4 DEF Released, Finish
  <2> QED
    BY <1>1, <2>1, StaysDone DEF lifecycle
<1>5. CASE q # p /\ at[q] = "follow"
  <2>1. at'[q] = "joined" /\ (clean'[q] => clean[p] /\ result[p] = "nil")
    BY <1>2, <1>5 DEF Released, Finish
  <2>2. Done(p) /\ draining
    BY <1>1 DEF CleanInv, DrainInv, Cleanup
  <2> QED
    BY <1>1, <2>1, <2>2 DEF Done, Cleanup, lifecycle
<1> QED
  BY <1>3, <1>4, <1>5

\* A step of one caller leaves the others with what they have done.
LEMMA OthersDone ==
    ASSUME CleanBase, [Next]_vars, NEW q \in Caller, at'[q] = at[q], clean'[q] = clean[q],
           pc'[q] = pc[q], method'[q] = method[q], result'[q] = result[q]
    PROVE  Done(q)'
BY StaysDone

\* Every step keeps CleanInv.
LEMMA CleanStep ==
    ASSUME CleanBase, clean \in [Caller -> BOOLEAN], [Next]_vars
    PROVE  CleanInv'
<1> SUFFICES ASSUME NEW q \in Caller
             PROVE  Done(q)'
  BY WorkStays DEF CleanInv, CleanBase
<1> DEFINE Calls == UNCHANGED <<pc, method, result>>
           OthersStay(p) == \A r \in Caller \ {p} :
               /\ at'[r] = at[r] /\ clean'[r] = clean[r]
               /\ pc'[r] = pc[r] /\ method'[r] = method[r] /\ result'[r] = result[r]
<1> USE DEF lifecycle, server
<1>a. at \in [Caller -> Label] /\ L!TypeOK
  BY DEF CleanBase, CallsInv
<1>1. ASSUME NEW p \in Caller, BeginRun(p) \/ RunStep(p)
      PROVE  Done(q)'
  <2>1. at'[p] \in Outside /\ clean' = clean /\ \A r \in Caller \ {p} : at'[r] = at[r]
    BY <1>a, <1>1 DEF BeginRun, RunStep, CallStart, StartReturned, Listen, Await,
                      MarkReturned, Unwind, LeaveServing, CleanUp, Goto, Elsewhere, Outside
  <2>2. CASE CallStart(p)
    <3>1. \A r \in Caller \ {p} :
             pc'[r] = pc[r] /\ method'[r] = method[r] /\ result'[r] = result[r]
      BY <1>a, <2>2 DEF CallStart, L!BeginStart, L!Enter, L!EnterReturn, L!TypeOK, L!FrameOK
    <3> QED
      BY <2>1, <3>1, StaysDone, OthersDone
  <2>3. CASE ~CallStart(p)
    <3>1. Calls
      BY <1>1, <2>3 DEF BeginRun, RunStep, StartReturned, Listen, Await, MarkReturned,
                        Unwind, LeaveServing
    <3> QED
      BY <2>1, <3>1, StaysDone, OthersDone
  <2> QED
    BY <2>2, <2>3
<1>2. ASSUME NEW p \in Caller, CallBeginShutdown(p) \/ WaitTasks(p)
      PROVE  Done(q)'
  <2>1. \A r \in Caller \ {p} :
           /\ at'[r] = at[r] /\ clean'[r] = clean[r]
           /\ pc'[r] = pc[r] /\ method'[r] = method[r] /\ result'[r] = result[r]
    BY <1>a, <1>2 DEF CallBeginShutdown, WaitTasks, Waited, Goto, L!BeginShutdown,
                L!AfterBeginShutdown, L!Enter, L!EnterReturn, L!TypeOK, L!FrameOK
  <2> QED
    BY <1>2, <2>1, BeginShutdownDone, StopCalled, OthersDone
<1>3. ASSUME NEW p \in Caller, Lead(p) \/ CloseHTTP(p) \/ Drain(p) \/ WaitJobs(p)
      PROVE  Done(q)'
  <2>1. /\ \A r \in Caller \ {p} : at'[r] = at[r] /\ clean'[r] = clean[r]
        /\ Calls
    BY <1>a, <1>3 DEF Lead, CloseHTTP, Drain, WaitJobs, Waited, Goto
  <2> QED
    BY <1>3, <2>1, CleanupDone, OthersDone
<1>4. ASSUME NEW p \in Caller, Follow(p) \/ InProgress(p) \/ GiveUp(p) \/ Joined(p)
                                 \/ CallShutdown(p)
      PROVE  Done(q)'
  <2>1. at'[p] \in Outside
    BY <1>a, <1>4, Labels DEF Follow, InProgress, GiveUp, Joined, CallShutdown, Return, Goto,
                        Elsewhere, Outside
  <2>2. /\ \A r \in Caller \ {p} : at'[r] = at[r] /\ clean'[r] = clean[r]
        /\ Calls
    BY <1>a, <1>4 DEF Follow, InProgress, GiveUp, Joined, CallShutdown, Return, Goto
  <2> QED
    BY <2>1, <2>2, StaysDone, OthersDone
<1>5. ASSUME NEW h \in Hook, NEW p \in Caller, HookCalls(h, p)
      PROVE  Done(q)'
  <2>1. /\ at'[h] = "shutdown" /\ Calls /\ clean' = clean
        /\ \A r \in Caller \ {h} : at'[r] = at[r]
    BY <1>a, <1>5, CallerAssumption DEF HookCalls, Goto
  <2> QED
    BY <2>1, StaysDone, OthersDone, CallerAssumption DEF Elsewhere, Outside
<1>6. ASSUME NEW p \in Caller, LifecycleStep(p)
      PROVE  Done(q)'
  <2>1. at' = at /\ clean' = clean
    BY <1>6 DEF LifecycleStep, EndOnStart, EndOnShutdown
  <2>2. \A r \in Caller \ {p} :
           pc'[r] = pc[r] /\ method'[r] = method[r] /\ result'[r] = result[r]
    BY <1>a, <1>6 DEF LifecycleStep, EndOnStart, EndOnShutdown, L!EndOnStart,
           L!EndOnShutdown, L!MarkStarted, L!Stop, L!EndOnStarted, L!EndOnStop, L!Return,
           L!Goto, L!TypeOK, L!FrameOK
  <2>3. CASE EndOnShutdown(p)
             \/ ((L!Stop(p) \/ L!EndOnStop(p)) /\ UNCHANGED <<server, jobs>>)
    BY <2>1, <2>2, <2>3, PhasesDone, OthersDone
  <2>4. CASE EndOnStart(p) \/ L!MarkStarted(p) \/ L!EndOnStarted(p)
    <3>1. pc[p] \in {"onStart", "mark", "onStarted"}
      BY <2>4 DEF EndOnStart, L!EndOnStart, L!MarkStarted, L!EndOnStarted
    <3>2. at[p] \notin {"closing", "stopping"}
      BY <3>1 DEF CleanBase, CallsInv, CallsMatch
    <3> QED
      BY <2>1, <2>2, <3>2, StaysDone, OthersDone
  <2> QED
    BY <1>6, <2>3, <2>4 DEF LifecycleStep
<1>7. ASSUME at' = at, clean' = clean, Calls
      PROVE  Done(q)'
  BY <1>7, OthersDone
<1>8. ASSUME NEW p \in Caller, Expire(p)
      PROVE  Done(q)'
  BY <1>7, <1>8 DEF Expire, L!Expire, L!frame
<1>9. ASSUME NEW t \in Task, TaskStep(t)
      PROVE  Done(q)'
  BY <1>7, <1>9 DEF TaskStep, L!Go, L!TaskFinished, L!frame
<1>10. ASSUME NEW r \in Request, RequestArrives(r) \/ RequestEnds(r)
       PROVE  Done(q)'
  BY <1>7, <1>10 DEF RequestArrives, RequestEnds
<1>11. CASE ServeAccepts \/ ServeReturns \/ JobsStop \/ UNCHANGED vars
  BY <1>7, <1>11 DEF ServeAccepts, ServeReturns, JobsStop, vars
<1>12. ASSUME NEW p \in Caller, Finish(p)
       PROVE  Done(q)'
  BY <1>12, FinishDone
<1> QED
  BY <1>1, <1>2, <1>3, <1>4, <1>5, <1>6, <1>8, <1>9, <1>10, <1>11, <1>12, CallerAssumption
  DEF Next, ShutdownStep


\* At every moment a Shutdown that has met no error has done what it has passed.
LEMMA CleanAlways == Spec => [](CleanBase /\ OwnTyped)
<1>1. Init => CleanBase /\ OwnTyped
  <2>1. Init => CleanInv
    BY Labels DEF Init, L!Init, CleanInv, Done, Cleanup
  <2>2. Init => OwnTyped
    BY CallerAssumption DEF Init, OwnTyped
  <2> QED
    BY <2>1, <2>2, DrainBaseInit DEF CleanBase
<1>2. CleanBase /\ OwnTyped /\ [Next]_vars => (CleanBase /\ OwnTyped)'
  <2> SUFFICES ASSUME CleanBase, OwnTyped, [Next]_vars
               PROVE  (CleanBase /\ OwnTyped)'
    OBVIOUS
  <2>1. (CallsInv /\ L!PhaseInv /\ DrainInv)'
    BY DrainBaseStep DEF CleanBase
  <2>2. CleanInv'
    BY CleanStep DEF OwnTyped
  <2>3. OwnTyped'
    BY TypeStep
  <2> QED
    BY <2>1, <2>2, <2>3 DEF CleanBase
<1> QED
  BY <1>1, <1>2, PTL DEF Spec

\* A Shutdown, or the Run that ends with it, that reports no error has done its work,
\* as the leader of the attempt or as one who joined it: its OnShutdown and OnStop hooks
\* ran, and requests, jobs and tasks ended (shutdownResources, joinShutdownAttempt).
THEOREM CleanReturns == Spec => CleanMeansDone
<1> DEFINE OneReturns ==
      \A p \in Caller :
         Returns(p) /\ clean'[p]
         => /\ shutdownHooksRun /\ shutdown
            /\ tasks = {} /\ requests = {} /\ jobs = "stopped"
<1>1. CleanBase /\ OwnTyped /\ [Next]_vars => [OneReturns]_vars
  <2> DEFINE Finished == /\ shutdownHooksRun /\ shutdown
                         /\ tasks = {} /\ requests = {} /\ jobs = "stopped"
  <2> SUFFICES ASSUME CleanBase, OwnTyped, [Next]_vars,
                      NEW p \in Caller, Returns(p), clean'[p]
               PROVE  Finished
    OBVIOUS
  <2>a. /\ at \in [Caller -> Label] /\ clean \in [Caller -> BOOLEAN] /\ Done(p)
        /\ at'[p] \in {"idle", "returned"} /\ at[p] \in ShutdownLabel
        /\ at'[p] # at[p]
    BY Labels DEF CleanBase, CallsInv, CleanInv, OwnTyped, Returns, ShutdownLabel, Cleanup
  <2>b. \A q \in Caller : \A label : Goto(q, label) /\ q # p => at'[p] = at[p]
    BY <2>a DEF Goto
  <2>1. ASSUME NEW q \in Caller, BeginRun(q) \/ RunStep(q)
        PROVE  FALSE
    <3>1. /\ at[q] \in {"idle", "start", "starting", "listen", "await", "mark", "marking",
                        "serving", "unwind"}
          /\ \E label : Goto(q, label)
      BY <2>1 DEF BeginRun, RunStep, CallStart, StartReturned, Listen, Await, MarkReturned,
                  Unwind, LeaveServing, CleanUp
    <3>2. q # p
      BY <2>a, <3>1 DEF ShutdownLabel, Cleanup
    <3> QED
      BY <2>a, <2>b, <3>1, <3>2
  <2>2. ASSUME NEW q \in Caller,
               CallShutdown(q) \/ CallBeginShutdown(q) \/ Follow(q) \/ Lead(q)
                 \/ CloseHTTP(q) \/ Drain(q) \/ WaitJobs(q) \/ WaitTasks(q)
        PROVE  FALSE
    <3>1. \E label \in {"shutdown", "closing", "follow", "http", "drain", "jobs", "tasks",
                        "stopping"} : Goto(q, label)
      BY <2>2 DEF CallShutdown, CallBeginShutdown, Follow, Lead, CloseHTTP, Drain, WaitJobs,
                  WaitTasks
    <3> QED
      BY <2>a, <3>1 DEF Goto
  <2>3. ASSUME NEW h \in Hook, NEW q \in Caller, HookCalls(h, q)
        PROVE  FALSE
    BY <2>a, <2>3, CallerAssumption DEF HookCalls, Goto
  <2>4. ASSUME NEW q \in Caller, InProgress(q) \/ GiveUp(q)
        PROVE  FALSE
    BY <2>a, <2>b, <2>4 DEF InProgress, GiveUp, Return
  <2>5. ASSUME NEW q \in Caller, Joined(q)
        PROVE  Finished
    <3>1. q = p
      BY <2>a, <2>b, <2>5 DEF Joined, Return
    <3>2. at[p] = "joined" /\ clean[p]
      BY <2>a, <2>5, <3>1 DEF Joined, Return
    <3> QED
      BY <2>a, <3>2 DEF Done
  <2>6. ASSUME NEW q \in Caller, Finish(q)
        PROVE  Finished
    <3>1. q = p
      BY <2>a, <2>6 DEF Finish, Released
    <3>2. at[p] = "stopping" /\ Returned(p) /\ clean[p] /\ result[p] = "nil"
      BY <2>a, <2>6, <3>1 DEF Finish
    <3> QED
      BY <2>a, <3>2 DEF Done, Cleanup
  <2>7. ASSUME UNCHANGED at
        PROVE  FALSE
    BY <2>a, <2>7
  <2>8. ASSUME NEW q \in Caller, LifecycleStep(q) \/ Expire(q)
        PROVE  FALSE
    BY <2>7, <2>8 DEF LifecycleStep, EndOnStart, EndOnShutdown, Expire, server
  <2>9. CASE ServeAccepts \/ ServeReturns \/ JobsStop \/ UNCHANGED vars
    BY <2>7, <2>9 DEF ServeAccepts, ServeReturns, JobsStop, server, vars
  <2>10. ASSUME NEW r \in Request, RequestArrives(r) \/ RequestEnds(r)
         PROVE  FALSE
    BY <2>7, <2>10 DEF RequestArrives, RequestEnds
  <2>11. ASSUME NEW t \in Task, TaskStep(t)
         PROVE  FALSE
    BY <2>7, <2>11 DEF TaskStep, server
  <2> QED
    BY <2>1, <2>2, <2>3, <2>4, <2>5, <2>6, <2>8, <2>9, <2>10, <2>11, CallerAssumption
    DEF Next, ShutdownStep
<1> QED
  BY <1>1, CleanAlways, PTL DEF Spec, CleanMeansDone

\* The whole inductive invariant: types, one cleanup, the drain, and what is done.
THEOREM ServerInvariant == Spec => []ServerInv
<1>1. CleanBase /\ OwnTyped /\ CleanupInv => ServerInv
  BY DEF CleanBase, OwnTyped, CallsInv, CleanupInv, ServerInv, TypeOK
<1> QED
  BY <1>1, CleanAlways, CleanupInvariant, PTL

-----------------------------------------------------------------------------
(* Graceful restart, for any number of processes                            *)

\* Every action keeps the types of the restart model.
LEMMA RestartTypeStep == RestartTypeOK /\ [RestartNext]_restartVars => RestartTypeOK'
<1> SUFFICES ASSUME RestartTypeOK, [RestartNext]_restartVars
             PROVE  RestartTypeOK'
  OBVIOUS
<1> USE MaxProcessAssumption DEF RestartTypeOK
<1>1. \A m \in Manager :
        /\ Over(m) \in Manager
        /\ [m EXCEPT !.ctx = "ended"] \in Manager
        /\ [m EXCEPT !.at = "await"] \in Manager
        /\ \A q \in Process : [m EXCEPT !.at = "await", !.child = q] \in Manager
        /\ [FreshManager EXCEPT !.handedOff = m.handedOff] \in Manager
        /\ \A request \in BOOLEAN :
             [FreshManager EXCEPT !.at = "called", !.running = TRUE, !.request = request,
                                  !.child = m.child] \in Manager
        /\ [Over(m) EXCEPT !.handedOff = TRUE, !.cleanup = TRUE] \in Manager
        /\ [Over(m) EXCEPT !.cleanup = FALSE] \in Manager
        /\ [m EXCEPT !.at = "handoff", !.handedOff = TRUE] \in Manager
  BY DEF Manager, Over, FreshManager
<1>2. FreshManager \in Manager
  BY DEF Manager, FreshManager
<1>3. ASSUME NEW p \in Process, Ends(p)
      PROVE  /\ phase' \in [Process -> Phase]
             /\ manager' \in [Process -> Manager]
             /\ signal' \in [Process -> {"none", "ready", "broken"}]
  BY <1>1, <1>3 DEF Ends, Phase
<1>4. ASSUME NEW p \in Process,
             Bind(p) \/ Started(p) \/ StartFails(p) \/ Exit(p) \/ Stop(p) \/ Die(p)
      PROVE  RestartTypeOK'
  BY <1>3, <1>4 DEF Bind, Started, StartFails, Exit, Stop, Die, Phase
<1>5. ASSUME NEW p \in Process, Call(p) \/ ContextEnds(p) \/ Refused(p)
      PROVE  RestartTypeOK'
  <2>1. \E m \in Manager : manager' = [manager EXCEPT ![p] = m]
    <3>1. CASE Call(p)
      BY <1>1, <3>1 DEF Call
    <3>2. CASE ContextEnds(p) \/ Refused(p)
      BY <1>1, <3>2 DEF ContextEnds, Refused
    <3> QED
      BY <1>5, <3>1, <3>2
  <2> QED
    BY <1>5, <2>1 DEF Call, ContextEnds, Refused
<1>9. ASSUME NEW p \in Process, Spawn(p)
      PROVE  RestartTypeOK'
  <2> PICK q \in Process :
         /\ phase' = [phase EXCEPT ![q] = "starting"]
         /\ manager' = [manager EXCEPT ![p] = [@ EXCEPT !.at = "await", !.child = q]]
    BY <1>9 DEF Spawn
  <2> QED
    BY <1>1, <1>9 DEF Spawn, Phase
<1>6. ASSUME NEW p \in Process, Abandon(p)
      PROVE  RestartTypeOK'
  <2> DEFINE killed == [manager EXCEPT ![p] = Over(@)]
  <2>1. killed \in [Process -> Manager]
    BY <1>1
  <2>2. manager' = [killed EXCEPT ![manager[p].child] = FreshManager]
    BY <1>6 DEF Abandon, KillChild
  <2>3. manager' \in [Process -> Manager]
    BY <1>2, <2>1, <2>2
  <2> QED
    BY <1>6, <2>3 DEF Abandon, KillChild, Phase
<1>7. ASSUME NEW p \in Process, Handoff(p)
      PROVE  RestartTypeOK'
  BY <1>1, <1>7 DEF Handoff
<1>8. ASSUME NEW p \in Process, ShutdownParent(p)
      PROVE  RestartTypeOK'
  BY <1>1, <1>8 DEF ShutdownParent, Phase
<1> QED
  BY <1>4, <1>5, <1>6, <1>7, <1>8, <1>9 DEF RestartNext, restartVars

-----------------------------------------------------------------------------
(* What each action does, process by process                                *)

\* Nothing changes of the processes outside S.
Only(S) ==
    \A r \in Process \ S :
        manager'[r] = manager[r] /\ phase'[r] = phase[r] /\ signal'[r] = signal[r]

LEMMA StartupEffect ==
    ASSUME RestartTypeOK, NEW p \in Process, Bind(p) \/ Started(p)
    PROVE  /\ Only({p}) /\ manager' = manager /\ disturbed' = disturbed
           /\ \/ phase[p] = "starting" /\ phase'[p] = "bound" /\ signal'[p] = signal[p]
              \/ phase[p] = "bound" /\ phase'[p] = "serving" /\ signal'[p] = "ready"
BY DEF RestartTypeOK, Bind, Started, Only

LEMMA EndEffect ==
    ASSUME RestartTypeOK, NEW p \in Process, StartFails(p) \/ Exit(p) \/ Die(p)
    PROVE  /\ Only({p}) /\ phase[p] \notin {"none", "dead"} /\ phase'[p] = "dead"
           /\ signal'[p] = IF signal[p] = "none" THEN "broken" ELSE signal[p]
           /\ LET m == manager'[p] IN
                /\ m.at = "idle" /\ m.child = NoChild /\ ~m.cleanup
                /\ m.handedOff = manager[p].handedOff
           /\ \/ disturbed'
              \/ p # 1 /\ phase[p] \in {"starting", "bound"}
              \/ phase[p] = "closing"
<1>1. Ends(p) /\ phase[p] \notin {"none", "dead"}
  BY DEF StartFails, Exit, Die, Alive
<1>2. manager'[p] = [FreshManager EXCEPT !.handedOff = manager[p].handedOff]
  BY <1>1 DEF Ends, RestartTypeOK
<1>3. Only({p}) /\ phase'[p] = "dead"
      /\ signal'[p] = IF signal[p] = "none" THEN "broken" ELSE signal[p]
  BY <1>1 DEF Ends, RestartTypeOK, Only
<1>4. \/ disturbed'
      \/ p # 1 /\ phase[p] \in {"starting", "bound"}
      \/ phase[p] = "closing"
  BY DEF StartFails, Exit, Die
<1> QED
  BY <1>1, <1>2, <1>3, <1>4 DEF FreshManager

LEMMA StopEffect ==
    ASSUME RestartTypeOK, NEW p \in Process, Stop(p)
    PROVE  /\ Only({p}) /\ manager' = manager /\ signal' = signal /\ disturbed'
           /\ Alive(p) /\ phase'[p] = "closing"
BY DEF RestartTypeOK, Stop, Only, Accepting, Alive

LEMMA CallEffect ==
    ASSUME RestartTypeOK, NEW p \in Process, Call(p)
    PROVE  /\ Only({p}) /\ phase' = phase /\ signal' = signal /\ disturbed' = disturbed
           /\ Alive(p) /\ ~manager[p].handedOff /\ ~manager[p].running
           /\ LET m == manager'[p] IN
                /\ m.at = "called" /\ m.running /\ ~m.handedOff /\ ~m.cleanup
                /\ m.child = manager[p].child
<1>1. PICK request \in BOOLEAN :
        manager' = [manager EXCEPT ![p] = [FreshManager EXCEPT
                      !.at = "called", !.running = TRUE, !.request = request,
                      !.child = manager[p].child]]
  BY DEF Call
<1>2. manager'[p] = [FreshManager EXCEPT
                      !.at = "called", !.running = TRUE, !.request = request,
                      !.child = manager[p].child]
  BY <1>1 DEF RestartTypeOK
<1>3. Only({p}) /\ phase' = phase /\ signal' = signal /\ disturbed' = disturbed
      /\ Alive(p) /\ ~manager[p].handedOff /\ ~manager[p].running
  BY <1>1 DEF Call, Only
<1> QED
  BY <1>2, <1>3 DEF FreshManager

LEMMA WaitEffect ==
    ASSUME RestartTypeOK, NEW p \in Process, ContextEnds(p) \/ Refused(p)
    PROVE  /\ Only({p}) /\ phase' = phase /\ signal' = signal /\ disturbed' = disturbed
           /\ LET m == manager'[p] IN
                /\ m.at # manager[p].at => m.at = "idle" /\ manager[p].at = "called"
                /\ m.running # manager[p].running => m.at = "idle"
                /\ m.child = manager[p].child /\ m.cleanup = manager[p].cleanup
                /\ m.handedOff = manager[p].handedOff
<1>1. manager[p] \in Manager
  BY DEF RestartTypeOK
<1>2. CASE ContextEnds(p)
  <2>1. manager' = [manager EXCEPT ![p] = [manager[p] EXCEPT !.ctx = "ended"]]
    BY <1>2 DEF ContextEnds, RestartTypeOK
  <2>2. manager'[p] = [manager[p] EXCEPT !.ctx = "ended"]
    BY <2>1 DEF RestartTypeOK
  <2>3. Only({p}) /\ phase' = phase /\ signal' = signal /\ disturbed' = disturbed
    BY <1>2, <2>1 DEF ContextEnds, Only
  <2> QED
    BY <1>1, <2>2, <2>3 DEF Manager
<1>3. CASE Refused(p)
  <2>1. manager'[p] = Over(manager[p]) /\ manager[p].at = "called"
    BY <1>3 DEF Refused, RestartTypeOK
  <2>2. Only({p}) /\ phase' = phase /\ signal' = signal /\ disturbed' = disturbed
    BY <1>3 DEF Refused, Only
  <2> QED
    BY <1>1, <2>1, <2>2 DEF Over, Manager
<1> QED
  BY <1>2, <1>3

LEMMA SpawnEffect ==
    ASSUME RestartTypeOK, NEW p \in Process, Spawn(p)
    PROVE  \E q \in Process :
             /\ Only({p, q}) /\ signal' = signal /\ disturbed' = disturbed
             /\ phase[q] = "none" /\ \A r \in 1..(q - 1) : phase[r] # "none"
             /\ q # p /\ manager'[q] = manager[q] /\ phase'[q] = "starting"
             /\ phase'[p] = phase[p] /\ Alive(p) /\ manager[p].at = "called"
             /\ LET m == manager'[p] IN
                  /\ m.at = "await" /\ m.child = q /\ m.running = manager[p].running
                  /\ m.cleanup = manager[p].cleanup /\ m.handedOff = manager[p].handedOff
<1>1. PICK q \in Process :
         /\ phase[q] = "none" /\ \A r \in 1..(q - 1) : phase[r] # "none"
         /\ phase' = [phase EXCEPT ![q] = "starting"]
         /\ manager' = [manager EXCEPT ![p] = [@ EXCEPT !.at = "await", !.child = q]]
  BY DEF Spawn
<1>2. q # p /\ Alive(p) /\ manager[p].at = "called" /\ signal' = signal /\ disturbed' = disturbed
  BY <1>1 DEF Spawn, Accepting, Alive
<1>3. manager'[p] = [manager[p] EXCEPT !.at = "await", !.child = q]
  BY <1>1 DEF RestartTypeOK
<1>4. /\ Only({p, q}) /\ manager'[q] = manager[q]
      /\ phase'[q] = "starting" /\ phase'[p] = phase[p]
  BY <1>1, <1>2 DEF RestartTypeOK, Only
<1>5. manager[p] \in Manager
  BY DEF RestartTypeOK
<1>6. LET m == manager'[p] IN
        /\ m.at = "await" /\ m.child = q /\ m.running = manager[p].running
        /\ m.cleanup = manager[p].cleanup /\ m.handedOff = manager[p].handedOff
  BY <1>3, <1>5 DEF Manager
<1> QED
  BY <1>1, <1>2, <1>4, <1>6

LEMMA AbandonEffect ==
    ASSUME RestartTypeOK, AttemptInv, NEW p \in Process, Abandon(p)
    PROVE  \E q \in Process :
             /\ Only({p, q}) /\ signal' = signal /\ disturbed' = disturbed
             /\ p < q /\ p # q /\ Awaits(p, q) /\ phase[q] # "none" /\ ~manager[p].handedOff
             /\ phase'[q] = "dead" /\ phase'[p] = phase[p]
             /\ LET m == manager'[q] IN
                  m.at = "idle" /\ m.child = NoChild /\ ~m.cleanup /\ ~m.handedOff
             /\ LET m == manager'[p] IN
                  m.at = "idle" /\ m.child = q /\ ~m.handedOff /\ m.cleanup = manager[p].cleanup
<1>1. PICK q \in Process : p < q /\ q = manager[p].child /\ Awaits(p, q) /\ phase[q] # "none"
                           /\ ~manager[p].handedOff
  BY DEF Abandon, AttemptInv, RestartTypeOK, Manager, Awaits
<1>2. p # q
  BY <1>1, MaxProcessAssumption DEF Process
<1>3. /\ manager' = [manager EXCEPT ![p] = Over(@), ![q] = FreshManager]
      /\ phase' = [phase EXCEPT ![q] = "dead"] /\ signal' = signal /\ disturbed' = disturbed
  BY <1>1 DEF Abandon, KillChild
<1>4. manager'[p] = Over(manager[p]) /\ manager'[q] = FreshManager
  BY <1>2, <1>3 DEF RestartTypeOK
<1>5. Only({p, q}) /\ phase'[q] = "dead" /\ phase'[p] = phase[p]
  BY <1>2, <1>3 DEF RestartTypeOK, Only
<1>6. manager[p] \in Manager /\ manager[p].child = q
  BY <1>1 DEF RestartTypeOK
<1>7. LET m == manager'[q] IN
        m.at = "idle" /\ m.child = NoChild /\ ~m.cleanup /\ ~m.handedOff
  BY <1>4 DEF FreshManager
<1>8. LET m == manager'[p] IN
        m.at = "idle" /\ m.child = q /\ ~m.handedOff /\ m.cleanup = manager[p].cleanup
  BY <1>1, <1>4, <1>6 DEF Manager, Over
<1> QED
  BY <1>1, <1>2, <1>3, <1>5, <1>7, <1>8

LEMMA HandoffEffect ==
    ASSUME RestartTypeOK, NEW p \in Process, Handoff(p)
    PROVE  /\ Only({p}) /\ phase' = phase /\ signal' = signal /\ disturbed' = disturbed
           /\ manager[p].at = "await" /\ signal[manager[p].child] = "ready"
           /\ LET m == manager'[p] IN
                /\ m.handedOff /\ m.child = manager[p].child
                /\ \/ m.at = "idle" /\ m.cleanup
                   \/ /\ m.at = "handoff" /\ m.running = manager[p].running
                      /\ m.cleanup = manager[p].cleanup
<1>1. \/ manager'[p] = [Over(manager[p]) EXCEPT !.handedOff = TRUE, !.cleanup = TRUE]
      \/ manager'[p] = [manager[p] EXCEPT !.at = "handoff", !.handedOff = TRUE]
  BY DEF RestartTypeOK, Handoff
<1>2. /\ Only({p}) /\ phase' = phase /\ signal' = signal /\ disturbed' = disturbed
      /\ manager[p].at = "await" /\ signal[manager[p].child] = "ready"
  BY DEF Handoff, Only
<1>3. manager[p] \in Manager
  BY DEF RestartTypeOK
<1> QED
  BY <1>1, <1>2, <1>3 DEF Over, Manager

LEMMA ShutdownEffect ==
    ASSUME RestartTypeOK, NEW p \in Process, ShutdownParent(p)
    PROVE  /\ Only({p}) /\ signal' = signal /\ disturbed' = disturbed
           /\ manager[p].at = "handoff" \/ manager[p].cleanup
           /\ phase'[p] = "closing"
           /\ LET m == manager'[p] IN
                /\ m.at = "idle" /\ ~m.cleanup /\ m.child = manager[p].child
                /\ m.handedOff = manager[p].handedOff
<1>1. manager'[p] = [Over(manager[p]) EXCEPT !.cleanup = FALSE]
  BY DEF RestartTypeOK, ShutdownParent
<1>2. /\ Only({p}) /\ signal' = signal /\ disturbed' = disturbed
      /\ manager[p].at = "handoff" \/ manager[p].cleanup
      /\ phase'[p] = "closing"
  BY DEF RestartTypeOK, ShutdownParent, Only
<1>3. manager[p] \in Manager
  BY DEF RestartTypeOK
<1> QED
  BY <1>1, <1>2, <1>3 DEF Over, Manager

-----------------------------------------------------------------------------
(* The invariant                                                            *)

\* Children are processes.
LEMMA ChildTyped ==
    ASSUME RestartTypeOK, NEW p \in Process
    PROVE  manager[p].child # NoChild => manager[p].child \in Process
BY DEF RestartTypeOK, Manager

LEMMA AttemptStep ==
    RestartTypeOK /\ AttemptInv /\ [RestartNext]_restartVars => AttemptInv'
<1> SUFFICES ASSUME RestartTypeOK, AttemptInv, [RestartNext]_restartVars
             PROVE  AttemptInv'
  OBVIOUS
<1>0. RestartTypeOK'
  BY RestartTypeStep
<1>a. \A r \in Process : manager[r].child # NoChild => manager[r].child \in Process
  BY ChildTyped
<1> USE <1>a DEF AttemptInv, Awaits, Alive, Only
<1>1. ASSUME NEW p \in Process, Bind(p) \/ Started(p)
      PROVE  AttemptInv'
  BY <1>1, StartupEffect
<1>2. ASSUME NEW p \in Process, StartFails(p) \/ Exit(p) \/ Die(p)
      PROVE  AttemptInv'
  BY <1>2, EndEffect
<1>3. ASSUME NEW p \in Process, Stop(p)
      PROVE  AttemptInv'
  BY <1>3, StopEffect
<1>4. ASSUME NEW p \in Process, Call(p)
      PROVE  AttemptInv'
  BY <1>4, CallEffect
<1>5. ASSUME NEW p \in Process, ContextEnds(p) \/ Refused(p)
      PROVE  AttemptInv'
  BY <1>5, WaitEffect
<1>6. ASSUME NEW p \in Process, Spawn(p)
      PROVE  AttemptInv'
  BY <1>6, SpawnEffect, MaxProcessAssumption DEF Process, NoChild
<1>7. ASSUME NEW p \in Process, Abandon(p)
      PROVE  AttemptInv'
  BY <1>7, AbandonEffect
<1>8. ASSUME NEW p \in Process, Handoff(p)
      PROVE  AttemptInv'
  BY <1>8, HandoffEffect
<1>9. ASSUME NEW p \in Process, ShutdownParent(p)
      PROVE  AttemptInv'
  BY <1>9, ShutdownEffect
<1>10. CASE UNCHANGED restartVars
  BY <1>10 DEF restartVars
<1> QED
  BY <1>1, <1>2, <1>3, <1>4, <1>5, <1>6, <1>7, <1>8, <1>9, <1>10 DEF RestartNext


\* Nothing but a handoff makes a process one that has handed over.
LEMMA HandedOffByHandoff ==
    ASSUME RestartTypeOK, AttemptInv, [RestartNext]_restartVars,
           NEW p \in Process, ~manager[p].handedOff, manager'[p].handedOff
    PROVE  Handoff(p)
<1> USE DEF Only
<1>1. \A r \in Process : ~(Bind(r) \/ Started(r))
  BY StartupEffect
<1>2. \A r \in Process : ~(StartFails(r) \/ Exit(r) \/ Die(r))
  BY EndEffect
<1>3. \A r \in Process : ~Stop(r)
  BY StopEffect
<1>4. \A r \in Process : ~Call(r)
  BY CallEffect
<1>5. \A r \in Process : ~(ContextEnds(r) \/ Refused(r))
  BY WaitEffect
<1>6. \A r \in Process : ~Spawn(r)
  BY SpawnEffect
<1>7. \A r \in Process : ~Abandon(r)
  BY AbandonEffect
<1>8. \A r \in Process : Handoff(r) => r = p
  BY HandoffEffect
<1>9. \A r \in Process : ~ShutdownParent(r)
  BY ShutdownEffect
<1>10. ~UNCHANGED restartVars
  BY DEF restartVars
<1> QED
  BY <1>1, <1>2, <1>3, <1>4, <1>5, <1>6, <1>7, <1>8, <1>9, <1>10 DEF RestartNext

\* Who stands goes on standing until it hands over.
LEMMA StandingStays ==
    ASSUME RestartTypeOK, AttemptInv, [RestartNext]_restartVars, ~disturbed',
           NEW s \in Process, Standing(s), ~Handoff(s)
    PROVE  Standing(s)'
<1>1. phase[s] \in IF s = 1 THEN {"bound", "serving"} ELSE {"serving"}
  BY DEF Standing
<1>2. ~manager'[s].handedOff
  BY HandedOffByHandoff DEF Standing
<1>3. \A q \in Process : ~Awaits(q, s)
  BY DEF Standing
<1>4. ASSUME phase'[s] \in IF s = 1 THEN {"bound", "serving"} ELSE {"serving"},
             \A q \in Process : ~Awaits(q, s)'
      PROVE  Standing(s)'
  BY <1>2, <1>4 DEF Standing
<1> USE DEF Only, Awaits
<1>5. ASSUME NEW p \in Process, Bind(p) \/ Started(p)
      PROVE  Standing(s)'
  BY <1>1, <1>3, <1>4, <1>5, StartupEffect
<1>6. ASSUME NEW p \in Process, StartFails(p) \/ Exit(p) \/ Die(p)
      PROVE  Standing(s)'
  BY <1>1, <1>3, <1>4, <1>6, EndEffect
<1>7. \A p \in Process : ~Stop(p)
  BY StopEffect
<1>8. ASSUME NEW p \in Process, Call(p)
      PROVE  Standing(s)'
  BY <1>1, <1>3, <1>4, <1>8, CallEffect
<1>9. ASSUME NEW p \in Process, ContextEnds(p) \/ Refused(p)
      PROVE  Standing(s)'
  BY <1>1, <1>3, <1>4, <1>9, WaitEffect
<1>10. ASSUME NEW p \in Process, Spawn(p)
       PROVE  Standing(s)'
  BY <1>1, <1>3, <1>4, <1>10, SpawnEffect
<1>11. ASSUME NEW p \in Process, Abandon(p)
       PROVE  Standing(s)'
  BY <1>1, <1>3, <1>4, <1>11, AbandonEffect
<1>12. ASSUME NEW p \in Process, Handoff(p)
       PROVE  Standing(s)'
  BY <1>1, <1>3, <1>4, <1>12, HandoffEffect
<1>13. ASSUME NEW p \in Process, ShutdownParent(p)
       PROVE  Standing(s)'
  <2>1. p # s
    BY <1>13, ShutdownEffect DEF AttemptInv, Standing
  <2> QED
    BY <1>1, <1>3, <1>4, <1>13, <2>1, ShutdownEffect
<1>14. CASE UNCHANGED restartVars
  BY <1>1, <1>3, <1>4, <1>14 DEF restartVars
<1> QED
  BY <1>5, <1>6, <1>7, <1>8, <1>9, <1>10, <1>11, <1>12, <1>13, <1>14 DEF RestartNext

\* After a handoff the child stands, or somebody later does already.
LEMMA HandoffStands ==
    ASSUME RestartTypeOK, AttemptInv, StandInv, [RestartNext]_restartVars, ~disturbed',
           NEW p \in Process, Handoff(p)
    PROVE  \E s \in Process : p < s /\ Standing(s)'
<1>1. PICK q \in Process : p < q /\ Awaits(p, q) /\ signal[q] = "ready"
  BY HandoffEffect, ChildTyped DEF AttemptInv, Awaits
<1>2. /\ \A r \in Process : r # p => manager'[r] = manager[r]
      /\ manager'[p].at # "await" /\ manager'[p].handedOff
      /\ phase' = phase /\ ~disturbed
  BY HandoffEffect DEF Only
<1>3. CASE phase[q] = "serving" /\ ~manager[q].handedOff
  <2>1. \A r \in Process : r # p => ~Awaits(r, q)
    BY <1>1 DEF AttemptInv
  <2>2. p # q
    BY <1>1, MaxProcessAssumption DEF Process
  <2>3. Standing(q)'
    BY <1>1, <1>2, <1>3, <2>1, <2>2 DEF Standing, Awaits
  <2> QED
    BY <1>1, <2>3
<1>4. CASE manager[q].handedOff
  <2>1. PICK s \in Process : q < s /\ Standing(s)
    BY <1>2, <1>4 DEF StandInv
  <2>2. p < s /\ s # p
    BY <1>1, <2>1, MaxProcessAssumption DEF Process
  <2>3. ~manager'[s].handedOff
    BY <1>2, <2>1, <2>2 DEF Standing
  <2>4. ~Handoff(s)
    BY <2>3, HandoffEffect
  <2> QED
    BY <2>1, <2>2, <2>4, StandingStays
<1> QED
  BY <1>1, <1>2, <1>3, <1>4 DEF StandInv

\* A child that has reported ready serves or has handed over, as long as it is awaited.
LEMMA ReadyServes ==
    ASSUME RestartTypeOK, AttemptInv, [RestartNext]_restartVars, ~disturbed',
           NEW p \in Process, NEW q \in Process,
           Awaits(p, q) /\ signal[q] = "ready" => phase[q] = "serving" \/ manager[q].handedOff,
           Awaits(p, q)', signal'[q] = "ready"
    PROVE  phase'[q] = "serving" \/ manager'[q].handedOff
<1> DEFINE Goal == phase'[q] = "serving" \/ manager'[q].handedOff
<1> SUFFICES Goal
  OBVIOUS
<1> USE DEF Only, Awaits
<1>1. ASSUME NEW r \in Process, Bind(r) \/ Started(r)
      PROVE  Goal
  BY <1>1, StartupEffect
<1>2. ASSUME NEW r \in Process, StartFails(r) \/ Exit(r) \/ Die(r)
      PROVE  Goal
  BY <1>2, EndEffect
<1>3. \A r \in Process : ~Stop(r)
  BY StopEffect
<1>4. ASSUME NEW r \in Process, Call(r)
      PROVE  Goal
  BY <1>4, CallEffect
<1>5. ASSUME NEW r \in Process, ContextEnds(r) \/ Refused(r)
      PROVE  Goal
  BY <1>5, WaitEffect
<1>6. ASSUME NEW r \in Process, Spawn(r)
      PROVE  Goal
  BY <1>6, SpawnEffect DEF AttemptInv
<1>7. ASSUME NEW r \in Process, Abandon(r)
      PROVE  Goal
  <2>1. PICK c \in Process :
          /\ Only({r, c}) /\ signal' = signal /\ r # c /\ Awaits(r, c)
          /\ manager'[c].at = "idle" /\ manager'[r].at = "idle"
          /\ phase'[r] = phase[r] /\ ~manager[r].handedOff
    BY <1>7, AbandonEffect
  <2>2. p # r /\ p # c /\ Awaits(p, q)
    BY <2>1
  <2>3. q # c
    BY <2>1, <2>2 DEF AttemptInv
  <2> QED
    BY <2>1, <2>2, <2>3
<1>8. ASSUME NEW r \in Process, Handoff(r)
      PROVE  Goal
  BY <1>8, HandoffEffect
<1>9. ASSUME NEW r \in Process, ShutdownParent(r)
      PROVE  Goal
  BY <1>9, ShutdownEffect DEF AttemptInv
<1>10. CASE UNCHANGED restartVars
  BY <1>10 DEF restartVars
<1> QED
  BY <1>1, <1>2, <1>3, <1>4, <1>5, <1>6, <1>7, <1>8, <1>9, <1>10 DEF RestartNext

LEMMA StandStep ==
    RestartTypeOK /\ AttemptInv /\ StandInv /\ [RestartNext]_restartVars => StandInv'
<1> SUFFICES ASSUME RestartTypeOK, AttemptInv, StandInv, [RestartNext]_restartVars, ~disturbed'
             PROVE  StandInv'
  BY DEF StandInv
<1> USE DEF RestartTypeOK
<1>1. ~disturbed
  BY DEF RestartNext, restartVars, Bind, Started, StartFails, Exit, Stop, Die, Call, ContextEnds,
         Refused, Spawn, Abandon, KillChild, Handoff, ShutdownParent
<1>2. \E s \in Process : Standing(s)'
  <2>1. PICK s \in Process : Standing(s)
    BY <1>1 DEF StandInv
  <2> QED
    BY <2>1, HandoffStands, StandingStays
<1>3. ASSUME NEW p \in Process, manager'[p].handedOff
      PROVE  \E s \in Process : p < s /\ Standing(s)'
  <2>1. CASE manager[p].handedOff
    <3>1. PICK s \in Process : p < s /\ Standing(s)
      BY <1>1, <2>1 DEF StandInv
    <3>2. CASE Handoff(s)
      <4>1. PICK t \in Process : s < t /\ Standing(t)'
        BY <3>2, HandoffStands
      <4> QED
        BY <3>1, <4>1, MaxProcessAssumption DEF Process
    <3> QED
      BY <3>1, <3>2, StandingStays
  <2>2. CASE ~manager[p].handedOff
    <3>1. Handoff(p)
      BY <1>3, <2>2, HandedOffByHandoff
    <3> QED
      BY <3>1, HandoffStands
  <2> QED
    BY <2>1, <2>2
<1>4. \A p, q \in Process :
        Awaits(p, q) /\ signal[q] = "ready" => phase[q] = "serving" \/ manager[q].handedOff
  BY <1>1 DEF StandInv
<1>5. ASSUME NEW p \in Process, NEW q \in Process, Awaits(p, q)', signal'[q] = "ready"
      PROVE  phase'[q] = "serving" \/ manager'[q].handedOff
  BY <1>4, <1>5, ReadyServes
<1> QED
  BY <1>2, <1>3, <1>5 DEF StandInv

\* RestartInv is inductive.
THEOREM RestartInvariant == RestartSpec => []RestartInv
<1>1. RestartInit => RestartInv
  <2> SUFFICES ASSUME RestartInit
               PROVE  RestartInv
    OBVIOUS
  <2>1. FreshManager \in Manager
    BY DEF FreshManager, Manager
  <2>2. PICK first \in {"bound", "serving"} :
          phase = [p \in Process |-> IF p = 1 THEN first ELSE "none"]
    BY DEF RestartInit
  <2>3. /\ 1 \in Process /\ phase[1] = first
        /\ \A p \in Process : /\ p # 1 => phase[p] = "none"
                              /\ manager[p] = FreshManager /\ signal[p] = "none"
    BY <2>2, MaxProcessAssumption DEF RestartInit, Process
  <2>4. RestartTypeOK
    BY <2>1, <2>2 DEF RestartInit, RestartTypeOK, Phase
  <2>5. AttemptInv
    <3>1. \A p, q \in Process : p < q => q # 1
      BY MaxProcessAssumption DEF Process
    <3> QED
      BY <2>3, <3>1 DEF AttemptInv, Awaits, FreshManager
  <2>6. StandInv
    BY <2>3 DEF StandInv, Standing, Awaits, FreshManager
  <2> QED
    BY <2>4, <2>5, <2>6 DEF RestartInv
<1>2. RestartInv /\ [RestartNext]_restartVars => RestartInv'
  BY RestartTypeStep, AttemptStep, StandStep DEF RestartInv
<1> QED
  BY <1>1, <1>2, PTL DEF RestartSpec

\* Zero downtime (restart.go:29-31): while nobody stops or kills a process from outside,
\* some process accepts connections.
THEOREM AddressServed == RestartSpec => []AlwaysServed
<1>1. RestartInv => AlwaysServed
  BY DEF RestartInv, StandInv, AlwaysServed, Standing, Accepting
<1> QED
  BY <1>1, RestartInvariant, PTL

\* Who spawns a child (Spawn) has no other that lives.
THEOREM SingleSuccessor == RestartSpec => OneSuccessor
<1>1. RestartInv /\ [RestartNext]_restartVars =>
        [\A p \in Process :
           manager[p].at # "await" /\ manager'[p].at = "await"
             => \A q \in Process : manager[p].child = q => ~Alive(q)]_restartVars
  <2> SUFFICES ASSUME RestartInv, [RestartNext]_restartVars, NEW p \in Process,
                      manager[p].at # "await", manager'[p].at = "await",
                      NEW q \in Process, manager[p].child = q
               PROVE  ~Alive(q)
    OBVIOUS
  <2>1. manager[p].at = "called"
    <3> USE DEF Only, RestartInv
    <3>1. \A r \in Process : ~(Bind(r) \/ Started(r)) /\ ~Stop(r)
      BY StartupEffect, StopEffect
    <3>2. \A r \in Process : ~(StartFails(r) \/ Exit(r) \/ Die(r))
      BY EndEffect
    <3>3. \A r \in Process : ~Call(r) /\ ~(ContextEnds(r) \/ Refused(r))
      BY CallEffect, WaitEffect
    <3>4. \A r \in Process : Spawn(r) => manager[p].at = "called"
      BY SpawnEffect
    <3>5. \A r \in Process : ~Abandon(r)
      BY AbandonEffect
    <3>6. \A r \in Process : ~Handoff(r) /\ ~ShutdownParent(r)
      BY HandoffEffect, ShutdownEffect
    <3> QED
      BY <3>1, <3>2, <3>3, <3>4, <3>5, <3>6 DEF RestartNext, restartVars
  <2> QED
    BY <2>1, MaxProcessAssumption DEF RestartInv, AttemptInv, Alive, NoChild, Process
<1> QED
  BY <1>1, RestartInvariant, PTL DEF RestartSpec, OneSuccessor

=============================================================================
