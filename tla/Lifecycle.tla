------------------------------ MODULE Lifecycle ------------------------------
(***************************************************************************)
(* The lifecycle manager, src/lifecycle/lifecycle.go: four phases of hooks   *)
(* (OnStart, OnStarted, OnShutdown, OnStop), each run by the goroutine that  *)
(* entered the phase with lifecycle.mu released, and tracked tasks.          *)
(*                                                                           *)
(* A caller is a goroutine inside one call, or a call that a hook makes: no  *)
(* method waits for a phase, so a call from a hook is one more caller.  An   *)
(* action is one critical section of lifecycle.mu; the hooks of a phase run  *)
(* between the action that enters it and the one that ends it.               *)
(***************************************************************************)
CONSTANTS Caller,     \* goroutines and hooks that call the lifecycle
          Task        \* tasks handed to Go

VARIABLES
    startRunning, startHooksRun,        \* BeginStart
    starting, started,                  \* MarkStarted
    shutdownOnce,                       \* shutdown was requested; tasks cancelled
    shutdownRunning, shutdownHooksRun,  \* BeginShutdown
    stopRunning, shutdown,              \* Stop
    shutdownErr, stopErr,               \* stored outcomes of the two attempts
    tasks,                              \* tracked tasks that have not returned
    pc,                                 \* per caller: where it is
    method,                             \* the method it called
    result,                             \* what that method returned
    expired                             \* callers whose context has ended

startup == <<startRunning, startHooksRun, starting, started>>
closing == <<shutdownOnce, shutdownRunning, shutdownHooksRun, stopRunning, shutdown,
             shutdownErr, stopErr>>
frame == <<pc, method, result>>
vars == <<startup, closing, tasks, frame, expired>>

Startup == {"BeginStart", "MarkStarted"}      \* Start is BeginStart; MarkStarted
Closing == {"BeginShutdown", "Stop"}

\* Results: nil, the context's error, a hook's error, context.Canceled,
\* ErrPhaseInProgress and ErrStartupInProgress.
Result == {"nil", "ctx", "hook", "canceled", "inProgress", "startupInProgress"}

\* What errors.Is takes for ErrPhaseInProgress: ErrStartupInProgress wraps it.
PhaseInProgress == {"inProgress", "startupInProgress"}

\* What the hooks of a phase come to.  A hook that calls the lifecycle and passes
\* on what it got may return an error of PhaseInProgress, here its plain one; its
\* other errors are one.
HookError == {"nil", "hook", "inProgress"}

Label == {"idle", "onStart", "mark", "onStarted", "onShutdown", "stop", "onStop"}

FrameOK ==
    /\ pc \in [Caller -> Label]
    /\ method \in [Caller -> Startup \cup Closing]
    /\ result \in [Caller -> Result]

TypeOK ==
    /\ startRunning \in BOOLEAN /\ startHooksRun \in BOOLEAN
    /\ starting \in BOOLEAN /\ started \in BOOLEAN
    /\ shutdownOnce \in BOOLEAN
    /\ shutdownRunning \in BOOLEAN /\ shutdownHooksRun \in BOOLEAN
    /\ stopRunning \in BOOLEAN /\ shutdown \in BOOLEAN
    /\ shutdownErr \in Result /\ stopErr \in Result
    /\ tasks \subseteq Task
    /\ FrameOK
    /\ expired \subseteq Caller

Init ==
    /\ startRunning = FALSE /\ startHooksRun = FALSE
    /\ starting = FALSE /\ started = FALSE
    /\ shutdownOnce = FALSE /\ shutdownRunning = FALSE /\ shutdownHooksRun = FALSE
    /\ stopRunning = FALSE /\ shutdown = FALSE
    /\ shutdownErr = "nil" /\ stopErr = "nil"
    /\ tasks = {} /\ expired = {}
    /\ pc = [p \in Caller |-> "idle"]
    /\ method = [p \in Caller |-> "BeginStart"]
    /\ result = [p \in Caller |-> "nil"]

-----------------------------------------------------------------------------
(* Control flow of a call                                                   *)

Goto(p, label) ==
    /\ pc' = [pc EXCEPT ![p] = label]
    /\ UNCHANGED <<method, result>>

Return(p, r) ==
    /\ pc' = [pc EXCEPT ![p] = "idle"]
    /\ result' = [result EXCEPT ![p] = r]
    /\ UNCHANGED method

Enter(p, m, label) ==
    /\ pc' = [pc EXCEPT ![p] = label]
    /\ method' = [method EXCEPT ![p] = m]
    /\ UNCHANGED result

EnterReturn(p, m, r) ==
    /\ pc[p] = "idle"
    /\ method' = [method EXCEPT ![p] = m]
    /\ result' = [result EXCEPT ![p] = r]
    /\ UNCHANGED pc

ClosingRequested == shutdownOnce \/ shutdown

\* Mutant: only the hooks before the listener count as startup.
OnStartActive == startRunning
StartupActive == startRunning \/ starting

-----------------------------------------------------------------------------
(* BeginStart and MarkStarted                                               *)

\* BeginStart, called directly or by MarkStarted, up to its hooks.
BeginStart(p, m) ==
    /\ pc[p] = "idle" /\ m \in Startup
    /\ \/ /\ p \in expired
          /\ EnterReturn(p, m, "ctx")
          /\ UNCHANGED startRunning
       \/ /\ p \notin expired /\ startHooksRun
          /\ IF m = "MarkStarted" THEN Enter(p, m, "mark") ELSE EnterReturn(p, m, "nil")
          /\ UNCHANGED startRunning
       \/ /\ p \notin expired /\ ~startHooksRun /\ ClosingRequested
          /\ EnterReturn(p, m, "canceled")
          /\ UNCHANGED startRunning
       \/ /\ p \notin expired /\ ~startHooksRun /\ ~ClosingRequested /\ startRunning
          /\ EnterReturn(p, m, "inProgress")
          /\ UNCHANGED startRunning
       \/ /\ p \notin expired /\ ~startHooksRun /\ ~ClosingRequested /\ ~startRunning
          /\ startRunning' = TRUE
          /\ Enter(p, m, "onStart")
    /\ UNCHANGED <<startHooksRun, starting, started, closing, tasks, expired>>

\* Mutant: a request made while the hooks ran is not noticed.
OutcomeOfHooks(p, err) ==
    IF err = "nil" /\ p \in expired THEN "ctx" ELSE err

\* The outcome of a startup phase whose hooks ended with err: an ended context
\* fails it, and so does a shutdown requested while the hooks ran.
StartupOutcome(p, err) ==
    CASE err # "nil"      -> err
      [] err = "nil" /\ p \in expired -> "ctx"
      [] err = "nil" /\ p \notin expired /\ ClosingRequested -> "canceled"
      [] OTHER            -> "nil"

EndOnStart(p) ==
    /\ pc[p] = "onStart"
    /\ \E err \in HookError :
         LET r == StartupOutcome(p, err) IN
         /\ startHooksRun' = (r = "nil")
         /\ IF r = "nil" /\ method[p] = "MarkStarted" THEN Goto(p, "mark") ELSE Return(p, r)
    /\ startRunning' = FALSE
    /\ UNCHANGED <<starting, started, closing, tasks, expired>>

\* MarkStarted after its BeginStart returned nil, up to its hooks.
MarkStarted(p) ==
    /\ pc[p] = "mark"
    /\ \/ /\ p \in expired
          /\ Return(p, "ctx")
          /\ UNCHANGED starting
       \/ /\ p \notin expired /\ started
          /\ Return(p, "nil")
          /\ UNCHANGED starting
       \/ /\ p \notin expired /\ ~started /\ ClosingRequested
          /\ Return(p, "canceled")
          /\ UNCHANGED starting
       \/ /\ p \notin expired /\ ~started /\ ~ClosingRequested /\ starting
          /\ Return(p, "inProgress")
          /\ UNCHANGED starting
       \/ /\ p \notin expired /\ ~started /\ ~ClosingRequested /\ ~starting
          /\ starting' = TRUE
          /\ Goto(p, "onStarted")
    /\ UNCHANGED <<startRunning, startHooksRun, started, closing, tasks, expired>>

EndOnStarted(p) ==
    /\ pc[p] = "onStarted"
    /\ \E err \in HookError :
         LET r == StartupOutcome(p, err) IN
         /\ started' = (r = "nil")
         /\ Return(p, r)
    /\ starting' = FALSE
    /\ UNCHANGED <<startRunning, startHooksRun, closing, tasks, expired>>

-----------------------------------------------------------------------------
(* BeginShutdown and Stop                                                   *)

\* Stop goes on after its BeginShutdown unless a phase is in progress, a startup
\* phase included, or its context ended; what BeginShutdown returned is kept in
\* result.
AfterBeginShutdown(p, m, r) ==
    IF m = "Stop" /\ r \notin PhaseInProgress \cup {"ctx"}
    THEN /\ pc' = [pc EXCEPT ![p] = "stop"]
         /\ method' = [method EXCEPT ![p] = m]
         /\ result' = [result EXCEPT ![p] = r]
    ELSE EnterReturn(p, m, r)

\* BeginShutdown, called directly or by Stop, up to its hooks.  While startup
\* hooks run it records the request and returns.
BeginShutdown(p, m) ==
    /\ pc[p] = "idle" /\ m \in Closing
    /\ \/ /\ p \in expired
          /\ EnterReturn(p, m, "ctx")
          /\ UNCHANGED <<shutdownOnce, shutdownRunning>>
       \/ /\ p \notin expired /\ shutdownRunning
          /\ EnterReturn(p, m, "inProgress")
          /\ UNCHANGED <<shutdownOnce, shutdownRunning>>
       \/ /\ p \notin expired /\ ~shutdownRunning /\ shutdownHooksRun
          /\ AfterBeginShutdown(p, m, shutdownErr)
          /\ UNCHANGED <<shutdownOnce, shutdownRunning>>
       \/ /\ p \notin expired /\ ~shutdownRunning /\ ~shutdownHooksRun
          /\ StartupActive
          /\ shutdownOnce' = TRUE
          /\ AfterBeginShutdown(p, m, "startupInProgress")
          /\ UNCHANGED shutdownRunning
       \/ /\ p \notin expired /\ ~shutdownRunning /\ ~shutdownHooksRun
          /\ ~StartupActive
          /\ shutdownOnce' = TRUE
          /\ shutdownRunning' = TRUE
          /\ Enter(p, m, "onShutdown")
    /\ UNCHANGED <<startup, shutdownHooksRun, stopRunning, shutdown, shutdownErr, stopErr,
                   tasks, expired>>

\* Mutant: a failed shutdown phase may be entered again, like a failed startup.
EndOnShutdownRetry(p) ==
    /\ pc[p] = "onShutdown"
    /\ \E err \in HookError :
         /\ shutdownErr' = err
         /\ Return(p, err)
         /\ shutdownHooksRun' = (err = "nil")
    /\ shutdownRunning' = FALSE
    /\ UNCHANGED <<startup, shutdownOnce, stopRunning, shutdown, stopErr, tasks, expired>>

\* Every OnShutdown hook runs; the first error is the attempt's.  A hook that
\* calls Stop or Shutdown and passes on what it got returns ErrPhaseInProgress.
EndOnShutdown(p) ==
    /\ pc[p] = "onShutdown"
    /\ \E err \in HookError :
         /\ shutdownErr' = err
         /\ result' = [result EXCEPT ![p] = err]
         /\ pc' = [pc EXCEPT ![p] =
                     IF method[p] = "Stop" /\ err \notin PhaseInProgress THEN "stop" ELSE "idle"]
    /\ UNCHANGED method
    /\ shutdownRunning' = FALSE
    /\ shutdownHooksRun' = TRUE
    /\ UNCHANGED <<startup, shutdownOnce, stopRunning, shutdown, stopErr, tasks, expired>>

\* Stop after its BeginShutdown returned result[p], up to its hooks.  It is here only
\* once the shutdown phase has run (PhaseInv), so the return it makes when the phase
\* has not is never taken.
Stop(p) ==
    /\ pc[p] = "stop"
    /\ \/ /\ p \in expired
          /\ Return(p, "ctx")
          /\ UNCHANGED stopRunning
       \/ /\ p \notin expired /\ stopRunning
          /\ Return(p, "inProgress")
          /\ UNCHANGED stopRunning
       \/ /\ p \notin expired /\ ~stopRunning /\ shutdown
          /\ Return(p, stopErr)
          /\ UNCHANGED stopRunning
       \/ /\ p \notin expired /\ ~stopRunning /\ ~shutdown
          /\ stopRunning' = TRUE
          /\ Goto(p, "onStop")
    /\ UNCHANGED <<startup, shutdownOnce, shutdownRunning, shutdownHooksRun, shutdown,
                   shutdownErr, stopErr, tasks, expired>>

EndOnStop(p) ==
    /\ pc[p] = "onStop"
    /\ \E err \in HookError :
         LET first == IF result[p] # "nil" THEN result[p] ELSE err IN
         /\ stopErr' = first
         /\ Return(p, first)
    /\ shutdown' = TRUE
    /\ stopRunning' = FALSE
    /\ UNCHANGED <<startup, shutdownOnce, shutdownRunning, shutdownHooksRun, shutdownErr,
                   tasks, expired>>

-----------------------------------------------------------------------------
(* Tracked tasks and contexts                                               *)

\* Go tracks a task unless shutdown was requested; a rejected one never runs.
Go(t) ==
    /\ t \notin tasks /\ ~ClosingRequested
    /\ tasks' = tasks \cup {t}
    /\ UNCHANGED <<startup, closing, frame, expired>>

TaskFinished(t) ==
    /\ t \in tasks
    /\ tasks' = tasks \ {t}
    /\ UNCHANGED <<startup, closing, frame, expired>>

\* The context of a caller ends (timeout or cancellation), at any time.
Expire(p) ==
    /\ p \notin expired
    /\ expired' = expired \cup {p}
    /\ UNCHANGED <<startup, closing, tasks, frame>>

\* Its next call comes with another context.
NewContext(p) ==
    /\ pc[p] = "idle" /\ p \in expired
    /\ expired' = expired \ {p}
    /\ UNCHANGED <<startup, closing, tasks, frame>>

Step(p) ==
    \/ \E m \in Startup : BeginStart(p, m)
    \/ EndOnStart(p) \/ MarkStarted(p) \/ EndOnStarted(p)
    \/ \E m \in Closing : BeginShutdown(p, m)
    \/ EndOnShutdown(p) \/ Stop(p) \/ EndOnStop(p)

Next ==
    \/ \E p \in Caller : Step(p) \/ Expire(p) \/ NewContext(p)
    \/ \E t \in Task : Go(t) \/ TaskFinished(t)

Spec == Init /\ [][Next]_vars

-----------------------------------------------------------------------------
(* Properties                                                               *)

In(label) == {p \in Caller : pc[p] = label}

\* Hooks of the startup phases never run beside hooks of the closing phases: a
\* request during startup is recorded and left to whoever unwinds the startup
\* (BeginShutdown's ErrStartupInProgress).
PhasesExclusive ==
    (In("onStart") \cup In("onStarted") # {}) => (In("onShutdown") \cup In("onStop") = {})

\* A phase has one runner, and exactly while its flag is up: a second caller that
\* could not see the first would run the hooks twice at once.
OneRunner ==
    /\ \A label \in {"onStart", "onStarted", "onShutdown", "onStop"} :
         \A p, q \in In(label) : p = q
    /\ startRunning <=> In("onStart") # {}
    /\ starting <=> In("onStarted") # {}
    /\ shutdownRunning <=> In("onShutdown") # {}
    /\ stopRunning <=> In("onStop") # {}

\* OnShutdown hooks run once and OnStop hooks once, after them, however many
\* callers, errors and ended contexts there are: a phase that has run leaves a
\* mark that stays, and with the mark it is not entered.
ClosingOnceInOrder ==
    [][/\ shutdownHooksRun => shutdownHooksRun'
       /\ shutdown => shutdown'
       /\ \A p \in Caller :
            /\ pc[p] = "onShutdown" /\ pc'[p] # "onShutdown" => shutdownHooksRun'
            /\ pc[p] # "onShutdown" /\ pc'[p] = "onShutdown" => ~shutdownHooksRun
            /\ pc[p] = "onStop" /\ pc'[p] # "onStop" => shutdown'
            /\ pc[p] # "onStop" /\ pc'[p] = "onStop" => shutdownHooksRun /\ ~shutdown]_vars

\* Once shutdown is requested no startup phase begins, none that is running can
\* succeed, and no task is added: the tracked tasks only drain.
RequestIsFinal ==
    [][shutdownOnce =>
         /\ \A p \in Caller : pc'[p] \in {"onStart", "onStarted"} => pc[p] = pc'[p]
         /\ startHooksRun' => startHooksRun
         /\ started' => started
         /\ tasks' \subseteq tasks]_vars

\* The inductive invariant: how the flags of the four phases exclude one another.
\* OnStop hooks run only after OnShutdown hooks, those only after startup ended.
PhaseInv ==
    /\ TypeOK /\ OneRunner /\ PhasesExclusive
    /\ shutdownRunning \/ shutdownHooksRun \/ shutdown => shutdownOnce
    /\ shutdownRunning => ~shutdownHooksRun
    /\ stopRunning \/ shutdown => shutdownHooksRun
    /\ stopRunning => ~shutdown
    /\ startRunning => ~startHooksRun
    /\ In("mark") # {} => startHooksRun
    /\ In("stop") # {} => shutdownHooksRun
    /\ starting => startHooksRun /\ ~started
    /\ shutdownRunning \/ shutdownHooksRun => ~startRunning /\ ~starting

=============================================================================
