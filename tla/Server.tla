-------------------------------- MODULE Server --------------------------------
(***************************************************************************)
(* The running server, src/ghttp/lifecycle.go and src/ghttp/server.go:       *)
(* runContext, the goroutine that serves, and Shutdown, whose callers join   *)
(* one cleanup attempt.  It composes the lifecycle (Lifecycle, whose callers *)
(* are the goroutines here), the HTTP server and the scheduler.              *)
(*                                                                           *)
(* A goroutine inside a lifecycle method is at a label ending in "ing": the  *)
(* call was made by one action, Lifecycle's own actions carry it out, and    *)
(* the next action here reads what it returned.  The HTTP server is          *)
(* external: it is modelled by the listener, its Serve goroutine and the     *)
(* requests that Shutdown waits for.  The scheduler is seen through Start,   *)
(* Stop and Wait, which the server calls in OnStart and OnShutdown hooks and *)
(* in the cleanup.                                                           *)
(***************************************************************************)
CONSTANTS Caller, Task,        \* as in Lifecycle
          Runner,              \* callers that may call RunContext
          Hook,                \* goroutines that a hook's call of Shutdown may be
          Request,             \* HTTP requests
          Nobody

ASSUME CallerAssumption ==
    /\ Runner \subseteq Caller /\ Hook \subseteq Caller /\ Runner \cap Hook = {}
    /\ Nobody \notin Caller

VARIABLES
    startRunning, startHooksRun, starting, started, shutdownOnce, shutdownRunning,
    shutdownHooksRun, stopRunning, shutdown, shutdownErr, stopErr, tasks, pc, method,
    result, expired,           \* Lifecycle
    at,                        \* per caller: where it is in the server
    clean,                     \* per caller: its Shutdown met no error so far
    hookOf,                    \* per hook: the caller whose phase runs it, if any
    running,                   \* server.running
    leader,                    \* who runs the active cleanup attempt
    listener,                  \* none, bound, accepting or closed
    serve,                     \* the Serve goroutine: none, called, accepting, returned
    ready,                     \* Serve has entered Accept
    draining,                  \* http.Server.Shutdown has been called
    requests,                  \* requests being handled
    jobs                       \* scheduler: idle, running, stopping or stopped

L == INSTANCE Lifecycle

lifecycle == <<startRunning, startHooksRun, starting, started, shutdownOnce,
               shutdownRunning, shutdownHooksRun, stopRunning, shutdown, shutdownErr,
               stopErr, tasks, pc, method, result>>
serving == <<running, listener, serve, ready, draining, requests>>
server == <<at, clean, hookOf, leader, serving>>
vars == <<lifecycle, expired, server, jobs>>

RunLabel == {"start", "starting", "listen", "await", "mark", "marking", "serving", "unwind"}
Cleanup == {"http", "drain", "jobs", "tasks", "stopping"}
ShutdownLabel == {"shutdown", "closing", "follow", "joined"} \cup Cleanup
Label == {"idle", "returned"} \cup RunLabel \cup ShutdownLabel

TypeOK ==
    /\ L!TypeOK
    /\ at \in [Caller -> Label]
    /\ clean \in [Caller -> BOOLEAN]
    /\ hookOf \in [Hook -> Caller \cup {Nobody}]
    /\ running \in BOOLEAN
    /\ leader \in Caller \cup {Nobody}
    /\ listener \in {"none", "bound", "accepting", "closed"}
    /\ serve \in {"none", "called", "accepting", "returned"}
    /\ ready \in BOOLEAN /\ draining \in BOOLEAN
    /\ requests \subseteq Request
    /\ jobs \in {"idle", "running", "stopping", "stopped"}

Init ==
    /\ L!Init
    /\ at = [p \in Caller |-> "idle"]
    /\ clean = [p \in Caller |-> FALSE]
    /\ hookOf = [h \in Hook |-> Nobody]
    /\ running = FALSE /\ leader = Nobody
    /\ listener = "none" /\ serve = "none" /\ ready = FALSE
    /\ draining = FALSE /\ requests = {} /\ jobs = "idle"

-----------------------------------------------------------------------------
(* Control flow                                                             *)

Goto(p, label) == at' = [at EXCEPT ![p] = label]

\* Mutant: the result is read although the method has not returned.
NotAwaited(p) == p \in Caller

\* The lifecycle method p called has returned.
Returned(p) == pc[p] = "idle"

\* A context that has not ended: context.WithTimeout for the next call.
FreshContext(p) == expired' = expired \ {p}

\* A phase ends when its hooks have returned, the one that waits for its own call
\* of Shutdown included.
HooksReturned(p) == \A h \in Hook : hookOf[h] = p => at[h] = "returned"

\* Where a caller goes when its Shutdown returns.  A call made by a hook is made
\* once.
Home(p) == IF p \in Hook /\ hookOf[p] # Nobody THEN "returned" ELSE "idle"

-----------------------------------------------------------------------------
(* Lifecycle steps of a caller                                              *)

\* The first OnStart hook starts the scheduler; a later one, or itself, may fail.
EndOnStart(p) ==
    /\ HooksReturned(p)
    /\ L!EndOnStart(p)
    /\ jobs' \in {jobs, "running"}
    /\ result'[p] = "nil" => jobs' = "running"
    /\ UNCHANGED server

\* The first OnShutdown hook stops the scheduler, which was started or not.
EndOnShutdown(p) ==
    /\ HooksReturned(p)
    /\ L!EndOnShutdown(p)
    /\ jobs' = IF jobs = "running" THEN "stopping" ELSE "stopped"
    /\ UNCHANGED server

LifecycleStep(p) ==
    \/ EndOnStart(p) \/ EndOnShutdown(p)
    \/ /\ \/ L!MarkStarted(p) \/ L!Stop(p)
          \/ HooksReturned(p) /\ (L!EndOnStarted(p) \/ L!EndOnStop(p))
       /\ UNCHANGED <<server, jobs>>

\* A hook of the phase p runs calls Shutdown.
HookCalls(h, p) ==
    /\ at[h] = "idle"
    /\ pc[p] \in {"onStart", "onStarted", "onShutdown", "onStop"} /\ HooksReturned(p)
    /\ hookOf' = [hookOf EXCEPT ![h] = p]
    /\ Goto(h, "shutdown")
    /\ UNCHANGED <<lifecycle, expired, clean, leader, serving, jobs>>

-----------------------------------------------------------------------------
(* RunContext                                                               *)

\* beginRun; while the server is running a second Run is refused.
BeginRun(p) ==
    /\ at[p] = "idle" /\ ~running
    /\ running' = TRUE
    /\ Goto(p, "start")
    /\ UNCHANGED <<lifecycle, expired, clean, hookOf, leader, listener, serve, ready,
                   draining, requests, jobs>>

\* BeginStart, and later MarkStarted, of the lifecycle.
CallStart(p) ==
    /\ \/ /\ at[p] = "start" /\ L!BeginStart(p, "BeginStart")
          /\ Goto(p, "starting")
       \/ /\ at[p] = "mark" /\ L!BeginStart(p, "MarkStarted")
          /\ Goto(p, "marking")
    /\ UNCHANGED <<clean, hookOf, leader, serving, jobs>>

\* cleanupFailedStart, finishServe and the end of the run context: Shutdown with
\* a context of its own.
CleanUp(p) ==
    /\ Goto(p, "shutdown")
    /\ FreshContext(p)

StartReturned(p) ==
    /\ at[p] = "starting" /\ Returned(p)
    /\ \/ result[p] = "nil" /\ Goto(p, "listen") /\ UNCHANGED expired
       \/ result[p] # "nil" /\ CleanUp(p)
    /\ UNCHANGED <<lifecycle, clean, hookOf, leader, serving, jobs>>

\* openListener and the TLS configuration, either of which may fail (the address is
\* in use while an earlier Serve has not returned); then Serve is called in a
\* goroutine of its own.
Listen(p) ==
    /\ at[p] = "listen"
    /\ \/ /\ serve \in {"none", "returned"}
          /\ listener' = "bound" /\ serve' = "called" /\ ready' = FALSE
          /\ Goto(p, "await")
          /\ UNCHANGED expired
       \/ CleanUp(p) /\ UNCHANGED <<listener, serve, ready>>
    /\ UNCHANGED <<lifecycle, clean, hookOf, leader, running, draining, requests, jobs>>

\* The select after the Serve goroutine was started.
Await(p) ==
    /\ at[p] = "await"
    /\ \/ ready /\ Goto(p, "mark") /\ UNCHANGED <<expired, listener>>
       \/ serve = "returned" /\ CleanUp(p) /\ UNCHANGED listener
       \/ p \in expired /\ listener' = "closed" /\ Goto(p, "unwind") /\ UNCHANGED expired
    /\ UNCHANGED <<lifecycle, clean, hookOf, leader, running, serve, ready, draining,
                   requests, jobs>>

\* Mutant: the listener is left open when startup failed.
LeftOpen == UNCHANGED listener
CloseListener == listener' = "closed"

MarkReturned(p) ==
    /\ at[p] = "marking" /\ Returned(p)
    /\ \/ result[p] = "nil" /\ Goto(p, "serving") /\ UNCHANGED listener
       \/ result[p] # "nil" /\ CloseListener /\ Goto(p, "unwind")
    /\ UNCHANGED <<lifecycle, expired, clean, hookOf, leader, running, serve, ready,
                   draining, requests, jobs>>

\* A failed startup closed the listener and waits for Serve to return.
Unwind(p) ==
    /\ at[p] = "unwind" /\ serve = "returned"
    /\ CleanUp(p)
    /\ UNCHANGED <<lifecycle, clean, hookOf, leader, serving, jobs>>

\* The main select: Serve returned, or the run's context ended.
LeaveServing(p) ==
    /\ at[p] = "serving"
    /\ serve = "returned" \/ p \in expired
    /\ CleanUp(p)
    /\ UNCHANGED <<lifecycle, clean, hookOf, leader, serving, jobs>>

-----------------------------------------------------------------------------
(* Shutdown                                                                 *)

\* Shutdown, called by any goroutine; its context may end at once.
CallShutdown(p) ==
    /\ at[p] = "idle"
    /\ Goto(p, "shutdown")
    /\ UNCHANGED <<lifecycle, expired, clean, hookOf, leader, serving, jobs>>

CallBeginShutdown(p) ==
    /\ at[p] = "shutdown"
    /\ L!BeginShutdown(p, "BeginShutdown")
    /\ Goto(p, "closing")
    /\ UNCHANGED <<clean, hookOf, leader, serving, jobs>>

\* Shutdown returns; so does the RunContext that called it (endRun).
Return(p, good) ==
    /\ Goto(p, Home(p))
    /\ clean' = [clean EXCEPT ![p] = good]
    /\ running' = (running /\ p \notin Runner)
    /\ FreshContext(p)

\* A phase is in progress, a startup phase included: Shutdown leaves the cleanup to
\* whoever is in it.
InProgress(p) ==
    /\ at[p] = "closing" /\ Returned(p) /\ result[p] \in L!PhaseInProgress
    /\ Return(p, FALSE)
    /\ UNCHANGED <<lifecycle, hookOf, leader, listener, serve, ready, draining, requests, jobs>>

NoAttempt == leader = Nobody

\* beginShutdownCleanupAttempt: whoever finds no active attempt leads one.
Lead(p) ==
    /\ at[p] = "closing" /\ Returned(p) /\ result[p] \notin L!PhaseInProgress
    /\ NoAttempt
    /\ leader' = p
    /\ clean' = [clean EXCEPT ![p] = (result[p] = "nil")]
    /\ Goto(p, "http")
    /\ UNCHANGED <<lifecycle, expired, hookOf, serving, jobs>>

Follow(p) ==
    /\ at[p] = "closing" /\ Returned(p) /\ result[p] \notin L!PhaseInProgress
    /\ ~NoAttempt
    /\ Goto(p, "follow")
    /\ UNCHANGED <<lifecycle, expired, clean, hookOf, leader, serving, jobs>>

\* Mutant: a follower waits for the attempt and for nothing else.
Patient(p) ==
    /\ at[p] = "joined" /\ p \in expired
    /\ Return(p, FALSE)
    /\ UNCHANGED <<lifecycle, hookOf, leader, listener, serve, ready, draining, requests, jobs>>

\* A follower's context ended before the attempt did.
GiveUp(p) ==
    /\ at[p] \in {"follow", "joined"} /\ p \in expired
    /\ Return(p, FALSE)
    /\ UNCHANGED <<lifecycle, hookOf, leader, listener, serve, ready, draining, requests, jobs>>

\* The attempt a follower joined has ended; its error is the follower's.
Joined(p) ==
    /\ at[p] = "joined"
    /\ Return(p, clean[p])
    /\ UNCHANGED <<lifecycle, hookOf, leader, listener, serve, ready, draining, requests, jobs>>

\* http.Server.Shutdown closes the listener it serves ...
CloseHTTP(p) ==
    /\ at[p] = "http"
    /\ draining' = TRUE
    /\ listener' = IF serve = "accepting" THEN "closed" ELSE listener
    /\ Goto(p, "drain")
    /\ UNCHANGED <<lifecycle, expired, clean, hookOf, leader, running, serve, ready,
                   requests, jobs>>

\* Mutant: the wait ignores the context.
WaitedForGood(p, done) ==
    /\ done
    /\ UNCHANGED clean

\* A wait for done that the context of p may cut short.
Waited(p, done) ==
    /\ done \/ p \in expired
    /\ clean' = [clean EXCEPT ![p] = @ /\ done]

\* ... and waits for the requests; then the templates' watcher is closed.
Drain(p) ==
    /\ at[p] = "drain"
    /\ Waited(p, requests = {})
    /\ Goto(p, "jobs")
    /\ UNCHANGED <<lifecycle, expired, hookOf, leader, serving, jobs>>

\* scheduler.Wait: returns at once unless Stop was called.
WaitJobs(p) ==
    /\ at[p] = "jobs"
    /\ Waited(p, jobs # "stopping")
    /\ Goto(p, "tasks")
    /\ UNCHANGED <<lifecycle, expired, hookOf, leader, serving, jobs>>

\* Mutant: tasks are told to stop but not waited for.
TasksCancelled == shutdownOnce
TasksDone == tasks = {}

\* lifecycle.Wait, then the call of lifecycle.Stop.
WaitTasks(p) ==
    /\ at[p] = "tasks"
    /\ Waited(p, TasksDone)
    /\ L!BeginShutdown(p, "Stop")
    /\ Goto(p, "stopping")
    /\ UNCHANGED <<hookOf, leader, serving, jobs>>

\* Everybody who waits for the attempt learns its outcome.
Released(p) ==
    [q \in Caller |-> IF q = p THEN Home(p)
                      ELSE IF at[q] = "follow" THEN "joined" ELSE at[q]]

\* lifecycle.Stop returned: the logger is closed and the attempt ends.  The error
\* of a component (templates, scheduler, logger) may spoil it.
Finish(p) ==
    /\ at[p] = "stopping" /\ Returned(p)
    /\ \E good \in {clean[p] /\ result[p] = "nil", FALSE} :
         clean' = [q \in Caller |-> IF q = p \/ at[q] = "follow" THEN good ELSE clean[q]]
    /\ at' = Released(p)
    /\ leader' = Nobody
    /\ running' = (running /\ p \notin Runner)
    /\ FreshContext(p)
    /\ UNCHANGED <<lifecycle, hookOf, listener, serve, ready, draining, requests, jobs>>

-----------------------------------------------------------------------------
(* The HTTP server, the scheduler's engine, tasks and contexts              *)

\* Serve tracks the listener and accepts, unless Shutdown was called: then it
\* closes the listener and returns.
ServeAccepts ==
    /\ serve = "called"
    /\ \/ /\ ~draining
          /\ serve' = "accepting" /\ ready' = TRUE
          /\ listener' = IF listener = "bound" THEN "accepting" ELSE listener
       \/ /\ draining
          /\ serve' = "returned" /\ listener' = "closed"
          /\ UNCHANGED ready
    /\ UNCHANGED <<lifecycle, expired, at, clean, hookOf, leader, running, draining,
                   requests, jobs>>

\* Accept fails because the listener was closed, or by itself.
ServeReturns ==
    /\ serve = "accepting"
    /\ serve' = "returned" /\ listener' = "closed"
    /\ UNCHANGED <<lifecycle, expired, at, clean, hookOf, leader, running, ready, draining,
                   requests, jobs>>

RequestArrives(r) ==
    /\ listener = "accepting" /\ r \notin requests
    /\ requests' = requests \cup {r}
    /\ UNCHANGED <<lifecycle, expired, at, clean, hookOf, leader, running, listener, serve,
                   ready, draining, jobs>>

RequestEnds(r) ==
    /\ r \in requests
    /\ requests' = requests \ {r}
    /\ UNCHANGED <<lifecycle, expired, at, clean, hookOf, leader, running, listener, serve,
                   ready, draining, jobs>>

JobsStop ==
    /\ jobs = "stopping"
    /\ jobs' = "stopped"
    /\ UNCHANGED <<lifecycle, expired, server>>

TaskStep(t) ==
    /\ L!Go(t) \/ L!TaskFinished(t)
    /\ UNCHANGED <<server, jobs>>

Expire(p) ==
    /\ at[p] # "idle"
    /\ L!Expire(p)
    /\ UNCHANGED <<server, jobs>>

RunStep(p) ==
    \/ CallStart(p) \/ StartReturned(p) \/ Listen(p) \/ Await(p) \/ MarkReturned(p)
    \/ Unwind(p) \/ LeaveServing(p)

ShutdownStep(p) ==
    \/ CallBeginShutdown(p) \/ InProgress(p) \/ Lead(p) \/ Follow(p) \/ GiveUp(p)
    \/ Joined(p) \/ CloseHTTP(p) \/ Drain(p) \/ WaitJobs(p) \/ WaitTasks(p) \/ Finish(p)

Next ==
    \/ \E p \in Runner : BeginRun(p) \/ RunStep(p)
    \/ \E p \in Caller \ Runner : CallShutdown(p)
    \/ \E h \in Hook, p \in Caller : HookCalls(h, p)
    \/ \E p \in Caller : LifecycleStep(p) \/ ShutdownStep(p) \/ Expire(p)
    \/ ServeAccepts \/ ServeReturns \/ JobsStop
    \/ \E r \in Request : RequestArrives(r) \/ RequestEnds(r)
    \/ \E t \in Task : TaskStep(t)

Spec == Init /\ [][Next]_vars

\* Goroutines that can go on do, hooks return, and Serve answers.
Progress ==
    /\ \A p \in Caller : WF_vars(RunStep(p)) /\ WF_vars(LifecycleStep(p) \/ ShutdownStep(p))
    /\ WF_vars(ServeAccepts)
    /\ WF_vars(listener = "closed" /\ ServeReturns)

\* Contexts end: every Shutdown of the server itself has shutdownTimeout.
TimeoutSpec == Spec /\ Progress /\ \A p \in Caller : WF_vars(Expire(p))

-----------------------------------------------------------------------------
(* Properties                                                               *)

\* "HTTP, templates, scheduler, tasks and logger are not closed concurrently"
\* (server.go:477-480): one caller at a time is in the cleanup, the attempt's.
OneCleanup == \A p \in Caller : at[p] \in Cleanup <=> leader = p

\* "OnStop registers a hook after the listener and tracked tasks stop"
\* (lifecycle.go:279): whoever runs OnStop hooks, and whatever contexts ended,
\* nothing is served then and no task runs.
StopAfterDrain ==
    L!In("onStop") # {} => tasks = {} /\ requests = {} /\ listener # "accepting"

\* README.md:440: a shutdown received while startup hooks run records the intent and
\* returns ErrStartupInProgress, and the Server cleans up after startup has unwound.
\* So no cleanup runs beside a startup hook.  A Shutdown whose own context has ended
\* gets that context's error instead, and goes on (server.go:485).
CleanupAfterStartup ==
    leader # Nobody => L!In("onStart") \cup L!In("onStarted") = {}

Returns(p) == at[p] \in ShutdownLabel /\ at'[p] = Home(p)

\* A Shutdown (or the Run that ends with it) that reports no error has done its
\* work: OnShutdown and OnStop hooks ran, and requests, jobs and tasks ended.
CleanMeansDone ==
    [][\A p \in Caller :
         Returns(p) /\ clean'[p]
         => /\ shutdownHooksRun /\ shutdown
            /\ tasks = {} /\ requests = {} /\ jobs = "stopped"]_vars

\* Every Shutdown returns, and so does the Run whose context has ended.
ShutdownReturns ==
    \A p \in Caller : at[p] \in ShutdownLabel ~> at[p] \in {"idle", "returned"}

RunReturns == \A p \in Runner : at[p] # "idle" ~> at[p] = "idle"

\* The server uses the lifecycle as its specification says: no call is made before
\* the last one returned, no context is renewed during a call, and all that
\* happens to the phases is what the lifecycle's methods do.
ImplementsLifecycle == L!Spec

\* What the proofs need besides.  Where a caller is in the lifecycle follows from
\* where it is in the server ...
CallsMatch ==
    \A p \in Caller :
       /\ pc[p] \in {"onStart", "mark", "onStarted"} => at[p] \in {"starting", "marking"}
       /\ pc[p] = "onShutdown" => at[p] \in {"closing", "stopping"}
       /\ pc[p] \in {"stop", "onStop"} => at[p] = "stopping"
       /\ at[p] = "closing" => method[p] = "BeginShutdown"

\* ... what is accepted is served, before Shutdown of the HTTP server only ...
Accepts == listener = "accepting" => serve = "accepting" /\ ~draining

\* ... and a cleanup whose context has not ended has done what it has passed.
Passed(p) ==
    /\ at[p] = "closing" \/ at[p] \in Cleanup => shutdownOnce
    /\ at[p] \in {"jobs", "tasks", "stopping"} => requests = {}
    /\ at[p] = "stopping" => tasks = {}

DrainInv ==
    /\ CallsMatch /\ Accepts
    /\ \A p \in Caller :
         /\ at[p] \in Cleanup \ {"http"} => draining
         /\ p \notin expired => Passed(p)
         /\ pc[p] = "onStop" => shutdownOnce /\ requests = {} /\ tasks = {}

\* ... and while a Shutdown has met no error, what it has passed is done, its caller's
\* context ended or not, and stays done until its followers have read the outcome.
Done(p) ==
    /\ at[p] = "stopping" => method[p] = "Stop"
    /\ at[p] = "closing" /\ Returned(p) /\ result[p] = "nil" => shutdownHooksRun
    /\ clean[p] =>
         /\ at[p] \in Cleanup \cup {"joined"} => shutdownHooksRun
         /\ at[p] \in {"jobs", "tasks", "stopping", "joined"} => requests = {}
         /\ at[p] \in {"tasks", "stopping", "joined"} => jobs = "stopped"
         /\ at[p] \in {"stopping", "joined"} => tasks = {}
         /\ at[p] = "stopping" /\ Returned(p) /\ result[p] = "nil" => shutdown
         /\ at[p] = "joined" => shutdown /\ draining

CleanInv ==
    /\ shutdownHooksRun => jobs \in {"stopping", "stopped"}
    /\ \A p \in Caller : Done(p)

\* Every caller is somewhere, in the cleanup if it leads it.
CleanupInv == at \in [Caller -> Label] /\ OneCleanup

ServerInv == TypeOK /\ CleanupInv /\ DrainInv /\ CleanInv

=============================================================================
