------------------------------- MODULE Restart -------------------------------
(***************************************************************************)
(* Graceful restart, src/ghttp/restart.go: a server starts a replacement    *)
(* process that inherits a duplicate of its listener, waits until that      *)
(* process reports ready, hands over and shuts itself down.  Processes are  *)
(* numbered in the order in which they are started; each may restart        *)
(* itself in turn.  A call of Restart that is refused (one is in progress,  *)
(* the handoff is done, its context has ended, nothing listens) changes     *)
(* nothing and has no action.                                               *)
(***************************************************************************)
EXTENDS Naturals

CONSTANT MaxProcess     \* bound on the processes of a behaviour

ASSUME MaxProcessAssumption == MaxProcess \in Nat \ {0}

Process == 1..MaxProcess

VARIABLES phase,      \* of each process's server
          manager,    \* its serverRestartManager and the attempt it is making
          signal,     \* what the pipe from a child holds for its parent
          disturbed   \* ghost: a process was stopped or died by other causes

restartVars == <<phase, manager, signal, disturbed>>

Phase == {"none",       \* not started
          "starting",   \* OnStart hooks, binding the listener
          "bound",      \* accepting; OnStarted hooks run
          "serving", "closing", "dead"}

NoChild == 0

Manager == [at : {"idle", "called", "await", "handoff"},
            ctx : {"open", "ended"},      \* the context of the attempt
            request : BOOLEAN,            \* called by a request of this server
            child : Process \cup {NoChild},
            running : BOOLEAN, handedOff : BOOLEAN,
            cleanup : BOOLEAN]            \* shutdownParentAfterHandoff is due

RestartTypeOK ==
    /\ phase \in [Process -> Phase]
    /\ manager \in [Process -> Manager]
    /\ signal \in [Process -> {"none", "ready", "broken"}]
    /\ disturbed \in BOOLEAN

Accepting(p) == phase[p] \in {"bound", "serving"}

Alive(p) == phase[p] \notin {"none", "dead"}

FreshManager == [at |-> "idle", ctx |-> "open", request |-> FALSE, child |-> NoChild,
                 running |-> FALSE, handedOff |-> FALSE, cleanup |-> FALSE]

RestartInit ==
    /\ \E first \in {"bound", "serving"} :
         phase = [p \in Process |-> IF p = 1 THEN first ELSE "none"]
    /\ manager = [p \in Process |-> FreshManager]
    /\ signal = [p \in Process |-> "none"]
    /\ disturbed = FALSE

-----------------------------------------------------------------------------
(* A server's run                                                           *)

\* Mutant: the signal is written when the listener is bound.
BindReady(p) ==
    /\ phase[p] = "starting"
    /\ phase' = [phase EXCEPT ![p] = "bound"]
    /\ signal' = [signal EXCEPT ![p] = "ready"]
    /\ UNCHANGED <<manager, disturbed>>

\* openListener: bound to the address or to the inherited descriptor.
Bind(p) ==
    /\ phase[p] = "starting"
    /\ phase' = [phase EXCEPT ![p] = "bound"]
    /\ UNCHANGED <<manager, signal, disturbed>>

\* MarkStarted has succeeded: writeRestartReadySignal, the last step of startup.
Started(p) ==
    /\ phase[p] = "bound"
    /\ phase' = [phase EXCEPT ![p] = "serving"]
    /\ signal' = [signal EXCEPT ![p] = "ready"]
    /\ UNCHANGED <<manager, disturbed>>

\* The process ends, and with it whatever it was doing; its parent reads the end
\* of the pipe unless it reads a signal first.
Ends(p) ==
    /\ phase' = [phase EXCEPT ![p] = "dead"]
    /\ signal' = [signal EXCEPT ![p] = IF @ = "none" THEN "broken" ELSE @]
    /\ manager' = [manager EXCEPT ![p] =
                     [FreshManager EXCEPT !.handedOff = manager[p].handedOff]]

\* A hook fails or the listener cannot be had: startup unwinds and Run returns.
StartFails(p) ==
    /\ p # 1 /\ phase[p] \in {"starting", "bound"}
    /\ Ends(p)
    /\ UNCHANGED disturbed

\* Shutdown is over, complete or not (its context is bounded), and Run returns.
Exit(p) ==
    /\ phase[p] = "closing"
    /\ Ends(p)
    /\ UNCHANGED disturbed

\* Someone else stops the server, or the process dies (once in a behaviour).
Stop(p) ==
    /\ Accepting(p) /\ ~disturbed
    /\ phase' = [phase EXCEPT ![p] = "closing"]
    /\ disturbed' = TRUE
    /\ UNCHANGED <<manager, signal>>

Die(p) ==
    /\ Alive(p) /\ ~disturbed
    /\ Ends(p)
    /\ disturbed' = TRUE

-----------------------------------------------------------------------------
(* Restart                                                                   *)

\* Restart publishes an attempt, unless one is in progress or the handoff is done.
Call(p) ==
    /\ Alive(p)
    /\ ~manager[p].handedOff /\ ~manager[p].running
    /\ \E request \in BOOLEAN :
         manager' = [manager EXCEPT ![p] = [FreshManager EXCEPT
                       !.at = "called", !.running = TRUE, !.request = request,
                       !.child = manager[p].child]]
    /\ UNCHANGED <<phase, signal, disturbed>>

ContextEnds(p) ==
    /\ manager[p].at \in {"called", "await"} /\ manager[p].ctx = "open"
    /\ manager' = [manager EXCEPT ![p].ctx = "ended"]
    /\ UNCHANGED <<phase, signal, disturbed>>

\* The attempt is over: Restart returns.
Over(m) == [m EXCEPT !.at = "idle", !.running = FALSE]

\* No listener, no descriptor, no pipe, no process: nothing was started.
Refused(p) ==
    /\ manager[p].at = "called"
    /\ manager' = [manager EXCEPT ![p] = Over(@)]
    /\ UNCHANGED <<phase, signal, disturbed>>

\* The listener is duplicated and the replacement process started with it.
Spawn(p) ==
    /\ manager[p].at = "called" /\ manager[p].ctx = "open"
    /\ Accepting(p)
    /\ \E q \in Process :
         /\ phase[q] = "none" /\ \A r \in 1..(q - 1) : phase[r] # "none"
         /\ phase' = [phase EXCEPT ![q] = "starting"]
         /\ manager' = [manager EXCEPT ![p].at = "await", ![p].child = q]
    /\ UNCHANGED <<signal, disturbed>>

\* The child is killed and waited for; the attempt has failed.
KillChild(p) ==
    LET q == manager[p].child IN
    /\ phase' = [phase EXCEPT ![q] = "dead"]
    /\ manager' = [manager EXCEPT ![p] = Over(@), ![q] = FreshManager]
    /\ UNCHANGED <<signal, disturbed>>

\* Mutant: a child that is late is left alone.
AbandonLate(p) ==
    /\ manager[p].at = "await"
    /\ manager' = [manager EXCEPT ![p] = Over(@)]
    /\ UNCHANGED <<phase, signal, disturbed>>

\* The select takes the end of the pipe, the end of the context, or the timer.
\* It may take any of them though the child has reported ready.
Abandon(p) ==
    /\ manager[p].at = "await"
    /\ KillChild(p)

\* Mutant: the handoff is not made terminal.
HandoffOpen(p) ==
    /\ manager[p].at = "await" /\ signal[manager[p].child] = "ready"
    /\ manager' = [manager EXCEPT ![p] = [Over(@) EXCEPT !.cleanup = TRUE]]
    /\ UNCHANGED <<phase, signal, disturbed>>

\* Mutant: a restart requested by a request hands over and returns.
HandoffReturns(p) ==
    /\ manager[p].at = "await" /\ signal[manager[p].child] = "ready"
    /\ manager' = [manager EXCEPT ![p] =
         IF @.request THEN [Over(@) EXCEPT !.handedOff = TRUE]
         ELSE [@ EXCEPT !.at = "handoff", !.handedOff = TRUE]]
    /\ UNCHANGED <<phase, signal, disturbed>>

\* The child is ready: from here the attempt cannot be taken back.  Called by a
\* request, it leaves the shutdown to a goroutine; otherwise it goes on to it.
Handoff(p) ==
    /\ manager[p].at = "await" /\ signal[manager[p].child] = "ready"
    /\ manager' = [manager EXCEPT ![p] =
         IF @.request THEN [Over(@) EXCEPT !.handedOff = TRUE, !.cleanup = TRUE]
         ELSE [@ EXCEPT !.at = "handoff", !.handedOff = TRUE]]
    /\ UNCHANGED <<phase, signal, disturbed>>

\* Server.Shutdown with a context of its own, by the attempt or by the goroutine.
ShutdownParent(p) ==
    /\ manager[p].at = "handoff" \/ manager[p].cleanup
    /\ phase' = [phase EXCEPT ![p] = "closing"]
    /\ manager' = [manager EXCEPT ![p] = [Over(@) EXCEPT !.cleanup = FALSE]]
    /\ UNCHANGED <<signal, disturbed>>

RestartNext == \E p \in Process :
    \/ Bind(p) \/ Started(p) \/ StartFails(p) \/ Exit(p) \/ Stop(p) \/ Die(p)
    \/ Call(p) \/ ContextEnds(p) \/ Refused(p) \/ Spawn(p) \/ Abandon(p)
    \/ Handoff(p) \/ ShutdownParent(p)

RestartSpec == RestartInit /\ [][RestartNext]_restartVars

\* Shutdowns are bounded and goroutines go on.
RestartFairSpec ==
    /\ RestartSpec
    /\ \A p \in Process : WF_restartVars(ShutdownParent(p)) /\ WF_restartVars(Exit(p))

-----------------------------------------------------------------------------
(* Properties                                                               *)

\* Zero downtime (restart.go:29-31): as long as nobody else stops or kills a
\* process, some process accepts connections: a parent closes only after a child
\* that had finished its startup took over, and no such child is killed.
AlwaysServed == ~disturbed => \E p \in Process : Accepting(p)

\* A process has one living replacement at most: a failed attempt leaves none
\* behind, and after the handoff there is no further attempt, from a shutdown hook
\* or from a second caller.
OneSuccessor ==
    [][\A p \in Process :
         manager[p].at # "await" /\ manager'[p].at = "await"
           => \A q \in Process : manager[p].child = q => ~Alive(q)]_restartVars

\* Who has handed over does not stay beside its replacement: "cancellation after
\* ready must not leave both parent and child serving indefinitely".
HandedOffStops == \A p \in Process : manager[p].handedOff ~> phase[p] = "dead"

-----------------------------------------------------------------------------
(* Strengthenings the proofs need; TLC checks them as invariants first.      *)

Awaits(p, q) == manager[p].at = "await" /\ manager[p].child = q

\* A process that nobody can stop but itself, and it has no reason to.
Standing(p) ==
    /\ phase[p] \in IF p = 1 THEN {"bound", "serving"} ELSE {"serving"}
    /\ ~manager[p].handedOff
    /\ \A q \in Process : ~Awaits(q, p)

\* Processes start in the order of their numbers, a child after its parent, and each
\* is awaited by one parent at most.  What a process knows of a child that it does not
\* await is that it is dead, unless the child has taken over.
AttemptInv ==
    /\ \A p, q \in Process : p < q /\ phase[p] = "none" => phase[q] = "none"
    /\ \A p \in Process : phase[p] = "none" => signal[p] = "none"
    /\ \A p \in Process :
         LET m == manager[p] IN
         /\ m.child # NoChild => p < m.child /\ phase[m.child] # "none"
         /\ m.at = "await" => m.child # NoChild
         /\ m.at = "handoff" \/ m.cleanup => m.handedOff
         /\ m.at \in {"called", "await"} => ~m.handedOff
         /\ m.at # "idle" => m.running
         /\ m.at # "idle" \/ m.cleanup => Alive(p)
         /\ m.child # NoChild /\ m.at # "await" /\ ~m.handedOff => phase[m.child] = "dead"
    /\ \A p, q \in Process :
         Awaits(p, q) => \A r \in Process : Awaits(r, q) => r = p

\* As long as nobody interferes, somebody stands, and beyond everyone who has handed
\* over somebody later.  An awaited child that has reported ready serves, or has itself
\* handed over.
StandInv ==
    ~disturbed =>
        /\ \E p \in Process : Standing(p)
        /\ \A p \in Process : manager[p].handedOff => \E s \in Process : p < s /\ Standing(s)
        /\ \A p, q \in Process :
             Awaits(p, q) /\ signal[q] = "ready" => phase[q] = "serving" \/ manager[q].handedOff

RestartInv == RestartTypeOK /\ AttemptInv /\ StandInv

=============================================================================
