-------------------------------- MODULE Gate --------------------------------
(***************************************************************************)
(* The overlap gate of a scheduled job, src/scheduler/overlap.go, as values *)
(* and the transitions between them.  A gate serialises the executions of   *)
(* one job across its generations (a generation is a jobRecord: Replace     *)
(* makes a new one and hands it the gate of the old one).                   *)
(*                                                                          *)
(* A token names a generation.  A trigger hands the gate its generation's   *)
(* record as token and a closure over that record as handler, so a handler  *)
(* is represented by the token it closes over.  Every operator below is one *)
(* critical section of gate.mu.                                             *)
(***************************************************************************)
EXTENDS Naturals

CONSTANTS Token,      \* the generations that share gates
          NoToken     \* the nil token, and the nil handler

ASSUME NoTokenAssumption == NoToken \notin Token

Policy == {"SkipIfRunning", "AllowOverlap", "QueueOne"}

OptToken == Token \cup {NoToken}

GateState == [policy        : Policy,
              active        : Nat,       \* executions in progress
              activeToken   : OptToken,  \* generation that took the idle gate
              queued        : BOOLEAN,   \* one accepted trigger is waiting
              queuedToken   : OptToken,
              queuedHandler : OptToken]

NewGate(p) == [policy |-> p, active |-> 0, activeToken |-> NoToken,
               queued |-> FALSE, queuedToken |-> NoToken, queuedHandler |-> NoToken]

-----------------------------------------------------------------------------
(* runWithToken: a trigger is admitted, queued, or (neither) skipped.       *)

\* Mutant: QueueOne executes the trigger it should hold back.
AdmitsQueueOne(g) == g.policy # "SkipIfRunning" \/ g.active = 0

Admits(g) == g.policy = "AllowOverlap" \/ g.active = 0

Queues(g) == ~Admits(g) /\ g.policy = "QueueOne" /\ ~g.queued

Admit(g, t) ==
    [g EXCEPT !.active = @ + 1,
              !.activeToken = IF g.active = 0 THEN t ELSE @]

\* Mutant: the token of the pending trigger is not recorded.
EnqueueWithoutToken(g, t) ==
    [g EXCEPT !.queued = TRUE,
              !.queuedHandler = IF t # g.activeToken THEN t ELSE @]

Enqueue(g, t) ==
    [g EXCEPT !.queued = TRUE,
              !.queuedToken = t,
              !.queuedHandler = IF t # g.activeToken THEN t ELSE @]

-----------------------------------------------------------------------------
(* executeAccepted: an execution of generation t has returned.              *)

Remaining(g) == IF g.active > 0 THEN g.active - 1 ELSE 0

\* Mutant: a pending trigger of the running generation, which needs no handler
\* of its own, is overlooked.
DrainsHandlers(g) == Remaining(g) = 0 /\ g.queued /\ g.queuedHandler # NoToken

\* The execution that brings the count to zero takes over an accepted trigger.
Drains(g) == Remaining(g) = 0 /\ g.queued

\* The handler it runs next: the queued one, or its own when the queued trigger
\* came from its own generation; NoToken when the gate has neither.
Successor(g, t) ==
    IF g.queuedHandler = NoToken /\ g.queuedToken = t THEN t ELSE g.queuedHandler

\* Mutant: a returning execution is counted out twice.
RetireTwice(g) ==
    [g EXCEPT !.active = Remaining(g) - 1,
              !.activeToken = IF Remaining(g) = 0 THEN NoToken ELSE @]

Retire(g) ==
    [g EXCEPT !.active = Remaining(g),
              !.activeToken = IF Remaining(g) = 0 THEN NoToken ELSE @]

Unqueue(g) ==
    [g EXCEPT !.queued = FALSE, !.queuedToken = NoToken, !.queuedHandler = NoToken]

TakeOver(g) == [Unqueue(g) EXCEPT !.active = 1, !.activeToken = g.queuedToken]

\* The gate after an execution of generation t returned ...
Finished(g, t) ==
    CASE ~Drains(g)                              -> Retire(g)
      [] Drains(g) /\ Successor(g, t) # NoToken  -> TakeOver(g)
      [] OTHER                                   -> Retire(Unqueue(g))

\* ... and the generation the same goroutine executes next, if any.
NextExecution(g, t) == IF Drains(g) THEN Successor(g, t) ELSE NoToken

-----------------------------------------------------------------------------
(* setPolicy: only the policy changes; an accepted trigger stays queued.    *)

\* Mutants: Replace gives the job a fresh gate; it drops the accepted trigger.
WithFreshGate(g, p) == NewGate(p)
WithPolicyOnly(g, p) == [Unqueue(g) EXCEPT !.policy = p]

WithPolicy(g, p) == [g EXCEPT !.policy = p]

=============================================================================
