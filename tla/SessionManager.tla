---------------------------- MODULE SessionManager ----------------------------
(***************************************************************************)
(* The session manager over either storage (src/ghttp/session.go): its      *)
(* methods branch on whether the storage is a CookieStorage, for good from  *)
(* NewSessionManager on, and do then what CookieSession or MemorySession    *)
(* describes.                                                               *)
(***************************************************************************)
EXTENDS CookieSession

CONSTANTS MemoryTTL, CleanupInterval, MaxMemoryTime, MaxId

ASSUME MemoryAssumption ==
    /\ MemoryTTL \in Nat \ {0} /\ CleanupInterval \in Nat \ {0}
    /\ MaxMemoryTime \in Nat \ {0} /\ MaxId \in Nat

VARIABLES storage,                             \* the kind of storage
          clock, entries, nextCleanup, ids, at, cookie, handle, fresh,
          written, sent, due, successor, closed, leaked   \* of MemorySession

Memory == INSTANCE MemorySession

memory == <<clock, entries, nextCleanup, ids, at, cookie, handle, fresh, written, sent,
            due, successor, closed, leaked>>

managerVars == <<storage, vars, memory>>

ManagerInit ==
    /\ storage \in {"cookie", "memory"}
    /\ Init /\ Memory!MemoryInit

ManagerNext ==
    \/ storage = "cookie" /\ Next /\ UNCHANGED <<storage, memory>>
    \/ storage = "memory" /\ Memory!MemoryNext /\ UNCHANGED <<storage, vars>>

ManagerSpec == ManagerInit /\ [][ManagerNext]_managerVars

-----------------------------------------------------------------------------
(* Properties of the memory storage, under the manager                       *)

\* An identifier a client was sent opens its session until it expires, is logged
\* out or is replaced by another it was sent (MemorySession, regenerate).
SessionSurvives == Memory!SessionSurvives

\* Given-up identifiers do not pile up in the storage (MemorySession, Open and
\* regenerate after a failure).
NoOrphans == Memory!NoOrphans

\* A request that saw an entry expired does not remove what another has renewed
\* (MemorySession, MemoryStorage.Get).
RenewedStays == Memory!RenewedStays

=============================================================================
