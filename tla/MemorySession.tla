---------------------------- MODULE MemorySession ----------------------------
(***************************************************************************)
(* Server-side sessions: MemoryStorage (src/session/storage.go) under the   *)
(* handles that SessionManager opens for requests (src/ghttp/session.go).   *)
(* The cookie is an identifier, and the storage maps it to an entry with an *)
(* expiry.  An action is one critical section of the storage's mutex; the   *)
(* steps of a method, and requests of one client, interleave between them.  *)
(* A call of the storage may fail before it has an effect, as those of      *)
(* other Storage implementations do.                                        *)
(*                                                                          *)
(* Values are left out: Set, Delete and Clear all write the whole map the   *)
(* handle holds, so they are one action.                                    *)
(***************************************************************************)
EXTENDS Naturals

CONSTANTS Request,
          MemoryTTL, CleanupInterval,   \* in seconds
          MaxMemoryTime, MaxId          \* bounds: the clock, and the identifiers made

Id == 1..MaxId
None == 0                         \* no identifier; the expiry of an absent entry

VARIABLES
    clock,         \* the clock, in seconds
    entries,       \* when each identifier's entry expires; None if there is none
    nextCleanup,   \* the earliest time of the next sweep
    ids,           \* identifiers made so far
    at,            \* per request: where its session is
    cookie,        \* per request: the identifier that came with it
    handle,        \* per request: the identifier of its open handle
    fresh,         \* per request: the identifier it is creating
    written,       \* per request: the response headers are written
    sent,          \* identifiers sent to a client
    due,           \* ghost: the latest expiry an identifier was given
    successor,     \* ghost: the identifier that replaced it, if one did
    closed,        \* ghost: identifiers that were logged out
    leaked         \* ghost: identifiers whose removal failed

clockVars == <<clock, nextCleanup>>
ghosts == <<due, successor, closed, leaked>>
memoryVars == <<clock, entries, nextCleanup, ids, at, cookie, handle, fresh, written,
                sent, due, successor, closed, leaked>>

MemoryTypeOK ==
    /\ clock \in 1..MaxMemoryTime /\ nextCleanup \in Nat /\ ids \in 0..MaxId
    /\ entries \in [Id -> Nat] /\ due \in [Id -> Nat] /\ successor \in [Id -> Id \cup {None}]
    /\ at \in [Request -> {"idle", "unopened", "recheck", "create", "created", "drop",
                           "open", "replace", "undo"}]
    /\ cookie \in [Request -> Id \cup {None}]
    /\ handle \in [Request -> Id \cup {None}]
    /\ fresh \in [Request -> Id \cup {None}]
    /\ written \in [Request -> BOOLEAN]
    /\ sent \subseteq Id /\ closed \subseteq Id /\ leaked \subseteq Id

MemoryInit ==
    /\ clock = 1 /\ nextCleanup = 1 + CleanupInterval /\ ids = 0
    /\ entries = [i \in Id |-> None]
    /\ at = [r \in Request |-> "idle"]
    /\ cookie = [r \in Request |-> None]
    /\ handle = [r \in Request |-> None]
    /\ fresh = [r \in Request |-> None]
    /\ written = [r \in Request |-> FALSE]
    /\ sent = {} /\ closed = {} /\ leaked = {}
    /\ due = [i \in Id |-> None] /\ successor = [i \in Id |-> None]

-----------------------------------------------------------------------------
(* MemoryStorage                                                            *)

Known == {i \in Id : entries[i] # None}

Expired(i) == i \in Known /\ clock > entries[i]

Live(i) == i \in Known /\ clock <= entries[i]

\* cleanupExpiredLocked: the entries after a write's sweep, if one is due.
Swept(e) ==
    IF clock < nextCleanup THEN e
    ELSE [i \in Id |-> IF e[i] # None /\ clock > e[i] THEN None ELSE e[i]]

\* Set: the entry is written whatever was there, with a new expiry, then the sweep.
Store(i) ==
    /\ entries' = Swept([entries EXCEPT ![i] = clock + MemoryTTL])
    /\ nextCleanup' = IF clock < nextCleanup THEN nextCleanup ELSE clock + CleanupInterval
    /\ due' = [due EXCEPT ![i] = clock + MemoryTTL]

Erase(i) == entries' = [entries EXCEPT ![i] = None]

-----------------------------------------------------------------------------
(* Requests and Context.Session                                              *)

\* A request arrives, with an identifier that a client was sent or without one.
Begin(r) ==
    /\ at[r] = "idle"
    /\ \E c \in sent \cup {None} : cookie' = [cookie EXCEPT ![r] = c]
    /\ at' = [at EXCEPT ![r] = "unopened"]
    /\ written' = [written EXCEPT ![r] = FALSE]
    /\ UNCHANGED <<clockVars, entries, ids, handle, fresh, sent, ghosts>>

\* The handler writes; from here on no cookie can be set.
Write(r) ==
    /\ at[r] \in {"unopened", "open"} /\ ~written[r]
    /\ written' = [written EXCEPT ![r] = TRUE]
    /\ UNCHANGED <<clockVars, entries, ids, at, cookie, handle, fresh, sent, ghosts>>

End(r) ==
    /\ at[r] \in {"unopened", "open"}
    /\ at' = [at EXCEPT ![r] = "idle"]
    /\ cookie' = [cookie EXCEPT ![r] = None]
    /\ handle' = [handle EXCEPT ![r] = None]
    /\ written' = [written EXCEPT ![r] = FALSE]
    /\ UNCHANGED <<clockVars, entries, ids, fresh, sent, ghosts>>

\* Open has found its session: the cookie is renewed, or Open fails.
Opened(r, i) ==
    \/ /\ ~written[r]
       /\ at' = [at EXCEPT ![r] = "open"]
       /\ handle' = [handle EXCEPT ![r] = i]
    \/ /\ written[r]
       /\ at' = [at EXCEPT ![r] = "unopened"]
       /\ UNCHANGED handle

\* Get, under the read lock: found, not found, or expired and to be looked at again.
\* A handle that was opened before in this request is returned by Context.Session.
Open(r) ==
    /\ at[r] = "unopened"
    /\ \/ Live(cookie[r]) /\ Opened(r, cookie[r])
       \/ /\ Expired(cookie[r])
          /\ at' = [at EXCEPT ![r] = "recheck"]
          /\ UNCHANGED handle
       \/ /\ cookie[r] \notin Known
          /\ at' = [at EXCEPT ![r] = "create"]
          /\ UNCHANGED handle
    /\ UNCHANGED <<clockVars, entries, ids, cookie, fresh, written, sent, ghosts>>

\* Mutant: what the read lock saw is acted on.
RecheckNothing(r) ==
    /\ at[r] = "recheck"
    /\ Erase(cookie[r])
    /\ at' = [at EXCEPT ![r] = "create"]
    /\ UNCHANGED <<clockVars, ids, cookie, handle, fresh, written, sent, ghosts>>

\* Get, under the write lock: the entry may have been written or removed meanwhile.
Recheck(r) ==
    /\ at[r] = "recheck"
    /\ \/ Live(cookie[r]) /\ Opened(r, cookie[r]) /\ UNCHANGED entries
       \/ /\ ~Live(cookie[r])
          /\ Erase(cookie[r])
          /\ at' = [at EXCEPT ![r] = "create"]
          /\ UNCHANGED handle
    /\ UNCHANGED <<clockVars, ids, cookie, fresh, written, sent, ghosts>>

\* A new identifier with an entry of its own.
Make(r) ==
    /\ ids < MaxId
    /\ ids' = ids + 1
    /\ fresh' = [fresh EXCEPT ![r] = ids + 1]
    /\ Store(ids + 1)

\* Open creates a session: stored first, then the cookie is set.
Create(r) ==
    /\ at[r] = "create"
    /\ Make(r)
    /\ at' = [at EXCEPT ![r] = "created"]
    /\ UNCHANGED <<clock, cookie, handle, written, sent, successor, closed, leaked>>

\* The identifier under way is settled: sent to the client, or given up.
Settled(r, where) ==
    /\ at' = [at EXCEPT ![r] = where]
    /\ fresh' = [fresh EXCEPT ![r] = None]

PublishCreated(r) ==
    /\ at[r] = "created" /\ ~written[r]
    /\ Settled(r, "open")
    /\ handle' = [handle EXCEPT ![r] = fresh[r]]
    /\ sent' = sent \cup {fresh[r]}
    /\ UNCHANGED <<clockVars, entries, ids, cookie, written, ghosts>>

\* Mutant: the session that could not be announced stays.
KeepUnannounced(r) ==
    /\ at[r] = "created" /\ written[r]
    /\ Settled(r, "unopened")
    /\ UNCHANGED <<clockVars, entries, ids, cookie, handle, written, sent, ghosts>>

\* The cookie was refused (headers are written): Open removes what it created.
RefuseCreated(r) ==
    /\ at[r] = "created" /\ written[r]
    /\ at' = [at EXCEPT ![r] = "drop"]
    /\ UNCHANGED <<clockVars, entries, ids, cookie, handle, fresh, written, sent, ghosts>>

\* The removal of an identifier that is given up; its error is only joined.
Remove(r) ==
    \/ Erase(fresh[r]) /\ UNCHANGED leaked
    \/ UNCHANGED entries /\ leaked' = leaked \cup {fresh[r]}

DropCreated(r) ==
    /\ at[r] = "drop"
    /\ Remove(r)
    /\ Settled(r, "unopened")
    /\ UNCHANGED <<clockVars, ids, cookie, handle, written, sent, due, successor, closed>>

-----------------------------------------------------------------------------
(* The methods of a handle; one that fails leaves the handle as it was       *)

\* Set, Delete and Clear write the handle's values to its identifier, whether the
\* entry is still there or not.
Change(r) ==
    /\ at[r] = "open"
    /\ Store(handle[r])
    /\ UNCHANGED <<clock, ids, at, cookie, handle, fresh, written, sent, successor,
                   closed, leaked>>

\* Mutant: the old entry is removed before the new one is stored, which fails.
RegenerateErasesFirst(r) ==
    /\ at[r] = "open" /\ ~written[r]
    /\ Erase(handle[r])
    /\ UNCHANGED <<clockVars, ids, at, cookie, handle, fresh, written, sent, ghosts>>

\* Regenerate prepares the cookie, which needs unwritten headers, and stores the
\* values under a new identifier.
Regenerate(r) ==
    /\ at[r] = "open" /\ ~written[r]
    /\ Make(r)
    /\ at' = [at EXCEPT ![r] = "replace"]
    /\ UNCHANGED <<clock, cookie, handle, written, sent, successor, closed, leaked>>

\* It removes the old identifier and sends the new one.
ReplaceOld(r) ==
    /\ at[r] = "replace"
    /\ Erase(handle[r])
    /\ Settled(r, "open")
    /\ handle' = [handle EXCEPT ![r] = fresh[r]]
    /\ sent' = sent \cup {fresh[r]}
    /\ successor' = [successor EXCEPT ![handle[r]] = fresh[r]]
    /\ UNCHANGED <<clockVars, ids, cookie, written, due, closed, leaked>>

\* The removal fails: the new identifier is removed instead.
ReplaceFails(r) ==
    /\ at[r] = "replace"
    /\ at' = [at EXCEPT ![r] = "undo"]
    /\ UNCHANGED <<clockVars, entries, ids, cookie, handle, fresh, written, sent, ghosts>>

UndoReplace(r) ==
    /\ at[r] = "undo"
    /\ Remove(r)
    /\ Settled(r, "open")
    /\ UNCHANGED <<clockVars, ids, cookie, handle, written, sent, due, successor, closed>>

\* Logout removes the entry; the context forgets the handle, so that the request
\* may open another session.
Logout(r) ==
    /\ at[r] = "open" /\ ~written[r]
    /\ Erase(handle[r])
    /\ at' = [at EXCEPT ![r] = "unopened"]
    /\ handle' = [handle EXCEPT ![r] = None]
    /\ closed' = closed \cup {handle[r]}
    /\ UNCHANGED <<clockVars, ids, cookie, fresh, written, sent, due, successor, leaked>>

Tick ==
    /\ clock < MaxMemoryTime
    /\ clock' = clock + 1
    /\ UNCHANGED <<entries, nextCleanup, ids, at, cookie, handle, fresh, written,
                   sent, ghosts>>

MemoryNext ==
    \/ Tick
    \/ \E r \in Request :
         \/ Begin(r) \/ Write(r) \/ End(r)
         \/ Open(r) \/ Recheck(r) \/ Create(r)
         \/ PublishCreated(r) \/ RefuseCreated(r) \/ DropCreated(r)
         \/ Change(r) \/ Regenerate(r) \/ ReplaceOld(r) \/ ReplaceFails(r) \/ UndoReplace(r)
         \/ Logout(r)

MemorySpec == MemoryInit /\ [][MemoryNext]_memoryVars

-----------------------------------------------------------------------------
(* Properties                                                               *)

\* An identifier a client was sent opens its session until it expires or is logged
\* out, unless the client was also sent one that replaced it: however regenerations
\* of one session interleave and fail, none leaves the client with nothing.
SessionSurvives ==
    \A i \in sent \ closed :
        \/ clock > due[i] \/ Live(i)
        \/ successor[i] \in sent

\* An entry nobody was told of belongs to a request that is creating it, or its
\* removal failed: given-up identifiers do not pile up in the storage.
NoOrphans ==
    \A i \in Id : Live(i) => \/ i \in sent \cup leaked
                             \/ \E r \in Request : fresh[r] = i

\* An entry that has not expired is removed only by who gives it up (Regenerate,
\* Logout, a failed Open): Get looks again under the write lock, so a request that
\* saw the entry expired does not remove what another has renewed since.
RenewedStays ==
    [][\A i \in Id : Live(i) /\ entries'[i] = None =>
         \E r \in Request : \/ at[r] \in {"open", "replace"} /\ handle[r] = i
                            \/ at[r] \in {"drop", "undo"} /\ fresh[r] = i]_memoryVars

-----------------------------------------------------------------------------
(* The inductive invariant behind them                                      *)

\* What a request holds: a cookie, and an open handle, is of an identifier a client
\* was sent, and only with a cookie is there an entry to look at again.
HoldInv ==
    \A r \in Request :
      /\ cookie[r] \in sent \cup {None}
      /\ at[r] = "recheck" => cookie[r] # None
      /\ at[r] \in {"open", "replace", "undo"} => handle[r] \in sent

\* An identifier under way is its request's own, until the client is sent it.
FreshInv ==
    /\ \A i \in sent : i <= ids
    /\ \A r \in Request :
         /\ at[r] \in {"created", "drop", "replace", "undo"} => fresh[r] \in Id
         /\ fresh[r] <= ids /\ fresh[r] \notin sent
         /\ fresh[r] # None => at[r] \in {"created", "drop", "replace", "undo"}
         /\ \A q \in Request : fresh[q] = fresh[r] /\ fresh[r] # None => q = r

\* An entry expires when its identifier was last promised to, and has an owner.
EntryInv ==
    \A i \in Id : entries[i] # None =>
      /\ entries[i] = due[i]
      /\ i \in sent \cup leaked \/ \E r \in Request : fresh[r] = i

\* SessionSurvives, of an identifier under way as well: what a request is about to
\* send is not removed by another before it is sent.
SurvivalInv ==
    \A i \in Id :
      i \in sent \ closed \/ (\E r \in Request : fresh[r] = i) =>
        \/ clock > due[i] \/ Live(i)
        \/ successor[i] \in sent

MemoryInv ==
    /\ MemoryTypeOK /\ HoldInv /\ FreshInv /\ EntryInv /\ SurvivalInv

=============================================================================
