----------------------------- MODULE CookieSession -----------------------------
(***************************************************************************)
(* Signed-cookie sessions: CookieStorage and its revocation store           *)
(* (src/session/storage.go) under the handles SessionManager opens for      *)
(* requests (src/ghttp/session.go).  A token lives at the client; what the   *)
(* server keeps is which tokens and which families of tokens are revoked,   *)
(* and until when.                                                          *)
(*                                                                          *)
(* Requests run in parallel, and one may work on a token that another has   *)
(* rotated or logged out.  An action is one call of the store, so requests  *)
(* interleave between minting a token, registering it, revoking the old one *)
(* and publishing; time passes between any two actions.  A token names its  *)
(* payload: nonce (id), family and expiry; session values are left out, and *)
(* so are tokens without a family, which this code never mints.             *)
(***************************************************************************)
EXTENDS Naturals

CONSTANTS Request, Family, NoFamily, NoToken,
          TTL,                 \* seconds a token is valid for
          MaxTime, MaxToken    \* bounds: the clock, and the tokens minted

ASSUME TTLAssumption == TTL \in Nat \ {0}
ASSUME FamilyAssumption == NoFamily \notin Family

Token == [id : Nat, family : Family, exp : Nat]

VARIABLES
    now,              \* the clock, in seconds
    made,             \* tokens minted
    used,             \* families minted
    registered,       \* tokens whose registration succeeded
    published,        \* tokens sent to a client
    revoked,          \* store.tokens: a token is revoked until its expiry
    families,         \* store.families: revoked until; 0 when absent
    familyExpiry,     \* store.familyExpiries: latest expiry; 0 when absent
    pc,               \* per request: where its session is
    token,            \* per request: the handle's id
    family,           \* per request: the handle's family
    minted,           \* per request: the replacement under way
    dead,             \* ghost: tokens a successful revocation was to cover
    loggedOut         \* ghost: tokens of a family when its Logout returned nil

store == <<revoked, families, familyExpiry>>
handles == <<pc, token, family, minted>>
tokens == <<made, used, registered, published>>
vars == <<now, tokens, store, handles, dead, loggedOut>>

TypeOK ==
    /\ now \in Nat /\ made \in Nat
    /\ used \subseteq Family
    /\ registered \subseteq Token /\ published \subseteq Token /\ revoked \subseteq Token
    /\ families \in [Family -> Nat] /\ familyExpiry \in [Family -> Nat]
    /\ pc \in [Request -> {"idle", "decoded", "accepted", "open", "minted", "registered"}]
    /\ token \in [Request -> Token \cup {NoToken}]
    /\ family \in [Request -> Family \cup {NoFamily}]
    /\ minted \in [Request -> Token \cup {NoToken}]
    /\ dead \subseteq Token /\ loggedOut \subseteq Token

Init ==
    /\ now = 1 /\ made = 0 /\ used = {}
    /\ registered = {} /\ published = {} /\ revoked = {}
    /\ families = [f \in Family |-> 0] /\ familyExpiry = [f \in Family |-> 0]
    /\ pc = [r \in Request |-> "idle"]
    /\ token = [r \in Request |-> NoToken]
    /\ family = [r \in Request |-> NoFamily]
    /\ minted = [r \in Request |-> NoToken]
    /\ dead = {} /\ loggedOut = {}

-----------------------------------------------------------------------------
(* MemoryCookieRevocationStore                                              *)

Max2(a, b) == IF a > b THEN a ELSE b

\* cleanupLocked drops what has expired.
Purged(m) == [f \in Family |-> IF m[f] > now THEN m[f] ELSE 0]

Cleanup ==
    /\ revoked' = {t \in revoked : t.exp > now}
    /\ families' = Purged(families)
    /\ familyExpiry' = Purged(familyExpiry)

\* Mutant: only the token itself is looked up.
IsRevokedToken(t) == t \in revoked /\ t.exp > now

IsRevoked(t) == (t \in revoked /\ t.exp > now) \/ families[t.family] > now

FamilyRevoked(f) == families[f] > now

\* Mutant: the last registration replaces the known expiry, even by an earlier one.
NotedLast(f, exp) == [Purged(familyExpiry) EXCEPT ![f] = exp]

\* RegisterFamilyToken of a family that is not revoked.
Noted(f, exp) == [Purged(familyExpiry) EXCEPT ![f] = Max2(exp, @)]

\* Mutant: a family is revoked through the expiry of the token logged out only.
RevokedThroughOwn(f, exp) == [Purged(families) EXCEPT ![f] = Max2(exp, @)]

\* RevokeFamily: through the latest expiry known of the family.
RevokedThrough(f, exp) ==
    [Purged(families) EXCEPT ![f] = Max2(Max2(exp, Purged(familyExpiry)[f]), @)]

-----------------------------------------------------------------------------
(* Opening a session                                                        *)

Decodes(t) == now < t.exp      \* decode: signed by us and not expired

\* The family a handle records: Family decodes the token once more.
FamilyOf(t) == IF Decodes(t) THEN t.family ELSE NoFamily

\* EncodeWithFamily up to its registration: a nonce, an expiry, and a new family
\* unless the handle has one.
MintFor(r, f) ==
    \E g \in Family :
        LET t == [id |-> made + 1, family |-> g, exp |-> now + TTL] IN
        /\ IF f = NoFamily THEN g \notin used ELSE g = f
        /\ made < MaxToken
        /\ made' = made + 1
        /\ used' = used \cup {g}
        /\ minted' = [minted EXCEPT ![r] = t]
        /\ pc' = [pc EXCEPT ![r] = "minted"]

\* Open with a cookie that decodes; its revocation is checked next.
Present(r, t) ==
    /\ pc[r] = "idle" /\ t \in published /\ Decodes(t)
    /\ pc' = [pc EXCEPT ![r] = "decoded"]
    /\ token' = [token EXCEPT ![r] = t]
    /\ UNCHANGED <<now, tokens, store, family, minted, dead, loggedOut>>

\* Open without a cookie, or with one that does not decode: a new session.
OpenNew(r) ==
    /\ pc[r] = "idle"
    /\ MintFor(r, NoFamily)
    /\ token' = [token EXCEPT ![r] = NoToken]
    /\ family' = [family EXCEPT ![r] = NoFamily]
    /\ UNCHANGED <<now, registered, published, store, dead, loggedOut>>

\* IsRevoked for the decoded token.  A revoked one opens a new session, as if no
\* cookie had come (the request is idle again); so is one whose check fails.
CheckRevoked(r) ==
    /\ pc[r] = "decoded"
    /\ Cleanup
    /\ \/ /\ ~IsRevoked(token[r])
          /\ pc' = [pc EXCEPT ![r] = "accepted"]
          /\ UNCHANGED token
       \/ /\ IsRevoked(token[r])
          /\ pc' = [pc EXCEPT ![r] = "idle"]
          /\ token' = [token EXCEPT ![r] = NoToken]
    /\ UNCHANGED <<now, tokens, family, minted, dead, loggedOut>>

\* Open returns the handle, after decoding the family from the token.
OpenHandle(r) ==
    /\ pc[r] = "accepted"
    /\ pc' = [pc EXCEPT ![r] = "open"]
    /\ family' = [family EXCEPT ![r] = FamilyOf(token[r])]
    /\ UNCHANGED <<now, tokens, store, token, minted, dead, loggedOut>>

-----------------------------------------------------------------------------
(* Changing a session: Set, Delete, Clear and Regenerate rotate the token    *)

Mint(r) ==
    /\ pc[r] = "open"
    /\ MintFor(r, family[r])
    /\ UNCHANGED <<now, registered, published, store, token, family, dead, loggedOut>>

\* A failed rotation leaves the handle on its token; a failed Open has none.
Abandon(r) ==
    /\ pc' = [pc EXCEPT ![r] = IF token[r] = NoToken THEN "idle" ELSE "open"]
    /\ minted' = [minted EXCEPT ![r] = NoToken]

\* RegisterFamilyToken refuses a family that is revoked.
Register(r) ==
    LET t == minted[r] IN
    /\ pc[r] = "minted"
    /\ revoked' = {u \in revoked : u.exp > now}
    /\ families' = Purged(families)
    /\ \/ /\ ~FamilyRevoked(t.family)
          /\ familyExpiry' = Noted(t.family, t.exp)
          /\ registered' = registered \cup {t}
          /\ pc' = [pc EXCEPT ![r] = "registered"]
          /\ UNCHANGED minted
       \/ /\ FamilyRevoked(t.family)
          /\ familyExpiry' = Purged(familyExpiry)
          /\ Abandon(r)
          /\ UNCHANGED registered
    /\ UNCHANGED <<now, made, used, published, token, family, dead, loggedOut>>

\* RevokeToken of the token a rotation replaces; one that no longer decodes (or
\* does not exist, for Open) is left alone.
RevokedOld(r) ==
    IF token[r] # NoToken /\ Decodes(token[r]) THEN {token[r]} ELSE {}

Publish(r) ==
    LET t == minted[r] IN
    /\ pc' = [pc EXCEPT ![r] = "open"]
    /\ token' = [token EXCEPT ![r] = t]
    /\ family' = [family EXCEPT ![r] = FamilyOf(t)]
    /\ minted' = [minted EXCEPT ![r] = NoToken]
    /\ published' = published \cup {t}

\* The old token is revoked, then the prepared cookie written.
RevokeAndPublish(r) ==
    /\ pc[r] = "registered"
    /\ revoked' = revoked \cup RevokedOld(r)
    /\ dead' = dead \cup RevokedOld(r)
    /\ Publish(r)
    /\ UNCHANGED <<now, made, used, registered, families, familyExpiry, loggedOut>>

\* Mutant: the cookie is prepared after the revocation, too late for a failure.
PreparedTooLate(r) ==
    /\ pc[r] = "registered"
    /\ revoked' = revoked \cup RevokedOld(r)
    /\ dead' = dead \cup RevokedOld(r)
    /\ Abandon(r)
    /\ UNCHANGED <<now, tokens, token, families, familyExpiry, family, loggedOut>>

\* A call of the store fails, or the response can take no cookie any more; the
\* revocation state is not touched.
StoreFails(r) ==
    /\ pc[r] \in {"decoded", "minted", "registered"}
    /\ IF pc[r] = "decoded"
       THEN /\ pc' = [pc EXCEPT ![r] = "idle"]
            /\ UNCHANGED minted
       ELSE Abandon(r)
    /\ token' = [token EXCEPT ![r] = IF pc[r] = "decoded" THEN NoToken ELSE @]
    /\ UNCHANGED <<now, tokens, store, family, dead, loggedOut>>

\* Logout: Delete revokes the family of the handle's token, unless that token no
\* longer decodes; the handle closes.  (A failed Logout changes nothing.)
Logout(r) ==
    LET t == token[r]
        sameFamily == {u \in registered : u.family = t.family} IN
    /\ pc[r] = "open"
    /\ \/ /\ Decodes(t)
          /\ families' = RevokedThrough(t.family, t.exp)
          /\ familyExpiry' = Purged(familyExpiry)
          /\ revoked' = {u \in revoked : u.exp > now}
          /\ dead' = dead \cup sameFamily
       \/ /\ ~Decodes(t)
          /\ UNCHANGED <<store, dead>>
    /\ loggedOut' = loggedOut \cup sameFamily
    /\ pc' = [pc EXCEPT ![r] = "idle"]
    /\ token' = [token EXCEPT ![r] = NoToken]
    /\ family' = [family EXCEPT ![r] = NoFamily]
    /\ UNCHANGED <<now, tokens, minted>>

\* The request ends with its handle open.
End(r) ==
    /\ pc[r] = "open"
    /\ pc' = [pc EXCEPT ![r] = "idle"]
    /\ token' = [token EXCEPT ![r] = NoToken]
    /\ family' = [family EXCEPT ![r] = NoFamily]
    /\ UNCHANGED <<now, tokens, store, minted, dead, loggedOut>>

Tick ==
    /\ now < MaxTime
    /\ now' = now + 1
    /\ UNCHANGED <<tokens, store, handles, dead, loggedOut>>

Next ==
    \/ Tick
    \/ \E r \in Request :
         \/ \E t \in published : Present(r, t)
         \/ OpenNew(r) \/ CheckRevoked(r) \/ OpenHandle(r)
         \/ Mint(r) \/ Register(r) \/ RevokeAndPublish(r) \/ StoreFails(r)
         \/ Logout(r) \/ End(r)

Spec == Init /\ [][Next]_vars

-----------------------------------------------------------------------------
(* Properties                                                               *)

Accepts(r) == pc[r] = "decoded" /\ pc'[r] = "accepted"

\* A token that was rotated away, or whose family was revoked (tokens that
\* requests in flight had registered included), does not open a session while
\* it has not expired: cleanup never forgets a revocation too early.
RevokedNeverAccepted ==
    [][\A r \in Request : Accepts(r) /\ Decodes(token[r]) => token[r] \notin dead]_vars

\* "A failed rotation leaves the caller on the old token" (session.go:142-144):
\* a token is revoked only when a newer one of its family has been sent out, so
\* rotations, however they interleave and fail, never revoke a client's last.
RotationSupersedes ==
    \A t \in revoked : \E u \in published : u.family = t.family /\ u.id > t.id

\* While a family is revoked, every token it has, those minted by requests that
\* were in flight at Logout included, is revoked with it until it expires
\* (CookieRevocationStore's contract, storage.go:145-149).
RevocationCoversFamily ==
    \A t \in registered : families[t.family] > now => t.exp <= families[t.family]

\* "... so Logout also covers tokens issued by requests already in flight"
\* (storage.go:147-149): when Logout has succeeded, no token its family had by
\* then opens a session.
LogoutCoversInFlight ==
    [][\A r \in Request : Accepts(r) /\ Decodes(token[r]) => token[r] \notin loggedOut]_vars

\* A handle has a token, and a replacement under way is one.
HandleInv ==
    /\ TypeOK
    /\ \A r \in Request : pc[r] \in {"decoded", "accepted", "open"} => token[r] \in Token
    /\ \A r \in Request : pc[r] \in {"minted", "registered"} => minted[r] \in Token

\* The inductive invariant: the store knows an expiry as late as that of every
\* live token, so that what it was told to revoke stays revoked.
RevocationInv ==
    /\ HandleInv
    /\ \A t \in registered : t.exp > now => familyExpiry[t.family] >= t.exp
    /\ \A t \in dead : t.exp > now => t \in revoked \/ families[t.family] >= t.exp
    /\ \A t \in registered :
         families[t.family] > now => t.exp <= now \/ t.exp <= families[t.family]

\* A replacement is younger than the token it replaces, and of its family while
\* that token lives: FamilyOf read the family when the token still decoded.
Younger(r) ==
    /\ token[r] # NoToken => token[r].id <= made
    /\ pc[r] \in {"open", "minted", "registered"} /\ token[r] # NoToken /\ Decodes(token[r])
         => family[r] = token[r].family
    /\ pc[r] \in {"minted", "registered"} =>
         /\ minted[r].id <= made
         /\ family[r] # NoFamily => minted[r].family = family[r]
         /\ token[r] # NoToken => token[r].id < minted[r].id

RotationInv ==
    /\ \A t \in published : t.id <= made
    /\ \A r \in Request : Younger(r)
    /\ RotationSupersedes

=============================================================================
