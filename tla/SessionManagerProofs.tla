------------------------- MODULE SessionManagerProofs -------------------------
(***************************************************************************)
(* Sessions, for any number of requests and any lifetimes.  Signed cookies: *)
(* what is revoked stays so, from RevocationInv and RotationInv.  Memory    *)
(* sessions: what a client was sent opens its session, from MemoryInv of    *)
(* MemorySession.                                                           *)
(***************************************************************************)
EXTENDS SessionManager, TLAPS

-----------------------------------------------------------------------------
(* The maps of the store                                                    *)

\* The greater of two numbers is a number at least as great as each.
LEMMA Max2Bounds ==
    ASSUME NEW a \in Nat, NEW b \in Nat
    PROVE  Max2(a, b) \in Nat /\ Max2(a, b) >= a /\ Max2(a, b) >= b
BY DEF Max2

\* Cleanup keeps the maps typed, and changes no entry that has not expired.
LEMMA PurgedKeeps ==
    ASSUME NEW m \in [Family -> Nat], now \in Nat
    PROVE  /\ Purged(m) \in [Family -> Nat]
           /\ \A f \in Family : Purged(m)[f] <= m[f]
           /\ \A f \in Family, e \in Nat : e > now /\ m[f] >= e => Purged(m)[f] >= e
           /\ \A f \in Family : m[f] > now <=> Purged(m)[f] > now
           /\ \A f \in Family : m[f] > now => Purged(m)[f] = m[f]
BY DEF Purged

\* Noting a token raises the known expiry of its family to cover it.
LEMMA NotedCovers ==
    ASSUME NEW f \in Family, NEW e \in Nat,
           familyExpiry \in [Family -> Nat], now \in Nat
    PROVE  /\ Noted(f, e) \in [Family -> Nat]
           /\ Noted(f, e)[f] >= e
           /\ \A g \in Family, d \in Nat :
                d > now /\ familyExpiry[g] >= d => Noted(f, e)[g] >= d
<1>1. Purged(familyExpiry) \in [Family -> Nat]
  BY PurgedKeeps
<1>2. /\ Max2(e, Purged(familyExpiry)[f]) \in Nat
      /\ Max2(e, Purged(familyExpiry)[f]) >= e
      /\ Max2(e, Purged(familyExpiry)[f]) >= Purged(familyExpiry)[f]
  BY <1>1, Max2Bounds
<1>3. \A g \in Family : Noted(f, e)[g] >= Purged(familyExpiry)[g]
  BY <1>1, <1>2 DEF Noted
<1>4. Noted(f, e) \in [Family -> Nat] /\ Noted(f, e)[f] >= e
  BY <1>1, <1>2 DEF Noted
<1>5. ASSUME NEW g \in Family, NEW d \in Nat, d > now, familyExpiry[g] >= d
      PROVE  Noted(f, e)[g] >= d
  <2>1. Purged(familyExpiry)[g] >= d /\ Purged(familyExpiry)[g] \in Nat
    BY <1>1, <1>5, PurgedKeeps
  <2>2. Noted(f, e)[g] \in Nat
    BY <1>4
  <2> QED
    BY <1>3, <2>1, <2>2
<1> QED
  BY <1>4, <1>5

\* Revoking a family revokes it through every expiry known of it and leaves the
\* live revocations of other families as they are.
LEMMA RevokedThroughCovers ==
    ASSUME NEW f \in Family, NEW e \in Nat,
           families \in [Family -> Nat], familyExpiry \in [Family -> Nat], now \in Nat
    PROVE  /\ RevokedThrough(f, e) \in [Family -> Nat]
           /\ \A d \in Nat : d > now /\ familyExpiry[f] >= d => RevokedThrough(f, e)[f] >= d
           /\ \A g \in Family, d \in Nat :
                d > now /\ families[g] >= d => RevokedThrough(f, e)[g] >= d
           /\ \A g \in Family : g # f => RevokedThrough(f, e)[g] = Purged(families)[g]
<1> DEFINE k == Purged(familyExpiry)[f]
           m == Max2(e, k)
           w == Max2(m, Purged(families)[f])
<1>1. Purged(families) \in [Family -> Nat] /\ Purged(familyExpiry) \in [Family -> Nat]
  BY PurgedKeeps
<1>2. m \in Nat /\ m >= k
  BY <1>1, Max2Bounds
<1>3. w \in Nat /\ w >= m /\ w >= Purged(families)[f]
  BY <1>1, <1>2, Max2Bounds
<1>4. RevokedThrough(f, e) = [Purged(families) EXCEPT ![f] = w]
  BY DEF RevokedThrough
<1>5. ASSUME NEW d \in Nat, d > now, familyExpiry[f] >= d
      PROVE  RevokedThrough(f, e)[f] >= d
  <2>1. k >= d /\ k \in Nat
    BY <1>1, <1>5, PurgedKeeps
  <2> HIDE DEF k, m, w
  <2> QED
    BY <1>1, <1>2, <1>3, <1>4, <2>1
<1>6. ASSUME NEW g \in Family, NEW d \in Nat, d > now, families[g] >= d
      PROVE  RevokedThrough(f, e)[g] >= d
  <2>1. Purged(families)[g] >= d /\ Purged(families)[g] \in Nat
    BY <1>1, <1>6, PurgedKeeps
  <2> HIDE DEF k, m, w
  <2> QED
    BY <1>1, <1>2, <1>3, <1>4, <2>1
<1> HIDE DEF k, m, w
<1> QED
  BY <1>1, <1>3, <1>4, <1>5, <1>6

-----------------------------------------------------------------------------
(* Type correctness                                                         *)

\* A freshly minted token is a token, and minting keeps what it touches typed.
LEMMA MintTyped ==
    ASSUME HandleInv, NEW r \in Request, NEW f \in Family \cup {NoFamily}, MintFor(r, f)
    PROVE  /\ made' \in Nat /\ used' \subseteq Family
           /\ minted' \in [Request -> Token \cup {NoToken}]
           /\ minted'[r] \in Token
           /\ \A q \in Request : q # r => minted'[q] = minted[q]
           /\ pc' = [pc EXCEPT ![r] = "minted"]
<1>1. PICK g \in Family :
        LET t == [id |-> made + 1, family |-> g, exp |-> now + TTL] IN
        /\ made' = made + 1
        /\ used' = used \cup {g}
        /\ minted' = [minted EXCEPT ![r] = t]
        /\ pc' = [pc EXCEPT ![r] = "minted"]
  BY DEF MintFor
<1>2. [id |-> made + 1, family |-> g, exp |-> now + TTL] \in Token
  BY TTLAssumption DEF Token, HandleInv, TypeOK
<1> QED
  BY <1>1, <1>2 DEF HandleInv, TypeOK

\* Handles keep their tokens and families, and the store its maps, typed through
\* every call and however calls fail.
THEOREM HandlesTyped == Spec => []HandleInv
<1>1. Init => HandleInv
  BY DEF Init, HandleInv, TypeOK
<1>2. HandleInv /\ [Next]_vars => HandleInv'
  <2> SUFFICES ASSUME HandleInv, [Next]_vars
               PROVE  HandleInv'
    OBVIOUS
  <2> USE DEF HandleInv, TypeOK, tokens, store
  <2>1. CASE Tick
    BY <2>1 DEF Tick, handles
  <2>2. ASSUME NEW r \in Request, NEW t \in published, Present(r, t)
        PROVE  HandleInv'
    BY <2>2 DEF Present
  <2>3. ASSUME NEW r \in Request, OpenNew(r)
        PROVE  HandleInv'
    BY <2>3, MintTyped DEF OpenNew
  <2>4. ASSUME NEW r \in Request, CheckRevoked(r)
        PROVE  HandleInv'
    BY <2>4, PurgedKeeps DEF CheckRevoked, Cleanup
  <2>5. ASSUME NEW r \in Request, OpenHandle(r)
        PROVE  HandleInv'
    <3>1. token[r] \in Token
      BY <2>5 DEF OpenHandle
    <3>2. FamilyOf(token[r]) \in Family \cup {NoFamily}
      BY <3>1 DEF FamilyOf, Token
    <3> QED
      BY <2>5, <3>2 DEF OpenHandle
  <2>6. ASSUME NEW r \in Request, Mint(r)
        PROVE  HandleInv'
    BY <2>6, MintTyped DEF Mint
  <2>7. ASSUME NEW r \in Request, Register(r)
        PROVE  HandleInv'
    <3>1. minted[r] \in Token /\ minted[r].family \in Family /\ minted[r].exp \in Nat
      BY <2>7 DEF Register, Token
    <3>2. Noted(minted[r].family, minted[r].exp) \in [Family -> Nat]
      BY <3>1, NotedCovers
    <3> QED
      BY <2>7, <3>1, <3>2, PurgedKeeps DEF Register, Abandon
  <2>8. ASSUME NEW r \in Request, RevokeAndPublish(r)
        PROVE  HandleInv'
    <3>1. minted[r] \in Token
      BY <2>8 DEF RevokeAndPublish
    <3>2. FamilyOf(minted[r]) \in Family \cup {NoFamily}
      BY <3>1 DEF FamilyOf, Token
    <3>3. RevokedOld(r) \subseteq Token
      BY DEF RevokedOld
    <3> QED
      BY <2>8, <3>1, <3>2, <3>3 DEF RevokeAndPublish, Publish
  <2>9. ASSUME NEW r \in Request, StoreFails(r)
        PROVE  HandleInv'
    BY <2>9 DEF StoreFails, Abandon
  <2>10. ASSUME NEW r \in Request, Logout(r)
         PROVE  HandleInv'
    <3>1. token[r] \in Token /\ token[r].family \in Family /\ token[r].exp \in Nat
      BY <2>10 DEF Logout, Token
    <3>2. RevokedThrough(token[r].family, token[r].exp) \in [Family -> Nat]
      BY <3>1, RevokedThroughCovers
    <3>3. store' = store \/ familyExpiry' = Purged(familyExpiry)
      BY <2>10 DEF Logout
    <3> QED
      BY <2>10, <3>2, PurgedKeeps DEF Logout
  <2>11. ASSUME NEW r \in Request, End(r)
         PROVE  HandleInv'
    BY <2>11 DEF End
  <2>12. CASE UNCHANGED vars
    BY <2>12 DEF vars, handles
  <2> QED
    BY <2>1, <2>2, <2>3, <2>4, <2>5, <2>6, <2>7, <2>8, <2>9, <2>10, <2>11, <2>12 DEF Next
<1> QED
  BY <1>1, <1>2, PTL DEF Spec

-----------------------------------------------------------------------------
(* Revocation                                                               *)

\* What the store was told to revoke stays revoked until it expires, whatever is
\* registered, rotated, logged out and cleaned up meanwhile.
THEOREM RevocationInvariant == Spec => []RevocationInv
<1>1. Init => RevocationInv
  <2>1. Init => HandleInv
    BY DEF Init, HandleInv, TypeOK
  <2> QED
    BY <2>1 DEF Init, RevocationInv, HandleInv, TypeOK
<1>2. RevocationInv /\ HandleInv' /\ [Next]_vars => RevocationInv'
  <2> SUFFICES ASSUME RevocationInv, HandleInv', [Next]_vars
               PROVE  RevocationInv'
    OBVIOUS
  <2>t. /\ now \in Nat
        /\ registered \subseteq Token /\ dead \subseteq Token
        /\ families \in [Family -> Nat] /\ familyExpiry \in [Family -> Nat]
        /\ \A t \in Token : t.family \in Family /\ t.exp \in Nat
    BY DEF RevocationInv, HandleInv, TypeOK, Token
  <2>s. ASSUME UNCHANGED <<now, registered, store, dead>>
        PROVE  RevocationInv'
    BY <2>s DEF RevocationInv, store
  <2>1. CASE Tick
    BY <2>1, <2>t DEF Tick, RevocationInv, tokens, store
  <2>2. ASSUME NEW r \in Request, NEW t \in published, Present(r, t)
        PROVE  RevocationInv'
    BY <2>2, <2>s DEF Present, tokens
  <2>3. ASSUME NEW r \in Request, OpenNew(r) \/ Mint(r)
        PROVE  RevocationInv'
    BY <2>3, <2>s DEF OpenNew, Mint
  <2>4. ASSUME NEW r \in Request, CheckRevoked(r)
        PROVE  RevocationInv'
    <3>1. /\ UNCHANGED <<now, registered, dead>>
          /\ revoked' = {u \in revoked : u.exp > now}
          /\ families' = Purged(families) /\ familyExpiry' = Purged(familyExpiry)
      BY <2>4 DEF CheckRevoked, Cleanup, tokens
    <3> QED
      BY <2>t, <3>1, PurgedKeeps DEF RevocationInv
  <2>5. ASSUME NEW r \in Request, OpenHandle(r) \/ StoreFails(r) \/ End(r)
        PROVE  RevocationInv'
    BY <2>5, <2>s DEF OpenHandle, StoreFails, End, tokens
  <2>6. ASSUME NEW r \in Request, Register(r)
        PROVE  RevocationInv'
    <3> DEFINE t == minted[r]
    <3>1. t \in Token
      BY <2>6 DEF Register, RevocationInv, HandleInv
    <3>2. /\ UNCHANGED <<now, dead>>
          /\ revoked' = {u \in revoked : u.exp > now}
          /\ families' = Purged(families)
      BY <2>6 DEF Register
    <3>3. \A u \in dead : u.exp > now' => u \in revoked' \/ families'[u.family] >= u.exp
      BY <2>t, <3>2, PurgedKeeps DEF RevocationInv
    <3>4. CASE ~FamilyRevoked(t.family)
      <4>1. familyExpiry' = Noted(t.family, t.exp) /\ registered' = registered \cup {t}
        BY <2>6, <3>4 DEF Register
      <4>2. \A u \in registered' : u.exp > now' => familyExpiry'[u.family] >= u.exp
        BY <2>t, <3>1, <3>2, <4>1, NotedCovers DEF RevocationInv
      <4>3. \A u \in registered' :
              families'[u.family] > now' => u.exp <= now' \/ u.exp <= families'[u.family]
        BY <2>t, <3>1, <3>2, <3>4, <4>1, PurgedKeeps DEF RevocationInv, FamilyRevoked
      <4> QED
        BY <3>2, <3>3, <4>2, <4>3 DEF RevocationInv
    <3>5. CASE FamilyRevoked(t.family)
      <4>1. familyExpiry' = Purged(familyExpiry) /\ registered' = registered
        BY <2>6, <3>5 DEF Register
      <4> QED
        BY <2>t, <3>2, <3>3, <4>1, PurgedKeeps DEF RevocationInv
    <3> QED
      BY <3>4, <3>5
  <2>7. ASSUME NEW r \in Request, RevokeAndPublish(r)
        PROVE  RevocationInv'
    BY <2>7 DEF RevokeAndPublish, RevocationInv
  <2>8. ASSUME NEW r \in Request, Logout(r)
        PROVE  RevocationInv'
    <3> DEFINE t == token[r]
    <3>1. t \in Token
      BY <2>8 DEF Logout, RevocationInv, HandleInv
    <3>2. UNCHANGED <<now, registered>>
      BY <2>8 DEF Logout, tokens
    <3>3. CASE ~Decodes(t)
      BY <2>8, <2>s, <3>2, <3>3 DEF Logout
    <3>4. CASE Decodes(t)
      <4>1. /\ families' = RevokedThrough(t.family, t.exp)
            /\ familyExpiry' = Purged(familyExpiry)
            /\ revoked' = {u \in revoked : u.exp > now}
            /\ dead' = dead \cup {u \in registered : u.family = t.family}
        BY <2>8, <3>4 DEF Logout
      <4>2. \A u \in registered' : u.exp > now' => familyExpiry'[u.family] >= u.exp
        BY <2>t, <3>2, <4>1, PurgedKeeps DEF RevocationInv
      <4>3. ASSUME NEW u \in registered, u.family = t.family, u.exp > now
            PROVE  families'[u.family] >= u.exp
        <5>1. familyExpiry[t.family] >= u.exp
          BY <4>3 DEF RevocationInv
        <5> QED
          BY <2>t, <3>1, <4>1, <4>3, <5>1, RevokedThroughCovers
      <4>4. ASSUME NEW u \in dead', u.exp > now'
            PROVE  u \in revoked' \/ families'[u.family] >= u.exp
        <5>1. CASE u \in registered /\ u.family = t.family
          BY <3>2, <4>3, <4>4, <5>1
        <5>2. CASE u \in dead /\ u \in revoked
          BY <3>2, <4>1, <4>4, <5>2
        <5>3. CASE u \in dead /\ families[u.family] >= u.exp
          BY <2>t, <3>1, <3>2, <4>1, <4>4, <5>3, RevokedThroughCovers
        <5> QED
          BY <3>2, <4>1, <4>4, <5>1, <5>2, <5>3 DEF RevocationInv
      <4>5. ASSUME NEW u \in registered', families'[u.family] > now'
            PROVE  u.exp <= now' \/ u.exp <= families'[u.family]
        <5>1. CASE u.family = t.family
          BY <2>t, <3>2, <4>3, <4>5, <5>1
        <5>2. CASE u.family # t.family
          <6>1. families'[u.family] = Purged(families)[u.family]
            BY <2>t, <3>1, <3>2, <4>1, <5>2, RevokedThroughCovers
          <6> QED
            BY <2>t, <3>2, <4>5, <6>1, PurgedKeeps DEF RevocationInv
        <5> QED
          BY <5>1, <5>2
      <4> QED
        BY <4>2, <4>4, <4>5 DEF RevocationInv
    <3> QED
      BY <3>3, <3>4
  <2>9. CASE UNCHANGED vars
    BY <2>9, <2>s DEF vars, tokens
  <2> QED
    BY <2>1, <2>2, <2>3, <2>4, <2>5, <2>6, <2>7, <2>8, <2>9 DEF Next
<1> QED
  BY <1>1, <1>2, HandlesTyped, PTL DEF Spec

\* While a family is revoked, the revocation outlasts every token it has.
THEOREM FamilyCovered == Spec => []RevocationCoversFamily
<1>1. RevocationInv => RevocationCoversFamily
  BY DEF RevocationInv, HandleInv, TypeOK, RevocationCoversFamily, Token
<1> QED
  BY <1>1, RevocationInvariant, PTL

\* A live token that was revoked, by itself or with its family, opens no session.
THEOREM RevokedRejected == Spec => RevokedNeverAccepted
<1> DEFINE Rejected ==
      \A r \in Request : Accepts(r) /\ Decodes(token[r]) => token[r] \notin dead
<1>1. RevocationInv /\ [Next]_vars => [Rejected]_vars
  <2> SUFFICES ASSUME RevocationInv, Next, NEW r \in Request, Accepts(r), Decodes(token[r]),
                      token[r] \in dead
               PROVE  FALSE
    OBVIOUS
  <2>1. CheckRevoked(r) /\ ~IsRevoked(token[r])
    <3> USE DEF RevocationInv, HandleInv, TypeOK, Accepts
    <3>1. ~Tick
      BY DEF Tick, handles
    <3>2. ASSUME NEW q \in Request
          PROVE  /\ \A t \in published : ~Present(q, t)
                 /\ ~OpenNew(q) /\ ~OpenHandle(q) /\ ~Mint(q) /\ ~Register(q)
                 /\ ~RevokeAndPublish(q) /\ ~StoreFails(q) /\ ~Logout(q) /\ ~End(q)
      BY DEF Present, OpenNew, OpenHandle, Mint, MintFor, Register, RevokeAndPublish, Publish,
             StoreFails, Abandon, Logout, End
    <3>3. PICK q \in Request : CheckRevoked(q)
      BY <3>1, <3>2 DEF Next
    <3> QED
      BY <3>3 DEF CheckRevoked
  <2>2. token[r] \in Token /\ token[r].exp > now
    BY DEF RevocationInv, HandleInv, TypeOK, Accepts, Decodes, Token
  <2>3. CASE token[r] \in revoked
    BY <2>1, <2>2, <2>3 DEF IsRevoked
  <2>4. CASE families[token[r].family] >= token[r].exp
    BY <2>1, <2>2, <2>4 DEF IsRevoked, RevocationInv, HandleInv, TypeOK, Token
  <2> QED
    BY <2>2, <2>3, <2>4 DEF RevocationInv
<1> QED
  BY <1>1, RevocationInvariant, PTL DEF Spec, RevokedNeverAccepted

-----------------------------------------------------------------------------
(* Rotation                                                                  *)

\* Calls that neither mint, publish nor revoke, and leave the handles of the
\* other requests alone.
LEMMA OthersYounger ==
    ASSUME HandleInv, HandleInv', RotationInv, NEW r \in Request,
           made' \in Nat, made <= made', now' = now,
           published' = published, revoked' \subseteq revoked,
           \A q \in Request : q # r =>
             pc'[q] = pc[q] /\ token'[q] = token[q] /\ family'[q] = family[q] /\ minted'[q] = minted[q],
           Younger(r)'
    PROVE  RotationInv'
<1>1. ASSUME NEW t \in Token, t.id <= made
      PROVE  t.id <= made'
  BY <1>1 DEF Token, HandleInv, TypeOK
<1>2. \A t \in published' : t.id <= made'
  BY <1>1 DEF RotationInv, HandleInv, TypeOK
<1>3. ASSUME NEW q \in Request
      PROVE  Younger(q)'
  <2>1. CASE q = r
    BY <2>1
  <2>2. CASE q # r
    <3>1. Younger(q)
      BY DEF RotationInv
    <3>2. /\ pc'[q] = pc[q] /\ token'[q] = token[q] /\ family'[q] = family[q] /\ minted'[q] = minted[q]
          /\ token[q] \in Token \cup {NoToken}
          /\ pc[q] \in {"minted", "registered"} => minted[q] \in Token
      BY <2>2 DEF HandleInv, TypeOK
    <3>3. /\ token'[q] # NoToken => token'[q].id <= made'
          /\ pc'[q] \in {"minted", "registered"} => minted'[q].id <= made'
      BY <1>1, <3>1, <3>2 DEF Younger
    <3> QED
      BY <3>1, <3>2, <3>3 DEF Younger, Decodes
  <2> QED
    BY <2>1, <2>2
<1>4. RotationSupersedes'
  BY DEF RotationInv, RotationSupersedes
<1> QED
  BY <1>2, <1>3, <1>4 DEF RotationInv

\* Minting: younger than every token, and of the family the handle has.
LEMMA MintYounger ==
    ASSUME HandleInv, NEW r \in Request, NEW f \in Family \cup {NoFamily}, MintFor(r, f)
    PROVE  /\ made' = made + 1 /\ minted'[r].id = made + 1
           /\ f # NoFamily => minted'[r].family = f
<1>1. PICK g \in Family :
        /\ IF f = NoFamily THEN g \notin used ELSE g = f
        /\ made' = made + 1
        /\ minted' = [minted EXCEPT ![r] = [id |-> made + 1, family |-> g, exp |-> now + TTL]]
  BY DEF MintFor
<1> QED
  BY <1>1 DEF HandleInv, TypeOK

\* Set, Delete, Clear and Regenerate: a revoked token has a successor that was
\* sent out, in whatever order requests rotate and however their calls fail.
THEOREM RotationInvariant == Spec => []RotationInv
<1>1. Init => RotationInv
  BY DEF Init, RotationInv, Younger, RotationSupersedes
<1>2. HandleInv /\ HandleInv' /\ RotationInv /\ [Next]_vars => RotationInv'
  <2> SUFFICES ASSUME HandleInv, HandleInv', RotationInv, [Next]_vars
               PROVE  RotationInv'
    OBVIOUS
  <2>t. /\ made \in Nat /\ now \in Nat /\ published \subseteq Token
        /\ pc \in [Request -> {"idle", "decoded", "accepted", "open", "minted", "registered"}]
        /\ token \in [Request -> Token \cup {NoToken}]
        /\ family \in [Request -> Family \cup {NoFamily}]
        /\ minted \in [Request -> Token \cup {NoToken}]
    BY DEF HandleInv, TypeOK
  <2>y. \A r \in Request : Younger(r)
    BY DEF RotationInv
  <2>1. CASE Tick
    <3>1. /\ now' = now + 1
          /\ UNCHANGED <<made, published, revoked, pc, token, family, minted>>
      BY <2>1 DEF Tick, tokens, store, handles
    <3>2. ASSUME NEW r \in Request
          PROVE  Younger(r)'
      <4>1. token[r] \in Token => (Decodes(token[r])' => Decodes(token[r]))
        BY <2>t, <3>1 DEF Decodes, Token
      <4> QED
        BY <2>t, <2>y, <3>1, <4>1 DEF Younger
    <3> QED
      BY <3>1, <3>2 DEF RotationInv, RotationSupersedes
  <2>2. ASSUME NEW r \in Request, NEW t \in published, Present(r, t)
        PROVE  RotationInv'
    <3>1. /\ pc' = [pc EXCEPT ![r] = "decoded"] /\ token' = [token EXCEPT ![r] = t]
          /\ UNCHANGED <<now, made, published, revoked, family, minted>>
      BY <2>2 DEF Present, tokens, store
    <3>2. Younger(r)'
      BY <2>t, <3>1 DEF Younger, RotationInv
    <3> QED
      BY <2>t, <3>1, <3>2, OthersYounger
  <2>3. ASSUME NEW r \in Request, OpenNew(r)
        PROVE  RotationInv'
    <3>1. /\ MintFor(r, NoFamily)
          /\ token' = [token EXCEPT ![r] = NoToken] /\ family' = [family EXCEPT ![r] = NoFamily]
          /\ UNCHANGED <<now, published, revoked>>
      BY <2>3 DEF OpenNew, store
    <3>2. /\ made' = made + 1 /\ minted'[r].id = made + 1
          /\ \A q \in Request : q # r => minted'[q] = minted[q]
          /\ pc' = [pc EXCEPT ![r] = "minted"]
      BY <3>1, MintTyped, MintYounger
    <3>3. Younger(r)'
      BY <2>t, <3>1, <3>2 DEF Younger
    <3> QED
      BY <2>t, <3>1, <3>2, <3>3, OthersYounger
  <2>4. ASSUME NEW r \in Request, CheckRevoked(r)
        PROVE  RotationInv'
    <3>1. /\ pc' = [pc EXCEPT ![r] = pc'[r]] /\ pc'[r] \in {"accepted", "idle"}
          /\ token' = token \/ token' = [token EXCEPT ![r] = NoToken]
          /\ UNCHANGED <<now, made, published, family, minted>> /\ revoked' \subseteq revoked
      BY <2>t, <2>4 DEF CheckRevoked, Cleanup, tokens
    <3>2. Younger(r)'
      BY <2>t, <2>y, <3>1 DEF Younger
    <3> QED
      BY <2>t, <3>1, <3>2, OthersYounger
  <2>5. ASSUME NEW r \in Request, OpenHandle(r)
        PROVE  RotationInv'
    <3>1. /\ pc' = [pc EXCEPT ![r] = "open"] /\ family' = [family EXCEPT ![r] = FamilyOf(token[r])]
          /\ UNCHANGED <<now, made, published, revoked, token, minted>>
      BY <2>5 DEF OpenHandle, tokens, store
    <3>2. Younger(r)'
      BY <2>t, <2>y, <3>1 DEF Younger, FamilyOf, Decodes
    <3> QED
      BY <2>t, <3>1, <3>2, OthersYounger
  <2>6. ASSUME NEW r \in Request, Mint(r)
        PROVE  RotationInv'
    <3>1. /\ MintFor(r, family[r]) /\ family[r] \in Family \cup {NoFamily} /\ pc[r] = "open"
          /\ UNCHANGED <<now, published, revoked, token, family>>
      BY <2>t, <2>6 DEF Mint, store
    <3>2. /\ made' = made + 1 /\ minted'[r].id = made + 1
          /\ family[r] # NoFamily => minted'[r].family = family[r]
          /\ \A q \in Request : q # r => minted'[q] = minted[q]
          /\ pc' = [pc EXCEPT ![r] = "minted"]
      BY <3>1, MintTyped, MintYounger
    <3>3. token[r] # NoToken => token[r].id <= made /\ token[r].id \in Nat
      BY <2>t, <2>y DEF Younger, Token
    <3>4. Younger(r)'
      <4>1. token[r] # NoToken => token[r].id <= made + 1 /\ token[r].id < made + 1
        BY <2>t, <3>3
      <4>2. Decodes(token[r]) /\ token[r] # NoToken => family[r] = token[r].family
        BY <2>y, <3>1 DEF Younger
      <4> QED
        BY <2>t, <3>1, <3>2, <4>1, <4>2 DEF Younger, Decodes
    <3> QED
      BY <2>t, <3>1, <3>2, <3>4, OthersYounger
  <2>7. ASSUME NEW r \in Request, Register(r)
        PROVE  RotationInv'
    <3>1. /\ UNCHANGED <<now, made, published, token, family>> /\ revoked' \subseteq revoked
          /\ pc[r] = "minted"
          /\ \/ pc' = [pc EXCEPT ![r] = "registered"] /\ UNCHANGED minted
             \/ Abandon(r)
      BY <2>7 DEF Register
    <3>2. Younger(r)'
      BY <2>t, <2>y, <3>1 DEF Younger, Abandon, Decodes
    <3>3. \A q \in Request : q # r => pc'[q] = pc[q] /\ minted'[q] = minted[q]
      BY <2>t, <3>1 DEF Abandon
    <3> QED
      BY <2>t, <3>1, <3>2, <3>3, OthersYounger
  <2>8. ASSUME NEW r \in Request, RevokeAndPublish(r)
        PROVE  RotationInv'
    <3> DEFINE t == minted[r]
    <3>1. /\ pc[r] = "registered" /\ revoked' = revoked \cup RevokedOld(r)
          /\ pc' = [pc EXCEPT ![r] = "open"] /\ token' = [token EXCEPT ![r] = t]
          /\ family' = [family EXCEPT ![r] = FamilyOf(t)]
          /\ minted' = [minted EXCEPT ![r] = NoToken]
          /\ published' = published \cup {t} /\ UNCHANGED <<now, made>>
      BY <2>8 DEF RevokeAndPublish, Publish
    <3>2. t \in Token /\ t.id <= made
      BY <2>y, <3>1 DEF HandleInv, Younger
    <3>3. ASSUME NEW q \in Request
          PROVE  Younger(q)'
      <4>1. CASE q = r
        BY <2>t, <3>1, <3>2, <4>1 DEF Younger, FamilyOf, Decodes
      <4>2. CASE q # r
        BY <2>t, <2>y, <3>1, <4>2 DEF Younger, Decodes
      <4> QED
        BY <4>1, <4>2
    <3>4. ASSUME NEW u \in RevokedOld(r)
          PROVE  t.family = u.family /\ t.id > u.id
      <4>1. u = token[r] /\ token[r] # NoToken /\ Decodes(token[r]) /\ token[r] \in Token
        BY <2>t DEF RevokedOld
      <4>2. /\ family[r] = token[r].family /\ (family[r] # NoFamily => t.family = family[r])
            /\ token[r].id < t.id
        BY <2>y, <3>1, <4>1 DEF Younger
      <4>3. token[r].family # NoFamily
        BY <4>1, FamilyAssumption DEF Token
      <4> QED
        BY <3>2, <4>1, <4>2, <4>3 DEF Token
    <3>5. RotationSupersedes'
      BY <3>1, <3>4 DEF RotationInv, RotationSupersedes
    <3>6. \A u \in published' : u.id <= made'
      BY <3>1, <3>2 DEF RotationInv
    <3> QED
      BY <3>3, <3>5, <3>6 DEF RotationInv
  <2>9. ASSUME NEW r \in Request, StoreFails(r)
        PROVE  RotationInv'
    <3>1. /\ UNCHANGED <<now, made, published, revoked, family>>
          /\ \/ /\ pc' = [pc EXCEPT ![r] = "idle"] /\ UNCHANGED minted
                /\ token' = [token EXCEPT ![r] = NoToken]
             \/ /\ pc[r] \in {"minted", "registered"} /\ Abandon(r)
                /\ token' = token
      BY <2>t, <2>9 DEF StoreFails, tokens, store
    <3>2. Younger(r)'
      BY <2>t, <2>y, <3>1 DEF Younger, Abandon, Decodes
    <3>3. \A q \in Request : q # r =>
            pc'[q] = pc[q] /\ minted'[q] = minted[q] /\ token'[q] = token[q]
      BY <2>t, <3>1 DEF Abandon
    <3> QED
      BY <2>t, <3>1, <3>2, <3>3, OthersYounger
  <2>10. ASSUME NEW r \in Request, Logout(r) \/ End(r)
         PROVE  RotationInv'
    <3>1. /\ pc' = [pc EXCEPT ![r] = "idle"] /\ token' = [token EXCEPT ![r] = NoToken]
          /\ family' = [family EXCEPT ![r] = NoFamily]
          /\ UNCHANGED <<now, made, published, minted>> /\ revoked' \subseteq revoked
      BY <2>10 DEF Logout, End, tokens, store
    <3>2. Younger(r)'
      BY <2>t, <3>1 DEF Younger
    <3> QED
      BY <2>t, <3>1, <3>2, OthersYounger
  <2>11. CASE UNCHANGED vars
    BY <2>11 DEF vars, tokens, store, handles, RotationInv, RotationSupersedes, Younger, Decodes
  <2> QED
    BY <2>1, <2>2, <2>3, <2>4, <2>5, <2>6, <2>7, <2>8, <2>9, <2>10, <2>11 DEF Next
<1> QED
  BY <1>1, <1>2, HandlesTyped, PTL DEF Spec

\* "A failed rotation leaves the caller on the old token" (session.go): no client
\* is left with a revoked token as its last.
THEOREM RevokedHasSuccessor == Spec => []RotationSupersedes
<1>1. RotationInv => RotationSupersedes
  BY DEF RotationInv
<1> QED
  BY <1>1, RotationInvariant, PTL

-----------------------------------------------------------------------------
(* The memory storage                                                       *)

\* What the storage's operators say, unfolded.
LEMMA MemoryReading ==
    /\ Memory!Id = 1..MaxId /\ Memory!None = 0
    /\ \A i : Memory!Live(i) <=> i \in Memory!Id /\ entries[i] # 0 /\ clock <= entries[i]
    /\ \A i : i \in Memory!Known <=> i \in Memory!Id /\ entries[i] # 0
BY DEF Memory!Live, Memory!Known, Memory!Id, Memory!None

\* A sweep removes only what has expired.
LEMMA SweepKeepsLive ==
    ASSUME NEW e \in [Memory!Id -> Nat]
    PROVE  /\ Memory!Swept(e) \in [Memory!Id -> Nat]
           /\ \A i \in Memory!Id : Memory!Swept(e)[i] # e[i] =>
                                     Memory!Swept(e)[i] = 0 /\ clock > e[i]
BY DEF Memory!Swept, Memory!None

\* A write promises the identifier to live from now on, and loses no other live entry.
StoreResult(i) ==
    /\ entries' \in [Memory!Id -> Nat] /\ due' \in [Memory!Id -> Nat]
    /\ nextCleanup' \in Nat
    /\ entries'[i] = due'[i] /\ clock <= entries'[i] /\ entries'[i] # 0
    /\ \A j \in Memory!Id \ {i} :
         /\ due'[j] = due[j]
         /\ entries'[j] # entries[j] => entries'[j] = 0 /\ clock > entries[j]

LEMMA StoreEffect ==
    ASSUME Memory!MemoryTypeOK, NEW i \in Memory!Id, Memory!Store(i)
    PROVE  StoreResult(i)
<1> DEFINE e == [entries EXCEPT ![i] = clock + MemoryTTL]
<1>1. clock \in Nat \ {0} /\ clock + MemoryTTL \in Nat \ {0} /\ clock <= clock + MemoryTTL
  BY MemoryAssumption DEF Memory!MemoryTypeOK
<1>2. e \in [Memory!Id -> Nat] /\ e[i] = clock + MemoryTTL
      /\ \A j \in Memory!Id \ {i} : e[j] = entries[j]
  BY <1>1 DEF Memory!MemoryTypeOK
<1>3. entries' = Memory!Swept(e) /\ due' = [due EXCEPT ![i] = clock + MemoryTTL]
  BY DEF Memory!Store
<1>4. nextCleanup' \in Nat
  BY <1>1, MemoryAssumption DEF Memory!Store, Memory!MemoryTypeOK
<1>5. /\ due' \in [Memory!Id -> Nat] /\ due'[i] = clock + MemoryTTL
      /\ \A j \in Memory!Id \ {i} : due'[j] = due[j]
  BY <1>1, <1>3 DEF Memory!MemoryTypeOK
<1> HIDE DEF e
<1>6. /\ Memory!Swept(e) \in [Memory!Id -> Nat]
      /\ \A j \in Memory!Id : Memory!Swept(e)[j] # e[j] =>
                                Memory!Swept(e)[j] = 0 /\ clock > e[j]
  BY <1>2, SweepKeepsLive
<1>7. entries'[i] = clock + MemoryTTL
  BY <1>1, <1>2, <1>3, <1>6
<1> QED
  BY <1>1, <1>2, <1>3, <1>4, <1>5, <1>6, <1>7 DEF StoreResult

\* After a write the identifier written is live, and what was live or had expired
\* still is.
LEMMA StoredSurvives ==
    ASSUME Memory!MemoryTypeOK, Memory!EntryInv, NEW i \in Memory!Id, StoreResult(i),
           UNCHANGED clock
    PROVE  /\ Memory!Live(i)'
           /\ \A j \in Memory!Id \ {i} :
                /\ due'[j] = due[j]
                /\ Memory!Live(j) => Memory!Live(j)'
<1>1. \A j \in Memory!Id : entries[j] \in Nat /\ clock \in Nat
  BY DEF Memory!MemoryTypeOK
<1>2. entries'[i] # 0 /\ clock' <= entries'[i]
  BY DEF StoreResult
<1>3. ASSUME NEW j \in Memory!Id \ {i}, Memory!Live(j)
      PROVE  Memory!Live(j)'
  <2>1. entries[j] # 0 /\ clock <= entries[j]
    BY <1>3 DEF Memory!Live, Memory!Known, Memory!None
  <2>2. entries'[j] = entries[j]
    BY <1>1, <2>1 DEF StoreResult
  <2> QED
    BY <2>1, <2>2 DEF Memory!Live, Memory!Known, Memory!None
<1> QED
  BY <1>2, <1>3 DEF Memory!Live, Memory!Known, Memory!None, StoreResult

\* The request is creating an identifier.
UnderWay == {"created", "drop", "replace", "undo"}

\* Every step of the memory storage keeps the strengthening.
LEMMA MemoryStep ==
    ASSUME Memory!MemoryInv, Memory!MemoryNext
    PROVE  Memory!MemoryInv'
<1> USE DEF Memory!Id, Memory!None
<1> USE MemoryAssumption
<1>0. /\ Memory!MemoryTypeOK /\ Memory!HoldInv /\ Memory!FreshInv
      /\ Memory!EntryInv /\ Memory!SurvivalInv
  BY DEF Memory!MemoryInv
<1>1. CASE Memory!Tick
  <2> USE <1>0, <1>1 DEF Memory!Tick, Memory!ghosts
  <2>1. Memory!MemoryTypeOK'
    BY DEF Memory!MemoryTypeOK
  <2>2. Memory!HoldInv' /\ Memory!FreshInv' /\ Memory!EntryInv'
    BY DEF Memory!HoldInv, Memory!FreshInv, Memory!EntryInv
  <2>3. Memory!SurvivalInv'
    <3>1. clock' = clock + 1 /\ clock \in Nat /\ \A i \in Memory!Id : due[i] \in Nat
      BY DEF Memory!MemoryTypeOK
    <3>2. \A i \in Memory!Id : Memory!Live(i) => entries[i] = due[i]
      BY DEF Memory!EntryInv, Memory!Live, Memory!Known
    <3>3. \A i \in Memory!Id : Memory!Live(i)' \/ clock' > due[i] \/ ~Memory!Live(i)
      BY <3>1, <3>2 DEF Memory!Live, Memory!Known
    <3>4. \A i \in Memory!Id : clock > due[i] => clock' > due'[i]
      BY <3>1
    <3> QED
      BY <3>1, <3>3, <3>4 DEF Memory!SurvivalInv
  <2> QED
    BY <2>1, <2>2, <2>3 DEF Memory!MemoryInv
<1>2. ASSUME NEW r \in Request,
             \/ Memory!Begin(r) \/ Memory!Write(r) \/ Memory!End(r) \/ Memory!Open(r)
             \/ Memory!RefuseCreated(r) \/ Memory!ReplaceFails(r)
      PROVE  Memory!MemoryInv'
  <2>1. UNCHANGED <<clock, nextCleanup, entries, ids, fresh, sent, due, successor, closed, leaked>>
    BY <1>2 DEF Memory!Begin, Memory!Write, Memory!End, Memory!Open, Memory!RefuseCreated,
                Memory!ReplaceFails, Memory!clockVars, Memory!ghosts
  <2>2. Memory!MemoryTypeOK'
    BY <1>0, <1>2 DEF Memory!MemoryTypeOK, Memory!Begin, Memory!Write, Memory!End,
         Memory!Open, Memory!Opened, Memory!RefuseCreated, Memory!ReplaceFails,
         Memory!clockVars, Memory!ghosts, Memory!Live, Memory!Known
  <2>3. Memory!HoldInv'
    BY <1>0, <1>2 DEF Memory!MemoryTypeOK, Memory!HoldInv, Memory!Begin, Memory!Write,
         Memory!End, Memory!Open, Memory!Opened, Memory!RefuseCreated, Memory!ReplaceFails,
         Memory!Live, Memory!Known, Memory!Expired
  <2>4. \A q \in Request : at'[q] \in UnderWay <=> at[q] \in UnderWay
    BY <1>0, <1>2 DEF UnderWay, Memory!MemoryTypeOK, Memory!Begin, Memory!Write,
         Memory!End, Memory!Open, Memory!Opened, Memory!RefuseCreated, Memory!ReplaceFails
  <2>6. Memory!FreshInv'
    BY <1>0, <2>1, <2>4 DEF UnderWay, Memory!FreshInv
  <2>5. Memory!EntryInv' /\ Memory!SurvivalInv'
    BY <1>0, <2>1 DEF Memory!EntryInv, Memory!SurvivalInv, Memory!Live, Memory!Known
  <2> QED
    BY <2>2, <2>3, <2>5, <2>6 DEF Memory!MemoryInv
<1>3. ASSUME NEW r \in Request, Memory!Recheck(r)
      PROVE  Memory!MemoryInv'
  <2> DEFINE c == cookie[r]
  <2>1. /\ UNCHANGED <<clock, nextCleanup, ids, cookie, fresh, written, sent, due, successor,
                       closed, leaked>>
        /\ at[r] = "recheck"
    BY <1>3 DEF Memory!Recheck, Memory!clockVars, Memory!ghosts
  <2>2. c \in Memory!Id /\ c \in sent /\ entries \in [Memory!Id -> Nat]
    BY <1>0, <2>1 DEF Memory!HoldInv, Memory!MemoryTypeOK
  <2>3. /\ entries' \in [Memory!Id -> Nat]
        /\ \A j \in Memory!Id : entries'[j] # entries[j] =>
             entries'[j] = 0 /\ ~Memory!Live(j)
    BY <1>3, <2>2 DEF Memory!Recheck, Memory!Erase
  <2>4. Memory!MemoryTypeOK'
    BY <1>0, <1>3, <2>1, <2>2, <2>3
       DEF Memory!MemoryTypeOK, Memory!Recheck, Memory!Opened
  <2>5. Memory!HoldInv'
    BY <1>0, <1>3, <2>1, <2>2
       DEF Memory!MemoryTypeOK, Memory!HoldInv, Memory!Recheck, Memory!Opened
  <2>6. \A q \in Request : at'[q] \in UnderWay <=> at[q] \in UnderWay
    BY <1>0, <1>3, <2>1 DEF UnderWay, Memory!MemoryTypeOK, Memory!Recheck, Memory!Opened
  <2>7. Memory!FreshInv'
    BY <1>0, <2>1, <2>6 DEF UnderWay, Memory!FreshInv
  <2>8. Memory!EntryInv'
    BY <1>0, <2>1, <2>3 DEF Memory!EntryInv
  <2>9. Memory!SurvivalInv'
    BY <1>0, <2>1, <2>3 DEF Memory!SurvivalInv, Memory!Live, Memory!Known
  <2> QED
    BY <2>4, <2>5, <2>7, <2>8, <2>9 DEF Memory!MemoryInv
<1>4. ASSUME NEW r \in Request, Memory!Create(r) \/ Memory!Regenerate(r)
      PROVE  Memory!MemoryInv'
  <2>0. ids < MaxId /\ ids + 1 \in Memory!Id
    BY <1>0, <1>4 DEF Memory!Create, Memory!Regenerate, Memory!Make, Memory!MemoryTypeOK
  <2> PICK n \in Memory!Id : n = ids + 1
    BY <2>0
  <2>1. /\ UNCHANGED <<clock, cookie, handle, written, sent, successor, closed, leaked>>
        /\ fresh' = [fresh EXCEPT ![r] = n]
        /\ \/ at[r] = "create" /\ at' = [at EXCEPT ![r] = "created"]
           \/ at[r] = "open" /\ at' = [at EXCEPT ![r] = "replace"]
        /\ Memory!Store(n) /\ ids' = n
    BY <1>4 DEF Memory!Create, Memory!Regenerate, Memory!Make
  <2>2. n \notin sent /\ \A q \in Request : fresh[q] # n
    BY <1>0, <2>1 DEF Memory!FreshInv, Memory!MemoryTypeOK
  <2>3. StoreResult(n)
    BY <1>0, <2>1, <2>2, StoreEffect
  <2>4. /\ fresh' \in [Request -> Memory!Id \cup {0}] /\ fresh'[r] = n
        /\ \A q \in Request \ {r} : fresh'[q] = fresh[q]
        /\ fresh[r] = 0
    BY <1>0, <2>1, <2>2 DEF Memory!MemoryTypeOK, Memory!FreshInv
  <2>5. ids' \in 0..MaxId
    BY <2>0, <2>1
  <2>6. Memory!MemoryTypeOK'
    <3>1. at' \in [Request -> {"idle", "unopened", "recheck", "create", "created", "drop",
                              "open", "replace", "undo"}]
      BY <1>0, <2>1 DEF Memory!MemoryTypeOK
    <3> QED
      BY <1>0, <2>1, <2>3, <2>4, <2>5, <3>1 DEF Memory!MemoryTypeOK, StoreResult
  <2>7. Memory!HoldInv'
    BY <1>0, <2>1 DEF Memory!HoldInv, Memory!MemoryTypeOK
  <2>8. Memory!FreshInv'
    BY <1>0, <2>1, <2>2 DEF Memory!FreshInv, Memory!MemoryTypeOK
  <2>9. Memory!EntryInv'
    <3>1. ASSUME NEW i \in Memory!Id \ {n}, entries'[i] # 0
          PROVE  /\ entries'[i] = due'[i]
                 /\ i \in sent' \cup leaked' \/ \E q \in Request : fresh'[q] = i
      <4>1. entries[i] # 0 /\ entries'[i] = entries[i] /\ due'[i] = due[i]
        BY <2>3, <3>1 DEF StoreResult
      <4>2. i \in sent \cup leaked \/ \E q \in Request \ {r} : fresh[q] = i
        BY <1>0, <2>4, <4>1 DEF Memory!EntryInv
      <4> QED
        BY <1>0, <2>1, <2>4, <4>1, <4>2 DEF Memory!EntryInv
    <3>2. entries'[n] = due'[n] /\ fresh'[r] = n
      BY <2>3, <2>4 DEF StoreResult
    <3> QED
      BY <3>1, <3>2 DEF Memory!EntryInv
  <2>10. Memory!SurvivalInv'
    <3>1. ASSUME NEW j \in Memory!Id
          PROVE  IF j = n THEN Memory!Live(j)'
                 ELSE due'[j] = due[j] /\ (Memory!Live(j) => Memory!Live(j)')
      BY <1>0, <2>1, <2>2, <2>3, StoredSurvives
    <3>2. \A i \in Memory!Id \ {n} :
            (\E q \in Request : fresh'[q] = i) => \E q \in Request : fresh[q] = i
      BY <2>4
    <3> QED
      <4>1. ASSUME NEW i \in Memory!Id \ {n},
                   i \in sent' \ closed' \/ (\E q \in Request : fresh'[q] = i)
            PROVE  clock' > due'[i] \/ Memory!Live(i)' \/ successor'[i] \in sent'
        <5>1. clock > due[i] \/ Memory!Live(i) \/ successor[i] \in sent
          BY <1>0, <2>1, <3>2, <4>1 DEF Memory!SurvivalInv
        <5>2. due'[i] = due[i] /\ (Memory!Live(i) => Memory!Live(i)')
          BY <3>1
        <5> QED
          BY <2>1, <5>1, <5>2
      <4> QED
        BY <3>1, <4>1 DEF Memory!SurvivalInv
  <2> QED
    BY <2>6, <2>7, <2>8, <2>9, <2>10 DEF Memory!MemoryInv
<1>5. ASSUME NEW r \in Request, Memory!Change(r)
      PROVE  Memory!MemoryInv'
  <2> DEFINE n == handle[r]
  <2>1. /\ UNCHANGED <<clock, ids, at, cookie, handle, fresh, written, sent, successor, closed,
                       leaked>>
        /\ Memory!Store(n) /\ n \in sent /\ n \in Memory!Id
    BY <1>0, <1>5 DEF Memory!Change, Memory!HoldInv, Memory!MemoryTypeOK
  <2>2. StoreResult(n)
    BY <1>0, <2>1, StoreEffect
  <2>3. Memory!MemoryTypeOK' /\ Memory!HoldInv' /\ Memory!FreshInv'
    BY <1>0, <2>1, <2>2
       DEF Memory!MemoryTypeOK, Memory!HoldInv, Memory!FreshInv, StoreResult
  <2>4. Memory!EntryInv'
    BY <1>0, <2>1, <2>2 DEF Memory!EntryInv, StoreResult
  <2>5. Memory!SurvivalInv'
    BY <1>0, <2>1, <2>2, StoredSurvives DEF Memory!SurvivalInv
  <2> QED
    BY <2>3, <2>4, <2>5 DEF Memory!MemoryInv
<1>6. ASSUME NEW r \in Request,
             Memory!PublishCreated(r) \/ Memory!ReplaceOld(r)
      PROVE  Memory!MemoryInv'
  <2> DEFINE n == fresh[r]
             old == handle[r]
             replaced == at[r] = "replace"
  <2>1. /\ UNCHANGED <<clock, nextCleanup, ids, cookie, written, due, closed, leaked>>
        /\ at[r] \in {"created", "replace"} /\ at' = [at EXCEPT ![r] = "open"]
        /\ fresh' = [fresh EXCEPT ![r] = 0] /\ handle' = [handle EXCEPT ![r] = n]
        /\ sent' = sent \cup {n}
        /\ replaced => old \in sent
    BY <1>0, <1>6 DEF Memory!PublishCreated, Memory!ReplaceOld, Memory!Settled,
         Memory!clockVars, Memory!ghosts, Memory!HoldInv
  <2>2. n \in Memory!Id /\ n \notin sent /\ n <= ids
    BY <1>0, <2>1 DEF Memory!FreshInv
  <2>3. /\ ~replaced => UNCHANGED <<entries, successor>>
        /\ replaced => /\ entries' = [entries EXCEPT ![old] = 0]
                       /\ successor' = [successor EXCEPT ![old] = n]
                       /\ old \in Memory!Id
    BY <1>0, <1>6, <2>1 DEF Memory!PublishCreated, Memory!ReplaceOld, Memory!Erase,
         Memory!ghosts, Memory!MemoryTypeOK
  <2>4. /\ fresh' \in [Request -> Memory!Id \cup {0}] /\ fresh'[r] = 0
        /\ \A q \in Request \ {r} : fresh'[q] = fresh[q]
        /\ handle' \in [Request -> Memory!Id \cup {0}]
    BY <1>0, <2>1, <2>2 DEF Memory!MemoryTypeOK
  <2>5. /\ entries' \in [Memory!Id -> Nat]
        /\ successor' \in [Memory!Id -> Memory!Id \cup {0}]
        /\ \A i \in Memory!Id :
             \/ entries'[i] = entries[i] /\ successor'[i] = successor[i]
             \/ entries'[i] = 0 /\ successor'[i] = n
    <3>1. CASE replaced
      <4>1. entries' \in [Memory!Id -> Nat]
        <5>1. entries' = [entries EXCEPT ![old] = 0] /\ entries \in [Memory!Id -> Nat]
          BY <1>0, <2>3, <3>1 DEF Memory!MemoryTypeOK
        <5> QED
          BY <5>1
      <4>2. successor' \in [Memory!Id -> Memory!Id \cup {0}]
        BY <1>0, <2>2, <2>3, <3>1 DEF Memory!MemoryTypeOK
      <4> QED
        BY <1>0, <2>3, <3>1, <4>1, <4>2 DEF Memory!MemoryTypeOK
    <3>2. CASE ~replaced
      BY <1>0, <2>3, <3>2 DEF Memory!MemoryTypeOK
    <3> QED
      BY <3>1, <3>2
  <2>6. Memory!MemoryTypeOK'
    <3>1. at' \in [Request -> {"idle", "unopened", "recheck", "create", "created", "drop",
                              "open", "replace", "undo"}]
      BY <1>0, <2>1 DEF Memory!MemoryTypeOK
    <3> QED
      BY <1>0, <2>1, <2>2, <2>4, <2>5, <3>1 DEF Memory!MemoryTypeOK
  <2>7. Memory!HoldInv'
    BY <1>0, <2>1, <2>2 DEF Memory!HoldInv, Memory!MemoryTypeOK
  <2>8. Memory!FreshInv'
    BY <1>0, <2>1, <2>2 DEF Memory!FreshInv, Memory!MemoryTypeOK
  <2>9. Memory!EntryInv'
    BY <1>0, <2>1, <2>4, <2>5 DEF Memory!EntryInv
  <2>10. Memory!SurvivalInv'
    BY <1>0, <2>1, <2>4, <2>5 DEF Memory!SurvivalInv, Memory!Live, Memory!Known
  <2> QED
    BY <2>6, <2>7, <2>8, <2>9, <2>10 DEF Memory!MemoryInv
<1>7. ASSUME NEW r \in Request, Memory!DropCreated(r) \/ Memory!UndoReplace(r)
      PROVE  Memory!MemoryInv'
  <2> DEFINE n == fresh[r]
  <2>1. /\ UNCHANGED <<clock, nextCleanup, ids, cookie, handle, written, sent, due, successor,
                       closed>>
        /\ at[r] \in {"drop", "undo"} /\ fresh' = [fresh EXCEPT ![r] = 0]
        /\ at' = [at EXCEPT ![r] = IF at[r] = "drop" THEN "unopened" ELSE "open"]
        /\ Memory!Remove(r)
        /\ at[r] = "undo" => handle[r] \in sent
    BY <1>0, <1>7 DEF Memory!DropCreated, Memory!UndoReplace, Memory!Settled,
         Memory!clockVars, Memory!HoldInv
  <2>2. n \in Memory!Id /\ n \notin sent
    BY <1>0, <2>1 DEF Memory!FreshInv
  <2>3. \/ entries' = [entries EXCEPT ![n] = 0] /\ leaked' = leaked
        \/ entries' = entries /\ leaked' = leaked \cup {n}
    BY <2>1 DEF Memory!Remove, Memory!Erase
  <2>4. /\ fresh' \in [Request -> Memory!Id \cup {0}] /\ fresh'[r] = 0
        /\ \A q \in Request \ {r} : fresh'[q] = fresh[q] /\ fresh[q] # n
    BY <1>0, <2>1, <2>2 DEF Memory!MemoryTypeOK, Memory!FreshInv
  <2>5. /\ entries' \in [Memory!Id -> Nat]
        /\ \A i \in Memory!Id \ {n} : entries'[i] = entries[i]
        /\ leaked \subseteq leaked' /\ leaked' \subseteq Memory!Id
        /\ entries'[n] # 0 => n \in leaked' /\ entries'[n] = entries[n]
    <3>1. CASE entries' = [entries EXCEPT ![n] = 0] /\ leaked' = leaked
      BY <1>0, <2>2, <3>1 DEF Memory!MemoryTypeOK
    <3>2. CASE entries' = entries /\ leaked' = leaked \cup {n}
      BY <1>0, <2>2, <3>2 DEF Memory!MemoryTypeOK
    <3> QED
      BY <2>3, <3>1, <3>2
  <2>6. Memory!MemoryTypeOK'
    <3>1. at' \in [Request -> {"idle", "unopened", "recheck", "create", "created", "drop",
                              "open", "replace", "undo"}]
      BY <1>0, <2>1 DEF Memory!MemoryTypeOK
    <3> QED
      BY <1>0, <2>1, <2>4, <2>5, <3>1 DEF Memory!MemoryTypeOK
  <2>7. Memory!HoldInv'
    BY <1>0, <2>1 DEF Memory!HoldInv, Memory!MemoryTypeOK
  <2>8. Memory!FreshInv'
    BY <1>0, <2>1 DEF Memory!FreshInv, Memory!MemoryTypeOK
  <2>9. Memory!EntryInv'
    BY <1>0, <2>1, <2>4, <2>5 DEF Memory!EntryInv
  <2>10. Memory!SurvivalInv'
    BY <1>0, <2>1, <2>2, <2>4, <2>5 DEF Memory!SurvivalInv, Memory!Live, Memory!Known
  <2> QED
    BY <2>6, <2>7, <2>8, <2>9, <2>10 DEF Memory!MemoryInv
<1>8. ASSUME NEW r \in Request, Memory!Logout(r)
      PROVE  Memory!MemoryInv'
  <2> DEFINE old == handle[r]
  <2>1. /\ UNCHANGED <<clock, nextCleanup, ids, cookie, fresh, written, sent, due, successor,
                       leaked>>
        /\ at[r] = "open" /\ at' = [at EXCEPT ![r] = "unopened"]
        /\ handle' = [handle EXCEPT ![r] = 0] /\ closed' = closed \cup {old}
        /\ entries' = [entries EXCEPT ![old] = 0] /\ old \in sent
    BY <1>0, <1>8 DEF Memory!Logout, Memory!Erase, Memory!clockVars, Memory!HoldInv
  <2>2. Memory!MemoryTypeOK' /\ Memory!HoldInv'
    BY <1>0, <2>1 DEF Memory!MemoryTypeOK, Memory!HoldInv
  <2>3. Memory!FreshInv'
    BY <1>0, <2>1 DEF Memory!FreshInv, Memory!MemoryTypeOK
  <2>4. /\ \A i \in Memory!Id \ {old} : entries'[i] = entries[i]
        /\ old \in Memory!Id => entries'[old] = 0
        /\ \A q \in Request : fresh[q] # 0 => fresh[q] # old
    BY <1>0, <2>1 DEF Memory!MemoryTypeOK, Memory!FreshInv
  <2>5. Memory!EntryInv'
    BY <1>0, <2>1, <2>4 DEF Memory!EntryInv
  <2>6. Memory!SurvivalInv'
    BY <1>0, <2>1, <2>4 DEF Memory!SurvivalInv, Memory!Live, Memory!Known
  <2> QED
    BY <2>2, <2>3, <2>5, <2>6 DEF Memory!MemoryInv
<1> QED
  BY <1>1, <1>2, <1>3, <1>4, <1>5, <1>6, <1>7, <1>8 DEF Memory!MemoryNext

\* MemoryInv holds of every manager, over whichever storage: the inductive
\* invariant of the memory storage.
THEOREM MemoryInvariant == ManagerSpec => []Memory!MemoryInv
<1>1. ManagerInit => Memory!MemoryInv
  <2> SUFFICES ASSUME Memory!MemoryInit
               PROVE  Memory!MemoryInv
    BY DEF ManagerInit
  <2> USE MemoryAssumption DEF Memory!MemoryInit, Memory!Id, Memory!None
  <2>1. Memory!MemoryTypeOK
    BY DEF Memory!MemoryTypeOK
  <2>2. Memory!HoldInv /\ Memory!FreshInv /\ Memory!EntryInv /\ Memory!SurvivalInv
    BY DEF Memory!HoldInv, Memory!FreshInv, Memory!EntryInv, Memory!SurvivalInv
  <2> QED
    BY <2>1, <2>2 DEF Memory!MemoryInv
<1>2. Memory!MemoryInv /\ [ManagerNext]_managerVars => Memory!MemoryInv'
  <2> SUFFICES ASSUME Memory!MemoryInv, [ManagerNext]_managerVars
               PROVE  Memory!MemoryInv'
    OBVIOUS
  <2>1. CASE storage = "memory" /\ Memory!MemoryNext
    BY <2>1, MemoryStep
  <2>2. CASE UNCHANGED memory
    BY <2>2 DEF memory, Memory!MemoryInv, Memory!MemoryTypeOK, Memory!HoldInv,
         Memory!FreshInv, Memory!EntryInv, Memory!SurvivalInv, Memory!Live, Memory!Known
  <2> QED
    BY <2>1, <2>2 DEF ManagerNext, managerVars, memory
<1> QED
  BY <1>1, <1>2, PTL DEF ManagerSpec

\* SessionSurvives: what a client was sent opens its session until it expires or
\* is logged out, unless it was replaced by what the client was sent as well.
THEOREM SessionsSurvive == ManagerSpec => []SessionSurvives
<1>1. Memory!MemoryInv => SessionSurvives
  <2> SUFFICES ASSUME Memory!MemoryTypeOK, Memory!SurvivalInv
               PROVE  Memory!SessionSurvives
    BY DEF Memory!MemoryInv, SessionSurvives
  <2> QED
    BY DEF Memory!MemoryTypeOK, Memory!SurvivalInv, Memory!SessionSurvives
<1> QED
  BY <1>1, MemoryInvariant, PTL

\* NoOrphans: an entry of an identifier nobody was told of is one in the making, or
\* one whose removal failed.
THEOREM OrphansLeaked == ManagerSpec => []NoOrphans
<1>1. Memory!MemoryInv => NoOrphans
  BY DEF Memory!MemoryInv, Memory!EntryInv, NoOrphans, Memory!NoOrphans, Memory!Live,
         Memory!Known
<1> QED
  BY <1>1, MemoryInvariant, PTL

\* RenewedStays: an entry that has not expired is removed only by who gives it up.
THEOREM LiveRemovedByOwner == ManagerSpec => RenewedStays
<1> DEFINE GivenUp ==
      \A i \in Memory!Id : Memory!Live(i) /\ entries'[i] = Memory!None =>
        \E r \in Request : \/ at[r] \in {"open", "replace"} /\ handle[r] = i
                           \/ at[r] \in {"drop", "undo"} /\ fresh[r] = i
<1>1. Memory!MemoryInv /\ [ManagerNext]_managerVars => [GivenUp]_(Memory!memoryVars)
  <2> SUFFICES ASSUME Memory!MemoryInv, ManagerNext, UNCHANGED memory => FALSE,
                      NEW i \in Memory!Id, Memory!Live(i), entries'[i] = Memory!None
               PROVE  \E r \in Request : \/ at[r] \in {"open", "replace"} /\ handle[r] = i
                                         \/ at[r] \in {"drop", "undo"} /\ fresh[r] = i
    BY DEF managerVars, memory, Memory!memoryVars
  <2>1. Memory!MemoryTypeOK /\ Memory!HoldInv /\ Memory!FreshInv
    BY DEF Memory!MemoryInv
  <2>2. Memory!MemoryNext
    BY DEF ManagerNext
  <2>3. entries[i] # 0 /\ entries' # entries /\ clock <= entries[i] /\ clock \in Nat
        /\ entries \in [Memory!Id -> Nat]
    BY <2>1 DEF Memory!Live, Memory!Known, Memory!None, Memory!MemoryTypeOK
  <2>4. ASSUME NEW n \in Memory!Id, Memory!Store(n)
        PROVE  FALSE
    <3>1. StoreResult(n)
      BY <2>1, <2>4, StoreEffect
    <3> QED
      BY <2>3, <3>1 DEF StoreResult, Memory!None
  <2>5. ASSUME NEW j \in Memory!Id \cup {0}, Memory!Erase(j)
        PROVE  j = i
    BY <2>3, <2>5 DEF Memory!Erase, Memory!None
  <2>6. PICK r \in Request :
          \/ Memory!Recheck(r) \/ Memory!DropCreated(r) \/ Memory!UndoReplace(r)
          \/ Memory!ReplaceOld(r) \/ Memory!Logout(r)
          \/ Memory!Create(r) \/ Memory!Regenerate(r) \/ Memory!Change(r)
    BY <2>2, <2>3 DEF Memory!MemoryNext, Memory!Tick, Memory!Begin, Memory!Write,
         Memory!End, Memory!Open, Memory!PublishCreated, Memory!RefuseCreated,
         Memory!ReplaceFails
  <2>7. handle[r] \in Memory!Id \cup {0} /\ fresh[r] \in Memory!Id \cup {0}
        /\ cookie[r] \in Memory!Id \cup {0}
    BY <2>1 DEF Memory!MemoryTypeOK, Memory!None
  <2>8. ~Memory!Recheck(r)
    BY <2>3, <2>5, <2>7 DEF Memory!Recheck
  <2>9. ~Memory!Create(r) /\ ~Memory!Regenerate(r)
    <3>1. Memory!Make(r) => ids + 1 \in Memory!Id
      BY <2>1, MemoryAssumption DEF Memory!Make, Memory!MemoryTypeOK, Memory!Id
    <3> QED
      BY <2>4, <3>1 DEF Memory!Create, Memory!Regenerate, Memory!Make
  <2>10. ~Memory!Change(r)
    <3>1. Memory!Change(r) => handle[r] \in Memory!Id
      BY <2>1 DEF Memory!Change, Memory!HoldInv, Memory!MemoryTypeOK
    <3> QED
      BY <2>4, <3>1 DEF Memory!Change
  <2> QED
    BY <2>3, <2>5, <2>6, <2>7, <2>8, <2>9, <2>10
       DEF Memory!DropCreated, Memory!UndoReplace, Memory!ReplaceOld, Memory!Logout, Memory!Remove
<1> QED
  BY <1>1, MemoryInvariant, PTL DEF ManagerSpec, RenewedStays, Memory!RenewedStays

\* Over either storage the manager is what its storage is: whatever holds of signed
\* cookies alone, or of the memory storage alone, holds under the manager.
THEOREM ManagerIsEither == ManagerSpec => Spec /\ Memory!MemorySpec
<1>1. ManagerInit => Init /\ Memory!MemoryInit
  BY DEF ManagerInit
<1>2. [ManagerNext]_managerVars => [Next]_vars /\ [Memory!MemoryNext]_(Memory!memoryVars)
  BY DEF ManagerNext, managerVars, memory, Memory!memoryVars
<1> QED
  BY <1>1, <1>2, PTL DEF ManagerSpec, Spec, Memory!MemorySpec

=============================================================================
