-------------------------- MODULE ApplicationProofs --------------------------
(***************************************************************************)
(* What a Server guarantees for any routes, batches, middleware, mounts,    *)
(* fields, options and configuration.  Registration rests on                *)
(* RegistrationInv, requests on ChainsFramed, ChecksPassed and AnsweredOnce,*)
(* static files on VisitInv, the settings on DraftInv; that the binder does *)
(* what the document says is about the operators of RouteContract.          *)
(***************************************************************************)
EXTENDS Application, FiniteSetTheorems, TLAPS

-----------------------------------------------------------------------------
(* Chains of handlers                                                        *)

\* A chain made of two parts has the handlers of both.
LEMMA RangeOfConcatenation ==
    ASSUME NEW S, NEW s \in Seq(S), NEW t \in Seq(S)
    PROVE  /\ s \o t \in Seq(S)
           /\ Range(s) \subseteq Range(s \o t)
           /\ Range(t) \subseteq Range(s \o t)
           /\ s # <<>> => s \o t # <<>>
<1>1. s \o t \in Seq(S) /\ Len(s \o t) = Len(s) + Len(t)
  OBVIOUS
<1>2. ASSUME NEW i \in DOMAIN s
      PROVE  i \in DOMAIN (s \o t) /\ (s \o t)[i] = s[i]
  OBVIOUS
<1>3. ASSUME NEW i \in DOMAIN t
      PROVE  Len(s) + i \in DOMAIN (s \o t) /\ (s \o t)[Len(s) + i] = t[i]
  OBVIOUS
<1>4. s # <<>> => s \o t # <<>>
  OBVIOUS
<1> QED
  BY <1>1, <1>2, <1>3, <1>4 DEF Range

\* The chain of a route has the handlers of the application and of the route.
LEMMA ChainHandlers ==
    ASSUME RegistrationTypeOK, NEW r \in Route, NEW group \in Handlers
    PROVE  /\ Chain(r, group) \in Handlers
           /\ Range(engine.handlers) \subseteq Range(Chain(r, group))
           /\ Range(routeMiddleware[r]) \subseteq Range(Chain(r, group))
           /\ engine.handlers # <<>> => Chain(r, group) # <<>>
<1> DEFINE S == Middleware \cup Range(Framework)
<1>1. engine.handlers \in Seq(S) /\ group \in Seq(S) /\ routeMiddleware[r] \in Seq(S)
  BY DEF RegistrationTypeOK, Handlers
<1> HIDE DEF S
<1>2. /\ engine.handlers \o group \in Seq(S)
      /\ Range(engine.handlers) \subseteq Range(engine.handlers \o group)
      /\ engine.handlers # <<>> => engine.handlers \o group # <<>>
  BY <1>1, RangeOfConcatenation
<1>3. /\ Chain(r, group) \in Seq(S)
      /\ Range(engine.handlers \o group) \subseteq Range(Chain(r, group))
      /\ Range(routeMiddleware[r]) \subseteq Range(Chain(r, group))
      /\ engine.handlers \o group # <<>> => Chain(r, group) # <<>>
  BY <1>1, <1>2, RangeOfConcatenation DEF Chain
<1> QED
  BY <1>2, <1>3 DEF Handlers, S

-----------------------------------------------------------------------------
(* The steps of registration                                                 *)

\* Installed depends on Gin's table alone.
LEMMA InstalledIsChained ==
    ASSUME NEW r
    PROVE  r \in Installed <=> /\ r \in DOMAIN engine.chain /\ r \notin Static \cup {Docs}
                               /\ engine.chain[r] # <<>>
BY DEF Installed

\* Use: no controller is bound, so no chain lacks the new handler.
LEMMA UseKeeps ==
    ASSUME RegistrationInv, NEW m \in Middleware, Use(m)
    PROVE  RegistrationInv'
<1>1. /\ engine' = [engine EXCEPT !.handlers = Append(@, m)]
      /\ registrar.pc = "idle" /\ ~routesRegistered /\ ~running
      /\ UNCHANGED <<registry, routeMiddleware, routesRegistered, running, registrar,
                     openapiCache, generator>>
  BY DEF Use, Open
<1>2. /\ engine'.handlers = Append(engine.handlers, m)
      /\ engine'.chain = engine.chain
      /\ engine' = [handlers |-> engine'.handlers, chain |-> engine'.chain]
  BY <1>1 DEF RegistrationInv, RegistrationTypeOK
<1>3. engine'.handlers \in Handlers
  BY <1>2 DEF RegistrationInv, RegistrationTypeOK, Handlers
<1>4. RegistrationTypeOK'
  BY <1>1, <1>2, <1>3 DEF RegistrationInv, RegistrationTypeOK
<1>5. Installed' = Installed /\ Installed = {}
  BY <1>1, <1>2 DEF RegistrationInv, Installed
<1> QED
  BY <1>1, <1>4, <1>5 DEF RegistrationInv, BatchFits, ChainsComplete, DocumentFollows

\* Route(...).Use: the route is not in Gin's table yet.
LEMMA RouteUseKeeps ==
    ASSUME RegistrationInv, NEW r \in Route, NEW m \in Middleware, RouteUse(r, m)
    PROVE  RegistrationInv'
<1>1. /\ routeMiddleware' = [routeMiddleware EXCEPT ![r] = Append(@, m)]
      /\ r \notin DOMAIN engine.chain
      /\ registrar.pc = "idle"
      /\ UNCHANGED <<engine, registry, routesRegistered, running, registrar, openapiCache,
                     generator>>
  BY DEF RouteUse, Open
<1>2. Append(routeMiddleware[r], m) \in Handlers
  BY DEF RegistrationInv, RegistrationTypeOK, Handlers
<1>3. RegistrationTypeOK'
  BY <1>1, <1>2 DEF RegistrationInv, RegistrationTypeOK
<1>4. Installed' = Installed
  BY <1>1 DEF Installed
<1>5. ChainsComplete'
  <2> SUFFICES ASSUME NEW s \in Installed
               PROVE  Range(routeMiddleware'[s]) \subseteq Range(engine.chain[s])
    BY <1>1, <1>4 DEF RegistrationInv, ChainsComplete
  <2>1. s # r /\ s \in Route
    BY <1>1 DEF Installed, RegistrationInv, RegistrationTypeOK
  <2> QED
    BY <1>1, <2>1 DEF RegistrationInv, RegistrationTypeOK, ChainsComplete
<1> QED
  BY <1>1, <1>3, <1>4, <1>5 DEF RegistrationInv, BatchFits, DocumentFollows

\* Bind: the checks leave a batch that fits, none of it in a table.
LEMMA BindKeeps ==
    ASSUME RegistrationInv, NEW batch \in Batch, NEW group \in Handlers,
           BindController(batch, group)
    PROVE  RegistrationInv'
<1>1. /\ registrar' = [pc |-> "install", batch |-> batch, group |-> group]
      /\ engine.handlers # <<>> /\ registrar.pc = "idle" /\ ~running
      /\ Placeable(batch)
      /\ UNCHANGED <<engine, registry, routeMiddleware, routesRegistered, running, openapiCache,
                     generator>>
  BY DEF BindController, Open
<1>2. batch \in Seq(Route) /\ \A i \in DOMAIN batch : batch[i] \notin Static \cup {Docs}
  <2>1. batch \in Seq(Route \ (Static \cup {Docs}))
    BY RegistrationAssumption
  <2> QED
    BY <2>1
<1>3. RegistrationTypeOK'
  BY <1>1, <1>2 DEF RegistrationInv, RegistrationTypeOK
<1>4. Installed' = Installed /\ registry = Installed
  BY <1>1 DEF RegistrationInv, Installed
<1>5. \A i \in DOMAIN batch :
        ~Conflicting(batch[i], DOMAIN engine.chain \cup {batch[j] : j \in 1 .. i - 1})
  BY <1>1 DEF Placeable
<1>6. \A i \in DOMAIN batch : batch[i] \notin DOMAIN engine.chain
  BY <1>5 DEF Conflicting
<1>7. Installed \ Range(batch) = Installed
  BY <1>6 DEF Range, Installed
<1>8. BatchFits'
  BY <1>1, <1>2, <1>4, <1>5, <1>6, <1>7 DEF BatchFits
<1> QED
  BY <1>1, <1>3, <1>4, <1>8 DEF RegistrationInv, ChainsComplete, DocumentFollows

\* One engine.Handle: the least route that is left fits, and Gin does not panic.
LEMMA InstallKeeps ==
    ASSUME RegistrationInv, InstallRoute
    PROVE  RegistrationInv'
<1>1. /\ registrar.pc = "install"
      /\ UNCHANGED <<registry, routeMiddleware, routesRegistered, running, openapiCache, generator>>
  BY DEF InstallRoute
<1>2. PICK i \in Remaining :
        LET r == registrar.batch[i]
        IN  /\ \A j \in Remaining : i <= j
            /\ IF Conflicting(r, DOMAIN engine.chain)
               THEN registrar' = Idle /\ UNCHANGED engine
               ELSE /\ engine' = [engine EXCEPT !.chain = WithRoute(@, r, Chain(r, registrar.group))]
                    /\ UNCHANGED registrar
  BY DEF InstallRoute
<1> DEFINE r     == registrar.batch[i]
           chain == Chain(r, registrar.group)
<1>3. /\ i \in DOMAIN registrar.batch /\ r \notin DOMAIN engine.chain
      /\ \A j \in Remaining : i <= j
  BY <1>2 DEF Remaining
<1>4. registrar.batch \in Seq(Route) /\ registrar.group \in Handlers
  BY DEF RegistrationInv, RegistrationTypeOK
<1>5. r \in Route
  BY <1>3, <1>4
<1>6. /\ r \notin Static \cup {Docs}
      /\ ~Conflicting(r, DOMAIN engine.chain \cup {registrar.batch[j] : j \in 1 .. i - 1})
  BY <1>1, <1>3 DEF RegistrationInv, BatchFits
<1>7. ~Conflicting(r, DOMAIN engine.chain)
  BY <1>6 DEF Conflicting
<1>8. /\ engine' = [engine EXCEPT !.chain = WithRoute(@, r, chain)]
      /\ UNCHANGED registrar
  BY <1>2, <1>7
<1>9. /\ chain \in Handlers /\ chain # <<>>
      /\ Range(engine.handlers) \subseteq Range(chain)
      /\ Range(routeMiddleware[r]) \subseteq Range(chain)
  BY <1>1, <1>4, <1>5, ChainHandlers DEF RegistrationInv, BatchFits
<1> HIDE DEF chain
<1>10. /\ engine'.handlers = engine.handlers
       /\ engine' = [handlers |-> engine'.handlers, chain |-> engine'.chain]
       /\ engine'.chain = WithRoute(engine.chain, r, chain)
  BY <1>8 DEF RegistrationInv, RegistrationTypeOK
<1>11. /\ DOMAIN engine'.chain = DOMAIN engine.chain \cup {r}
       /\ engine'.chain[r] = chain
       /\ \A s \in DOMAIN engine.chain : engine'.chain[s] = engine.chain[s]
  BY <1>3, <1>10 DEF WithRoute
<1>12. Installed' = Installed \cup {r}
  BY <1>6, <1>9, <1>11 DEF Installed
<1>13. RegistrationTypeOK'
  <2>1. engine'.chain \in [DOMAIN engine'.chain -> Handlers]
    BY <1>9, <1>10 DEF WithRoute, RegistrationInv, RegistrationTypeOK
  <2> QED
    BY <1>1, <1>5, <1>8, <1>10, <1>11, <2>1 DEF RegistrationInv, RegistrationTypeOK
<1>14. BatchFits'
  <2>1. registry = Installed' \ Range(registrar.batch)
    <3>1. r \in Range(registrar.batch)
      BY <1>3 DEF Range
    <3> QED
      BY <1>1, <1>12, <3>1 DEF RegistrationInv, BatchFits
  <2>2. ASSUME NEW j \in DOMAIN registrar.batch,
               registrar.batch[j] \notin DOMAIN engine'.chain
        PROVE  ~Conflicting(registrar.batch[j],
                            DOMAIN engine'.chain \cup {registrar.batch[k] : k \in 1 .. j - 1})
    <3>1. registrar.batch[j] \notin DOMAIN engine.chain /\ j # i
      BY <1>11, <2>2
    <3>2. i <= j
      BY <1>3, <3>1 DEF Remaining
    <3>3. i \in 1 .. j - 1
      BY <1>3, <1>4, <3>1, <3>2
    <3>4. DOMAIN engine'.chain \cup {registrar.batch[k] : k \in 1 .. j - 1}
            = DOMAIN engine.chain \cup {registrar.batch[k] : k \in 1 .. j - 1}
      BY <1>11, <3>3
    <3> QED
      BY <1>1, <3>1, <3>4 DEF RegistrationInv, BatchFits
  <2>3. \A j \in DOMAIN registrar.batch :
          /\ registrar.batch[j] \notin Static \cup {Docs}
          /\ registrar.batch[j] \in DOMAIN engine'.chain => engine'.chain[registrar.batch[j]] # <<>>
    BY <1>1, <1>9, <1>11 DEF RegistrationInv, BatchFits
  <2>4. engine'.handlers # <<>>
    BY <1>1, <1>10 DEF RegistrationInv, BatchFits
  <2>5. UNCHANGED <<registrar, registry>>
    BY <1>1, <1>8
  <2> HIDE DEF r
  <2> QED
    BY <2>1, <2>2, <2>3, <2>4, <2>5 DEF BatchFits
<1>15. ChainsComplete'
  <2>1. ASSUME NEW s \in Installed
        PROVE  engine'.chain[s] = engine.chain[s]
    BY <1>11 DEF Installed
  <2> QED
    BY <1>1, <1>9, <1>10, <1>11, <1>12, <2>1 DEF RegistrationInv, ChainsComplete
<1> QED
  BY <1>1, <1>8, <1>13, <1>14, <1>15 DEF RegistrationInv, DocumentFollows

\* Commit: the whole batch is in Gin's table when the registry takes it.
LEMMA CommitKeeps ==
    ASSUME RegistrationInv, Commit
    PROVE  RegistrationInv'
<1>1. /\ registrar.pc = "install" /\ Remaining = {}
      /\ registry' = registry \cup Range(registrar.batch)
      /\ routesRegistered' = TRUE
      /\ registrar' = [registrar EXCEPT !.pc = "invalidate"]
      /\ UNCHANGED <<engine, routeMiddleware, running, openapiCache, generator>>
  BY DEF Commit
<1>2. /\ registry = Installed \ Range(registrar.batch)
      /\ registrar \in [pc : {"idle", "install", "invalidate"}, batch : Seq(Route), group : Handlers]
  BY <1>1 DEF RegistrationInv, BatchFits, RegistrationTypeOK
<1>3. Range(registrar.batch) \subseteq Installed
  <2> SUFFICES ASSUME NEW i \in DOMAIN registrar.batch
               PROVE  registrar.batch[i] \in Installed
    BY DEF Range
  <2>1. registrar.batch[i] \in DOMAIN engine.chain
    BY <1>1 DEF Remaining
  <2> QED
    BY <1>1, <2>1 DEF RegistrationInv, BatchFits, Installed
<1>4. Installed' = Installed /\ registry' = Installed
  BY <1>1, <1>2, <1>3 DEF Installed
<1>5. registrar'.pc = "invalidate" /\ registrar' \in [pc : {"idle", "install", "invalidate"}, batch : Seq(Route), group : Handlers]
  BY <1>1, <1>2
<1>6. RegistrationTypeOK'
  <2>1. Installed \subseteq Route
    BY DEF RegistrationInv, RegistrationTypeOK, Installed
  <2> QED
    BY <1>1, <1>4, <1>5, <2>1 DEF RegistrationInv, RegistrationTypeOK
<1> QED
  BY <1>1, <1>4, <1>5, <1>6 DEF RegistrationInv, BatchFits, ChainsComplete, DocumentFollows

\* invalidateOpenAPI: no document is being made, and none is cached.
LEMMA InvalidateKeeps ==
    ASSUME RegistrationInv, InvalidateOpenAPI
    PROVE  RegistrationInv'
<1>1. /\ registrar.pc = "invalidate" /\ generator.pc = "idle"
      /\ openapiCache' = <<>> /\ registrar' = Idle
      /\ UNCHANGED <<engine, registry, routeMiddleware, routesRegistered, running, generator>>
  BY DEF InvalidateOpenAPI
<1>2. Installed' = Installed
  BY <1>1 DEF Installed
<1>3. <<>> \in Handlers /\ <<>> \in Seq(Route)
  BY DEF Handlers
<1>4. RegistrationTypeOK'
  BY <1>1, <1>3 DEF RegistrationInv, RegistrationTypeOK, Idle
<1>5. routesRegistered' = routesRegistered /\ registrar'.pc = "idle"
  BY <1>1 DEF Idle
<1> QED
  BY <1>1, <1>2, <1>4, <1>5 DEF RegistrationInv, BatchFits, ChainsComplete, DocumentFollows

\* A static mount is no controller route.
LEMMA MountKeeps ==
    ASSUME RegistrationInv, NEW r \in Static, MountStatic(r)
    PROVE  RegistrationInv'
<1>1. /\ registrar.pc = "idle" /\ r \notin DOMAIN engine.chain
      /\ engine' = [engine EXCEPT !.chain = WithRoute(@, r, engine.handlers)]
      /\ UNCHANGED <<registry, routeMiddleware, routesRegistered, running, registrar,
                     openapiCache, generator>>
  BY DEF MountStatic, Open, Conflicting
<1>2. /\ engine'.handlers = engine.handlers
      /\ engine' = [handlers |-> engine'.handlers, chain |-> engine'.chain]
      /\ engine'.chain = WithRoute(engine.chain, r, engine.handlers)
  BY <1>1 DEF RegistrationInv, RegistrationTypeOK
<1>3. /\ DOMAIN engine'.chain = DOMAIN engine.chain \cup {r}
      /\ \A s \in DOMAIN engine.chain : engine'.chain[s] = engine.chain[s]
  BY <1>1, <1>2 DEF WithRoute
<1>4. r \in Route
  BY RegistrationAssumption
<1>5. Installed' = Installed /\ \A s \in Installed : engine'.chain[s] = engine.chain[s]
  BY <1>3 DEF Installed
<1>6. RegistrationTypeOK'
  <2>1. engine'.chain \in [DOMAIN engine'.chain -> Handlers]
    BY <1>2 DEF WithRoute, RegistrationInv, RegistrationTypeOK
  <2> QED
    BY <1>1, <1>2, <1>3, <1>4, <2>1 DEF RegistrationInv, RegistrationTypeOK
<1>7. ChainsComplete'
  BY <1>1, <1>2, <1>5 DEF RegistrationInv, ChainsComplete
<1> QED
  BY <1>1, <1>5, <1>6, <1>7 DEF RegistrationInv, BatchFits, DocumentFollows

\* Starting and ending a run leave the tables alone.
LEMMA RunKeeps ==
    ASSUME RegistrationInv, BeginRun \/ EndRun
    PROVE  RegistrationInv'
<1>1. /\ running' \in BOOLEAN
      /\ running' => registrar.pc = "idle"
      /\ UNCHANGED <<engine, registry, routeMiddleware, routesRegistered, registrar, openapiCache,
                     generator>>
  BY DEF BeginRun, EndRun, Open
<1>2. Installed' = Installed
  BY <1>1 DEF Installed
<1>3. RegistrationTypeOK'
  BY <1>1 DEF RegistrationInv, RegistrationTypeOK
<1>4. BatchFits' /\ ChainsComplete'
  BY <1>1, <1>2 DEF RegistrationInv, BatchFits, ChainsComplete
<1> QED
  BY <1>1, <1>2, <1>3, <1>4 DEF RegistrationInv, DocumentFollows

\* OpenAPI lists the routes, and stores what it made of them.
LEMMA DocumentKeeps ==
    ASSUME RegistrationInv, ListRoutes \/ StoreDocument
    PROVE  RegistrationInv'
<1>1. UNCHANGED <<engine, registry, routeMiddleware, routesRegistered, running, registrar>>
  BY DEF ListRoutes, StoreDocument
<1>2. Installed' = Installed
  BY <1>1 DEF Installed
<1>3. generator' \in [pc : {"idle", "store"}, list : SUBSET Route]
  BY DEF ListRoutes, StoreDocument, RegistrationInv, RegistrationTypeOK
<1>4. DocumentFollows'
  <2>1. CASE ListRoutes
    BY <1>1, <2>1 DEF ListRoutes, DocumentFollows, RegistrationInv
  <2>2. CASE StoreDocument
    BY <1>1, <2>2 DEF StoreDocument, DocumentFollows, RegistrationInv
  <2> QED
    BY <2>1, <2>2
<1>5. RegistrationTypeOK'
  BY <1>1, <1>3 DEF RegistrationInv, RegistrationTypeOK
<1>6. BatchFits' /\ ChainsComplete'
  BY <1>1, <1>2 DEF RegistrationInv, BatchFits, ChainsComplete
<1> QED
  BY <1>1, <1>2, <1>4, <1>5, <1>6 DEF RegistrationInv

-----------------------------------------------------------------------------
(* The application                                                           *)

\* What initialize installs are handlers.
LEMMA FrameworkHandlers == Framework \in Handlers /\ Framework # <<>>
<1> DEFINE S == Middleware \cup Range(Framework)
<1>1. \A i \in DOMAIN Framework : Framework[i] \in S
  BY DEF Range
<1>2. Framework \in Seq({"recovery", "host", "limit", "cors", "csrf"})
  BY DEF Framework
<1>3. Framework \in Seq(S)
  <2> HIDE DEF S
  <2> QED
    BY <1>1, <1>2
<1> QED
  BY <1>3 DEF Handlers, Framework

\* The start: empty tables.
LEMMA ApplicationStarts == ApplicationInit => RegistrationInv /\ Fresh
<1> SUFFICES ASSUME ApplicationInit
             PROVE  RegistrationInv /\ Fresh
  OBVIOUS
<1>1. RegistrationInit
  BY DEF ApplicationInit
<1>2. <<>> \in Handlers /\ <<>> \in Seq(Route)
  BY DEF Handlers
<1>3. DOMAIN engine.chain = {} /\ Installed = {} /\ engine.handlers = <<>>
  BY <1>1 DEF RegistrationInit, Installed
<1>4. RegistrationTypeOK
  BY <1>1, <1>2 DEF RegistrationInit, RegistrationTypeOK, Idle
<1> QED
  BY <1>1, <1>3, <1>4
     DEF RegistrationInit, RegistrationInv, Fresh, BatchFits, ChainsComplete, DocumentFollows, Idle

\* initialize: the routes the supplied engine came with and the mounts of the
\* configuration are no controller routes.
LEMMA InitializeKeeps ==
    ASSUME RegistrationInv, Fresh, NEW supplied \in Supplied, Initialize(supplied)
    PROVE  RegistrationInv' /\ Fresh'
<1>1. /\ registry = {} /\ registrar = Idle /\ ~routesRegistered /\ ~running
      /\ construction'.pc = "done"
  BY DEF Fresh, Initialize
<1>2. PICK mounted \in {FromConfig, {}} :
        InstallFramework(supplied, mounted, construction.settled.errors)
  BY DEF Initialize
<1>3. mounted \subseteq Static /\ supplied \subseteq Route /\ Static \subseteq Route /\ Docs \in Route
  BY <1>2, ApplicationAssumption, RegistrationAssumption
<1>4. /\ engine' = [handlers |-> Framework,
                    chain    |-> [r \in supplied \cup mounted \cup {Docs} |->
                                    IF r \in supplied THEN <<>> ELSE Framework]]
      /\ UNCHANGED <<registry, routeMiddleware, routesRegistered, running, registrar,
                     openapiCache, generator>>
  BY <1>2 DEF InstallFramework
<1>5. Installed' = {}
  BY <1>3, <1>4 DEF Installed
<1>6. RegistrationTypeOK'
  <2>1. <<>> \in Handlers
    BY DEF Handlers
  <2> QED
    BY <1>3, <1>4, <2>1, FrameworkHandlers DEF RegistrationInv, RegistrationTypeOK
<1> QED
  BY <1>1, <1>4, <1>5, <1>6
     DEF RegistrationInv, Fresh, BatchFits, ChainsComplete, DocumentFollows, Idle

\* What is called on the server before it is constructed changes nothing.
LEMMA RegisterFresh ==
    ASSUME Fresh, construction.pc # "done", Register
    PROVE  Fresh'
<1>1. engine.handlers = <<>> /\ registry = {} /\ registrar = Idle /\ ~routesRegistered /\ ~running
  BY DEF Fresh
<1>2. ~Open /\ registrar.pc = "idle"
  BY <1>1 DEF Open, Idle
<1>3. RegistrationNext
  BY DEF Register
<1>4. ListRoutes \/ StoreDocument
  BY <1>1, <1>2, <1>3
     DEF RegistrationNext, Use, RouteUse, BindController, InstallRoute, Commit, InvalidateOpenAPI,
         MountStatic, BeginRun, EndRun
<1> QED
  BY <1>1, <1>4 DEF ListRoutes, StoreDocument, Register, Fresh

\* Every operation of registration keeps the invariant.
LEMMA RegisterKeeps ==
    ASSUME RegistrationInv, Fresh, Register
    PROVE  RegistrationInv' /\ Fresh'
<1>1. RegistrationInv'
  <2>1. CASE \E m \in Middleware : Use(m)
    BY <2>1, UseKeeps
  <2>2. CASE \E r \in Route \ Static, m \in Middleware : RouteUse(r, m)
    BY <2>2, RouteUseKeeps
  <2>3. CASE \E batch \in Batch, group \in {<<>>} \cup {<<m>> : m \in Middleware} :
               BindController(batch, group)
    <3>1. PICK batch \in Batch, group \in {<<>>} \cup {<<m>> : m \in Middleware} :
            BindController(batch, group)
      BY <2>3
    <3>2. ASSUME NEW S, NEW m \in S
          PROVE  <<m>> \in Seq(S) /\ <<>> \in Seq(S)
      OBVIOUS
    <3>3. group \in Handlers
      <4>1. CASE group = <<>>
        BY <4>1 DEF Handlers
      <4>2. CASE \E m \in Middleware : group = <<m>>
        <5>1. PICK m \in Middleware : group = <<m>>
          BY <4>2
        <5>2. m \in Middleware \cup Range(Framework)
          OBVIOUS
        <5> QED
          BY <3>2, <5>1, <5>2 DEF Handlers
      <4> QED
        BY <3>1, <4>1, <4>2
    <3> QED
      BY <3>1, <3>3, BindKeeps
  <2>4. CASE \E r \in Static : MountStatic(r)
    BY <2>4, MountKeeps
  <2> QED
    BY <2>1, <2>2, <2>3, <2>4, InstallKeeps, CommitKeeps, InvalidateKeeps, RunKeeps, DocumentKeeps
       DEF Register, RegistrationNext
<1>2. CASE construction.pc # "done"
  BY <1>1, <1>2, RegisterFresh
<1>3. CASE construction.pc = "done"
  BY <1>1, <1>3 DEF Register, Fresh
<1> QED
  BY <1>2, <1>3

\* A step that leaves registration alone.
LEMMA UnregisteredKeeps ==
    ASSUME RegistrationInv, UNCHANGED registrationVars
    PROVE  RegistrationInv'
<1>1. Installed' = Installed
  BY DEF registrationVars, Installed
<1>2. RegistrationTypeOK'
  BY DEF registrationVars, RegistrationInv, RegistrationTypeOK
<1>3. BatchFits' /\ ChainsComplete'
  BY <1>1 DEF registrationVars, RegistrationInv, BatchFits, ChainsComplete
<1> QED
  BY <1>1, <1>2, <1>3 DEF registrationVars, RegistrationInv, DocumentFollows

\* The steps that settle the settings touch neither the routes nor a request.
Settling ==
  \/ \E options \in OptionList : NewServer(options)
  \/ TakeOption
  \/ \E loaded \in Loaded, attached \in Attached : Settle(loaded, attached)

LEMMA SettlingChanges ==
    ASSUME Settling
    PROVE  /\ UNCHANGED <<registrationVars, requestVars>>
           /\ construction.pc \notin {"settled", "done"} /\ construction'.pc # "done"
BY DEF Settling, NewServer, TakeOption, Settle

\* Every step of the application keeps the invariant.
LEMMA ApplicationSteps ==
    ASSUME RegistrationInv, Fresh, [ApplicationNext]_applicationVars
    PROVE  RegistrationInv' /\ Fresh'
<1>1. CASE Settling
  BY <1>1, SettlingChanges, UnregisteredKeeps DEF registrationVars, Fresh
<1>2. CASE \E supplied \in Supplied : Initialize(supplied)
  BY <1>2, InitializeKeeps
<1>3. CASE Register
  BY <1>3, RegisterKeeps
<1>4. CASE ServeRequest
  BY <1>4, UnregisteredKeeps DEF ServeRequest, registrationVars, Fresh
<1>5. CASE UNCHANGED applicationVars
  BY <1>5, UnregisteredKeeps DEF applicationVars, registrationVars, Fresh
<1> QED
  BY <1>1, <1>2, <1>3, <1>4, <1>5 DEF ApplicationNext, Settling

\* The invariant the results below rest on: what a batch under way leaves to do.
THEOREM RegistrationInvariant == Spec => [](RegistrationInv /\ Fresh)
<1>1. RegistrationInv /\ Fresh /\ [ApplicationNext]_applicationVars => (RegistrationInv /\ Fresh)'
  BY ApplicationSteps
<1> QED
  BY <1>1, ApplicationStarts, PTL DEF Spec

-----------------------------------------------------------------------------
(* The results                                                               *)

\* registerRouteDefinitions: a batch is in Gin's table and in the registry, or
\* in neither; Gin never refuses a route in the middle of one.
THEOREM RoutesAgree == Spec => []TablesAgree
<1>1. RegistrationInv => TablesAgree
  BY DEF RegistrationInv, TablesAgree, Settled
<1> QED
  BY <1>1, RegistrationInvariant, PTL

\* Use and Route(...).Use: whatever was accepted is in the chain of every
\* registered route it was meant for, in any order of calls.
THEOREM MiddlewareComplete == Spec => []NoMiddlewareLost
<1>1. RegistrationInv => registry \subseteq Installed
  BY DEF RegistrationInv, BatchFits, Installed
<1>2. RegistrationInv => NoMiddlewareLost
  BY <1>1 DEF RegistrationInv, ChainsComplete, NoMiddlewareLost
<1> QED
  BY <1>2, RegistrationInvariant, PTL

\* OpenAPI: no document of earlier routes outlives the registration that made
\* it stale, though readers of the cache do not wait for it.
THEOREM DocumentCurrent == Spec => []DocumentIsCurrent
<1>1. RegistrationInv => DocumentIsCurrent
  BY DEF RegistrationInv, DocumentFollows, DocumentIsCurrent, Settled
<1> QED
  BY <1>1, RegistrationInvariant, PTL

\* beginRun waits for a registration under way, and none starts during a run.
THEOREM TopologyFrozen == Spec => FrozenWhileRunning
<1>1. ASSUME RegistrationInv, Fresh, [ApplicationNext]_applicationVars
      PROVE  [running => UNCHANGED <<engine, registry, routeMiddleware>>]_registrationVars
  <2> SUFFICES ASSUME running
               PROVE  UNCHANGED <<engine, registry, routeMiddleware>>
    OBVIOUS
  <2>1. registrar.pc = "idle" /\ ~Open
    BY <1>1 DEF RegistrationInv, Open
  <2>2. CASE Register
    BY <2>1, <2>2
       DEF Register, RegistrationNext, Use, RouteUse, BindController, InstallRoute, Commit,
           InvalidateOpenAPI, MountStatic, BeginRun, EndRun, ListRoutes, StoreDocument
  <2>3. ~(\E supplied \in Supplied : Initialize(supplied))
    BY <1>1 DEF Fresh, Initialize
  <2>4. CASE Settling
    BY <2>4, SettlingChanges DEF registrationVars
  <2> QED
    BY <1>1, <2>2, <2>3, <2>4
       DEF ApplicationNext, Settling, ServeRequest, applicationVars, registrationVars
<1> QED
  BY <1>1, RegistrationInvariant, PTL DEF Spec, FrozenWhileRunning

-----------------------------------------------------------------------------
(* The framework's handlers come first                                       *)

\* Their order.
LEMMA FrameworkPlaces ==
    /\ Len(Framework) = 5
    /\ Framework[1] = "recovery" /\ Framework[2] = "host" /\ Framework[3] = "limit"
    /\ Framework[4] = "cors" /\ Framework[5] = "csrf"
BY DEF Framework

\* A chain keeps its head when something is added at its end.
LEMMA FramedConcatenation ==
    ASSUME NEW S, NEW s \in Seq(S), NEW t \in Seq(S), Framed(s), s # <<>>
    PROVE  Framed(s \o t)
<1>1. Len(s \o t) = Len(s) + Len(t) /\ Len(s) \in Nat /\ Len(t) \in Nat
  OBVIOUS
<1>2. ASSUME NEW i \in 1 .. Len(s)
      PROVE  (s \o t)[i] = s[i]
  OBVIOUS
<1>3. 5 <= Len(s) /\ \A i \in 1 .. 5 : s[i] = Framework[i]
  BY FrameworkPlaces DEF Framed
<1>4. \A i \in 1 .. 5 : i \in 1 .. Len(s)
  BY <1>1, <1>3
<1> QED
  BY <1>1, <1>2, <1>3, <1>4, FrameworkPlaces DEF Framed

\* The chains initialize installs.
LEMMA FramedFramework == Framed(Framework) /\ Framed(<<>>)
BY FrameworkPlaces DEF Framed

\* Nothing is registered, and nothing is installed, before the head is there.
LEMMA FrameKeeps ==
    ASSUME RegistrationInv, Fresh, ChainsFramed, [ApplicationNext]_applicationVars
    PROVE  ChainsFramed'
<1>1. engine.handlers \in Handlers /\ engine = [handlers |-> engine.handlers, chain |-> engine.chain]
  BY DEF RegistrationInv, RegistrationTypeOK
<1>2. CASE UNCHANGED <<engine, construction>>
  BY <1>2 DEF ChainsFramed
<1>3. CASE Settling
  <2>1. UNCHANGED engine /\ construction.pc # "done" /\ construction'.pc # "done"
    BY <1>3, SettlingChanges DEF registrationVars
  <2> QED
    BY <2>1 DEF ChainsFramed
<1>4. CASE \E supplied \in Supplied : Initialize(supplied)
  <2>1. PICK supplied \in Supplied, mounted \in {FromConfig, {}} :
          /\ engine' = [handlers |-> Framework,
                        chain    |-> [r \in supplied \cup mounted \cup {Docs} |->
                                        IF r \in supplied THEN <<>> ELSE Framework]]
          /\ construction'.pc = "done"
    BY <1>4 DEF Initialize, InstallFramework
  <2> QED
    BY <2>1, FramedFramework, FrameworkHandlers DEF ChainsFramed
<1>5. CASE \E m \in Middleware : Use(m) /\ Register
  <2>1. PICK m \in Middleware : /\ engine' = [engine EXCEPT !.handlers = Append(@, m)]
                                /\ engine.handlers # <<>> /\ UNCHANGED construction
    BY <1>5 DEF Use, Open, Register
  <2>2. /\ engine'.handlers = Append(engine.handlers, m)
        /\ engine'.chain = engine.chain
    BY <1>1, <2>1
  <2>3. /\ Append(engine.handlers, m) = engine.handlers \o <<m>>
        /\ engine.handlers \in Seq(Middleware \cup Range(Framework))
        /\ <<m>> \in Seq(Middleware \cup Range(Framework))
    <3>1. ASSUME NEW S, NEW s \in Seq(S), NEW a \in S
          PROVE  Append(s, a) = s \o <<a>> /\ <<a>> \in Seq(S)
      OBVIOUS
    <3>2. m \in Middleware \cup Range(Framework)
      OBVIOUS
    <3> QED
      BY <1>1, <3>1, <3>2 DEF Handlers
  <2>4. Framed(engine'.handlers) /\ engine'.handlers # <<>>
    <3>1. Framed(engine.handlers \o <<m>>)
      BY <2>1, <2>3, FramedConcatenation DEF ChainsFramed
    <3>2. Append(engine.handlers, m) # <<>>
      BY <2>3, RangeOfConcatenation, <2>1
    <3> QED
      BY <2>2, <2>3, <3>1, <3>2
  <2> QED
    BY <2>1, <2>2, <2>4 DEF ChainsFramed
<1>6. ASSUME NEW r \in Route, NEW handlers, Framed(handlers), UNCHANGED construction,
             engine' = [engine EXCEPT !.chain = WithRoute(@, r, handlers)]
      PROVE  ChainsFramed'
  <2>1. engine'.handlers = engine.handlers /\ engine'.chain = WithRoute(engine.chain, r, handlers)
    BY <1>1, <1>6
  <2> QED
    BY <1>6, <2>1 DEF ChainsFramed, WithRoute
<1>7. CASE InstallRoute /\ Register
  <2>1. registrar.batch \in Seq(Route) /\ registrar.group \in Handlers /\ registrar.pc = "install"
    BY <1>7 DEF RegistrationInv, RegistrationTypeOK, InstallRoute
  <2>2. PICK i \in DOMAIN registrar.batch :
          \/ UNCHANGED engine
          \/ engine' = [engine EXCEPT !.chain =
                          WithRoute(@, registrar.batch[i], Chain(registrar.batch[i], registrar.group))]
    BY <1>7 DEF InstallRoute, Remaining
  <2>3. registrar.batch[i] \in Route
    BY <2>1
  <2>4. Framed(Chain(registrar.batch[i], registrar.group))
    <3> DEFINE S == Middleware \cup Range(Framework)
    <3>1. /\ engine.handlers \in Seq(S) /\ registrar.group \in Seq(S)
          /\ routeMiddleware[registrar.batch[i]] \in Seq(S)
          /\ engine.handlers # <<>>
      BY <1>1, <2>1, <2>3 DEF Handlers, RegistrationInv, RegistrationTypeOK, BatchFits
    <3> HIDE DEF S
    <3>2. /\ Framed(engine.handlers \o registrar.group)
          /\ engine.handlers \o registrar.group \in Seq(S)
          /\ engine.handlers \o registrar.group # <<>>
      BY <3>1, FramedConcatenation, RangeOfConcatenation DEF ChainsFramed
    <3> QED
      BY <3>1, <3>2, FramedConcatenation DEF Chain
  <2>5. UNCHANGED construction
    BY <1>7 DEF Register
  <2> QED
    BY <1>2, <1>6, <2>2, <2>3, <2>4, <2>5
<1>8. CASE \E r \in Static : MountStatic(r) /\ Register
  <2>1. PICK r \in Static : engine' = [engine EXCEPT !.chain = WithRoute(@, r, engine.handlers)]
    BY <1>8 DEF MountStatic
  <2> QED
    BY <1>6, <1>8, <2>1, RegistrationAssumption DEF ChainsFramed, Register
<1>9. CASE Register
  BY <1>2, <1>5, <1>7, <1>8, <1>9
     DEF Register, RegistrationNext, RouteUse, BindController, Commit, InvalidateOpenAPI, BeginRun,
         EndRun, ListRoutes, StoreDocument
<1>10. CASE ServeRequest \/ UNCHANGED applicationVars
  BY <1>2, <1>10 DEF ServeRequest, registrationVars, applicationVars
<1> QED
  BY <1>3, <1>4, <1>9, <1>10 DEF ApplicationNext, Settling

-----------------------------------------------------------------------------
(* A request on its way through its chain                                    *)

\* The chain of the request under way has the framework's handlers at its head.
LEMMA ChainedFramed ==
    ASSUME RegistrationInv, ChainsFramed, ChecksPassed, request.pc = "chain"
    PROVE  /\ Len(Chained) \in Nat /\ 5 <= Len(Chained)
           /\ \A i \in 1 .. 5 : Chained[i] = Framework[i]
<1>1. Chained # <<>> /\ request.route \in DOMAIN engine.chain \cup {NotFound}
  BY DEF ChecksPassed
<1>2. Chained \in Handlers /\ Framed(Chained)
  BY <1>1 DEF Chained, ChainsFramed, RegistrationInv, RegistrationTypeOK
<1>3. Len(Chained) \in Nat
  BY <1>2 DEF Handlers
<1> QED
  BY <1>1, <1>2, <1>3, FrameworkPlaces DEF Framed

\* A request that stops here: nothing more is asked of it.
LEMMA StopKeeps ==
    ASSUME ChecksPassed, request.pc # "idle",
           request'.pc \notin {"chain", "call", "encode"}, RequestRecord(request'),
           request'.ran => request.ran /\ UNCHANGED <<request.flaw, request.policies>>,
           UNCHANGED construction
    PROVE  ChecksPassed'
BY DEF ChecksPassed, Serving, Admitted, HostAdmitted, TokenAdmitted, RequestRecord

\* A request that goes on to the next handler: the one it leaves has let it pass.
LEMMA AdvanceKeeps ==
    ASSUME RegistrationInv, ChainsFramed, ChecksPassed, request.pc = "chain",
           request'.pc = "chain", RequestRecord(request'),
           request'.next = request.next + 1, request'.ran = request.ran,
           UNCHANGED <<request.flaw, request.policies, request.route, policy, engine, construction>>,
           request.next = 2 => HostAdmitted(request),
           request.next = 3 => request.flaw # "long",
           request.next = 5 => TokenAdmitted(request)
    PROVE  ChecksPassed'
<1>1. /\ request.next \in Nat /\ Chained # <<>>
      /\ request.route \in DOMAIN engine.chain \cup {NotFound}
      /\ policy \in request.policies
      /\ request.next > 2 => HostAdmitted(request)
      /\ request.next > 3 => request.flaw # "long"
      /\ request.next > 5 => TokenAdmitted(request)
  BY DEF ChecksPassed
<1>2. /\ HostAdmitted(request') <=> HostAdmitted(request)
      /\ TokenAdmitted(request') <=> TokenAdmitted(request)
  BY DEF HostAdmitted, TokenAdmitted
<1>3. Chained' # <<>>
  BY <1>1 DEF Chained
<1>4. request'.next > 2 => HostAdmitted(request')
  BY <1>1, <1>2
<1>5. request'.next > 3 => request'.flaw # "long"
  BY <1>1
<1>6. request'.next > 5 => TokenAdmitted(request')
  BY <1>1, <1>2
<1>7. request'.ran => Admitted(request')
  BY <1>2 DEF ChecksPassed, Admitted
<1>8. construction'.pc = "done"
  BY DEF ChecksPassed, Serving
<1> QED
  BY <1>1, <1>3, <1>4, <1>5, <1>6, <1>7, <1>8 DEF ChecksPassed

\* The handler a request leaves behind is where the framework put it.
LEMMA HandlerPlaces ==
    ASSUME RegistrationInv, ChainsFramed, ChecksPassed, request.pc = "chain"
    PROVE  /\ request.next = 2 => Chained[request.next] = "host"
           /\ request.next = 3 => Chained[request.next] = "limit"
           /\ request.next = 5 => Chained[request.next] = "csrf"
<1>1. \A i \in 1 .. 5 : Chained[i] = Framework[i]
  BY ChainedFramed
<1>2. CASE request.next = 2
  BY <1>1, <1>2, FrameworkPlaces
<1>3. CASE request.next = 3
  BY <1>1, <1>3, FrameworkPlaces
<1>4. CASE request.next = 5
  BY <1>1, <1>4, FrameworkPlaces
<1> QED
  BY <1>2, <1>3, <1>4

\* Answering with an error changes nothing but the answer.
LEMMA HandledError ==
    ASSUME NEW r, RequestRecord(r)
    PROVE  /\ RequestRecord(HandleError(r)) /\ RequestRecord(Unwind(HandleError(r)))
           /\ HandleError(r).pc = r.pc /\ Unwind(HandleError(r)).pc = "unwind"
           /\ HandleError(r).ran = r.ran /\ Unwind(HandleError(r)).ran = r.ran
           /\ HandleError(r).flaw = r.flaw /\ Unwind(HandleError(r)).flaw = r.flaw
           /\ HandleError(r).policies = r.policies /\ Unwind(HandleError(r)).policies = r.policies
<1>1. /\ RequestRecord(HandleError(r)) /\ HandleError(r).pc = r.pc /\ HandleError(r).ran = r.ran
      /\ HandleError(r).flaw = r.flaw /\ HandleError(r).policies = r.policies
  <2>1. CASE Written(r)
    BY <2>1 DEF HandleError
  <2>2. CASE ~Written(r)
    BY <2>2 DEF HandleError, RequestRecord
  <2> QED
    BY <2>1, <2>2
<1> HIDE DEF HandleError
<1> QED
  BY <1>1 DEF Unwind, RequestRecord

\* A new request: nothing of it is checked yet.
LEMMA ServeKeeps ==
    ASSUME ChainsFramed, ChecksPassed, construction.pc = "done",
           NEW route \in Route \cup {NotFound}, NEW flaw \in Flaw, ServeHTTP(route, flaw),
           UNCHANGED <<engine, construction>>
    PROVE  ChecksPassed'
<1>1. CASE initializationErr
  <2>1. request' = [NoRequest EXCEPT !.pc = "done", !.writes = <<"raw">>]
    BY <1>1 DEF ServeHTTP
  <2> QED
    BY <2>1 DEF NoRequest, ChecksPassed, RequestRecord
<1>2. CASE ~initializationErr
  <2>1. request' = [NoRequest EXCEPT !.pc = "chain", !.route = route, !.next = 1, !.flaw = flaw,
                                     !.policies = {policy}]
    BY <1>2 DEF ServeHTTP
  <2>2. /\ request'.pc = "chain" /\ request'.route = route /\ request'.next = 1
        /\ request'.policies = {policy} /\ ~request'.ran /\ RequestRecord(request')
    BY <2>1 DEF NoRequest, RequestRecord
  <2>3. policy' = policy /\ route \in {r \in DOMAIN engine.chain : engine.chain[r] # <<>>} \cup {NotFound}
    BY DEF ServeHTTP
  <2>4. Chained' # <<>>
    <3>1. CASE route = NotFound
      BY <2>2, <3>1 DEF Chained, ChainsFramed
    <3>2. CASE route # NotFound
      BY <2>2, <2>3, <3>2 DEF Chained
    <3> QED
      BY <3>1, <3>2
  <2> QED
    BY <2>2, <2>3, <2>4 DEF ChecksPassed
<1> QED
  BY <1>1, <1>2

\* A setting changes: the new policy is one of those the request meets.
LEMMA SwitchKeeps ==
    ASSUME ChecksPassed, NEW setting, NEW value, Switch(setting, value),
           UNCHANGED <<engine, construction>>
    PROVE  ChecksPassed'
<1>1. /\ request.pc = "chain" /\ RequestRecord(request)
      /\ request' = [request EXCEPT !.policies = @ \cup {policy'}]
  BY DEF Switch, ChecksPassed
<1>2. /\ request'.pc = "chain" /\ RequestRecord(request')
      /\ request'.policies = request.policies \cup {policy'}
      /\ UNCHANGED <<request.next, request.route, request.flaw, request.ran>>
  BY <1>1 DEF RequestRecord
<1>3. /\ HostAdmitted(request) => HostAdmitted(request')
      /\ TokenAdmitted(request) => TokenAdmitted(request')
  BY <1>2 DEF HostAdmitted, TokenAdmitted
<1>4. Admitted(request) => Admitted(request')
  BY <1>2, <1>3 DEF Admitted
<1>5. Chained' = Chained /\ construction'.pc = "done"
  BY <1>1, <1>2 DEF Chained, ChecksPassed, Serving
<1> QED
  BY <1>1, <1>2, <1>3, <1>4, <1>5 DEF ChecksPassed

\* A handler of the chain: it refuses the request, stops it, or lets it pass.
LEMMA ChainKeeps ==
    ASSUME RegistrationInv, ChainsFramed, ChecksPassed,
           UNCHANGED <<engine, construction>>,
           \/ Recovery \/ HostValidation \/ BodyLimit \/ Csrf
           \/ \E refuses \in BOOLEAN : Cors(refuses)
           \/ \E does \in {"passes", "writes", "wraps", "aborts", "answers", "panics"} : UserMiddleware(does)
    PROVE  ChecksPassed'
<1>1. /\ request.pc = "chain" /\ UNCHANGED policy /\ RequestRecord(request)
      /\ Chained # <<>> /\ policy \in request.policies
  BY DEF Recovery, HostValidation, BodyLimit, Csrf, Cors, UserMiddleware, At, Keep, ChecksPassed
<1> DEFINE Passes == /\ request'.pc = "chain" /\ RequestRecord(request')
                     /\ request'.next = request.next + 1 /\ request'.ran = request.ran
                     /\ UNCHANGED <<request.flaw, request.policies, request.route>>
           Stops  == /\ request'.pc \in {"unwind", "panic"} /\ RequestRecord(request')
                     /\ UNCHANGED <<request.ran, request.flaw, request.policies>>
<1>2. request' = Advance(request) => Passes
  BY <1>1 DEF Advance, RequestRecord
<1>3. request' = Refuse(request) => Stops
  BY <1>1, HandledError DEF Refuse
<1>4. Stops => ChecksPassed'
  BY <1>1, StopKeeps
<1>5. ASSUME Passes,
             request.next = 2 => HostAdmitted(request),
             request.next = 3 => request.flaw # "long",
             request.next = 5 => TokenAdmitted(request)
      PROVE  ChecksPassed'
  BY <1>1, <1>5, AdvanceKeeps
<1> HIDE DEF Passes, Stops
<1>6. CASE Recovery
  <2>1. Chained[request.next] = "recovery" /\ request' = Advance(request)
    BY <1>6 DEF Recovery, At
  <2> QED
    BY <1>1, <1>2, <1>5, <2>1, HandlerPlaces
<1>7. CASE HostValidation
  <2>1. Chained[request.next] = "host"
        /\ request' = IF HostRefuses THEN Refuse(request) ELSE Advance(request)
    BY <1>7 DEF HostValidation, At
  <2>2. ~HostRefuses => HostAdmitted(request)
    BY <1>1 DEF HostRefuses, HostAdmitted
  <2> QED
    BY <1>1, <1>2, <1>3, <1>4, <1>5, <2>1, <2>2, HandlerPlaces
<1>8. CASE BodyLimit
  <2>1. Chained[request.next] = "limit"
        /\ request' = IF request.flaw = "long" THEN Refuse(request) ELSE Advance(request)
    BY <1>8 DEF BodyLimit, At
  <2> QED
    BY <1>1, <1>2, <1>3, <1>4, <1>5, <2>1, HandlerPlaces
<1>9. CASE Csrf
  <2>1. Chained[request.next] = "csrf"
        /\ request' = IF CsrfRefuses THEN Refuse(request) ELSE Advance(request)
    BY <1>9 DEF Csrf, At
  <2>2. ~CsrfRefuses => TokenAdmitted(request)
    BY <1>1 DEF CsrfRefuses, TokenAdmitted
  <2> QED
    BY <1>1, <1>2, <1>3, <1>4, <1>5, <2>1, <2>2, HandlerPlaces
<1>10. CASE \E refuses \in BOOLEAN : Cors(refuses)
  <2>1. /\ Chained[request.next] = "cors"
        /\ \/ request' = Unwind([request EXCEPT !.writes = Append(@, "status")])
           \/ request' = Advance(request)
    BY <1>10 DEF Cors, At
  <2>2. request' = Unwind([request EXCEPT !.writes = Append(@, "status")]) => Stops
    BY <1>1 DEF Unwind, RequestRecord, Stops
  <2> QED
    BY <1>1, <1>2, <1>4, <1>5, <2>1, <2>2, HandlerPlaces
<1>11. ASSUME NEW does \in {"passes", "writes", "wraps", "aborts", "answers", "panics"},
              UserMiddleware(does)
       PROVE  ChecksPassed'
  <2>1. Chained[request.next] \notin Range(Framework)
    BY <1>11, ApplicationAssumption DEF UserMiddleware
  <2>2. Chained[request.next] \notin {"host", "limit", "csrf"}
    <3>1. DOMAIN Framework = 1 .. 5
      BY DEF Framework
    <3> QED
      BY <2>1, <3>1, FrameworkPlaces DEF Range
  <2>3. Passes \/ Stops
    <3>1. CASE does = "passes"
      BY <1>2, <1>11, <3>1 DEF UserMiddleware
    <3>2. CASE does = "writes"
      <4>1. request' = Advance([request EXCEPT !.writes = Append(@, "raw")])
        BY <1>11, <3>2 DEF UserMiddleware
      <4> QED
        BY <1>1, <4>1 DEF Advance, RequestRecord, Passes
    <3>3. CASE does = "wraps"
      <4>1. request' = Advance([request EXCEPT !.wraps = TRUE])
        BY <1>11, <3>3 DEF UserMiddleware
      <4> QED
        BY <1>1, <4>1 DEF Advance, RequestRecord, Passes
    <3>4. CASE does = "aborts"
      <4>1. request' = Unwind(request)
        BY <1>11, <3>4 DEF UserMiddleware
      <4> QED
        BY <1>1, <4>1 DEF Unwind, RequestRecord, Stops
    <3>5. CASE does = "answers"
      <4>1. request' = Unwind([request EXCEPT !.writes = Append(@, "raw")])
        BY <1>11, <3>5 DEF UserMiddleware
      <4> QED
        BY <1>1, <4>1 DEF Unwind, RequestRecord, Stops
    <3>6. CASE does = "panics"
      <4>1. request' = [request EXCEPT !.pc = "panic"]
        BY <1>11, <3>6 DEF UserMiddleware
      <4> QED
        BY <1>1, <4>1 DEF RequestRecord, Stops
    <3> QED
      BY <1>11, <3>1, <3>2, <3>3, <3>4, <3>5, <3>6
  <2> QED
    BY <1>1, <1>4, <1>5, <2>2, <2>3, HandlerPlaces
<1> QED
  BY <1>6, <1>7, <1>8, <1>9, <1>10, <1>11

\* The end of the chain: every check is behind the request.
LEMMA BindRequestKeeps ==
    ASSUME RegistrationInv, ChainsFramed, ChecksPassed, NEW outcome, BindRequest(outcome),
           UNCHANGED <<engine, construction>>
    PROVE  ChecksPassed'
<1>1. /\ request.pc = "chain" /\ request.next = Len(Chained) + 1 /\ RequestRecord(request)
      /\ construction.pc = "done"
  BY DEF BindRequest, AtHandler, ChecksPassed, Serving
<1>2. request.next > 5 /\ request.next > 3 /\ request.next > 2
  BY <1>1, ChainedFramed
<1>3. Admitted(request)
  BY <1>1, <1>2 DEF ChecksPassed, Admitted
<1>4. CASE request' = [request EXCEPT !.pc = "call"]
  <2>1. /\ request'.pc = "call" /\ RequestRecord(request')
        /\ UNCHANGED <<request.flaw, request.policies>>
    BY <1>1, <1>4 DEF RequestRecord
  <2>2. Admitted(request')
    BY <1>3, <2>1 DEF Admitted, HostAdmitted, TokenAdmitted
  <2> QED
    BY <1>1, <2>1, <2>2 DEF ChecksPassed
<1>5. CASE request' = Unwind(HandleError(request))
  BY <1>1, <1>5, HandledError, StopKeeps
<1> QED
  BY <1>4, <1>5 DEF BindRequest

\* The method runs for an admitted request.
LEMMA CallMethodKeeps ==
    ASSUME ChecksPassed, UNCHANGED <<engine, construction>>,
           NEW writes \in {<<>>, <<"raw">>, <<"direct">>, <<"status">>},
           NEW returns \in {"value", "error", "panic"}, CallMethod(writes, returns)
    PROVE  ChecksPassed'
<1> DEFINE called == [request EXCEPT !.ran = TRUE, !.writes = @ \o writes,
                                     !.wrote = @ \/ writes \in {<<"direct">>, <<"status">>}]
<1>1. /\ request.pc = "call" /\ RequestRecord(request) /\ Admitted(request)
      /\ construction.pc = "done"
  BY DEF CallMethod, ChecksPassed, Serving
<1>2. /\ RequestRecord(called) /\ called.ran
      /\ called.flaw = request.flaw /\ called.policies = request.policies
  <2> DEFINE all   == request.writes \o writes
             wrote == request.wrote \/ writes \in {<<"direct">>, <<"status">>}
  <2>1. called = [request EXCEPT !.ran = TRUE, !.writes = all, !.wrote = wrote]
    OBVIOUS
  <2> HIDE DEF all, wrote, called
  <2> QED
    BY <1>1, <2>1 DEF RequestRecord
<1>3. \/ request' = [called EXCEPT !.pc = "panic"]
      \/ request' = Unwind(HandleError(called))
      \/ request' = [called EXCEPT !.pc = "encode"]
  BY DEF CallMethod
<1> HIDE DEF called
<1>4. /\ request'.pc \in {"panic", "unwind", "encode"} /\ RequestRecord(request')
      /\ request'.flaw = request.flaw /\ request'.policies = request.policies
  <2>1. CASE request' = Unwind(HandleError(called))
    BY <1>2, <2>1, HandledError
  <2>2. CASE request' = [called EXCEPT !.pc = "panic"]
    BY <1>2, <2>2 DEF RequestRecord
  <2>3. CASE request' = [called EXCEPT !.pc = "encode"]
    BY <1>2, <2>3 DEF RequestRecord
  <2> QED
    BY <1>3, <2>1, <2>2, <2>3
<1>5. Admitted(request')
  BY <1>1, <1>4 DEF Admitted, HostAdmitted, TokenAdmitted
<1> QED
  BY <1>1, <1>4, <1>5 DEF ChecksPassed

\* What comes after the method, and what serves no controller.
LEMMA AnswerKeeps ==
    ASSUME ChecksPassed, UNCHANGED <<engine, construction>>,
           \/ \E encoder \in {"writes", "fails"} : Encode(encoder)
           \/ ServeDocument \/ ServeNotFound
           \/ \E mount \in MountPoint, get \in BOOLEAN, path \in RequestPath : EnterStatic(mount, get, path)
           \/ LeaveStatic
           \/ \E writes \in BOOLEAN : Resume(writes)
           \/ Recover
    PROVE  ChecksPassed'
<1>1. request.pc # "idle" /\ RequestRecord(request)
  BY DEF Encode, ServeDocument, ServeNotFound, EnterStatic, AtHandler, LeaveStatic, Resume, Recover,
         ChecksPassed
<1> DEFINE Stops == /\ request'.pc \in {"unwind", "done", "static"} /\ RequestRecord(request')
                    /\ request'.ran => request.ran /\ UNCHANGED <<request.flaw, request.policies>>
<1>2. Stops => ChecksPassed'
  BY <1>1, StopKeeps
<1>3. ASSUME NEW encoder \in {"writes", "fails"}, Encode(encoder)
      PROVE  Stops
  <2>1. request' = Unwind(EncodeResponse(request, encoder))
    BY <1>3 DEF Encode
  <2>2. \/ request' = Unwind(request)
        \/ request' = Unwind(HandleError(request))
        \/ request' = Unwind([request EXCEPT !.writes = Append(@, "success"), !.wrote = TRUE])
    BY <2>1 DEF EncodeResponse
  <2>3. CASE request' = Unwind(HandleError(request))
    BY <1>1, <2>3, HandledError
  <2>4. CASE request' = Unwind(request)
    BY <1>1, <2>4 DEF Unwind, RequestRecord
  <2>5. CASE request' = Unwind([request EXCEPT !.writes = Append(@, "success"), !.wrote = TRUE])
    BY <1>1, <2>5 DEF Unwind, RequestRecord
  <2> QED
    BY <2>2, <2>3, <2>4, <2>5
<1>4. ASSUME ServeDocument
      PROVE  Stops
  <2> DEFINE writes == Append(request.writes, IF policy.openapi THEN "raw" ELSE "status")
  <2>1. request' = Unwind([request EXCEPT !.writes = writes])
    BY <1>4 DEF ServeDocument
  <2> HIDE DEF writes
  <2> QED
    BY <1>1, <2>1 DEF Unwind, RequestRecord
<1>5. ASSUME ServeNotFound
      PROVE  Stops
  <2> DEFINE writes == IF Written(request) THEN request.writes ELSE Append(request.writes, "raw")
  <2>1. request' = Unwind([request EXCEPT !.writes = writes])
    BY <1>5 DEF ServeNotFound
  <2> HIDE DEF writes
  <2> QED
    BY <1>1, <2>1 DEF Unwind, RequestRecord
<1>6. ASSUME NEW mount \in MountPoint, NEW get \in BOOLEAN, NEW path \in RequestPath,
             EnterStatic(mount, get, path)
      PROVE  Stops
  <2>1. /\ request' = [request EXCEPT !.pc = "static", !.flaw = "none", !.policies = {}]
        /\ request.pc = "chain"
    BY <1>6 DEF EnterStatic, AtHandler
  <2>2. ~request.ran
    BY <2>1 DEF ChecksPassed
  <2>3. request'.pc = "static" /\ request'.ran = request.ran
    BY <1>1, <2>1 DEF RequestRecord
  <2>4. RequestRecord(request')
    BY <1>1, <2>1 DEF RequestRecord
  <2> QED
    BY <2>2, <2>3, <2>4
<1>7. ASSUME LeaveStatic
      PROVE  Stops
  <2> DEFINE writes == Append(request.writes, IF visit.answer = "404" THEN "status" ELSE "raw")
  <2>1. request' = Unwind([request EXCEPT !.writes = writes])
    BY <1>7 DEF LeaveStatic
  <2> HIDE DEF writes
  <2> QED
    BY <1>1, <2>1 DEF Unwind, RequestRecord
<1>8. ASSUME NEW writes \in BOOLEAN, Resume(writes)
      PROVE  Stops
  <2>1. request' = [request EXCEPT !.pc = "done", !.writes = IF writes THEN Append(@, "raw") ELSE @]
    BY <1>8 DEF Resume
  <2> QED
    BY <1>1, <2>1 DEF RequestRecord
<1>9. ASSUME Recover
      PROVE  Stops
  <2>1. request' = Unwind([HandleError(request) EXCEPT !.wraps = FALSE])
    BY <1>9 DEF Recover
  <2>2. /\ RequestRecord(HandleError(request)) /\ HandleError(request).ran = request.ran
        /\ HandleError(request).flaw = request.flaw
        /\ HandleError(request).policies = request.policies
    BY <1>1, HandledError
  <2> DEFINE handled == HandleError(request)
  <2>3. request' = Unwind([handled EXCEPT !.wraps = FALSE])
    BY <2>1
  <2> HIDE DEF handled
  <2>4. /\ RequestRecord(request') /\ request'.pc = "unwind" /\ request'.ran = handled.ran
        /\ request'.flaw = handled.flaw /\ request'.policies = handled.policies
    <3>1. RequestRecord(handled)
      BY <2>2 DEF handled
    <3> QED
      BY <2>3, <3>1 DEF Unwind, RequestRecord
  <2> QED
    BY <2>2, <2>4 DEF handled
<1> QED
  BY <1>2, <1>3, <1>4, <1>5, <1>6, <1>7, <1>8, <1>9

\* Every step of the application keeps what requests have passed.
LEMMA ChecksKeep ==
    ASSUME RegistrationInv, Fresh, ChainsFramed, ChecksPassed, [ApplicationNext]_applicationVars
    PROVE  ChecksPassed'
<1>1. ASSUME UNCHANGED <<request, policy>>, UNCHANGED engine \/ ~Serving,
             construction.pc = "done" => construction'.pc = "done"
      PROVE  ChecksPassed'
  <2>1. CASE UNCHANGED engine
    BY <1>1, <2>1 DEF ChecksPassed, Chained, Serving, Admitted, HostAdmitted, TokenAdmitted
  <2>2. CASE ~Serving
    BY <1>1, <2>2 DEF ChecksPassed, Serving, Admitted, HostAdmitted, TokenAdmitted
  <2> QED
    BY <1>1, <2>1, <2>2
<1>2. CASE Settling
  BY <1>1, <1>2, SettlingChanges DEF registrationVars, requestVars
<1>3. CASE \E supplied \in Supplied : Initialize(supplied)
  <2>1. UNCHANGED request /\ ~Serving /\ construction'.pc = "done"
    BY <1>3 DEF Initialize, ChecksPassed
  <2> QED
    BY <2>1 DEF ChecksPassed, Serving, Admitted, HostAdmitted, TokenAdmitted
<1>4. CASE Register
  BY <1>1, <1>4 DEF Register, requestVars
<1>5. CASE ServeRequest
  <2>1. construction.pc = "done" /\ UNCHANGED <<engine, construction>> /\ RequestsNext
    BY <1>5 DEF ServeRequest, registrationVars
  <2>2. CASE RequestStep
    <3>1. CASE \E route \in Route \cup {NotFound}, flaw \in Flaw : ServeHTTP(route, flaw)
      BY <2>1, <3>1, ServeKeeps
    <3>2. CASE SetAllowedHosts \/ EnableCSRF \/ EnableCORS \/ EnableOpenAPI
      <4>1. PICK setting \in {"hosts", "csrf", "cors", "openapi"}, value \in BOOLEAN : Switch(setting, value)
        BY <3>2 DEF SetAllowedHosts, EnableCSRF, EnableCORS, EnableOpenAPI
      <4> QED
        BY <2>1, <4>1, SwitchKeeps
    <3>3. CASE \E outcome \in Outcomes : BindRequest(outcome)
      BY <2>1, <3>3, BindRequestKeeps
    <3>4. CASE \E writes \in {<<>>, <<"raw">>, <<"direct">>, <<"status">>},
                  returns \in {"value", "error", "panic"} : CallMethod(writes, returns)
      BY <2>1, <3>4, CallMethodKeeps
    <3> QED
      BY <2>1, <2>2, <3>1, <3>2, <3>3, <3>4, ChainKeeps, AnswerKeeps DEF RequestStep
  <2>3. CASE VisitStep /\ request.pc = "static" /\ UNCHANGED <<policy, policyChanges, request>>
    BY <1>1, <2>1, <2>3
  <2> QED
    BY <2>1, <2>2, <2>3 DEF RequestsNext
<1>6. CASE UNCHANGED applicationVars
  BY <1>1, <1>6 DEF applicationVars, registrationVars, requestVars
<1> QED
  BY <1>2, <1>3, <1>4, <1>5, <1>6 DEF ApplicationNext, Settling

\* The invariant of the request under way.
THEOREM ChecksHold == Spec => []ChecksPassed
<1>1. ApplicationInit => ChainsFramed /\ ChecksPassed
  BY FramedFramework
     DEF ApplicationInit, RegistrationInit, RequestsInit, NoRequest, ChainsFramed, ChecksPassed,
         RequestRecord, Serving
<1>2. /\ ChainsFramed /\ ChecksPassed /\ RegistrationInv /\ Fresh /\ [ApplicationNext]_applicationVars
      => (ChainsFramed /\ ChecksPassed)'
  BY FrameKeeps, ChecksKeep
<1> QED
  BY <1>1, <1>2, RegistrationInvariant, PTL DEF Spec

\* hostValidationMiddleware, bodyLimitMiddleware and csrfMiddleware: no route, no
\* middleware and no change of the settings leads a request around them to a
\* controller.
THEOREM RequestAdmitted == Spec => []AdmittedByPolicy
<1>1. ChecksPassed => AdmittedByPolicy
  BY DEF ChecksPassed, Admitted, HostAdmitted, TokenAdmitted, AdmittedByPolicy
<1> QED
  BY <1>1, ChecksHold, PTL

-----------------------------------------------------------------------------
(* The answer to a request                                                   *)

\* One more write after those that allow it.
LEMMA OneMore ==
    ASSUME NEW writes \in Seq(Write), Single(writes), NEW w \in Write,
           w = "error" => \A i \in DOMAIN writes : writes[i] = "status",
           w = "success" => Unanswered(writes)
    PROVE  /\ Append(writes, w) \in Seq(Write) /\ Append(writes, w) # <<>>
           /\ Single(Append(writes, w))
           /\ Unanswered(writes) /\ w \in {"raw", "status"} => Unanswered(Append(writes, w))
<1>1. /\ Append(writes, w) \in Seq(Write) /\ Append(writes, w) # <<>>
      /\ DOMAIN Append(writes, w) = 1 .. Len(writes) + 1
      /\ DOMAIN writes = 1 .. Len(writes) /\ Len(writes) \in Nat
      /\ Append(writes, w)[Len(writes) + 1] = w
  OBVIOUS
<1>2. ASSUME NEW i \in 1 .. Len(writes)
      PROVE  Append(writes, w)[i] = writes[i]
  OBVIOUS
<1>3. ASSUME NEW i \in 1 .. Len(writes) + 1
      PROVE  i \in 1 .. Len(writes) \/ i = Len(writes) + 1
  BY <1>1
<1>4. Unanswered(writes) /\ w \in {"raw", "status"} => Unanswered(Append(writes, w))
  BY <1>1, <1>2, <1>3 DEF Unanswered
<1>5. Single(Append(writes, w))
  <2> SUFFICES ASSUME NEW i \in 1 .. Len(writes) + 1, NEW j \in 1 .. i - 1
               PROVE  /\ Append(writes, w)[i] = "error" => Append(writes, w)[j] = "status"
                      /\ Append(writes, w)[i] = "success" =>
                           Append(writes, w)[j] \notin {"direct", "error", "success"}
    BY <1>1 DEF Single
  <2>1. j \in 1 .. Len(writes) /\ Append(writes, w)[j] = writes[j]
    BY <1>1, <1>2
  <2>2. CASE i = Len(writes) + 1
    BY <1>1, <2>1, <2>2 DEF Unanswered
  <2>3. CASE i \in 1 .. Len(writes)
    BY <1>1, <1>2, <2>1, <2>3 DEF Single
  <2> QED
    BY <1>3, <2>2, <2>3
<1> QED
  BY <1>1, <1>4, <1>5

\* handleError leaves an answer, its own or an earlier one.
LEMMA HandledAnswer ==
    ASSUME NEW r, Answers(r)
    PROVE  Answers(HandleError(r)) /\ HandleError(r).writes # <<>>
<1>1. CASE Written(r)
  <2>1. r.writes # <<>>
    BY <1>1 DEF Written
  <2> QED
    BY <1>1, <2>1 DEF HandleError
<1>2. CASE ~Written(r)
  <2>1. \A i \in DOMAIN r.writes : r.writes[i] = "status"
    BY <1>2 DEF Written
  <2>2. /\ Append(r.writes, "error") \in Seq(Write) /\ Append(r.writes, "error") # <<>>
        /\ Single(Append(r.writes, "error"))
    <3>1. "error" \in Write
      BY DEF Write
    <3> QED
      BY <2>1, <3>1, OneMore DEF Answers
  <2>3. /\ HandleError(r).writes = Append(r.writes, "error") /\ HandleError(r).wrote = TRUE
        /\ RequestRecord(HandleError(r))
    BY <1>2 DEF HandleError, Answers, RequestRecord
  <2> QED
    BY <2>2, <2>3 DEF Answers
<1> QED
  BY <1>1, <1>2

\* On the way back after handleError.
LEMMA UnwoundAnswer ==
    ASSUME NEW r, Answers(r), request' = Unwind(HandleError(r))
    PROVE  AnsweredOnce'
<1>1. Answers(HandleError(r)) /\ HandleError(r).writes # <<>>
  BY HandledAnswer
<1>2. /\ RequestRecord(request') /\ request'.writes = HandleError(r).writes
      /\ request'.wrote = HandleError(r).wrote
  <2> DEFINE handled == HandleError(r)
  <2>1. RequestRecord(handled)
    BY <1>1 DEF Answers
  <2>2. request' = Unwind(handled)
    OBVIOUS
  <2> HIDE DEF handled
  <2>3. /\ RequestRecord(request') /\ request'.writes = handled.writes
        /\ request'.wrote = handled.wrote
    BY <2>1, <2>2 DEF Unwind, RequestRecord
  <2> QED
    BY <2>3 DEF handled
<1> QED
  BY <1>1, <1>2 DEF AnsweredOnce, Answers

\* A step that writes nothing.
LEMMA SameAnswer ==
    ASSUME AnsweredOnce, RequestRecord(request'), UNCHANGED <<request.wrote, request.writes>>,
           request'.pc \in {"unwind", "done"} /\ request'.ran => request.writes # <<>>
    PROVE  AnsweredOnce'
BY DEF AnsweredOnce, Answers

\* Gin's writer, used by a middleware or a handler, or a status alone.
LEMMA AddedAnswer ==
    ASSUME AnsweredOnce, RequestRecord(request'), NEW w \in {"raw", "status"},
           request'.wrote = request.wrote, request'.writes = Append(request.writes, w)
    PROVE  AnsweredOnce'
<1>1. w \in Write /\ w # "error" /\ w # "success"
  BY DEF Write
<1>2. /\ Append(request.writes, w) \in Seq(Write) /\ Append(request.writes, w) # <<>>
      /\ Single(Append(request.writes, w))
      /\ Unanswered(request.writes) => Unanswered(Append(request.writes, w))
  BY <1>1, OneMore DEF AnsweredOnce, Answers
<1> QED
  BY <1>2 DEF AnsweredOnce, Answers

\* The chain: a refusal answers, a middleware of the application may.
LEMMA ChainAnswers ==
    ASSUME AnsweredOnce, ChecksPassed,
           \/ Recovery \/ HostValidation \/ BodyLimit \/ Csrf
           \/ \E refuses \in BOOLEAN : Cors(refuses)
           \/ \E does \in {"passes", "writes", "wraps", "aborts", "answers", "panics"} : UserMiddleware(does)
    PROVE  AnsweredOnce'
<1>1. request.pc = "chain" /\ RequestRecord(request) /\ ~request.ran
  BY DEF Recovery, HostValidation, BodyLimit, Csrf, Cors, UserMiddleware, At, ChecksPassed
<1>2. ASSUME request' = Refuse(request)
      PROVE  AnsweredOnce'
  BY <1>2, UnwoundAnswer DEF Refuse, AnsweredOnce
<1>3. ASSUME NEW pc \in {"chain", "panic", "unwind"}, NEW next, NEW wraps,
             request' = [request EXCEPT !.pc = pc, !.next = next, !.wraps = wraps]
      PROVE  AnsweredOnce'
  <2>1. /\ RequestRecord(request') /\ UNCHANGED <<request.wrote, request.writes>>
        /\ request'.ran = request.ran
    BY <1>1, <1>3 DEF RequestRecord
  <2> QED
    BY <1>1, <2>1, SameAnswer
<1>4. ASSUME NEW w \in {"raw", "status"}, NEW pc, NEW next,
             request' = [request EXCEPT !.pc = pc, !.next = next, !.writes = Append(request.writes, w)]
      PROVE  AnsweredOnce'
  <2> DEFINE writes == Append(request.writes, w)
  <2>1. request' = [request EXCEPT !.pc = pc, !.next = next, !.writes = writes]
    BY <1>4
  <2> HIDE DEF writes
  <2>2. RequestRecord(request') /\ request'.wrote = request.wrote /\ request'.writes = writes
    BY <1>1, <2>1 DEF RequestRecord
  <2> QED
    BY <2>2, AddedAnswer DEF writes
<1>5. ASSUME request' = Advance(request)
      PROVE  AnsweredOnce'
  <2>1. request' = [request EXCEPT !.pc = "chain", !.next = request.next + 1, !.wraps = request.wraps]
    BY <1>1, <1>5 DEF Advance, RequestRecord
  <2> QED
    BY <1>3, <2>1
<1>6. CASE Recovery \/ HostValidation \/ BodyLimit \/ Csrf
  BY <1>2, <1>5, <1>6 DEF Recovery, HostValidation, BodyLimit, Csrf
<1>7. CASE \E refuses \in BOOLEAN : Cors(refuses)
  <2>1. CASE request' = Unwind([request EXCEPT !.writes = Append(@, "status")])
    <3> DEFINE writes == Append(request.writes, "status")
    <3>1. request' = Unwind([request EXCEPT !.writes = writes])
      BY <2>1
    <3> HIDE DEF writes
    <3>2. RequestRecord(request') /\ request'.wrote = request.wrote /\ request'.writes = writes
      BY <1>1, <3>1 DEF Unwind, RequestRecord
    <3> QED
      BY <3>2, AddedAnswer DEF writes
  <2> QED
    BY <1>5, <1>7, <2>1 DEF Cors
<1>8. ASSUME NEW does \in {"passes", "writes", "wraps", "aborts", "answers", "panics"},
             UserMiddleware(does)
      PROVE  AnsweredOnce'
  <2>1. CASE does = "passes"
    BY <1>5, <1>8, <2>1 DEF UserMiddleware
  <2>2. CASE does = "writes"
    <3> DEFINE writes == Append(request.writes, "raw")
    <3>1. request' = Advance([request EXCEPT !.writes = writes])
      BY <1>8, <2>2 DEF UserMiddleware
    <3> HIDE DEF writes
    <3>2. RequestRecord(request') /\ request'.wrote = request.wrote /\ request'.writes = writes
      BY <1>1, <3>1 DEF Advance, RequestRecord
    <3> QED
      BY <3>2, AddedAnswer DEF writes
  <2>3. CASE does = "wraps"
    <3>1. request' = Advance([request EXCEPT !.wraps = TRUE])
      BY <1>8, <2>3 DEF UserMiddleware
    <3>2. /\ RequestRecord(request') /\ UNCHANGED <<request.wrote, request.writes>>
          /\ request'.ran = request.ran
      BY <1>1, <3>1 DEF Advance, RequestRecord
    <3> QED
      BY <1>1, <3>2, SameAnswer
  <2>4. CASE does \in {"aborts", "panics"}
    <3>1. request' = Unwind(request) \/ request' = [request EXCEPT !.pc = "panic"]
      BY <1>8, <2>4 DEF UserMiddleware
    <3>2. /\ RequestRecord(request') /\ UNCHANGED <<request.wrote, request.writes>>
          /\ request'.ran = request.ran
      BY <1>1, <3>1 DEF Unwind, RequestRecord
    <3> QED
      BY <1>1, <3>2, SameAnswer
  <2>5. CASE does = "answers"
    <3> DEFINE writes == Append(request.writes, "raw")
    <3>1. request' = Unwind([request EXCEPT !.writes = writes])
      BY <1>8, <2>5 DEF UserMiddleware
    <3> HIDE DEF writes
    <3>2. RequestRecord(request') /\ request'.wrote = request.wrote /\ request'.writes = writes
      BY <1>1, <3>1 DEF Unwind, RequestRecord
    <3> QED
      BY <3>2, AddedAnswer DEF writes
  <2> QED
    BY <1>8, <2>1, <2>2, <2>3, <2>4, <2>5
<1> QED
  BY <1>6, <1>7, <1>8

\* The controller: binding fails with an answer, the method may write.
LEMMA ControllerAnswers ==
    ASSUME AnsweredOnce,
           \/ \E outcome \in Outcomes : BindRequest(outcome)
           \/ \E writes \in {<<>>, <<"raw">>, <<"direct">>, <<"status">>},
                 returns \in {"value", "error", "panic"} : CallMethod(writes, returns)
           \/ \E encoder \in {"writes", "fails"} : Encode(encoder)
    PROVE  AnsweredOnce'
<1>1. RequestRecord(request) /\ Answers(request)
  BY DEF AnsweredOnce, Answers
<1>2. CASE request' = Unwind(HandleError(request))
  BY <1>1, <1>2, UnwoundAnswer
<1>3. ASSUME NEW outcome \in Outcomes, BindRequest(outcome)
      PROVE  AnsweredOnce'
  <2>1. CASE request' = [request EXCEPT !.pc = "call"]
    <3>1. /\ RequestRecord(request') /\ UNCHANGED <<request.wrote, request.writes>>
          /\ request'.pc = "call"
      BY <1>1, <2>1 DEF RequestRecord
    <3> QED
      BY <3>1, SameAnswer
  <2> QED
    BY <1>2, <1>3, <2>1 DEF BindRequest
<1>4. ASSUME NEW writes \in {<<>>, <<"raw">>, <<"direct">>, <<"status">>},
             NEW returns \in {"value", "error", "panic"}, CallMethod(writes, returns)
      PROVE  AnsweredOnce'
  <2> DEFINE all    == request.writes \o writes
             wrote  == request.wrote \/ writes \in {<<"direct">>, <<"status">>}
             called == [request EXCEPT !.ran = TRUE, !.writes = all, !.wrote = wrote]
  <2>1. \/ request' = [called EXCEPT !.pc = "panic"]
        \/ request' = Unwind(HandleError(called))
        \/ request' = [called EXCEPT !.pc = "encode"]
    BY <1>4 DEF CallMethod
  <2>2. /\ all \in Seq(Write) /\ Single(all)
        /\ IF wrote THEN all # <<>> ELSE Unanswered(all)
    <3>1. request.writes \in Seq(Write) /\ Single(request.writes)
      BY <1>1 DEF Answers
    <3>2. CASE writes = <<>>
      <4>1. all = request.writes
        BY <3>1, <3>2
      <4> QED
        BY <1>1, <3>2, <4>1 DEF Answers
    <3>3. ASSUME NEW w \in {"raw", "direct", "status"}, writes = <<w>>
          PROVE  /\ all \in Seq(Write) /\ Single(all)
                 /\ IF wrote THEN all # <<>> ELSE Unanswered(all)
      <4>1. w \in Write /\ w # "error" /\ w # "success"
        BY DEF Write
      <4>2. all = Append(request.writes, w)
        BY <3>1, <3>3, <4>1
      <4>3. /\ all \in Seq(Write) /\ all # <<>> /\ Single(all)
            /\ Unanswered(request.writes) /\ w \in {"raw", "status"} => Unanswered(all)
        BY <3>1, <4>1, <4>2, OneMore
      <4>4. ~wrote => ~request.wrote /\ w = "raw"
        BY <3>3
      <4>5. ~wrote => Unanswered(all)
        BY <1>1, <4>3, <4>4 DEF Answers
      <4> QED
        BY <4>3, <4>5
    <3> QED
      BY <3>2, <3>3
  <2>3. wrote \in BOOLEAN
    BY <1>1 DEF Answers
  <2>4. RequestRecord(called) /\ called.writes = all /\ called.wrote = wrote
    <3>1. called = [request EXCEPT !.ran = TRUE, !.writes = all, !.wrote = wrote]
      OBVIOUS
    <3> HIDE DEF all, wrote, called
    <3> QED
      BY <1>1, <3>1 DEF RequestRecord
  <2> HIDE DEF all, wrote, called
  <2>5. Answers(called)
    BY <2>2, <2>3, <2>4 DEF Answers
  <2>6. CASE request' = Unwind(HandleError(called))
    BY <2>5, <2>6, UnwoundAnswer
  <2>7. ASSUME NEW pc \in {"panic", "encode"}, request' = [called EXCEPT !.pc = pc]
        PROVE  AnsweredOnce'
    <3>1. /\ RequestRecord(request') /\ request'.pc = pc
          /\ request'.writes = called.writes /\ request'.wrote = called.wrote
      BY <2>4, <2>7 DEF RequestRecord
    <3> QED
      BY <2>5, <3>1 DEF AnsweredOnce, Answers
  <2> QED
    BY <2>1, <2>6, <2>7
<1>5. ASSUME NEW encoder \in {"writes", "fails"}, Encode(encoder)
      PROVE  AnsweredOnce'
  <2>1. \/ request.wrote /\ request' = Unwind(request)
        \/ request' = Unwind(HandleError(request))
        \/ /\ ~request.wrote
           /\ request' = Unwind([request EXCEPT !.writes = Append(@, "success"), !.wrote = TRUE])
    BY <1>5 DEF Encode, EncodeResponse
  <2>2. CASE request.wrote /\ request' = Unwind(request)
    <3>1. RequestRecord(request') /\ UNCHANGED <<request.wrote, request.writes>>
      BY <1>1, <2>2 DEF Unwind, RequestRecord
    <3>2. request.writes # <<>>
      BY <1>1, <2>2 DEF Answers
    <3> QED
      BY <3>1, <3>2, SameAnswer
  <2>3. CASE /\ ~request.wrote
             /\ request' = Unwind([request EXCEPT !.writes = Append(@, "success"), !.wrote = TRUE])
    <3> DEFINE all == Append(request.writes, "success")
    <3>1. request' = Unwind([request EXCEPT !.writes = all, !.wrote = TRUE])
      BY <2>3
    <3>2. all \in Seq(Write) /\ all # <<>> /\ Single(all)
      <4>1. "success" \in Write
        BY DEF Write
      <4> QED
        BY <1>1, <2>3, <4>1, OneMore DEF Answers
    <3> HIDE DEF all
    <3>3. RequestRecord(request') /\ request'.writes = all /\ request'.wrote = TRUE
      BY <1>1, <3>1 DEF Unwind, RequestRecord
    <3> QED
      BY <3>2, <3>3 DEF AnsweredOnce, Answers
  <2> QED
    BY <1>2, <2>1, <2>2, <2>3
<1> QED
  BY <1>3, <1>4, <1>5

\* What comes after the method, and what serves no controller.
LEMMA OtherAnswers ==
    ASSUME AnsweredOnce, ChecksPassed,
           \/ ServeDocument \/ ServeNotFound
           \/ \E mount \in MountPoint, get \in BOOLEAN, path \in RequestPath : EnterStatic(mount, get, path)
           \/ LeaveStatic
           \/ \E writes \in BOOLEAN : Resume(writes)
           \/ Recover
    PROVE  AnsweredOnce'
<1>1. RequestRecord(request) /\ Answers(request)
  BY DEF AnsweredOnce, Answers
<1>2. request.pc = "chain" => ~request.ran
  BY DEF ChecksPassed
<1>3. ASSUME NEW w \in {"raw", "status"}, NEW writes, writes = Append(request.writes, w),
             request' = Unwind([request EXCEPT !.writes = writes])
      PROVE  AnsweredOnce'
  <2>1. RequestRecord(request') /\ request'.wrote = request.wrote /\ request'.writes = writes
    BY <1>1, <1>3 DEF Unwind, RequestRecord
  <2> QED
    BY <1>3, <2>1, AddedAnswer
<1>4. CASE ServeDocument
  <2>1. PICK w \in {"raw", "status"} : request' = Unwind([request EXCEPT !.writes = Append(@, w)])
    BY <1>4 DEF ServeDocument
  <2> QED
    BY <1>3, <2>1
<1>5. CASE ServeNotFound
  <2>1. \/ request' = Unwind([request EXCEPT !.writes = request.writes])
        \/ request' = Unwind([request EXCEPT !.writes = Append(@, "raw")])
    BY <1>5 DEF ServeNotFound
  <2>2. CASE request' = Unwind([request EXCEPT !.writes = request.writes])
    <3>1. /\ RequestRecord(request') /\ UNCHANGED <<request.wrote, request.writes>>
          /\ request'.ran = request.ran
      BY <1>1, <2>2 DEF Unwind, RequestRecord
    <3>2. ~request.ran
      BY <1>2, <1>5 DEF ServeNotFound, AtHandler
    <3> QED
      BY <3>1, <3>2, SameAnswer
  <2> QED
    BY <1>3, <2>1, <2>2
<1>6. ASSUME NEW mount \in MountPoint, NEW get \in BOOLEAN, NEW path \in RequestPath,
             EnterStatic(mount, get, path)
      PROVE  AnsweredOnce'
  <2>1. request' = [request EXCEPT !.pc = "static", !.flaw = "none", !.policies = {}]
    BY <1>6 DEF EnterStatic
  <2>2. RequestRecord(request') /\ request'.pc = "static" /\ UNCHANGED <<request.wrote, request.writes>>
    BY <1>1, <2>1 DEF RequestRecord
  <2> QED
    BY <2>2, SameAnswer
<1>7. CASE LeaveStatic
  <2>1. PICK w \in {"raw", "status"} : request' = Unwind([request EXCEPT !.writes = Append(@, w)])
    BY <1>7 DEF LeaveStatic
  <2> QED
    BY <1>3, <2>1
<1>8. ASSUME NEW writes \in BOOLEAN, Resume(writes)
      PROVE  AnsweredOnce'
  <2>1. request.pc = "unwind"
    BY <1>8 DEF Resume
  <2>2. CASE writes
    <3> DEFINE all == Append(request.writes, "raw")
    <3>1. request' = [request EXCEPT !.pc = "done", !.writes = all]
      BY <1>8, <2>2 DEF Resume
    <3> HIDE DEF all
    <3>2. RequestRecord(request') /\ request'.wrote = request.wrote /\ request'.writes = all
      BY <1>1, <3>1 DEF RequestRecord
    <3> QED
      BY <3>2, AddedAnswer DEF all
  <2>3. CASE ~writes
    <3>1. request' = [request EXCEPT !.pc = "done", !.writes = request.writes]
      BY <1>8, <2>3 DEF Resume
    <3>2. /\ RequestRecord(request') /\ UNCHANGED <<request.wrote, request.writes>>
          /\ request'.ran = request.ran
      BY <1>1, <3>1 DEF RequestRecord
    <3>3. request.ran => request.writes # <<>>
      BY <2>1 DEF AnsweredOnce
    <3> QED
      BY <3>2, <3>3, SameAnswer
  <2> QED
    BY <1>8, <2>2, <2>3
<1>9. CASE Recover
  <2> DEFINE handled == HandleError(request)
  <2>1. request' = Unwind([handled EXCEPT !.wraps = FALSE])
    BY <1>9 DEF Recover
  <2>2. Answers(handled) /\ handled.writes # <<>>
    BY <1>1, HandledAnswer
  <2> HIDE DEF handled
  <2>3. RequestRecord(handled)
    BY <2>2 DEF Answers
  <2>4. /\ RequestRecord(request') /\ request'.writes = handled.writes
        /\ request'.wrote = handled.wrote
    BY <2>1, <2>3 DEF Unwind, RequestRecord
  <2> QED
    BY <2>2, <2>4 DEF AnsweredOnce, Answers
<1> QED
  BY <1>4, <1>5, <1>6, <1>7, <1>8, <1>9

\* A new request has no answer, unless the server answers every request with 500.
LEMMA ServeAnswers ==
    ASSUME NEW route \in Route \cup {NotFound}, NEW flaw \in Flaw, ServeHTTP(route, flaw)
    PROVE  AnsweredOnce'
<1>1. /\ RequestRecord(request') /\ ~request'.ran /\ request'.wrote = FALSE
      /\ request'.writes \in {<<>>, <<"raw">>}
  BY DEF ServeHTTP, NoRequest, RequestRecord
<1>2. <<>> \in Seq(Write) /\ Single(<<>>) /\ Unanswered(<<>>)
  BY DEF Single, Unanswered
<1>3. <<"raw">> = Append(<<>>, "raw")
  OBVIOUS
<1>4. <<"raw">> \in Seq(Write) /\ Single(<<"raw">>) /\ Unanswered(<<"raw">>)
  <2>1. "raw" \in Write
    BY DEF Write
  <2> QED
    BY <1>2, <1>3, <2>1, OneMore
<1> QED
  BY <1>1, <1>2, <1>4 DEF AnsweredOnce, Answers

\* Every step of the application keeps the answer of the request.
LEMMA AnswersKeep ==
    ASSUME AnsweredOnce, ChecksPassed, [ApplicationNext]_applicationVars
    PROVE  AnsweredOnce'
<1>1. ASSUME UNCHANGED request
      PROVE  AnsweredOnce'
  BY <1>1 DEF AnsweredOnce, Answers
<1>2. CASE ServeRequest
  <2>1. CASE RequestStep
    <3>1. CASE \E route \in Route \cup {NotFound}, flaw \in Flaw : ServeHTTP(route, flaw)
      BY <3>1, ServeAnswers
    <3>2. CASE SetAllowedHosts \/ EnableCSRF \/ EnableCORS \/ EnableOpenAPI
      <4>1. PICK setting \in {"hosts", "csrf", "cors", "openapi"}, value \in BOOLEAN : Switch(setting, value)
        BY <3>2 DEF SetAllowedHosts, EnableCSRF, EnableCORS, EnableOpenAPI
      <4>2. /\ request.pc = "chain" /\ RequestRecord(request)
            /\ request' = [request EXCEPT !.policies = @ \cup {policy'}]
        BY <4>1 DEF Switch, ChecksPassed
      <4>3. /\ RequestRecord(request') /\ UNCHANGED <<request.wrote, request.writes>>
            /\ request'.pc = "chain"
        BY <4>2 DEF RequestRecord
      <4> QED
        BY <4>3, SameAnswer
    <3> QED
      BY <2>1, <3>1, <3>2, ChainAnswers, ControllerAnswers, OtherAnswers DEF RequestStep
  <2> QED
    BY <1>1, <1>2, <2>1 DEF ServeRequest, RequestsNext
<1> QED
  BY <1>1, <1>2, SettlingChanges
     DEF ApplicationNext, Settling, Initialize, InstallFramework, Register, requestVars, applicationVars

\* defaultErrorHandler, DefaultResponseEncoder and recoveryMiddleware: whatever
\* handlers and middleware write, return or panic with, the framework adds at
\* most one envelope, and never an error to something written.
THEOREM OneAnswer == Spec => []OneEnvelope
<1>1. ApplicationInit => AnsweredOnce
  <2>1. <<>> \in Seq(Write)
    OBVIOUS
  <2> QED
    BY <2>1 DEF ApplicationInit, RequestsInit, NoRequest, AnsweredOnce, Answers, RequestRecord,
                Single, Unanswered
<1>2. AnsweredOnce /\ ChecksPassed /\ [ApplicationNext]_applicationVars => AnsweredOnce'
  BY AnswersKeep
<1>3. AnsweredOnce => OneEnvelope
  <2> SUFFICES ASSUME AnsweredOnce
               PROVE  OneEnvelope
    OBVIOUS
  <2>1. /\ request.writes \in Seq(Write) /\ Single(request.writes)
        /\ DOMAIN request.writes = 1 .. Len(request.writes) /\ Len(request.writes) \in Nat
    BY DEF AnsweredOnce, Answers
  <2>2. ASSUME NEW i \in Envelopes(request), NEW j \in Envelopes(request), i < j
        PROVE  FALSE
    <3>1. /\ i \in DOMAIN request.writes /\ j \in DOMAIN request.writes /\ i \in 1 .. j - 1
          /\ request.writes[i] \in {"success", "error"} /\ request.writes[j] \in {"success", "error"}
      BY <2>1, <2>2 DEF Envelopes
    <3> QED
      BY <2>1, <3>1 DEF Single
  <2>3. ASSUME NEW i \in Envelopes(request), NEW j \in Envelopes(request)
        PROVE  i = j
    <3>1. i \in Nat /\ j \in Nat
      BY <2>1 DEF Envelopes
    <3> QED
      BY <2>2, <3>1
  <2>4. Cardinality(Envelopes(request)) <= 1
    <3>1. CASE Envelopes(request) = {}
      BY <3>1, FS_EmptySet
    <3>2. CASE \E i : i \in Envelopes(request)
      <4>1. PICK i : Envelopes(request) = {i}
        BY <2>3, <3>2
      <4> QED
        BY <4>1, FS_Singleton
    <3> QED
      BY <3>1, <3>2
  <2> QED
    BY <2>1, <2>4 DEF OneEnvelope, AnsweredOnce, Single
<1>4. Spec => []ChecksPassed
  BY ChecksHold
<1> QED
  BY <1>1, <1>2, <1>3, <1>4, PTL DEF Spec

-----------------------------------------------------------------------------
(* Static files                                                             *)

\* A request that is let in starts with nothing opened.
LEMMA EnteredClosed ==
    ASSUME NEW mount, NEW get, NEW path, visit' = Entered(mount, get, path)
    PROVE  VisitInv'
BY DEF Entered, Outside, VisitInv, M

LEMMA OutsideClosed == visit' = Outside => VisitInv'
BY DEF Outside, VisitInv, M

\* An answer closes the root, where no file is open, and is no success.
LEMMA AnsweredCloses ==
    ASSUME VisitInv, visit.pc \in {"open", "verify", "links", "fallback"}, Answered("404")
    PROVE  VisitInv'
BY DEF Answered, VisitInv, M

LEMMA NotServedCloses ==
    ASSUME VisitInv, visit.pc \in {"file", "candidate"}, NotServed
    PROVE  VisitInv'
BY DEF NotServed, VisitInv, M

\* Every step of a visit keeps to the directory that VerifyRoot has accepted.
LEMMA VisitKeeps == VisitInv /\ VisitStep => VisitInv'
<1> SUFFICES ASSUME VisitInv, VisitStep
             PROVE  VisitInv'
  OBVIOUS
<1>1. ASSUME NEW sees \in {"mounted", "other", "gone"}, OpenRoot(sees)
      PROVE  VisitInv'
  <2>1. CASE sees = "gone"
    BY <1>1, <2>1, AnsweredCloses DEF OpenRoot
  <2>2. CASE sees # "gone"
    <3>1. /\ visit.pc = "open" /\ visit.answer = "none"
          /\ visit' = [visit EXCEPT !.pc = "verify", !.root = sees, !.handles = {"root"}]
      BY <1>1, <2>2 DEF OpenRoot, VisitInv
    <3>2. visit' = [pc |-> "verify", mount |-> visit.mount, path |-> visit.path,
                    handles |-> {"root"}, root |-> sees, serving |-> visit.serving,
                    answer |-> "none"]
      BY <3>1 DEF VisitInv
    <3> QED
      BY <3>2 DEF VisitInv
  <2> QED
    BY <2>1, <2>2
<1>2. CASE VerifyRoot
  BY <1>2, AnsweredCloses DEF VerifyRoot, Verified, VisitInv, M
<1>3. ASSUME NEW sees \in Seen, CheckLinks(sees)
      PROVE  VisitInv'
  BY <1>3, AnsweredCloses DEF CheckLinks, VisitInv, M
<1>4. ASSUME NEW sees \in Seen, OpenFile(sees)
      PROVE  VisitInv'
  <2> DEFINE again == sees = "directory" /\ M.kind # "file" /\ visit.serving \in {"request", "fallback"}
  <2>1. CASE again
    <3>1. visit.pc = "file" /\ sees # "file"
      BY <1>4, <2>1 DEF OpenFile
    <3>2. visit' = [visit EXCEPT !.pc = "links",
                                 !.serving = IF @ = "request" THEN "index" ELSE "fallbackIndex"]
      BY <1>4, <2>1, <3>1 DEF OpenFile
    <3> QED
      BY <3>1, <3>2 DEF VisitInv, M
  <2>2. CASE sees = "file"
    <3>1. visit.pc = "file" /\ ~again
      BY <1>4, <2>2 DEF OpenFile
    <3>2. visit' = [visit EXCEPT !.pc = "candidate",
                                 !.handles = IF M.kind = "fs" THEN @ ELSE @ \cup {"file"}]
      BY <1>4, <2>2, <3>1 DEF OpenFile
    <3> QED
      BY <3>1, <3>2 DEF VisitInv, M
  <2>3. CASE ~again /\ sees # "file"
    <3>1. visit.pc = "file" /\ NotServed
      BY <1>4, <2>3 DEF OpenFile
    <3> QED
      BY <3>1, NotServedCloses
  <2> QED
    BY <2>1, <2>2, <2>3
<1>5. CASE CheckCandidate
  BY <1>5, NotServedCloses DEF CheckCandidate, VisitInv, M
<1>6. ASSUME NEW sees \in Seen, Fallback(sees)
      PROVE  VisitInv'
  BY <1>6, AnsweredCloses DEF Fallback, VisitInv, M
<1>7. ASSUME NEW sees \in Seen, Serve(sees)
      PROVE  VisitInv'
  BY <1>7 DEF Serve, VisitInv, M
<1> QED
  BY <1>1, <1>2, <1>3, <1>4, <1>5, <1>6, <1>7 DEF VisitStep

\* The requests around it leave a visit alone.
LEMMA VisitSteps == VisitInv /\ [ApplicationNext]_applicationVars => VisitInv'
<1> SUFFICES ASSUME VisitInv, [ApplicationNext]_applicationVars
             PROVE  VisitInv'
  OBVIOUS
<1>1. CASE UNCHANGED visit
  BY <1>1 DEF VisitInv, M
<1>2. CASE RequestStep
  <2>1. ASSUME NEW mount \in MountPoint, NEW get \in BOOLEAN, NEW path \in RequestPath,
               EnterStatic(mount, get, path)
        PROVE  VisitInv'
    BY <2>1, EnteredClosed DEF EnterStatic
  <2>2. CASE LeaveStatic
    BY <2>2, OutsideClosed DEF LeaveStatic
  <2>3. CASE \E route \in Route \cup {NotFound}, flaw \in Flaw : ServeHTTP(route, flaw)
    BY <1>1, <2>3 DEF ServeHTTP
  <2>4. CASE SetAllowedHosts \/ EnableCSRF \/ EnableCORS \/ EnableOpenAPI
    BY <1>1, <2>4 DEF SetAllowedHosts, EnableCSRF, EnableCORS, EnableOpenAPI, Switch
  <2>5. CASE \/ Recovery \/ HostValidation \/ BodyLimit \/ Csrf
             \/ \E refuses \in BOOLEAN : Cors(refuses)
             \/ \E does \in {"passes", "writes", "wraps", "aborts", "answers", "panics"} :
                  UserMiddleware(does)
    BY <1>1, <2>5 DEF Recovery, HostValidation, BodyLimit, Csrf, Cors, UserMiddleware, Keep
  <2>6. CASE \/ \E outcome \in Outcomes : BindRequest(outcome)
             \/ \E writes \in {<<>>, <<"raw">>, <<"direct">>, <<"status">>},
                   returns \in {"value", "error", "panic"} : CallMethod(writes, returns)
             \/ \E encoder \in {"writes", "fails"} : Encode(encoder)
             \/ ServeDocument \/ ServeNotFound
             \/ \E writes \in BOOLEAN : Resume(writes)
             \/ Recover
    <3>1. UNCHANGED visit
      BY <2>6 DEF BindRequest, CallMethod, Encode, ServeDocument, ServeNotFound, Resume,
                  Recover, Keep
    <3> QED
      BY <1>1, <3>1
  <2> QED
    BY <1>2, <2>1, <2>2, <2>3, <2>4, <2>5, <2>6 DEF RequestStep
<1>3. CASE ServeRequest
  BY <1>2, <1>3, VisitKeeps DEF ServeRequest, RequestsNext
<1> QED
  BY <1>1, <1>3, SettlingChanges
     DEF ApplicationNext, Settling, Initialize, InstallFramework, Register, requestVars, applicationVars

\* ServedFromMount: whatever is put in the place of a mounted directory between two
\* looks at it, no file of it is served, and every handle is closed again.
THEOREM MountServed == Spec => []ServedFromMount
<1>1. ApplicationInit => VisitInv
  BY DEF ApplicationInit, RequestsInit, StaticFilesInit, Outside, VisitInv, M
<1>2. VisitInv => ServedFromMount
  BY DEF VisitInv, ServedFromMount
<1> QED
  BY <1>1, <1>2, VisitSteps, PTL DEF Spec

-----------------------------------------------------------------------------
(* The binder and the document                                              *)

\* Of the sources that find something one comes first.
LEMMA FirstExists ==
    ASSUME NEW finds \in SUBSET Source, finds # {}
    PROVE  \E source \in finds : \A other \in finds : Rank[source] <= Rank[other]
<1>1. /\ Rank["file"] = 1 /\ Rank["path"] = 2 /\ Rank["query"] = 3
      /\ Rank["header"] = 4 /\ Rank["cookie"] = 5 /\ Rank["form"] = 6
  BY DEF Rank
<1>2. finds \subseteq {"file", "path", "query", "header", "cookie", "form"}
  BY DEF Source
<1>3. \/ "file" \in finds
      \/ "file" \notin finds /\ "path" \in finds
      \/ finds \subseteq {"query", "header", "cookie", "form"} /\ "query" \in finds
      \/ finds \subseteq {"header", "cookie", "form"} /\ "header" \in finds
      \/ finds \subseteq {"cookie", "form"} /\ "cookie" \in finds
      \/ finds = {"form"}
  BY <1>2
<1> QED
  BY <1>1, <1>2, <1>3

\* It is the one bindSources takes.
LEMMA FirstSource ==
    ASSUME NEW finds \in SUBSET Source, finds # {}
    PROVE  (CHOOSE source \in finds : \A other \in finds : Rank[source] <= Rank[other]) \in finds
BY FirstExists

\* A source that is tried is one of the six.
LEMMA TriedSources ==
    ASSUME NEW field, field.sources \subseteq Source
    PROVE  Tried(field) \in SUBSET Source
BY DEF Tried, Source

\* The fields a form and a JSON body consist of.
FormFields(fields) == {f \in fields : {"form", "file"} \cap f.sources # {}}
JsonFields(fields) == {f \in fields : f.sources = {} /\ f.json}
HasFile(fields) == \E f \in FormFields(fields) : f.kind = "file"

\* What a payload that keeps to the document has in which place.
LEMMA FollowsDocument ==
    ASSUME NEW fields, NEW payload, Describable(fields), Follows(fields, payload)
    PROVE  /\ \A f \in fields, place \in {"json"} \cup Source :
                payload.at[f.name][place] # "invalid"
           /\ \A f \in fields, place \in Parameters :
                payload.at[f.name][place] # "absent" => place \in f.sources
           /\ \A f \in fields :
                payload.at[f.name]["form"] # "absent" =>
                  /\ "form" \in f.sources
                  /\ payload.type = IF HasFile(fields) THEN "multipart" ELSE "form"
           /\ \A f \in fields : \A place \in f.sources \cap Parameters :
                f.required => payload.at[f.name][place] \in Held
           /\ payload.type # "none" => payload.body = "valid"
           /\ \A f \in FormFields(fields) :
                f.required =>
                  /\ payload.type = IF HasFile(fields) THEN "multipart" ELSE "form"
                  /\ payload.at[f.name][BodyPlace(payload.type, f)] \in Held
           /\ \A f \in JsonFields(fields) :
                f.required => payload.type = "json" /\ payload.at[f.name]["json"] \in Held
<1> DEFINE document == Documented(fields)
           formType == IF HasFile(fields) THEN "multipart" ELSE "form"
           places == {"json"} \cup Source
           body == ChosenBody(fields, payload)
           allowed == Allowed(fields, payload)
           needed == Needed(fields, payload)
           spots == {<<f.name, place>> : f \in fields, place \in places}
           bodyRequired == BodyRequired(fields)
           state(spot) == payload.at[spot[1]][spot[2]]
<1>1. /\ document.parameters = {<<f.name, p>> : f \in fields, p \in Parameters} \cap
                        UNION {{<<f.name, p>> : p \in f.sources} : f \in fields}
      /\ document.required = UNION {{<<f.name, p>> : p \in {p \in f.sources \cap Parameters :
                                                     f.required \/ p = "path"}} : f \in fields}
      /\ document.bodies = (IF JsonFields(fields) # {}
                            THEN {[type |-> "json", fields |-> JsonFields(fields)]} ELSE {}) \cup
                           (IF FormFields(fields) # {}
                            THEN {[type |-> formType, fields |-> FormFields(fields)]} ELSE {})
  BY DEF Documented, JsonFields, FormFields, HasFile
<1> HIDE DEF document, body, allowed, needed, bodyRequired
<1>a. \A spot \in spots : IF spot \in allowed THEN state(spot) # "invalid"
                          ELSE state(spot) = "absent"
  BY DEF Follows, allowed
<1>b. \A spot \in needed : state(spot) \in Held
  BY DEF Follows, needed
<1>c. payload.type # "none" => body # {} /\ payload.body = "valid"
  BY DEF Follows, body
<1>d. payload.type = "none" => ~bodyRequired
  BY DEF Follows, bodyRequired
<1> HIDE DEF spots, state
<1>3. \A b \in body :
         \/ b.type = "json" /\ b.fields = JsonFields(fields) /\ FormFields(fields) = {}
         \/ b.type = formType /\ b.fields = FormFields(fields) /\ JsonFields(fields) = {}
  <2>1. JsonFields(fields) = {} \/ FormFields(fields) = {}
    BY DEF Describable, JsonFields, FormFields
  <2> QED
    BY <1>1, <2>1 DEF body, ChosenBody, document
<1>4. \A b \in body : b.type = payload.type /\ b.type \in {"json", "multipart", "form"}
  BY <1>3 DEF body, ChosenBody, document
<1>5. \A b \in body : \A f \in b.fields : f \in fields /\ BodyPlace(b.type, f) \in {"json", "form", "file"}
  BY <1>3 DEF BodyPlace, JsonFields, FormFields
<1>6. ASSUME NEW f \in fields, NEW place \in places
      PROVE  /\ payload.at[f.name][place] # "invalid"
             /\ payload.at[f.name][place] # "absent" => <<f.name, place>> \in allowed
  <2>1. <<f.name, place>> \in spots /\ state(<<f.name, place>>) = payload.at[f.name][place]
    BY DEF spots, state
  <2> QED
    BY <1>a, <2>1
<1>7. ASSUME NEW f \in fields, NEW place \in places, <<f.name, place>> \in allowed
      PROVE  \/ place \in Parameters /\ place \in f.sources
             \/ \E b \in body : f \in b.fields /\ place = BodyPlace(b.type, f)
  <2>1. CASE <<f.name, place>> \in document.parameters
    <3>1. place \in Parameters
      BY <1>1, <2>1
    <3>2. PICK g \in fields : <<f.name, place>> \in {<<g.name, p>> : p \in g.sources}
      BY <1>1, <2>1
    <3>3. g.name = f.name /\ place \in g.sources
      BY <3>2
    <3> QED
      BY <3>1, <3>3 DEF Describable
  <2>2. CASE <<f.name, place>> \notin document.parameters
    <3>1. PICK b \in body : <<f.name, place>> \in {<<g.name, BodyPlace(b.type, g)>> : g \in b.fields}
      BY <1>7, <2>2 DEF allowed, Allowed, document, body
    <3>2. PICK g \in b.fields : f.name = g.name /\ place = BodyPlace(b.type, g)
      BY <3>1
    <3>3. g = f
      BY <1>5, <3>2 DEF Describable
    <3> QED
      BY <3>2, <3>3
  <2> QED
    BY <2>1, <2>2
<1>8. ASSUME NEW f \in fields, NEW place \in Parameters, payload.at[f.name][place] # "absent"
      PROVE  place \in f.sources
  <2>1. place \in places /\ place \notin {"json", "form", "file"}
    BY DEF Parameters, Source
  <2>2. <<f.name, place>> \in allowed
    BY <1>6, <1>8, <2>1
  <2> QED
    BY <1>5, <1>7, <2>1, <2>2
<1>9. ASSUME NEW f \in fields, payload.at[f.name]["form"] # "absent"
      PROVE  "form" \in f.sources /\ payload.type = formType
  <2>1. "form" \in places /\ "form" \notin Parameters
    BY DEF Parameters, Source
  <2>2. PICK b \in body : f \in b.fields /\ "form" = BodyPlace(b.type, f)
    BY <1>6, <1>7, <1>9, <2>1
  <2>3. b.type # "json"
    BY <2>2 DEF BodyPlace
  <2> QED
    BY <1>3, <1>4, <2>2, <2>3 DEF BodyPlace
<1>10. ASSUME NEW f \in fields, NEW place \in f.sources \cap Parameters, f.required
       PROVE  payload.at[f.name][place] \in Held
  <2>1. <<f.name, place>> \in document.required
    BY <1>1, <1>10
  <2>2. <<f.name, place>> \in needed /\ state(<<f.name, place>>) = payload.at[f.name][place]
    BY <2>1 DEF needed, Needed, document, body, state
  <2> QED
    BY <1>a, <1>b, <1>c, <1>d, <2>2
<1>11. ASSUME NEW b \in body, NEW f \in b.fields, f.required
       PROVE  payload.at[f.name][BodyPlace(payload.type, f)] \in Held
  <2>1. <<f.name, BodyPlace(b.type, f)>> \in needed
    BY <1>11 DEF needed, Needed, document, body
  <2>2. state(<<f.name, BodyPlace(b.type, f)>>) = payload.at[f.name][BodyPlace(b.type, f)]
    BY DEF state
  <2> QED
    BY <1>b, <1>4, <2>1, <2>2
<1>12. ASSUME NEW f \in FormFields(fields), f.required
       PROVE  /\ payload.type = formType
              /\ payload.at[f.name][BodyPlace(payload.type, f)] \in Held
  <2>1. [type |-> formType, fields |-> FormFields(fields)] \in document.bodies
    BY <1>1
  <2>2. bodyRequired
    BY <1>12, <2>1 DEF bodyRequired, BodyRequired, document
  <2>3. PICK b \in body : TRUE
    BY <1>a, <1>b, <1>c, <1>d, <2>2
  <2>4. b.type = formType /\ b.fields = FormFields(fields)
    BY <1>3
  <2> QED
    BY <1>4, <1>11, <1>12, <2>4
<1>13. ASSUME NEW f \in JsonFields(fields), f.required
       PROVE  payload.type = "json" /\ payload.at[f.name]["json"] \in Held
  <2>1. [type |-> "json", fields |-> JsonFields(fields)] \in document.bodies
    BY <1>1
  <2>2. bodyRequired
    BY <1>13, <2>1 DEF bodyRequired, BodyRequired, document
  <2>3. PICK b \in body : TRUE
    BY <1>a, <1>b, <1>c, <1>d, <2>2
  <2>4. b.type = "json" /\ b.fields = JsonFields(fields)
    BY <1>3
  <2> QED
    BY <1>4, <1>11, <1>13, <2>4 DEF BodyPlace
<1> QED
  BY <1>c, <1>6, <1>8, <1>9, <1>10, <1>12, <1>13

\* What decides a field: a source that finds something, its default, the JSON body, or
\* nothing.
LEMMA DecidesOne ==
    ASSUME NEW payload, NEW field, field.sources \subseteq Source
    PROVE  \/ /\ Decides(payload, field) \in Tried(field) \cap Source
              /\ Found(payload, field, Decides(payload, field))
           \/ /\ \A s \in Tried(field) : ~Found(payload, field, s)
              /\ \/ Decides(payload, field) = "default" /\ HasDefault(field)
                 \/ /\ Decides(payload, field) = "json" /\ ~HasDefault(field)
                    /\ payload.type = "json" /\ payload.at[field.name]["json"] # "absent"
                 \/ /\ Decides(payload, field) = "zero" /\ ~HasDefault(field)
                    /\ ~(payload.type = "json" /\ payload.at[field.name]["json"] # "absent")
<1> DEFINE finds == {s \in Tried(field) : Found(payload, field, s)}
<1>1. CASE finds = {}
  <2>1. Decides(payload, field) =
          IF HasDefault(field) THEN "default"
          ELSE IF payload.type = "json" /\ payload.at[field.name]["json"] # "absent" THEN "json"
          ELSE "zero"
    BY <1>1 DEF Decides
  <2> QED
    BY <1>1, <2>1
<1>2. CASE finds # {}
  <2>1. Decides(payload, field) = CHOOSE s \in finds : \A other \in finds : Rank[s] <= Rank[other]
    BY <1>2 DEF Decides
  <2>2. finds \in SUBSET Source
    BY TriedSources
  <2>3. Decides(payload, field) \in finds
    BY <1>2, <2>1, <2>2, FirstSource
  <2> QED
    BY <2>2, <2>3
<1> QED
  BY <1>1, <1>2

\* A file in the request is what decides a field that takes files.
LEMMA FileDecides ==
    ASSUME NEW payload, NEW field, field.sources \subseteq Source,
           "file" \in Tried(field), Found(payload, field, "file")
    PROVE  Decides(payload, field) = "file"
<1> DEFINE finds == {s \in Tried(field) : Found(payload, field, s)}
<1>1. finds \in SUBSET Source /\ "file" \in finds
  BY TriedSources
<1>2. Decides(payload, field) = CHOOSE s \in finds : \A other \in finds : Rank[s] <= Rank[other]
  BY <1>1 DEF Decides
<1>3. \A other \in finds : Rank[Decides(payload, field)] <= Rank[other]
  BY <1>1, <1>2, FirstExists
<1>4. Decides(payload, field) \in finds
  BY <1>1, <1>2, FirstSource
<1>5. \A s \in Source \ {"file"} : ~(Rank[s] <= Rank["file"])
  BY DEF Rank, Source
<1> QED
  BY <1>1, <1>3, <1>4, <1>5

\* What is found in the sources of a field converts: a text source found has a value
\* that converts, and only a file is found for a file.
LEMMA FoundConverts ==
    ASSUME NEW fields, NEW payload, Describable(fields),
           Follows(fields, payload), NEW field \in fields, Fillable(field)
    PROVE  Converts(payload, field)
<1> DEFINE source == Decides(payload, field)
           at == payload.at[field.name]
<1>1. /\ field.sources \subseteq Source /\ field.kind \in {"text", "file", "other"}
      /\ FieldCompiles(field) /\ ~({"file", "form"} \subseteq field.sources)
  BY DEF Describable
<1>2. \A place \in {"json"} \cup Source : at[place] # "invalid"
  BY FollowsDocument
<1>3. /\ \A place \in Parameters : at[place] # "absent" => place \in field.sources
      /\ at["form"] # "absent" => /\ "form" \in field.sources
                                  /\ payload.type = IF HasFile(fields) THEN "multipart" ELSE "form"
  BY FollowsDocument
<1>4. field.kind = "file" => field.sources \subseteq {"file", "form"}
  BY DEF Fillable
<1>5. CASE source \in {"default", "json", "zero", "file"}
  BY <1>5 DEF Converts
<1>6. CASE source \in Tried(field) /\ source \in Source \ {"file"} /\ Found(payload, field, source)
  <2>1. source \in field.sources
    BY <1>6 DEF Tried
  <2>2. field.kind # "other"
    BY <1>1, <1>6, <2>1 DEF FieldCompiles
  <2>3. ASSUME field.kind = "file"
        PROVE  FALSE
    <3>1. at["query"] = "absent" /\ source = "form"
      BY <1>3, <1>4, <1>6, <2>1, <2>3 DEF Parameters
    <3>2. ReadsForm(payload) /\ at["form"] # "absent"
      BY <1>6, <3>1 DEF Found
    <3>3. field \in FormFields(fields)
      BY <2>1, <3>1 DEF FormFields
    <3>4. payload.type = "multipart"
      BY <1>3, <2>3, <3>2, <3>3 DEF HasFile
    <3>5. Found(payload, field, "file") /\ "file" \in Tried(field)
      BY <1>1, <2>1, <2>3, <3>1, <3>2, <3>4 DEF Found, Tried
    <3> QED
      BY <1>1, <3>1, <3>5, FileDecides
  <2>4. Value(payload, field) # "invalid"
    <3>1. source \in {"path", "query", "header", "cookie", "form"}
      BY <1>6 DEF Source
    <3>2. at[source] # "invalid" /\ at["form"] # "invalid" /\ at["query"] # "invalid"
      BY <1>2, <3>1 DEF Source
    <3> QED
      BY <3>1, <3>2 DEF Value
  <2> QED
    BY <1>1, <2>2, <2>3, <2>4 DEF Converts
<1> QED
  BY <1>1, <1>5, <1>6, DecidesOne

\* A required field gets its value from where the document says.
LEMMA RequiredFound ==
    ASSUME NEW fields, NEW payload, Describable(fields), Follows(fields, payload),
           KeepsRules(fields, payload), NEW field \in fields, Fillable(field), field.required
    PROVE  Decides(payload, field) \in Source \cup {"json"}
<1> DEFINE finds == {s \in Tried(field) : Found(payload, field, s)}
           at == payload.at[field.name]
<1>1. /\ field.sources \subseteq Source /\ FieldCompiles(field)
      /\ ~({"file", "form"} \subseteq field.sources)
  BY DEF Describable
<1>2. finds # {} => Decides(payload, field) \in Source
  BY <1>1, DecidesOne
<1>3. "absent" \notin Held
  BY DEF Held
<1>4. CASE field.sources \cap Parameters # {}
  <2>1. PICK place \in field.sources \cap Parameters : TRUE
    BY <1>4
  <2>2. at[place] \in Held
    BY FollowsDocument, <2>1
  <2>3. place \in finds
    BY <1>3, <2>1, <2>2 DEF Tried, Found, Parameters
  <2> QED
    BY <1>2, <2>3
<1>5. CASE field.sources \cap {"file", "form"} # {}
  <2>1. field \in FormFields(fields)
    BY <1>5 DEF FormFields
  <2>2. /\ payload.type = IF HasFile(fields) THEN "multipart" ELSE "form"
        /\ at[BodyPlace(payload.type, field)] \in Held
    BY <2>1, FollowsDocument
  <2>3. CASE "form" \in field.sources
    <3>1. at["form"] \in Held
      BY <2>2, <2>3 DEF BodyPlace
    <3>2. ReadsForm(payload)
      BY <2>2 DEF KeepsRules, ReadsForm
    <3>3. "form" \in finds
      BY <1>3, <2>3, <3>1, <3>2 DEF Tried, Found
    <3> QED
      BY <1>2, <3>3
  <2>4. CASE "form" \notin field.sources
    <3>1. "file" \in field.sources /\ field.kind = "file"
      BY <1>1, <1>5, <2>4 DEF FieldCompiles
    <3>2. payload.type = "multipart" /\ at["file"] \in Held
      BY <2>1, <2>2, <2>4, <3>1 DEF HasFile, BodyPlace
    <3>3. "file" \in finds
      BY <1>3, <3>1, <3>2 DEF Tried, Found
    <3> QED
      BY <1>2, <3>3
  <2> QED
    BY <2>3, <2>4
<1>6. CASE field.sources = {}
  <2>1. field \in JsonFields(fields)
    BY <1>6 DEF Fillable, JsonFields
  <2>2. payload.type = "json" /\ at["json"] \in Held
    BY <2>1, FollowsDocument
  <2>3. ~HasDefault(field)
    BY <1>6 DEF HasDefault
  <2> QED
    BY <1>1, <1>3, <2>2, <2>3, DecidesOne
<1> QED
  BY <1>1, <1>4, <1>5, <1>6 DEF Source, Parameters

\* Under a request that keeps what the document does not say as well, no rule of a
\* validator refuses a field.
LEMMA ValueKept ==
    ASSUME NEW fields, NEW payload, Describable(fields), Follows(fields, payload),
           KeepsRules(fields, payload), NEW field \in fields, Fillable(field)
    PROVE  /\ Value(payload, field) # "refused"
           /\ field.required => Value(payload, field) # "zero"
<1> DEFINE source == Decides(payload, field)
           at == payload.at[field.name]
<1>1. /\ field.default # "refused"
      /\ \A place \in {"json"} \cup Source :
           at[place] # "refused" /\ (field.required => at[place] # "zero")
  BY DEF KeepsRules
<1>2. source \in {"default", "json", "zero", "file", "path", "query", "header", "cookie", "form"}
  BY DecidesOne DEF Describable, Source
<1>3. Value(payload, field) # "refused"
  BY <1>1, <1>2 DEF Value, Source
<1>4. ASSUME field.required
      PROVE  Value(payload, field) # "zero"
  <2>1. source \in {"json", "file", "path", "query", "header", "cookie", "form"}
    BY <1>4, RequiredFound DEF Source
  <2> QED
    BY <1>1, <1>4, <2>1 DEF Value, Source
<1> QED
  BY <1>3, <1>4

\* What an accepted request gives a required field is its default, or a value from
\* where its declaration says.
LEMMA RequiredGiven ==
    ASSUME NEW fields \in Fields, NEW payload \in Payload, Outcome(fields, payload) = "ok",
           NEW field \in fields, field.required
    PROVE  field.default = "valid" \/ GivenFor(payload, field)
<1> DEFINE source == Decides(payload, field)
           at == payload.at[field.name]
           value == Value(payload, field)
<1>1. Bind(fields, payload) = "ok" /\ Validates(fields, payload)
  BY DEF Outcome
<1>2. Converts(payload, field) /\ (payload.type = "json" => at["json"] # "invalid")
  BY <1>1 DEF Bind, Refusal
<1>3. value # "refused" /\ value # "zero"
  BY <1>1 DEF Validates
<1>4. field.sources \subseteq Source
  BY ContractAssumption DEF Describable
<1>5. \A place \in {"json"} \cup Source :
        at[place] \in {"absent", "invalid", "zero", "refused", "valid"}
  <2>1. field.name \in UNION {{f.name : f \in fs} : fs \in Fields}
    OBVIOUS
  <2> QED
    BY <2>1, ContractAssumption DEF Held
<1>6. CASE source = "default" /\ HasDefault(field)
  BY <1>3, <1>6 DEF Value, HasDefault, Held
<1>7. CASE source = "json" /\ payload.type = "json" /\ at["json"] # "absent"
  <2>1. at["json"] = "valid"
    BY <1>2, <1>3, <1>5, <1>7 DEF Value
  <2> QED
    BY <2>1 DEF GivenFor
<1>8. CASE source = "zero"
  BY <1>3, <1>8 DEF Value
<1>9. CASE source \in Tried(field) /\ source \in Source /\ Found(payload, field, source)
  <2>1. CASE source = "file"
    <3>1. field.kind = "file" /\ (IF "file" \in field.sources THEN at["file"] # "absent"
                                  ELSE at["form"] # "absent" /\ "form" \in field.sources)
      BY <1>9, <2>1 DEF Found, Tried
    <3> QED
      BY <3>1 DEF GivenFor
  <2>2. CASE source \in {"path", "query", "header", "cookie"}
    <3>1. source \in field.sources /\ at[source] # "absent"
      BY <1>9, <2>2 DEF Found, Tried
    <3>2. value = at[source] /\ value # "invalid"
      BY <1>2, <2>2 DEF Value, Converts
    <3>3. at[source] = "valid"
      BY <1>3, <1>5, <1>9, <3>1, <3>2
    <3> QED
      BY <3>1, <3>3 DEF GivenFor
  <2>3. CASE source = "form"
    <3>1. "form" \in field.sources /\ value # "invalid"
      BY <1>2, <1>9, <2>3 DEF Tried, Converts
    <3>2. CASE ReadsForm(payload) /\ at["form"] # "absent"
      <4>1. value = at["form"]
        BY <2>3, <3>2 DEF Value
      <4>2. at["form"] = "valid"
        BY <1>3, <1>5, <3>1, <3>2, <4>1 DEF Source
      <4> QED
        BY <3>1, <4>2 DEF GivenFor
    <3>3. CASE ~(ReadsForm(payload) /\ at["form"] # "absent")
      <4>1. at["query"] # "absent"
        BY <1>9, <2>3, <3>3 DEF Found
      <4>2. value = at["query"]
        BY <2>3, <3>3 DEF Value
      <4>3. at["query"] = "valid"
        BY <1>3, <1>5, <3>1, <4>1, <4>2 DEF Source
      <4> QED
        BY <3>1, <4>3 DEF GivenFor
    <3> QED
      BY <3>2, <3>3
  <2> QED
    BY <1>9, <2>1, <2>2, <2>3 DEF Source
<1> QED
  BY <1>4, <1>6, <1>7, <1>8, <1>9, DecidesOne

\* A request that keeps to the document of its route is bound, and validated if it
\* keeps what the document does not say as well; and a request that is accepted gives
\* every required field a value that is not zero, whatever the fields of the route
\* (Bind, validateRequest; parametersForRoute, bodySchema).
THEOREM DocumentBinds == Spec => []DocumentedRequestsBind
<1>1. DocumentedBinds
  <2> SUFFICES ASSUME NEW fields \in Fields, NEW payload \in Payload,
                      \A field \in fields : Fillable(field), Follows(fields, payload)
               PROVE  /\ Bind(fields, payload) = "ok"
                      /\ KeepsRules(fields, payload) => Outcome(fields, payload) = "ok"
    BY DEF DocumentedBinds
  <2>1. Describable(fields) /\ payload.type \in ContentType
    BY ContractAssumption
  <2>2. payload.type # "none" => payload.body = "valid"
    BY <2>1, FollowsDocument
  <2>3. ~BodyError(payload)
    BY <2>1, <2>2 DEF BodyError, ContentType
  <2>4. \A field \in fields : payload.at[field.name]["json"] # "invalid"
    BY <2>1, FollowsDocument
  <2>5. \A field \in fields : Converts(payload, field)
    BY <2>1, FoundConverts
  <2>6. Bind(fields, payload) = "ok"
    BY <2>3, <2>4, <2>5 DEF Bind
  <2>7. ASSUME KeepsRules(fields, payload)
        PROVE  Validates(fields, payload)
    <3>1. \A field \in fields : field.strict => field.required
      BY <2>7 DEF KeepsRules
    <3>2. \A field \in fields : /\ Value(payload, field) # "refused"
                                /\ field.required => Value(payload, field) # "zero"
      BY <2>1, <2>7, ValueKept
    <3> QED
      BY <3>1, <3>2 DEF Validates
  <2> QED
    BY <2>6, <2>7 DEF Outcome
<1>2. AcceptedIsGiven
  BY RequiredGiven DEF AcceptedIsGiven
<1>3. DocumentedRequestsBind
  BY <1>1, <1>2 DEF DocumentedRequestsBind
<1> QED
  BY <1>3, PTL
-----------------------------------------------------------------------------
(* The order of the settings                                                *)

\* The first layer that has a key decides it ...
LEMMA FirstFound ==
    ASSUME NEW config, NEW key, NEW layers, DOMAIN layers \subseteq Nat,
           NEW i \in DOMAIN layers, Has(config, layers[i], key),
           \A j \in DOMAIN layers : j < i => ~Has(config, layers[j], key)
    PROVE  First(config, layers, key) = config[layers[i]][key]
<1> DEFINE having == {j \in DOMAIN layers : Has(config, layers[j], key)}
<1>1. i \in having /\ having \subseteq Nat /\ \A j \in having : i <= j
  OBVIOUS
<1>2. (CHOOSE j \in having : \A other \in having : j <= other) = i
  <2> HIDE DEF having
  <2> QED
    BY <1>1
<1> QED
  BY <1>1, <1>2 DEF First

\* ... and without one nothing does.
LEMMA FirstMissing ==
    ASSUME NEW config, NEW key, NEW layers,
           \A j \in DOMAIN layers : ~Has(config, layers[j], key)
    PROVE  First(config, layers, key) = None
BY DEF First

\* The layers Get and Unmarshal go through, one after the other.
LEMMA LayersOf ==
    /\ DOMAIN (External \o Viper) = 1 .. 9
    /\ (External \o Viper)[1] = "runtime" /\ (External \o Viper)[2] = "environment"
    /\ (External \o Viper)[3] = "dotenv" /\ (External \o Viper)[4] = "runtime"
    /\ (External \o Viper)[5] = "enclosing" /\ (External \o Viper)[6] = "compact"
    /\ (External \o Viper)[7] = "shadow"
    /\ (External \o Viper)[8] = "file" /\ (External \o Viper)[9] = "default"
BY DEF External, Viper

LEMMA LayersOfUnmarshal ==
    LET layers == <<"compact", "compactDotenv">> \o Viper
    IN  /\ DOMAIN layers = 1 .. 8
        /\ layers[1] = "compact" /\ layers[2] = "compactDotenv"
        /\ layers[3] = "runtime" /\ layers[4] = "enclosing"
        /\ layers[5] = "compact" /\ layers[6] = "shadow"
        /\ layers[7] = "file" /\ layers[8] = "default"
BY DEF Viper

LEMMA LayersOfReadme ==
    /\ DOMAIN ReadmeOrder = 1 .. 5
    /\ ReadmeOrder[1] = "runtime" /\ ReadmeOrder[2] = "environment" /\ ReadmeOrder[3] = "dotenv"
    /\ ReadmeOrder[4] = "file" /\ ReadmeOrder[5] = "default"
BY DEF ReadmeOrder

LEMMA LayersOfExternal ==
    /\ DOMAIN External = 1 .. 3
    /\ External[1] = "runtime" /\ External[2] = "environment" /\ External[3] = "dotenv"
BY DEF External

\* What the README's order gives, layer by layer.
LEMMA ReadmeValue ==
    ASSUME NEW config, NEW s
    PROVE  First(config, ReadmeOrder, s) =
             IF Has(config, "runtime", s) THEN config["runtime"][s]
             ELSE IF Has(config, "environment", s) THEN config["environment"][s]
             ELSE IF Has(config, "dotenv", s) THEN config["dotenv"][s]
             ELSE IF Has(config, "file", s) THEN config["file"][s]
             ELSE IF Has(config, "default", s) THEN config["default"][s] ELSE None
<1>1. DOMAIN ReadmeOrder \subseteq Nat
  BY LayersOfReadme
<1>2. CASE Has(config, "runtime", s)
  <2>1. First(config, ReadmeOrder, s) = config[ReadmeOrder[1]][s]
    BY <1>1, <1>2, LayersOfReadme, FirstFound
  <2> QED
    BY <1>2, <2>1, LayersOfReadme
<1>3. CASE ~Has(config, "runtime", s) /\ Has(config, "environment", s)
  <2>1. First(config, ReadmeOrder, s) = config[ReadmeOrder[2]][s]
    BY <1>1, <1>3, LayersOfReadme, FirstFound
  <2> QED
    BY <1>3, <2>1, LayersOfReadme
<1>4. CASE /\ ~Has(config, "runtime", s) /\ ~Has(config, "environment", s)
           /\ Has(config, "dotenv", s)
  <2>1. First(config, ReadmeOrder, s) = config[ReadmeOrder[3]][s]
    BY <1>1, <1>4, LayersOfReadme, FirstFound
  <2> QED
    BY <1>4, <2>1, LayersOfReadme
<1>5. CASE /\ ~Has(config, "runtime", s) /\ ~Has(config, "environment", s)
           /\ ~Has(config, "dotenv", s) /\ Has(config, "file", s)
  <2>1. First(config, ReadmeOrder, s) = config[ReadmeOrder[4]][s]
    BY <1>1, <1>5, LayersOfReadme, FirstFound
  <2> QED
    BY <1>5, <2>1, LayersOfReadme
<1>6. CASE /\ ~Has(config, "runtime", s) /\ ~Has(config, "environment", s)
           /\ ~Has(config, "dotenv", s) /\ ~Has(config, "file", s)
           /\ Has(config, "default", s)
  <2>1. First(config, ReadmeOrder, s) = config[ReadmeOrder[5]][s]
    BY <1>1, <1>6, LayersOfReadme, FirstFound
  <2> QED
    BY <1>6, <2>1, LayersOfReadme
<1>7. CASE /\ ~Has(config, "runtime", s) /\ ~Has(config, "environment", s)
           /\ ~Has(config, "dotenv", s) /\ ~Has(config, "file", s)
           /\ ~Has(config, "default", s)
  BY <1>7, LayersOfReadme, FirstMissing
<1> QED
  BY <1>2, <1>3, <1>4, <1>5, <1>6, <1>7
\* Get asks the layers the README does not speak of as well.
LEMMA GetValue ==
    ASSUME NEW config, NEW s, DocumentedSpelling(config, s)
    PROVE  Get(config, s) = First(config, ReadmeOrder, s)
<1> DEFINE layers == External \o Viper
<1>1. /\ ~Has(config, "enclosing", s) /\ ~Has(config, "compact", s)
      /\ ~Has(config, "compactDotenv", s) /\ ~Has(config, "shadow", s)
  BY DEF DocumentedSpelling
<1>2. /\ DOMAIN layers = 1 .. 9
      /\ layers[1] = "runtime" /\ layers[2] = "environment" /\ layers[3] = "dotenv"
      /\ layers[4] = "runtime" /\ layers[5] = "enclosing" /\ layers[6] = "compact"
      /\ layers[7] = "shadow" /\ layers[8] = "file" /\ layers[9] = "default"
  BY LayersOf
<1>3. First(config, layers, s) = First(config, ReadmeOrder, s)
  <2> HIDE DEF layers
  <2>1. DOMAIN layers \subseteq Nat
    BY <1>2
  <2>2. CASE Has(config, "runtime", s)
    <3>1. First(config, layers, s) = config[layers[1]][s]
      BY <1>1, <1>2, <2>1, <2>2, FirstFound
    <3> QED
      BY <1>2, <2>2, <3>1, ReadmeValue
  <2>3. CASE /\ ~Has(config, "runtime", s) /\ Has(config, "environment", s)
    <3>1. First(config, layers, s) = config[layers[2]][s]
      BY <1>1, <1>2, <2>1, <2>3, FirstFound
    <3> QED
      BY <1>2, <2>3, <3>1, ReadmeValue
  <2>4. CASE /\ ~Has(config, "runtime", s) /\ ~Has(config, "environment", s)
             /\ Has(config, "dotenv", s)
    <3>1. First(config, layers, s) = config[layers[3]][s]
      BY <1>1, <1>2, <2>1, <2>4, FirstFound
    <3> QED
      BY <1>2, <2>4, <3>1, ReadmeValue
  <2>5. CASE /\ ~Has(config, "runtime", s) /\ ~Has(config, "environment", s)
             /\ ~Has(config, "dotenv", s) /\ Has(config, "file", s)
    <3>1. First(config, layers, s) = config[layers[8]][s]
      BY <1>1, <1>2, <2>1, <2>5, FirstFound
    <3> QED
      BY <1>2, <2>5, <3>1, ReadmeValue
  <2>6. CASE /\ ~Has(config, "runtime", s) /\ ~Has(config, "environment", s)
             /\ ~Has(config, "dotenv", s) /\ ~Has(config, "file", s)
             /\ Has(config, "default", s)
    <3>1. First(config, layers, s) = config[layers[9]][s]
      BY <1>1, <1>2, <2>1, <2>6, FirstFound
    <3> QED
      BY <1>2, <2>6, <3>1, ReadmeValue
  <2>7. CASE /\ ~Has(config, "runtime", s) /\ ~Has(config, "environment", s)
             /\ ~Has(config, "dotenv", s) /\ ~Has(config, "file", s)
             /\ ~Has(config, "default", s)
    <3>1. First(config, layers, s) = None
      BY <1>1, <1>2, <2>7, FirstMissing
    <3> QED
      BY <2>7, <3>1, ReadmeValue
  <2> QED
    BY <2>2, <2>3, <2>4, <2>5, <2>6, <2>7
<1> QED
  BY <1>3 DEF Get

\* Unmarshal does so for the keys Viper can list.
LEMMA UnmarshalValue ==
    ASSUME NEW config, NEW s, DocumentedSpelling(config, s)
    PROVE  Unmarshal(config, s) = First(config, ReadmeOrder, s)
<1> DEFINE layers == <<"compact", "compactDotenv">> \o Viper
<1>1. /\ ~Has(config, "enclosing", s) /\ ~Has(config, "compact", s)
      /\ ~Has(config, "compactDotenv", s) /\ ~Has(config, "shadow", s)
  BY DEF DocumentedSpelling
<1>2. /\ DOMAIN layers = 1 .. 8
      /\ layers[1] = "compact" /\ layers[2] = "compactDotenv" /\ layers[3] = "runtime"
      /\ layers[4] = "enclosing" /\ layers[5] = "compact" /\ layers[6] = "shadow"
      /\ layers[7] = "file" /\ layers[8] = "default"
  BY LayersOfUnmarshal
<1>3. CASE \E i \in DOMAIN External : Has(config, External[i], s)
  <2>1. Unmarshal(config, s) = First(config, External, s)
    BY <1>3 DEF Unmarshal
  <2>2. DOMAIN External \subseteq Nat
    BY LayersOfExternal
  <2>3. CASE Has(config, "runtime", s)
    <3>1. First(config, External, s) = config[External[1]][s]
      BY <2>2, <2>3, LayersOfExternal, FirstFound
    <3> QED
      BY <2>1, <2>3, <3>1, LayersOfExternal, ReadmeValue
  <2>4. CASE ~Has(config, "runtime", s) /\ Has(config, "environment", s)
    <3>1. First(config, External, s) = config[External[2]][s]
      BY <2>2, <2>4, LayersOfExternal, FirstFound
    <3> QED
      BY <2>1, <2>4, <3>1, LayersOfExternal, ReadmeValue
  <2>5. CASE /\ ~Has(config, "runtime", s) /\ ~Has(config, "environment", s)
             /\ Has(config, "dotenv", s)
    <3>1. First(config, External, s) = config[External[3]][s]
      BY <2>2, <2>5, LayersOfExternal, FirstFound
    <3> QED
      BY <2>1, <2>5, <3>1, LayersOfExternal, ReadmeValue
  <2> QED
    BY <1>3, <2>3, <2>4, <2>5, LayersOfExternal
<1>4. CASE ~\E i \in DOMAIN External : Has(config, External[i], s)
  <2>1. /\ ~Has(config, "runtime", s) /\ ~Has(config, "environment", s)
        /\ ~Has(config, "dotenv", s)
    BY <1>4, LayersOfExternal
  <2>2. s \in AllKeys(config) <=> Has(config, "file", s) \/ Has(config, "default", s)
    BY <1>1, <2>1 DEF AllKeys, Has
  <2>3. Unmarshal(config, s) = IF s \in AllKeys(config) THEN First(config, layers, s) ELSE None
    BY <1>4 DEF Unmarshal
  <2> HIDE DEF layers
  <2>4. DOMAIN layers \subseteq Nat
    BY <1>2
  <2>5. CASE Has(config, "file", s)
    <3>1. First(config, layers, s) = config[layers[7]][s]
      BY <1>1, <1>2, <2>1, <2>4, <2>5, FirstFound
    <3> QED
      BY <1>2, <2>1, <2>2, <2>3, <2>5, <3>1, ReadmeValue
  <2>6. CASE ~Has(config, "file", s) /\ Has(config, "default", s)
    <3>1. First(config, layers, s) = config[layers[8]][s]
      BY <1>1, <1>2, <2>1, <2>4, <2>6, FirstFound
    <3> QED
      BY <1>2, <2>1, <2>2, <2>3, <2>6, <3>1, ReadmeValue
  <2>7. CASE ~Has(config, "file", s) /\ ~Has(config, "default", s)
    BY <2>1, <2>2, <2>3, <2>7, ReadmeValue
  <2> QED
    BY <2>5, <2>6, <2>7
<1> QED
  BY <1>3, <1>4

\* Under the spelling the README documents the configuration says what it promises.
LEMMA DocumentedValue ==
    ASSUME NEW config, NEW s, DocumentedSpelling(config, s)
    PROVE  ConfigValue(config, s) = First(config, ReadmeOrder, s)
BY GetValue, UnmarshalValue DEF ConfigValue, Configured
\* What a setting has when the options and the configuration have spoken.
LEMMA ResolvedValue ==
    ASSUME NEW draft, NEW loaded, NEW attached, NEW config,
           config = IF attached = <<>> THEN loaded.config ELSE Head(attached),
           NEW s \in Setting \ {"sessionCookie"}
    PROVE  Initialized(draft, loaded, attached).value[s] =
             IF s = "logger" /\ ConfigValue(config, s) = Off THEN Off
             ELSE IF s \notin NoKey \cup draft.set /\ Usable(ConfigValue(config, s))
                  THEN ConfigValue(config, s)
                  ELSE draft.value[s]
<1>1. Initialized(draft, loaded, attached).value = Resolve(draft, config).value
  BY DEF Initialized
<1> QED
  BY <1>1 DEF Resolve

\* An option speaks for the settings it decides, the last word on each of them.
LEMMA OptionSaid ==
    ASSUME NEW options, NEW n \in Nat, NEW draft, NEW s \in Setting,
           SaidBy(options, n, draft, s)
    PROVE  SaidBy(options, n + 1, ApplyOption(draft, options[n + 1]), s)
<1> DEFINE option == options[n + 1]
<1> DEFINE after == ApplyOption(draft, option)
<1>1. /\ after.value[s] = IF Says(option, s) THEN Decided(option)[s] ELSE draft.value[s]
      /\ s \in after.set <=> Says(option, s) \/ s \in draft.set
  BY DEF ApplyOption, Says
<1>2. 1 .. n + 1 = 1 .. n \cup {n + 1} /\ n + 1 \in 1 .. n + 1 /\ (n + 1) + 1 .. n + 1 = {}
  OBVIOUS
<1> SUFFICES SaidBy(options, n + 1, after, s)
  OBVIOUS
<1> HIDE DEF after
<1>3. CASE Says(option, s)
  BY <1>1, <1>2, <1>3 DEF SaidBy
<1>4. CASE ~Says(option, s) /\ s \in draft.set
  <2>1. PICK i \in 1 .. n : /\ Says(options[i], s) /\ draft.value[s] = Decided(options[i])[s]
                            /\ \A j \in i + 1 .. n : ~Says(options[j], s)
    BY <1>4 DEF SaidBy
  <2>2. \A j \in i + 1 .. n + 1 : ~Says(options[j], s)
    BY <1>4, <2>1
  <2> QED
    BY <1>1, <1>2, <1>4, <2>1, <2>2 DEF SaidBy
<1>5. CASE ~Says(option, s) /\ s \notin draft.set
  BY <1>1, <1>2, <1>5 DEF SaidBy
<1> QED
  BY <1>3, <1>4, <1>5

\* No option has spoken yet.
LEMMA NothingSaid ==
    ASSUME NEW options, NEW s
    PROVE  SaidBy(options, 0, Defaults, s)
BY DEF SaidBy, Defaults

\* The options that say something of a setting.
Spoken(options, s) == {i \in DOMAIN options : Says(options[i], s)}

\* The last option that speaks is the one whose word stands.
LEMMA LastSaid ==
    ASSUME NEW options, NEW n \in Nat, DOMAIN options = 1 .. n, NEW draft, NEW s,
           SaidBy(options, n, draft, s)
    PROVE  /\ s \in draft.set <=> Spoken(options, s) # {}
           /\ draft.value[s] = IF Spoken(options, s) # {}
                               THEN Decided(options[Max(Spoken(options, s))])[s]
                               ELSE Defaults.value[s]
<1> DEFINE spoken == Spoken(options, s)
<1>1. CASE s \in draft.set
  <2>1. PICK i \in 1 .. n : /\ Says(options[i], s) /\ draft.value[s] = Decided(options[i])[s]
                            /\ \A j \in i + 1 .. n : ~Says(options[j], s)
    BY <1>1 DEF SaidBy
  <2>2. i \in spoken /\ spoken \subseteq 1 .. n /\ \A j \in spoken : i >= j
    BY <2>1 DEF Spoken
  <2>3. Max(spoken) = i
    <3> HIDE DEF spoken
    <3>1. \E j \in spoken : \A k \in spoken : j >= k
      BY <2>2
    <3>2. Max(spoken) = CHOOSE j \in spoken : \A k \in spoken : j >= k
      BY DEF Max
    <3>3. Max(spoken) \in spoken /\ \A k \in spoken : Max(spoken) >= k
      BY <3>1, <3>2, Zenon
    <3>4. Max(spoken) >= i /\ i >= Max(spoken) /\ Max(spoken) \in 1 .. n
      BY <2>2, <3>3, Zenon
    <3>5. i \in Int /\ \A m \in 1 .. n : m \in Int
      OBVIOUS
    <3>6. \A m \in Int : m >= i /\ i >= m => m = i
      BY <3>5
    <3> QED
      BY <3>4, <3>5, <3>6, Zenon
  <2> QED
    BY <1>1, <2>1, <2>2, <2>3
<1>2. CASE s \notin draft.set
  BY <1>2 DEF SaidBy, Spoken
<1> QED
  BY <1>1, <1>2

\* initialize with every option taken.
LEMMA SettleOrder ==
    ASSUME DraftInv, NEW loaded, NEW attached, Settle(loaded, attached)
    PROVE  SettingsPrecedence'
<1> DEFINE options == construction.options
<1> DEFINE draft == construction.draft
<1> DEFINE config == IF attached = <<>> THEN loaded.config ELSE Head(attached)
<1>1. /\ options \in Seq(Range(options)) /\ construction.taken = Len(options)
      /\ \A s \in Setting : SaidBy(options, Len(options), draft, s)
  BY ApplicationAssumption DEF DraftInv, Settle
<1>2. Len(options) \in Nat /\ DOMAIN options = 1 .. Len(options)
  BY <1>1
<1>3. /\ construction'.options = options /\ construction'.config = config
      /\ construction'.settled = Initialized(draft, loaded, attached)
  BY DEF Settle
<1> SUFFICES
      ASSUME NEW s \in Setting \ {"sessionCookie"}, DocumentedSpelling(config, s)
      PROVE  LET spoken == Spoken(options, s)
                 said   == First(config, ReadmeOrder, s)
             IN  construction'.settled.value[s] =
                   IF s = "logger" /\ said = Off THEN Off
                   ELSE IF spoken # {} THEN Decided(options[Max(spoken)])[s]
                   ELSE IF s \notin NoKey /\ Usable(said) THEN said
                   ELSE Defaults.value[s]
  BY <1>3 DEF SettingsPrecedence, Spoken
<1> HIDE DEF options, draft, config
<1>4. ConfigValue(config, s) = First(config, ReadmeOrder, s)
  BY DocumentedValue
<1>5. construction'.settled.value[s] =
        IF s = "logger" /\ ConfigValue(config, s) = Off THEN Off
        ELSE IF s \notin NoKey \cup draft.set /\ Usable(ConfigValue(config, s))
             THEN ConfigValue(config, s)
             ELSE draft.value[s]
  BY <1>3, ResolvedValue DEF config
<1>6. /\ s \in draft.set <=> Spoken(options, s) # {}
      /\ draft.value[s] = IF Spoken(options, s) # {}
                          THEN Decided(options[Max(Spoken(options, s))])[s]
                          ELSE Defaults.value[s]
  BY <1>1, <1>2, LastSaid
<1> QED
  BY <1>4, <1>5, <1>6

\* Every step keeps what the options have said.
LEMMA DraftSteps ==
    ASSUME DraftInv, SettingsPrecedence, [ApplicationNext]_applicationVars
    PROVE  DraftInv' /\ SettingsPrecedence'
<1>1. CASE \E options \in OptionList : NewServer(options)
  <2>1. PICK options \in OptionList : NewServer(options)
    BY <1>1
  <2>2. /\ construction'.pc = "options" /\ construction'.options = options
        /\ construction'.taken = 0 /\ construction'.draft = Defaults
    BY <2>1 DEF NewServer
  <2>3. 0 \in 0 .. Len(options)
    BY ApplicationAssumption
  <2> QED
    BY <2>2, <2>3, NothingSaid DEF DraftInv, SettingsPrecedence
<1>2. CASE TakeOption
  <2>1. /\ construction.pc = "options" /\ construction.taken < Len(construction.options)
        /\ construction'.pc = "options" /\ construction'.options = construction.options
        /\ construction'.taken = construction.taken + 1
        /\ construction'.draft = ApplyOption(construction.draft,
                                             construction.options[construction.taken + 1])
    BY <1>2 DEF TakeOption
  <2>2. /\ construction.options \in OptionList /\ construction.taken \in Nat
        /\ Len(construction.options) \in Nat
    BY <2>1, ApplicationAssumption DEF DraftInv
  <2>3. construction'.taken \in 0 .. Len(construction'.options)
    BY <2>1, <2>2
  <2>4. ASSUME NEW s \in Setting
        PROVE  SaidBy(construction'.options, construction'.taken, construction'.draft, s)
    <3>1. SaidBy(construction.options, construction.taken, construction.draft, s)
      BY <2>1 DEF DraftInv
    <3>2. SaidBy(construction.options, construction.taken + 1,
                 ApplyOption(construction.draft, construction.options[construction.taken + 1]), s)
      BY <2>2, <3>1, OptionSaid
    <3> QED
      BY <2>1, <3>2
  <2> QED
    BY <2>1, <2>2, <2>3, <2>4 DEF DraftInv, SettingsPrecedence
<1>3. CASE \E loaded \in Loaded, attached \in Attached : Settle(loaded, attached)
  <2>1. construction'.pc = "settled"
    BY <1>3 DEF Settle
  <2> QED
    BY <1>3, <2>1, SettleOrder DEF DraftInv
<1>4. CASE \E supplied \in Supplied : Initialize(supplied)
  <2>1. construction'.pc = "done"
    BY <1>4 DEF Initialize
  <2> QED
    BY <2>1 DEF DraftInv, SettingsPrecedence
<1>5. CASE UNCHANGED construction
  BY <1>5 DEF DraftInv, SettingsPrecedence
<1> QED
  BY <1>1, <1>2, <1>3, <1>4, <1>5 DEF ApplicationNext, Register, ServeRequest, applicationVars

\* NewServer, applyConfig and config.Get: whatever options are given, in whatever
\* order and however often, and whatever any layer of the configuration holds, each
\* setting has the value the README's order of precedence gives it.
THEOREM PrecedenceHolds == Spec => []SettingsPrecedence
<1>1. ApplicationInit => DraftInv /\ SettingsPrecedence
  BY DEF ApplicationInit, DraftInv, SettingsPrecedence
<1>2. DraftInv /\ SettingsPrecedence /\ [ApplicationNext]_applicationVars
        => (DraftInv /\ SettingsPrecedence)'
  BY DraftSteps
<1> QED
  BY <1>1, <1>2, PTL DEF Spec
=============================================================================
