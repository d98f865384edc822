---------------------------- MODULE Registration ----------------------------
(***************************************************************************)
(* Routes on their way into a Server: application, group and route          *)
(* middleware, the batch registration of controllers, static mounts, and    *)
(* the route registry the OpenAPI document is generated from                *)
(* (ghttp/registration.go, group.go, route_middleware.go, static.go,        *)
(* openapi.go, router/registry.go, and beginRun in ghttp/server.go).        *)
(*                                                                         *)
(* registrationMu serialises every change of the topology: the registrar is *)
(* the goroutine that holds it.  Requests and readers of the registry do    *)
(* not take it, so a batch is visible route by route.                       *)
(***************************************************************************)
EXTENDS Naturals, Sequences, FiniteSets, SequencesExt

CONSTANTS Route,        \* method and path, as the caller writes them
          Conflict,     \* pairs of routes Gin's tree cannot hold together
          Static,       \* the routes that static mounts register
          Docs,         \* the route of the OpenAPI document
          Batch,        \* what one Bind registers: sequences of routes
          Middleware,   \* handlers the application supplies
          AbortIndex    \* ginAbortIndex: a chain must stay shorter

ASSUME RegistrationAssumption ==
  /\ Static \subseteq Route
  /\ Docs \in Route \ Static
  /\ Batch \subseteq Seq(Route \ (Static \cup {Docs}))
  /\ AbortIndex \in Nat

VARIABLES initializationErr, \* a construction error: Bind and Run refuse
          engine,            \* Gin: global handlers, and a chain per route
          registry,          \* the framework's own table
          routeMiddleware,   \* attached to a route before it is bound
          routesRegistered, running,
          registrar,         \* the holder of registrationMu
          openapiCache,      \* <<>> or the routes the cached document describes
          generator          \* a call of OpenAPI

registrationVars == <<initializationErr, engine, registry, routeMiddleware, routesRegistered,
                      running, registrar, openapiCache, generator>>

\* What initialize installs before anything else, in this order.  Request
\* IDs, the logger, the framework context and the access log only pass on.
Framework == <<"recovery", "host", "limit", "cors", "csrf">>

Idle == [pc |-> "idle", batch |-> <<>>, group |-> <<>>]
Conflicting(r, routes) == r \in routes \/ \E s \in routes : <<r, s>> \in Conflict

RegistrationInit ==
  /\ initializationErr = FALSE
  /\ engine = [handlers |-> <<>>, chain |-> [r \in {} |-> <<>>]]
  /\ registry = {} /\ routeMiddleware = [r \in Route |-> <<>>]
  /\ routesRegistered = FALSE /\ running = FALSE
  /\ registrar = Idle
  /\ openapiCache = <<>> /\ generator = [pc |-> "idle", list |-> {}]

\* The end of initialize.  An engine the application supplies may hold routes
\* already, and they keep the chain they have.  The static mounts of the
\* configuration and the documentation come after the framework's handlers
\* and before the application's; one that finds its place taken leaves a
\* construction error.
InstallFramework(supplied, mounted, errors) ==
  LET taken == \E r \in mounted \cup {Docs} : Conflicting(r, supplied)
  IN  /\ engine' = [handlers |-> Framework,
                    chain    |-> [r \in supplied \cup mounted \cup {Docs} |->
                                    IF r \in supplied THEN <<>> ELSE Framework]]
      /\ initializationErr' = (errors # {} \/ taken)
      /\ UNCHANGED <<registry, routeMiddleware, routesRegistered, running, registrar,
                     openapiCache, generator>>

Open == engine.handlers # <<>> /\ registrar.pc = "idle" /\ ~running

\* engine.Handle, in either table.
WithRoute(chain, r, handlers) ==
  [s \in DOMAIN chain \cup {r} |-> IF s = r THEN handlers ELSE chain[s]]

\* Use: application middleware, refused once a controller is bound.
Use(m) ==
  /\ Open /\ ~routesRegistered
  /\ m \notin Range(engine.handlers)
  /\ engine' = [engine EXCEPT !.handlers = Append(@, m)]
  /\ UNCHANGED <<initializationErr, registry, routeMiddleware, routesRegistered, running, registrar,
                 openapiCache, generator>>

\* Route(...).Use: refused once this route is registered.
RouteUse(r, m) ==
  /\ Open /\ r \notin DOMAIN engine.chain
  /\ m \notin Range(routeMiddleware[r])
  /\ routeMiddleware' = [routeMiddleware EXCEPT ![r] = Append(@, m)]
  /\ UNCHANGED <<initializationErr, engine, registry, routesRegistered, running, registrar,
                 openapiCache, generator>>

\* The handlers of a route, in the order Gin runs them.
Chain(r, group) == engine.handlers \o group \o routeMiddleware[r]

\* validateRouteHandlerCounts: the handler itself counts too.
Fits(r, group) == Len(Chain(r, group)) + 1 < AbortIndex

\* Mutant: only the framework's own table is asked, Gin's tree is not.
PlaceableInRegistry(batch) == \A i \in DOMAIN batch : batch[i] \notin registry

\* validateRouteRegistration and validateGinRouteTable, which registers the
\* whole batch in a temporary engine, and Registry.Validate.
Placeable(batch) ==
  \A i \in DOMAIN batch :
    /\ ~Conflicting(batch[i], DOMAIN engine.chain \cup {batch[j] : j \in 1 .. i - 1})
    /\ batch[i] \notin registry

\* registerRouteDefinitions takes registrationMu and checks everything before
\* it changes anything; a refused batch leaves no trace.
BindController(batch, group) ==
  /\ Open /\ ~initializationErr /\ batch # <<>>
  /\ \A i \in DOMAIN batch : Fits(batch[i], group)
  /\ Placeable(batch)
  /\ registrar' = [pc |-> "install", batch |-> batch, group |-> group]
  /\ UNCHANGED <<initializationErr, engine, registry, routeMiddleware, routesRegistered, running,
                 openapiCache, generator>>

Remaining == {i \in DOMAIN registrar.batch : registrar.batch[i] \notin DOMAIN engine.chain}

\* One engine.Handle.  Gin panics on a route it cannot place; the panic is
\* recovered, and the routes before it stay.
InstallRoute ==
  /\ registrar.pc = "install"
  /\ \E i \in Remaining :
       LET r == registrar.batch[i]
       IN  /\ \A j \in Remaining : i <= j
           /\ IF Conflicting(r, DOMAIN engine.chain)
              THEN registrar' = Idle /\ UNCHANGED engine
              ELSE /\ engine' = [engine EXCEPT !.chain = WithRoute(@, r, Chain(r, registrar.group))]
                   /\ UNCHANGED registrar
  /\ UNCHANGED <<initializationErr, registry, routeMiddleware, routesRegistered, running, openapiCache, generator>>

\* Mutant: nobody notes that a controller is bound, and Use stays open.
CommitUnmarked ==
  /\ registrar.pc = "install" /\ Remaining = {}
  /\ registry' = registry \cup Range(registrar.batch)
  /\ registrar' = [registrar EXCEPT !.pc = "invalidate"]
  /\ UNCHANGED <<initializationErr, engine, routeMiddleware, routesRegistered, running,
                 openapiCache, generator>>

\* Registry.Register, then routesRegistered.
Commit ==
  /\ registrar.pc = "install" /\ Remaining = {}
  /\ registry' = registry \cup Range(registrar.batch)
  /\ routesRegistered' = TRUE
  /\ registrar' = [registrar EXCEPT !.pc = "invalidate"]
  /\ UNCHANGED <<initializationErr, engine, routeMiddleware, running, openapiCache, generator>>

\* Mutant: the cache is cleared without openapiMu.
InvalidateUnlocked ==
  /\ registrar.pc = "invalidate"
  /\ openapiCache' = <<>> /\ registrar' = Idle
  /\ UNCHANGED <<initializationErr, engine, registry, routeMiddleware, routesRegistered, running, generator>>

\* invalidateOpenAPI waits for a document that is being generated.
InvalidateOpenAPI ==
  /\ registrar.pc = "invalidate" /\ generator.pc = "idle"
  /\ openapiCache' = <<>> /\ registrar' = Idle
  /\ UNCHANGED <<initializationErr, engine, registry, routeMiddleware, routesRegistered, running, generator>>

\* mountStatic and static.registerHandlers: GET and HEAD together, or none.
MountStatic(r) ==
  /\ Open /\ r \in Static /\ ~Conflicting(r, DOMAIN engine.chain)
  /\ engine' = [engine EXCEPT !.chain = WithRoute(@, r, engine.handlers)]
  /\ UNCHANGED <<initializationErr, registry, routeMiddleware, routesRegistered, running, registrar,
                 openapiCache, generator>>

\* Mutant: beginRun takes stateMu only.
BeginRunUnlocked ==
  /\ engine.handlers # <<>> /\ ~running /\ ~initializationErr /\ running' = TRUE
  /\ UNCHANGED <<initializationErr, engine, registry, routeMiddleware, routesRegistered, registrar,
                 openapiCache, generator>>

\* beginRun takes registrationMu too: a registration under way finishes
\* first, and none starts while the server runs.
BeginRun ==
  /\ Open /\ ~initializationErr /\ running' = TRUE
  /\ UNCHANGED <<initializationErr, engine, registry, routeMiddleware, routesRegistered, registrar,
                 openapiCache, generator>>

EndRun ==
  /\ running /\ running' = FALSE
  /\ UNCHANGED <<initializationErr, engine, registry, routeMiddleware, routesRegistered, registrar,
                 openapiCache, generator>>

\* OpenAPI without a cached document: it holds openapiMu from its second look
\* at the cache until it has stored the document, and lists the routes in
\* between.
ListRoutes ==
  /\ generator.pc = "idle" /\ openapiCache = <<>>
  /\ generator' = [pc |-> "store", list |-> registry]
  /\ UNCHANGED <<initializationErr, engine, registry, routeMiddleware, routesRegistered, running,
                 registrar, openapiCache>>

StoreDocument ==
  /\ generator.pc = "store"
  /\ openapiCache' = <<generator.list>>
  /\ generator' = [pc |-> "idle", list |-> {}]
  /\ UNCHANGED <<initializationErr, engine, registry, routeMiddleware, routesRegistered, running, registrar>>

RegistrationNext ==
  \/ \E m \in Middleware : Use(m)
  \/ \E r \in Route \ Static, m \in Middleware : RouteUse(r, m)
  \/ \E batch \in Batch, group \in {<<>>} \cup {<<m>> : m \in Middleware} : BindController(batch, group)
  \/ InstallRoute \/ Commit \/ InvalidateOpenAPI
  \/ \E r \in Static : MountStatic(r)
  \/ BeginRun \/ EndRun
  \/ ListRoutes \/ StoreDocument

-----------------------------------------------------------------------------
Settled == registrar.pc = "idle"

\* Gin executes exactly the controller routes the registry lists: a batch is
\* in both tables or in neither, whatever fails in the middle of it.
Installed == {r \in DOMAIN engine.chain \ (Static \cup {Docs}) : engine.chain[r] # <<>>}
TablesAgree == Settled => registry = Installed

\* An accepted middleware is in the chain of every controller route it was
\* meant for: Use for all of them, Route(...).Use for its route.
NoMiddlewareLost ==
  \A r \in registry :
    /\ Range(engine.handlers) \subseteq Range(engine.chain[r])
    /\ Range(routeMiddleware[r]) \subseteq Range(engine.chain[r])

\* The document OpenAPI would return now describes the routes of now.
DocumentIsCurrent == Settled /\ openapiCache # <<>> => openapiCache = <<registry>>

\* The topology of a running server does not change.
FrozenWhileRunning ==
  [][running => UNCHANGED <<engine, registry, routeMiddleware>>]_registrationVars
-----------------------------------------------------------------------------
(* The strengthening the proofs need                                         *)

Handlers == Seq(Middleware \cup Range(Framework))

RegistrationTypeOK ==
  /\ engine = [handlers |-> engine.handlers, chain |-> engine.chain]
  /\ engine.handlers \in Handlers
  /\ DOMAIN engine.chain \subseteq Route
  /\ engine.chain \in [DOMAIN engine.chain -> Handlers]
  /\ registry \subseteq Route
  /\ routeMiddleware \in [Route -> Handlers]
  /\ routesRegistered \in BOOLEAN /\ running \in BOOLEAN
  /\ registrar \in [pc : {"idle", "install", "invalidate"}, batch : Seq(Route), group : Handlers]
  /\ generator \in [pc : {"idle", "store"}, list : SUBSET Route]

\* What is left of a batch still fits beside all that is installed, and what is
\* installed of it is not yet in the registry.
BatchFits ==
  registrar.pc = "install" =>
    /\ engine.handlers # <<>>
    /\ registry = Installed \ Range(registrar.batch)
    /\ \A i \in DOMAIN registrar.batch :
         LET r == registrar.batch[i]
         IN  /\ r \notin Static \cup {Docs}
             /\ r \in DOMAIN engine.chain => engine.chain[r] # <<>>
             /\ r \notin DOMAIN engine.chain =>
                  ~Conflicting(r, DOMAIN engine.chain \cup {registrar.batch[j] : j \in 1 .. i - 1})

\* NoMiddlewareLost, from the moment Gin has a route.
ChainsComplete ==
  \A r \in Installed :
    /\ Range(engine.handlers) \subseteq Range(engine.chain[r])
    /\ Range(routeMiddleware[r]) \subseteq Range(engine.chain[r])

\* Between the commit and the invalidation a document may be of the routes before.
DocumentFollows ==
  registrar.pc # "invalidate" =>
    /\ openapiCache # <<>> => openapiCache = <<registry>>
    /\ generator.pc = "store" => generator.list = registry

RegistrationInv ==
  /\ RegistrationTypeOK
  /\ registrar.pc # "install" => registry = Installed
  /\ BatchFits
  /\ ChainsComplete
  /\ ~routesRegistered => registry = {}
  /\ DocumentFollows
  /\ running => registrar.pc = "idle"
=============================================================================
