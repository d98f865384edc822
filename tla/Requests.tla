------------------------------ MODULE Requests ------------------------------
(***************************************************************************)
(* One request through a Server: ServeHTTP, the chain of its route, the     *)
(* framework's handler for a controller method, the default response        *)
(* encoder and error handler (ghttp/server.go, middleware.go, handler.go,   *)
(* context.go, response.go, cors.go, openapi.go, middleware/builtin.go).    *)
(*                                                                         *)
(* The security settings may change while it is on its way (EnableCORS,     *)
(* EnableCSRF, SetAllowedHosts, EnableOpenAPI); a middleware reads a        *)
(* setting once, when the request comes to it.  Requests have nothing but   *)
(* these settings in common, so one is enough.                              *)
(***************************************************************************)
EXTENDS Registration, RouteContract, StaticFiles

CONSTANTS NotFound,      \* a path no route matches
          Fields,        \* the field sets of the controller methods
          Payload,       \* the requests a client may send to one of them
          PolicyChanges  \* bound: how often the settings change at run time

ASSUME RequestsAssumption == NotFound \notin Route /\ PolicyChanges \in Nat

\* A payload says of every field and place whether a value is there and what it
\* converts to.
ASSUME ContractAssumption ==
  /\ \A fields \in Fields : Describable(fields)
  /\ \A payload \in Payload :
       /\ payload.method \in Method /\ payload.type \in ContentType /\ payload.body \in Body
       /\ \A name \in UNION {{field.name : field \in fields} : fields \in Fields},
             place \in {"json"} \cup Source :
            payload.at[name][place] \in {"absent", "invalid"} \cup Held

VARIABLES policy,        \* [hosts, csrf, cors, openapi]: what is switched on
          policyChanges,
          request

requestVars == <<policy, policyChanges, request, visit>>

\* What can be wrong with a request before it is bound: a host that is not
\* allowed, an unsafe method without a matching token, a declared length
\* beyond the limit.
Flaw == {"none", "host", "token", "long"}

\* What a handler or a middleware has put on the wire: "raw" by Gin's writer,
\* "direct" by the methods of Context, and the framework's two envelopes.
NoRequest == [pc |-> "idle", route |-> NotFound, next |-> 0, flaw |-> "none", wraps |-> FALSE, wrote |-> FALSE, writes |-> <<>>,
              policies |-> {}, ran |-> FALSE]

RequestsInit(settings) ==
  /\ policy = settings /\ policyChanges = 0 /\ request = NoRequest
  /\ StaticFilesInit

Serving == request.pc # "idle"

\* Each setter takes settingsMu; the request under way sees the change or not.
\* Past the chain nothing of the request depends on the settings any more.
Switch(setting, value) ==
  /\ policyChanges < PolicyChanges /\ request.pc = "chain" /\ policy[setting] # value
  /\ policyChanges' = policyChanges + 1
  /\ policy' = [policy EXCEPT ![setting] = value]
  /\ request' = [request EXCEPT !.policies = @ \cup {policy'}]
  /\ UNCHANGED visit

SetAllowedHosts == \E on \in BOOLEAN : Switch("hosts", on)
EnableCSRF == \E on \in BOOLEAN : Switch("csrf", on)
EnableCORS == \E on \in BOOLEAN : Switch("cors", on)
EnableOpenAPI == \E on \in BOOLEAN : Switch("openapi", on)

Chained == IF request.route = NotFound THEN engine.handlers ELSE engine.chain[request.route]

\* ServeHTTP: a server with a construction error answers everything with 500.
\* A route the supplied engine came with bypasses the framework.
ServeHTTP(route, flaw) ==
  /\ ~Serving /\ (running \/ initializationErr) /\ generator.pc = "idle"
  /\ route \in {r \in DOMAIN engine.chain : engine.chain[r] # <<>>} \cup {NotFound}
  /\ request' =
       IF initializationErr THEN [NoRequest EXCEPT !.pc = "done", !.writes = <<"raw">>]
       ELSE [NoRequest EXCEPT !.pc = "chain", !.route = route, !.next = 1, !.flaw = flaw,
                              !.policies = {policy}]
  /\ UNCHANGED <<policy, policyChanges, visit>>

Written(r) == \E i \in DOMAIN r.writes : r.writes[i] # "status"

\* Mutant: whether something is written already is not looked at.
HandleErrorAgain(r) == [r EXCEPT !.writes = Append(@, "error"), !.wrote = TRUE]

\* handleError and defaultErrorHandler: nothing is added to what is written.
HandleError(r) ==
  IF Written(r) THEN r
  ELSE [r EXCEPT !.writes = Append(@, "error"), !.wrote = TRUE]

\* DefaultResponseEncoder, unless a method of Context has written.  A custom
\* encoder may fail instead.
EncodeResponse(r, encoder) ==
  IF r.wrote THEN r
  ELSE IF encoder = "fails" THEN HandleError(r)
  ELSE [r EXCEPT !.writes = Append(@, "success"), !.wrote = TRUE]

\* The way back through the middlewares that called Next.
Unwind(r) == [r EXCEPT !.pc = "unwind"]

Refuse(r) == Unwind(HandleError(r))
Advance(r) == [r EXCEPT !.next = @ + 1]

Keep == UNCHANGED <<policy, policyChanges, visit>>

At(name) == request.pc = "chain" /\ request.next <= Len(Chained) /\ Chained[request.next] = name

\* recoveryMiddleware installs its deferred function, and passes on.
Recovery == At("recovery") /\ request' = Advance(request) /\ Keep

HostRefuses == policy.hosts /\ request.flaw = "host"
HostValidation ==
  /\ At("host") /\ Keep
  /\ request' = IF HostRefuses THEN Refuse(request) ELSE Advance(request)

\* A declared length beyond the limit; a body that turns out longer fails when
\* it is read.
BodyLimit ==
  /\ At("limit") /\ Keep
  /\ request' = IF request.flaw = "long" THEN Refuse(request) ELSE Advance(request)

\* gin-contrib/cors: a preflight and a foreign origin end here, without an
\* envelope.
Cors(refuses) ==
  /\ At("cors") /\ Keep
  /\ refuses => policy.cors
  /\ request' = IF refuses
                THEN Unwind([request EXCEPT !.writes = Append(@, "status")])
                ELSE Advance(request)

\* A token is there and matches, or the method is a safe one.
CsrfRefuses == policy.csrf /\ request.flaw = "token"

\* Mutant: the refusal is written and the chain goes on.
CsrfWithoutAbort ==
  /\ At("csrf") /\ Keep
  /\ request' = IF CsrfRefuses THEN Advance(HandleError(request)) ELSE Advance(request)

Csrf ==
  /\ At("csrf") /\ Keep
  /\ request' = IF CsrfRefuses THEN Refuse(request) ELSE Advance(request)

\* What a middleware of the application may do: pass, write and pass, pass
\* and write on the way back, stop the chain with or without an answer, panic.
UserMiddleware(does) ==
  /\ request.pc = "chain" /\ request.next <= Len(Chained)
  /\ Chained[request.next] \in Middleware /\ Keep
  /\ request' =
       CASE does = "passes" -> Advance(request)
         [] does = "writes" -> Advance([request EXCEPT !.writes = Append(@, "raw")])
         [] does = "wraps"  -> Advance([request EXCEPT !.wraps = TRUE])
         [] does = "aborts" -> Unwind(request)
         [] does = "answers" -> Unwind([request EXCEPT !.writes = Append(@, "raw")])
         [] does = "panics" -> [request EXCEPT !.pc = "panic"]

\* The end of the chain is the route's own handler.
AtHandler == request.pc = "chain" /\ request.next = Len(Chained) + 1
Controller(r) == r \in Route \ (Static \cup {Docs})

\* handlerFor: Bind and validateRequest, for one of the methods.
Outcome(fields, payload) ==
  IF Bind(fields, payload) # "ok" THEN Bind(fields, payload)
  ELSE IF Validates(fields, payload) THEN "ok" ELSE "422"

Outcomes == {outcome \in {"ok", "400", "413", "422"} :
               \E fields \in Fields, payload \in Payload : Outcome(fields, payload) = outcome}

BindRequest(outcome) ==
  /\ AtHandler /\ Controller(request.route) /\ Keep
  /\ request' = IF outcome = "ok" THEN [request EXCEPT !.pc = "call"]
                ELSE Unwind(HandleError(request))

\* The method runs: it may write, by Context or by Gin, or only set a status
\* (Context.File without a file), and returns a value, an error, or panics.
CallMethod(writes, returns) ==
  /\ request.pc = "call" /\ Keep
  /\ LET called == [request EXCEPT !.ran = TRUE, !.writes = @ \o writes,
                                   !.wrote = @ \/ writes \in {<<"direct">>, <<"status">>}]
     IN  request' = CASE returns = "panic" -> [called EXCEPT !.pc = "panic"]
                      [] returns = "error" -> Unwind(HandleError(called))
                      [] OTHER             -> [called EXCEPT !.pc = "encode"]

Encode(encoder) ==
  /\ request.pc = "encode" /\ Keep
  /\ request' = Unwind(EncodeResponse(request, encoder))

\* openAPIHandler and swaggerHandler, and Gin's own answer to an unknown path.
ServeDocument ==
  /\ AtHandler /\ request.route = Docs /\ Keep
  /\ request' = Unwind([request EXCEPT !.writes = Append(@, IF policy.openapi THEN "raw" ELSE "status")])

ServeNotFound ==
  /\ AtHandler /\ request.route = NotFound /\ Keep
  /\ request' = Unwind([request EXCEPT !.writes = IF Written(request) THEN @ ELSE Append(@, "raw")])

EnterStatic(mount, get, path) ==
  /\ AtHandler /\ request.route \in Static
  /\ request' = [request EXCEPT !.pc = "static", !.flaw = "none", !.policies = {}]
  /\ visit' = Entered(mount, get, path)
  /\ UNCHANGED <<policy, policyChanges>>

LeaveStatic ==
  /\ request.pc = "static" /\ visit.pc = "idle"
  /\ request' = Unwind([request EXCEPT !.writes =
                          Append(@, IF visit.answer = "404" THEN "status" ELSE "raw")])
  /\ visit' = Outside
  /\ UNCHANGED <<policy, policyChanges>>

\* A middleware that wraps the rest may add to the answer; the request ends
\* when the outermost returns.
Resume(writes) ==
  /\ request.pc = "unwind" /\ Keep
  /\ writes => request.wraps
  /\ request' = [request EXCEPT !.pc = "done", !.writes = IF writes THEN Append(@, "raw") ELSE @]

\* The deferred function of recoveryMiddleware.  The panic has passed all
\* that was to run after Next.
Recover ==
  /\ request.pc = "panic" /\ Keep
  /\ request' = Unwind([HandleError(request) EXCEPT !.wraps = FALSE])

RequestStep ==
  \/ \E route \in Route \cup {NotFound}, flaw \in Flaw :
       ServeHTTP(route, flaw)
  \/ Recovery \/ HostValidation \/ BodyLimit \/ Csrf
  \/ \E refuses \in BOOLEAN : Cors(refuses)
  \/ \E does \in {"passes", "writes", "wraps", "aborts", "answers", "panics"} : UserMiddleware(does)
  \/ \E outcome \in Outcomes : BindRequest(outcome)
  \/ \E writes \in {<<>>, <<"raw">>, <<"direct">>, <<"status">>}, returns \in {"value", "error", "panic"} :
       CallMethod(writes, returns)
  \/ \E encoder \in {"writes", "fails"} : Encode(encoder)
  \/ ServeDocument \/ ServeNotFound
  \/ \E mount \in MountPoint, get \in BOOLEAN, path \in RequestPath : EnterStatic(mount, get, path)
  \/ LeaveStatic
  \/ \E writes \in BOOLEAN : Resume(writes)
  \/ Recover
  \/ SetAllowedHosts \/ EnableCSRF \/ EnableCORS \/ EnableOpenAPI

RequestsNext ==
  \/ RequestStep
  \/ VisitStep /\ request.pc = "static" /\ UNCHANGED <<policy, policyChanges, request>>

-----------------------------------------------------------------------------
Envelopes(r) == {i \in DOMAIN r.writes : r.writes[i] \in {"success", "error"}}

\* The framework answers a request once: at most one envelope, an error
\* envelope only on an empty response, no success envelope after what a
\* controller wrote by Context, and an answer of some kind unless a
\* middleware stopped the chain in silence.
OneEnvelope ==
  /\ Cardinality(Envelopes(request)) <= 1
  /\ \A i \in DOMAIN request.writes :
       /\ request.writes[i] = "error" => \A j \in 1 .. i - 1 : request.writes[j] = "status"
       /\ request.writes[i] = "success" => \A j \in 1 .. i - 1 : request.writes[j] # "direct"
  /\ request.pc = "done" /\ request.ran => request.writes # <<>>

\* A controller runs only for a request that the host check and the CSRF check
\* in force at some moment of it let through.
AdmittedByPolicy ==
  request.ran =>
    /\ request.flaw = "host"  => \E p \in request.policies : ~p.hosts
    /\ request.flaw = "token" => \E p \in request.policies : ~p.csrf
    /\ request.flaw # "long"

\* Nothing can fill a required field that json:"-" hides, and the compiler
\* accepts a file field under a tag that only strings come from.
Fillable(field) ==
  /\ field.required => field.sources # {} \/ field.json
  /\ field.kind = "file" => field.sources \subseteq {"file", "form"}

\* A request that keeps to the OpenAPI document of its route is bound, and validated
\* if it keeps what the document does not say as well; and a request that is accepted
\* has a value, not a zero one, for every required field, its default if nothing else.
DocumentedBinds ==
  \A fields \in Fields, payload \in Payload :
    (\A field \in fields : Fillable(field)) /\ Follows(fields, payload) =>
      /\ Bind(fields, payload) = "ok"
      /\ KeepsRules(fields, payload) => Outcome(fields, payload) = "ok"

AcceptedIsGiven ==
  \A fields \in Fields, payload \in Payload :
    Outcome(fields, payload) = "ok" =>
      \A field \in {f \in fields : f.required} : field.default = "valid" \/ GivenFor(payload, field)

DocumentedRequestsBind == request = NoRequest => DocumentedBinds /\ AcceptedIsGiven
=============================================================================
