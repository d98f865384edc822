---------------------------- MODULE Application ----------------------------
(***************************************************************************)
(* A Server from NewServer to its last request: the settings are settled,   *)
(* the framework's handlers installed, routes registered, and requests      *)
(* served while the server runs (ghttp/server.go and what it calls).        *)
(***************************************************************************)
EXTENDS Requests, ServerSettings

CONSTANTS OptionList,   \* the sequences of options NewServer is called with
          Loaded,       \* what LoadDefault may return: [config, error]
          Attached,     \* WithConfig: <<>>, or a configuration
          Supplied,     \* WithGinEngine: the routes the engine holds already
          FromConfig    \* the static routes the configuration may mount

ASSUME ApplicationAssumption ==
  /\ \A options \in OptionList : options \in Seq(Range(options))
  /\ FromConfig \subseteq Static
  /\ \A supplied \in Supplied : supplied \subseteq Route
  /\ Middleware \cap Range(Framework) = {}

VARIABLES construction

applicationVars == <<construction, registrationVars, requestVars>>

\* newServerDefaults: what is on from the start, and what is off until it is
\* switched on or given; every other setting has a value of the framework's.
OnByDefault  == {"logger", "scheduler", "openapi", "session", "requestID"}
OffByDefault == {"mode", "tls", "templateRoot", "cors", "csrf", "allowedHosts",
                 "trustedProxies", "static"}
Defaults == [value  |-> [s \in Setting |-> IF s \in OnByDefault THEN On
                                           ELSE IF s \in OffByDefault THEN Off ELSE BuiltIn],
             set    |-> {}, errors |-> {}]

ApplicationInit ==
  /\ construction = [pc |-> "new"]
  /\ RegistrationInit
  /\ RequestsInit([hosts |-> FALSE, csrf |-> FALSE, cors |-> FALSE, openapi |-> FALSE])

\* NewServer runs its options in order over the defaults ...
NewServer(options) ==
  /\ construction.pc = "new"
  /\ construction' = [pc |-> "options", options |-> options, taken |-> 0, draft |-> Defaults]
  /\ UNCHANGED <<registrationVars, requestVars>>

TakeOption ==
  /\ construction.pc = "options" /\ construction.taken < Len(construction.options)
  /\ LET next == construction.taken + 1
     IN  construction' = [pc |-> "options", options |-> construction.options, taken |-> next,
                          draft |-> ApplyOption(construction.draft, construction.options[next])]
  /\ UNCHANGED <<registrationVars, requestVars>>

\* ... and asks the configuration, which no option reads, for the rest.
Settle(loaded, attached) ==
  /\ construction.pc = "options" /\ construction.taken = Len(construction.options)
  /\ construction' = [pc |-> "settled", options |-> construction.options,
                      config |-> IF attached = <<>> THEN loaded.config ELSE Head(attached),
                      settled |-> Initialized(construction.draft, loaded, attached)]
  /\ UNCHANGED <<registrationVars, requestVars>>

\* The rest of initialize; what it leaves behind is the policy and the engine.
Initialize(supplied) ==
  LET value == construction.settled.value
  IN  /\ construction.pc = "settled"
      /\ construction' = [pc |-> "done"]
      /\ InstallFramework(supplied, IF value["static"] = On THEN FromConfig ELSE {},
                          construction.settled.errors)
      /\ policy' = [hosts   |-> value["allowedHosts"] # Off, csrf    |-> value["csrf"] # Off,
                    cors    |-> value["cors"] # Off,         openapi |-> value["openapi"] # Off]
      /\ UNCHANGED <<policyChanges, request, visit>>

\* Gin's tables are not locked: routes are registered while no request is
\* served, and a run ends when the last request is answered.
Register == ~Serving /\ RegistrationNext /\ UNCHANGED <<construction, requestVars>>
ServeRequest == construction.pc = "done" /\ RequestsNext /\ UNCHANGED <<construction, registrationVars>>

ApplicationNext ==
  \/ \E options \in OptionList : NewServer(options)
  \/ TakeOption
  \/ \E loaded \in Loaded, attached \in Attached : Settle(loaded, attached)
  \/ \E supplied \in Supplied : Initialize(supplied)
  \/ Register \/ ServeRequest

Spec == ApplicationInit /\ [][ApplicationNext]_applicationVars

-----------------------------------------------------------------------------
\* The order the README gives: an option first, the last one that says
\* anything of the setting; then Set, the environment, .env and the file; then
\* the default.  Only switching the logger off in the configuration overrules
\* an option.
Says(option, s) == s \in DOMAIN Decided(option) \ Refused(option)

ReadmeOrder == <<"runtime", "environment", "dotenv", "file", "default">>

\* The README's order is about the spelling it documents, and about variables and Set
\* of the key itself, not of a key that encloses it.
DocumentedSpelling(config, s) ==
  \A layer \in {"enclosing", "compact", "compactDotenv", "shadow"} : ~Has(config, layer, s)

SettingsPrecedence ==
  construction.pc = "settled" =>
    \A s \in Setting \ {"sessionCookie"} :
      LET spoken   == {i \in DOMAIN construction.options : Says(construction.options[i], s)}
          refused  == \E i \in DOMAIN construction.options : s \in Refused(construction.options[i])
          config   == First(construction.config, ReadmeOrder, s)
          result   == construction.settled.value[s]
      IN  ~refused /\ DocumentedSpelling(construction.config, s) =>
            result = IF s = "logger" /\ config = Off THEN Off
                     ELSE IF spoken # {} THEN Decided(construction.options[Max(spoken)])[s]
                     ELSE IF s \notin NoKey /\ Usable(config) THEN config
                     ELSE Defaults.value[s]

\* README.md:148: a variable of the environment overrides the key it names, and a key
\* without one keeps the value of the file.  A variable named like an enclosing key
\* (SERVER, for server.address) takes that value away (config.go:62 and :180).
FileValueStays ==
  construction.pc = "settled" =>
    \A s \in Setting \ (NoKey \cup {"sessionCookie"}) :
      LET config == construction.config
          unnamed == \A layer \in Layer \ {"shadow", "file", "default"} : ~Has(config, layer, s)
          silent  == \A i \in DOMAIN construction.options : ~Says(construction.options[i], s)
      IN  unnamed /\ silent /\ Has(config, "file", s) /\ Usable(config["file"][s]) =>
            construction.settled.value[s] = config["file"][s]

\* What the proofs need.  While the options are taken, a setting is marked as set by
\* those that say something of it, and has the value of the last of them.
SaidBy(options, n, draft, s) ==
  IF s \in draft.set
  THEN \E i \in 1 .. n : /\ Says(options[i], s) /\ draft.value[s] = Decided(options[i])[s]
                         /\ \A j \in i + 1 .. n : ~Says(options[j], s)
  ELSE /\ draft.value[s] = Defaults.value[s]
       /\ \A i \in 1 .. n : ~Says(options[i], s)

DraftInv ==
  construction.pc = "options" =>
    /\ construction.options \in OptionList
    /\ construction.taken \in 0 .. Len(construction.options)
    /\ \A s \in Setting :
         SaidBy(construction.options, construction.taken, construction.draft, s)

\* Before the framework's handlers are installed nothing is
\* registered and nothing runs.
Fresh ==
  construction.pc # "done" =>
    /\ engine.handlers = <<>>
    /\ registry = {} /\ registrar = Idle /\ ~routesRegistered /\ ~running

\* The framework's handlers are at the head of every chain that is not the
\* supplied engine's own.
Framed(handlers) ==
  handlers # <<>> => /\ Len(Framework) <= Len(handlers)
                     /\ \A i \in 1 .. Len(Framework) : handlers[i] = Framework[i]
ChainsFramed ==
  /\ Framed(engine.handlers) /\ \A r \in DOMAIN engine.chain : Framed(engine.chain[r])
  /\ construction.pc = "done" <=> engine.handlers # <<>>

HostAdmitted(r) == r.flaw = "host" => \E p \in r.policies : ~p.hosts
TokenAdmitted(r) == r.flaw = "token" => \E p \in r.policies : ~p.csrf
Admitted(r) == HostAdmitted(r) /\ TokenAdmitted(r) /\ r.flaw # "long"

RequestRecord(r) ==
  r = [pc |-> r.pc, route |-> r.route, next |-> r.next, flaw |-> r.flaw, wraps |-> r.wraps,
       wrote |-> r.wrote, writes |-> r.writes, policies |-> r.policies, ran |-> r.ran]

\* What a request has passed, by the place it has come to in its chain.
ChecksPassed ==
  /\ RequestRecord(request)
  /\ request.pc = "chain" =>
       /\ request.next \in Nat /\ Chained # <<>> /\ ~request.ran
       /\ request.route \in DOMAIN engine.chain \cup {NotFound}
       /\ policy \in request.policies
       /\ request.next > 2 => HostAdmitted(request)
       /\ request.next > 3 => request.flaw # "long"
       /\ request.next > 5 => TokenAdmitted(request)
  /\ request.pc \in {"call", "encode"} \/ request.ran => Admitted(request)
  /\ construction.pc # "done" => ~Serving

Write == {"raw", "direct", "status", "error", "success"}
Unanswered(writes) == \A i \in DOMAIN writes : writes[i] \notin {"direct", "error", "success"}
Single(writes) ==
  \A i \in DOMAIN writes :
    /\ writes[i] = "error" => \A j \in 1 .. i - 1 : writes[j] = "status"
    /\ writes[i] = "success" => \A j \in 1 .. i - 1 : writes[j] \notin {"direct", "error", "success"}

\* What wrote remembers of the writes of a request.
Answers(r) ==
  /\ RequestRecord(r) /\ r.wrote \in BOOLEAN
  /\ r.writes \in Seq(Write) /\ Single(r.writes)
  /\ IF r.wrote THEN r.writes # <<>> ELSE Unanswered(r.writes)

AnsweredOnce ==
  /\ Answers(request)
  /\ request.pc \in {"unwind", "done"} /\ request.ran => request.writes # <<>>
=============================================================================
