--------------------------- MODULE ServerSettings ---------------------------
(***************************************************************************)
(* How NewServer settles the settings of a Server: built-in defaults, then  *)
(* the options in the order they are given, then the configuration for what *)
(* no option decided (ghttp/server.go, options.go, config.go, mode.go).     *)
(*                                                                         *)
(* A value is opaque except where the code looks inside it.  Off is the     *)
(* value that switches a feature off (release, for the mode), BuiltIn the   *)
(* value a Server is created with where that is neither On nor Off, Blank   *)
(* an empty or non-positive one, Invalid one that does not parse, and       *)
(* Insecure one that parses and that a browser rule forbids (for a session  *)
(* manager, the cookie settings it brings).                                 *)
(***************************************************************************)
EXTENDS Sequences, FiniteSets, SequencesExt, Configuration

Off == "off"
On == "on"
BuiltIn == "builtIn"
Invalid == "invalid"
Insecure == "insecure"
Blank == "blank"

Setting == {"address", "mode", "readTimeout", "writeTimeout", "idleTimeout",
            "bodyLimit", "multipartLimit", "headerLimit", "shutdownTimeout",
            "tls", "openapi", "openapiPath", "swaggerPath", "templateRoot",
            "logger", "scheduler", "session", "sessionCookie", "cors", "csrf",
            "allowedHosts", "trustedProxies", "static", "encoder",
            "errorHandler", "requestID", "bindingValidator", "validateValidator"}

(***************************************************************************)
(* The options.  An option is [name, gives], gives a function from the      *)
(* settings its argument mentions to the values.  A setting in always is    *)
(* written whatever the argument says (a missing field is Off); one in      *)
(* guarded only when its value is not Blank; and one in disables is         *)
(* switched off when the option takes effect.                               *)
(***************************************************************************)
Writes(always, guarded, disables) ==
  [always |-> always, guarded |-> guarded, disables |-> disables]

Options == [
  WithAddress              |-> Writes({}, {"address"}, {}),
  WithMode                 |-> Writes({"mode"}, {}, {}),
  WithTimeouts             |-> Writes({}, {"readTimeout", "writeTimeout", "idleTimeout", "shutdownTimeout"}, {}),
  WithHTTPTimeouts         |-> Writes({}, {"readTimeout", "writeTimeout", "idleTimeout"}, {}),
  WithShutdownTimeout      |-> Writes({}, {"shutdownTimeout"}, {}),
  WithRequestLimits        |-> Writes({}, {"bodyLimit", "multipartLimit", "headerLimit"}, {}),
  WithRequestID            |-> Writes({"requestID"}, {}, {}),
  WithTLS                  |-> Writes({"tls"}, {}, {}),
  WithLogger               |-> Writes({}, {"logger"}, {}),
  WithScheduler            |-> Writes({"scheduler"}, {}, {}),
  WithSchedulerOptions     |-> Writes({"scheduler"}, {}, {}),
  WithSessionManager       |-> Writes({}, {"session"}, {}),
  WithSessionCookieOptions |-> Writes({"sessionCookie"}, {}, {}),
  WithSessionOptions       |-> Writes({}, {"session", "sessionCookie"}, {}),
  WithSecurityOptions      |-> Writes({"allowedHosts", "cors", "csrf"}, {}, {}),
  WithAllowedHosts         |-> Writes({"allowedHosts"}, {}, {}),
  WithCORS                 |-> Writes({"cors"}, {}, {}),
  WithCSRF                 |-> Writes({"csrf"}, {}, {}),
  WithOpenAPI              |-> Writes({"openapi"}, {"openapiPath", "swaggerPath"}, {}),
  WithOpenAPIPath          |-> Writes({}, {"openapiPath"}, {}),
  WithSwaggerPath          |-> Writes({}, {"swaggerPath"}, {}),
  WithTemplateRoot         |-> Writes({}, {"templateRoot"}, {}),
  WithResponseEncoder      |-> Writes({}, {"encoder"}, {"openapi"}),
  WithErrorHandler         |-> Writes({}, {"errorHandler"}, {"openapi"}),
  WithBindingValidator     |-> Writes({}, {"bindingValidator"}, {}),
  WithValidator            |-> Writes({}, {"validateValidator"}, {})]

Given(option, s) == IF s \in DOMAIN option.gives THEN option.gives[s] ELSE Blank

\* The settings an option decides, with what it says of each.
Decided(option) ==
  LET writes == Options[option.name]
      taken  == {s \in writes.guarded : Given(option, s) # Blank}
      silent == IF taken = {} THEN {} ELSE writes.disables
  IN  [s \in writes.always \cup taken \cup silent |->
         IF s \in silent \/ Given(option, s) = Blank THEN Off ELSE option.gives[s]]

\* A root that does not load is not published as the option's value, and a
\* scheduler that is nil is refused: both leave a construction error.
Refused(option) ==
  {s \in DOMAIN Decided(option) :
     \/ s = "templateRoot" /\ Decided(option)[s] = Invalid
     \/ option.name = "WithScheduler" /\ Decided(option)[s] = Off}

\* One option of the loop of NewServer.
ApplyOption(draft, option) ==
  LET taken == DOMAIN Decided(option) \ Refused(option)
  IN  [value  |-> [s \in Setting |-> IF s \in taken THEN Decided(option)[s] ELSE draft.value[s]],
       set    |-> draft.set \cup taken,
       errors |-> draft.errors \cup Refused(option)]

(***************************************************************************)
(* applyLoggerConfig, applyModeConfig and applyConfig.                      *)
(***************************************************************************)

\* What the configuration says of a setting: one key each, but for the
\* groups, whose keys are read together and summed up in one value.
Configured(config, s) == Get(config, s)

\* The parsers that report a value they cannot use; the others ignore it.
Strict == {"mode", "shutdownTimeout", "headerLimit", "scheduler", "csrf",
           "session", "sessionCookie", "logger", "templateRoot",
           "trustedProxies", "static"}

\* The settings no configuration key can decide.
NoKey == {"encoder", "errorHandler", "requestID", "bindingValidator",
          "validateValidator"}

Usable(value) == value \notin {None, Blank, Invalid}

\* Unmarshal, and not Get, reads the static mappings.
ConfigValue(config, s) == IF s = "static" THEN Unmarshal(config, s) ELSE Configured(config, s)

\* applyConfig: an option wins, a usable value of the configuration comes
\* next, and the default stays otherwise.  Switching the logger off in the
\* configuration is the one value that beats an option.  A session manager
\* given as an option keeps its cookie settings, and with sessions switched
\* off nobody reads them.
Resolve(draft, config) ==
  LET value(s) == ConfigValue(config, s)
      read     == (Setting \ (NoKey \cup draft.set)) \cup {"sessionCookie"}
      ownCookie == "session" \in draft.set \/ value("session") = Off
      consulted == IF ownCookie THEN read \ {"sessionCookie"} ELSE read
  IN  [value  |-> [s \in Setting |->
                     IF s = "logger" /\ value(s) = Off THEN Off
                     ELSE IF s \in consulted \ draft.set /\ Usable(value(s)) THEN value(s)
                     ELSE draft.value[s]],
       errors |-> draft.errors \cup {s \in consulted \cap Strict : value(s) = Invalid}]

\* The cookies of the session manager, if there is one: its own, or those given
\* for it.
InsecureCookies(value) ==
  /\ value["session"] # Off
  /\ \/ value["sessionCookie"] = Insecure
     \/ value["sessionCookie"] = BuiltIn /\ value["session"] = Insecure

\* What initialize still refuses, wherever it comes from: an unknown mode,
\* CORS, CSRF and session cookies that break the browser's rules, and one
\* validator in both places.
Checked(settled) ==
  LET value == settled.value
  IN  settled.errors
        \cup {s \in {"mode"} : value[s] = Invalid}
        \cup {s \in {"cors", "csrf"} : value[s] = Insecure}
        \cup {s \in {"sessionCookie"} : InsecureCookies(value)}
        \cup {s \in {"bindingValidator"} :
                 value[s] # BuiltIn /\ value[s] = value["validateValidator"]}

\* initialize: the configuration for what no option decided, then the checks.  An
\* error in the default configuration counts unless WithConfig attached
\* another one (attached is empty or holds that one).
Initialized(draft, loaded, attached) ==
  LET settled == Resolve(draft, IF attached = <<>> THEN loaded.config ELSE Head(attached))
  IN  [value  |-> settled.value,
       errors |-> Checked(settled) \cup
                    IF loaded.error /\ attached = <<>> THEN {"config"} ELSE {}]
=============================================================================
