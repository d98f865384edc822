--------------------------- MODULE MCApplication ---------------------------
(* Two controller routes and a static mount that may be in each other's way;  *)
(* pairs of options that decide the same settings; one key in every layer of  *)
(* a configuration; methods with one field of every kind or two text fields,  *)
(* and requests that fill at most one place of each.                          *)
EXTENDS Application

MCConflict == {<<"a", "s">>, <<"s", "a">>}
MCBatch == {<<"a">>, <<"b", "a">>, <<"b", "b">>}
MCMounts == Mounts

\* ---- construction
Opt(n, g) == [name |-> n, gives |-> g]
MCOption ==
  {Opt("WithAddress", [address |-> "here"]), Opt("WithAddress", [address |-> Blank]),
   Opt("WithSecurityOptions", [csrf |-> On, allowedHosts |-> On]),
   Opt("WithCSRF", [csrf |-> Insecure]), Opt("WithCORS", [cors |-> Insecure]),
   Opt("WithOpenAPI", [openapi |-> Off, openapiPath |-> "p"]), Opt("WithOpenAPI", [openapi |-> On]),
   Opt("WithErrorHandler", [errorHandler |-> On]), Opt("WithLogger", [logger |-> On]),
   Opt("WithTemplateRoot", [templateRoot |-> Invalid]), Opt("WithMode", [mode |-> Invalid]),
   Opt("WithSessionManager", [session |-> Insecure]), Opt("WithRequestID", [requestID |-> Off]),
   Opt("WithSessionOptions", [session |-> On, sessionCookie |-> On]),
   Opt("WithSessionCookieOptions", [sessionCookie |-> Insecure]), Opt("WithScheduler", [scheduler |-> Off])}
Related(o, p) == \E n \in Setting : n \in DOMAIN Decided(o) \cap DOMAIN Decided(p)
MCOptionList ==
  {<<>>} \cup {<<o>> : o \in MCOption} \cup {pair \in MCOption \X MCOption : Related(pair[1], pair[2])}

Keys == {"address", "csrf", "logger", "static", "mode", "session"}
Only(key, value) == [k \in {key} |-> value]
AllPlaces == {Places[i] : i \in DOMAIN Places}
Loading(k, environment, shadowed, dotenv, file, value) ==
  LoadDefault([dotenv |-> dotenv,
               files  |-> [p \in AllPlaces |-> IF p = Places[1] THEN "absent" ELSE file],
               values |-> [dotenv |-> Only(k, "dotenv"), compactDotenv |-> NoLayer,
                           file   |-> [p \in AllPlaces |-> Only(k, value)]]],
              [environment |-> environment, compact |-> NoLayer, shadowed |-> shadowed])
File == {"absent", "valid", "malformed"}
MCLoaded == UNION {{Loading(k, e, h, d, f, v) : e \in {NoLayer, Only(k, On), Only(k, Invalid)},
                                              h \in {{}, {k}}, d, f \in File, v \in {Off, On}} : k \in Keys}
MCAttached == {<<>>, <<Set(SetDefault(EmptyConfiguration, "mode", On), "logger", Off)>>}

\* ---- binding
Fld(n, s, j, k, d, r) ==
  [name |-> n, sources |-> s, json |-> j, kind |-> k, default |-> d, required |-> r,
   strict |-> FALSE]
Sources2 == {{}} \cup {{s} : s \in Source} \cup {{"query", "header"}, {"path", "query"}, {"form", "query"}}
MCField ==
  {f \in [name : {"x"}, sources : Sources2, json : BOOLEAN, kind : {"text", "file", "other"},
          default : {"none", "zero", "valid", "invalid"}, required : BOOLEAN, strict : BOOLEAN] :
     /\ f.strict => f.kind = "text" /\ f.default = "none"
     /\ f.sources = {} => f.default = "none"
     /\ f.default \in {"zero", "invalid"} => f.sources \in {{"query"}, {"form"}}}
Text(s) == Fld("y", s, s = {}, "text", "none", TRUE)
Methods ==
  {<<[meta |-> TRUE, defects |-> {}, parameters |-> {g.name : g \in {g \in f : "path" \in g.sources}},
      fields |-> f]>> :
      f \in {{f} : f \in MCField} \cup {{f, Text(s)} : f \in {g \in MCField : g.kind # "other"},
                                                      s \in {{"query"}, {"form"}, {}}}}
MCFields ==
  {f \in UNION {{m.fields : m \in {r \in {ScanController(c).routes[i] : i \in DOMAIN ScanController(c).routes} :
                                     ValidPathBindings(r)}} : c \in Methods} :
     LET form == {g \in f : {"form", "file"} \cap g.sources # {}}
         json == {g \in f : g.sources = {} /\ g.json}
     IN  (form = {} \/ json = {})}
Place == {"json"} \cup Source
At1(p, v) == [q \in Place |-> IF q = p THEN v ELSE "absent"]
Nowhere == [q \in Place |-> "absent"]
MCAt(values) == {Nowhere} \cup {At1(p, v) : p \in Place, v \in values}
Unread(p) == \A n \in {"x", "y"}, q \in {"json", "form", "file"} : p.at[n][q] = "absent"
MCPayload == {p \in [method : Method, type : ContentType, body : Body,
                     at : {[x |-> a, y |-> b] : a \in MCAt({"valid", "invalid", "zero"}) \cup
                                                      {At1(p, "refused") : p \in {"json", "query"}},
                                                b \in {Nowhere} \cup
                                                      {At1(p, "valid") : p \in {"json", "query", "form"}}}] :
                /\ p.body = "valid" \/ Unread(p)
                /\ p.body \in {"malformed", "tooLarge"} => p.at.y = Nowhere
                /\ p.method = "POST" \/ p.type = "form"}
=============================================================================
