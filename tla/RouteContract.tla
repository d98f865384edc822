--------------------------- MODULE RouteContract ---------------------------
(***************************************************************************)
(* What a controller declares and what a request makes of it: the scan of a *)
(* controller into routes (router/controller.go, meta.go), the compiled     *)
(* binding plan and its execution (router/binder*.go), validation           *)
(* (ghttp/validation.go) and the OpenAPI description of the same            *)
(* declaration (openapi/*.go).                                              *)
(*                                                                         *)
(* A value converts to the zero value of the field's type, to one that a    *)
(* rule other than required refuses, or to a plain one; these are Held.     *)
(* A field is a record: sources, the tags it carries; json, whether it      *)
(* belongs to a JSON body; kind, "text", "file" (a multipart file) or       *)
(* "other" (a type no string converts to); default, "none", "invalid" or    *)
(* Held; required, a rule of either validator; strict, another rule that    *)
(* refuses the zero value (email or oneof, without omitempty).              *)
(***************************************************************************)
EXTENDS Integers, Sequences, FiniteSets, SequencesExt

Source == {"file", "path", "query", "header", "cookie", "form"}
Parameters == {"path", "query", "header", "cookie"}
Held == {"zero", "refused", "valid"}

(***************************************************************************)
(* Scanning and compiling.                                                  *)
(***************************************************************************)

\* validateControllerMethod and validateResponseType, ParseMeta and
\* pathParameterNames: what can be wrong with one method.
Defect == {"arguments", "results", "response", "path", "parameters", "method", "deprecated"}

\* collectFieldBindings: one field of the plan.
FieldCompiles(field) ==
  LET text == field.sources \ {"file"}
  IN  /\ "file" \in field.sources => field.kind = "file"
      /\ text # {} => field.kind # "other"
      /\ (field.default # "none" /\ text # {}) =>
           "path" \notin field.sources /\ field.default \in Held /\ field.kind = "text"

\* A default without a source that reads strings is not part of the plan.
HasDefault(field) == field.default \in Held /\ field.sources \ {"file"} # {}

\* ScanController: a method without Meta is skipped, a defective one fails
\* the whole controller, and a controller must have one route.
ScanController(controller) ==
  LET methods == SelectSeq(controller, LAMBDA method : method.meta)
      broken(method) == \/ method.defects # {}
                        \/ \E field \in method.fields : ~FieldCompiles(field)
  IN  IF methods = <<>> \/ \E i \in DOMAIN methods : broken(methods[i])
      THEN [ok |-> FALSE, routes |-> <<>>]
      ELSE [ok |-> TRUE, routes |-> methods]

\* ValidatePathBindings: the wildcards of the path and the fields tagged
\* path are the same names, each once.
ValidPathBindings(route) ==
  /\ route.parameters = {field.name : field \in {f \in route.fields : "path" \in f.sources}}
  /\ \A f, g \in route.fields :
       ("path" \in f.sources /\ "path" \in g.sources /\ f.name = g.name) => f = g

(***************************************************************************)
(* Binding.  A payload gives the method (POST stands for PUT and PATCH too,  *)
(* GET for the others), the content type, the state of the body, and for    *)
(* each field and place what is there: "absent", "invalid" (it does not     *)
(* convert) or Held.  The place "json" is the body's.                       *)
(***************************************************************************)
Method == {"POST", "GET"}
ContentType == {"none", "json", "form", "multipart", "other"}
Body == {"empty", "valid", "malformed", "tooLarge"}

Refusal(body) == IF body = "tooLarge" THEN "413" ELSE "400"

\* ParseForm reads a url-encoded body for POST, PUT and PATCH only;
\* ParseMultipartForm reads its own for every method.
ReadsForm(payload) ==
  payload.type = "multipart" \/ (payload.type = "form" /\ payload.method = "POST")

\* bindJSON and parseFormBody.  An empty multipart body does not parse; an
\* empty JSON or form body is an empty value.
BodyError(payload) ==
  CASE payload.type = "json" \/ (payload.type = "form" /\ ReadsForm(payload))
                                     -> payload.body \in {"malformed", "tooLarge"}
    [] payload.type = "multipart"        -> payload.body # "valid"
    [] OTHER                             -> FALSE

\* bindFile, bindPath, bindQuery, bindHeader, bindCookie and bindForm: where
\* a source finds something.  A file is looked for under the name of its
\* form tag too, and a form field falls back to the query string.
Found(payload, field, source) ==
  LET there(place) == payload.at[field.name][place] # "absent"
  IN  CASE source = "file"  -> /\ payload.type = "multipart"
                               /\ field.kind = "file"
                               /\ IF "file" \in field.sources THEN there("file") ELSE there("form")
        [] source = "form"  -> (ReadsForm(payload) /\ there("form")) \/ there("query")
        [] OTHER            -> there(source)

\* Mutant: cookies are forgotten.
TriedWithoutCookie(field) ==
  (field.sources \ {"cookie"})
    \cup {source \in {"file"} : field.kind = "file" /\ "form" \in field.sources}

\* The sources bindSources looks into, and the order it tries them in.
Tried(field) ==
  field.sources \cup {source \in {"file"} : field.kind = "file" /\ "form" \in field.sources}

Rank == [file |-> 1, path |-> 2, query |-> 3, header |-> 4, cookie |-> 5, form |-> 6]

\* The source that decides a field: a value found in a tagged source replaces
\* what the JSON body said, and so does the default when none is found.
Decides(payload, field) ==
  LET finds == {source \in Tried(field) : Found(payload, field, source)}
  IN  IF finds # {} THEN CHOOSE source \in finds : \A other \in finds : Rank[source] <= Rank[other]
      ELSE IF HasDefault(field) THEN "default"
      ELSE IF payload.type = "json" /\ payload.at[field.name]["json"] # "absent" THEN "json"
      ELSE "zero"

\* What the field is given; a file is there or not.
Value(payload, field) ==
  LET source == Decides(payload, field)
      at     == payload.at[field.name]
  IN  CASE source = "zero"    -> "zero"
        [] source = "default" -> field.default
        [] source = "file"    -> "valid"
        [] source = "form"    -> IF ReadsForm(payload) /\ at["form"] # "absent"
                                 THEN at["form"] ELSE at["query"]
        [] OTHER              -> at[source]

\* A string does not convert to a file, and an invalid one to nothing.
Converts(payload, field) ==
  Decides(payload, field) \notin {"default", "json", "zero", "file"} =>
    field.kind = "text" /\ Value(payload, field) # "invalid"

\* Bind: "ok", or the status of the refusal.
Bind(fields, payload) ==
  IF BodyError(payload) THEN Refusal(payload.body)
  ELSE IF \E field \in fields : payload.type = "json" /\ payload.at[field.name]["json"] = "invalid"
       THEN "400"
  ELSE IF \A field \in fields : Converts(payload, field) THEN "ok" ELSE "400"

\* validateRequest, with the framework's validators: required refuses a zero value,
\* given or not.
Validates(fields, payload) ==
  \A field \in fields :
    /\ Value(payload, field) # "refused"
    /\ field.required \/ field.strict => Value(payload, field) # "zero"

(***************************************************************************)
(* The document: parametersForRoute, requestBodyForRoute and bodySchema.    *)
(***************************************************************************)
Documented(fields) ==
  LET form == {f \in fields : {"form", "file"} \cap f.sources # {}}
      json == {f \in fields : f.sources = {} /\ f.json}
      multipart == \E f \in form : f.kind = "file"
  IN  [parameters |-> {<<f.name, p>> : f \in fields, p \in Parameters} \cap
                        UNION {{<<f.name, p>> : p \in f.sources} : f \in fields},
       required   |-> UNION {{<<f.name, p>> : p \in {p \in f.sources \cap Parameters :
                                                     f.required \/ p = "path"}} : f \in fields},
       bodies     |-> (IF json # {} THEN {[type |-> "json", fields |-> json]} ELSE {}) \cup
                      (IF form # {} THEN {[type |-> IF multipart THEN "multipart" ELSE "form",
                                           fields |-> form]} ELSE {})]

\* The place of a body field in a body of this type.
BodyPlace(type, field) ==
  IF type = "json" THEN "json" ELSE IF "form" \in field.sources THEN "form" ELSE "file"

\* The documented body a payload has, if any.
ChosenBody(fields, payload) == {b \in Documented(fields).bodies : b.type = payload.type}

\* Where the document says that something may be, and where it must be.
Allowed(fields, payload) ==
  Documented(fields).parameters \cup
    UNION {{<<f.name, BodyPlace(b.type, f)>> : f \in b.fields} : b \in ChosenBody(fields, payload)}
Needed(fields, payload) ==
  Documented(fields).required \cup
    UNION {{<<f.name, BodyPlace(b.type, f)>> : f \in {f \in b.fields : f.required}}
             : b \in ChosenBody(fields, payload)}
BodyRequired(fields) == \E b \in Documented(fields).bodies : \E f \in b.fields : f.required

\* A payload that keeps to the document: every required parameter is there,
\* what is there is documented and has its type, and the body is one of the
\* documented bodies with its required fields, or absent when none is.
Follows(fields, payload) ==
  LET state(spot) == payload.at[spot[1]][spot[2]]
  IN  /\ \A spot \in {<<f.name, place>> : f \in fields, place \in {"json"} \cup Source} :
           IF spot \in Allowed(fields, payload) THEN state(spot) # "invalid"
           ELSE state(spot) = "absent"
      /\ \A spot \in Needed(fields, payload) : state(spot) \in Held
      /\ payload.type # "none" => ChosenBody(fields, payload) # {} /\ payload.body = "valid"
      /\ payload.type = "none" => payload.body = "empty" /\ ~BodyRequired(fields)

\* What the document does not say, or not in full: that required refuses a zero value,
\* what the other rules of the validators refuse (it gives bounds, not email or
\* oneof), and that a url-encoded form comes with POST, PUT or PATCH.
KeepsRules(fields, payload) ==
  /\ payload.type = "form" => payload.method = "POST"
  /\ \A field \in fields :
       /\ field.strict => field.required
       /\ field.default # "refused"
       /\ \A place \in {"json"} \cup Source :
            /\ payload.at[field.name][place] # "refused"
            /\ field.required => payload.at[field.name][place] # "zero"

\* A value for the field from where its declaration says, from a JSON body, or for a
\* form field from the query string.
GivenFor(payload, field) ==
  \E place \in field.sources \cup {"json"} \cup {p \in {"query"} : "form" \in field.sources} :
    LET state == payload.at[field.name][place]
    IN  state = "valid" \/ (field.kind = "file" /\ state # "absent")

\* The fields a document describes completely: they compile, a name is one field's, no
\* field is both a file and a form value, and the route has one kind of body.
Describable(fields) ==
  /\ \A field \in fields :
       /\ field.sources \subseteq Source /\ field.kind \in {"text", "file", "other"}
       /\ FieldCompiles(field) /\ ~({"file", "form"} \subseteq field.sources)
  /\ \A f, g \in fields : f.name = g.name => f = g
  /\ \A f, g \in fields :
       f.sources = {} /\ f.json => {"form", "file"} \cap g.sources = {}
=============================================================================
