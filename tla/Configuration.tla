--------------------------- MODULE Configuration ---------------------------
(***************************************************************************)
(* What a configuration says about a key (config/config.go).  A            *)
(* configuration is a record of layers, each a function whose domain is the *)
(* set of keys the layer decides.  Values are opaque; None stands for a key *)
(* nobody sets, and for one that a layer hides from those below it.         *)
(*                                                                         *)
(* A key in lowerCamelCase has two spellings in the environment: the one    *)
(* the documentation gives (server.maxBodyBytes is SERVER_MAX_BODY_BYTES)   *)
(* and the compact one that Viper derives by itself (SERVER_MAXBODYBYTES).  *)
(* Set of an enclosing key (Set("server", map)) reaches Viper only, so it   *)
(* is a layer of its own, "enclosing".  A process variable named like an    *)
(* enclosing key (SERVER) hides what the file and the defaults say of the   *)
(* keys below it: the layer "shadow".                                       *)
(***************************************************************************)
EXTENDS Integers, Sequences, SequencesExt

None == "none"

Layer == {"runtime", "environment", "dotenv", "enclosing", "compact",
          "compactDotenv", "shadow", "file", "default"}

NoLayer == [k \in {} |-> None]
EmptyConfiguration == [layer \in Layer |-> NoLayer]

Has(config, layer, key) == key \in DOMAIN config[layer]

\* The value of the first of these layers that has the key.
First(config, layers, key) ==
  LET having == {i \in DOMAIN layers : Has(config, layers[i], key)}
  IN  IF having = {} THEN None
      ELSE config[layers[CHOOSE i \in having : \A j \in having : i <= j]][key]

\* externalValueLocked: what Set stored, then the exact environment name,
\* then the same name in the .env file.
External == <<"runtime", "environment", "dotenv">>

\* Viper's own order: its overrides, the environment under its own
\* spelling (AutomaticEnv), nothing for a key below one that the environment
\* names, the file, the defaults.
Viper == <<"runtime", "enclosing", "compact", "shadow", "file", "default">>

\* Mutant: Viper is asked first, so the file hides the environment.
GetFileFirst(config, key) == First(config, Viper \o External, key)

\* Get, GetString, GetInt and GetBool differ in the conversion only.
Get(config, key) == First(config, External \o Viper, key)

\* The keys Viper can enumerate: a value that exists in the environment
\* alone is not among them.
AllKeys(config) ==
  UNION {DOMAIN config[layer] : layer \in {"runtime", "enclosing", "file", "default"}}

\* Unmarshal copies every key Viper knows, looked up under the compact
\* spelling, and then writes the keys of the target over it.
Unmarshal(config, key) ==
  IF \E i \in DOMAIN External : Has(config, External[i], key)
  THEN First(config, External, key)
  ELSE IF key \in AllKeys(config)
       THEN First(config, <<"compact", "compactDotenv">> \o Viper, key)
       ELSE None

\* Set stores the value twice, SetDefault once.
Set(config, key, value) == [config EXCEPT !["runtime"] = (key :> value) @@ @]
SetDefault(config, key, value) == [config EXCEPT !["default"] = (key :> value) @@ @]

(***************************************************************************)
(* Loading.  A project is a record of what its root directory holds:        *)
(* dotenv \in {"absent", "valid", "malformed"} and, for the three           *)
(* conventional places of the file, one of the same values.  A process is    *)
(* what its environment says of the keys: under the two spellings, and the  *)
(* keys it shadows.                                                         *)
(***************************************************************************)
Places == <<"config.yaml", "config/config.yaml", "manifest/config/config.yaml">>

\* findDefaultConfig: the first place that exists, readable or not.
FindDefaultConfig(project) ==
  LET existing == SelectSeq(Places, LAMBDA place : project.files[place] # "absent")
  IN  IF existing = <<>> THEN None ELSE Head(existing)

\* loadDefaultFromRoot: a malformed .env stops the load before the file, so
\* the configuration comes back with neither layer.
LoadDefault(project, process) ==
  LET place == FindDefaultConfig(project)
      readable == project.dotenv # "malformed"
      failed == ~readable \/ (place # None /\ project.files[place] = "malformed")
      dotenv == readable /\ project.dotenv = "valid"
  IN  [error  |-> failed,
       config |-> [EmptyConfiguration EXCEPT
                     !["environment"] = process.environment,
                     !["compact"] = process.compact,
                     !["shadow"] = [key \in process.shadowed |-> None],
                     !["dotenv"] = IF dotenv THEN project.values.dotenv ELSE NoLayer,
                     !["compactDotenv"] = IF dotenv THEN project.values.compactDotenv ELSE NoLayer,
                     !["file"] = IF failed \/ place = None THEN NoLayer
                                 ELSE project.values.file[place]]]
=============================================================================
