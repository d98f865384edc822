------------------------------ MODULE ModelTables ------------------------------
(***************************************************************************)
(* What gx dao generates (src/gx/internal/gen/dao/env.go, database.go): it  *)
(* finds the database in the environment and in .env, selects tables and    *)
(* writes a model for each, in one directory or in one per PostgreSQL       *)
(* schema.  The database changes between commands, the output replaces that *)
(* of the last command as a whole (GenTransaction).                         *)
(***************************************************************************)
EXTENDS Naturals, FiniteSets

CONSTANTS Schema, TableName,
          InvalidSchema     \* schemas whose name cannot name a directory

VARIABLES tables,      \* the tables of the database, of every schema
          system,      \* the DATABASE_* variables of the process
          dotEnv,      \* and those of .env
          models,      \* the generated models: where, and of which table
          generation   \* the last command that succeeded, or "none"

tableVars == <<tables, system, dotEnv, models, generation>>

Table == Schema \X TableName

Setting == {"driver", "dsn", "fields"}

\* The values that make a difference: drivers, forms of a DSN or URL, and whether the
\* fields that stand for one are there.  An empty value is one that is set.
Values(s) ==
    CASE s = "driver" -> {"empty", "sqlite", "mysql", "postgres", "unknown"}
      [] s = "dsn"    -> {"empty", "file", "tcp", "postgres", "other"}
      [] s = "fields" -> {"empty", "complete"}

\* One variable, or none, in each place: that is enough for two to combine and for
\* one to override the other.
Environments == {<<>>} \cup UNION {[{s} -> Values(s)] : s \in Setting}

\* --tables: all, or references with or without a schema.
Requests == {{}} \cup {{r} : r \in ({"any"} \cup Schema) \X TableName}

NoGeneration == [request |-> "none"]

ModelTablesInit ==
    /\ tables \in SUBSET Table
    /\ system \in Environments /\ dotEnv \in Environments
    /\ models = {} /\ generation = NoGeneration

-----------------------------------------------------------------------------
(* The database (env.go, databaseDialector)                                  *)

\* Mutant: .env takes precedence.
LookupDotEnvFirst(s) ==
    IF s \in DOMAIN dotEnv THEN dotEnv[s]
    ELSE IF s \in DOMAIN system THEN system[s] ELSE "empty"

\* databaseEnvValue.
Lookup(s) ==
    IF s \in DOMAIN system THEN system[s]
    ELSE IF s \in DOMAIN dotEnv THEN dotEnv[s] ELSE "empty"

\* inferDatabaseDriver.
Inferred(dsn) ==
    CASE dsn = "file"     -> "sqlite"
      [] dsn = "tcp"      -> "mysql"
      [] dsn = "postgres" -> "postgres"
      [] OTHER            -> "sqlite"

\* LoadDatabaseEnv.
Driver == IF Lookup("driver") # "empty" THEN Lookup("driver") ELSE Inferred(Lookup("dsn"))

\* databaseDialector: SQLite has a default file, the others need a DSN or fields.
Connects ==
    \/ Driver = "sqlite"
    \/ Driver \in {"mysql", "postgres"}
          /\ (Lookup("dsn") # "empty" \/ Lookup("fields") = "complete")

-----------------------------------------------------------------------------
(* The tables and their models (generateModels, generatePostgresModels)      *)

Schemas(ts) == {t[1] : t \in ts}

\* selectPostgresTables.
Selected(request) ==
    IF request = {} THEN tables
    ELSE {t \in tables : \E r \in request : r[1] \in {"any", t[1]} /\ r[2] = t[2]}

\* One directory for a database that exposes one schema.
Flat == Cardinality(Schemas(tables)) = 1

\* generatePostgresSchema.
Place(t) == IF Flat THEN <<"flat", t[2]>> ELSE t

PostgresModels(request) ==
    {[place |-> Place(t), of |-> t] : t \in Selected(request)}

\* The other databases have one schema, and every table that is asked for must exist.
OtherModels(request) ==
    {[place |-> <<"flat", t[2]>>, of |-> t] : t \in Selected(request)}

ModelsOf(request) == IF Driver = "postgres" THEN PostgresModels(request) ELSE OtherModels(request)

Generates(request) ==
    /\ Connects /\ Selected(request) # {}
    /\ IF Driver = "postgres"
       THEN Flat \/ Schemas(Selected(request)) \cap InvalidSchema = {}
       ELSE Flat /\ \A r \in request : r[1] = "any"

Generate ==
    /\ \E request \in Requests :
         /\ Generates(request)
         /\ models' = ModelsOf(request)
         /\ generation' = [request |-> request, tables |-> tables, driver |-> Driver]
    /\ UNCHANGED <<tables, system, dotEnv>>

\* A migration adds or drops a table.
Migrate ==
    /\ \E t \in Table : tables' = IF t \in tables THEN tables \ {t} ELSE tables \cup {t}
    /\ UNCHANGED <<system, dotEnv, models, generation>>

ModelTablesNext == Generate \/ Migrate

-----------------------------------------------------------------------------
(* Properties                                                               *)

\* A table's model is in the same place whichever tables are asked for
\* (generatePostgresModels, "Preserve the original flat layout for a database that
\* only exposes one schema", database.go:168-169): the one that a complete generation
\* of the same database gives it, and no two models share a place.  The database is
\* the one that the process environment names, if it names one (gx/README.md:187-188).
ModelsInPlace ==
    generation # NoGeneration =>
        /\ \A m \in models :
             /\ m.of \in generation.tables
             /\ m.place = IF Cardinality(Schemas(generation.tables)) = 1
                          THEN <<"flat", m.of[2]>> ELSE m.of
        /\ \A m, n \in models : m.place = n.place => m = n
        /\ "driver" \in DOMAIN system /\ system["driver"] # "empty"
              => generation.driver = system["driver"]

=============================================================================
