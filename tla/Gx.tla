--------------------------------- MODULE Gx ---------------------------------
(***************************************************************************)
(* The gx command line (src/gx/internal/cli/cli.go): init makes a project,  *)
(* ctrl and service keep its generated code, dao its models, and what ctrl, *)
(* service and dao have generated reaches the disk through a transaction.   *)
(* The four parts work on different files of a project, so a behaviour      *)
(* follows one of them and the others stay at rest.                         *)
(***************************************************************************)
EXTENDS GenTransaction, FiniteSets, Sequences

CONSTANTS Api, ModuleOf, VersionOf, Logic, MaxEdits,       \* of Generators
          File, MaxRuns, MaxWrites,                        \* of ProjectInit
          Schema, TableName, InvalidSchema                 \* of ModelTables

ASSUME SchemaAssumption == IsFiniteSet(Schema)

VARIABLES part,                                            \* what is followed
          disk, generating, done, edits, tool,             \* of Generators
          target, staging, initBackup, retained, options, initAt, result, found,
          runs, writes, written,                           \* of ProjectInit
          tables, system, dotEnv, models, generation       \* of ModelTables

Code == INSTANCE Generators WITH command <- generating

Project == INSTANCE ProjectInit WITH backup <- initBackup, at <- initAt, before <- found

Models == INSTANCE ModelTables

transactionVars == vars
codeVars    == <<disk, generating, done, edits, tool>>
projectVars == <<target, staging, initBackup, retained, options, initAt, result, found, runs, writes,
                 written>>
modelVars   == <<tables, system, dotEnv, models, generation>>

gxVars == <<part, transactionVars, codeVars, projectVars, modelVars>>

\* A part at rest.
NoTransaction ==
    /\ kind = "files" /\ deletes = {} /\ before = [p \in Path |-> "none"]
    /\ place = before /\ backup = before /\ installed = {}
    /\ at = "returned" /\ next = 1
    /\ err = TRUE /\ committed = FALSE /\ changed = {} /\ refused = FALSE

NoCode ==
    /\ disk = [p \in Code!Path |-> Code!NoFile] /\ tool = "ctrl"
    /\ generating = Code!NoCommand /\ done = Code!NoCommand /\ edits = 0

NoProject ==
    /\ target = Project!NoDirectory /\ staging = target /\ initBackup = target /\ retained = {}
    /\ options = [module |-> "plain", name |-> "plain", force |-> FALSE, dry |-> FALSE]
    /\ initAt = "idle" /\ result = "none" /\ found = target /\ runs = 0 /\ writes = 0
    /\ written = {}

NoModels ==
    /\ tables = {} /\ system = <<>> /\ dotEnv = <<>>
    /\ models = {} /\ generation = Models!NoGeneration

GxInit ==
    \/ part = "publish" /\ Init /\ NoCode /\ NoProject /\ NoModels
    \/ part = "code" /\ NoTransaction /\ Code!GeneratorsInit /\ NoProject /\ NoModels
    \/ part = "project" /\ NoTransaction /\ NoCode /\ Project!ProjectInitInit /\ NoModels
    \/ part = "models" /\ NoTransaction /\ NoCode /\ NoProject /\ Models!ModelTablesInit

GxNext ==
    /\ \/ part = "publish" /\ Next /\ UNCHANGED <<codeVars, projectVars, modelVars>>
       \/ part = "code" /\ Code!GeneratorsNext /\ UNCHANGED <<transactionVars, projectVars, modelVars>>
       \/ part = "project" /\ Project!ProjectInitNext /\ UNCHANGED <<transactionVars, codeVars, modelVars>>
       \/ part = "models" /\ Models!ModelTablesNext /\ UNCHANGED <<transactionVars, codeVars, projectVars>>
    /\ UNCHANGED part

GxSpec == GxInit /\ [][GxNext]_gxVars

DeveloperWorkStays == Code!DeveloperWorkStays
FollowsSources     == Code!FollowsSources
ImportsStay        == Code!ImportsStay
ProjectKept        == Project!ProjectKept
ReplacedAsWhole    == Project!ReplacedAsWhole
ModelsInPlace      == Models!ModelsInPlace

=============================================================================
