------------------------------ MODULE Generators ------------------------------
(***************************************************************************)
(* What gx ctrl and gx service write (src/gx/internal/gen/controller,       *)
(* service and shared/write.go) into a project that a developer edits       *)
(* between commands.  A command reads the project, renders an output for    *)
(* every file it knows of, asks of each whether it may be written           *)
(* (PrepareOutputs) and publishes what is left in one file transaction,     *)
(* which GenTransaction describes: here it has succeeded or changed         *)
(* nothing.                                                                 *)
(*                                                                          *)
(* A file is its ownership header and its body.  The body of a generated    *)
(* file is the set of what it declares, that of a developer's file is       *)
(* "seed" (as gx wrote it), "work" (as the developer left it) or "broken"   *)
(* (it does not parse).                                                     *)
(***************************************************************************)
EXTENDS Naturals, Sequences, FiniteSets

CONSTANTS Api,          \* API definition files, each the APIs of one resource
          ModuleOf,     \* the directories an API file lies in
          VersionOf,
          Logic,        \* Logic modules
          MaxEdits      \* bound on what the developer does

Module == {ModuleOf[r] : r \in Api}

\* The files of a project that the commands read or write.
Path ==
    {"api", "implementation"} \X Api
        \cup {"contract", "package", "constructors", "nested"} \X Module
        \cup {"logic", "service"} \X Logic
        \cup {<<"imports", "logic">>, <<"model", "testmodel">>}

VARIABLES disk,       \* the project's files
          command,    \* the command that runs, with the names it has left
          done,       \* ghost: the last command, if it succeeded and nothing changed since
          edits,      \* number of edits so far
          tool        \* the generator in use: ctrl and service touch different files

generatorVars == <<disk, command, done, edits, tool>>

GoFile(header, body) == [header |-> header, body |-> body]

NoFile == GoFile("absent", {})

Exists(f) == f # NoFile

\* generatedFile: the header is anywhere in the file; "first" is at its beginning.
Generated(f) == f.header \in {"first", "inside"}

Broken(f) == f.body = {"broken"}

NoCommand == [kind |-> "none"]

\* ctrl with or without names, --dir and --clean; service with names or --module; dry
\* runs of what takes one transaction.
Dry(c) == {[c EXCEPT !.dry = dry] : dry \in BOOLEAN}

ScansOfApis ==
    [kind : {"ctrl"}, names : {<<>>}, dir : {{}} \cup {{r} : r \in Api}, clean : BOOLEAN, dry : {FALSE}]

NamedApis ==
    [kind : {"ctrl"}, names : {<<r>> : r \in Api} \cup (Api \X Api),
     dir : {{}}, clean : {FALSE}, dry : {FALSE}]

ScansOfLogic ==
    [kind : {"service"}, names : {<<>>}, module : {{}} \cup {{l} : l \in Logic}, dry : {FALSE}]

NamedLogic ==
    [kind : {"service"}, names : {<<l>> : l \in Logic} \cup (Logic \X Logic),
     module : {{}}, dry : {FALSE}]

Commands ==
    LET commands == ScansOfApis \cup NamedApis \cup ScansOfLogic \cup NamedLogic
    IN  commands \cup UNION {Dry(c) : c \in {d \in commands : Len(d.names) <= 1}}

DeveloperKinds == {"api", "implementation", "logic"}

Kind(p) == p[1]

\* The files of each generator.
FilesOf(t) ==
    {p \in Path :
        Kind(p) \in (IF t = "service" THEN {"logic", "service", "imports", "model"}
                    ELSE {"api", "implementation", "contract", "package", "constructors", "nested"})}

\* A new project, or one in which an older gx has marked a developer's file as its
\* own.
GeneratorsInit ==
    /\ tool \in {"ctrl", "service"}
    /\ disk \in {[p \in Path |-> NoFile]} \cup
         {[p \in Path |-> IF p = legacy THEN GoFile(header, {"work"}) ELSE NoFile] :
             legacy \in {p \in FilesOf(tool) : Kind(p) \in DeveloperKinds},
             header \in {"first", "inside"}}
    /\ command = NoCommand /\ done = NoCommand /\ edits = 0

-----------------------------------------------------------------------------
(* Outputs and their ownership (shared/write.go)                             *)

Output(path, mode, file) == [path |-> path, mode |-> mode, file |-> file]

\* The developer's content without the header an older gx has given it.
Content(o) ==
    IF o.mode = "DeveloperOwned" /\ disk[o.path].header = "first"
    THEN GoFile("none", disk[o.path].body) ELSE o.file

\* Mutant: gx also replaces files that do not carry its header.
OwnsAll(o) == o.mode # "DeveloperOwned" \/ ~Exists(disk[o.path])

\* An existing file is written only by the rule of the output's mode.
Owns(o) ==
    \/ ~Exists(disk[o.path])
    \/ o.mode = "Planned" /\ Generated(disk[o.path])
    \/ o.mode = "DeveloperOwned" /\ disk[o.path].header = "first"
    \/ o.mode \in {"Forced", "Replacing", "Updated"}

Deletes(outputs) ==
    {o.path : o \in {p \in outputs : p.mode = "Delete" /\ Generated(disk[p.path])}}

Writes(outputs) ==
    {o \in outputs : o.mode # "Delete" /\ Content(o) # disk[o.path] /\ Owns(o)}

\* format.Source refuses what an output would write.
Formats(outputs) == \A o \in outputs : o.mode # "Delete" => ~Broken(Content(o))

\* Transaction.Delete and Write: the paths of a transaction are distinct.
Consistent(outputs) == \A o \in Writes(outputs) : o.path \notin Deletes(outputs)

Applied(outputs) ==
    [p \in Path |->
        IF p \in Deletes(outputs) THEN NoFile
        ELSE IF \E o \in Writes(outputs) : o.path = p
        THEN Content(CHOOSE o \in Writes(outputs) : o.path = p)
        ELSE disk[p]]

-----------------------------------------------------------------------------
(* gx ctrl (controller)                                                      *)

OfModule(apis, m) == {r \in apis : ModuleOf[r] = m}

Versions(apis) == {VersionOf[r] : r \in apis}

SameDirectory(r) == {s \in Api : ModuleOf[s] = ModuleOf[r] /\ VersionOf[s] = VersionOf[r]}

\* The API files that exist under a directory.
Present(root) == {r \in root : Exists(disk[<<"api", r>>])}

\* scanAPIs: one that does not parse, or none at all, is an error.
Scans(root) ==
    Present(root) # {} /\ \A r \in Present(root) : ~Broken(disk[<<"api", r>>])

Root(dir) == IF dir = {} THEN Api ELSE UNION {SameDirectory(r) : r \in dir}

\* Mutant: the interfaces are written like the files that carry the header.
ModuleOutputsPlanned(m, apis, contract) ==
    {Output(<<contract, m>>, "Planned", GoFile("none", apis)),
     Output(<<"package", m>>, "Planned", GoFile("first", {})),
     Output(<<"constructors", m>>, "Planned", GoFile("first", Versions(apis)))}

\* renderControllerContracts, renderControllerConstructors and the interfaces of the
\* API package, of one module with the given APIs.
ModuleOutputs(m, apis, contract) ==
    {Output(<<contract, m>>, "Forced", GoFile("none", apis)),
     Output(<<"package", m>>, "Planned", GoFile("first", {})),
     Output(<<"constructors", m>>, "Planned", GoFile("first", Versions(apis)))}

Implementation(r) ==
    Output(<<"implementation", r>>, "DeveloperOwned", GoFile("none", {"seed"}))

\* legacyOwnershipOutput: an API definition that carries the header.
Legacy(p) == IF Generated(disk[p]) THEN {Output(p, "DeveloperOwned", disk[p])} ELSE {}

\* staleControllerOutputs: every controller file that no module expects, except
\* constructors; implementations are never expected.
Stale(modules) ==
    {Output(<<"package", m>>, "Delete", NoFile) : m \in Module \ modules}
        \cup {Output(<<"implementation", r>>, "Delete", NoFile) : r \in Api}

\* Generate and render.  With --dir the interfaces are rendered below that directory.
ScanControllers(c) ==
    LET apis    == Present(Root(c.dir))
        modules == {ModuleOf[r] : r \in apis}
    IN  (UNION {Legacy(<<"api", r>>) : r \in apis})
          \cup (UNION {ModuleOutputs(m, OfModule(apis, m),
                                     IF c.dir = {} THEN "contract" ELSE "nested") : m \in modules})
          \cup {Implementation(r) : r \in apis}
          \cup (IF c.clean THEN Stale(modules) ELSE {})

\* scanStandardControllerAPIs: the APIs of the directory and the new ones ...
ContractAPIs(r) == Present(SameDirectory(r)) \cup {r}

\* ... which the scan of what is on disk then replaces, if it finds any of the module.
Contracted(r) ==
    IF Scans(Api) /\ OfModule(Present(Api), ModuleOf[r]) # {}
    THEN OfModule(Present(Api), ModuleOf[r])
    ELSE ContractAPIs(r)

\* generateStandardControllers.
NamedControllers(r) ==
    ModuleOutputs(ModuleOf[r], Contracted(r), "contract")
      \cup {Output(<<"api", r>>, "DeveloperOwned", GoFile("none", {"seed"})), Implementation(r)}

-----------------------------------------------------------------------------
(* gx service (service)                                                      *)

Imports == <<"imports", "logic">>

\* scanLogic: the modules that exist, or the one that is asked for.
Scanned(module) ==
    {l \in Logic : Exists(disk[<<"logic", l>>]) /\ (module = {} \/ l \in module)}

\* addLogicImports: managed imports become the desired ones, the rest stays.
Aggregated(desired) == (disk[Imports].body \ Logic) \cup desired

\* logicAggregatorOutput.
Aggregator(desired) == Output(Imports, "Updated", GoFile("first", Aggregated(desired)))

\* demoModelOutput.
Model ==
    IF Exists(disk[<<"model", "testmodel">>]) THEN {}
    ELSE {Output(<<"model", "testmodel">>, "Planned", GoFile("first", {"seed"}))}

Service(l, signatures) ==
    Output(<<"service", l>>, "Replacing", GoFile("first", signatures))

\* legacyLogicOwnershipOutput: only a header at the beginning counts.
LegacyLogic(l) ==
    IF disk[<<"logic", l>>].header = "first"
    THEN {Output(<<"logic", l>>, "DeveloperOwned", NoFile)} ELSE {}

\* render: services with the signatures of their Logic.
ScanServices(c) ==
    LET modules == Scanned(c.module)
    IN  (UNION {LegacyLogic(l) : l \in modules})
          \cup {Service(l, disk[<<"logic", l>>].body) : l \in modules}
          \cup Model \cup {Aggregator(modules)}

\* renderStandardService: a service with the signatures of the demo.
NamedService(l) ==
    {Service(l, {"seed"}), Aggregator({l}),
     Output(<<"logic", l>>, "DeveloperOwned", GoFile("none", {"seed"}))}
      \cup Model

-----------------------------------------------------------------------------
(* The command line (cli.go) and the developer                               *)

\* What a command, or the next name of one, renders.
Rendered(c) ==
    CASE c.kind = "ctrl" /\ c.names = <<>>     -> ScanControllers(c)
      [] c.kind = "ctrl" /\ c.names # <<>>     -> NamedControllers(Head(c.names))
      [] c.kind = "service" /\ c.names = <<>>  -> ScanServices(c)
      [] c.kind = "service" /\ c.names # <<>>  -> NamedService(Head(c.names))

\* It finds the sources it reads, and they parse.
Readable(c) ==
    CASE c.kind = "ctrl" /\ c.names = <<>>     -> Scans(Root(c.dir))
      [] c.kind = "ctrl" /\ c.names # <<>>     ->
           \A s \in Present(SameDirectory(Head(c.names))) : ~Broken(disk[<<"api", s>>])
      [] c.kind = "service" /\ c.names = <<>>  ->
           /\ Scanned(c.module) # {}
           /\ \A l \in Scanned(c.module) : ~Broken(disk[<<"logic", l>>])
           /\ ~Broken(disk[Imports])
      [] c.kind = "service" /\ c.names # <<>>  -> ~Broken(disk[Imports])

Run ==
    /\ command = NoCommand
    /\ \E c \in Commands : c.kind = tool /\ command' = c
    /\ done' = NoCommand
    /\ UNCHANGED <<disk, edits, tool>>

\* Names are generated one after the other, each with a transaction of its own.
Rest(c) == IF Len(c.names) > 1 THEN [c EXCEPT !.names = Tail(@)] ELSE NoCommand

Publish ==
    /\ command # NoCommand
    /\ Readable(command)
    /\ LET outputs == Rendered(command)
       IN  /\ Formats(outputs) /\ Consistent(outputs)
           /\ disk' = IF command.dry THEN disk ELSE Applied(outputs)
    /\ command' = Rest(command)
    /\ done' = IF command' = NoCommand /\ ~command.dry THEN command ELSE NoCommand
    /\ UNCHANGED <<edits, tool>>

\* An error ends the command, and what the names before it have published stays:
\* the project cannot be read, an output is refused, or the transaction fails.
Fail ==
    /\ command # NoCommand
    /\ command' = NoCommand /\ done' = NoCommand
    /\ UNCHANGED <<disk, edits, tool>>

\* The developer writes, breaks, takes over or deletes a file.
Edit(p) ==
    /\ command = NoCommand /\ edits < MaxEdits
    /\ edits' = edits + 1
    /\ \/ /\ Kind(p) \in DeveloperKinds
          /\ \E body \in {{"work"}, {"broken"}} :
               disk' = [disk EXCEPT ![p] = GoFile(IF Exists(@) THEN @.header ELSE "none", body)]
       \/ /\ Kind(p) = "imports" /\ Exists(disk[p])
          /\ disk' = [disk EXCEPT ![p].body = @ \cup {"work"}]
       \/ /\ Kind(p) \notin DeveloperKinds \cup {"imports"}
          /\ disk' = [disk EXCEPT ![p] = GoFile("none", {"work"})]
       \/ Exists(disk[p]) /\ disk' = [disk EXCEPT ![p] = NoFile]
    /\ done' = NoCommand
    /\ UNCHANGED <<command, tool>>

GeneratorsNext == Run \/ Publish \/ Fail \/ \E p \in FilesOf(tool) : Edit(p)

GeneratorsSpec == GeneratorsInit /\ [][GeneratorsNext]_generatorVars

-----------------------------------------------------------------------------
(* Properties                                                               *)

\* What the generators keep for themselves (gx/README.md:144, 172).
Replaced == {"contract", "nested", "service"}

\* "Does not overwrite files gx does not own" (gx/README.md:250): no command changes
\* what a developer has written in a file without the header, nor in one that an
\* older gx had marked and that is still a source of the command; and of the
\* aggregator "user-added code stays" (gx/README.md:175).
DeveloperWorkStays ==
    [][command # NoCommand =>
         \A p \in Path :
            /\ /\ Exists(disk[p]) /\ Kind(p) \notin Replaced
               /\ ~Generated(disk[p])
               => disk'[p].body = disk[p].body \/ Kind(p) = "imports"
            /\ /\ disk[p].header = "first"
               /\ Kind(p) \in DeveloperKinds
               /\ Kind(p) = "implementation" => p[2] \in Present(Api)
               /\ command.kind = "ctrl" => command.names # <<>> \/ command.dir = {}
               => disk'[p].body = disk[p].body
            /\ Kind(p) = "imports" => disk[p].body \ Logic \subseteq disk'[p].body
      ]_generatorVars

\* A scan of the whole project leaves generated code that agrees with its sources:
\* every API in the interface of its module, with an implementation (unless --clean
\* took one that quotes the header) and a controller type of its version (unless the
\* developer has taken that file over), every service with the signatures of its
\* Logic, every Logic imported and no other.
FollowsSources ==
    /\ done.kind = "ctrl" /\ done.names = <<>> /\ done.dir = {} =>
          \A r \in Present(Api) :
             LET m == ModuleOf[r] IN
             /\ disk[<<"contract", m>>].body = OfModule(Present(Api), m)
             /\ Exists(disk[<<"implementation", r>>]) \/ done.clean
             /\ \/ disk[<<"constructors", m>>].body = Versions(OfModule(Present(Api), m))
                \/ ~Generated(disk[<<"constructors", m>>])
    /\ done.kind = "service" /\ done.names = <<>> /\ done.module = {} =>
          /\ \A l \in Scanned({}) : disk[<<"service", l>>].body = disk[<<"logic", l>>].body
          /\ disk[Imports].body \cap Logic = Scanned({})

\* "gx-managed imports of Logic modules that no longer exist are removed"
\* (gx/README.md:174-175): those of modules that exist stay.
ImportsStay ==
    [][\A l \in Logic \cap disk[Imports].body :
         command # NoCommand /\ Exists(disk[<<"logic", l>>])
            => l \in disk'[Imports].body]_generatorVars

\* What the proofs need of a command: which generator it calls, and with what.
CtrlCommands ==
    [kind : {"ctrl"}, names : Seq(Api), dir : SUBSET Api, clean : BOOLEAN, dry : BOOLEAN]

ServiceCommands ==
    [kind : {"service"}, names : Seq(Logic), module : SUBSET Logic, dry : BOOLEAN]

CommandInv == command \in CtrlCommands \cup ServiceCommands \cup {NoCommand}

=============================================================================
