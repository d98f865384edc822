# Gonex in TLA+

Gonex is a Go web framework over Gin: an HTTP server with a lifecycle, a job
scheduler, sessions, templates, route registration and request binding, static
files, a layered configuration, and `gx`, a code generator. This directory holds
TLA+ specifications of the parts of it whose correctness depends on the order in
which goroutines, hooks, requests, processes, commands and failures meet, or on
several rules agreeing; the TLC configurations that check them on small instances;
and TLAPS proofs of their main properties for every instance.

Paths below are relative to the repository (`src/`). Run the tools in this directory:

    tlc -workers 2 -config Scheduler_replace.cfg MCScheduler.tla
    tlapm PersistenceProofs.tla

A run `X_y` checks the configuration `X_y.cfg` of the module `MCX`.

## 1. The system

### Components

| component | state | operations | what makes it correct | module |
|---|---|---|---|---|
| overlap gate (`scheduler/overlap.go`) | policy, count and generation of executions, one pending trigger | trigger, handler returns, policy change | serial policies never overlap; an accepted trigger runs | `Gate`, `OverlapGate` |
| scheduler manager (`scheduler/scheduler.go`, `execution.go`, `engine_gocron.go`) | engine, registered job records, their engine handles and cleanup lists | Start, Stop, Wait, Add, Replace, Remove, triggers | no engine job is lost or runs before its record is published; a failed Replace leaves the old job | `Scheduler` |
| scheduler persistence (`persistence.go`, `reconcile.go`) | the definitions it has loaded | Sync and its rollback | a failed Sync leaves manager and loader agreeing; no ID has two jobs | `Loader` |
| persistent execution (`persistent_execution.go`) | a lease, a run record | execution under Locker and Recorder | one instance at a time; leases end; unlock and finish follow | `PersistentExecution` |
| lifecycle (`lifecycle/lifecycle.go`) | a flag pair and an outcome per phase, tracked tasks | BeginStart, MarkStarted, BeginShutdown, Stop, Go, Wait | phases exclude one another, run once, in order; no task after shutdown | `Lifecycle` |
| server runtime (`ghttp/lifecycle.go`, `ghttp/server.go`) | running flag, listener, HTTP server, the active cleanup attempt | RunContext, Shutdown, Close | one cleanup, in order; everybody returns | `Server` |
| restart (`ghttp/restart.go`) | the active restart, child process, inherited listener | Restart, ready signal, handoff | somebody always serves; one successor | `Restart` |
| signed-cookie sessions (`session/storage.go`, `ghttp/session.go`) | revoked tokens and families with their expiries | open, rotate, logout | a revoked token opens nothing; a client always has one valid token | `CookieSession` |
| memory sessions (same files) | a map of sessions with expiry | open, set, delete, regenerate, logout | no client is left without a session it was sent; nothing is stored for nobody | `MemorySession` |
| session manager (`ghttp/session.go`) | the kind of its storage | branches to one of the two | | `SessionManager` |
| template manager (`template/template.go`) | root, functions, parsed snapshot, watcher | SetRoot, AddFunc, Reload, Invalidate, Execute, Close | the snapshot belongs to root and functions; no method hangs | `TemplateManager` |
| registry and route registration (`router/registry.go`, `ghttp/registration.go`, `group.go`, `openapi.go`) | route table, Gin's table, cached document | Bind, Use, Route.Use, static mounts, OpenAPI, beginRun | a batch is all or nothing; no middleware is lost; the document is never stale | `Registration` |
| request pipeline (`ghttp/handler.go`, `middleware.go`, `context.go`, `response.go`) | what is written, by whom | middleware, handler, recovery, encoder | one answer; nobody gets round the policy | `Requests` |
| binding and OpenAPI (`router/binder*.go`, `openapi/`, `ghttp/validation.go`) | none that outlives a call | compile, bind, validate, describe | a request that keeps to the document is bound; an accepted one gave what is required | `RouteContract` |
| static files (`static/static.go`) | a visit and the handles it holds | resolve, verify, open, serve | what is sent comes from the mounted directory | `StaticFiles` |
| configuration, options (`config/config.go`, `ghttp/options.go`, `config.go`) | layers of values | Get, Set, SetDefault, Unmarshal, NewServer | precedence | `Configuration`, `ServerSettings` |
| the application | all of the last five | NewServer, registration, run, requests | | `Application` |
| gx transactions (`gx/internal/gen/fs`, `gen/dao/pipeline_runtime.go`, `gen/dao/module.go`) | staged files, backups, commit state, go.mod | Write, Commit, Rollback, the dao pipeline | all files or none; nothing is lost on the way | `GenTransaction` |
| gx ctrl and service (`gen/controller`, `gen/service`, `gen/shared`) | the files of a project and their ownership headers | the commands, beside a developer who edits | generated code follows its sources; hand-written code stays | `Generators` |
| gx init (`gen/module`) | target, staging, backups | download, check, rename, replace | a project is replaced as a whole, or kept | `ProjectInit` |
| gx dao's database side (`gen/dao/env.go`, `database.go`) | environment, tables, models | discovery, selection, model paths | every selected table has its model where it belongs | `ModelTables` |
| gx (`gx/internal/cli`) | | chooses one of the four | | `Gx` |
| logging, type mapping, log adapters, facade, examples | none | | value-level functions | not modelled |

### How they interact

- `RunContext` calls `lifecycle.BeginStart`, binds the listener, starts `Serve` in a
  goroutine, waits until it accepts, and calls `lifecycle.MarkStarted`. Whatever
  ends the run leads to `Server.Shutdown`.
- `Server.Shutdown` may be called by anyone, hooks included. It calls
  `lifecycle.BeginShutdown` and returns at once when that meets a phase in progress, startup
  included; of the callers that come further the first leads the cleanup (HTTP, templates,
  scheduler, tracked tasks, `lifecycle.Stop`, logger), the others wait for its outcome.
- `Restart` starts a process that inherits the listener and reports ready on a pipe after
  its own `MarkStarted`; the parent then shuts itself down through `Server.Shutdown`.
- The scheduler is started by an OnStart hook and stopped by an OnShutdown hook; the
  cleanup waits for it.
- A trigger runs in a goroutine of gocron. It waits until its job record is
  published, then passes the overlap gate, which all generations of a job share. What the
  gate runs is, for a persistent job, `Loader.execute`: recorder, locker, handler, unlock,
  record. Instances of the application share the locker.
- `Replace` installs a new engine job, removes the old ones, and commits; each engine
  call may fail.
- The loader lists its store and calls `Validate`, `Replace`, `Remove` and `Add` of the manager.
- The watch loop of the template manager calls `Invalidate`; `SetRoot` and `Close` stop
  a loop and wait for it.
- Sessions of requests that carry the same cookie share only the storage.
- `NewServer` merges defaults, options and configuration, installs the framework's
  handlers, the configured static mounts and the documentation; `Bind` scans controllers,
  checks a batch against Gin's table and the registry, and installs it. Requests read
  Gin's table, the policies of the moment, and the binding plan of their route.
- The controller and service generators publish through a file transaction, the dao
  generator through a directory transaction and `go mod tidy`.

### What is hard

Hooks run with the lifecycle's mutex released and may call the lifecycle and the
server again. Contexts end between any two steps, and the code then skips a wait
and goes on. Engine calls fail half way through a method that has changed other
things. Generations of a job overlap. Cookie tokens are minted, registered and
published in separate steps beside a logout. Leases run out under handlers, and processes
die between a ready signal and a handoff. A batch of routes is visible route by route.
The disk changes between a check and an open, and a developer edits between two
commands. `PROJECT.json` lists these hazards with their lines and the properties that
cover them.

## 2. Modules

    Gate <- OverlapGate <- PersistentExecution          Lifecycle  <- (INSTANCE) Server
         <- Scheduler (each gate refines OverlapGate)   CookieSession, MemorySession <- SessionManager
    Configuration <- ServerSettings ------------\
    Registration, RouteContract, StaticFiles <- Requests <- Application
    GenTransaction, Generators, ProjectInit, ModelTables <- Gx
    alone: Loader, TemplateManager, Restart

An arrow is EXTENDS or INSTANCE. `Loader` uses the scheduler through its contract only: a
call takes effect or fails. Operators with a comment "Mutant" are wrong variants of
their neighbour; nothing uses them. Each says which mistake the property beside it
excludes. The modules ending in `Proofs` hold the theorems.

### Gate and OverlapGate

A gate is a record of the fields of `overlapGate`. Each critical section of `gate.mu` is
one operator: `Admits/Queues/Admit/Enqueue` are `runWithToken`, `Finished/NextExecution`
are one iteration of `executeAccepted`, `WithPolicy` is `setPolicy`. A token is a job
record (generation); a handler closes over a record and is named by its token.
`OverlapGate` is the abstract specification of a gate: `PersistentExecution` extends it
and the gates of `Scheduler` implement it.

### Scheduler

Methods hold `manager.mu` throughout, so they are single actions except where a
trigger sees a method half way: `Add` and `Replace` on a running engine install first
(`op` then names the method that holds the mutex), then remove the old handles
(`ReplaceRemoves` or `ReplaceFails`), then `Commit`. `Removals(r)` gives every outcome of
`removeEngineJobsLocked` when the engine may refuse (`MayFail`): cleanup handles first,
the record's own handle last. A trigger goes `Trigger`, `Pass` or `TurnAway`
(`runnable`), `EnterGate`, `Finish`; between `Pass` and `EnterGate` nothing is held.

*Scheduler_replace*: two jobs, two trigger goroutines, three generations (`MaxRec`),
AllowOverlap and QueueOne. `HandleOwned` (no engine handle becomes invisible to
cleanup), `RegisteredIsScheduled` (a failed method leaves the job scheduled),
`ImplementsOverlapGate` (each gate is one that the theorems are about) and
`TriggersResolve`. Three generations give one job a Replace of a Replace, or two jobs and
one Replace; a failed Replace leaves a handle for a later one. SkipIfRunning is left out
here: a gate under it accepts nothing that the other two policies do not.
Fairness: scheduled goroutines go on, handlers return, the shutdown goroutine runs, a
method that holds the mutex ends. Nobody has to trigger or to call anything.

*Scheduler_queue* (a counterexample): see findings.

### PersistentExecution

One job on two instances. The triggers of this instance go through `OverlapGate`; what it
runs is `Loader.execute`, one action per call it makes: `RecordStart`, `Acquire` (or
`NotAcquired`, `LockFails`), `HandlerReturns`, `Unlock`, `RecordFinish`, `ReturnCall`. The
executions of the other instance (`Peer`) begin and die at any time. The locker is external:
a lease has a time to live of the job's timeout and a grace (`TTL`,
`persistentLockTTL`) or, without a timeout, is kept by its holder. Time is what is left of
leases and contexts, counted down by `Tick`; an adapter of a dead holder stops keeping, and
`Lapse` ends the lease. A lock call may take effect and still report an error.

`Prompt` is the contract under which exclusion holds: a handler returns before the grace
after the end of its context is over. `persistentLockTTL` is computed for exactly that, and a
handler that ignores its context for longer is not excluded by the code.

*PersistentExecution_lease*: two calls, three generations, one peer, a timeout of 2 and a
grace of 1, both modes, both serial policies. `OneInstance`, `AcceptedTriggerRuns` (of
`OverlapGate`, now with everything that an execution does inside), `LeaseEnds`. Fairness: an
execution goes on and its handler returns, time passes, the backend drops a lease that
nobody keeps.

### Lifecycle

Callers are goroutines, or calls made by hooks: no method waits for a phase, so a hook
that calls back is one more caller. An action is one critical section of
`lifecycle.mu`: one enters a phase, another ends it with the outcome of its hooks
(`HookError`; a hook may pass on `ErrPhaseInProgress`). `Start` and `Stop` continue in the
second phase after the first (`method`). `ErrStartupInProgress` wraps `ErrPhaseInProgress`,
so `Stop` returns for either (`PhaseInProgress`). A context ends at any time (`Expire`); a
method looks at it before it looks at the phases.

*Lifecycle_phases*: three callers, one task. `PhasesExclusive`, `RequestIsFinal` (after a
shutdown request no startup phase begins or reports success, and no task is accepted) and
`ClosingOnceInOrder`. Three callers are one in a phase, one that meets it, and one that
changes what the first will find. No fairness is needed; the phases end only if hooks return.

### Server

`at` places each goroutine in `runContext` or `Shutdown`; while it is inside a lifecycle
method the lifecycle's own actions move it, and the next action reads `result`. The HTTP
server is external: a listener, the goroutine in `Serve`, requests. The scheduler is
reduced to `jobs` (idle, running, stopping, stopped), the templates' and the logger's
closing to an error in the outcome of the cleanup. A caller in `Hook` may call
Shutdown as a hook of another caller's phase; that phase ends only when the call has
returned (`HooksReturned`); a hook makes one such call in a behaviour. A Shutdown that meets a phase
in progress, a startup phase too, returns with that error (`InProgress`): the run then unwinds,
and its own Shutdown cleans up. `WaitTasks` is the
wait for tasks together with the entry of `lifecycle.Stop`. A second `Listen` waits for the
earlier `Serve` to have returned.

*Server_shutdown*: a run, a closer that may be a hook, a request, a task.
`StopAfterDrain` (OnStop hooks run when nothing is served and no task runs),
`CleanMeansDone` (a Shutdown without error has done everything), `ImplementsLifecycle` and,
if contexts end (`TimeoutSpec`), `ShutdownReturns`. The server gives each Shutdown of its
own a timeout (`ghttp/lifecycle.go`), and hooks receive contexts. Further fairness:
goroutines that can go on do, and a `Serve` whose listener was closed returns. Requests,
tasks and jobs need not end. One run and one closer suffice because the closer may come at
any point and any number of times, and followers differ only in when they give up.

### Restart

Processes are numbered in the order of their start, and each may restart itself in turn.
`manager` is a process's `serverRestartManager` with the attempt it makes, `phase` its server
reduced to what a parent or child can see, `signal` the pipe. An attempt is `Call`, `Spawn`
(or `Refused`), `Handoff` or `Abandon` (the context ended, the child died or failed, and is
killed), then `ShutdownParent` and `Exit`; the child goes on by `Bind`, `Started` or
`StartFails`. `Stop` and `Die` come from outside, at any time, and set `disturbed`.

*Restart_handoff*: three processes, which are an attempt that fails and one that hands over,
or a restart of the replacement. `AlwaysServed` (as long as nobody stops or kills a process,
somebody accepts connections), `OneSuccessor` (no process has two living replacements).
Safety only; that a process which handed over ends (`HandedOffStops`) holds under
`RestartFairSpec`.

### CookieSession, MemorySession, SessionManager

In `CookieSession` a token is its identity, family and expiry. An action is one call of the
revocation store, so a request's decode, revocation check, mint, register, revoke and
publish interleave with those of another and with the clock. In `MemorySession` the cookie is
an identifier, and an action is one critical section of the storage's mutex; a call of the
storage may fail before it has an effect. `Set`, `Delete` and `Clear` write the whole map a
handle holds and are one action. Ghosts remember what a revocation was to cover, and what an
identifier's client was sent. `SessionManager` chooses the storage once, as
`NewSessionManager` does, and is one of the two from then on.

*SessionManager_storage*: two requests. Cookies: two families, tokens that live two ticks,
three tokens, a clock up to five. Three tokens let one request rotate a token that another
has rotated or logged out; five ticks let revocations and tokens expire and be purged.
Memory: three identifiers that live one tick, a sweep every tick, a clock up to three: an entry
may expire, be renewed by one request while another has seen it expired, and be swept.
`RevokedNeverAccepted` (no cleanup forgets a revocation too early), `RotationSupersedes` (a
token is revoked only when a newer one of its family has been sent), `SessionSurvives` (an
identifier a client was sent opens its session until it expires, is logged out or is
replaced by one it was sent), `NoOrphans` (nothing stays stored that nobody was told of),
`RenewedStays` (expiry removes nothing that was renewed). Requests and families are
symmetric. Safety only.

### TemplateManager

`updateMu` is held from `Lock` to the end of a method; `mu` protects single reads and
writes, one action each. The files of a root are a version that edits raise; a parse
reads it in one step and may fail. The watch loop takes an event (`Event`) and drops the
snapshot (`HandleEvent`); one told to stop may do so once more (`HandleLast`).

*TemplateManager_updates*: two goroutines, two roots, two functions, one edit per root.
`SnapshotMatches` (what Execute uses belongs to the root and functions of now) and
`MethodsReturn`. Two methods at once and a loop are all that can meet under `updateMu`.
Fairness: goroutines go on, the loop runs, and the mutex does not starve a waiter (Go's
`sync.Mutex` switches to starvation mode).

### Loader

`store` is what `Store.List` would return and changes at any time; `loaded` is the loader's
snapshot, `jobs` the scheduler's jobs by name. A Sync is `Lock`, `List` (or `Refuse`), then one
action per scheduler call in the order of the three loops, each recorded in `undos`, then
`Commit`; or, after `Fail` at any point, `Undo` of the latest call until none is left, and
`GiveUp`. A refused undo sets `damaged`, a ghost: from then on the loader and the scheduler may
disagree, which the code reports and does not repair.

*Loader_sync*: three definitions and three names, two versions, two goroutines, two edits of
the store. `LoadedIsScheduled` (between Syncs the scheduler has what `loaded` says, after a
failure too), `NeverTwice` (no ID has jobs under two names), `NewestCommits` (a stale list is
not committed after a newer one). Three names allow a swap and a rotation, two edits a change
and the way back. IDs, names and goroutines are symmetric. Only safety.

### Application: Configuration, ServerSettings, Registration, RouteContract, StaticFiles, Requests

`Application` is a `Server` from `NewServer` to its last request.

- `Configuration`: a configuration is a record of layers, a layer a function from the keys it
  has a value for. `Get`, `Set`, `SetDefault`, `Unmarshal` and `LoadDefault` are operators. A key in
  lowerCamelCase has two spellings in the environment, and they are two layers. A process variable
  named like an enclosing key is a layer of its own (`shadow`), which hides file and defaults.
- `ServerSettings`: `Options` says for each option of `options.go` which settings it writes
  always, which only when the value is not blank, and which it switches off. In `Application`,
  `NewServer` starts from the defaults (logger, scheduler, documentation, sessions and request
  ID are on), `TakeOption` applies the next option of the list, and `Settle` merges the
  configuration for what no option decided and makes the checks of `initialize`, on the
  cookies of the default session manager too.
- `Registration`: `engine.chain` is Gin's tree, one chain per route, `registry` the framework's
  table. `registrar` is the goroutine that holds `registrationMu`, and installs a batch one
  route per action (`InstallRoute`); requests do not take that mutex and see the batch
  half way. Gin panics on a `Conflict` and keeps the routes before it, so the checks before
  the first route (`Fits`, `Placeable`) are what makes a batch all or nothing.
- `RouteContract`: a field is the tags it carries, its kind, its default, whether it is
  required and whether another rule refuses its zero value. A value is of the wrong type, or
  zero, or refused by a rule other than `required`, or plain. `ScanController`,
  `FieldCompiles`, `Bind`, `Validates` and the OpenAPI description (`Documented`) are
  operators over fields and a payload. `Tried` says which sources the binder asks and `Rank`
  in which order. The content type of a request without one is `none`, and a url-encoded body
  is read for POST, PUT and PATCH only (`ReadsForm`). `KeepsRules` is what a document leaves
  out. `Describable` is what a document can say: fields that compile, one of a name, none that
  is a file and a form value, and one kind of body.
- `StaticFiles`: one visit, step by step. The disk belongs to everyone, so each step that
  reads it is told what it sees; only the opened `os.Root` stays what it was.
- `Requests`: one request through the chain of its route. A middleware reads a policy once,
  when the request comes to it, and the policies may change meanwhile.

*Application_requests*: two controller routes, a static mount that conflicts with one of them,
the document's route; batches `<a>`, `<b, a>` and the self-conflicting `<b, b>`; a supplied
engine that may hold a route already; one middleware, one change of policy. Options are taken
singly and in pairs that decide a common setting: the merge is one setting at a time, so no
third option can matter to it. One key has a value in any layer. A method has one field of any
kind or two fields, and a payload fills at most one place of each: what two sources of a field
do to each other is left to the proof. Values vary in the first field, and methods in requests
with a form. `SettingsPrecedence` (the last option that decides a setting, else the sources in
the order of the README, wins; of the sources it covers those the README speaks of, not the
compact spelling of a variable, and neither `Set` nor a variable of an enclosing key),
`TablesAgree` (Gin runs exactly what the registry lists, whatever failed in a batch),
`NoMiddlewareLost`, `DocumentIsCurrent`, `OneEnvelope` (at most one envelope, an error
envelope only on an empty response, no silence), `AdmittedByPolicy` (a controller runs only
for a request that host and CSRF check let through), `DocumentedRequestsBind` (a request that
keeps to the document of its route is bound, and accepted if it keeps to the rules the
document leaves out as well; one that is accepted gave a value, and not a zero one, for every
required field without a default), `ServedFromMount` (what is sent comes from the mounted
directory, and no handle stays open). One request is enough: requests share only the settings.
Safety only.

### Gx: GenTransaction, Generators, ProjectInit, ModelTables

- `GenTransaction` holds both transactions of `gx`, which share the steps and differ in their
  order: `kind` says which one runs. A path is backed up and then installed (`BackUp`,
  `Install`): file by file, or all directories first (`AfterBackUp`, `AfterInstall`). `Fail` is any
  check or call that fails before its effect. A rollback removes what was installed and
  restores backups (`Remove`, `Restore`), in two loops or in one; each of its steps may be
  refused. The dao pipeline goes on to `Require`, `Tidy` and `Commit` and restores the module
  files when it is undone. There is no action for a kill: every state is one it may leave behind.
- `Generators`: a file is its ownership header and its body; the body of a generated file is
  what it declares, that of a developer's file is seed, work or broken. A command reads the
  project, renders its outputs and asks of each whether it may be written (`shared.PrepareOutputs`).
  Publication is one step: `GenTransaction` says what it is made of. Between commands the
  developer edits, deletes or takes over files.
- `ProjectInit`: download, extraction, checks, renaming, staging and the two renames with the
  backup between them. Each call may fail, the process may be killed between two, and the
  developer may write into the target meanwhile.
- `ModelTables`: where the database is named, which tables are selected, where the model of a
  table goes. The database changes between commands.

The four work on different files, so `Gx` follows one and keeps the others at rest.

*Gx_commands*: three paths to publish (one done, one half done, one untouched), old or new,
any of the last ones to be deleted, two module files; three API files in two modules, one of
which has two versions, two Logic modules, one edit (of any file); two files in a project
directory, two runs of init, two writes; three schemas, of which one is no directory name, one
table name. `Recoverable` (wherever the command stops, what was there is in place or in the
backup; the exception is a file transaction whose undo was refused, which removes its backup
all the same), `AllOrNothing`, `FollowsSources` (a scan of the project leaves generated code
that agrees with its sources), `DeveloperWorkStays` (files without the header keep what was
written in them), `ProjectKept` (init leaves the project it found in place or in a backup, or
has replaced it by the wanted one) and `ReplacedAsWhole` (the target is what was found, or no
file of that is left in it: then it has no project yet or the complete new one, beside what
the developer wrote meanwhile, which the ghost `written` remembers). Safety only; a command
has no loop it could stay in.

*Gx_imports* (a counterexample): see findings.

### Properties outside the runs

Some properties are stated beside those above and are not in a configuration. Proved (section
4): `SerialStart`, `SerialExclusion`, `QueueHasDrainer`, `SuccessMeansReleased`,
`RevocationCoversFamily`, `FunctionsKept`, `DropsAreCurrent`, `ModulesStay`, `ModelsInPlace` (a
table's model is where a complete generation of the same database puts it), `FrozenWhileRunning`,
`OnlyRegisteredPass`, `CleanupIsStale`, `KeptJobsStay`.
They can be put into the configuration of their module as they are. These hold on the same
instances, and being liveness properties have no proof: `HandedOffStops` (under
`RestartFairSpec`), and `QueueDrains` and `RunReturns` under fairness.
`LogoutCoversInFlight`, `ExecuteHasSnapshot`, `IndexIsServed`, `CleanupAfterStartup` and
`FileValueStays` do not hold: see the list in section 3.

## 3. Findings

Each is a run whose counterexample shows what the code does against a sentence of the
repository; `PROJECT.json` has the quotations.

1. *Scheduler_queue*: a job goes from AllowOverlap to QueueOne by Replace while an
   execution of each generation is under way. A trigger of the generation named by
   `activeToken` is queued without a handler; the last execution belongs to the other
   generation and discards it (`scheduler/overlap.go:79-91`).
2. *Gx_imports*: `gx service --module` knows only the modules it is given and removes the
   managed imports of all others from `internal/logic/logic.go`
   (`gx/internal/gen/service/generator.go:215`), where `gx/README.md:174-175` says that only
   imports of modules which no longer exist are removed.

Some behaviours are in the models, or follow from them, without a run of their own.

Server and lifecycle:

- an outcome that wraps `ErrPhaseInProgress`, passed on by an OnShutdown hook, is stored and
  makes every later `Server.Shutdown` return at once (`lifecycle.go:227-234`,
  `server.go:486`);
- a Shutdown whose own context has ended before it is called gets that error from
  `BeginShutdown`, which then records no request (`lifecycle.go:216-218`), and goes on to the
  cleanup, beside startup hooks too (`server.go:485`), where `README.md:440` says that startup
  unwinds first (`CleanupAfterStartup`);
- Shutdown called by an OnStop hook follows the attempt that runs that hook until its
  context ends, where `README.md:438` says that hooks do not wait for themselves
  (`server.go:489-497`);
- if the only later caller of Shutdown is refused with `ErrPhaseInProgress`, the cleanup is
  left to the one whose hooks were running;
- a child may be restarted by its own OnStarted hook before it has reported ready, and a
  parent that is stopped while it waits leaves its child behind (`restart.go`).

Sessions, templates, jobs:

- Logout with a token that expired during the request succeeds without revoking the family
  (`session/storage.go:330`), so a token that another request of the family obtained stays
  valid (`LogoutCoversInFlight`);
- `CookieStorage.Get` reads the clock twice (`storage.go:290`): a revoked token that expires
  between the two may still open a session;
- `Set` by a handle whose memory session was regenerated meanwhile stores the old identifier
  again (`ghttp/session.go:153`);
- `Execute` reads the snapshot a second time after its Reload; an Invalidate between leaves
  nil, which `Lookup` dereferences (`template.go:207`; `ExecuteHasSnapshot`);
- `Reload` may publish what it parsed before an `Invalidate` (`template.go:147-153`);
- a Sync whose undo is refused leaves jobs that later Syncs do not repair
  (`reconcile.go:52-56`).

Routes, requests, settings:

- `MountFS` redirects a request for its index to the directory and serves that by the index
  again (`static/static.go`, `serveFSFile`; `IndexIsServed`);
- a handler that writes with Gin's own writer and returns no error gets a success envelope
  appended;
- `required` refuses a zero value that was given (0, false, an empty string), and rules such as
  `email` and `oneof` are not in the document, so a request that keeps to it may be refused
  (`ghttp/validation.go:23-68`, `openapi/schema.go`);
- a url-encoded form is documented for every method and read for POST, PUT and PATCH only
  (`openapi/request_body.go:9-43`, `router/binder_form.go:47`);
- a required field tagged `json:"-"` can never be bound; a `*multipart.FileHeader` field compiles
  under tags it can never be bound from (`router/binder_compile.go:58`);
- the length of a static mount's chain is not checked against Gin's limit; static mounts of
  the root path and routes of a supplied engine are not in the table that Bind checks;
- a variable named like an enclosing key (`SERVER`) makes Viper return nothing for the keys
  below it, so the values of the file and the defaults of the configuration are lost
  (`config/config.go:62` and `:180`), where `README.md:148` says that a variable overrides
  only the key it names (`FileValueStays`);
- `Set` of an enclosing key loses to the environment (`README.md:109` puts it first); the
  compact spelling of a variable is seen by Unmarshal and Get in different places of the order.

gx:

- a file transaction removes its backup after a rollback that could not restore it
  (`gen/fs/transaction.go:262-282`), which a directory transaction does not;
- `ctrl <name>` into a module that has APIs renders the module from a scan of the disk, which
  lacks the new file: a second run completes it (`gen/controller/standard.go:70-82`);
- `service <name>` on an existing Logic overwrites its Service with the demo's;
- `_new.go` files are never cleaned, and `--clean` deletes an implementation whose text quotes
  the header;
- init: `gx/README.md` says that `--module` defaults to the directory name, which `CheckPath`
  refuses when it has no dot; files written into an absent target during the download are
  replaced without `--force`: they are moved to the backup, which a successful init removes
  (`gen/module/generator.go:634`);
- dao: `DATABASE_URL=mysql://...` without a driver is taken for sqlite, as are a host, user and
  name without a driver; `--tables` removes the models of all other tables.

## 4. Proofs

Every safety invariant and safety action property that a passing run checks is a theorem for
all values of the constants. The proofs assume the named assumptions of the modules and
nothing else:

- the special values (`NoToken`, `NoRoot`, `NoCache`, `NoFamily`, `Nobody`, `NoCaller`, `Absent`,
  `NotFound`) are outside the sets they stand beside;
- `TTL`, `Timeout`, `Grace`, the number of processes and of paths are positive;
- `Call` and `Schema` are finite, as executions and schemas are counted with `Cardinality`;
- `Policies` are policies, there is a job name, and the tokens of gates are the scheduler's
  generations (`SchedulerAssumption`, `TokenAssumption`);
- runners and hooks are disjoint sets of callers;
- the memory storage's identifiers and times are numbers (`MemoryAssumption`);
- the routes of batches, static mounts and the document are different routes, as are the
  framework's handlers and the application's; an option list is a sequence;
- each set of fields is one that a method can have and a document describe (`ContractAssumption`).
  The exceptions `Describable` makes are code that behaves otherwise: see section 3 and the end
  of section 5.

**PersistenceProofs**: the gate, persistent executions and the loader.

- `GateInv` is inductive for all policies: the count is the
  cardinality of the executing goroutines (each step adds or removes one), a pending
  trigger has a positive count, and its handler is nil or its own. It gives
  `ActiveCount` and `QueueDrainer`, and with it `SerialStarts`: a serial policy admits only at
  count zero. `SerialInv` (needs that AllowOverlap is not among the policies) adds that
  `activeToken` names the execution under way, so that the handler of a pending trigger is
  never missing: `AcceptedTrigger`. The first finding is what happens without that
  assumption.
- The steps of an execution are steps of the gate or stutters
  (`GateImplemented`), so the gate's theorems hold of a persistent job: `AcceptedExecution`.
  `LeaseInv` says that the lease of a singleton execution whose handler runs has that
  execution as its holder and lasts at least as long as its context and the grace (time
  passes only while handlers keep to `Prompt`). A lease has one holder, so no second handler runs
  on any instance: `SingletonExclusion`. `SuccessReleased`: a
  run is recorded as a success only when its lease is gone.
- `LoaderInv`: in the middle of a Sync the jobs are those of `Current`, which takes of each ID
  its new definition, none, or the loaded one, as the calls in `undos` have it (`Scheduled`).
  Each call was made once and for its reason, and the additions come after all removals
  (`UndoInv`), so the latest can be undone and a rollback ends where the Sync began:
  `SyncAllOrNothing`. `Current` gives an ID at most one definition: `OneJobPerID`. A store is
  listed under the loader's mutex (`ListInv`): `CommitsInOrder`. `KeptJobsUntouched` follows
  from one step of each loop.

**SchedulerProofs.** `SchedulerInv`: a record that is not made has left no trace (`RecordInv`), the
registered records are the active ones and what they must still remove is inactive (`JobsInv`),
and the record a method is about to publish is installed, pending and of the gate of the one it
replaces (`OpInv`). With these `HandleOwned` and `RegisteredIsScheduled` are inductive
whatever the engine refuses: `HandlesOwned`, `StaysScheduled`, `PassRegistered`,
`CleanupNeverLive`. `GatesImplemented` is the refinement of `OverlapGate`, one gate at a
time: a trigger is at the gate of its generation, so a step at one gate is a stutter at the others.

**LifecycleProofs.** `PhaseInv` relates the flags of the phases: who holds which flag, and
that closing flags imply the request and exclude startup flags. `Exclusion`,
`SingleRunner`, `FinalRequest` and `ClosingOnce` follow from it, the last two as
action properties.

**ServerProofs.**

- `CleanupInv` is inductive alone. `LifecycleImplemented` maps each step of
  the server to a step of the lifecycle or a stutter, with `Returned` as the guard that
  makes it true; it carries `TypeOK` and `PhaseInv` of the lifecycle over. `DrainInv` says
  that a cleanup whose context has not ended has done what it has passed (a context
  that ended makes `lifecycle.Stop` refuse to run hooks), which gives `StopsLast`.
- `CleanInv` adds what a caller may report: `Done(p)` says of each place in the cleanup what is over
  if nothing has failed so far. It is stable because after the shutdown request nothing is
  accepted, started or added again, by the lifecycle's invariant: `CleanReturns`.
- `RestartInv`: unless somebody interferes, some process stands (it serves, has not handed over and
  nobody awaits it), and beyond everyone who has handed over a later one does (`StandInv`);
  `AttemptInv` says what an attempt under way has of its child. The handoff passes the
  property on to the child, an attempt that fails leaves it where it was: `AddressServed`,
  `SingleSuccessor`.

**SessionManagerProofs.**

- `RevocationInv`: the store knows an expiry at least as late as
  that of each live registered token of a family, so a revocation through that expiry
  covers them all, and purging removes only what no longer decodes. `RotationInv`: what
  a request has minted is younger than the token it replaces, and of the same family as long as
  that token lives. That gives `RevokedHasSuccessor`.
- `MemoryInv`: an identifier under way belongs to one request (`HoldInv`, `FreshInv`), an
  entry expires when its client was last told (`EntryInv`), and what was sent, or is about to
  be, is not removed by another (`SurvivalInv`): `SessionsSurvive`, `OrphansLeaked`,
  `LiveRemovedByOwner`.
- `ManagerIsEither` carries both over to `SessionManager`.

**TemplateManagerProofs.** `TemplateInv`: `updateMu` has one holder, what the holder parsed is
what it would parse now, and an old loop exists only while its stopper waits.

**GxProofs.**

- `GenInv` says how far publication and rollback have come: `PublishInv`,
  what is at a path before, at and after the index of the loop; `UndoInv`, the same backwards, if
  nothing was refused; `StageInv`, which steps are final. With them `Recoverable` is
  inductive: a backup is taken only of old content, and removed only when it was restored or
  when the publication is final. `NothingLost`, `Atomic` and `FinalStays` follow, for any
  number of paths.
- `ProjectInv`: at each step of init the old project, with what was written to it since
  (`Kept`), is at the target, in the backup or replaced (`WhereInv`); what is staged after the
  checks is complete and holds no file of the old project (`StagedInv`): `FoundProjectKept`,
  `TargetReplaced`.
- `ModelsPlaced` follows from the count of the schemas that the database exposes, whatever is
  selected; a schema gets a directory of its own when there are several.
- `WorkOfDevelopersStays` and `CodeFollowsSources` are about one command each: what
  `PrepareOutputs` lets through, and what is rendered from the project that was scanned
  (`CommandInv` only says which command it was).

**ApplicationProofs.**

- `RegistrationInv` adds to the properties of the tables what a half
  installed batch needs: the routes still to come fit into Gin's tree, those installed are
  not yet in the registry, every chain is complete from the moment it is installed, and a
  document, cached or about to be, is that of the registry unless an invalidation is due. It
  gives `RoutesAgree`, `MiddlewareComplete`, `DocumentCurrent` and `TopologyFrozen`.
- For requests, `ChecksPassed`
  relates the place of a request in its chain to the checks it has passed, every chain being
  the framework's handlers before anything else (`ChainsFramed`): `RequestAdmitted`.
  `AnsweredOnce` relates the response writer's flag (`wrote`) to the sequence of writes at each
  place: `OneAnswer`.
- `VisitInv`: past the verification the opened root is the mounted directory, and a handle is
  held only between the step that opens it and the one that leaves: `MountServed`.
- `DocumentBinds` is about operators: one source decides a field (`DecidesOne`), and in a
  request that follows the document it is one the document announces, so what is found there
  converts (`FoundConverts`). A required field is among what the document requires, body by
  body, so something is found (`RequiredFound`), and with `KeepsRules` no rule refuses it.
  Whatever the request, a zero value passes no `required`, so an accepted one gave the field
  (`RequiredGiven`).
- `DraftInv`: while the options are taken, a setting is marked as set exactly by the options
  that say something of it, and has the value of the last of them. Against the configuration,
  `Get` and `Unmarshal` take the first layer that has the key; without the spellings the
  README does not speak of, that is the first in its order: `PrecedenceHolds`.

Only model-checked: the liveness properties (`LeaseEnds`, `TriggersResolve`, `MethodsReturn`,
`ShutdownReturns`, and those of the last section of 2), since TLAPS does not do fairness or ENABLED.

## 5. Not modelled

Logging, the type mapping of `gx dao` and the text of models, the adapters to other loggers,
the facade and the examples: functions of their input, without state that two parties
share.

Inside modelled parts: `Use`, `Validate` and `Jobs` of the scheduler, the registration of
hooks, session values and their encoding, TLS, the contents of templates and files, nested
schemas of the OpenAPI document, the matching of hosts, origins and tokens (whether one
matches is a choice), the checks of `gx`'s `path.go` that keep output paths apart, and the
combination of names with `--dir` or `--clean` in `gx ctrl` and `gx service`. Routes that
mix JSON and form bodies, fields tagged both as a file and as a form value, and an explicit
Consumes are left out of the documented requests.
