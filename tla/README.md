# Verification of suda-forge

TLA+ specifications of the parts of suda-forge (a self-hosted platform that
plans, provisions, verifies and deploys projects) whose correctness depends on
the order of steps of several goroutines, requests, saves and restarts. Each
modelled component has a specification translated from its Go source and an
instance that TLC checks completely. Eight modules of theorems, checked by TLAPS,
say the same for every value of the constants: every safety invariant and every
action property of a run is also a theorem, and so is the refinement of the
loop's contract. What is left to TLC alone is liveness.

Paths below are relative to the root of the Go repository.

## Contents

1. The system
2. Modules and what they correspond to
3. Runs
4. Fairness
5. Proofs
6. Where code and documentation disagree
7. Behaviour worth knowing that is not a finding
8. What is not modelled
9. Plan
10. How to run

## 1. The system

One Go process (`cmd/server/main.go`) serves an HTTP API (`internal/httpapi`).
Every request runs on a goroutine of its own. State lives in PostgreSQL rows and
in maps of the managers that `main` constructs; containers (runtimes) and
commands inside them are reached through one provider. There are no distributed
transactions: a manager reads a row into a struct, works on the struct and writes
the whole row back, usually with `INSERT ... ON CONFLICT UPDATE` and without a
version column. That shape, repeated in every component, is the source of most
hazards.

| Component | State | Operations | Hard part | What makes it correct |
|---|---|---|---|---|
| Workflow scheduler (`internal/orchestration/scheduler.go`, `graph.go`) | task map and status of one workflow, semaphore, task locks | `Run`, `executeWithRetry`, `ReadyTasks`, `BlockDependents` / `PropagateFailures` | goroutines of a batch share a plain map; deadline, cancellation and retry race | dependencies first, bounded concurrency and attempts, a true verdict, it returns |
| Autonomous loops (`internal/productexperience/loop_coordinator.go`, `internal/httpapi/product_experience.go`) | row per loop, `running` map | plan, start, resume, `Recover`, `run` | stale copies, recovery racing the API, crash between execution and checkpoint | one worker per loop, checkpoints in order and never lost, `COMPLETED` is true and final |
| Provisioning (`internal/provisioning`) | row per run with its steps, the project's container | create, start, resume, cancel, cleanup | whole-copy saves of concurrent requests, failed saves, lost runtimes, a container others use | steps after their dependencies, `READY` only with every step passed, a stop is honoured |
| Deployment (`internal/deployment/service.go`, `internal/httpapi/deployment.go`) | in-memory map and active pointer, table `deployments`, what is on the runtime | create with its pipeline goroutine, rollback | rollback during a pipeline, ignored save errors, the map is lost on restart | nothing `ACTIVE` that did not pass every gate, the pointer never dangles |
| Verification (`internal/verification`, `internal/httpapi/verification.go`) | run row, one row per result | create, repair, get, cancel | context that ends between steps, retries in repairs, `Save` without a transaction | a stored `PASSED` is proven, effort bounded, verdicts final |
| Verification gates (`internal/verification/gates.go`) | none | predicates | stale verdict | a gate passes only on a stored `PASSED` |
| Deployment infrastructure (ports, routes, domains, previews, certificates) | two tables of ports, routes of an external proxy | reserve and release a port, activate a route | two reservations of one port | a port keeps its binding, who is told so holds it |
| Project computers (`internal/projectcomputer`, `adapters/runtimes/lxc`) | map, table, container per project | create, start, stop, restart, destroy, verify | unlocked read-modify-write around slow runtime calls | the status is true of the container, no container is forgotten |
| Accounts, sessions, memberships (`internal/auth`) | users, sessions, memberships, an advisory lock | bootstrap, login, logout, set and remove members | concurrent removal of owners, concurrent bootstrap | one administrator, sessions of real accounts, a project keeps an owner |
| Project lifecycle (`internal/lifecycle`) | project row and its runtime | create, change status | runtime call before the transition check | a running runtime is known to the row |
| Agent sessions (`internal/agent`, `cmd/server/constitution_guard.go`) | session row, map of processes, constitution in memory and table | create, start, send, cancel, set the constitution | cancel racing start, stale copies, processes that outlive the server | status along the lifecycle, every process within reach of a cancel, starts governed by the stored constitution |
| Orchestration planner and controls | workflow rows, resource counters, approvals | plan, acquire, approve | not called by the server | - |
| Tool registry and artifact cache (`internal/sharedinfra`) | registry, entries and contents in memory and in tables | load or seed, resolve, lookup, put, invalidate, hydrate | memory and tables have different keys; a stop between statements | no false hit, what was put is found, an invalidated entry is not |
| Event bus and activity log (`internal/events`) | subscribers with buffers of 32 | publish, subscribe, forward, stream | drops for slow subscribers, close while publishing | the log is in order and misses only events without a project and those that met a full buffer; streams end |
| AI fabric and model routing (`internal/aifabric`, `internal/routing`) | model descriptors, health cache, streams | discover, health, install, load, unload, decide, generate, stream | descriptor races, stale health, a stream nobody reads | the catalogue is served, limits hold for every choice, tokens arrive in order and, unless the body was cut, all of them |
| Manifests, knowledge, constitution, design intelligence, planners, visual QA, registries | rows written by one statement, documents | pure functions | none between steps | - |
| HTTP surface, configuration, files, front end, migrations, scripts | - | - | - | - |

How they interact: the loop coordinator's stages are delegated to the
orchestration and verification parts (`stage_executor.go`; a stage without a
delegate ends blocked), and only the outcome of a stage reaches the loop's row. The deployment pipeline asks the verification store for
a `PASSED` run at its `VERIFYING` step (`main.go` installs the gate). Startup
starts `Recover` of the loop coordinator beside the HTTP listener. Nothing else
is recovered at startup. The lifecycle and the project computers drive the same
runtime provider; a project's creator becomes its owner in the membership table;
an agent start asks the constitution guard; the router reads the fabric's
catalogue and health cache; everything publishes on the event bus, whose
subscribers are the activity log and the clients of two event streams.

Two things are easily missed. `orchestration.Scheduler` is not part of the server:
only `cmd/orchestration-sim/main.go` runs it. And provisioning and the project
computers work on the same container, `suda-<ProjectID>`
(`internal/provisioning/manager.go`, `internal/projectcomputer/manager.go`),
without knowing of each other; the lifecycle's container has the project's slug
in its name instead.

`PROJECT.json` lists the hazards line by line, with the properties that would
catch each of them going wrong.

## 2. Modules and what they correspond to

Data is abstracted to what the code branches on. Names, messages, evidence,
timestamps and log lines are left out; a row is a record with the fields that
conditions read. Constants that end in `Faults` say whether a call may fail;
constants that begin with `Max` are bounds of the model where the code has none
(crashes, runtimes) and parameters of the code otherwise (`MaxAttempts`,
`MaxParallelArg`).

### Scheduler

`orchestration.Scheduler.Run` over one workflow. The main goroutine (`pc`)
alternates between looking at the context, blocking dependents, collecting the
ready tasks, marking and starting them one by one, and waiting for the whole
batch. A task goroutine (`gpc[t]`) waits for a slot (`sem`), calls the executor,
retries, stores its outcome, and then runs its three deferred calls in their
order: slot, task lock, WaitGroup. The environment ends the context or lets a
task's deadline pass at any moment.

`workflow.Graph.Tasks` is a plain map written by several goroutines without a
lock. An assignment is two steps (`BeginMark`/`EndMark`, `BeginStore`/`EndStore`);
while two of them overlap the Go runtime may notice and abort the process
(`MapFault`), or may not. `ValidateGraph` is the graph check, stated as "every
non-empty set of tasks has one without a dependency inside the set".

An executor that reports `PENDING`, `READY` or `RUNNING` for a finished call is
excluded by `ResultAssumption`: no executor in the repository does it.

### LoopContract and LoopCoordinator

`LoopContract` is the abstract specification: the state machine of a persisted
loop as `SUDA_FORGE_PRODUCTION_READINESS.md` gives it. A loop checkpoints its
stages one by one and in order, ends `COMPLETED` only with all of them, is
resumed from its last checkpoint, and `COMPLETED` is final.

`LoopCoordinator` is the code: plan, start and resume requests; `Recover`, which
lists the runnable loops at startup and resumes them one after the other until
the first error; the goroutine `run` (`wpc`), which enters `running` under the
mutex or turns away, loads the row, and for every remaining stage saves the
current stage, executes it and saves its result. Each participant holds the copy
of the row it read (`ccopy`, `wcopy`) and writes whole rows. `Crash` keeps the
rows and loses everything else. `faults` says whether the store of this
behaviour ever fails; it is chosen in `Init`.

### Provisioning

`provisioning.Manager` for one run: the row, the requests on it, and the container
`suda-<ProjectID>`. A request reads the row when it begins and carries its copy
(`copy[c]`) to the end. `Provision` saves `ALLOCATING`, creates the container if the
copy names no runtime, records its ID, and then goes round: collect the ready steps,
execute them in order, save after each; a round with nothing ready writes `READY`.
Cancel, resume and cleanup are the other three requests.

`Init` covers a run planned without a runtime, with the container's own name, and
with another ID that a client passed (`given`), of which nothing is known: it need
not exist. The container is in any state at first, and `Others` lets the project's
computers and its other runs create, start, stop and destroy it at any moment. The
provider's `Create` leaves it stopped, so a step with a command passes in it only
after somebody else has started it; it can be destroyed only when stopped.

Requests overlap and saves fail in every behaviour. What that can break is recorded
in four history variables, and the properties say so: `stale` are the requests
somebody else's save has overtaken, `stopped` that a cancellation or cleanup is
persisted and no stale request has saved over it, `made` that the container was
created by this run and its ID was not lost with the request that held it, `retried` that a
run with a failed step was provisioned again.

### Deployment

`deployment.Manager` behind its two handlers. A created deployment is in the map
(`mem`) and in the table (`db`); a goroutine walks `Pipeline`: each step is
entered by `transition` under the mutex, then runs its command or gate, and may
fail. Step 7 is `ACTIVE`, set by `transition` and set again by `activate`, which
also moves the project's active pointer. After `Deploy` returns the handler
reads the final status and saves it; both the read and the save are steps. A save
that fails may have reached the table; the gate may fail because its query does.
A rollback deploys the named release, marks the deployment `ROLLED_BACK` if the
transition table allows it (the error is dropped), reads and saves. `placed` is
what the runtime was last given. `Restart` loses the map, because nothing loads
it. `verdict` holds the verification runs that the gate asks for; they are saved
at arbitrary moments (`VerificationSaved`).

### Verification

A request runs `Engine.Run` over a list of checks in the order of their IDs:
look at the context, block or refuse the check, execute it with retries, look at
the context again, judge at the end. A repair request first reads a stored run,
takes the list of checks from the result rows that exist, and alternates repairs
and engine runs up to the limit. `Save` is one step per statement: the run row,
then each result. A request's context may end before any step, and a statement
with an ended context fails. A run's id is `vr_` with the time in nanoseconds, and the
store updates the row of an id it has; the model takes the ids of two requests to be
different.

`cancelVerification` updates rows that are `PENDING` or `RUNNING`. It is not an
action, because invariant `Conclusive` (proved) shows that no such row is ever
stored.

### ProjectComputer

`projectcomputer.Manager` with its handlers and the LXC provider. A request
reads a record (from the map, else from the table), carries out a list of
commands (`todo`) on the container of the project, undoes a creation that failed
half-way, and saves its copy in the map and then in the table. All computers of
a project share the container's name. `Needs` and `Leaves` say which state of the
container a command requires and produces; any command may also fail without
effect. A restart forgets the map.

Provisioning runs its own commands on the same container (`Provision(p)`), at any
time. `provisioned` remembers the projects whose container it created. `overtaken`
are the computers on whose container somebody else (provisioning, or a request for
another computer of the project) has acted since a request of their own last brought
it into a known state: of them the map may say anything.

### Accounts and Projects

`Accounts` has the tables of users, credentials, active sessions and memberships
and one step per statement. The bootstrap counts, takes the advisory lock, counts
again, commits and opens a session; a removal of a member counts the owners and
deletes. `Projects` adds the lifecycle service (row, runtime, the grant of
ownership at creation) and composes both: requests of both kinds are in flight
together. `unsaved` remembers the projects whose runtime was changed by a request
that could not save it. Isolation is PostgreSQL's default: a statement sees what is
committed.

### AgentSessions

The service, the session table, `CLIAdapter` with its map of processes, the
runtime's processes and the guard. `Start` reads, asks the guard, saves
`STARTING`, starts the adapter (a process, then its entry in the map), saves and
records the event; a process may end by itself at any moment. The guard decides
on the constitution in memory (`book`), which a setter writes before it stores it
(`stored`); `unsaved` remembers that a store failed. A restart forgets `processes`
and `book` and leaves the processes `alive`.

### Routing, EventBus and AIFabric

`Routing` is the router as operators: the hard constraints (`Accepted`), the
integer scores that order what is left, the override, the fallback loop.
Floating-point scores become integers in a unit in which the code's weights are
whole numbers; only `CHEAPEST` divides, and its quotient is rounded. The records
of the code (`ModelProfile`, `RoutingRequest`) are the record sets `Profiles` and
`Requests`. A filtered list is a function from the positions that are kept, so
that its order is the order of the positions.

`EventBus` numbers the events. A subscriber has a bounded buffer that `Publish`
skips when full. The forwarder subscribes at some moment after start-up and
appends to the activity log, which drops an event without a project (`anonymous`);
`missed` are the events that met a full buffer. A client's stream ends through the goroutine that
closes its channel. `flushes` says whether the response writer can flush, which
decides whether a stream is served or refused (see section 7).

`AIFabric` composes them: discovery, health checks, installation, load and unload
are requests of several steps over the registry; an administrator stops and starts
a runtime or removes a model from it (`removed`). A decision reads the descriptors,
then copies the health cache, then reads the settings and asks `Routing`; `late` are
the runtimes whose health was stored after the copy. An inference stream is a scanner
goroutine, a relay goroutine and a handler joined by two channels; the scanner may
stop at any line (`cut`: the client's timeout, a runtime that dies, a line that is
too long, an ended context), and the completion is sent all the same. Every operation
publishes on the bus, one event per step; a discovery, which publishes an event
for every model it met after it has registered all of them, has a step for each.

### Ports, SharedInfra and Infrastructure

`Ports` is a reservation in its three statements (look-up, insertion, second
table) and a release, with requests that overlap. A look-up that fails counts as a
free port (`told` is false). A port is a number with a protocol, and the derived id of
a binding has only the number. `granted` is the last RESERVED that was answered, and
is `fresh` if the look-up was answered and its row was still there at the insertion;
`misled` remembers that RESERVED was answered to a request that has no row.

`SharedInfra` is the start of the server (load the tools or
seed them row by row, hydrate the cache) and the cache's operations, one step per
statement, under the mutex (`call`). `seeding` counts, for each tool, the
statements its seed has left. The query of a tool's versions may break off without
anybody noticing (`short` are the tools that happened to), and so may the queries of
artifacts. An artifact is an id with a checksum, which may be the checksum of no bytes
(`EmptySum`); the maps are keyed by both, the tables by the id. The key in memory has
the name, the version, the platform and the architecture besides, which are left out:
artifacts of one id are taken to agree in them. `held` and `dropped` are history
variables: what was put, or invalidated, and not disturbed since. `cut` are the
tools whose rows were being written when the server stopped. `Infrastructure`
puts both under one server that stops; `part` chooses which of them a behaviour
follows, because they share nothing but the stop.

`Release`, `Put` and `Invalidate` are operations of their packages that no handler
calls today.

### MC modules

The `MC` modules give the graphs, request bodies, modes and symmetry sets that
the configurations use.

## 3. Runs

Passing runs explore the whole state space of their instance.

| Run | Instance | Shows |
|---|---|---|
| `scheduler` | 4 tasks, 2 slots; five graphs: a join, more roots than slots, a chain, a cycle, a dangling dependency; one task with two attempts and a deadline | concurrency and attempts within their limits, dependency order, the verdict, work that is independent of a failure gets done, no task left running, the process can only abort in a batch of two or more, `Run` returns |
| `loop_concurrent` | 1 loop of 2 stages, 1 request besides recovery, 2 workers, all three calls, store faults, 1 crash (2.4 million states) | one worker per loop and no leaked entry, a `COMPLETED` row is true |
| `loop_recovery` | 2 loops of 3 stages, no API calls, 2 crashes, store faulty or not | the rows implement `LoopContract`; with a store that answers, every `RUNNING` loop stops being `RUNNING` |
| `provisioning` | 4 steps (fork, join), 2 overlapping requests of any kind, a run with its own, a given or no runtime, others at work on the container, failing saves, commands and creates, 1 crash (3.2 million states) | a `READY` run has passed every step unless a failed one was provisioned again; a persisted stop is honoured and a created container is recorded, until a stale request saves over it |
| `deployment` | 2 deployments of one project, one complete request body and one without a health target, 1 rollback caller, failing commands and saves, 1 restart (4.3 million states) | nothing `ACTIVE` unearned, pointer never dangles, rows settle |
| `verification` | 3 checks in a chain, the last optional, attempts 2, 0 and 1, 2 repairs, 2 requests, failing statements (383 thousand states) | stored `PASSED` is proven, verdicts stable, requests end |
| `computers` | 2 computers of one project, and so of one container, on which provisioning works too; 2 requests, 1 restart (2.5 million states) | what the map says of a computer that nobody overtook is true of the container, no container is unaccounted for that provisioning did not create |
| `projects` | 2 users, 1 project, 2 session slots, 2 requests | one administrator however bootstraps race, sessions of committed accounts, the lock always comes, the last owner is not removed, a runtime that runs is known to its project's row |
| `agents` | 1 session, 2 requests, 2 processes, three constitutions, with and without a process manager | a `RUNNING` session was started, the status follows the lifecycle, a live process is within reach, starts are governed, `STARTING` does not last |
| `aifabric` | 2 runtimes, 2 models, 2 requests; 1 stream of up to 5 tokens over channels of 2; a bus with buffers of 2 and 4 events; the router on all lists of one to three of six profiles and 51 requests under three project settings (888 thousand states) | the catalogue is served unless a model was removed at its runtime, the health cache is the last answer and decisions respect what was stored when they read it, limits hold for every choice, the order of the list does not matter, a refusal means nothing fits, tokens arrive in order and, unless the body was cut, all of them, goroutines and streams end, the log is faithful |
| `infrastructure` | one port number of two protocols, 4 bindings of 2 projects, 2 requests; 2 tools with 2 versions, 2 artifacts of one id, one of them empty, any number of stops, failing statements or none (624 thousand states) | a port keeps its binding, who is told so after a look-up that still holds has it, both tables agree until somebody is misled; tools resolve after an interrupted seed unless their own rows were cut or not read to the end, no false hit, what was put is found, what was invalidated is not |

One more run, `provisioning_failed_ready`, is expected to find a violation; it
is section 6.

Modes and histories. Some properties hold for any interleaving and any failure;
others the code keeps only as long as no stale copy is saved. Where the moment of the
damage can be named, a history variable records it and the property holds up to it
(`stale`, `overtaken`, `misled`, `late`, `unsaved`, `cut`, `short`): all interleavings
are explored, and the property says which one breaks it. In the other modules a variable
chosen in `Init` (`mode.overlap`, `mode.faults`, `faults`) says what a behaviour
may do, the guards read it, and a property that needs it says so. `computers`, `projects` and `agents` combine overlapping
requests on a sound server with single requests on a failing one; the theorems
hold for every set of modes, with overlapping requests on a failing server in it.

Invariants that are proved for every value of the constants and that a small
instance would add nothing to (the type invariants of `Scheduler`,
`LoopCoordinator`, `Provisioning`, `Deployment` and `Verification`, `StagesInOrder`, `DependenciesFirst`, `RoundsProgress`, `Conclusive`,
`FailedIsExplained`, `EffortBounded`, `DependenciesHonoured`, `EndedIsTerminal`,
`FailedStays`, `FinalStatusStable`) are not repeated in the runs. The other
modules have conjunctions of named parts, one per question: `RecordsTrue`,
`AccountsSound`, `SessionsSound`, `CatalogSound`, `RouterSound`, `StreamsSound`,
`StreamsEnd`, `PortsSound` and `CacheSound`; each part is stated and explained
where it is defined, and the type invariant is one of them.

Why the bounds are enough:

- Scheduler. The smallest shapes in which the cases of the code differ: two
  tasks that become ready together, a task that waits for two, a batch larger
  than the semaphore, a failure two levels above a task, graphs that are
  refused. `MaxAttempts` 0 is the clamped case, 2 the smallest with a retry.
- Loops. Two stages are the smallest number with an order; three with a middle
  one. Two workers are the smallest number that can collide on one loop, and
  the theorem `OneWorker` holds for any number. A second crash hits a recovery
  that follows a crash.
- Provisioning. Two requests are enough for a stale copy; the step graph has
  what the ten default steps have (a step without a command, a fork of two steps that
  are ready together, a join). The run has one container, as in the code; it can be
  created again after it was destroyed.
- Deployment. Two deployments compete for one pointer; the rollback caller can
  be used again, so rollbacks follow each other.
- Computers, projects, agents. Two requests are enough for a stale copy and for
  each race the code guards against; a second computer of a project shares its
  container; a verification asks for one capability, since `DEGRADED` and `FAILED`,
  which others would give, promise nothing; one project and one session suffice because rows of different ones
  never meet.
- AI fabric. Buffers of 2 instead of 32 and 16 fill within the run; 4 events
  overflow a buffer of the bus, 5 tokens fill both channels and the relay's hand. The profiles contain a
  tie, a GPU model, an unhealthy runtime, an agent restriction and both kinds of
  location; each limit of a request decides between some of them.
- Infrastructure. Bindings with a derived and with a chosen id meet on one port,
  a request of another project has the id of the first, and one derived id belongs to
  two ports that differ in the protocol. The versions of one tool sort the other way round as
  text. Two checksums of one id are what memory keeps apart and tables do not.
- Verification. One request to be repaired and one that repairs it. Attempts 2
  retry, 0 is clamped; the optional check distinguishes required from executed.
  The two kinds of ended context differ only in the name of the status, and the
  run uses one of them.

`CHECK_DEADLOCK FALSE` appears where the system may stop: the scheduler's `Run`
returns, deployments, verification requests and loops are served and nothing
further is asked for, events and tokens are used up. In the other runs a request
is always possible, and deadlock is checked.

Each property has a mutant: a small change of one definition, of the kind an
edit of the code could make (a dropped guard, an off-by-one, a forgotten save),
with which TLC finds the property violated. The mutated forms stand in front of
the definitions they change (`SlotFreeOffByOne` before `SlotFree`).

## 4. Fairness

- Scheduler: weak fairness of the main goroutine and of every task goroutine.
  The Go scheduler runs runnable goroutines; that an executor returns is an
  assumption (`RunReturns` says "if executors return"). The context and the
  deadlines get no fairness.
- Loops: weak fairness of recovery and of every worker's steps. Requests and
  crashes get none. `LoopSettles` is about behaviours in which the store answers.
- Verification: weak fairness of the work of a request that
  was accepted: its database and runtime calls return or time out. That a
  request arrives is not assumed.
- Projects and agents: weak fairness of every request that is being served.
- AI fabric: weak fairness of both goroutines of an inference stream and its
  handler (which reads until the channel is closed), of the clean-up of a
  subscription and of the handler that drains it. For the handlers this says that
  a write to the client returns; the server sets no `WriteTimeout`, so it is an
  assumption on the network. Clients are not obliged to stay or to leave.
- Provisioning, deployment, computers and infrastructure: no liveness property is
  checked. That `Provision` ends is `RoundsProgress`: each execution takes one step
  out of `PENDING` for good.

Strong fairness is not used anywhere.

## 5. Proofs

The theorems hold for every number of tasks, loops, stages, steps, checks,
deployments, users, projects, sessions, computers, models, artifacts, requests
and crashes that satisfies the named assumptions. These are `ASSUME`s of the
specifications and TLC evaluates them in every run; they say
that identifiers are distinct, that no row equals the value that stands for its
absence, that graphs are the ones the code accepts, that what clients send has
the type the code decodes it into, and that
limits are integers (not positive ones, since the code clamps them).

Every proof has the same outline: an inductive invariant (`IInv`, or a name of its
own where a module proves things about two specifications), a lemma that the
initial states satisfy it, one lemma per action or group of actions,
`Spec => []IInv`, and the properties as consequences.

| Module | Why the properties are not inductive, and what the invariant adds |
|---|---|
| `OrchestrationProofs`, scheduler | `DependencyOrder` and the verdict depend on where every goroutine is. `Goroutine(t)` ties a goroutine's place to its slot, lock, attempt counter and task status; `MainInv` ties the main goroutine's place to `todo` and `batch`; `NeverCalled` says that a task whose executor was never called is unstarted, in the batch, or blocked by a dependency that failed; `Alive` collects them for a process that has not aborted. |
| `OrchestrationProofs`, AI fabric | `FabricInv` has a part per property. `Served`: the descriptors of the registry, and those a request is still to register, are models their runtime has or had before they were removed (`Had`). `Checked`: the answer a health check holds is the runtime's last one. `Copied`: a copy of the health cache differs from the cache only in the runtimes stored since. `Decided`: a decision in the state is the router's for the list it was given, whose rows say what the cache says but for the late runtimes; with the lemmas about the router (`DecideFacts`, `ChosenFacts`, `OrderFree`, for every list and every request) this gives `RouterSound` and `DecisionHonoursCache`. `BusInv`: what the forwarder has seen, log and buffer together, lies between its subscription and now, and each event of that time is in it, carries no project or was missed. `Streaming`: what the client got, the second channel, the relay's hand and the first channel, read as one sequence, are the runtime's tokens in order, then the end; all of them, or fewer if the body was cut. |
| `LoopProofs` | Rows are overwritten by copies of any age, so an invariant of the row must be one of every copy. `Good(e)` (stages in order, `COMPLETED` only if true) is kept for the rows, for the copies of clients and for the copies of workers, together with what a worker at each place knows about its current stage. `WorkerInv` is the correspondence between `running` and the workers past `Enter`. For the refinement `RecoveryInv` says that without requests no two workers, and no worker and the recovery, are at one loop (`Apart`), so that each copy is the row (`InSync`, `BootInSync`); then every step is a step of `LoopContract` or leaves its variables alone. |
| `ProvisioningProofs` | The same argument: `GoodRun` (steps ordered) of the row and of every copy. A request that provisions has `ALLOCATING` in its copy, and a failed step in it only if `retried`; the steps still queued in a round are ready in it, which a step that passes never takes away from another (`MarkGood`). `NothingLeftComplete`: in an acyclic graph without a failed step, nothing ready means everything passed, since the smallest step that has not passed would be ready; this is what makes `READY` complete. `FreshAt`: a request that is not stale knows the row's status, flag and runtime, so that its save neither undoes a stop nor forgets a runtime. `RowInv`: a stop stays recorded in the row as the flag or as `CANCELLED`. |
| `DeploymentProofs` | `Behind(d)`: a pipeline at some stage has passed every stage before it, with the request fields and the stored verdict those stages need. `Copies(d)`: `ACTIVE` or `ROLLED_BACK` in the map, in the table or in a copy somebody is about to save was earned. `Ends` ties the end of the pipeline to the status in the map; `Pointer` and `Targets` say that the deployments named by pointers and rollbacks are in the map. `Undisturbed`, for `RecordSettles`: what the goroutine of a deployment without rollback and failed save is about to save is what the map holds. |
| `VerificationProofs` | `EngineInv` says which checks have results at each place of the engine, `JudgedInv` what the verdict says about them, `StoredInv` relates the stored rows to the run that wrote them, `EffortInv` and `DepInv` are the counters and the dependencies. Actions of one request leave the others alone; lemma `Frame` says so once. |
| `ProjectsProofs` | `AccountsSound` rests on the advisory lock: `Secured(w)` says that a request between the second count and the commit holds it, that one about to insert still sees no user, and that one about to open a session has a committed account. `LastOwnerStays` and `RunningIsKnown` are for one request at a time: what it read is still so when it acts on it (`Calm`). For the latter, `KnownInv` adds that a project with a runtime is `READY`, `RUNNING` or `STOPPED` (`Settled`), so that a runtime that was started ends with the row `RUNNING`, and that a request about to save has made its change (`Acted`). |
| `AgentSessionsProofs` | `Owned`: a process in the map, or in the hands of a start, was started for that session. `Calm`, for one request at a time: the status a request read is the row's at the step it is at (`Knows`), a start the guard let pass is allowed by the stored constitution (`Lawful`), a session that is not started has no process and a live process can be reached (`Processes`), and the constitution in memory is the stored one unless a store failed or is due (`Governed`). |
| `InfrastructureProofs`, ports | For any number of overlapping requests. `GrantedIsHeld` needs to know that an answered look-up found the port free or the binding's own (`Requesting`), `RecordAgrees` that whoever is about to write the second table holds the port, until somebody is misled or releases (`Holding`). `PortKept` needs only that rows are rows (`RowsNamed`). The invariant is called `PortInv`. |
| `InfrastructureProofs`, tools and cache | `CacheInv`: a HIT is an answer with the right content in memory (`Calls`); what was put is in all three tables, and an operation between two statements on its id is a put of the same artifact (`Held`); what was invalidated has its content neither in memory nor in its row (`Dropped`). `ToolInv`: the rows of a tool that no stop cut short are complete once its statements are done, and the registry after a start has every version of a tool that was read to its end (`Seeds`, `Registers`); `Ranks` shows that sorting what was read loses nothing. |
| `InfrastructureProofs`, project computers | `ComputerInv`: which commands a request may have left (`RequestsUnderway`); for a computer that is not overtaken, what a request is about to save is true of the container, and so is what the map says unless a request is about to replace it (`Truthful`); until the first restart every container that provisioning did not create has a computer that is in the map or being created and that nobody calls `DESTROYED` (`Accounted`). |

`PROJECT.json` lists the theorems with the properties they prove.

What is only model-checked:

- liveness: `RunReturns`, `LoopSettles`, `RequestsEnd`, `LockComes`,
  `StartingSettles`, `StreamsEnd`. The prover has no rules for fairness and
  `ENABLED`.

Where a property is stated for part of the behaviours (one request at a time, up to
a stale save), so is its theorem, by the same condition in the property itself.
Only `RecoveryKeepsContract` has a hypothesis on a constant, `Calls = {}`: the
refinement is one of recovery and its workers, and is false with requests
(section 6).

## 6. Where code and documentation disagree

`provisioning_failed_ready` states what a document says and finds a behaviour of
the code that contradicts it: starting or resuming a `FAILED` run reports
`READY`, because its failed step is not pending and nothing is executable.
`PHASE8_STATUS.md` promises explicit blocked failures, and `README.md` that
readiness is not claimed that way.

Other disagreements that the models have, and that properties account for:

- Scheduler. `PHASE4_STATUS.md` says that a run ends `SUCCEEDED` or `FAILED`. In a
  chain of three whose first task fails, the second is `BLOCKED`, the third stays
  `PENDING`, and `Run` returns nil with the workflow `RUNNING`.
- Loops. A resume that read the row before a checkpoint and saves after it takes
  the checkpoint, or `COMPLETED`, back; `ContractRefined` is checked without
  requests.
- Deployment. A rollback puts a release on the runtime whose deployment never
  passed a gate: the status of the named deployment is not looked at.
- Verification. A repair that reads a run while it is being saved, or after a save
  that failed half-way, verifies only the checks already written.
- Memberships. `internal/httpapi/project_members.go` says "cannot remove the last owner";
  two owners who remove each other at the same time are both removed, since each
  `DELETE` counts before the other commits. `LastOwnerStays` is about one request
  at a time. A change of role is not counted at all.
- Event streams. `PHASE6_STATUS.md` and `PHASE7_STATUS.md` describe live streams.
  `requestLogger` wraps the response writer in a type without `Flush`, so behind
  `Handler()` the stream handlers answer "streaming unsupported". The model has
  both (`flushes`).
- Ports. Two reservations that overlap are both answered `RESERVED`, and so is one
  whose look-up failed although another has the port: the insertion then updates
  nothing and reports no error. `SUDA_FORGE_INTEGRATION_HARDENING_REPORT.md` calls the
  conflict behaviour verified; `GrantedIsHeld` says when it is. `PortKept` shows that
  the row of a port keeps its id in any case; not its project: a request of another
  project that passes the same id takes the row over.
- Lifecycle. `domain/project/project_test.go` and the stop endpoint of
  `internal/httpapi/server.go` intend that a project can be stopped. A stop of a
  `RUNNING` project stops the runtime and is then refused, since `STOPPED` is not allowed
  from `RUNNING`; the row stays `RUNNING`. `RunningIsKnown` is about the other
  direction.
- Activity. Every deployment event is published without a project
  (`internal/deployment/service.go`, `emit`), and `ActivityLog.Append` drops it: deployments never
  appear in the activity log.
- Tools. `SUDA_FORGE_INTEGRATION_HARDENING_REPORT.md` says "deterministic tool/version
  selection". Before the first restart "latest" of pnpm is the first version of
  the source, afterwards the first in the order of the text, 10.0.0 before 9.15.0.
- Cache. `SUDA_FORGE_PRODUCTION_READINESS.md` says "Invalidation removes the durable
  blob". The error of the deletion is dropped, and when it failed the next lookup
  loads the blob and answers HIT again. `InvalidStays` is about deletions that
  succeeded.

## 7. Behaviour worth knowing that is not a finding

These are in the models, and the properties are stated so that they account for
them.

- A loop that is started between its old worker's last save and the deferred
  `delete` from `running` is persisted `RUNNING`, and its new goroutine turns
  away; only the next restart picks it up. `LoopSettles` is therefore stated
  without API calls.
- When the context ends during the last batch of a workflow and the tasks end
  `CANCELLED`, none is `FAILED` or `TIMED_OUT`, and the workflow is reported
  `SUCCEEDED`. `VerdictSound` does not claim otherwise.
- Resuming a cancelled provisioning run clears the flag in a copy that is then
  dropped: `Provision` reads the row again and stops.
- A cancel that is saved while `Provision` works is overwritten by the next save
  of `Provision`. `StopHonoured` holds until such a stale save.
- Cleanup neither looks at the run's status nor forgets the runtime: a second one
  fails because the container is missing, and one of a running container always
  fails. A run and a computer of a project destroy each other's container.
- A `runtime_id` that a client passes to a provisioning run is never checked.
- `ROLLED_BACK` set between `transition` to `ACTIVE` and `activate` is turned back
  into `ACTIVE` by `activate`.
- `Verify` is the only operation on a computer that accepts a destroyed one; when
  its container exists again for another computer, the old one becomes `READY`.
- Two starts of one agent session that both read `CREATED` leave a process that
  is not in the map; a cancel between a start's read and its save is overwritten.
- After a stop of the server while a tool's versions were being seeded, that tool
  has no or too few versions for ever: the tables are not empty, so nothing is
  seeded again.
- Registering or putting one checksum of an artifact takes away the durable
  content of another checksum of the same id.
- A start at which the query of a tool's versions breaks off registers the tool with
  the versions read so far, in place of the default ones (`vrows.Err()` is not asked).
- An empty artifact needs no content: its entry answers HIT also after `Invalidate`.
- `deployment_ports` keeps a row whose binding was released. tcp and udp of one number
  have the same derived id, so a project can reserve only one of them that way.
- An inference whose body is cut (the client's timeout of five minutes, a runtime that
  dies, a line over 64 KB) ends with a completion event like a whole one:
  `scanner.Err()` is not asked.
- A decision may take a runtime that a check found offline while the settings were
  being read.
- A static model profile without a runtime is routable whatever the health cache
  says; a descriptor that `Install` makes up when the runtime lists neither name is
  outside `CatalogServed`; two overlapping health checks may store their answers
  in the wrong order.
- An inference whose answer is longer than the channel, and whose handler has
  returned, keeps two goroutines for ever; `InferenceEnds` says exactly when it
  does not.
- The repair executor that `main.go` installs has no `Start`, so every repair of
  the deployed server fails; `RepairCompletes` models an executor that works.

## 8. What is not modelled

- The in-memory fallback of provisioning's `get`, read only when the database
  cannot be reached.
- What stages, checks and commands do; their outcomes are chosen freely.
- The map of constitutions (`cmd/server/main.go`, `constitution_guard.go`,
  `internal/httpapi/product_experience.go`), written and read by requests without a
  lock: concurrent access can abort the process. `AgentSessions` keeps its contents and not
  this race.
- Refusals of `Scheduler.Run` and `ValidateGraph` that only end in the same error: a nil
  executor, a duplicate dependency, an unknown parent, an ID that is not its key.
- Two verification runs of one nanosecond, which would share a row.
- Priorities in the scheduler, which order a batch. Tasks of a batch are marked
  in ascending order of their IDs.
- Password hashing, the HTTP encoding of inference servers, `lxc` commands, the
  proxy and ACME, file paths, the front end, SQL migrations and shell scripts: pure
  input and output, or not programs with a state of their own.
- Text analysis and document templates (manifests, knowledge, design
  intelligence, planners, visual QA).
- The event stream of an agent adapter and `MockAdapter`. `Start`, `Stop` and
  `Restart` of an HTTP runtime, which always fail and change nothing. The tables
  of the AI fabric, which are written and never read.
- Routes, domains, certificates: calls passed on to Caddy, ACME and DNS.
  The catalogue of previews, which nothing fills.
- The resource manager, the approval gate and `RecoverStaleTask` of
  `internal/orchestration/controls.go`: the server calls none of them, and an
  approval is a row that no step reads.

## 9. Plan

Done: `Scheduler`, `LoopContract`, `LoopCoordinator`, `Provisioning`,
`Deployment`, `Verification`, which came first because they are
the path of a project from plan to deployment. Then `ProjectComputer`, `Accounts`
and `Projects`, `AgentSessions`, `Routing`, `EventBus` and `AIFabric`, `Ports`,
`SharedInfra` and `Infrastructure`, with a run each. The proofs of all of them.

Left:

1. Shorter proofs: the lemmas that say which request is at which step are stated
   once per module and follow one pattern.
2. The approval gate and the resource manager, once the server calls them.

## 10. How to run

In this directory: `tlc -config Scheduler.cfg MCScheduler`, and likewise for the
other configurations (`PROJECT.json` names the module of each);
`tlapm OrchestrationProofs.tla`, and likewise for the other modules whose name ends
in `Proofs`, for the proofs. The longest run takes about two
minutes with two workers.
