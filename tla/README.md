# A formal model of Sakala Agent

Sakala Agent runs on a compute node. It polls a control plane for commands,
claims and executes them (deploy, stop, sleep, wake, ... of projects, and drain,
resume, cleanup of the node) with Docker and Caddy, and reports events, logs and
the outcome. These TLA+ modules model its core, TLC checks them on small
instances, and TLAPS proves every safety property the passing runs check, the
two refinements, and the agreement of the node's limits, for instances of every
size.

`PROJECT.json` maps every definition to the lines it models, lists the runs,
their mutants, the hazards and the theorems.

## 1. Inventory

| Component | State it keeps | Operations |
|---|---|---|
| Poller and `CommandExecutions` (`scheduler/poller.rs`) | JoinSet of tasks, metadata per task, slot counters, busy projects | poll, lifecycle check, `try_start`, reap, release, cancel and abort |
| Metrics (`scheduler/metrics.rs`) | `active_commands`, `capacity_waiting_commands` | started, finished, deferred |
| Node lifecycle (`node_state.rs`) | one atomic word | load, store |
| Command processor (`commands/processor.rs`) | the execution future, deadline, commit flag | claim, event, policy, execute under a deadline, flush, report |
| API client (`api/client.rs`) | none | claim (once), reports and terminal transitions (bounded retries), heartbeat (once) |
| Runtime reporter (`reporting/runtime.rs`) | buffered lines, `flush_lock`, `flush_scheduled`, failure latch, byte budget | `log`, `flush_pending`, `schedule_flush`, `mark_deployment_committed` |
| Docker executor (`executor/docker.rs`) | `container_admission`, build permits | the commands of a project, `CleanupRuntime`, recovery |
| Container engine (`containers/docker.rs`) | Docker's containers, log followers | capacity, start, stop, restart, remove, the two cleanups, inventory |
| Route manager (`routing/`) | site files, what Caddy has loaded, `mutation_lock` | activate, deactivate, discover and clean stale routes |
| Heartbeat and health workers | none | probe, send, sleep, stop |
| Bootstrap (`app.rs`) | the shutdown channel | preflight, recover, restore lifecycle, spawn, join |
| Process runner (`process/command.rs`) | a child, its process group, the guard | spawn, read both streams, wait, kill, drop |
| Workspaces (`workspace/git.rs`) | a directory per command, the askpass script | checkout, cleanup, `cleanup_stale` |
| Limits and configuration (`config.rs`, `containers/limits.rs`) | node settings | check at startup, resolve a payload |
| Builders, inspection, redaction, telemetry, protocol types | data | see "Not modelled" |

**Interaction.** The process spawns three workers that share the lifecycle word
and a watch channel for shutdown. The poller spawns one task per command; a task
runs the processor, which polls the executor's future itself and stops polling
it when time is up and keeps it, unpolled, until it returns. The executor reports through the reporter, whose buffer is
also filled by the log follower of the live container and emptied by background
tasks. Commands of different projects meet in the build permits, the admission
lock, the route lock and Caddy, whose reload loads every project's file;
`CleanupRuntime` walks over workspaces and routes beside them all.

**What is hard.** Poll answers are snapshots, so a command can be seen twice.
Locks and futures interact: a future that is kept but not polled keeps its
locks, its process and its permit. Every Docker or Caddy call may fail half way, and cancellation or a crash
may come between any two. Lost answers meet retries. Deadlines race the cutover.

**What makes it correct.** Scheduler: one command per project, bounded slots,
nothing lost at shutdown, drained means idle. Processor: the record follows the
command contract, logs precede the outcome, it returns. Runtime: a loaded route
leads to a running container, files and Caddy agree, limits hold, nobody touches
another deployment's route, commands end. Reporter: lines arrive in order, once,
within the policy, none is forgotten. Host: no process group outlives its command,
builds are bounded, a workspace lasts as long as its command and secrets no
longer than their step; what is left behind is collected. Agent: a restart never activates a drained node,
shutdown ends.

## 2. Modules

| Module | Models | Used by |
|---|---|---|
| `Scheduler` | poller, tasks, counters, lifecycle word, shutdown | `MCScheduler`, `SchedulerProofs` |
| `SchedulerProofs` | inductive invariant and theorems | |
| `CommandContract` | abstract: what may happen to a command record, and when | instantiated by `CommandProcessor` |
| `CommandProcessor` | one command: processor, execution future, reporter, client | `MCCommandProcessor`, `CommandProcessorProofs` |
| `CommandProcessorProofs` | inductive invariant, theorems, refinement of `CommandContract` | |
| `DockerRuntime` | executor, containers, routes; several projects and `CleanupRuntime` | `MCDockerRuntime`, `DockerRuntimeProofs` |
| `DockerRuntimeProofs` | invariant of one project, its frame, theorems | |
| `LogDelivery` | abstract: lines are stored in order and at most once | instantiated by `LogReporter` |
| `LogReporter` | reporter of one command and the retries of its batches | `MCLogReporter`, `LogReporterProofs` |
| `LogReporterProofs` | inductive invariant, theorems, refinement of `LogDelivery` | |
| `LogFollowers` | the registry of container log followers and its three users | run directly |
| `BuildHost` | process runner, workspaces and their GC, build permits, timeouts, inspections, env file | run directly, `BuildHostProofs` |
| `BuildHostProofs` | invariant of one command, theorems | |
| `NodePolicy` | startup check of the configuration, limits, timeouts and the deadline; with its theorems | |
| `NodeAgent` | process: bootstrap, workers, lifecycle over restarts, shutdown | run directly |
| `NodeAgentProofs` | inductive invariant and theorems | |

### Scheduler

`pc` follows the loop in `run`: `reap` (join finished tasks, complete a drain),
`poll`, `dispatch` (lifecycle check of one command of the answer), `start`
(`try_start`), `sleep`, then `cancelling`, `aborting`, `stopped`. The check and
the start are two steps, as tasks on other threads may write the lifecycle word
in between. Each task is `claiming`, `executing`, `reporting`, then `done` or
`failed` (a panic or an abort) until it is joined. `release_task` drops the
metadata of *every* task with the same command id, as in the code. The control
plane is external: it returns any subset of pending commands, any number of
times. `capacity_waiting_commands` and the loop without a client are left out.

### CommandProcessor and CommandContract

`pc` follows `process`; `exec` is the execution future, which makes progress
only while `process` polls it (`Polled`). `flush_lock` is tokio's fair mutex: a
queue whose head holds it. The execution has two parts that wait apart
(`Part`): the deployment, `"exec"`, and after a cancellation the cleanup of
`run_deployment`, `"cleanup"`, which logs its warnings while the deployment is
suspended beside it, perhaps with the lock. Both stay in the queue when the future
is not polled any more, until it is dropped on return. `Without` takes one caller out of
the queue, `DropExec` and `DropAll` are the drops of the execution and of all that
`process` holds. Lines are told apart only by
their origin (the command or the log follower). `PostTerminal` is one request:
its answer may be lost before or after the transition, and up to `MaxAttempts`
requests are sent. A report batch is one step with its final result, acknowledged
or refused after the retries (`LogReporter` has the retries). Lease expiry and withdrawal are external.

`ImplementsContract` is the refinement: with `succeeded` as "the runtime returned
ok" every behaviour of `CommandProcessor` is one of `CommandContract`, so the
record moves along `can_transition`, success is backed by the runtime or by the
cutover, and a live deployment is never recorded as failed.

### DockerRuntime

`container`, `file` and `live` are Docker, the site files and Caddy's loaded
configuration; they survive commands and crashes. `op[p]` is the command running
on project `p`, with a step for every await between two external effects;
`admission` and `route_lock` are the two mutexes. Each call may succeed, fail
without effect, or fail with its effect. `Cancel` is the token before the
cutover: the deployment stops where it is, keeps its locks while
`cleanup_candidate` runs and loses them on return. `Abandon` drops a command
between two steps (deadline, abort, crash). `Suspend` is what comes before: the
processor polls the command for the last time, and `kept` are the commands that it
neither polls nor drops, with the locks they have; by finding 2 this may last for
ever. A command that is kept takes no step (`PolledStep`), so it matters only for
liveness. `Restart` and `RestartEnds` are one `docker restart`, whose container is
stopped in between and then not counted by a capacity check. `torn` and `woken`
are history: the projects whose last change broke off half way, and those brought
back by `WakeProject` or `RestartProject`; properties that exempt them say so. Checkout and build are one
step (`BuildHost` has them). Site files of older agents without a deployment id, and
containers that die by themselves, are left out, and every `DeployProject`
carries a deployment id of its own.

### LogReporter and LogDelivery

Lines are numbered in the order they enter the buffer; `drained` is how many have
left it, so the buffer is an interval and a batch is one too. Each section of the
state mutex is a step, `flush_lock` is held for a delivery, and `Wake` clears
`flush_scheduled` before it waits for the lock, as the code does. A line has a
size: `bounded_log` gives the sizes it may be cut to at a character boundary, the
budget is reserved when it is accepted. `ends` keeps the bytes up to the end of
every line, so the bytes of a batch are a difference of two offsets and the
budget bounds the offset of every stored line. Writers are the command's output and the
log follower; both ignore delivery errors (`ReporterOutputSink` does), so a
stopped reporter just takes no more lines. A batch has one idempotency key for
all its attempts. Each attempt may be stored and acknowledged, stored with its
answer lost, lost but perhaps arriving later (`late`), or rejected; the control
plane stores a key once. The command's own writer runs inside the execution
(`Execution`): once it is in `unpolled`, by a cancellation (`Suspend`) or because
the processor has gone on to its flush, it takes no step and keeps `flush_lock`, or
its place in the queue for it. The state mutex is held only between awaits; a
suspended waiter of it is not modelled. Callers other than the background tasks may be dropped
at any await; `lost` is the batch they took along.

`ImplementsDelivery`: with the number of accepted lines, the latch and "a batch
was lost" every behaviour is one of `LogDelivery`: the control plane's log is a
prefix of the accepted lines, in order, until a caller is dropped in mid-delivery,
and no line is ever stored twice.

### BuildHost

`cmd[c]` is a command with its steps from `prepare` to `cleanup`; `polled` and
`cancelled` are the two ways in which it can be on its way out. `proc[c]` is its
last process. Its leader is alive, dead but not collected, or gone, with a pid that
may be someone else's. Its descendants are in its group with the output open, in it
without (a daemon), or outside it with the output open; one that is outside and
holds nothing is no longer followed. `armed` says that the guard has the pid, `of`
the step that waits for the process, or how the runner left it: `killed` with
something outside the group, `lost` in a crash, which runs no destructor and kills
nothing. `KillProcess` is `killpg`, which reaches the group and nothing else, and
`Collect` the wait for the leader, which a drop may interrupt. `Dropped` is the drop
of a run at any await: the guard's `killpg`, then `kill_on_drop`, and nobody waits;
tokio collects the leader some time. `OutputFails` is a read or sink error.
`After` is what follows the end of a process. The build permit goes with the build,
by `drop(build_permit)`, a timeout, or the drop of the whole deployment, but not by
cancellation, which only stops polling. `Drop` is the return of the processor,
which nothing ensures.

`dir` and `files` are the workspace, `left` says why it may still be there.
`GcBegin`, `GcEntry`, `GcRemove` and `GcFails` are `cleanup_stale`: reading the
directory, the age of an entry, its removal or a failure that ends the scan, each
an await in which commands go on. A crash makes every command without a result
start again. `AgesAfterDeadline` says that the minimum age of the collection (a day
by default) exceeds the command deadline (15 minutes by default); `config.rs` does
not check it, so `WorkspaceWhileInUse` states it as its hypothesis. One collection
runs at a time.

### LogFollowers

The registry maps a key to a task. A deployment uses the container's name as key,
recovery and `restart_log_follower` its id. `StartLogFollower` forgets finished
tasks and refuses a key in use.

### NodePolicy

Three components resolve parts of one payload: the container engine its limits,
the runtime the step timeouts, the processor the deadline. `from_values` is the
startup check. The module has no behaviour, only functions and theorems about
them.

### NodeAgent

`phase` follows `run` in `app.rs`: preflight, recover, restore, running, then the
joins in the code's order. The three workers are the heartbeat (probe, send,
sleep), the health worker and a poller reduced to what concerns the lifecycle
word. `Crash` may happen at any time and the process is started again. External
assumptions, from `docs/AGENT_API.md`: the desired state is stored before a node
command is offered, and it does not change while a node command is unresolved.
A request of the heartbeat that timed out is not delivered afterwards, except
at a crash. Local mode, which has no control plane, is left out.

## 3. Runs

| Run | Shows |
|---|---|
| `scheduler` | types, `ProjectSerialized`, `DrainedMeansIdle`, `SlotsBalanced`, `ExecutedAtMostOnce` with a mix of a node-wide cleanup, a deploy and a health check of one project, and a drain |
| `scheduler_capacity` | `HeavyBound`, `MetricExact`, `ShutdownCancelsAll` when every heavy command carries a project; `ShutdownStops`, `DrainCompletes` |
| `scheduler_duplicate` | finding 1, with a deploy and a wake of two projects beside the cleanup |
| `processor` | `ImplementsContract`, `AcknowledgedIsRecorded`, `LogsPrecedeTerminal`, `RunsOnlyWhenOwned`, and `ReturnsUnlessSelfBlocked` |
| `processor_self_block` | finding 2 |
| `runtime` | all project commands: `RoutesConsistent`, `DeployedWithinLimit`, `DeployKeepsServed`, `OnlyOwnRouteRemoved` |
| `runtime_cleanup` | route properties with `CleanupRuntime` running beside; `CommandsEnd`: only a command that is kept without being polled can block others for ever |
| `runtime_cancel` | finding 3 |
| `agent` | `NeverReactivated`, `HeardDrainedIsIdle`, `ShutdownCompletes`, `DrainIsHeard` |
| `log_reporter` | `ImplementsDelivery`, `FlushIsBarrier` (a flush that finds nothing knows that everything is stored), `NoLineStranded`, `WithinPolicy`, `EveryLineSettles` unless a suspended execution has the lock |
| `build_host` | `GroupsContained`, `BuildsBounded`, `WorkspaceWhileInUse`, `NoSecretLeft`, and `LeftoversCollected`: a workspace left behind with its secrets is collected, whatever hangs |
| `follower_dedup` | finding 4 |

### Findings

1. `scheduler_duplicate`: a heavy command without project (`CleanupRuntime`) that
   is polled again before its claim lands is started twice. When one of the two
   ends, on the 409 or on a failed claim, the metadata of both is released: a
   deploy and a wake can start beside the other, three heavy tasks under a limit of
   2; the metric is low, and shutdown does not cancel the forgotten task.
2. `processor_self_block`: the final flush can wait for `flush_lock` while the
   execution that holds it, or is next for it, is kept but no longer polled;
   `process` then never reports, and the execution never lets go of the admission
   lock, route lock or build permit it has. The cleanup after a cancellation can
   wait in the same way for the deployment it suspended.
3. `runtime_cancel`: cancellation between writing the site file and the end of
   the reload leaves the file in place while the candidate is removed.
4. `follower_dedup`: a container followed under its name gets a second follower
   under its id from `ReconcileWorkload`, and its lines are reported twice.

Seen while modelling, without a run of its own:

- Without `max_total_bytes` a chatty container can keep the final flush, and so
  the terminal report, waiting without bound: `flush_pending` loops until the
  buffer is empty (`ReturnsUnlessSelfBlocked` fails with `LogBudget = Unlimited`).
- `WakeProject` and `RestartProject` do not consult
  `SAKALA_MAX_ACTIVE_CONTAINERS` (`DeployedWithinLimit` leaves these projects out).
- A workspace that cannot be removed ends every scan that comes to it, and so
  keeps those behind it from being collected.
- Processes of an agent that crashed go on without anyone looking for them, beside
  those of its successor: `BuildsBounded` is about one life of the agent.
- Stale route cleanup lists containers first and files later, so it can delete
  the route of a deployment that went live in between; workspace GC looks at the
  age of a directory first and removes it later, so it can remove one that a
  redelivered command has created meanwhile (`left = "raced"`), and an entry that
  vanishes during the scan ends it with an error.
- `docs/RUNTIME_HARDENING.md` says that GC does not run while a command is
  processed; `CleanupRuntime` runs it beside other commands.
- `docs/LOGGING.md` and the comment on `ApiRuntimeReporter` say that a stopped
  reporter stops the log follower; the sink ignores the error and the follower
  goes on.
- `docs/DOCKER_RUNTIME.md` says that `runtime.env` is removed after the start; a
  dropped or crashed deployment leaves it until its workspace is collected.
- A redelivered `DeployProject` of a live deployment fails on the container name
  and `cleanup_candidate` then removes the live container. The models give every
  deployment one `DeployProject` that gets that far.
- Stop and sleep stop the container before they remove the route, the reverse of
  `docs/COMMAND_LIFECYCLE.md`.
- A payload that asks only for a command timeout at or below the node's build
  maximum is refused, because the build timeout then defaults to that maximum.

### Bounds

- `Scheduler`: four commands, three tasks, two projects. Three tasks are the
  smallest number with which a duplicate and two others overlap; four commands
  cover both weights, with and without project, and the lifecycle writes. Types
  and projects per command are fixed in `MCScheduler`. The proofs need no bounds.
- `CommandProcessor`: `MaxAttempts = 3` as in `RetryPolicy::default`; two
  background flushes at a time (one sleeping, one waiting for the lock, is what
  `flush_scheduled` allows besides one that is posting); two follower lines.
- `DockerRuntime`: two projects are needed for races across projects, two
  deployments of one for a cutover; a limit of 1 makes the guard bite. The run
  with cleanup has one deployment per project and a limit of 2, so that commands
  of both projects and the cleanup meet in the route lock; there a command may be
  kept at `docker run` and at the reload (`KeptAt`), the two steps that report
  while they hold a lock. The other runs check safety, which kept commands do not
  touch.
- `LogReporter`: two writers, two background flushes at a time, three lines of at
  most two bytes, batches of two bytes, two attempts, and three policies: without
  limits, with a budget that cuts a line short, and no logs. Three lines are one
  on the wire, one buffered and one arriving; two attempts give one retry.
  `Execution` is the command's writer.
- `BuildHost`: two deployments compete for one permit, one of them may be an
  inspection instead; crashes, GC and cancellations are not bounded. Only the
  program of an inspection forks (`Forking`); the runner is the same for all steps
  and the proofs have no such bound.
- `LogFollowers`: two containers.
- `NodeAgent`: one workload command at a time is enough to tell idle from busy.

Deadlock is not checked where the system may stop: a poller that was shut down,
a command that ended, a runtime without commands, a reporter without lines. It
is checked for `agent` and `build_host`.

### Fairness

- `Scheduler`: weak fairness of the poller, and strong fairness of noticing a
  shutdown, because a pending change of the watch channel is ready at once when
  the `select!` is entered, before any sleep. Tasks get no fairness for
  `ShutdownStops`; `DrainCompletes` assumes that they return.
- `CommandProcessor`: weak fairness of `process` and of background flushes, whose
  requests end within the HTTP timeout. None for the execution: it may hang, or be
  suspended with `flush_lock`.
- `DockerRuntime`: strong fairness of the steps of a command that is polled: calls
  are bounded by timeouts and tokio's mutexes are first come, first served. Nothing
  is assumed of one that is kept, and `CommandsEnd` names what waits behind it.
- `LogReporter`: weak fairness of a delivery under way (requests have a timeout),
  of scheduling and of timers. None for callers, nor for a delivery inside an
  execution that is no longer polled.
- `BuildHost`: time passes, `CleanupRuntime` comes again and again and its scan goes
  on (weak fairness), and the removal of a directory does not fail for ever (strong
  fairness). Nothing is assumed of programs, sinks, commands or the processor.
- `NodeAgent`: weak fairness of the workers, strong fairness of noticing the
  shutdown, none for commands. `DrainIsHeard` also assumes that the network lets
  a heartbeat through again and again.

## 4. Proofs

`SchedulerProofs` proves, for every finite set of task ids and any commands, projects
and limits, that `Scheduler` keeps `TypeOK`, `ProjectSerialized`,
`DrainedMeansIdle`, `LightweightBound`, `ExecutedAtMostOnce`, `StoppedIsClean` (and
so `SlotsBalanced`); and, if every heavy command carries a project (`HeavyCarriesProject`),
`HeavyBound`, `MetricExact` and `ShutdownCancelsAll`. Without that hypothesis
finding 1 refutes them. The other assumptions are those on the constants
(`ConstantsAssumption`).

None of the properties is inductive alone, because the code keeps its books in
`task_metadata` and not in the JoinSet, and an entry can be dropped for a task
that still runs. The invariant `IInv` says how far the two agree:

- `Counted`: counters and metric are the sizes of the metadata map (split by
  weight) and stay within the limits;
- `Owned`: a task with a project, or a lightweight one, keeps its metadata until
  it is joined, and its project stays busy. This is what a duplicate of a heavy
  command without project breaks, and it is why such a duplicate cannot exist for
  the others: its twin would have had to share the project or the single slot;
- `NoStaleProject`, `OneLightweight`: busy projects and the lightweight slot
  belong to tasks;
- `DrainedStarts`, `ClaimedOnce`, `ShutdownPhase`: what the window between check
  and start, the claim, and the shutdown phases need.

`InitInv`, one lemma per group of actions (`JoinInv`, `StartInv`, `TaskInv`,
`LoopInv`) and `NextInv` give `Inductive`; the theorems follow from it, the last
three with `MetadataComplete` (under the hypothesis, metadata and JoinSet are the
same set).

`NodeAgentProofs` proves `TypeOK`, `NeverReactivated` and `HeardDrainedIsIdle` of
`NodeAgent` for any number of workload commands; it assumes only that `None` is
no type or status of a command. The invariant adds what the two properties do not
say about the past: `NotYetSpawned` and `Joined` (no worker before the restored
state is known or after its join), `ResumeIsGranted` (a ResumeNode that is offered
or runs goes back to a desired state of this process, although its lease may be
over), and `QuietIsClosed` (a heartbeat that promises a quiet node, heard or still
on its way, finds the node without work and not active).

`NodePolicy` proves, for all settings and payloads, that accepted resources lie
between 1 and the node's maximum (`ResourcesWithinNode`), that the deadline the
processor sets is longer than each step timeout the runtime accepts
(`DeadlineCoversSteps`), and that settings that pass the startup check accept a
payload that leaves everything open (`DefaultsAccepted`).

`CommandProcessorProofs` proves `TypeOK`, `AcknowledgedIsRecorded`,
`LogsPrecedeTerminal`, `RunsOnlyWhenOwned` and `ImplementsContract` for any number
of attempts, background flushes and follower lines. The invariant says what each
step of `process` knows: `RecordInv` (what the record can be by then),
`ExecInv` (no logs and no deployment without an execution), `OutcomeInv` (what
`process` decided to report stays true while it flushes), `AttemptInv` (an attempt
is left), and `QueueInv` (the deployment, the cleanup beside it, the log follower
and `process` each wait in the queue of `flush_lock` at most once, `process` only
while it flushes). The last is what makes the
queue operations total: `WithoutProperties`, `JoinProperties` and `ServeProperties`
are the lemmas about them. `ContractStep` then maps every step to one of
`CommandContract`, or to none.

`DockerRuntimeProofs` proves `TypeOK`, `RoutesConsistent`, `DeployedWithinLimit`,
`DeployKeepsServed` and `OnlyOwnRouteRemoved` for any projects, deployments, kinds
of commands and limit; names of locks and of nothing must differ from theirs
(`RuntimeAssumption`). `Sound(p)` is an invariant of one project: the steps of its
command (`OpSound`), which of them hold the locks (`LockSound`), when its container
is up (`DepRuns`), what file and Caddy can be during a change (`FileSound`,
`Synced`) and which container the command cannot touch because it is served
(`Served`). `Untouched(q)` is what a step leaves of any other project, and `Frame`
that it is enough; the one thing that crosses projects is a reload of Caddy, which
loads the file of `q` too, harmless while `Synced(q)` holds. `LocalSteps` and
`OwnSteps` go through the actions once each. The limit needs the count under the
admission lock (`Limited`): whoever passed the check still finds a place when it
starts its container, since only the lock's holder can start a new one
(`CheckStep`, `StartStep`, `WakeStep`). `KeptStep` settles suspensions: they touch
nothing the invariant is about. Without `torn` and `woken`, which record
broken changes and woken or restarted projects, both claims are false, as `runtime_cancel` and
the notes above show.

`LogReporterProofs` proves `TypeOK`, `FlushIsBarrier`, `NoLineStranded`,
`WithinPolicy` and `ImplementsDelivery` for any writers, policies, attempts, lines
and bytes, and `StoredOnce`: `StoredOnceInOrder` of `LogDelivery` holds of the
reporter. The invariant: `BufferInv` (the byte counters are exact offsets, so the
saturating subtraction of the code never saturates), `ServerInv` (every request on
its way was taken from the buffer, two requests carry the same lines under one key
or none in common, and a key was seen if and only if its lines are stored),
`PrefixInv` (until a batch is lost the stored lines end before or with the current
batch, and no other request can add to them) and `BarrierInv` (a line that has left
the buffer is stored, lost or in the current batch). One key per batch is what
makes `Store` harmless (`StoreProperties`), and `flush_lock` what makes the current
batch unique (`Alone`).

`BuildHostProofs` proves `TypeOK`, `GroupsContained`, `BuildsBounded`,
`WorkspaceWhileInUse` and `NoSecretLeft` for any commands and number of permits.
Commands meet only at the semaphore and through the collection, so the invariant is
a predicate on one command (`SoundProc`, `SoundPermit`, `SoundDir`, `SoundFiles`)
and a bound on the permits: `BuildsBounded` holds because a process of a build
implies a permit, also after a cancellation that only stops polling.
`GroupsContained` is proved of a `killpg` that reaches the group only, with
descendants anywhere, drops at any await and crashes (`DropSettles`: what a drop
leaves is settled); it promises nothing of descendants that left the group or of
processes that a crash orphaned. `WorkspaceKept` rests on `AgesAfterDeadline`.

Every inductive invariant was checked by TLC on the instances of the runs before
it was proved.

Only model-checked, because the prover has no reasoning about fairness: the
liveness properties `ShutdownStops`, `DrainCompletes`, `ReturnsUnlessSelfBlocked`,
`CommandsEnd`, `ShutdownCompletes`, `DrainIsHeard`, `EveryLineSettles` and
`LeftoversCollected`. `LogFollowers` has only its finding.

## 5. Not modelled

Redaction, splitting of output lines, telemetry, preflight probes and the choice
of a builder are text or read only; where they matter they are a step that
succeeds or fails. Message contents, labels, the result of an inspection and the
metadata of heartbeats are data no property speaks of. Image garbage collection
is a single docker call. The noop executor has no effect. Environment variables
are modelled by the checks on their values, not by their parsing. That a process
ends at its timeout is not stated: while a line is handed to a sink that waits, the
runner looks at no timer (`process/command.rs:216`). The sources per
component are in `PROJECT.json`.

## 6. Plan

Done, in the order of importance: `Scheduler`, `CommandProcessor` against
`CommandContract`, `DockerRuntime`, `NodeAgent`, `LogReporter` against
`LogDelivery`, `BuildHost`, `LogFollowers`, `NodePolicy`, and the proofs of their
safety.

Next, proofs:

1. What the liveness properties rest on and is safety: that no lock of
   `DockerRuntime` is waited for by its own holder, that the wait of
   `CommandProcessor` for `flush_lock` is finding 2 or has a holder that goes on,
   and that a poller that is shutting down only loses tasks.
2. `CommandContract` by itself: what follows from the contract alone for a record
   that is terminal, or for a deployment that is live.
3. `NodePolicy`: monotonicity of the accepted payloads in the settings of the node.
