------------------------------ MODULE Scheduler ------------------------------
(***************************************************************************)
(* The command poller of sakala-agent-core (scheduler/poller.rs) with the  *)
(* bounded set of command tasks it spawns (CommandExecutions), the node    *)
(* lifecycle word shared by all workers (node_state.rs) and the counters   *)
(* read by the heartbeat (scheduler/metrics.rs).                           *)
(*                                                                         *)
(* Three kinds of actors interleave: the poller loop, the spawned command  *)
(* tasks (each runs CommandProcessor::process, abstracted here to claim,   *)
(* execute, report; CommandProcessor.tla opens it up), and the control     *)
(* plane that owns the command records (external).  A poll response is a   *)
(* snapshot: it is consumed one command at a time while tasks go on.       *)
(***************************************************************************)
EXTENDS Integers, FiniteSets

CONSTANTS
    Commands,       \* command ids known to the control plane
    Projects,       \* project ids
    Tasks,          \* tokio task ids, reused once the JoinSet has dropped them
    NoProject,      \* project_id: None
    NoCommand,      \* no command under consideration
    CommandType,    \* command_type of each command
    ProjectOf,      \* project_id of each command
    HeavyLimit      \* max_concurrent_commands

Types == {"InspectProject", "DeployProject", "RestartProject", "StopProject",
          "SleepProject", "WakeProject", "HealthCheck", "RefreshRoute",
          "ReconcileWorkload", "CleanupRuntime", "DrainNode", "ResumeNode"}

ASSUME ConstantsAssumption ==
    /\ CommandType \in [Commands -> Types]
    /\ ProjectOf \in [Commands -> Projects \union {NoProject}]
    /\ NoProject \notin Projects
    /\ NoCommand \notin Commands
    /\ HeavyLimit \in Nat \ {0}
    /\ IsFiniteSet(Tasks)

VARIABLES
    pc,                 \* where the poller loop is
    response,           \* commands polled as Pending and not yet considered
    current,            \* command that passed the lifecycle check, about to try_start
    phase,              \* of each task: "free" when not in the JoinSet
    command,            \* command each task of the JoinSet works on
    task_metadata,      \* task ids the poller holds metadata for
    cancelled,          \* tasks whose cancellation token was cancelled
    active_heavy, active_lightweight, active_projects,
    active_commands,    \* SchedulerMetrics.active_commands
    node_state,         \* NodeLifecycle.state
    shutdown,           \* the shutdown watch channel
    status,             \* control plane: status of each command record
    executed            \* history: how often a command entered execution

taskVars    == <<phase, command>>
slotVars    == <<task_metadata, active_heavy, active_lightweight, active_projects,
                 active_commands>>
pollVars    == <<pc, response, current>>
planeVars   == <<status, executed>>
vars == <<pollVars, taskVars, slotVars, cancelled, node_state, shutdown, planeVars>>

LightweightLimit == 1

Unfinished == {"claiming", "executing", "reporting"}
Finished   == {"done", "failed"}     \* Ok(..) and Err(JoinError) of join_next
NodeStates == {"Active", "Draining", "Drained", "Maintenance"}
\* The scheduler only tells pending records apart from the others: Claimed
\* stands for every status a record has from its claim on.
Statuses   == {"Pending", "Claimed"}

NodeCommand(c)   == CommandType[c] \in {"DrainNode", "ResumeNode"}
IsLightweight(c) == CommandType[c] \in
    {"InspectProject", "HealthCheck", "RefreshRoute", "DrainNode", "ResumeNode"}
HasProject(c)    == ProjectOf[c] # NoProject

\* Tasks spawned and not yet joined: what executions.len() counts.
JoinSet == {t \in Tasks : phase[t] # "free"}
Live    == {t \in Tasks : phase[t] \in Unfinished}

Heavy(S) == {t \in S : ~IsLightweight(command[t])}
Light(S) == {t \in S : IsLightweight(command[t])}

SaturatingSub(a, b) == IF b >= a THEN 0 ELSE a - b

AcceptsWorkloadCommands == node_state = "Active"

------------------------------------------------------------------------------
\* The node lifecycle state is restored from the control plane before the
\* poller is spawned, so every desired state is a possible start.
Init ==
    /\ pc = "reap" /\ response = {} /\ current = NoCommand
    /\ phase = [t \in Tasks |-> "free"]
    /\ command = [t \in Tasks |-> NoCommand]
    /\ task_metadata = {} /\ cancelled = {}
    /\ active_heavy = 0 /\ active_lightweight = 0 /\ active_projects = {}
    /\ active_commands = 0
    /\ node_state \in NodeStates
    /\ shutdown = FALSE
    /\ status = [c \in Commands |-> "Pending"]
    /\ executed = [c \in Commands |-> 0]

------------------------------------------------------------------------------
(* Releasing joined tasks. *)

\* release_task drops every metadata entry that names the command, whichever
\* task it belongs to; a JoinError only drops the entry of its own task id.
ReleaseTask(t) == {u \in task_metadata : command[u] = command[t]}

\* Mutant: a JoinError leaves the entry of its task behind.
ReleasedOnlyIfDone(t) == IF phase[t] = "done" THEN ReleaseTask(t) ELSE {}

Released(t) == IF phase[t] = "done" THEN ReleaseTask(t)
                                    ELSE {t} \intersect task_metadata

\* One result taken from the JoinSet; `freed` is the set of projects that the
\* caller drops by itself, besides those of the released entries.
Join(t, freed) ==
    LET released == Released(t) IN
    /\ phase' = [phase EXCEPT ![t] = "free"]
    /\ command' = [command EXCEPT ![t] = NoCommand]
    /\ cancelled' = cancelled \ {t}
    /\ task_metadata' = task_metadata \ released
    /\ active_projects' = (active_projects \ freed)
                            \ {ProjectOf[command[u]] : u \in released}
    /\ active_heavy' = SaturatingSub(active_heavy, Cardinality(Heavy(released)))
    /\ active_lightweight' =
          SaturatingSub(active_lightweight, Cardinality(Light(released)))
    /\ active_commands' = active_commands - Cardinality(released)
    /\ UNCHANGED <<node_state, shutdown, planeVars>>

------------------------------------------------------------------------------
(* The poller loop. *)

\* Mutant: tasks that ended in a JoinError are not reaped.
ReapCompletedOnlyOk(t) ==
    /\ pc = "reap"
    /\ phase[t] = "done"
    /\ Join(t, {ProjectOf[command[t]]})
    /\ UNCHANGED pollVars

\* reap_completed: one iteration of its while loop.
ReapCompleted(t) ==
    /\ pc = "reap"
    /\ phase[t] \in Finished
    /\ Join(t, IF phase[t] = "done" THEN {ProjectOf[command[t]]} ELSE {})
    /\ UNCHANGED pollVars

\* Mutant: the drain does not wait for the tasks already started.
BeginPollNoWait ==
    /\ pc = "reap"
    /\ \A t \in Tasks : phase[t] \notin Finished
    /\ node_state' = IF node_state = "Draining"
                       THEN "Drained" ELSE node_state
    /\ pc' = "poll"
    /\ UNCHANGED <<response, current, taskVars, slotVars, cancelled, shutdown, planeVars>>

\* Nothing left to reap: finish a drain if no task is left, then poll.
BeginPoll ==
    /\ pc = "reap"
    /\ \A t \in Tasks : phase[t] \notin Finished
    /\ node_state' = IF node_state = "Draining" /\ JoinSet = {}
                       THEN "Drained" ELSE node_state
    /\ pc' = "poll"
    /\ UNCHANGED <<response, current, taskVars, slotVars, cancelled, shutdown, planeVars>>

\* The control plane answers with commands that are pending at that moment, or
\* the poll fails.  Commands answered in another status are skipped with a
\* warning, which leaves no trace, so they are filtered here.
PollCommands ==
    /\ pc = "poll"
    /\ \/ /\ response' \in SUBSET {c \in Commands : status[c] = "Pending"}
          /\ pc' = "dispatch"
       \/ /\ pc' = "sleep"
          /\ UNCHANGED response
    /\ UNCHANGED <<current, taskVars, slotVars, cancelled, node_state, shutdown, planeVars>>

\* The lifecycle check on one command of the response.
CheckCommand(c) ==
    /\ pc = "dispatch"
    /\ c \in response
    /\ response' = response \ {c}
    /\ IF AcceptsWorkloadCommands \/ NodeCommand(c)
         THEN pc' = "start" /\ current' = c
         ELSE UNCHANGED <<pc, current>>
    /\ UNCHANGED <<taskVars, slotVars, cancelled, node_state, shutdown, planeVars>>

\* Mutant: a lightweight command does not look at its project.
DeferredHeavyProjects(c) ==
    \/ IsLightweight(c) /\ active_lightweight >= LightweightLimit
    \/ ~IsLightweight(c) /\ active_heavy >= HeavyLimit
    \/ ~IsLightweight(c) /\ HasProject(c) /\ ProjectOf[c] \in active_projects

\* Mutant: off by one in both limits.
DeferredOffByOne(c) ==
    \/ IsLightweight(c) /\ active_lightweight > LightweightLimit
    \/ ~IsLightweight(c) /\ active_heavy > HeavyLimit
    \/ HasProject(c) /\ ProjectOf[c] \in active_projects

\* The condition under which try_start refuses a command.
Deferred(c) ==
    \/ IsLightweight(c) /\ active_lightweight >= LightweightLimit
    \/ ~IsLightweight(c) /\ active_heavy >= HeavyLimit
    \/ HasProject(c) /\ ProjectOf[c] \in active_projects

\* try_start spawns a task for the command ...
Start(t) ==
    /\ pc = "start" /\ ~Deferred(current)
    /\ phase[t] = "free"
    /\ phase' = [phase EXCEPT ![t] = "claiming"]
    /\ command' = [command EXCEPT ![t] = current]
    /\ task_metadata' = task_metadata \union {t}
    /\ active_projects' = active_projects \union
          (IF HasProject(current) THEN {ProjectOf[current]} ELSE {})
    /\ active_lightweight' = active_lightweight + IF IsLightweight(current) THEN 1 ELSE 0
    /\ active_heavy' = active_heavy + IF IsLightweight(current) THEN 0 ELSE 1
    /\ active_commands' = active_commands + 1
    /\ pc' = "dispatch" /\ current' = NoCommand
    /\ UNCHANGED <<response, cancelled, node_state, shutdown, planeVars>>

\* ... or leaves it pending at the control plane until a later poll.
Defer ==
    /\ pc = "start" /\ Deferred(current)
    /\ pc' = "dispatch" /\ current' = NoCommand
    /\ UNCHANGED <<response, taskVars, slotVars, cancelled, node_state, shutdown, planeVars>>

DispatchDone ==
    /\ pc = "dispatch" /\ response = {}
    /\ pc' = "sleep"
    /\ UNCHANGED <<response, current, taskVars, slotVars, cancelled,
                   node_state, shutdown, planeVars>>

SleepElapsed ==
    /\ pc = "sleep"
    /\ pc' = "reap"
    /\ UNCHANGED <<response, current, taskVars, slotVars, cancelled,
                   node_state, shutdown, planeVars>>

------------------------------------------------------------------------------
(* Shutdown: cancel, wait for the grace period, abort what is left. *)

\* ctrl_c in app.rs; the poller only looks at the channel while it sleeps.
RequestShutdown ==
    /\ ~shutdown /\ shutdown' = TRUE
    /\ UNCHANGED <<pollVars, taskVars, slotVars, cancelled, node_state, planeVars>>

\* Mutant: only the tasks that hold a project are cancelled.
ObserveShutdownProjectsOnly ==
    /\ pc = "sleep" /\ shutdown
    /\ pc' = "cancelling"
    /\ cancelled' = cancelled \union {t \in task_metadata : HasProject(command[t])}
    /\ UNCHANGED <<response, current, taskVars, slotVars, node_state,
                   shutdown, planeVars>>

ObserveShutdown ==
    /\ pc = "sleep" /\ shutdown
    /\ pc' = "cancelling"
    /\ cancelled' = cancelled \union task_metadata
    /\ UNCHANGED <<response, current, taskVars, slotVars, node_state,
                   shutdown, planeVars>>

\* wait_for_tasks: join_next yields a finished task.
JoinNext(t) ==
    /\ pc \in {"cancelling", "aborting"}
    /\ phase[t] \in Finished
    /\ Join(t, {})
    /\ UNCHANGED pollVars

\* Mutant: the grace period never ends while a task is running.
GraceNeverElapses ==
    /\ pc = "cancelling" /\ JoinSet # {} /\ Live = {}
    /\ pc' = "aborting"
    /\ UNCHANGED <<response, current, taskVars, slotVars, cancelled,
                   node_state, shutdown, planeVars>>

GraceElapsed ==
    /\ pc = "cancelling" /\ JoinSet # {}
    /\ pc' = "aborting"
    /\ UNCHANGED <<response, current, taskVars, slotVars, cancelled,
                   node_state, shutdown, planeVars>>

PollerStopped ==
    /\ pc \in {"cancelling", "aborting"} /\ JoinSet = {}
    /\ pc' = "stopped"
    /\ UNCHANGED <<response, current, taskVars, slotVars, cancelled,
                   node_state, shutdown, planeVars>>

------------------------------------------------------------------------------
(* Command tasks. *)

TaskEnds(t, how) == phase' = [phase EXCEPT ![t] = how]

taskFrame == <<pollVars, command, slotVars, cancelled, shutdown>>

\* Mutant: a conflict is taken for a claim this agent already owns.
ClaimIgnoresConflict(t) ==
    LET c == command[t] IN
    /\ phase[t] = "claiming"
    /\ TaskEnds(t, "executing")
    /\ status' = [status EXCEPT ![c] = IF @ = "Pending" THEN "Claimed" ELSE @]
    /\ executed' = [executed EXCEPT ![c] = @ + 1]
    /\ UNCHANGED <<taskFrame, node_state>>

\* The claim is atomic at the control plane and never retried: a conflict, a
\* failed request and a lost answer all end the task without executing.
Claim(t) ==
    LET c == command[t] IN
    /\ phase[t] = "claiming"
    /\ \/ /\ status[c] = "Pending"
          /\ status' = [status EXCEPT ![c] = "Claimed"]
          /\ \/ /\ TaskEnds(t, "executing")
                /\ executed' = [executed EXCEPT ![c] = @ + 1]
             \/ TaskEnds(t, "done") /\ UNCHANGED executed
       \/ TaskEnds(t, "done") /\ UNCHANGED planeVars
    /\ UNCHANGED <<taskFrame, node_state>>

\* Dispatch by type.  Drain and resume write the shared lifecycle word; a
\* resume leaves it alone when the preflight is fatal.  The command.claimed
\* event may fail first, which ends the task without dispatching.
Execute(t) ==
    /\ phase[t] = "executing"
    /\ \/ TaskEnds(t, "done") /\ UNCHANGED node_state
       \/ /\ TaskEnds(t, "reporting")
          /\ \/ CommandType[command[t]] = "DrainNode" /\ node_state' = "Draining"
             \/ CommandType[command[t]] = "ResumeNode" /\ node_state' = "Active"
             \/ CommandType[command[t]] # "DrainNode" /\ UNCHANGED node_state
    /\ UNCHANGED <<taskFrame, planeVars>>

\* complete or fail: the record never becomes pending again, so whether the
\* report arrives makes no difference to the scheduler.
Report(t) ==
    /\ phase[t] = "reporting"
    /\ TaskEnds(t, "done")
    /\ UNCHANGED <<taskFrame, node_state, planeVars>>

\* A panic in the task: join_next yields a JoinError.
Panic(t) ==
    /\ phase[t] \in Unfinished
    /\ TaskEnds(t, "failed")
    /\ UNCHANGED <<taskFrame, node_state, planeVars>>

\* abort_all drops the task at an await; a claim on the wire may still land.
Abort(t) ==
    LET c == command[t] IN
    /\ pc = "aborting" /\ phase[t] \in Unfinished
    /\ TaskEnds(t, "failed")
    /\ \/ /\ phase[t] = "claiming" /\ status[c] = "Pending"
          /\ status' = [status EXCEPT ![c] = "Claimed"]
       \/ UNCHANGED status
    /\ UNCHANGED <<taskFrame, node_state, executed>>

------------------------------------------------------------------------------
PollerStep ==
    \/ BeginPoll \/ PollCommands \/ Defer \/ DispatchDone \/ SleepElapsed
    \/ ObserveShutdown \/ GraceElapsed \/ PollerStopped
    \/ \E t \in Tasks : ReapCompleted(t) \/ Start(t) \/ JoinNext(t)
    \/ \E c \in Commands : CheckCommand(c)

TaskStep(t) == Claim(t) \/ Execute(t) \/ Report(t)

Next ==
    \/ PollerStep
    \/ RequestShutdown
    \/ \E t \in Tasks : TaskStep(t) \/ Panic(t) \/ Abort(t)

Spec == Init /\ [][Next]_vars

(***************************************************************************)
(* Fairness.  The poller never blocks for good: a poll has an HTTP         *)
(* timeout, a sleep elapses, an unseen shutdown is ready in every select,  *)
(* and an aborted task is dropped at its next await.  Nothing is assumed   *)
(* of the command tasks themselves.                                        *)
(***************************************************************************)
PollerFairness ==
    /\ WF_vars(PollerStep)
    /\ SF_vars(ObserveShutdown)
    /\ WF_vars(GraceElapsed)
    /\ \A t \in Tasks : WF_vars(Abort(t)) /\ WF_vars(JoinNext(t))

FairSpec == Spec /\ PollerFairness

\* Every command task eventually returns (it is bounded by the command timeout).
TasksProgress == \A t \in Tasks : WF_vars(TaskStep(t))

------------------------------------------------------------------------------
(* Properties. *)

\* Type correctness of the scheduler's state.
TypeOK ==
    /\ pc \in {"reap", "poll", "dispatch", "start", "sleep", "cancelling",
                "aborting", "stopped"}
    /\ response \subseteq Commands
    /\ current \in Commands \union {NoCommand}
    /\ (pc = "start") <=> (current # NoCommand)
    /\ phase \in [Tasks -> Unfinished \union Finished \union {"free"}]
    /\ command \in [Tasks -> Commands \union {NoCommand}]
    /\ \A t \in Tasks : phase[t] = "free" <=> command[t] = NoCommand
    /\ task_metadata \subseteq JoinSet
    /\ cancelled \subseteq Tasks
    /\ active_heavy \in Nat /\ active_lightweight \in Nat
    /\ active_projects \subseteq Projects
    /\ active_commands \in Nat
    /\ node_state \in NodeStates /\ shutdown \in BOOLEAN
    /\ status \in [Commands -> Statuses] /\ executed \in [Commands -> Nat]

\* "A project may own at most one active command at a time": no two tasks of
\* the JoinSet belong to one project, even when a command is polled again
\* while its first task is still claiming, or releases race with new starts.
ProjectSerialized ==
    \A t, u \in JoinSet :
        t # u /\ HasProject(command[t]) => ProjectOf[command[t]] # ProjectOf[command[u]]

\* A node reported drained runs no workload command: neither one started before
\* the drain nor one that passed the lifecycle check just before it.
DrainedMeansIdle ==
    node_state = "Drained" => \A t \in JoinSet : NodeCommand(command[t])

\* Lightweight work, which includes every lifecycle write, never overlaps.
LightweightBound == Cardinality(Light(JoinSet)) <= LightweightLimit

\* Re-polled, duplicated and abandoned claims never execute a command twice.
ExecutedAtMostOnce == \A c \in Commands : executed[c] <= 1

\* When the poller has stopped every slot, project, metadata entry and metric
\* is given back, whatever mix of completion, panic and abort ended the tasks.
StoppedIsClean ==
    pc = "stopped" =>
        /\ JoinSet = {} /\ task_metadata = {} /\ active_projects = {}
        /\ active_heavy = 0 /\ active_lightweight = 0 /\ active_commands = 0

\* Slots are neither oversubscribed nor leaked: lightweight work never overlaps
\* and a poller that has stopped has given everything back.
SlotsBalanced == LightweightBound /\ StoppedIsClean

\* Every running heavy task occupies one of the max_concurrent_commands slots.
HeavyBound == Cardinality(Heavy(JoinSet)) <= HeavyLimit

\* The heartbeat's active_commands is the number of tasks not yet joined.
MetricExact == active_commands = Cardinality(JoinSet)

\* Once shutdown is observed every task still running has been told to stop,
\* before the grace period that ends in an abort starts to run.
ShutdownCancelsAll ==
    pc \in {"cancelling", "aborting"} => Live \subseteq cancelled

\* A shutdown request stops the poller even if no command task ever returns.
ShutdownStops == shutdown ~> (pc = "stopped")

\* A drain completes, or is resumed or interrupted by a shutdown, provided that
\* command tasks return.
DrainCompletes ==
    TasksProgress => ((node_state = "Draining") ~> (node_state # "Draining" \/ shutdown))
==============================================================================
