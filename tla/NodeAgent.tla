------------------------------ MODULE NodeAgent ------------------------------
(***************************************************************************)
(* The agent process as a whole (app.rs): bootstrap, the heartbeat, health *)
(* and poller workers, the node lifecycle word they share, and shutdown;   *)
(* over restarts, next to a control plane that owns the desired lifecycle  *)
(* state and offers DrainNode and ResumeNode (external).                   *)
(*                                                                         *)
(* The poller is reduced to what concerns the lifecycle word: how many     *)
(* workload commands run and which node command is in the lightweight      *)
(* slot.  Scheduler.tla models it in full.                                 *)
(***************************************************************************)
EXTENDS Integers

CONSTANTS MaxWork,      \* workload commands at a time
          None

ASSUME MaxWorkAssumption == MaxWork \in Nat
ASSUME NoneAssumption == None \notin {"DrainNode", "ResumeNode", "Pending", "Claimed"}

NodeStates == {"Active", "Draining", "Drained", "Maintenance"}

VARIABLES
    desired,        \* control plane: the authoritative desired state
    offered,        \* control plane: the unresolved node command, with its status
    heard,          \* control plane: the last heartbeat received
    phase,          \* where run() is; "down" when there is no process
    shutdown,       \* the shutdown watch channel
    node_state,     \* NodeLifecycle.state
    poller, work, node_task,
    heartbeat,      \* the heartbeat worker and the payload it has built
    health,         \* the runtime health worker
    granted         \* history: desired was Active at some time of this process

planeVars  == <<desired, offered, heard>>
mainVars   == <<phase, shutdown>>
pollerVars == <<poller, work, node_task>>
vars == <<planeVars, mainVars, node_state, pollerVars, heartbeat, health, granted>>

\* History: a heartbeat that says Drained promises a quiet node until the node is
\* asked to resume, resumes, or starts as an active node.
NoHeartbeat == [status |-> None, quiet |-> FALSE]
Outdated(h) == [h EXCEPT !.quiet = FALSE]

NotSpawned == [step |-> "off", payload |-> NoHeartbeat]
NoTask     == [type |-> None, step |-> "none"]
NoOffer    == [type |-> None, status |-> None]

Init ==
    /\ desired \in NodeStates /\ offered = NoOffer /\ heard = NoHeartbeat
    /\ phase = "down" /\ shutdown = FALSE /\ node_state = "Active"
    /\ poller = "off" /\ work = 0 /\ node_task = NoTask
    /\ heartbeat = NotSpawned /\ health = "off" /\ granted = FALSE

------------------------------------------------------------------------------
(* The control plane. *)

\* The desired state is stored before the command is offered, and not changed
\* while a node command is unresolved.  No command leads to Maintenance, and
\* Drained follows a heartbeat that says so.
SetDesired(s) ==
    /\ offered = NoOffer /\ s # desired
    /\ s = "Drained" => desired = "Draining" /\ heard.status = "Drained"
    /\ s = "Maintenance" => desired = "Drained"
    /\ desired' = s
    /\ offered' = [type   |-> CASE s = "Active" -> "ResumeNode" [] s = "Draining" -> "DrainNode"
                                [] OTHER -> None,
                   status |-> IF s \in {"Active", "Draining"} THEN "Pending" ELSE None]
    /\ IF s = "Active"
         THEN /\ granted' = TRUE /\ heard' = Outdated(heard)
              /\ heartbeat' = [heartbeat EXCEPT !.payload = Outdated(@)]
         ELSE UNCHANGED <<granted, heard, heartbeat>>
    /\ UNCHANGED <<mainVars, node_state, pollerVars, health>>

LeaseExpires ==
    /\ offered.status = "Claimed" /\ offered' = NoOffer
    /\ UNCHANGED <<desired, heard, mainVars, node_state, pollerVars, heartbeat, health, granted>>

------------------------------------------------------------------------------
(* Bootstrap. *)

StartProcess ==
    /\ phase = "down" /\ phase' = "preflight"
    /\ granted' = (desired = "Active")
    /\ UNCHANGED <<planeVars, shutdown, node_state, pollerVars, heartbeat, health>>

\* A fatal preflight check ends the process.
Preflight ==
    /\ phase = "preflight" /\ phase' \in {"recover", "down"}
    /\ UNCHANGED <<planeVars, shutdown, node_state, pollerVars, heartbeat, health, granted>>

\* Recovery and the first health snapshot may fail; the process goes on.
Recover ==
    /\ phase = "recover" /\ phase' = "restore"
    /\ UNCHANGED <<planeVars, shutdown, node_state, pollerVars, heartbeat, health, granted>>

Spawn ==
    /\ poller' = "reap" /\ UNCHANGED <<work, node_task>>
    /\ heartbeat' = [heartbeat EXCEPT !.step = "probe"]
    /\ health' \in {"sleep", "probe"}

\* Mutant: without an answer the node starts as Active.
RestoreFailOpen ==
    /\ phase = "restore" /\ phase' = "running"
    /\ node_state' \in {desired, "Active"} /\ Spawn
    /\ UNCHANGED <<planeVars, shutdown, granted>>

\* The workers are spawned with the restored state; without an answer of the
\* control plane the process ends.
RestoreLifecycle ==
    /\ phase = "restore"
    /\ \/ /\ phase' = "running" /\ node_state' = desired /\ Spawn
          /\ heard' = IF desired = "Active" THEN Outdated(heard) ELSE heard
       \/ phase' = "down" /\ UNCHANGED <<heard, node_state, pollerVars, heartbeat, health>>
    /\ UNCHANGED <<desired, offered, shutdown, granted>>

------------------------------------------------------------------------------
(* The poller. *)

\* Mutant: only a drain in progress keeps workload commands out.
AcceptsUnlessDraining == node_state # "Draining"

AcceptsWorkloadCommands == node_state = "Active"

\* Top of the loop: a drain completes when no command is left.
BeginPoll ==
    /\ poller = "reap" /\ poller' = "dispatch"
    /\ node_state' = IF node_state = "Draining" /\ work = 0 /\ node_task = NoTask
                       THEN "Drained" ELSE node_state
    /\ UNCHANGED <<planeVars, mainVars, work, node_task, heartbeat, health, granted>>

StartWorkload ==
    /\ poller = "dispatch" /\ AcceptsWorkloadCommands /\ work < MaxWork
    /\ work' = work + 1
    /\ UNCHANGED <<planeVars, mainVars, node_state, poller, node_task, heartbeat, health, granted>>

StartNodeCommand ==
    /\ poller = "dispatch" /\ offered.status = "Pending" /\ node_task = NoTask
    /\ node_task' = [type |-> offered.type, step |-> "claim"]
    /\ UNCHANGED <<planeVars, mainVars, node_state, poller, work, heartbeat, health, granted>>

\* The last command of the response, or a poll that failed; then the sleep.
PollerSleeps ==
    /\ \/ poller = "dispatch" /\ poller' = "sleep"
       \/ poller = "sleep" /\ poller' = "reap"
    /\ UNCHANGED <<planeVars, mainVars, node_state, work, node_task, heartbeat, health, granted>>

PollerObservesShutdown ==
    /\ poller = "sleep" /\ shutdown /\ poller' = "cancelling"
    /\ UNCHANGED <<planeVars, mainVars, node_state, work, node_task, heartbeat, health, granted>>

\* cancel_and_wait: whatever has not ended by the grace period is aborted.
CancelAndWait ==
    /\ poller = "cancelling" /\ poller' = "stopped"
    /\ work' = 0 /\ node_task' = NoTask
    /\ UNCHANGED <<planeVars, mainVars, node_state, heartbeat, health, granted>>

------------------------------------------------------------------------------
(* Command tasks. *)

FinishWorkload ==
    /\ work > 0 /\ work' = work - 1
    /\ UNCHANGED <<planeVars, mainVars, node_state, poller, node_task, heartbeat, health, granted>>

\* A claim that is lost or refused ends the task, one whose answer is lost too.
ClaimNodeCommand ==
    /\ node_task.step = "claim"
    /\ \/ /\ offered.type = node_task.type /\ offered.status = "Pending"
          /\ offered' = [offered EXCEPT !.status = "Claimed"]
          /\ node_task' \in {NoTask, [node_task EXCEPT !.step = "execute"]}
       \/ node_task' = NoTask /\ UNCHANGED offered
    /\ UNCHANGED <<desired, heard, mainVars, node_state, poller, work, heartbeat, health, granted>>

\* DrainNode stores Draining at once.  ResumeNode stores Active after preflight
\* and a look at the capacity, or fails.
ExecuteNodeCommand ==
    /\ node_task.step = "execute"
    /\ node_task' = [node_task EXCEPT !.step = "report"]
    /\ \/ /\ node_task.type = "DrainNode" /\ node_state' = "Draining"
          /\ UNCHANGED <<heard, heartbeat>>
       \/ /\ node_task.type = "ResumeNode" /\ node_state' = "Active"
          /\ heard' = Outdated(heard)
          /\ heartbeat' = [heartbeat EXCEPT !.payload = Outdated(@)]
       \/ node_task.type = "ResumeNode" /\ UNCHANGED <<node_state, heard, heartbeat>>
    /\ UNCHANGED <<desired, offered, mainVars, poller, work, health, granted>>

\* The report resolves the command, unless it is lost or the lease is over.
ReportNodeCommand ==
    /\ node_task.step = "report" /\ node_task' = NoTask
    /\ \/ /\ offered = [type |-> node_task.type, status |-> "Claimed"]
          /\ offered' = NoOffer
       \/ UNCHANGED offered
    /\ UNCHANGED <<desired, heard, mainVars, node_state, poller, work, heartbeat, health, granted>>

------------------------------------------------------------------------------
(* The heartbeat and health workers. *)

Probes == {"telemetry", "runtime", "capacity", "health", "disk"}

\* An active node is ready when every probe of this round is fine.
NodeStatus(failed) == IF node_state # "Active" THEN node_state
                      ELSE IF failed = {} THEN "Ready" ELSE "Degraded"

\* payload: the probes, bounded by timeouts, then one look at the state.
BuildPayload ==
    /\ heartbeat.step = "probe"
    /\ \E failed \in SUBSET Probes :
          heartbeat' = [step |-> "send",
                        payload |-> [status |-> NodeStatus(failed),
                                     quiet  |-> node_state = "Drained"]]
    /\ UNCHANGED <<planeVars, mainVars, node_state, pollerVars, health, granted>>

Delivered ==
    /\ heartbeat.step = "send"
    /\ heard' = heartbeat.payload
    /\ heartbeat' = [step |-> "sleep", payload |-> NoHeartbeat]
    /\ UNCHANGED <<desired, offered, mainVars, node_state, pollerVars, health, granted>>

\* Mutant: a heartbeat that cannot be sent ends the worker.
SendFailsForGood ==
    /\ heartbeat.step = "send"
    /\ heartbeat' = [heartbeat EXCEPT !.step = "stopped"]
    /\ UNCHANGED <<planeVars, mainVars, node_state, pollerVars, health, granted>>

\* Heartbeats are not retried: a failure is logged and the next tick is awaited.
SendFails ==
    /\ heartbeat.step = "send"
    /\ heartbeat' = [step |-> "sleep", payload |-> NoHeartbeat]
    /\ UNCHANGED <<planeVars, mainVars, node_state, pollerVars, health, granted>>

HeartbeatTick ==
    /\ heartbeat.step = "sleep"
    /\ heartbeat' = [heartbeat EXCEPT !.step = "probe"]
    /\ UNCHANGED <<planeVars, mainVars, node_state, pollerVars, health, granted>>

\* Mutant: the worker waits for the sender to be dropped, which main does last.
HeartbeatStopsWhenClosed ==
    /\ heartbeat.step = "sleep" /\ phase = "down"
    /\ heartbeat' = [heartbeat EXCEPT !.step = "stopped"]
    /\ UNCHANGED <<planeVars, mainVars, node_state, pollerVars, health, granted>>

HeartbeatStops ==
    /\ heartbeat.step = "sleep" /\ shutdown
    /\ heartbeat' = [heartbeat EXCEPT !.step = "stopped"]
    /\ UNCHANGED <<planeVars, mainVars, node_state, pollerVars, health, granted>>

\* The health worker: a delay unless the jitter is zero, then a bounded snapshot
\* per interval.
HealthTick ==
    /\ \/ health = "sleep" /\ health' = "probe"
       \/ health = "probe" /\ health' = "sleep"
    /\ UNCHANGED <<planeVars, mainVars, node_state, pollerVars, heartbeat, granted>>

HealthStops ==
    /\ health = "sleep" /\ shutdown
    /\ health' = "stopped"
    /\ UNCHANGED <<planeVars, mainVars, node_state, pollerVars, heartbeat, granted>>

------------------------------------------------------------------------------
(* Shutdown and crash. *)

CtrlC ==
    /\ phase = "running" /\ phase' = "join_heartbeat" /\ shutdown' = TRUE
    /\ UNCHANGED <<planeVars, node_state, pollerVars, heartbeat, health, granted>>

\* Mutant: the poller is left to end by itself.
JoinWorkersNotPoller ==
    /\ \/ phase = "join_heartbeat" /\ heartbeat.step = "stopped" /\ phase' = "join_health"
       \/ phase = "join_health" /\ health = "stopped" /\ phase' = "followers"
    /\ UNCHANGED <<planeVars, shutdown, node_state, pollerVars, heartbeat, health, granted>>

\* The workers are awaited one after the other, then the log followers.
JoinWorkers ==
    /\ \/ phase = "join_heartbeat" /\ heartbeat.step = "stopped" /\ phase' = "join_poller"
       \/ phase = "join_poller" /\ poller = "stopped" /\ phase' = "join_health"
       \/ phase = "join_health" /\ health = "stopped" /\ phase' = "followers"
    /\ UNCHANGED <<planeVars, shutdown, node_state, pollerVars, heartbeat, health, granted>>

ProcessGone ==
    /\ phase' = "down" /\ poller' = "off" /\ work' = 0 /\ node_task' = NoTask
    /\ heartbeat' = NotSpawned /\ health' = "off"
    /\ node_state' = "Active" /\ shutdown' = FALSE /\ granted' = FALSE
    /\ UNCHANGED <<desired, offered>>

RuntimeShutdown == phase = "followers" /\ ProcessGone /\ UNCHANGED heard

\* A heartbeat on its way may still arrive.
Crash ==
    /\ phase # "down" /\ ProcessGone
    /\ heard' \in {heard} \union (IF heartbeat.step = "send" THEN {heartbeat.payload} ELSE {})

------------------------------------------------------------------------------
MainStep      == Preflight \/ Recover \/ RestoreLifecycle \/ JoinWorkers \/ RuntimeShutdown
PollerStep    == BeginPoll \/ PollerSleeps \/ CancelAndWait
HeartbeatStep == BuildPayload \/ SendFails \/ HeartbeatTick

Next ==
    \/ StartProcess \/ MainStep \/ CtrlC \/ Crash
    \/ PollerStep \/ StartWorkload \/ StartNodeCommand \/ PollerObservesShutdown
    \/ FinishWorkload \/ ClaimNodeCommand \/ ExecuteNodeCommand \/ ReportNodeCommand
    \/ HeartbeatStep \/ Delivered \/ HeartbeatStops
    \/ HealthTick \/ HealthStops
    \/ LeaseExpires \/ \E s \in NodeStates : SetDesired(s)

Spec == Init /\ [][Next]_vars

(***************************************************************************)
(* Fairness: the workers run, and each of their waits is bounded.  A       *)
(* worker that comes back to its select finds a pending change of the      *)
(* watch channel at once, before any sleep can elapse.  Commands need not  *)
(* end.  The network lets a heartbeat through again and again.             *)
(***************************************************************************)
FairSpec ==
    /\ Spec
    /\ WF_vars(MainStep) /\ WF_vars(PollerStep) /\ WF_vars(HeartbeatStep) /\ WF_vars(HealthTick)
    /\ SF_vars(PollerObservesShutdown) /\ SF_vars(HeartbeatStops) /\ SF_vars(HealthStops)
    /\ SF_vars(Delivered)

------------------------------------------------------------------------------
(* Properties. *)

Payloads == [status : NodeStates \union {"Ready", "Degraded", None}, quiet : BOOLEAN]

\* Type correctness; the runtime is shut down after all its users have ended.
TypeOK ==
    /\ desired \in NodeStates /\ node_state \in NodeStates
    /\ offered \in [type : {"DrainNode", "ResumeNode", None}, status : {"Pending", "Claimed", None}]
    /\ heard \in Payloads
    /\ phase \in {"down", "preflight", "recover", "restore", "running", "join_heartbeat",
                  "join_poller", "join_health", "followers"}
    /\ shutdown \in BOOLEAN /\ granted \in BOOLEAN
    /\ poller \in {"off", "reap", "dispatch", "sleep", "cancelling", "stopped"}
    /\ work \in 0 .. MaxWork
    /\ node_task \in [type : {"DrainNode", "ResumeNode", None},
                      step : {"none", "claim", "execute", "report"}]
    /\ heartbeat \in [step : {"off", "probe", "send", "sleep", "stopped"}, payload : Payloads]
    /\ health \in {"off", "sleep", "probe", "stopped"}
    /\ phase = "followers" => /\ heartbeat.step = "stopped" /\ health = "stopped"
                              /\ poller = "stopped" /\ work = 0 /\ node_task = NoTask

\* "A restart must not activate a node that is still draining, drained or in
\* maintenance": a process accepts workload commands only if the control plane
\* wanted the node active at some time of its life.
NeverReactivated ==
    phase \notin {"down", "preflight", "recover", "restore"} /\ AcceptsWorkloadCommands => granted

\* What the operator relies on: as long as nothing made the node active since
\* the heartbeat was built, a node heard to be drained runs no workload command,
\* over crashes, restarts and late heartbeats.
HeardDrainedIsIdle == heard.quiet => work = 0

\* Ctrl+C ends the process although commands may never return.
ShutdownCompletes == shutdown ~> (phase = "down")

\* A completed drain is heard of, although single heartbeats fail.
DrainIsHeard ==
    (phase = "running" /\ node_state = "Drained")
        ~> (heard.status = "Drained" \/ node_state # "Drained" \/ phase # "running")
==============================================================================
