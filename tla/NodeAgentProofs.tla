--------------------------- MODULE NodeAgentProofs ---------------------------
(***************************************************************************)
(* The safety properties of NodeAgent, for any number of workload          *)
(* commands: over crashes, restarts and late heartbeats a node that was    *)
(* not resumed takes no work, and one heard to be drained has none.        *)
(***************************************************************************)
EXTENDS NodeAgent, TLAPS

Starting == {"down", "preflight", "recover", "restore"}

\* Until the workers are spawned there is nothing of them.
NotYetSpawned ==
    phase \in Starting => /\ poller = "off" /\ work = 0 /\ node_task = NoTask
                          /\ heartbeat = NotSpawned /\ health = "off"

\* A worker that has been joined does not come back, and the poller leaves no
\* task behind.
Joined ==
    /\ poller = "stopped" => work = 0 /\ node_task = NoTask
    /\ phase \in {"join_poller", "join_health", "followers"} => heartbeat.step = "stopped"
    /\ phase \in {"join_health", "followers"} => poller = "stopped"
    /\ phase = "followers" => health = "stopped"

\* Where the permission to be active comes from: an offered ResumeNode belongs
\* to the desired state, a running one to an earlier one of this process.
ResumeIsGranted ==
    /\ offered.type = "ResumeNode" => desired = "Active"
    /\ phase # "down" /\ desired = "Active" => granted
    /\ node_task.type = "ResumeNode" => granted

\* A heartbeat that promises a quiet node, heard or still to be sent, finds the
\* node without work and closed for it.
QuietIsClosed ==
    /\ node_state = "Drained" => work = 0
    /\ heard.quiet \/ heartbeat.payload.quiet =>
          /\ work = 0
          /\ phase \notin Starting => node_state # "Active"

IInv ==
    /\ TypeOK /\ NotYetSpawned /\ Joined
    /\ NeverReactivated /\ ResumeIsGranted /\ QuietIsClosed

------------------------------------------------------------------------------
\* Before the first start nothing runs and nothing was heard.
LEMMA InitInv == Init => IInv
  <1> SUFFICES ASSUME Init PROVE IInv
    OBVIOUS
  <1> USE DEF Init
  <1>1. TypeOK
    <2>1. heard \in Payloads /\ NotSpawned.payload \in Payloads
      BY DEF Payloads, NoHeartbeat, NotSpawned
    <2>2. shutdown \in BOOLEAN /\ granted \in BOOLEAN
      BY Zenon
    <2>3. work \in 0..MaxWork
      BY MaxWorkAssumption
    <2>4. heartbeat \in [step : {"off", "probe", "send", "sleep", "stopped"}, payload : Payloads]
      BY <2>1 DEF NotSpawned
    <2> QED BY <2>1, <2>2, <2>3, <2>4 DEF TypeOK, NodeStates, NoOffer, NoTask
  <1>2. NotYetSpawned /\ Joined
    BY DEF NotYetSpawned, Joined, NoTask
  <1>3. NeverReactivated
    BY DEF NeverReactivated
  <1>4. ResumeIsGranted
    BY NoneAssumption DEF ResumeIsGranted, NoOffer, NoTask
  <1>5. QuietIsClosed
    BY DEF QuietIsClosed, NoHeartbeat, NotSpawned, Starting
  <1> QED BY <1>1, <1>2, <1>3, <1>4, <1>5 DEF IInv

\* A heartbeat keeps its type when it loses its promise, and then promises nothing.
LEMMA OutdatedHeartbeat ==
    ASSUME NEW h \in Payloads
    PROVE  Outdated(h) \in Payloads /\ ~Outdated(h).quiet /\ Outdated(h).status = h.status
  BY DEF Payloads, Outdated

\* What is known before the first heartbeat is a heartbeat without promise.
LEMMA NoHeartbeatTyped ==
    /\ NoHeartbeat \in Payloads /\ ~NoHeartbeat.quiet
    /\ NotSpawned \in [step : {"off", "probe", "send", "sleep", "stopped"}, payload : Payloads]
  BY DEF Payloads, NoHeartbeat, NotSpawned

\* A process begins: it may be active only if that is desired.
LEMMA StartInv == ASSUME IInv, StartProcess PROVE IInv'
  <1> USE MaxWorkAssumption, NoneAssumption
      DEF IInv, TypeOK, NotYetSpawned, Joined, NeverReactivated, ResumeIsGranted, QuietIsClosed,
          NodeStates, NoOffer, NoHeartbeat, NotSpawned, NoTask, Payloads, Starting,
          AcceptsWorkloadCommands, planeVars, mainVars, pollerVars, StartProcess
  <1>1. /\ phase' = "preflight" /\ granted' = (desired = "Active")
        /\ UNCHANGED <<planeVars, shutdown, node_state, pollerVars, heartbeat, health>>
    OBVIOUS
  <1>2. ResumeIsGranted'
    <2>1. desired' = "Active" => granted'
      BY <1>1, Zenon
    <2>2. node_task'.type # "ResumeNode"
      OBVIOUS
    <2> QED BY <2>1, <2>2
  <1> QED BY <1>2

\* The workers begin with the desired state, or the process ends.
LEMMA RestoreInv == ASSUME IInv, RestoreLifecycle PROVE IInv'
  <1>1. heard' \in Payloads
    BY OutdatedHeartbeat DEF IInv, TypeOK, RestoreLifecycle
  <1>2. heartbeat' \in [step : {"off", "probe", "send", "sleep", "stopped"}, payload : Payloads]
    BY DEF IInv, TypeOK, RestoreLifecycle, Spawn
  <1>3. shutdown' \in BOOLEAN /\ granted' \in BOOLEAN
    BY DEF IInv, TypeOK, RestoreLifecycle
  <1>4. TypeOK'
    BY <1>1, <1>2, <1>3 DEF IInv, TypeOK, RestoreLifecycle, Spawn, pollerVars
  <1> USE MaxWorkAssumption, NoneAssumption
      DEF IInv, NotYetSpawned, Joined, NeverReactivated, ResumeIsGranted, QuietIsClosed,
          NodeStates, NoOffer, NoHeartbeat, NotSpawned, NoTask, Payloads, Starting,
          AcceptsWorkloadCommands, Outdated, planeVars, mainVars, pollerVars, RestoreLifecycle, Spawn
  <1>5. NotYetSpawned' /\ Joined'
    BY DEF TypeOK
  <1>6. NeverReactivated'
    BY DEF TypeOK
  <1>7. ResumeIsGranted'
    BY DEF TypeOK
  <1>8. QuietIsClosed'
    BY DEF TypeOK
  <1> QED BY <1>4, <1>5, <1>6, <1>7, <1>8

\* Only the control plane keeps its state, and perhaps one more heartbeat.
LEMMA GoneInv ==
    ASSUME IInv, ProcessGone, heard' \in {heard, heartbeat.payload}
    PROVE  IInv'
  <1>1. heard' \in Payloads
    BY DEF IInv, TypeOK
  <1>2. heartbeat' \in [step : {"off", "probe", "send", "sleep", "stopped"}, payload : Payloads]
    BY NoHeartbeatTyped DEF ProcessGone
  <1>3. shutdown' \in BOOLEAN /\ granted' \in BOOLEAN
    BY Zenon DEF ProcessGone
  <1>4. TypeOK'
    BY <1>1, <1>2, <1>3, MaxWorkAssumption DEF IInv, TypeOK, ProcessGone, NodeStates, NoTask
  <1> USE MaxWorkAssumption, NoneAssumption
      DEF IInv, NotYetSpawned, Joined, NeverReactivated, ResumeIsGranted, QuietIsClosed,
          NodeStates, NoOffer, NoHeartbeat, NotSpawned, NoTask, Payloads, Starting,
          AcceptsWorkloadCommands, Outdated, planeVars, mainVars, pollerVars, ProcessGone
  <1>5. NotYetSpawned' /\ Joined'
    BY DEF TypeOK
  <1>6. NeverReactivated'
    BY DEF TypeOK
  <1>7. ResumeIsGranted'
    BY DEF TypeOK
  <1>8. QuietIsClosed'
    BY DEF TypeOK
  <1> QED BY <1>4, <1>5, <1>6, <1>7, <1>8

\* A resume takes the promise from every heartbeat there is.
LEMMA ExecuteInv == ASSUME IInv, ExecuteNodeCommand PROVE IInv'
  <1>1. heard' \in Payloads
    BY OutdatedHeartbeat DEF IInv, TypeOK, ExecuteNodeCommand
  <1>2. heartbeat' \in [step : {"off", "probe", "send", "sleep", "stopped"}, payload : Payloads]
    BY OutdatedHeartbeat DEF IInv, TypeOK, ExecuteNodeCommand
  <1>3. shutdown' \in BOOLEAN /\ granted' \in BOOLEAN
    BY DEF IInv, TypeOK, ExecuteNodeCommand, mainVars
  <1>4. TypeOK'
    BY <1>1, <1>2, <1>3 DEF IInv, TypeOK, Joined, ExecuteNodeCommand, NodeStates, NoTask, mainVars
  <1> USE MaxWorkAssumption, NoneAssumption
      DEF IInv, NotYetSpawned, Joined, NeverReactivated, ResumeIsGranted, QuietIsClosed,
          NodeStates, NoOffer, NoHeartbeat, NotSpawned, NoTask, Payloads, Starting,
          AcceptsWorkloadCommands, Outdated, planeVars, mainVars, pollerVars, ExecuteNodeCommand
  <1>5. NotYetSpawned' /\ Joined'
    BY DEF TypeOK
  <1>6. NeverReactivated'
    BY DEF TypeOK
  <1>7. ResumeIsGranted'
    BY DEF TypeOK
  <1>8. QuietIsClosed'
    BY DEF TypeOK
  <1> QED BY <1>4, <1>5, <1>6, <1>7, <1>8

\* A new desired state; Active takes the promise from every heartbeat.
LEMMA DesiredInv == ASSUME IInv, NEW s \in NodeStates, SetDesired(s) PROVE IInv'
  <1>1. heard' \in Payloads
    BY OutdatedHeartbeat DEF IInv, TypeOK, SetDesired
  <1>2. heartbeat' \in [step : {"off", "probe", "send", "sleep", "stopped"}, payload : Payloads]
    BY OutdatedHeartbeat DEF IInv, TypeOK, SetDesired
  <1>3. shutdown' \in BOOLEAN /\ granted' \in BOOLEAN
    BY DEF IInv, TypeOK, SetDesired, mainVars
  <1>4. offered' \in [type : {"DrainNode", "ResumeNode", None}, status : {"Pending", "Claimed", None}]
    BY DEF SetDesired
  <1>5. heartbeat'.step = heartbeat.step
    BY DEF IInv, TypeOK, SetDesired
  <1>6. TypeOK'
    BY <1>1, <1>2, <1>3, <1>4, <1>5 DEF IInv, TypeOK, SetDesired, mainVars, pollerVars
  <1> USE MaxWorkAssumption, NoneAssumption
      DEF IInv, NotYetSpawned, Joined, NeverReactivated, ResumeIsGranted, QuietIsClosed,
          NodeStates, NoOffer, NoHeartbeat, NotSpawned, NoTask, Payloads, Starting,
          AcceptsWorkloadCommands, Outdated, planeVars, mainVars, pollerVars, SetDesired
  <1>7. NotYetSpawned' /\ Joined'
    BY DEF TypeOK
  <1>8. NeverReactivated'
    BY DEF TypeOK
  <1>9. ResumeIsGranted'
    BY DEF TypeOK
  <1>10. QuietIsClosed'
    BY DEF TypeOK
  <1> QED BY <1>6, <1>7, <1>8, <1>9, <1>10

\* Bootstrap up to the restored state, Ctrl+C and the joins.
LEMMA MainInv ==
    ASSUME IInv, \/ Preflight \/ Recover
                 \/ CtrlC \/ JoinWorkers
    PROVE  IInv'
  <1> USE MaxWorkAssumption, NoneAssumption
      DEF IInv, TypeOK, NotYetSpawned, Joined, NeverReactivated, ResumeIsGranted, QuietIsClosed,
          NodeStates, NoOffer, NoHeartbeat, NotSpawned, NoTask, Payloads, Starting,
          AcceptsWorkloadCommands, planeVars, mainVars, pollerVars
  <1>1. CASE Preflight
    BY <1>1 DEF Preflight
  <1>2. CASE Recover
    BY <1>2 DEF Recover
  <1>3. CASE CtrlC
    BY <1>3 DEF CtrlC
  <1>4. CASE JoinWorkers
    BY <1>4 DEF JoinWorkers
  <1> QED BY <1>1, <1>2, <1>3, <1>4

\* The poller: work begins on an active node only, a drain ends when there is none.
LEMMA PollerInv ==
    ASSUME IInv, \/ BeginPoll \/ PollerSleeps \/ CancelAndWait
                 \/ StartWorkload \/ StartNodeCommand \/ PollerObservesShutdown
    PROVE  IInv'
  <1> USE MaxWorkAssumption, NoneAssumption
      DEF IInv, TypeOK, NotYetSpawned, Joined, NeverReactivated, ResumeIsGranted, QuietIsClosed,
          NodeStates, NoOffer, NoHeartbeat, NotSpawned, NoTask, Payloads, Starting,
          AcceptsWorkloadCommands, planeVars, mainVars, pollerVars
  <1>1. CASE BeginPoll
    BY <1>1 DEF BeginPoll
  <1>2. CASE PollerSleeps
    BY <1>2 DEF PollerSleeps
  <1>3. CASE CancelAndWait
    BY <1>3 DEF CancelAndWait
  <1>4. CASE StartWorkload
    BY <1>4 DEF StartWorkload
  <1>5. CASE StartNodeCommand
    BY <1>5 DEF StartNodeCommand
  <1>6. CASE PollerObservesShutdown
    BY <1>6 DEF PollerObservesShutdown
  <1> QED BY <1>1, <1>2, <1>3, <1>4, <1>5, <1>6

\* Tasks that end, and the rest of a node command.
LEMMA TaskInv ==
    ASSUME IInv, \/ FinishWorkload \/ ClaimNodeCommand
                 \/ ReportNodeCommand \/ LeaseExpires
    PROVE  IInv'
  <1> USE MaxWorkAssumption, NoneAssumption
      DEF IInv, TypeOK, NotYetSpawned, Joined, NeverReactivated, ResumeIsGranted, QuietIsClosed,
          NodeStates, NoOffer, NoHeartbeat, NotSpawned, NoTask, Payloads, Starting,
          AcceptsWorkloadCommands, planeVars, mainVars, pollerVars
  <1>1. CASE FinishWorkload
    BY <1>1 DEF FinishWorkload
  <1>2. CASE ClaimNodeCommand
    BY <1>2 DEF ClaimNodeCommand
  <1>3. CASE ReportNodeCommand
    BY <1>3 DEF ReportNodeCommand
  <1>4. CASE LeaseExpires
    BY <1>4 DEF LeaseExpires
  <1> QED BY <1>1, <1>2, <1>3, <1>4

\* The heartbeat and health workers; a promise is made by a drained node.
LEMMA WorkersInv ==
    ASSUME IInv, \/ BuildPayload \/ Delivered \/ SendFails \/ HeartbeatTick
                 \/ HeartbeatStops \/ HealthTick \/ HealthStops
    PROVE  IInv'
  <1> USE MaxWorkAssumption, NoneAssumption
      DEF IInv, TypeOK, NotYetSpawned, Joined, NeverReactivated, ResumeIsGranted, QuietIsClosed,
          NodeStates, NoOffer, NoHeartbeat, NotSpawned, NoTask, Payloads, Starting,
          AcceptsWorkloadCommands, planeVars, mainVars, pollerVars
  <1>1. CASE BuildPayload
    BY <1>1 DEF BuildPayload, NodeStatus
  <1>2. CASE Delivered
    BY <1>2 DEF Delivered
  <1>3. CASE SendFails
    BY <1>3 DEF SendFails
  <1>4. CASE HeartbeatTick
    BY <1>4 DEF HeartbeatTick
  <1>5. CASE HeartbeatStops
    BY <1>5 DEF HeartbeatStops
  <1>6. CASE HealthTick
    BY <1>6 DEF HealthTick
  <1>7. CASE HealthStops
    BY <1>7 DEF HealthStops
  <1> QED BY <1>1, <1>2, <1>3, <1>4, <1>5, <1>6, <1>7

\* Every step of the agent, the control plane and the network keeps the invariant.
LEMMA NextInv == IInv /\ [Next]_vars => IInv'
  <1> SUFFICES ASSUME IInv, [Next]_vars PROVE IInv'
    OBVIOUS
  <1>1. CASE StartProcess
    BY <1>1, StartInv
  <1>2. CASE MainStep
    <2>1. RuntimeShutdown => ProcessGone /\ heard' \in {heard, heartbeat.payload}
      BY DEF RuntimeShutdown
    <2> QED BY <1>2, <2>1, MainInv, RestoreInv, GoneInv DEF MainStep
  <1>3. CASE Crash
    <2>1. ProcessGone /\ heard' \in {heard, heartbeat.payload}
      BY <1>3 DEF Crash
    <2> QED BY <2>1, GoneInv
  <1>4. CASE CtrlC
    BY <1>4, MainInv
  <1>5. CASE PollerStep \/ StartWorkload \/ StartNodeCommand \/ PollerObservesShutdown
    BY <1>5, PollerInv DEF PollerStep
  <1>6. CASE FinishWorkload \/ ClaimNodeCommand \/ ReportNodeCommand \/ LeaseExpires
    BY <1>6, TaskInv
  <1>7. CASE ExecuteNodeCommand
    BY <1>7, ExecuteInv
  <1>8. CASE HeartbeatStep \/ Delivered \/ HeartbeatStops \/ HealthTick \/ HealthStops
    BY <1>8, WorkersInv DEF HeartbeatStep
  <1>9. CASE \E s \in NodeStates : SetDesired(s)
    BY <1>9, DesiredInv
  <1>10. CASE UNCHANGED vars
    BY <1>10 DEF vars, planeVars, mainVars, pollerVars, IInv, TypeOK, NotYetSpawned, Joined,
                 NeverReactivated, ResumeIsGranted, QuietIsClosed, AcceptsWorkloadCommands
  <1> QED BY <1>1, <1>2, <1>3, <1>4, <1>5, <1>6, <1>7, <1>8, <1>9, <1>10 DEF Next

------------------------------------------------------------------------------
\* The three facts together.
LEMMA Inductive == Spec => []IInv
  BY InitInv, NextInv, PTL DEF Spec

\* The state of the agent keeps its types; at the end of a shutdown no worker
\* and no command is left that could use the runtime.
THEOREM TypeCorrect == Spec => []TypeOK
  <1>1. IInv => TypeOK
    BY DEF IInv
  <1> QED BY <1>1, Inductive, PTL

\* However often the process restarts and whatever node commands were under way,
\* it accepts workload commands only if the control plane wanted the node active
\* at some time of its life.
THEOREM RestartNeverActivates == Spec => []NeverReactivated
  <1>1. IInv => NeverReactivated
    BY DEF IInv
  <1> QED BY <1>1, Inductive, PTL

\* A node whose heartbeat said Drained runs no workload command as long as nothing
\* made it active since, over crashes, restarts and late heartbeats.
THEOREM HeardDrainedNodeIdle == Spec => []HeardDrainedIsIdle
  <1>1. IInv => HeardDrainedIsIdle
    BY DEF IInv, QuietIsClosed, HeardDrainedIsIdle
  <1> QED BY <1>1, Inductive, PTL
==============================================================================
