--------------------------- MODULE SchedulerProofs ---------------------------
(***************************************************************************)
(* Proofs about Scheduler for every set of commands, projects and tasks.   *)
(***************************************************************************)
EXTENDS Scheduler, FiniteSetTheorems, TLAPS

\* The counters are the sizes of the metadata map, split by weight, and the
\* limits bound them: what release_metadata and try_start maintain together.
Counted ==
    /\ active_commands = Cardinality(task_metadata)
    /\ active_heavy = Cardinality(Heavy(task_metadata))
    /\ active_lightweight = Cardinality(Light(task_metadata))
    /\ active_heavy <= HeavyLimit
    /\ active_lightweight <= LightweightLimit

\* A task that a project or the lightweight slot serialises never loses its
\* metadata before it is joined, and its project stays busy.
Owned ==
    \A t \in JoinSet :
        /\ HasProject(command[t]) \/ IsLightweight(command[t]) => t \in task_metadata
        /\ HasProject(command[t]) => ProjectOf[command[t]] \in active_projects

\* No project is busy without a task that holds it.
NoStaleProject ==
    \A p \in active_projects : \E t \in task_metadata : ProjectOf[command[t]] = p

OneLightweight ==
    \A t, u \in JoinSet :
        IsLightweight(command[t]) /\ IsLightweight(command[u]) => t = u

\* Nothing but a node command is about to start on a drained node.
DrainedStarts ==
    node_state = "Drained" /\ pc = "start" => NodeCommand(current)

ClaimedOnce ==
    \A c \in Commands : executed[c] = 0 \/ (executed[c] = 1 /\ status[c] # "Pending")

ShutdownPhase ==
    /\ pc \in {"cancelling", "aborting"} => task_metadata \subseteq cancelled
    /\ pc = "stopped" => JoinSet = {}

IInv ==
    /\ TypeOK /\ Counted /\ Owned /\ NoStaleProject /\ ProjectSerialized
    /\ OneLightweight /\ DrainedMeansIdle /\ DrainedStarts /\ ClaimedOnce /\ ShutdownPhase

USE ConstantsAssumption

------------------------------------------------------------------------------
\* Sizes of the parts of the metadata map are natural numbers.
LEMMA MetadataFinite ==
    ASSUME NEW S \in SUBSET Tasks
    PROVE  IsFiniteSet(S) /\ Cardinality(S) \in Nat
  BY FS_Subset, FS_CardinalityType

\* SaturatingSub by the size of a subset is the size of what remains.
LEMMA SubtractSubset ==
    ASSUME NEW S \in SUBSET Tasks, NEW R \in SUBSET S
    PROVE  /\ SaturatingSub(Cardinality(S), Cardinality(R)) = Cardinality(S \ R)
           /\ Cardinality(S) - Cardinality(R) = Cardinality(S \ R)
  <1>1. IsFiniteSet(S) /\ Cardinality(S) \in Nat /\ Cardinality(R) \in Nat
        /\ Cardinality(S \ R) \in Nat
    BY MetadataFinite
  <1>2. S \intersect R = R
    OBVIOUS
  <1>3. Cardinality(S \ R) = Cardinality(S) - Cardinality(R)
    BY <1>1, <1>2, FS_Difference
  <1> QED
    BY <1>1, <1>3 DEF SaturatingSub

\* The inductive invariant holds when the poller starts.
LEMMA InitInv == Init => IInv
  <1> SUFFICES ASSUME Init PROVE IInv
    OBVIOUS
  <1>1. JoinSet = {} /\ Heavy({}) = {} /\ Light({}) = {}
    BY DEF Init, JoinSet, Heavy, Light
  <1>2. Cardinality({}) = 0
    BY FS_EmptySet
  <1>3. TypeOK
    BY <1>1 DEF Init, TypeOK, NodeStates, Statuses, Unfinished, Finished
  <1>4. Counted
    BY <1>1, <1>2 DEF Init, Counted, LightweightLimit
  <1> QED
    BY <1>1, <1>3, <1>4 DEF Init, IInv, Owned, NoStaleProject, ProjectSerialized, OneLightweight,
       DrainedMeansIdle, DrainedStarts, ClaimedOnce, ShutdownPhase

------------------------------------------------------------------------------
\* Joining a finished task, by reaping it or while waiting for shutdown,
\* releases exactly the entries it should.
LEMMA JoinInv ==
    ASSUME IInv, NEW t \in Tasks, phase[t] \in Finished,
           NEW freed \in SUBSET {ProjectOf[command[t]]},
           Join(t, freed), UNCHANGED pollVars
    PROVE  IInv'
  <1> DEFINE R == Released(t)
  <1> USE DEF IInv
  <1>1. /\ t \in JoinSet /\ command[t] \in Commands
        /\ JoinSet' = JoinSet \ {t}
        /\ phase' = [phase EXCEPT ![t] = "free"]
        /\ command' = [command EXCEPT ![t] = NoCommand]
        /\ task_metadata' = task_metadata \ R
    BY DEF Join, TypeOK, JoinSet, Finished
  <1>2. R \subseteq task_metadata /\ t \notin task_metadata'
    BY <1>1 DEF Released, ReleaseTask, Finished
  <1>3. \A u \in JoinSet : u # t => command'[u] = command[u] /\ u \in Tasks
    BY <1>1 DEF TypeOK, JoinSet
  <1>4. \A u \in R : u # t => command[u] = command[t] /\ u \in JoinSet
    BY <1>2 DEF Released, ReleaseTask, TypeOK
  <1>5. \A u \in R : u # t => ~HasProject(command[u]) /\ ~IsLightweight(command[u])
    BY <1>1, <1>4 DEF ProjectSerialized, OneLightweight
  <1>6. /\ Heavy(task_metadata)' = Heavy(task_metadata) \ Heavy(R)
        /\ Light(task_metadata)' = Light(task_metadata) \ Light(R)
    BY <1>1, <1>2, <1>3 DEF Heavy, Light, IsLightweight, TypeOK
  <1>7. /\ Heavy(R) \subseteq Heavy(task_metadata) /\ Heavy(task_metadata) \subseteq Tasks
        /\ Light(R) \subseteq Light(task_metadata) /\ Light(task_metadata) \subseteq Tasks
        /\ task_metadata \subseteq Tasks
    BY <1>2 DEF Heavy, Light, TypeOK, JoinSet
  <1>8. Counted'
    <2>1. active_commands' = Cardinality(task_metadata')
      BY <1>1, <1>2, <1>7, SubtractSubset DEF Join, Counted
    <2>2. active_heavy' = Cardinality(Heavy(task_metadata)')
      <3>1. SaturatingSub(Cardinality(Heavy(task_metadata)), Cardinality(Heavy(R)))
              = Cardinality(Heavy(task_metadata) \ Heavy(R))
        BY <1>7, SubtractSubset
      <3> QED BY <1>6, <3>1 DEF Join, Counted
    <2>3. active_lightweight' = Cardinality(Light(task_metadata)')
      <3>1. SaturatingSub(Cardinality(Light(task_metadata)), Cardinality(Light(R)))
              = Cardinality(Light(task_metadata) \ Light(R))
        BY <1>7, SubtractSubset
      <3> QED BY <1>6, <3>1 DEF Join, Counted
    <2>4. active_heavy' <= HeavyLimit /\ active_lightweight' <= LightweightLimit
      <3>1. /\ Cardinality(Heavy(task_metadata)') <= Cardinality(Heavy(task_metadata))
            /\ Cardinality(Light(task_metadata)') <= Cardinality(Light(task_metadata))
        BY <1>6, <1>7, MetadataFinite, FS_Subset
      <3>2. /\ Cardinality(Heavy(task_metadata)') \in Nat /\ Cardinality(Heavy(task_metadata)) \in Nat
            /\ Cardinality(Light(task_metadata)') \in Nat /\ Cardinality(Light(task_metadata)) \in Nat
        BY <1>6, <1>7, MetadataFinite
      <3> QED BY <2>2, <2>3, <3>1, <3>2 DEF Counted, LightweightLimit
    <2> QED BY <2>1, <2>2, <2>3, <2>4 DEF Counted
  <1>9. TypeOK'
    <2>1. active_commands' \in Nat /\ active_heavy' \in Nat /\ active_lightweight' \in Nat
      BY <1>2, <1>1, <1>6, <1>7, <1>8, MetadataFinite DEF Counted
    <2>2. task_metadata' \subseteq JoinSet'
      BY <1>1, <1>2 DEF TypeOK
    <2>3. \A u \in Tasks : phase'[u] = "free" <=> command'[u] = NoCommand
      BY <1>1 DEF TypeOK
    <2> QED
      BY <1>1, <2>1, <2>2, <2>3 DEF TypeOK, Join, pollVars, planeVars
  <1>10. Owned' /\ ProjectSerialized' /\ OneLightweight'
    <2>1. OneLightweight' /\ ProjectSerialized'
      BY <1>1, <1>3 DEF OneLightweight, ProjectSerialized, IsLightweight, HasProject
    <2>2. ASSUME NEW u \in JoinSet'
          PROVE  /\ (HasProject(command[u]) \/ IsLightweight(command[u]))' => u \in task_metadata'
                 /\ HasProject(command[u])' => (ProjectOf[command[u]] \in active_projects)'
      <3>1. u \in JoinSet /\ u # t /\ command'[u] = command[u]
        BY <1>1, <1>3
      <3>2. HasProject(command[u]) \/ IsLightweight(command[u]) => u \in task_metadata \ R
        BY <3>1, <1>5 DEF Owned
      <3>3. HasProject(command[u]) => ProjectOf[command[u]] \in active_projects'
        <4> SUFFICES ASSUME HasProject(command[u]) PROVE ProjectOf[command[u]] \in active_projects'
          OBVIOUS
        <4>1. ProjectOf[command[u]] \in active_projects
          BY <3>1 DEF Owned
        <4>2. ProjectOf[command[u]] # ProjectOf[command[t]]
          BY <3>1, <1>1 DEF ProjectSerialized
        <4>3. \A v \in R : ProjectOf[command[v]] = ProjectOf[command[t]]
          BY <1>4
        <4> QED BY <4>1, <4>2, <4>3 DEF Join
      <3> QED BY <1>1, <3>1, <3>2, <3>3 DEF HasProject, IsLightweight
    <2> QED BY <2>1, <2>2 DEF Owned, HasProject, IsLightweight
  <1>11. NoStaleProject'
    <2> SUFFICES ASSUME NEW p \in active_projects'
                 PROVE  \E u \in task_metadata' : ProjectOf[command'[u]] = p
      BY DEF NoStaleProject
    <2>1. p \in active_projects /\ \A u \in R : ProjectOf[command[u]] # p
      BY DEF Join
    <2>2. PICK u \in task_metadata : ProjectOf[command[u]] = p
      BY <2>1 DEF NoStaleProject
    <2>3. u \notin R
      BY <2>1, <2>2
    <2>4. u \in task_metadata' /\ u # t /\ u \in JoinSet
      BY <1>1, <1>2, <2>2, <2>3 DEF TypeOK
    <2> QED BY <1>3, <2>2, <2>4
  <1>12. DrainedMeansIdle' /\ DrainedStarts' /\ ClaimedOnce' /\ ShutdownPhase'
    <2>1. DrainedMeansIdle'
      BY <1>1, <1>3 DEF DrainedMeansIdle, NodeCommand, Join
    <2>2. DrainedStarts' /\ ClaimedOnce'
      BY DEF DrainedStarts, ClaimedOnce, NodeCommand, Join, pollVars, planeVars
    <2>3. ShutdownPhase'
      BY <1>1, <1>2 DEF ShutdownPhase, Join, pollVars
    <2> QED BY <2>1, <2>2, <2>3
  <1> QED
    BY <1>8, <1>9, <1>10, <1>11, <1>12
------------------------------------------------------------------------------
\* try_start: the refusal condition is exactly what keeps the slots and the
\* projects exclusive.
LEMMA StartInv ==
    ASSUME IInv, NEW t \in Tasks, Start(t)
    PROVE  IInv'
  <1> USE DEF IInv
  <1>1. /\ current \in Commands /\ pc = "start"
        /\ t \notin JoinSet /\ t \notin task_metadata
        /\ JoinSet' = JoinSet \union {t}
        /\ phase' = [phase EXCEPT ![t] = "claiming"]
        /\ command' = [command EXCEPT ![t] = current]
        /\ task_metadata' = task_metadata \union {t}
        /\ command'[t] = current
    BY DEF Start, TypeOK, JoinSet
  <1>2. \A u \in JoinSet : u # t /\ command'[u] = command[u] /\ u \in Tasks
    BY <1>1 DEF TypeOK, JoinSet
  <1>3. task_metadata \subseteq JoinSet /\ task_metadata \subseteq Tasks
    BY DEF TypeOK, JoinSet
  <1>4. /\ Heavy(task_metadata)' = Heavy(task_metadata)
                \union (IF IsLightweight(current) THEN {} ELSE {t})
        /\ Light(task_metadata)' = Light(task_metadata)
                \union (IF IsLightweight(current) THEN {t} ELSE {})
    BY <1>1, <1>2, <1>3 DEF Heavy, Light, IsLightweight
  <1>5. /\ Heavy(task_metadata) \subseteq Tasks /\ t \notin Heavy(task_metadata)
        /\ Light(task_metadata) \subseteq Tasks /\ t \notin Light(task_metadata)
    BY <1>1, <1>3 DEF Heavy, Light
  <1>6. /\ IsFiniteSet(task_metadata) /\ Cardinality(task_metadata) \in Nat
        /\ IsFiniteSet(Heavy(task_metadata)) /\ Cardinality(Heavy(task_metadata)) \in Nat
        /\ IsFiniteSet(Light(task_metadata)) /\ Cardinality(Light(task_metadata)) \in Nat
    BY <1>3, <1>5, MetadataFinite
  <1>7. /\ Cardinality(task_metadata \union {t}) = Cardinality(task_metadata) + 1
        /\ Cardinality(Heavy(task_metadata) \union {t}) = Cardinality(Heavy(task_metadata)) + 1
        /\ Cardinality(Light(task_metadata) \union {t}) = Cardinality(Light(task_metadata)) + 1
    BY <1>1, <1>5, <1>6, FS_AddElement
  <1>8. Counted'
    <2>1. CASE IsLightweight(current)
      <3>1. /\ Heavy(task_metadata)' = Heavy(task_metadata)
            /\ Light(task_metadata)' = Light(task_metadata) \union {t}
        BY <1>4, <2>1
      <3>2. active_lightweight = 0
        BY <1>6, <2>1 DEF Counted, Start, Deferred, LightweightLimit
      <3>3. /\ active_commands' = Cardinality(task_metadata')
            /\ active_heavy' = Cardinality(Heavy(task_metadata)')
            /\ active_lightweight' = Cardinality(Light(task_metadata)')
        <4>1. /\ active_commands' = active_commands + 1
              /\ active_heavy' = active_heavy + 0
              /\ active_lightweight' = active_lightweight + 1
          BY <2>1 DEF Start
        <4>2. active_commands' = Cardinality(task_metadata')
          BY <1>1, <1>7, <4>1 DEF Counted
        <4>3. active_heavy' = Cardinality(Heavy(task_metadata)')
          BY <1>6, <1>7, <3>1, <4>1 DEF Counted
        <4>4. active_lightweight' = Cardinality(Light(task_metadata)')
          BY <1>6, <1>7, <3>1, <4>1 DEF Counted
        <4> QED BY <4>2, <4>3, <4>4
      <3>4. active_heavy' <= HeavyLimit /\ active_lightweight' <= LightweightLimit
        BY <1>6, <2>1, <3>2 DEF Counted, Start, LightweightLimit
      <3> QED BY <3>3, <3>4 DEF Counted
    <2>2. CASE ~IsLightweight(current)
      <3>1. /\ Heavy(task_metadata)' = Heavy(task_metadata) \union {t}
            /\ Light(task_metadata)' = Light(task_metadata)
        BY <1>4, <2>2
      <3>2. active_heavy + 1 <= HeavyLimit
        BY <1>6, <2>2 DEF Counted, Start, Deferred
      <3>3. /\ active_commands' = Cardinality(task_metadata')
            /\ active_heavy' = Cardinality(Heavy(task_metadata)')
            /\ active_lightweight' = Cardinality(Light(task_metadata)')
        <4>1. /\ active_commands' = active_commands + 1
              /\ active_heavy' = active_heavy + 1
              /\ active_lightweight' = active_lightweight + 0
          BY <2>2 DEF Start
        <4>2. active_commands' = Cardinality(task_metadata')
          BY <1>1, <1>7, <4>1 DEF Counted
        <4>3. active_heavy' = Cardinality(Heavy(task_metadata)')
          BY <1>6, <1>7, <3>1, <4>1 DEF Counted
        <4>4. active_lightweight' = Cardinality(Light(task_metadata)')
          BY <1>6, <1>7, <3>1, <4>1 DEF Counted
        <4> QED BY <4>2, <4>3, <4>4
      <3>4. active_heavy' <= HeavyLimit /\ active_lightweight' <= LightweightLimit
        BY <1>6, <2>2, <3>2 DEF Counted, Start, LightweightLimit
      <3> QED BY <3>3, <3>4 DEF Counted
    <2> QED BY <2>1, <2>2
  <1>9. TypeOK'
    <2>1. active_commands' \in Nat /\ active_heavy' \in Nat /\ active_lightweight' \in Nat
      BY DEF Start, TypeOK
    <2>2. active_projects' \subseteq Projects
      BY <1>1 DEF Start, TypeOK, HasProject
    <2>3. \A u \in Tasks : phase'[u] = "free" <=> command'[u] = NoCommand
      BY <1>1 DEF TypeOK
    <2>4. task_metadata' \subseteq JoinSet'
      BY <1>1, <1>3
    <2>5. /\ phase' \in [Tasks -> Unfinished \union Finished \union {"free"}]
          /\ command' \in [Tasks -> Commands \union {NoCommand}]
      BY <1>1 DEF TypeOK, Unfinished
    <2> QED
      BY <1>1, <2>1, <2>2, <2>3, <2>4, <2>5 DEF TypeOK, Start, planeVars
  <1>10. ~Deferred(current)
    BY DEF Start
  <1>11. \A u \in JoinSet : HasProject(command[u]) => ProjectOf[command[u]] # ProjectOf[current]
    BY <1>10 DEF Owned, Deferred, HasProject
  <1>12. IsLightweight(current) => \A u \in JoinSet : ~IsLightweight(command[u])
    <2> SUFFICES ASSUME IsLightweight(current), NEW u \in JoinSet, IsLightweight(command[u])
                 PROVE  FALSE
      OBVIOUS
    <2>1. Cardinality(Light(task_metadata)) = 0
      BY <1>6, <1>10 DEF Counted, Deferred, LightweightLimit
    <2>2. Light(task_metadata) = {}
      BY <1>6, <2>1, FS_EmptySet
    <2>3. u \in Light(task_metadata)
      BY DEF Owned, Light
    <2> QED BY <2>2, <2>3
  <1>13. ProjectSerialized' /\ OneLightweight'
    <2>1. ProjectSerialized'
      BY <1>1, <1>2, <1>11 DEF ProjectSerialized, HasProject
    <2>2. OneLightweight'
      BY <1>1, <1>2, <1>12 DEF OneLightweight, IsLightweight
    <2> QED BY <2>1, <2>2
  <1>14. Owned' /\ NoStaleProject'
    <2>1. Owned'
      BY <1>1, <1>2 DEF Owned, Start, HasProject, IsLightweight
    <2>2. NoStaleProject'
      <3> SUFFICES ASSUME NEW p \in active_projects'
                   PROVE  \E u \in task_metadata' : ProjectOf[command'[u]] = p
        BY DEF NoStaleProject
      <3>1. CASE p \in active_projects
        BY <1>1, <1>2, <1>3, <3>1 DEF NoStaleProject
      <3>2. CASE p \notin active_projects
        BY <1>1, <3>2 DEF Start
      <3> QED BY <3>1, <3>2
    <2> QED BY <2>1, <2>2
  <1>15. DrainedMeansIdle' /\ DrainedStarts' /\ ClaimedOnce' /\ ShutdownPhase'
    <2>1. DrainedMeansIdle'
      BY <1>1, <1>2 DEF DrainedMeansIdle, DrainedStarts, NodeCommand, Start
    <2>2. DrainedStarts' /\ ClaimedOnce' /\ ShutdownPhase'
      BY DEF DrainedStarts, ClaimedOnce, ShutdownPhase, Start, planeVars
    <2> QED BY <2>1, <2>2
  <1> QED
    BY <1>8, <1>9, <1>13, <1>14, <1>15

------------------------------------------------------------------------------
\* A step of a command task moves it between phases without touching slots; it
\* may write the lifecycle word, but never to Drained.
LEMMA TaskInv ==
    ASSUME IInv, NEW t \in Tasks, TaskStep(t) \/ Panic(t) \/ Abort(t)
    PROVE  IInv'
  <1> USE DEF IInv
  <1>1. /\ phase[t] \in Unfinished
        /\ \E how \in {"executing", "reporting", "done", "failed"} :
               phase' = [phase EXCEPT ![t] = how]
        /\ UNCHANGED taskFrame
        /\ node_state' \in {node_state, "Draining", "Active"}
    BY DEF TaskStep, Claim, Execute, Report, Panic, Abort, TaskEnds, Unfinished
  <1>2. JoinSet' = JoinSet
    BY <1>1 DEF JoinSet, TypeOK, Unfinished
  <1>3. /\ command' = command /\ task_metadata' = task_metadata
        /\ active_heavy' = active_heavy /\ active_lightweight' = active_lightweight
        /\ active_projects' = active_projects /\ active_commands' = active_commands
        /\ cancelled' = cancelled /\ shutdown' = shutdown
        /\ pc' = pc /\ response' = response /\ current' = current
    BY <1>1 DEF taskFrame, pollVars, slotVars
  <1>4. command[t] \in Commands
    BY <1>1 DEF TypeOK, Unfinished
  <1>5. status' \in [Commands -> Statuses] /\ executed' \in [Commands -> Nat] /\ ClaimedOnce'
    BY <1>4 DEF TypeOK, Statuses, ClaimedOnce, TaskStep, Claim, Execute, Report, Panic, Abort,
                planeVars
  <1>6. TypeOK'
    <2>1. phase' \in [Tasks -> Unfinished \union Finished \union {"free"}]
      BY <1>1 DEF TypeOK, Unfinished, Finished
    <2>2. \A u \in Tasks : phase'[u] = "free" <=> command'[u] = NoCommand
      BY <1>1, <1>3 DEF TypeOK, Unfinished
    <2>3. node_state' \in NodeStates
      BY <1>1 DEF TypeOK, NodeStates
    <2> QED BY <1>2, <1>3, <1>5, <2>1, <2>2, <2>3 DEF TypeOK
  <1>7. Counted' /\ Owned' /\ NoStaleProject' /\ ProjectSerialized' /\ OneLightweight'
    BY <1>2, <1>3 DEF Counted, Owned, NoStaleProject, ProjectSerialized, OneLightweight,
                      Heavy, Light, HasProject, IsLightweight
  <1>8. DrainedMeansIdle' /\ DrainedStarts' /\ ShutdownPhase'
    BY <1>1, <1>2, <1>3 DEF DrainedMeansIdle, DrainedStarts, ShutdownPhase, NodeCommand
  <1> QED
    BY <1>5, <1>6, <1>7, <1>8

------------------------------------------------------------------------------
\* Steps of the poller that move no task: they change where the loop is, the
\* response it works through, the cancelled tokens, or finish a drain.
LoopStep ==
    \/ BeginPoll \/ PollCommands \/ Defer \/ DispatchDone \/ SleepElapsed
    \/ ObserveShutdown \/ GraceElapsed \/ PollerStopped \/ RequestShutdown
    \/ \E c \in Commands : CheckCommand(c)

\* The loop keeps the invariant; Drained is only reached with no task left.
LEMMA LoopInv == ASSUME IInv, LoopStep PROVE IInv'
  <1> USE DEF IInv
  <1>1. UNCHANGED <<taskVars, slotVars, planeVars>>
    BY DEF LoopStep, BeginPoll, PollCommands, Defer, DispatchDone, SleepElapsed,
           ObserveShutdown, GraceElapsed, PollerStopped, RequestShutdown, CheckCommand
  <1>2. /\ phase' = phase /\ command' = command /\ task_metadata' = task_metadata
        /\ active_heavy' = active_heavy /\ active_lightweight' = active_lightweight
        /\ active_projects' = active_projects /\ active_commands' = active_commands
        /\ status' = status /\ executed' = executed /\ JoinSet' = JoinSet
    BY <1>1 DEF taskVars, slotVars, planeVars, JoinSet
  <1>3. Counted' /\ Owned' /\ NoStaleProject' /\ ProjectSerialized' /\ OneLightweight'
        /\ ClaimedOnce'
    BY <1>2 DEF Counted, Owned, NoStaleProject, ProjectSerialized, OneLightweight, ClaimedOnce,
                Heavy, Light, HasProject, IsLightweight
  <1>4. TypeOK' /\ DrainedMeansIdle' /\ DrainedStarts' /\ ShutdownPhase'
    <2> USE <1>2 DEF TypeOK, DrainedMeansIdle, DrainedStarts, ShutdownPhase, NodeCommand
    <2>1. CASE BeginPoll
      BY <2>1 DEF BeginPoll, NodeStates
    <2>2. CASE PollCommands
      BY <2>2 DEF PollCommands
    <2>3. CASE Defer \/ DispatchDone \/ SleepElapsed
      BY <2>3 DEF Defer, DispatchDone, SleepElapsed
    <2>4. CASE ObserveShutdown
      BY <2>4 DEF ObserveShutdown, JoinSet
    <2>5. CASE GraceElapsed \/ PollerStopped
      BY <2>5 DEF GraceElapsed, PollerStopped
    <2>6. CASE RequestShutdown
      BY <2>6 DEF RequestShutdown, pollVars
    <2>7. ASSUME NEW c \in Commands, CheckCommand(c)
          PROVE  TypeOK' /\ DrainedMeansIdle' /\ DrainedStarts' /\ ShutdownPhase'
      BY <2>7 DEF CheckCommand, AcceptsWorkloadCommands
    <2> QED BY <2>1, <2>2, <2>3, <2>4, <2>5, <2>6, <2>7 DEF LoopStep
  <1> QED BY <1>3, <1>4

\* The invariant is inductive.
LEMMA NextInv == IInv /\ [Next]_vars => IInv'
  <1> SUFFICES ASSUME IInv, [Next]_vars PROVE IInv'
    OBVIOUS
  <1>1. ASSUME NEW t \in Tasks, ReapCompleted(t) PROVE IInv'
    <2>1. (IF phase[t] = "done" THEN {ProjectOf[command[t]]} ELSE {})
             \in SUBSET {ProjectOf[command[t]]}
      OBVIOUS
    <2> QED BY <1>1, <2>1, JoinInv DEF ReapCompleted
  <1>2. ASSUME NEW t \in Tasks, JoinNext(t) PROVE IInv'
    <2>1. {} \in SUBSET {ProjectOf[command[t]]}
      OBVIOUS
    <2> QED BY <1>2, <2>1, JoinInv DEF JoinNext
  <1>3. ASSUME NEW t \in Tasks, Start(t) PROVE IInv'
    BY <1>3, StartInv
  <1>4. ASSUME NEW t \in Tasks, TaskStep(t) \/ Panic(t) \/ Abort(t) PROVE IInv'
    BY <1>4, TaskInv
  <1>5. CASE LoopStep
    BY <1>5, LoopInv
  <1>6. CASE UNCHANGED vars
    <2>1. /\ phase' = phase /\ command' = command /\ task_metadata' = task_metadata
          /\ active_heavy' = active_heavy /\ active_lightweight' = active_lightweight
          /\ active_projects' = active_projects /\ active_commands' = active_commands
          /\ status' = status /\ executed' = executed /\ pc' = pc /\ response' = response
          /\ current' = current /\ node_state' = node_state /\ shutdown' = shutdown
          /\ cancelled' = cancelled
      BY <1>6 DEF vars, pollVars, taskVars, slotVars, planeVars
    <2> QED
      BY <2>1 DEF IInv, TypeOK, Counted, Owned, NoStaleProject, ProjectSerialized, OneLightweight,
         DrainedMeansIdle, DrainedStarts, ClaimedOnce, ShutdownPhase, JoinSet, Heavy, Light,
         HasProject, IsLightweight, NodeCommand
  <1> QED
    BY <1>1, <1>2, <1>3, <1>4, <1>5, <1>6 DEF Next, PollerStep, LoopStep

\* Every reachable state satisfies the inductive invariant.
THEOREM Inductive == Spec => []IInv
  BY InitInv, NextInv, PTL DEF Spec

\* Types hold, and with them: no counter underflows, no metadata survives its
\* task (fetch_sub and saturating_sub in poller.rs and metrics.rs never clip).
THEOREM TypeCorrect == Spec => []TypeOK
  BY Inductive, PTL DEF IInv

\* The scheduler serialises projects for any number of commands and tasks.
THEOREM ProjectsSerialized == Spec => []ProjectSerialized
  BY Inductive, PTL DEF IInv

\* A drained node runs no workload command.
THEOREM DrainedIsIdle == Spec => []DrainedMeansIdle
  BY Inductive, PTL DEF IInv

\* The single lightweight slot is never shared.
THEOREM LightweightBounded == Spec => []LightweightBound
  <1>1. IInv => LightweightBound
    <2> SUFFICES ASSUME IInv PROVE LightweightBound
      OBVIOUS
    <2>1. Light(JoinSet) \subseteq Light(task_metadata)
      BY DEF IInv, Owned, Light
    <2>2. Light(task_metadata) \in SUBSET Tasks
      BY DEF IInv, TypeOK, Light, JoinSet
    <2>3. /\ Cardinality(Light(JoinSet)) <= Cardinality(Light(task_metadata))
          /\ Cardinality(Light(JoinSet)) \in Nat
          /\ Cardinality(Light(task_metadata)) \in Nat
      BY <2>1, <2>2, MetadataFinite, FS_Subset
    <2> QED BY <2>3 DEF IInv, Counted, LightweightBound, LightweightLimit
  <1> QED BY <1>1, Inductive, PTL

\* No command is executed twice, however often it is polled.
THEOREM ExecutedOnce == Spec => []ExecutedAtMostOnce
  <1>1. IInv => ExecutedAtMostOnce
    BY DEF IInv, ClaimedOnce, ExecutedAtMostOnce
  <1> QED BY <1>1, Inductive, PTL

\* A stopped poller has given back every slot, project and count.
THEOREM StoppedClean == Spec => []StoppedIsClean
  <1>1. IInv => StoppedIsClean
    <2> SUFFICES ASSUME IInv, pc = "stopped" PROVE StoppedIsClean
      BY DEF StoppedIsClean
    <2>1. JoinSet = {} /\ task_metadata = {}
      BY DEF IInv, ShutdownPhase, TypeOK
    <2>2. active_projects = {}
      BY <2>1 DEF IInv, NoStaleProject
    <2>3. Heavy(task_metadata) = {} /\ Light(task_metadata) = {}
      BY <2>1 DEF Heavy, Light
    <2> QED BY <2>1, <2>2, <2>3, FS_EmptySet DEF IInv, Counted, StoppedIsClean
  <1> QED BY <1>1, Inductive, PTL

\* Slots are neither oversubscribed nor leaked, for every number of commands.
THEOREM SlotsAreBalanced == Spec => []SlotsBalanced
  <1>1. LightweightBound /\ StoppedIsClean => SlotsBalanced
    BY DEF SlotsBalanced
  <1> QED BY <1>1, LightweightBounded, StoppedClean, PTL

------------------------------------------------------------------------------
\* Heavy commands that carry a project, which every command type but
\* CleanupRuntime does, are polled again without being started again.
HeavyCarriesProject == \A c \in Commands : IsLightweight(c) \/ HasProject(c)

\* Then a task keeps its metadata until it is joined.
LEMMA MetadataComplete ==
    ASSUME HeavyCarriesProject, IInv PROVE task_metadata = JoinSet
  <1>1. \A t \in JoinSet : command[t] \in Commands
    BY DEF IInv, TypeOK, JoinSet
  <1>2. JoinSet \subseteq task_metadata
    BY <1>1 DEF IInv, Owned, HeavyCarriesProject
  <1> QED BY <1>2 DEF IInv, TypeOK

\* Without node-wide heavy commands the configured concurrency bounds what runs.
THEOREM HeavyBounded == HeavyCarriesProject => (Spec => []HeavyBound)
  <1> SUFFICES ASSUME HeavyCarriesProject PROVE Spec => []HeavyBound
    OBVIOUS
  <1>1. IInv => HeavyBound
    BY MetadataComplete DEF IInv, Counted, HeavyBound
  <1> QED BY <1>1, Inductive, PTL

\* Without node-wide heavy commands the heartbeat reports the true task count.
THEOREM MetricIsExact == HeavyCarriesProject => (Spec => []MetricExact)
  <1> SUFFICES ASSUME HeavyCarriesProject PROVE Spec => []MetricExact
    OBVIOUS
  <1>1. IInv => MetricExact
    BY MetadataComplete DEF IInv, Counted, MetricExact
  <1> QED BY <1>1, Inductive, PTL

\* Without node-wide heavy commands shutdown reaches every task's token.
THEOREM ShutdownReachesAll == HeavyCarriesProject => (Spec => []ShutdownCancelsAll)
  <1> SUFFICES ASSUME HeavyCarriesProject PROVE Spec => []ShutdownCancelsAll
    OBVIOUS
  <1>1. IInv => ShutdownCancelsAll
    BY MetadataComplete DEF IInv, ShutdownPhase, ShutdownCancelsAll, Live, JoinSet, Unfinished
  <1> QED BY <1>1, Inductive, PTL

==============================================================================
