------------------------- MODULE DockerRuntimeProofs -------------------------
(***************************************************************************)
(* The safety properties of DockerRuntime for any projects, deployments,   *)
(* limit and kinds of commands.  Projects share the two locks and the      *)
(* reload of Caddy, and nothing else: the invariant is a predicate on one  *)
(* project (Sound), stable under the steps of the others (Untouched).      *)
(***************************************************************************)
EXTENDS DockerRuntime, FiniteSetTheorems, TLAPS

Activators   == {"deploy", "wake", "restart", "refresh"}
Deactivators == {"stop", "sleep"}

\* A cleanup is changing the route of p.
GcOn(p) == gc.step = "reload" /\ DeploymentProject[gc.target] = p

\* The steps of each kind of command.
StepsOf(kind) ==
    CASE kind = "deploy" -> {"build", "admit", "check", "run", "ready", "route", "reload",
                             "finalize", "cleanup"}
      [] kind = "stop" -> {"halt", "route", "reload", "remove"}
      [] kind = "sleep" -> {"halt", "route", "reload"}
      [] kind = "wake" -> {"launch", "ready", "route", "reload"}
      [] kind = "restart" -> {"launch", "restart", "ready", "route", "reload"}
      [] kind = "refresh" -> {"ready", "route", "reload"}
      [] kind = "remove" -> {"remove"}

\* What a command of p is and where it can be.
OpSound(p) ==
    /\ op[p].kind \in (Kinds \ {"gc"}) \union {None}
    /\ op[p].kind = None => op[p] = Idle
    /\ op[p].kind # None => /\ op[p].dep \in Of(p) /\ op[p].step \in StepsOf(op[p].kind)
                            /\ op[p].previous \in Of(p) \union {None}

\* The sections of the two locks.
LockSound(p) ==
    /\ op[p].step \in {"check", "run"} => admission = p
    /\ admission = p => op[p].step \in {"check", "run", "cleanup"}
    /\ op[p].step = "reload" => route_lock = p
    /\ route_lock = p => op[p].step = "reload" \/ (op[p].step = "cleanup" /\ p \in torn)

\* From its readiness check to its end, the container of a command is up; that of
\* a restart also before.
DepRuns(p) ==
    /\ op[p].kind \in Activators /\ op[p].step \in {"ready", "route", "reload", "finalize"}
          => container[op[p].dep] = "running"
    /\ op[p].kind = "restart" /\ op[p].step = "launch" => container[op[p].dep] = "running"

\* What the site file may be while a command or a cleanup changes the route, and
\* after the cutover.
FileSound(p) ==
    /\ file[p] \in Of(p) \union {None} /\ live[p] \in Of(p) \union {None}
    /\ op[p].step = "reload" => file[p] = IF op[p].kind \in Activators THEN op[p].dep ELSE None
    /\ op[p].step = "finalize" => /\ {file[p], live[p]} \subseteq {None, op[p].dep}
                                  /\ GcOn(p) => gc.target = op[p].dep
    /\ GcOn(p) => file[p] = None

\* Caddy serves the site file, or what the file was before the route change.
Synced(p) ==
    p \notin torn =>
       /\ route_lock # p /\ ~GcOn(p) => live[p] = file[p]
       /\ op[p].step = "reload" => live[p] = op[p].previous
       /\ GcOn(p) => live[p] = gc.target

\* The container that is served is up, unless it is being stopped or restarted,
\* and is not the one that the command may remove.
Served(p) ==
    p \notin torn /\ live[p] # None =>
       /\ \/ container[live[p]] = "running"
          \/ op[p].kind \in Deactivators /\ op[p].step \in {"route", "reload"} /\ live[p] = op[p].dep
          \/ op[p].kind = "restart" /\ op[p].step = "restart" /\ live[p] = op[p].dep
       /\ op[p].kind = "deploy" /\ op[p].step # "finalize" => live[p] # op[p].dep
       /\ op[p].step = "remove" => live[p] # op[p].dep

\* A project in the middle of a restart is on record.
RestartSound(p) == op[p].step = "restart" => p \in woken

\* The invariant of one project.
Sound(p) ==
    /\ OpSound(p) /\ LockSound(p) /\ DepRuns(p) /\ FileSound(p)
    /\ Synced(p) /\ Served(p) /\ RestartSound(p)

\* The shared state: the cleanup, the types of what commands change, and the
\* locks.
GcType == [step : {"idle", "discover", "remove", "reload"}, known : SUBSET Deployments,
           stale : SUBSET Deployments, target : Deployments \union {None}]

Shape ==
    /\ container \in [Deployments -> {"absent", "stopped", "running"}]
    /\ file \in [Projects -> Deployments \union {None}]
    /\ live \in [Projects -> Deployments \union {None}]
    /\ op \in [Projects -> OpType]
    /\ torn \subseteq Projects /\ woken \subseteq Projects

Locks ==
    /\ admission \in Projects \union {None}
    /\ route_lock \in Projects \union {None, GcHolder}
    /\ gc \in GcType
    /\ route_lock = GcHolder <=> gc.step = "reload"
    /\ gc.step = "reload" => gc.target \in Deployments

\* The projects that count against the limit; whoever is about to start its
\* container is one of them already or finds a place.
Counted == {p \in Projects : ActiveIn(p) # {} /\ p \notin woken}
Limited ==
    /\ IsFiniteSet(Running) /\ Cardinality(Counted) <= MaxActive
    /\ \A p \in Projects : op[p].step = "run" => \/ p \in woken \/ ActiveIn(p) # {}
                                                \/ Cardinality(Counted) < MaxActive

\* The inductive invariant: all projects are sound, and the limit holds.
Core == Shape /\ Locks /\ \A p \in Projects : Sound(p)
IInv == Core /\ Limited /\ kept \subseteq Projects \union {GcHolder}

\* A step that only decides who is polled, or nothing at all.
Still == UNCHANGED <<dockerVars, routeVars, op, admission, gc>>

\* The steps of the specification.
LEMMA Steps ==
    ASSUME [Next]_vars
    PROVE  \/ \E p \in Projects : CommandStep(p) \/ Cancel(p) \/ Abandon(p)
           \/ \E p \in Projects, d \in Deployments, k \in AllKinds : Begin(p, d, k)
           \/ GcBegin \/ GcStep \/ GcAbandon \/ Still
  BY DEF Next, PolledStep, PolledCancel, PolledGcStep, Suspend, Still, vars

\* Commands are kept, holders of locks or not.
LEMMA KeptStep ==
    ASSUME [Next]_vars, kept \subseteq Projects \union {GcHolder}
    PROVE  kept' \subseteq Projects \union {GcHolder}
  BY DEF Next, PolledStep, PolledCancel, PolledGcStep, Suspend, Abandon, GcAbandon, GcBegin, Begin,
         vars

\* What a step of another project, or a cleanup of its route, leaves of q.
Untouched(q) ==
    /\ op'[q] = op[q] /\ file'[q] = file[q]
    /\ \A d \in Of(q) : container'[d] = container[d]
    /\ q \in torn' <=> q \in torn
    /\ q \in woken => q \in woken'
    /\ admission' = q <=> admission = q
    /\ route_lock' = q <=> route_lock = q
    /\ GcOn(q)' <=> GcOn(q)
    /\ GcOn(q) => gc'.target = gc.target
    /\ live'[q] = live[q] \/ (live'[q] = file[q] /\ route_lock # q /\ ~GcOn(q))

\* A project that a step leaves alone stays sound.
LEMMA Frame ==
    ASSUME NEW q \in Projects, Sound(q), Untouched(q)
    PROVE  Sound(q)'
  <1>1. OpSound(q)'
    BY DEF Sound, OpSound, Untouched, Of
  <1>2. LockSound(q)'
    BY DEF Sound, LockSound, Untouched
  <1>3. DepRuns(q)'
    <2>1. op[q].kind \in Activators \union {"restart"} => op[q].dep \in Of(q)
      BY RuntimeAssumption DEF Sound, OpSound, Activators, AllKinds
    <2> QED BY <2>1 DEF Sound, DepRuns, Untouched
  <1>4. FileSound(q)'
    BY DEF Sound, FileSound, Untouched, Of
  <1>5. Synced(q)'
    BY DEF Sound, Synced, Untouched
  <1>6. Served(q)'
    <2>1. q \notin torn => live'[q] = live[q] /\ q \notin torn'
      BY DEF Sound, Synced, Untouched
    <2>2. live[q] # None => container'[live[q]] = container[live[q]]
      BY DEF Sound, FileSound, Untouched
    <2> QED BY <2>1, <2>2 DEF Sound, Served, Untouched
  <1>7. RestartSound(q)'
    BY DEF Sound, RestartSound, Untouched
  <1> QED BY <1>1, <1>2, <1>3, <1>4, <1>5, <1>6, <1>7 DEF Sound

\* A step of p is sound if it is for p and leaves the others alone.
LEMMA Assemble ==
    ASSUME Core, NEW p \in Projects, Shape', Locks', Sound(p)',
           \A q \in Projects \ {p} : Untouched(q)
    PROVE  Core'
  BY Frame DEF Core

\* The ways a command goes on.
Moves(p) ==
    \/ \E x \in {"admit", "check", "run", "restart", "ready", "route", "cleanup"} : Goto(p, x)
    \/ OnError(p) \/ Proceed(p) \/ op' = [op EXCEPT ![p] = Idle]
    \/ op' = [op EXCEPT ![p] = [@ EXCEPT !.step = "reload", !.previous = file[p]]]

\* Whatever it does next, a command stays a command or is over.
LEMMA Moved ==
    ASSUME Core, NEW p \in Projects, Moves(p)
    PROVE  \E o \in OpType : op' = [op EXCEPT ![p] = o]
  <1>0. /\ op \in [Projects -> OpType] /\ op[p] \in OpType /\ Idle \in OpType
        /\ file[p] \in Deployments \union {None}
    BY DEF Core, Shape, OpType, Idle
  <1>1. ASSUME NEW x \in {"admit", "check", "run", "restart", "ready", "route", "cleanup"}, Goto(p, x)
        PROVE  \E o \in OpType : op' = [op EXCEPT ![p] = o]
    <2>1. [op[p] EXCEPT !.step = x] \in OpType
      BY <1>0 DEF OpType
    <2> QED BY <1>1, <2>1 DEF Goto
  <1>2. ASSUME OnError(p)
        PROVE  \E o \in OpType : op' = [op EXCEPT ![p] = o]
    <2>1. [op[p] EXCEPT !.step = "cleanup"] \in OpType
      BY <1>0 DEF OpType
    <2> QED BY <1>0, <1>2, <2>1 DEF OnError
  <1>3. ASSUME Proceed(p)
        PROVE  \E o \in OpType : op' = [op EXCEPT ![p] = o]
    <2>1. AfterRoute(p) \in {"finalize", "remove", "idle"}
      BY DEF AfterRoute
    <2>2. [op[p] EXCEPT !.step = AfterRoute(p)] \in OpType
      BY <1>0, <2>1 DEF OpType
    <2> QED BY <1>0, <1>3, <2>2 DEF Proceed
  <1>4. ASSUME op' = [op EXCEPT ![p] = [@ EXCEPT !.step = "reload", !.previous = file[p]]]
        PROVE  \E o \in OpType : op' = [op EXCEPT ![p] = o]
    <2>1. [op[p] EXCEPT !.step = "reload", !.previous = file[p]] \in OpType
      BY <1>0 DEF OpType
    <2> QED BY <1>4, <2>1
  <1> QED BY <1>0, <1>1, <1>2, <1>3, <1>4 DEF Moves

\* A docker call reaches only the containers of its project.
Dockered(p) ==
    /\ container' \in [Deployments -> {"absent", "stopped", "running"}]
    /\ \A d \in Deployments \ Of(p) : container'[d] = container[d]

\* A Docker call of a command concerns a container of its project.
LEMMA DockerCall ==
    ASSUME Core, NEW p \in Projects, op[p].kind # None,
           NEW x \in {"absent", "stopped", "running"},
           container' \in {container, [container EXCEPT ![op[p].dep] = x]}
    PROVE  Dockered(p)
  <1>1. op[p].dep \in Of(p)
    BY DEF Core, Sound, OpSound
  <1> QED BY <1>1 DEF Core, Shape, Dockered

\* A step of a command of p: who has a lock may take and leave it, and changes
\* the route under the route lock.
LocalStep(p) ==
    /\ \E o \in OpType : op' = [op EXCEPT ![p] = o]
    /\ Dockered(p)
    /\ admission' = admission \/ (admission \in {p, None} /\ admission' \in {p, None})
    /\ route_lock' = route_lock \/ (route_lock \in {p, None} /\ route_lock' \in {p, None})
    /\ \/ file' = file
       \/ /\ route_lock \in {p, None}
          /\ \E f \in Deployments \union {None} : file' = [file EXCEPT ![p] = f]
    /\ live' = live \/ (route_lock = p /\ live' \in {file, file'})
    /\ torn' \in {torn, torn \union {p}, torn \ {p}} /\ woken' \in {woken, woken \union {p}}
    /\ UNCHANGED gc

\* It keeps the invariant if it does so for its own project.
LEMMA LocalKeeps ==
    ASSUME Core, NEW p \in Projects, LocalStep(p), Sound(p)'
    PROVE  Core'
  <1>1. route_lock \in {p, None} => gc.step # "reload"
    BY RuntimeAssumption DEF Core, Locks, GcHolder, AllKinds
  <1>2. Shape'
    BY DEF LocalStep, Dockered, Core, Shape
  <1>3. Locks'
    BY <1>1, RuntimeAssumption DEF LocalStep, Core, Locks, GcHolder, AllKinds
  <1>4. ASSUME NEW q \in Projects \ {p} PROVE Untouched(q)
    <2>1. /\ op'[q] = op[q] /\ file'[q] = file[q]
          /\ (q \in torn' <=> q \in torn) /\ (q \in woken => q \in woken')
      BY DEF LocalStep, Core, Shape
    <2>2. \A d \in Of(q) : container'[d] = container[d]
      BY DEF LocalStep, Dockered, Of
    <2>3. (admission' = q <=> admission = q) /\ (route_lock' = q <=> route_lock = q)
      BY RuntimeAssumption DEF LocalStep
    <2>4. (GcOn(q)' <=> GcOn(q)) /\ gc'.target = gc.target
      BY DEF LocalStep, GcOn
    <2>5. live'[q] = live[q] \/ (live'[q] = file[q] /\ route_lock # q /\ ~GcOn(q))
      BY <1>1, <2>1 DEF LocalStep, GcOn
    <2> QED BY <2>1, <2>2, <2>3, <2>4, <2>5 DEF Untouched
  <1> QED BY <1>2, <1>3, <1>4, Assemble

\* Every step of a command is local to its project, but for the reload.
LEMMA LocalSteps ==
    ASSUME Core, NEW p \in Projects, CommandStep(p) \/ Cancel(p) \/ Abandon(p)
    PROVE  LocalStep(p)
  <1> USE DEF dockerVars, routeVars
  <1>1. Moves(p)
    BY DEF CommandStep, Cancel, Abandon, Build, Admit, EnsureCapacity, StartContainer,
           StartExisting, Restart, RestartEnds, WaitUntilReady, Halt, StopHalfWay, Remove,
           WriteRoute, RemoveRoute, Reload, ReloadFails, RestoreFails, CleanupPrevious, CleanupCandidate, Moves
  <1>2. \E o \in OpType : op' = [op EXCEPT ![p] = o]
    BY <1>1, Moved
  <1>3. op[p].kind # None /\ op[p].dep \in Deployments /\ op[p].previous \in Deployments \union {None}
    <2>1. op[p] # Idle
      BY RuntimeAssumption
      DEF CommandStep, Cancel, Abandon, Build, Admit, EnsureCapacity, StartContainer,
          StartExisting, Restart, RestartEnds, WaitUntilReady, Halt, Remove, WriteRoute,
          RemoveRoute, Reload, ReloadFails, RestoreFails, CleanupPrevious, CleanupCandidate, At, Idle, AllKinds
    <2> QED BY <2>1 DEF Core, Sound, OpSound, Of
  <1>4. op[p].step = "reload" => route_lock = p
    BY DEF Core, Sound, LockSound
  <1>5. UNCHANGED container => Dockered(p)
    BY DEF Dockered, Core, Shape
  <1>6. CASE Build(p)
    BY <1>2, <1>3, <1>4, <1>5, <1>6 DEF LocalStep, Build, At
  <1>7. CASE Admit(p)
    BY <1>2, <1>3, <1>4, <1>5, <1>7 DEF LocalStep, Admit, At
  <1>8. CASE EnsureCapacity(p)
    BY <1>2, <1>3, <1>4, <1>5, <1>8 DEF LocalStep, EnsureCapacity, Freed, At
  <1>9. CASE StartContainer(p)
    <2>1. \E x \in {"stopped", "running"} :
              container' \in {container, [container EXCEPT ![op[p].dep] = x]}
      BY <1>9 DEF StartContainer
    <2>2. Dockered(p)
      BY <1>3, <2>1, DockerCall
    <2> QED BY <1>2, <1>9, <2>2 DEF LocalStep, StartContainer, Freed
  <1>10. CASE StartExisting(p)
    <2>1. container' \in {container, [container EXCEPT ![op[p].dep] = "running"]}
      BY <1>10 DEF StartExisting
    <2>2. Dockered(p)
      BY <1>3, <2>1, DockerCall
    <2> QED BY <1>2, <1>10, <2>2 DEF LocalStep, StartExisting
  <1>11. CASE Restart(p)
    <2>1. container' \in {container, [container EXCEPT ![op[p].dep] = "stopped"]}
      BY <1>11 DEF Restart
    <2>2. Dockered(p)
      BY <1>3, <2>1, DockerCall
    <2> QED BY <1>2, <1>11, <2>2 DEF LocalStep, Restart
  <1>12. CASE WaitUntilReady(p)
    BY <1>2, <1>3, <1>4, <1>5, <1>12 DEF LocalStep, WaitUntilReady, At
  <1>13. CASE Halt(p)
    <2>1. container' \in {container, [container EXCEPT ![op[p].dep] = "stopped"]}
      BY <1>13 DEF Halt, StopHalfWay
    <2>2. Dockered(p)
      BY <1>3, <2>1, DockerCall
    <2> QED BY <1>2, <1>13, <2>2 DEF LocalStep, Halt, StopHalfWay
  <1>14. CASE Remove(p)
    <2>1. container' \in {container, [container EXCEPT ![op[p].dep] = "absent"]}
      BY <1>14 DEF Remove
    <2>2. Dockered(p)
      BY <1>3, <2>1, DockerCall
    <2> QED BY <1>2, <1>14, <2>2 DEF LocalStep, Remove
  <1>15. CASE WriteRoute(p)
    BY <1>2, <1>3, <1>4, <1>5, <1>15 DEF LocalStep, WriteRoute, At
  <1>16. CASE RemoveRoute(p)
    BY <1>2, <1>3, <1>4, <1>5, <1>16 DEF LocalStep, RemoveRoute, At
  <1>17. CASE Reload(p)
    BY <1>2, <1>3, <1>4, <1>5, <1>17 DEF LocalStep, Reload, At
  <1>18. CASE ReloadFails(p)
    BY <1>2, <1>3, <1>4, <1>5, <1>18 DEF LocalStep, ReloadFails, Rollback, At
  <1>19. CASE RestoreFails(p)
    BY <1>2, <1>3, <1>4, <1>5, <1>19 DEF LocalStep, RestoreFails, At
  <1>20. CASE CleanupPrevious(p)
    <2>1. Dockered(p)
      BY <1>20 DEF CleanupPrevious, Dockered, Core, Shape
    <2> QED BY <1>2, <1>20, <2>1 DEF LocalStep, CleanupPrevious
  <1>21. CASE CleanupCandidate(p)
    <2>1. container' \in {container, [container EXCEPT ![op[p].dep] = "absent"]}
      BY <1>21 DEF CleanupCandidate
    <2>2. Dockered(p)
      BY <1>3, <2>1, DockerCall
    <2> QED BY <1>2, <1>21, <2>2 DEF LocalStep, CleanupCandidate, Freed
  <1>22. CASE Cancel(p)
    BY <1>2, <1>3, <1>4, <1>5, <1>22 DEF LocalStep, Cancel, At
  <1>23. CASE Abandon(p)
    BY <1>2, <1>3, <1>4, <1>5, <1>23 DEF LocalStep, Abandon, Freed, At
  <1>24. CASE RestartEnds(p)
    <2>1. container' \in {container, [container EXCEPT ![op[p].dep] = "running"]}
      BY <1>24 DEF RestartEnds
    <2>2. Dockered(p)
      BY <1>3, <2>1, DockerCall
    <2> QED BY <1>2, <1>24, <2>2 DEF LocalStep, RestartEnds
  <1> QED BY <1>6, <1>7, <1>8, <1>9, <1>10, <1>11, <1>12, <1>13, <1>14, <1>15, <1>16, <1>17,
             <1>18, <1>19, <1>20, <1>21, <1>22, <1>23, <1>24
          DEF CommandStep

\* Every step of a command leaves its own project sound, one by one.
LEMMA OwnSteps ==
    ASSUME Core, NEW p \in Projects, CommandStep(p) \/ Cancel(p) \/ Abandon(p)
    PROVE  Sound(p)'
  <1> USE DEF dockerVars, routeVars, OpSound, LockSound, DepRuns, FileSound, Synced, Served,
              RestartSound, GcOn, StepsOf, Activators, Deactivators, Of
  <1>1. CASE Build(p)
    BY <1>1, RuntimeAssumption
    DEF Core, Shape, Locks, Sound, Build, At, Goto, OnError, OpType, AllKinds, Idle, GcHolder
  <1>2. CASE Admit(p)
    BY <1>2, RuntimeAssumption
    DEF Core, Shape, Locks, Sound, Admit, At, Goto, OnError, OpType, AllKinds, Idle, GcHolder
  <1>3. CASE EnsureCapacity(p)
    BY <1>3, RuntimeAssumption
    DEF Core, Shape, Locks, Sound, EnsureCapacity, At, Goto, OnError, Freed, OpType, AllKinds,
        Idle, GcHolder
  <1>4. CASE StartContainer(p)
    BY <1>4, RuntimeAssumption
    DEF Core, Shape, Locks, Sound, StartContainer, At, Goto, OnError, Freed, OpType, AllKinds,
        Idle, GcHolder
  <1>5. CASE StartExisting(p)
    <2>1. CASE Goto(p, "ready")
      BY <1>5, <2>1, RuntimeAssumption
      DEF Core, Shape, Locks, Sound, StartExisting, At, Goto, OnError, OpType, AllKinds, Idle,
          GcHolder
    <2>2. CASE OnError(p)
      BY <1>5, <2>2, RuntimeAssumption
      DEF Core, Shape, Locks, Sound, StartExisting, At, Goto, OnError, OpType, AllKinds, Idle,
          GcHolder
    <2> QED BY <1>5, <2>1, <2>2 DEF StartExisting
  <1>6. CASE Restart(p)
    <2>1. CASE Goto(p, "restart")
      BY <1>6, <2>1, RuntimeAssumption
      DEF Core, Shape, Locks, Sound, Restart, At, Goto, OnError, OpType, AllKinds, Idle,
          GcHolder
    <2>2. CASE OnError(p)
      BY <1>6, <2>2, RuntimeAssumption
      DEF Core, Shape, Locks, Sound, Restart, At, Goto, OnError, OpType, AllKinds, Idle,
          GcHolder
    <2> QED BY <1>6, <2>1, <2>2 DEF Restart
  <1>7. CASE WaitUntilReady(p)
    <2>1. CASE Goto(p, "route")
      BY <1>7, <2>1, RuntimeAssumption
      DEF Core, Shape, Locks, Sound, WaitUntilReady, At, Goto, OnError, OpType, AllKinds, Idle,
          GcHolder
    <2>2. CASE OnError(p)
      BY <1>7, <2>2, RuntimeAssumption
      DEF Core, Shape, Locks, Sound, WaitUntilReady, At, Goto, OnError, OpType, AllKinds, Idle,
          GcHolder
    <2> QED BY <1>7, <2>1, <2>2 DEF WaitUntilReady
  <1>8. CASE Halt(p)
    BY <1>8, RuntimeAssumption
    DEF Core, Shape, Locks, Sound, Halt, At, Goto, OnError, StopHalfWay, OpType, AllKinds, Idle,
        GcHolder
  <1>9. CASE Remove(p)
    BY <1>9, RuntimeAssumption
    DEF Core, Shape, Locks, Sound, Remove, At, OpType, AllKinds, Idle, GcHolder
  <1>10. CASE WriteRoute(p)
    BY <1>10, RuntimeAssumption
    DEF Core, Shape, Locks, Sound, WriteRoute, At, OpType, AllKinds, Idle, GcHolder
  <1>11. CASE RemoveRoute(p)
    <2>1. CASE OwnsRoute(p, op[p].dep)
      <3>1. /\ op[p].kind \in {"stop", "sleep"} /\ op[p].step = "route" /\ route_lock = None
            /\ file[p] = op[p].dep /\ op[p].kind # None
        BY <1>11, <2>1, RuntimeAssumption DEF RemoveRoute, At, OwnsRoute, AllKinds
      <3>2. Sound(p) /\ gc.step # "reload"
        BY <3>1, RuntimeAssumption DEF Core, Locks, GcHolder, AllKinds
      <3>3. /\ op'[p].kind = op[p].kind /\ op'[p].dep = op[p].dep /\ op'[p].step = "reload"
            /\ op'[p].previous = op[p].dep
            /\ file'[p] = None /\ route_lock' = p
            /\ UNCHANGED <<container, live, torn, admission, gc>>
        BY <1>11, <2>1, <3>1 DEF RemoveRoute, Core, Shape, OpType
      <3>4. OpSound(p)' /\ LockSound(p)'
        BY <3>1, <3>2, <3>3 DEF Sound
      <3>5. DepRuns(p)' /\ FileSound(p)' /\ Synced(p)' /\ Served(p)' /\ RestartSound(p)'
        BY <3>1, <3>2, <3>3, RuntimeAssumption DEF Sound
      <3> QED BY <3>4, <3>5 DEF Sound
    <2>2. CASE ~OwnsRoute(p, op[p].dep)
      BY <1>11, <2>2, RuntimeAssumption
      DEF Core, Shape, Locks, Sound, RemoveRoute, At, Proceed, AfterRoute, OwnsRoute, OpType,
          AllKinds, Idle, GcHolder
    <2> QED BY <1>11, <2>1, <2>2 DEF RemoveRoute
  <1>12. CASE Reload(p)
    BY <1>12, RuntimeAssumption
    DEF Core, Shape, Locks, Sound, Reload, At, Proceed, AfterRoute, OpType, AllKinds, Idle,
        GcHolder
  <1>13. CASE ReloadFails(p)
    BY <1>13, RuntimeAssumption
    DEF Core, Shape, Locks, Sound, ReloadFails, At, OnError, Rollback, OpType, AllKinds, Idle,
        GcHolder
  <1>14. CASE RestoreFails(p)
    BY <1>14, RuntimeAssumption
    DEF Core, Shape, Locks, Sound, RestoreFails, At, OnError, OpType, AllKinds, Idle, GcHolder
  <1>15. CASE CleanupPrevious(p)
    BY <1>15, RuntimeAssumption
    DEF Core, Shape, Locks, Sound, CleanupPrevious, At, Running, OpType, AllKinds, Idle, GcHolder
  <1>16. CASE CleanupCandidate(p)
    BY <1>16, RuntimeAssumption
    DEF Core, Shape, Locks, Sound, CleanupCandidate, At, Freed, OpType, AllKinds, Idle, GcHolder
  <1>17. CASE Cancel(p)
    BY <1>17, RuntimeAssumption
    DEF Core, Shape, Locks, Sound, Cancel, At, Goto, OpType, AllKinds, Idle, GcHolder
  <1>18. CASE Abandon(p)
    BY <1>18, RuntimeAssumption
    DEF Core, Shape, Locks, Sound, Abandon, Freed, OpType, AllKinds, Idle, GcHolder
  <1>19. CASE RestartEnds(p)
    <2>1. CASE Goto(p, "ready")
      BY <1>19, <2>1, RuntimeAssumption
      DEF Core, Shape, Locks, Sound, RestartEnds, At, Goto, OnError, OpType, AllKinds, Idle,
          GcHolder
    <2>2. CASE OnError(p)
      BY <1>19, <2>2, RuntimeAssumption
      DEF Core, Shape, Locks, Sound, RestartEnds, At, Goto, OnError, OpType, AllKinds, Idle,
          GcHolder
    <2> QED BY <1>19, <2>1, <2>2 DEF RestartEnds
  <1> QED BY <1>1, <1>2, <1>3, <1>4, <1>5, <1>6, <1>7, <1>8, <1>9, <1>10, <1>11, <1>12, <1>13,
             <1>14, <1>15, <1>16, <1>17, <1>18, <1>19
          DEF CommandStep

\* A command starts.
LEMMA BeginCore ==
    ASSUME Core, NEW p \in Projects, NEW d \in Deployments, NEW k \in AllKinds, Begin(p, d, k)
    PROVE  Core'
  <1> USE DEF dockerVars, routeVars
  <1>1. /\ op[p] = Idle /\ k \in Kinds \ {"gc"} /\ DeploymentProject[d] = p
        /\ UNCHANGED <<container, file, live, route_lock, torn, admission, gc, woken>>
    BY DEF Begin
  <1>2. PICK x \in {"build", "route", "halt", "launch", "ready", "remove"} :
            /\ op' = [op EXCEPT ![p] = [kind |-> k, dep |-> d, step |-> x, previous |-> None]]
            /\ k = "deploy" => x = "build" /\ container[d] = "absent"
            /\ k = "stop" => x \in {"route", "halt"}
            /\ k = "sleep" => x = "halt"
            /\ k \in {"wake", "restart"} => x = "launch"
            /\ k = "restart" => container[d] = "running"
            /\ k = "refresh" => x = "ready" /\ container[d] = "running"
            /\ k = "remove" => x = "remove" /\ container[d] = "stopped"
    BY DEF Begin, DeployAccepted, CleanupAccepted, RestoreAccepted
  <1> DEFINE o == [kind |-> k, dep |-> d, step |-> x, previous |-> None]
  <1>3. o \in OpType /\ op' = [op EXCEPT ![p] = o] /\ op'[p] = o
    <2>1. o \in OpType
      BY <1>1 DEF OpType
    <2>2. op' = [op EXCEPT ![p] = o] /\ op \in [Projects -> OpType]
      BY <1>2 DEF Core, Shape
    <2> HIDE DEF o
    <2> QED BY <2>1, <2>2
  <1>4. LocalStep(p)
    BY <1>1, <1>3 DEF LocalStep, Dockered, Core, Shape
  <1>5. /\ Sound(p) /\ op'[p].kind = k /\ op'[p].dep = d /\ op'[p].step = x /\ op'[p].previous = None
        /\ op[p].kind = None /\ op[p].step = "idle" /\ k # None /\ d \in Of(p)
    BY <1>1, <1>3, RuntimeAssumption DEF Core, Idle, AllKinds, Of
  <1> HIDE DEF o
  <1>6. OpSound(p)'
    BY <1>1, <1>2, <1>5 DEF OpSound, Of, StepsOf, AllKinds
  <1>7. LockSound(p)' /\ DepRuns(p)'
    BY <1>1, <1>2, <1>5, RuntimeAssumption DEF Sound, LockSound, DepRuns, Activators
  <1>8. FileSound(p)' /\ Synced(p)'
    BY <1>1, <1>2, <1>5 DEF Sound, FileSound, Synced, LockSound, GcOn, Of
  <1>9. Served(p)'
    BY <1>1, <1>2, <1>5, RuntimeAssumption DEF Sound, Served, Deactivators, AllKinds
  <1>10. Sound(p)'
    BY <1>2, <1>5, <1>6, <1>7, <1>8, <1>9 DEF Sound, RestartSound
  <1> QED BY <1>4, <1>10, LocalKeeps

\* A cleanup that changes no route only remembers what it saw.
LEMMA GcLooks ==
    ASSUME Core, gc' \in GcType, gc.step # "reload", gc'.step # "reload",
           UNCHANGED <<dockerVars, routeVars, op, admission>>
    PROVE  Core'
  <1> USE DEF dockerVars, routeVars
  <1>1. Shape' /\ Locks'
    BY DEF Core, Shape, Locks
  <1>2. ASSUME NEW q \in Projects PROVE Untouched(q)
    BY DEF Untouched, GcOn
  <1> QED BY <1>1, <1>2, Frame DEF Core

\* A cleanup that changes the route of p.
GcTouches(p) ==
    /\ UNCHANGED <<dockerVars, op, admission>> /\ gc' \in GcType
    /\ route_lock \in {None, GcHolder} /\ route_lock' \in {None, GcHolder}
    /\ route_lock' = GcHolder <=> gc'.step = "reload"
    /\ gc.step = "reload" => DeploymentProject[gc.target] = p
    /\ gc'.step = "reload" => gc'.target \in Of(p)
    /\ \E f \in Deployments \union {None} : file' = [file EXCEPT ![p] = f]
    /\ live' \in {live, file, file'}
    /\ torn' \in {torn, torn \union {p}, torn \ {p}}

\* A change of one route by the cleanup leaves the other projects alone.
LEMMA GcTouchKeeps ==
    ASSUME Core, NEW p \in Projects, GcTouches(p), Sound(p)'
    PROVE  Core'
  <1> USE DEF dockerVars
  <1>1. Shape'
    BY DEF GcTouches, Core, Shape
  <1>2. Locks'
    BY DEF GcTouches, Core, Locks, Of
  <1>3. ASSUME NEW q \in Projects \ {p} PROVE Untouched(q)
    <2>1. /\ op'[q] = op[q] /\ file'[q] = file[q]
          /\ q \in torn' <=> q \in torn
          /\ UNCHANGED <<container, woken, admission>>
      BY DEF GcTouches, Core, Shape
    <2>2. route_lock # q /\ route_lock' # q
      BY RuntimeAssumption DEF GcTouches
    <2>3. ~GcOn(q) /\ ~GcOn(q)'
      BY DEF GcTouches, GcOn, Of
    <2>4. live'[q] \in {live[q], file[q]}
      BY <2>1 DEF GcTouches
    <2> QED BY <2>1, <2>2, <2>3, <2>4 DEF Untouched
  <1> QED BY <1>1, <1>2, <1>3, Assemble

\* The cleanup takes the route lock and deletes a site file.
LEMMA GcRemoveCore ==
    ASSUME Core, NEW d \in Deployments, GcRemove(d)
    PROVE  Core'
  <1> DEFINE p == DeploymentProject[d]
  <1>0. p \in Projects /\ d \in Of(p) /\ gc \in GcType
    BY RuntimeAssumption DEF Of, Core, Locks
  <1>1. /\ gc.step = "remove" /\ route_lock = None
        /\ UNCHANGED <<dockerVars, live, torn, op, admission>>
    BY DEF GcRemove
  <1>2. CASE OwnsRoute(p, d)
    <2>1. /\ route_lock' = GcHolder /\ file' = [file EXCEPT ![p] = None] /\ file[p] = d
          /\ gc' = [gc EXCEPT !.step = "reload", !.target = d, !.stale = @ \ {d}]
      BY <1>2 DEF GcRemove, OwnsRoute
    <2>2. gc' \in GcType /\ gc'.step = "reload" /\ gc'.target = d
      BY <1>0, <2>1 DEF GcType
    <2>3. GcTouches(p)
      BY <1>0, <1>1, <2>1, <2>2 DEF GcTouches
    <2>4. /\ op'[p] = op[p] /\ file'[p] = None /\ live'[p] = live[p]
          /\ UNCHANGED <<container, woken, torn, admission>>
          /\ route_lock # p /\ route_lock' # p /\ ~GcOn(p) /\ GcOn(p)'
          /\ Sound(p)
      BY <1>0, <1>1, <2>1, <2>2, RuntimeAssumption DEF Core, Shape, GcOn, dockerVars
    <2> HIDE DEF p
    <2>5. OpSound(p)' /\ LockSound(p)' /\ DepRuns(p)' /\ RestartSound(p)'
      BY <2>4 DEF Sound, OpSound, LockSound, DepRuns, RestartSound
    <2>6. FileSound(p)'
      BY <2>1, <2>2, <2>4, RuntimeAssumption DEF Sound, FileSound, LockSound, Of
    <2>7. Synced(p)' /\ Served(p)'
      BY <2>1, <2>2, <2>4 DEF Sound, Synced, Served, LockSound
    <2>8. Sound(p)'
      BY <2>5, <2>6, <2>7 DEF Sound
    <2> QED BY <1>0, <2>3, <2>8, GcTouchKeeps
  <1>3. CASE ~OwnsRoute(p, d)
    <2>1. gc' = [gc EXCEPT !.stale = @ \ {d}] /\ UNCHANGED <<file, route_lock>>
      BY <1>3 DEF GcRemove
    <2>2. gc' \in GcType /\ gc'.step = "remove"
      BY <1>0, <1>1, <2>1 DEF GcType
    <2> QED BY <1>1, <2>1, <2>2, GcLooks DEF routeVars
  <1> QED BY <1>2, <1>3

\* The cleanup reloads Caddy, fails and restores the file, or is dropped.
LEMMA GcReloadCore ==
    ASSUME Core, GcReload \/ (GcAbandon /\ gc.step = "reload")
    PROVE  Core'
  <1>1. gc.step = "reload" /\ gc.target \in Deployments
    BY DEF GcReload, Core, Locks
  <1>2. PICK p \in Projects : p = DeploymentProject[gc.target]
    BY <1>1, RuntimeAssumption
  <1>3. GcIdle \in GcType /\ GcIdle.step = "idle"
    BY DEF GcIdle, GcType
  <1>4. /\ gc.step = "reload" /\ gc.target \in Of(p) /\ p \in Projects /\ gc \in GcType
        /\ route_lock = GcHolder /\ GcOn(p)
    BY <1>1, <1>2 DEF Core, Locks, Of, GcOn
  <1>5. /\ route_lock' = None /\ UNCHANGED <<dockerVars, op, admission>>
        /\ gc' \in GcType /\ gc'.step # "reload"
        /\ \/ live' = file /\ torn' = torn \ {p} /\ file' = file
           \/ /\ file' = [file EXCEPT ![p] = gc.target] /\ live' \in {live, file', file}
              /\ torn' = IF live'[p] # file'[p] THEN torn \union {p} ELSE torn
           \/ live' \in {live, file} /\ torn' = torn \union {p} /\ file' = file
    <2>1. [gc EXCEPT !.step = "remove", !.target = None] \in GcType
      BY <1>4 DEF GcType
    <2>2. CASE GcReload
      BY <1>3, <1>2, <1>4, <2>1, <2>2 DEF GcReload, Rollback, GcType
    <2>3. CASE GcAbandon
      BY <1>3, <1>2, <1>4, <2>3 DEF GcAbandon, Freed
    <2> QED BY <2>2, <2>3
  <1>6. GcTouches(p)
    <2>1. file' = file => file' = [file EXCEPT ![p] = file[p]]
      BY <1>4 DEF Core, Shape
    <2>2. file[p] \in Deployments \union {None} /\ gc.target \in Deployments
      BY <1>4 DEF Core, Shape, Of
    <2>3. None # GcHolder
      BY RuntimeAssumption DEF GcHolder, AllKinds
    <2> QED BY <1>2, <1>4, <1>5, <2>1, <2>2, <2>3 DEF GcTouches
  <1>7. /\ op'[p] = op[p] /\ UNCHANGED <<container, woken, admission>>
        /\ route_lock # p /\ route_lock' # p /\ ~GcOn(p)' /\ Sound(p)
    BY <1>4, <1>5, RuntimeAssumption DEF Core, Locks, GcOn, dockerVars
  <1>8. /\ file[p] = None
        /\ \/ live'[p] = None /\ file'[p] = None /\ p \notin torn'
           \/ /\ file'[p] = gc.target /\ live'[p] \in {live[p], gc.target, None}
              /\ p \notin torn' => p \notin torn /\ live'[p] = gc.target
           \/ live'[p] \in {live[p], None} /\ p \in torn' /\ file'[p] = None
    <2>1. file[p] = None
      BY <1>4, <1>7 DEF Sound, FileSound
    <2>2. p \in DOMAIN file
      BY <1>4 DEF Core, Shape
    <2> QED BY <1>5, <2>1, <2>2
  <1>9. OpSound(p)' /\ LockSound(p)' /\ DepRuns(p)' /\ RestartSound(p)'
    BY <1>7 DEF Sound, OpSound, LockSound, DepRuns, RestartSound
  <1>10. FileSound(p)'
    BY <1>4, <1>7, <1>8 DEF Sound, FileSound, LockSound, Of
  <1>11. Synced(p)' /\ Served(p)'
    BY <1>4, <1>7, <1>8 DEF Sound, Synced, Served, LockSound
  <1>12. Sound(p)'
    BY <1>9, <1>10, <1>11 DEF Sound
  <1> QED BY <1>4, <1>6, <1>12, GcTouchKeeps

\* Every step keeps the projects sound.
LEMMA CoreStep ==
    ASSUME Core, [Next]_vars
    PROVE  Core'
  <1>1. ASSUME NEW p \in Projects, CommandStep(p) \/ Cancel(p) \/ Abandon(p) PROVE Core'
    BY <1>1, LocalSteps, OwnSteps, LocalKeeps
  <1>2. ASSUME NEW p \in Projects, NEW d \in Deployments, NEW k \in AllKinds, Begin(p, d, k)
        PROVE  Core'
    BY <1>2, BeginCore
  <1>3. gc \in GcType /\ GcIdle \in GcType
    BY DEF Core, Locks, GcIdle, GcType
  <1>4. CASE GcBegin
    <2>1. gc' = [gc EXCEPT !.step = "discover", !.known = Running] /\ gc.step = "idle"
      BY <1>4 DEF GcBegin, GcIdle, KnownRoutes
    <2>2. gc' \in GcType /\ gc'.step = "discover"
      BY <1>3, <2>1 DEF GcType, Running
    <2> QED BY <1>4, <2>1, <2>2, GcLooks DEF GcBegin
  <1>5. CASE GcDiscover
    <2> DEFINE S == {d \in Deployments : file[DeploymentProject[d]] = d /\ d \notin gc.known}
    <2>1. gc' = [gc EXCEPT !.step = "remove", !.known = {}, !.stale = S] /\ gc.step = "discover"
      BY <1>5 DEF GcDiscover
    <2>2. S \in SUBSET Deployments
      OBVIOUS
    <2> HIDE DEF S
    <2>3. gc' \in GcType /\ gc'.step = "remove"
      BY <1>3, <2>1, <2>2 DEF GcType
    <2> QED BY <1>5, <2>1, <2>3, GcLooks DEF GcDiscover
  <1>6. ASSUME NEW d \in Deployments, GcRemove(d) PROVE Core'
    BY <1>6, GcRemoveCore
  <1>7. CASE GcReload
    BY <1>7, GcReloadCore
  <1>8. CASE GcEnd
    BY <1>3, <1>8, GcLooks DEF GcEnd, GcIdle
  <1>9. CASE GcAbandon
    <2>1. CASE gc.step = "reload"
      BY <1>9, <2>1, GcReloadCore
    <2>2. CASE gc.step # "reload"
      <3>1. route_lock # GcHolder
        BY <2>2 DEF Core, Locks
      <3>2. UNCHANGED <<dockerVars, routeVars, op, admission>> /\ gc' = GcIdle
        BY <1>9, <2>2, <3>1 DEF GcAbandon, Freed, routeVars
      <3> QED BY <1>3, <2>2, <3>2, GcLooks DEF GcIdle
    <2> QED BY <2>1, <2>2
  <1>10. CASE Still
    <2>1. Shape' /\ Locks'
      BY <1>10 DEF Still, dockerVars, routeVars, Core, Shape, Locks
    <2>2. ASSUME NEW q \in Projects PROVE Untouched(q)
      BY <1>10 DEF Still, dockerVars, routeVars, Untouched, GcOn
    <2> QED BY <2>1, <2>2, Frame DEF Core
  <1> QED BY <1>1, <1>2, <1>4, <1>5, <1>6, <1>7, <1>8, <1>9, <1>10, Steps DEF GcStep

------------------------------------------------------------------------------
(* The limit on running projects. *)

\* There are no more counted projects than running containers.
LEMMA CountedBounded ==
    ASSUME IsFiniteSet(Running)
    PROVE  /\ IsFiniteSet(Counted) /\ Cardinality(Counted) <= Cardinality(Running)
           /\ Cardinality(Counted) \in Nat /\ Cardinality(Running) \in Nat
  <1> DEFINE f == [d \in Running |-> DeploymentProject[d]]
             T == {DeploymentProject[d] : d \in Running}
  <1>1. f \in Surjection(Running, T)
    BY DEF Surjection
  <1>2. Counted \subseteq T
    BY DEF Counted, ActiveIn, Of
  <1> HIDE DEF f, T
  <1>3. IsFiniteSet(T) /\ Cardinality(T) <= Cardinality(Running)
    BY <1>1, FS_Surjection
  <1>4. IsFiniteSet(Counted) /\ Cardinality(Counted) <= Cardinality(T)
    BY <1>2, <1>3, FS_Subset
  <1>5. /\ Cardinality(Counted) \in Nat /\ Cardinality(T) \in Nat
        /\ Cardinality(Running) \in Nat
    BY <1>3, <1>4, FS_CardinalityType
  <1> QED BY <1>3, <1>4, <1>5

\* The other projects keep their containers and their place.
LEMMA OthersActive ==
    ASSUME Core, NEW p \in Projects, LocalStep(p), NEW q \in Projects \ {p}
    PROVE  op'[q] = op[q] /\ ActiveIn(q)' = ActiveIn(q)
  <1>1. op'[q] = op[q]
    BY DEF LocalStep, Core, Shape
  <1>2. \A d \in Of(q) : container'[d] = container[d]
    BY DEF LocalStep, Dockered, Of
  <1> QED BY <1>1, <1>2 DEF ActiveIn, Running, Of

\* A step that starts no container and admits nobody.
LEMMA QuietStep ==
    ASSUME Core, Limited, NEW p \in Projects, LocalStep(p),
           Running' \subseteq Running, op'[p].step # "run", UNCHANGED woken
    PROVE  Limited'
  <1>1. IsFiniteSet(Running')
    BY FS_Subset DEF Limited
  <1>2. Counted' \subseteq Counted
    BY DEF Counted, ActiveIn, Of
  <1>3. /\ Cardinality(Counted') <= Cardinality(Counted)
        /\ Cardinality(Counted') \in Nat /\ Cardinality(Counted) \in Nat
    BY <1>1, <1>2, CountedBounded, FS_Subset, FS_CardinalityType DEF Limited
  <1>4. ASSUME NEW q \in Projects, op'[q].step = "run"
        PROVE  q \in woken' \/ ActiveIn(q)' # {} \/ Cardinality(Counted') < MaxActive
    BY <1>3, <1>4, OthersActive, RuntimeAssumption DEF Limited
  <1> QED BY <1>1, <1>3, <1>4, RuntimeAssumption DEF Limited

\* The count under the admission lock.
LEMMA CheckStep ==
    ASSUME Core, Limited, NEW p \in Projects, LocalStep(p), EnsureCapacity(p)
    PROVE  Limited'
  <1>1. UNCHANGED <<container, woken>>
    BY DEF EnsureCapacity, dockerVars
  <1>2. Running' = Running /\ Counted' = Counted
    BY <1>1 DEF Running, Counted, ActiveIn
  <1>3. CASE HasCapacity(p)
    <2>1. ActiveIn(p) # {} \/ Cardinality(Counted) < MaxActive
      BY <1>3, CountedBounded, RuntimeAssumption DEF HasCapacity, Limited
    <2>2. ASSUME NEW q \in Projects, op'[q].step = "run"
          PROVE  q \in woken' \/ ActiveIn(q)' # {} \/ Cardinality(Counted') < MaxActive
      <3>1. CASE q = p
        BY <1>1, <1>2, <2>1, <3>1 DEF ActiveIn
      <3>2. CASE q # p
        BY <1>1, <1>2, <2>2, <3>2, OthersActive DEF Limited
      <3> QED BY <3>1, <3>2
    <2> QED BY <1>2, <2>2 DEF Limited
  <1>4. CASE ~HasCapacity(p)
    <2>1. OnError(p) /\ At(p, {"deploy"}, "check")
      BY <1>4 DEF EnsureCapacity
    <2>2. op'[p].step # "run"
      BY <2>1 DEF OnError, At, Core, Shape, OpType
    <2> QED BY <1>1, <1>2, <2>2, QuietStep
  <1> QED BY <1>3, <1>4

\* The start it admits: nobody else is between the count and its start.
LEMMA StartStep ==
    ASSUME Core, Core', Limited, NEW p \in Projects, LocalStep(p), StartContainer(p)
    PROVE  Limited'
  <1>1. op[p].step = "run" /\ admission = p /\ admission' = None /\ op[p].dep \in Of(p)
    <2>1. op[p].kind = "deploy" /\ op[p].step = "run" /\ op[p].kind # None
      BY RuntimeAssumption DEF StartContainer, At, AllKinds
    <2>2. admission = p /\ op[p].dep \in Of(p)
      BY <2>1 DEF Core, Sound, LockSound, OpSound
    <2> QED BY <2>1, <2>2 DEF StartContainer, Freed
  <1>2. ASSUME NEW q \in Projects PROVE op'[q].step # "run"
    BY <1>1, RuntimeAssumption DEF Core, Sound, LockSound
  <1>3. CASE Running' \subseteq Running
    BY <1>2, <1>3, QuietStep DEF StartContainer
  <1>4. CASE container' = [container EXCEPT ![op[p].dep] = "running"]
    <2>1. Running' = Running \union {op[p].dep} /\ UNCHANGED woken
      BY <1>1, <1>4 DEF Running, Core, Shape, StartContainer, Of
    <2>2. IsFiniteSet(Running')
      BY <2>1, FS_AddElement DEF Limited
    <2>3. IsFiniteSet(Counted) /\ Cardinality(Counted) \in Nat
      BY CountedBounded DEF Limited
    <2>4. Counted' \subseteq Counted \union {p}
      BY <2>1, OthersActive DEF Counted
    <2>5. Cardinality(Counted') <= MaxActive
      <3>1. CASE p \in woken \/ ActiveIn(p) # {}
        <4>1. Counted' \subseteq Counted
          BY <2>1, <2>4, <3>1 DEF Counted
        <4>2. Cardinality(Counted') <= Cardinality(Counted) /\ Cardinality(Counted') \in Nat
          BY <2>3, <4>1, FS_Subset, FS_CardinalityType
        <4> QED BY <2>3, <4>2, RuntimeAssumption DEF Limited
      <3>2. CASE Cardinality(Counted) < MaxActive
        <4> DEFINE T == Counted \union {p}
        <4>1. IsFiniteSet(T) /\ Cardinality(T) <= Cardinality(Counted) + 1
          BY <2>3, FS_AddElement
        <4>2. /\ Cardinality(Counted') <= Cardinality(T)
              /\ Cardinality(Counted') \in Nat /\ Cardinality(T) \in Nat
          BY <2>4, <4>1, FS_Subset, FS_CardinalityType
        <4> HIDE DEF T
        <4> QED BY <2>3, <3>2, <4>1, <4>2, RuntimeAssumption
      <3> QED BY <1>1, <3>1, <3>2 DEF Limited
    <2> QED BY <1>2, <2>2, <2>5 DEF Limited
  <1>5. CASE container' \in {container, [container EXCEPT ![op[p].dep] = "stopped"]}
    <2>1. Running' \subseteq Running
      BY <1>1, <1>5 DEF Running, Core, Shape, Of
    <2> QED BY <2>1, <1>3
  <1> QED BY <1>4, <1>5 DEF StartContainer

\* A project that is woken or restarted is not counted any more.
LEMMA WakeStep ==
    ASSUME Core, Limited, NEW p \in Projects, LocalStep(p),
           StartExisting(p) \/ Restart(p) \/ (RestartEnds(p) /\ p \in woken)
    PROVE  Limited'
  <1>1. woken' = woken \union {p}
    BY DEF StartExisting, Restart, RestartEnds
  <1>2. Running' \subseteq Running \union {op[p].dep}
    BY DEF StartExisting, Restart, RestartEnds, Running, Core, Shape
  <1>3. IsFiniteSet(Running')
    <2>1. IsFiniteSet(Running \union {op[p].dep})
      BY FS_AddElement DEF Limited
    <2> QED BY <1>2, <2>1, FS_Subset
  <1>4. Counted' \subseteq Counted
    BY <1>1, OthersActive DEF Counted
  <1>5. /\ Cardinality(Counted') <= Cardinality(Counted)
        /\ Cardinality(Counted') \in Nat /\ Cardinality(Counted) \in Nat
    BY <1>3, <1>4, CountedBounded, FS_Subset, FS_CardinalityType DEF Limited
  <1>6. ASSUME NEW q \in Projects, op'[q].step = "run"
        PROVE  q \in woken' \/ ActiveIn(q)' # {} \/ Cardinality(Counted') < MaxActive
    BY <1>1, <1>5, <1>6, OthersActive, RuntimeAssumption DEF Limited
  <1> QED BY <1>3, <1>5, <1>6, RuntimeAssumption DEF Limited

\* Every step keeps the limit: only the steps above start a container.
LEMMA LimitStep ==
    ASSUME Core, Core', Limited, [Next]_vars
    PROVE  Limited'
  <1> USE DEF dockerVars, routeVars
  <1>0. op \in [Projects -> OpType]
    BY DEF Core, Shape
  <1>1. UNCHANGED container => Running' = Running
    BY DEF Running
  <1>2. ASSUME NEW p \in Projects, NEW x \in {"absent", "stopped"},
               container' \in {container, [container EXCEPT ![op[p].dep] = x]}
        PROVE  Running' \subseteq Running
    BY <1>2 DEF Running, Core, Shape
  <1>3. ASSUME NEW p \in Projects, Build(p), LocalStep(p) PROVE Limited'
    <2>1. op'[p].step # "run" /\ UNCHANGED woken
      BY <1>0, <1>3 DEF Build, At, Goto, OnError, OpType
    <2> QED BY <1>1, <1>3, <2>1, QuietStep DEF Build
  <1>4. ASSUME NEW p \in Projects, Admit(p), LocalStep(p) PROVE Limited'
    <2>1. op'[p].step # "run" /\ UNCHANGED woken
      BY <1>0, <1>4 DEF Admit, At, Goto, OnError, OpType
    <2> QED BY <1>1, <1>4, <2>1, QuietStep DEF Admit
  <1>5. ASSUME NEW p \in Projects, RestartEnds(p), LocalStep(p) PROVE Limited'
    <2>1. p \in woken
      BY <1>5, RuntimeAssumption DEF RestartEnds, At, Core, Sound, RestartSound
    <2> QED BY <1>5, <2>1, WakeStep
  <1>6. ASSUME NEW p \in Projects, WaitUntilReady(p), LocalStep(p) PROVE Limited'
    <2>1. op'[p].step # "run" /\ UNCHANGED woken
      BY <1>0, <1>6 DEF WaitUntilReady, At, Goto, OnError, Idle, OpType
    <2> QED BY <1>1, <1>6, <2>1, QuietStep DEF WaitUntilReady
  <1>7. ASSUME NEW p \in Projects, Halt(p), LocalStep(p) PROVE Limited'
    <2>1. op'[p].step # "run" /\ UNCHANGED woken
      BY <1>0, <1>7 DEF Halt, At, Goto, OnError, StopHalfWay, Idle, OpType
    <2>2. container' \in {container, [container EXCEPT ![op[p].dep] = "stopped"]}
      BY <1>7 DEF Halt, StopHalfWay
    <2>3. Running' \subseteq Running
      BY <1>2, <2>2
    <2> QED BY <1>7, <2>1, <2>3, QuietStep
  <1>8. ASSUME NEW p \in Projects, Remove(p), LocalStep(p) PROVE Limited'
    <2>1. op'[p].step # "run" /\ UNCHANGED woken
      BY <1>0, <1>8 DEF Remove, At, Idle, OpType
    <2>2. container' \in {container, [container EXCEPT ![op[p].dep] = "absent"]}
      BY <1>8 DEF Remove
    <2>3. Running' \subseteq Running
      BY <1>2, <2>2
    <2> QED BY <1>8, <2>1, <2>3, QuietStep
  <1>9. ASSUME NEW p \in Projects, WriteRoute(p), LocalStep(p) PROVE Limited'
    <2>1. op'[p].step # "run" /\ UNCHANGED woken
      BY <1>0, <1>9 DEF WriteRoute, At, OpType
    <2> QED BY <1>1, <1>9, <2>1, QuietStep DEF WriteRoute
  <1>10. ASSUME NEW p \in Projects, RemoveRoute(p), LocalStep(p) PROVE Limited'
    <2>1. op'[p].step # "run" /\ UNCHANGED woken
      <3>1. AfterRoute(p) # "run"
        BY DEF AfterRoute
      <3>2. CASE Proceed(p)
        BY <1>0, <3>1, <3>2, <1>10 DEF RemoveRoute, Proceed, Idle, OpType
      <3>3. CASE ~Proceed(p)
        BY <1>0, <3>3, <1>10 DEF RemoveRoute, OpType
      <3> QED BY <3>2, <3>3
    <2> QED BY <1>1, <1>10, <2>1, QuietStep DEF RemoveRoute
  <1>11. ASSUME NEW p \in Projects, Reload(p), LocalStep(p) PROVE Limited'
    <2>1. op'[p].step # "run" /\ UNCHANGED woken
      BY <1>0, <1>11 DEF Reload, At, Proceed, AfterRoute, Idle, OpType
    <2> QED BY <1>1, <1>11, <2>1, QuietStep DEF Reload
  <1>12. ASSUME NEW p \in Projects, ReloadFails(p), LocalStep(p) PROVE Limited'
    <2>1. op'[p].step # "run" /\ UNCHANGED woken
      BY <1>0, <1>12 DEF ReloadFails, At, OnError, Idle, OpType
    <2> QED BY <1>1, <1>12, <2>1, QuietStep DEF ReloadFails
  <1>13. ASSUME NEW p \in Projects, RestoreFails(p), LocalStep(p) PROVE Limited'
    <2>1. op'[p].step # "run" /\ UNCHANGED woken
      BY <1>0, <1>13 DEF RestoreFails, At, OnError, Idle, OpType
    <2> QED BY <1>1, <1>13, <2>1, QuietStep DEF RestoreFails
  <1>14. ASSUME NEW p \in Projects, CleanupPrevious(p), LocalStep(p) PROVE Limited'
    <2>1. op'[p].step # "run" /\ UNCHANGED woken
      BY <1>0, <1>14 DEF CleanupPrevious, At, Idle, OpType
    <2>2. Running' \subseteq Running
      BY <1>14 DEF CleanupPrevious, Running
    <2> QED BY <1>14, <2>1, <2>2, QuietStep
  <1>15. ASSUME NEW p \in Projects, CleanupCandidate(p), LocalStep(p) PROVE Limited'
    <2>1. op'[p].step # "run" /\ UNCHANGED woken
      BY <1>0, <1>15 DEF CleanupCandidate, At, Idle, OpType
    <2>2. container' \in {container, [container EXCEPT ![op[p].dep] = "absent"]}
      BY <1>15 DEF CleanupCandidate
    <2>3. Running' \subseteq Running
      BY <1>2, <2>2
    <2> QED BY <1>15, <2>1, <2>3, QuietStep
  <1>16. ASSUME NEW p \in Projects, Cancel(p), LocalStep(p) PROVE Limited'
    <2>1. op'[p].step # "run" /\ UNCHANGED woken
      BY <1>0, <1>16 DEF Cancel, At, Goto, OpType
    <2> QED BY <1>1, <1>16, <2>1, QuietStep DEF Cancel
  <1>17. ASSUME NEW p \in Projects, Abandon(p), LocalStep(p) PROVE Limited'
    <2>1. op'[p].step # "run" /\ UNCHANGED woken
      BY <1>0, <1>17 DEF Abandon, Idle, OpType
    <2> QED BY <1>1, <1>17, <2>1, QuietStep DEF Abandon
  <1>18. ASSUME NEW p \in Projects, CommandStep(p) \/ Cancel(p) \/ Abandon(p)
        PROVE  Limited'
    <2>1. LocalStep(p)
      BY <1>18, LocalSteps
    <2> QED BY <1>18, <2>1, CheckStep, StartStep, WakeStep, <1>3, <1>4, <1>5, <1>6, <1>7, <1>8,
               <1>9, <1>10, <1>11, <1>12, <1>13, <1>14, <1>15, <1>16, <1>17
            DEF CommandStep
  <1>19. ASSUME NEW p \in Projects, NEW d \in Deployments, NEW k \in AllKinds, Begin(p, d, k)
        PROVE  Limited'
    <2>1. UNCHANGED <<container, woken>> /\ (\A q \in Projects : op'[q].step = "run" => op[q].step = "run")
      BY <1>0, <1>19 DEF Begin, OpType
    <2> QED BY <2>1 DEF Limited, Running, Counted, ActiveIn
  <1>20. CASE GcBegin \/ GcStep \/ GcAbandon \/ Still
    <2>1. UNCHANGED <<container, woken, op>>
      BY <1>20 DEF GcBegin, GcStep, GcAbandon, GcDiscover, GcReload, GcEnd, GcRemove, Still
    <2> QED BY <2>1 DEF Limited, Running, Counted, ActiveIn
  <1> QED BY <1>18, <1>19, <1>20, Steps

------------------------------------------------------------------------------
(* The theorems. *)

\* The runtime starts without containers, routes and commands.
LEMMA InitInv ==
    Init => IInv
  <1> SUFFICES ASSUME Init PROVE IInv
    OBVIOUS
  <1>1. Shape
    BY DEF Init, Shape, OpType, Idle
  <1>2. Locks
    BY RuntimeAssumption DEF Init, Locks, GcIdle, GcType, GcHolder, AllKinds
  <1>3. ASSUME NEW p \in Projects PROVE Sound(p)
    <2>1. /\ op[p] = Idle /\ op[p].kind = None /\ op[p].step = "idle" /\ file[p] = None /\ live[p] = None
          /\ admission = None /\ route_lock = None /\ ~GcOn(p)
      BY DEF Init, Idle, GcIdle, GcOn
    <2> QED BY <2>1, RuntimeAssumption
            DEF Sound, OpSound, LockSound, DepRuns, FileSound, Synced, Served, RestartSound,
                Activators, AllKinds
  <1>4. Limited
    <2>1. Running = {} /\ Counted = {}
      BY DEF Init, Running, Counted, ActiveIn
    <2>2. \A p \in Projects : op[p].step # "run"
      BY DEF Init, Idle
    <2> QED BY <2>1, <2>2, FS_EmptySet, RuntimeAssumption DEF Limited
  <1>5. kept \subseteq Projects \union {GcHolder}
    BY DEF Init
  <1> QED BY <1>1, <1>2, <1>3, <1>4, <1>5 DEF IInv, Core

\* The invariant is inductive.
LEMMA Inductive ==
    Spec => []IInv
  <1>1. IInv /\ [Next]_vars => IInv'
    BY CoreStep, LimitStep, KeptStep DEF IInv
  <1> QED BY InitInv, <1>1, PTL DEF Spec

\* The invariants of the runs follow from it.
LEMMA InvImplies ==
    IInv => TypeOK /\ RoutesConsistent /\ DeployedWithinLimit
  <1> SUFFICES ASSUME IInv PROVE TypeOK /\ RoutesConsistent /\ DeployedWithinLimit
    OBVIOUS
  <1>1. /\ Shape /\ Locks /\ Limited /\ (\A p \in Projects : Sound(p))
        /\ kept \subseteq Projects \union {GcHolder}
    BY DEF IInv, Core
  <1>2. TypeOK
    <2>1. \A p \in Projects :
             /\ op[p].step \in {"check", "run"} => admission = p
             /\ admission = p => op[p].step \in {"check", "run", "cleanup"}
             /\ op[p].step = "reload" => route_lock = p
             /\ route_lock = p => op[p].step \in {"reload", "cleanup"}
      BY <1>1 DEF Sound, LockSound
    <2> QED BY <1>1, <2>1 DEF TypeOK, Shape, Locks, GcType
  <1>3. LiveRouteServed
    BY <1>1, RuntimeAssumption DEF LiveRouteServed, Sound, Served, Idle, Deactivators, AllKinds
  <1>4. ConfigInSync
    <2>1. route_lock = None => gc.step # "reload"
      BY <1>1, RuntimeAssumption DEF Locks, GcHolder, AllKinds
    <2> QED BY <1>1, <2>1, RuntimeAssumption DEF ConfigInSync, Sound, Synced, GcOn
  <1>5. DeployedWithinLimit
    BY <1>1 DEF Limited, Counted, DeployedWithinLimit
  <1> QED BY <1>2, <1>3, <1>4, <1>5 DEF RoutesConsistent

\* The state keeps its types, and the two mutexes are held exactly by the
\* commands inside their sections or cancelled there.
THEOREM TypeCorrect == Spec => []TypeOK
  BY Inductive, InvImplies, PTL

\* Caddy serves what the site files say and leads to running containers, except
\* where a stop, restart or route change broke off.
THEOREM RoutesStayConsistent == Spec => []RoutesConsistent
  BY Inductive, InvImplies, PTL

\* Concurrent deployments never exceed MaxActive running projects, those brought
\* back by a wake or a restart aside.
THEOREM LimitHolds == Spec => []DeployedWithinLimit
  BY Inductive, InvImplies, PTL

\* No step of a deployment, or of anybody else while it runs, takes down the
\* container that its project is served from.
THEOREM DeploymentKeepsServed == Spec => DeployKeepsServed
  <1>1. ASSUME IInv, [Next]_vars, NEW p \in Projects, NEW d \in Deployments,
               At(p, {"deploy"}, op[p].step), live[p] = d, d \in ActiveIn(p), op[p].dep # d
        PROVE  container'[d] = "running"
    <2>1. /\ op[p].kind = "deploy" /\ op[p] # Idle /\ container[d] = "running" /\ d \in Of(p)
          /\ Core /\ Sound(p) /\ d # None
      BY <1>1, RuntimeAssumption DEF At, ActiveIn, Running, IInv, Core, Idle, AllKinds
    <2>2. ASSUME NEW q \in Projects, CommandStep(q) \/ Cancel(q) \/ Abandon(q)
          PROVE  container'[d] = "running"
      <3>1. CASE q # p
        <4>1. Dockered(q)
          BY <2>1, <2>2, LocalSteps DEF LocalStep
        <4> QED BY <2>1, <3>1, <4>1 DEF Dockered, Of
      <3>2. CASE q = p
        <4>1. CASE StartContainer(p) \/ CleanupCandidate(p)
          BY <1>1, <2>1, <4>1 DEF StartContainer, CleanupCandidate, Core, Shape, Of
        <4>2. CASE CleanupPrevious(p)
          BY <1>1, <2>1, <4>2 DEF CleanupPrevious, At, Sound, FileSound
        <4>3. CASE UNCHANGED container
          BY <2>1, <4>3
        <4>4. CASE StartExisting(p) \/ Restart(p) \/ RestartEnds(p) \/ Halt(p) \/ Remove(p)
          BY <2>1, <4>4 DEF StartExisting, Restart, RestartEnds, Halt, Remove, At
        <4> QED BY <2>2, <3>2, <4>1, <4>2, <4>3, <4>4
                DEF CommandStep, Cancel, Abandon, Build, Admit, EnsureCapacity, WaitUntilReady,
                    WriteRoute, RemoveRoute, Reload, ReloadFails, RestoreFails, dockerVars
      <3> QED BY <3>1, <3>2
    <2>3. ASSUME UNCHANGED container PROVE container'[d] = "running"
      BY <2>1, <2>3
    <2>4. ASSUME NEW q \in Projects, NEW e \in Deployments, NEW k \in AllKinds, Begin(q, e, k)
          PROVE  container'[d] = "running"
      BY <2>3, <2>4 DEF Begin, dockerVars
    <2>5. CASE GcBegin \/ GcStep \/ GcAbandon \/ Still
      BY <2>3, <2>5
      DEF GcBegin, GcStep, GcAbandon, GcDiscover, GcReload, GcEnd, GcRemove, Still, dockerVars
    <2> QED BY <1>1, <2>2, <2>4, <2>5, Steps
  <1>2. ASSUME IInv, [Next]_vars
        PROVE  [\A p \in Projects : \A d \in Deployments :
                   At(p, {"deploy"}, op[p].step) /\ live[p] = d /\ d \in ActiveIn(p) /\ op[p].dep # d
                       => container'[d] = "running"]_vars
    BY <1>1, <1>2
  <1> QED BY <1>2, Inductive, PTL DEF Spec, DeployKeepsServed

\* A site file is deleted only on behalf of the deployment it names: by its own
\* stop or sleep, by the rollback of its own activation, or as stale.
THEOREM OwnRouteRemoved == Spec => OnlyOwnRouteRemoved
  <1>1. ASSUME IInv, [Next]_vars, NEW p \in Projects, file[p] # None, file'[p] = None
        PROVE  op[p].dep = file[p] \/ (gc.step = "remove" /\ file[p] \in gc.stale)
    <2>1. Core /\ Sound(p) /\ file \in [Projects -> Deployments \union {None}]
      BY <1>1 DEF IInv, Core, Shape
    <2>2. ASSUME NEW q \in Projects, CommandStep(q) \/ Cancel(q) \/ Abandon(q)
          PROVE  op[p].dep = file[p]
      <3>1. q = p
        BY <1>1, <2>1, <2>2, LocalSteps DEF LocalStep
      <3>2. CASE WriteRoute(p)
        BY <1>1, <2>1, <3>2, RuntimeAssumption DEF WriteRoute, At, Sound, OpSound, Of, AllKinds
      <3>3. CASE RemoveRoute(p)
        BY <1>1, <2>1, <3>3 DEF RemoveRoute, OwnsRoute
      <3>4. CASE ReloadFails(p)
        BY <1>1, <2>1, <3>4 DEF ReloadFails, At, Sound, FileSound
      <3> QED BY <1>1, <2>2, <3>1, <3>2, <3>3, <3>4
              DEF CommandStep, Cancel, Abandon, Build, Admit, EnsureCapacity, StartContainer,
                  StartExisting, Restart, RestartEnds, WaitUntilReady, Halt, Remove, Reload,
                  RestoreFails, CleanupPrevious, CleanupCandidate, routeVars
    <2>3. ASSUME UNCHANGED file PROVE FALSE
      BY <1>1, <2>3
    <2>4. ASSUME NEW d \in Deployments, GcRemove(d)
          PROVE  gc.step = "remove" /\ file[p] \in gc.stale
      BY <1>1, <2>1, <2>3, <2>4 DEF GcRemove, OwnsRoute
    <2>5. CASE GcReload
      <3>1. gc.target \in Deployments
        BY <2>1, <2>5 DEF GcReload, Core, Locks
      <3>2. file' \in {file, [file EXCEPT ![DeploymentProject[gc.target]] = gc.target]}
        BY <2>5 DEF GcReload, Rollback
      <3> QED BY <1>1, <2>1, <3>1, <3>2, RuntimeAssumption
    <2>6. ASSUME NEW q \in Projects, NEW e \in Deployments, NEW k \in AllKinds, Begin(q, e, k)
          PROVE  FALSE
      BY <2>3, <2>6 DEF Begin, routeVars
    <2>7. CASE GcBegin \/ GcDiscover \/ GcEnd \/ GcAbandon \/ Still
      BY <2>3, <2>7 DEF GcBegin, GcDiscover, GcEnd, GcAbandon, Still, routeVars
    <2> QED BY <1>1, <2>2, <2>4, <2>5, <2>6, <2>7, Steps DEF GcStep
  <1>2. ASSUME IInv, [Next]_vars
        PROVE  [\A p \in Projects : file[p] # None /\ file'[p] = None
                   => \/ op[p].dep = file[p]
                      \/ gc.step = "remove" /\ file[p] \in gc.stale]_vars
    BY <1>1, <1>2
  <1> QED BY <1>2, Inductive, PTL DEF Spec, OnlyOwnRouteRemoved
==============================================================================
