---------------------------- MODULE DockerRuntime ----------------------------
(***************************************************************************)
(* The Docker runtime executor (executor/docker.rs) on top of its          *)
(* container engine (containers/docker.rs) and Caddy route manager         *)
(* (routing/caddy_file.rs, routing/docker_exec.rs).                        *)
(*                                                                         *)
(* One command at a time runs per project (Scheduler.tla); CleanupRuntime  *)
(* has no project and runs beside them.  Every await between two external  *)
(* effects is a step.  Docker's containers, the site files and the         *)
(* configuration Caddy has loaded outlive the commands; a reload loads the *)
(* files of every project.  Any docker or caddy call may fail, and a       *)
(* command may be cancelled or dropped while it waits for one.             *)
(***************************************************************************)
EXTENDS Integers, FiniteSets

CONSTANTS
    Projects, Deployments,
    DeploymentProject,  \* project of each deployment
    MaxActive,          \* SAKALA_MAX_ACTIVE_CONTAINERS
    Kinds,              \* kinds of commands the control plane sends
    KeptAt,             \* bound of the model: steps at which a command may be kept
    None

AllKinds == {"deploy", "stop", "sleep", "wake", "restart", "refresh", "remove", "gc"}

\* The lock holder of a CleanupRuntime command.
GcHolder == "gc"

ASSUME RuntimeAssumption ==
    /\ DeploymentProject \in [Deployments -> Projects]
    /\ MaxActive \in Nat \ {0}
    /\ Kinds \subseteq AllKinds
    /\ None \notin Deployments \union Projects \union AllKinds
    /\ GcHolder \notin Projects

VARIABLES
    container,      \* docker: "absent", "stopped" (created, exited) or "running"
    file,           \* site file of each project: the deployment it names
    live,           \* what Caddy has loaded for each project
    op,             \* the command running on each project
    admission,      \* holder of container_admission
    route_lock,     \* holder of the route manager's mutation_lock
    gc,             \* the CleanupRuntime command
    kept,           \* commands that are neither polled nor dropped
    torn,           \* history: projects whose last stop, restart or route change
                    \* was interrupted or failed half way
    woken           \* history: projects brought back by WakeProject or RestartProject

dockerVars == <<container, woken>>
routeVars  == <<file, live, route_lock, torn>>
vars == <<dockerVars, routeVars, op, admission, gc, kept>>

Idle   == [kind |-> None, dep |-> None, step |-> "idle", previous |-> None]
GcIdle == [step |-> "idle", known |-> {}, stale |-> {}, target |-> None]

Of(p)      == {d \in Deployments : DeploymentProject[d] = p}
Running    == {d \in Deployments : container[d] = "running"}
ActiveIn(p) == Of(p) \intersect Running

Init ==
    /\ container = [d \in Deployments |-> "absent"]
    /\ file = [p \in Projects |-> None] /\ live = [p \in Projects |-> None]
    /\ op = [p \in Projects |-> Idle] /\ gc = GcIdle
    /\ admission = None /\ route_lock = None
    /\ kept = {} /\ torn = {} /\ woken = {}

------------------------------------------------------------------------------
(* Steps of a command. *)

At(p, kinds, step) == op[p].kind \in kinds /\ op[p].step = step
Goto(p, step) == op' = [op EXCEPT ![p] = [@ EXCEPT !.step = step]]

Freed(lock, p) == IF lock = p THEN None ELSE lock

\* A failed deployment goes on to clean its candidate up; every other command
\* ends with the error.
OnError(p) == op' = [op EXCEPT ![p] = IF @.kind = "deploy" THEN [@ EXCEPT !.step = "cleanup"]
                                                            ELSE Idle]

\* docker ps counts the running containers, not the projects.
HasCapacity(p) == ActiveIn(p) # {} \/ Cardinality(Running) < MaxActive

\* A deployment up to its checkout: the early capacity check.  The control
\* plane gives every deployment an id of its own.
DeployAccepted(p, d) == container[d] = "absent" /\ HasCapacity(p)

\* ReconcileWorkload: cleanup_failed_candidate takes a container that is not up,
\* restore_route one that is.
CleanupAccepted(d) == container[d] = "stopped"
RestoreAccepted(d) == container[d] = "running"

\* A command and the lookup of its workload; a command refused here has no
\* effect on docker or Caddy.  RefreshRoute and restore_route are the same.
Begin(p, d, kind) ==
    /\ op[p] = Idle /\ kind \in Kinds \ {"gc"} /\ DeploymentProject[d] = p
    /\ LET start(step) == op' = [op EXCEPT ![p] = [kind |-> kind, dep |-> d, step |-> step,
                                                   previous |-> None]]
       IN \/ kind = "deploy" /\ DeployAccepted(p, d) /\ start("build")
          \/ kind = "stop" /\ start(IF container[d] = "absent" THEN "route" ELSE "halt")
          \/ kind = "sleep" /\ container[d] # "absent" /\ start("halt")
          \/ kind = "wake" /\ container[d] # "absent" /\ start("launch")
          \/ kind = "restart" /\ container[d] = "running" /\ start("launch")
          \/ kind = "refresh" /\ RestoreAccepted(d) /\ start("ready")
          \/ kind = "remove" /\ CleanupAccepted(d) /\ start("remove")
    /\ UNCHANGED <<dockerVars, routeVars, admission, gc, kept>>

\* The image is built, or the build fails or runs into its timeout.
Build(p) ==
    /\ At(p, {"deploy"}, "build")
    /\ Goto(p, "admit") \/ OnError(p)
    /\ UNCHANGED <<dockerVars, routeVars, admission, gc>>

\* The candidate is started under the admission lock, after a fresh count;
\* the start timeout may fire while the deployment waits for the lock.
Admit(p) ==
    /\ At(p, {"deploy"}, "admit")
    /\ \/ admission = None /\ admission' = p /\ Goto(p, "check")
       \/ OnError(p) /\ UNCHANGED admission
    /\ UNCHANGED <<dockerVars, routeVars, gc>>

\* Mutant: the early check is taken for authoritative.
EnsureCapacityEarlyOnly(p) ==
    /\ At(p, {"deploy"}, "check")
    /\ Goto(p, "run")
    /\ UNCHANGED <<dockerVars, routeVars, admission, gc>>

EnsureCapacity(p) ==
    /\ At(p, {"deploy"}, "check")
    /\ \/ HasCapacity(p) /\ Goto(p, "run") /\ UNCHANGED admission
       \/ OnError(p) /\ admission' = Freed(admission, p)
    /\ UNCHANGED <<dockerVars, routeVars, gc>>

\* Mutant: the lock is not dropped before the readiness check.
StartContainerKeepsLock(p) ==
    /\ At(p, {"deploy"}, "run")
    /\ \/ container' = [container EXCEPT ![op[p].dep] = "running"] /\ Goto(p, "ready")
       \/ UNCHANGED container /\ OnError(p)
    /\ UNCHANGED <<woken, routeVars, admission, gc>>

\* docker run creates and starts the container, or fails before or after
\* creating it; the admission lock is dropped in any case.
StartContainer(p) ==
    /\ At(p, {"deploy"}, "run")
    /\ \/ container' = [container EXCEPT ![op[p].dep] = "running"] /\ Goto(p, "ready")
       \/ /\ container' \in {container, [container EXCEPT ![op[p].dep] = "stopped"]}
          /\ OnError(p)
    /\ admission' = Freed(admission, p)
    /\ UNCHANGED <<woken, routeVars, gc>>

\* A failed docker call may have stopped the container all the same.
StopHalfWay(p) ==
    /\ container' \in {container, [container EXCEPT ![op[p].dep] = "stopped"]}
    /\ torn' = IF container' # container THEN torn \union {p} ELSE torn
    /\ OnError(p)

\* docker start of a sleeping container, without a capacity check.
StartExisting(p) ==
    /\ At(p, {"wake"}, "launch")
    /\ \/ container' = [container EXCEPT ![op[p].dep] = "running"] /\ Goto(p, "ready")
       \/ UNCHANGED container /\ OnError(p)
    /\ woken' = woken \union {p}
    /\ UNCHANGED <<routeVars, admission, gc>>

\* docker restart stops the container ...
Restart(p) ==
    /\ At(p, {"restart"}, "launch")
    /\ \/ container' = [container EXCEPT ![op[p].dep] = "stopped"] /\ Goto(p, "restart")
       \/ UNCHANGED container /\ OnError(p)
    /\ woken' = woken \union {p}
    /\ UNCHANGED <<routeVars, admission, gc>>

\* ... and starts it again, without a capacity check.
RestartEnds(p) ==
    /\ At(p, {"restart"}, "restart")
    /\ \/ /\ container' = [container EXCEPT ![op[p].dep] = "running"]
          /\ Goto(p, "ready") /\ UNCHANGED torn
       \/ UNCHANGED container /\ OnError(p) /\ torn' = torn \union {p}
    /\ UNCHANGED <<woken, file, live, route_lock, admission, gc>>

\* Mutant: the previous containers are cleaned up before the cutover.
WaitThenFinalize(p) ==
    /\ At(p, AllKinds, "ready")
    /\ Goto(p, IF op[p].kind = "deploy" THEN "finalize" ELSE "route") \/ OnError(p)
    /\ UNCHANGED <<dockerVars, routeVars, admission, gc>>

WaitUntilReady(p) ==
    /\ At(p, AllKinds, "ready")
    /\ Goto(p, "route") \/ OnError(p)
    /\ UNCHANGED <<dockerVars, routeVars, admission, gc>>

\* docker stop, which does nothing for a container that is not up.
Halt(p) ==
    /\ At(p, {"stop", "sleep"}, "halt")
    /\ \/ /\ container' = [container EXCEPT ![op[p].dep] = "stopped"]
          /\ Goto(p, "route") /\ UNCHANGED torn
       \/ StopHalfWay(p)
    /\ UNCHANGED <<woken, file, live, route_lock, admission, gc>>

\* docker rm, the end of StopProject and of cleanup_failed_candidate.
Remove(p) ==
    /\ At(p, {"stop", "remove"}, "remove")
    /\ container' \in {container, [container EXCEPT ![op[p].dep] = "absent"]}
    /\ op' = [op EXCEPT ![p] = Idle]
    /\ UNCHANGED <<woken, routeVars, admission, gc>>

------------------------------------------------------------------------------
(* Route changes, serialised by mutation_lock. *)

\* The step that follows a successful route change; a stop whose container
\* was already gone ends with its route.
AfterRoute(p) == CASE op[p].kind = "deploy" -> "finalize"
                   [] op[p].kind = "stop" /\ container[op[p].dep] # "absent" -> "remove"
                   [] OTHER -> "idle"

Proceed(p) == op' = [op EXCEPT ![p] = IF AfterRoute(p) = "idle" THEN Idle
                                      ELSE [@ EXCEPT !.step = AfterRoute(p)]]

\* activate: snapshot the site file and replace it.
WriteRoute(p) ==
    /\ At(p, {"deploy", "wake", "restart", "refresh"}, "route") /\ route_lock = None
    /\ route_lock' = p
    /\ file' = [file EXCEPT ![p] = op[p].dep]
    /\ op' = [op EXCEPT ![p] = [@ EXCEPT !.step = "reload", !.previous = file[p]]]
    /\ UNCHANGED <<dockerVars, live, torn, admission, gc>>

\* Mutant: the file belongs to the project, whichever deployment it names.
OwnsAnyRoute(p, d) == file[p] # None

\* remove_route only touches a file that names the deployment.
OwnsRoute(p, d) == file[p] = d

\* deactivate: snapshot the site file and delete it, if it is the deployment's.
RemoveRoute(p) ==
    /\ At(p, {"stop", "sleep"}, "route") /\ route_lock = None
    /\ IF OwnsRoute(p, op[p].dep)
         THEN /\ route_lock' = p
              /\ file' = [file EXCEPT ![p] = None]
              /\ op' = [op EXCEPT ![p] = [@ EXCEPT !.step = "reload", !.previous = file[p]]]
         ELSE /\ Proceed(p)
              /\ UNCHANGED <<file, route_lock>>
    /\ UNCHANGED <<dockerVars, live, torn, admission, gc>>

\* caddy validate and reload succeed: Caddy serves the files of all projects.
Reload(p) ==
    /\ At(p, AllKinds, "reload")
    /\ live' = file
    /\ route_lock' = None
    /\ torn' = torn \ {p}
    /\ Proceed(p)
    /\ UNCHANGED <<dockerVars, file, admission, gc>>

\* Mutant: nothing is restored.
RollbackKeepsFile(p, previous) ==
    /\ file' = file
    /\ live' \in {live, file}
    /\ route_lock' = None

\* Mutant: the error path forgets the guard.
RollbackKeepsLock(p, previous) ==
    /\ file' = [file EXCEPT ![p] = previous]
    /\ live' \in {live, file', file}
    /\ UNCHANGED route_lock

\* Restoring the snapshot, then a best-effort reload: Caddy keeps what it had,
\* or has the restored files, or still the new ones if the failed reload had
\* been applied.
Rollback(p, previous) ==
    /\ file' = [file EXCEPT ![p] = previous]
    /\ live' \in {live, file', file}
    /\ route_lock' = None

\* validate or reload fails.  StopProject and SleepProject end here with their
\* container stopped and the route still there.
ReloadFails(p) ==
    /\ At(p, AllKinds, "reload")
    /\ Rollback(p, op[p].previous)
    /\ torn' = IF live'[p] # file'[p] \/ op[p].kind \in {"stop", "sleep"}
                 THEN torn \union {p} ELSE torn
    /\ OnError(p)
    /\ UNCHANGED <<dockerVars, admission, gc>>

\* The snapshot cannot be restored: no second reload is tried.
RestoreFails(p) ==
    /\ At(p, AllKinds, "reload")
    /\ live' \in {live, file}
    /\ route_lock' = None /\ torn' = torn \union {p}
    /\ OnError(p)
    /\ UNCHANGED <<dockerVars, file, admission, gc>>

------------------------------------------------------------------------------
(* The end of a deployment. *)

\* After the cutover: containers of the project other than the candidate are
\* stopped and removed one by one; a failure ends this at any of them.
CleanupPrevious(p) ==
    /\ At(p, {"deploy"}, "finalize")
    /\ LET previous == Of(p) \ {op[p].dep} IN
       \E gone \in SUBSET previous, halted \in SUBSET (previous \intersect Running) :
          /\ Cardinality(halted) <= 1
          /\ container' = [d \in Deployments |-> IF d \in gone THEN "absent"
                                                ELSE IF d \in halted THEN "stopped"
                                                ELSE container[d]]
    /\ op' = [op EXCEPT ![p] = Idle]
    /\ UNCHANGED <<woken, routeVars, admission, gc>>

\* Before the cutover: docker rm --force of the candidate, best effort.  The
\* command returns, and only now are the locks of a cancelled deployment free.
CleanupCandidate(p) ==
    /\ At(p, {"deploy"}, "cleanup")
    /\ container' \in {container, [container EXCEPT ![op[p].dep] = "absent"]}
    /\ op' = [op EXCEPT ![p] = Idle]
    /\ admission' = Freed(admission, p) /\ route_lock' = Freed(route_lock, p)
    /\ UNCHANGED <<woken, file, live, torn, gc>>

\* The cancellation token fires before the cutover: the deployment is not
\* polled any more, wherever it is, and its candidate is cleaned up.  A reload
\* on its way may still be applied.
Cancel(p) ==
    /\ At(p, {"deploy"}, op[p].step) /\ op[p].step \notin {"finalize", "cleanup"}
    /\ torn' = IF op[p].step = "reload" THEN torn \union {p} ELSE torn
    /\ live' \in IF op[p].step = "reload" THEN {live, file} ELSE {live}
    /\ Goto(p, "cleanup")
    /\ UNCHANGED <<dockerVars, file, route_lock, admission, gc>>

\* The command is dropped between two steps: its processor returned after the
\* deadline, it was aborted at shutdown, or the agent crashed.  (A call that
\* still takes effect is the step before.)
Abandon(p) ==
    /\ op[p] # Idle
    /\ torn' = IF \/ op[p].step = "reload"
                  \/ op[p].kind \in {"stop", "sleep"} /\ op[p].step = "route"
                  \/ op[p].kind = "deploy" /\ op[p].step = "cleanup" /\ file[p] = op[p].dep
                  \/ op[p].step = "restart"
                 THEN torn \union {p} ELSE torn
    /\ op' = [op EXCEPT ![p] = Idle] /\ kept' = kept \ {p}
    /\ admission' = Freed(admission, p) /\ route_lock' = Freed(route_lock, p)
    /\ UNCHANGED <<dockerVars, file, live, gc>>

------------------------------------------------------------------------------
(* CleanupRuntime with target stale_routes. *)

\* detect_orphans and routable_routes: the identities of the running containers.
KnownRoutes == Running

GcBegin ==
    /\ "gc" \in Kinds /\ gc = GcIdle
    /\ gc' = [gc EXCEPT !.step = "discover", !.known = KnownRoutes]
    /\ UNCHANGED <<dockerVars, routeVars, op, admission, kept>>

\* discover_stale_routes reads the site files without the lock.
GcDiscover ==
    /\ gc.step = "discover"
    /\ gc' = [gc EXCEPT !.step = "remove", !.known = {},
                        !.stale = {d \in Deployments : /\ file[DeploymentProject[d]] = d
                                                       /\ d \notin gc.known}]
    /\ UNCHANGED <<dockerVars, routeVars, op, admission>>

\* deactivate of one stale route.
GcRemove(d) ==
    LET p == DeploymentProject[d] IN
    /\ gc.step = "remove" /\ d \in gc.stale /\ route_lock = None
    /\ IF OwnsRoute(p, d)
         THEN /\ route_lock' = GcHolder
              /\ file' = [file EXCEPT ![p] = None]
              /\ gc' = [gc EXCEPT !.step = "reload", !.target = d, !.stale = @ \ {d}]
         ELSE gc' = [gc EXCEPT !.stale = @ \ {d}] /\ UNCHANGED <<file, route_lock>>
    /\ UNCHANGED <<dockerVars, live, torn, op, admission>>

\* Any failure ends the whole command.
GcReload ==
    LET p == DeploymentProject[gc.target] IN
    /\ gc.step = "reload"
    /\ \/ /\ live' = file /\ route_lock' = None
          /\ torn' = torn \ {p}
          /\ gc' = [gc EXCEPT !.step = "remove", !.target = None]
          /\ UNCHANGED file
       \/ /\ Rollback(p, gc.target)
          /\ torn' = IF live'[p] # file'[p] THEN torn \union {p} ELSE torn
          /\ gc' = GcIdle
       \/ /\ live' \in {live, file} /\ route_lock' = None
          /\ torn' = torn \union {p} /\ gc' = GcIdle
          /\ UNCHANGED file
    /\ UNCHANGED <<dockerVars, op, admission>>

GcEnd ==
    /\ gc.step = "remove" /\ gc.stale = {}
    /\ gc' = GcIdle
    /\ UNCHANGED <<dockerVars, routeVars, op, admission>>

GcAbandon ==
    /\ gc # GcIdle
    /\ torn' = IF gc.step = "reload" THEN torn \union {DeploymentProject[gc.target]} ELSE torn
    /\ gc' = GcIdle
    /\ route_lock' = Freed(route_lock, GcHolder) /\ kept' = kept \ {GcHolder}
    /\ UNCHANGED <<dockerVars, file, live, op, admission>>

------------------------------------------------------------------------------
CommandStep(p) ==
    \/ Build(p) \/ Admit(p) \/ EnsureCapacity(p) \/ StartContainer(p)
    \/ StartExisting(p) \/ Restart(p) \/ RestartEnds(p) \/ WaitUntilReady(p) \/ Halt(p) \/ Remove(p)
    \/ WriteRoute(p) \/ RemoveRoute(p)
    \/ Reload(p) \/ ReloadFails(p) \/ RestoreFails(p)
    \/ CleanupPrevious(p) \/ CleanupCandidate(p)

GcStep == GcDiscover \/ GcReload \/ GcEnd \/ \E d \in Deployments : GcRemove(d)

\* process polls the command for the last time, when its deadline and grace are
\* over, wherever it is.  It is dropped when process returns, which may never come
\* (CommandProcessor): it keeps its locks until then.
Suspend(h) ==
    /\ h \notin kept /\ (IF h = GcHolder THEN gc.step ELSE op[h].step) \in KeptAt \ {"idle"}
    /\ kept' = kept \union {h}
    /\ UNCHANGED <<dockerVars, routeVars, op, admission, gc>>

\* Only a command that is polled goes on.
PolledStep(p)   == p \notin kept /\ CommandStep(p) /\ UNCHANGED kept
PolledCancel(p) == p \notin kept /\ Cancel(p) /\ UNCHANGED kept
PolledGcStep    == GcHolder \notin kept /\ GcStep /\ UNCHANGED kept

Next ==
    \/ \E p \in Projects : PolledStep(p) \/ PolledCancel(p) \/ Abandon(p)
    \/ \E p \in Projects, d \in Deployments, k \in AllKinds : Begin(p, d, k)
    \/ GcBegin \/ PolledGcStep \/ GcAbandon
    \/ \E h \in Projects \union {GcHolder} : Suspend(h)

Spec == Init /\ [][Next]_vars

(***************************************************************************)
(* Fairness: external calls are bounded by timeouts and the two mutexes    *)
(* are fair, so a command that is polled and can go on infinitely often    *)
(* does.  Nothing makes a kept command go on, or be dropped.               *)
(***************************************************************************)
FairSpec == Spec /\ (\A p \in Projects : SF_vars(PolledStep(p))) /\ SF_vars(PolledGcStep)

------------------------------------------------------------------------------
(* Properties. *)

OpType == [kind : Kinds \union {None}, dep : Deployments \union {None},
           step : {"idle", "build", "admit", "check", "run", "launch", "restart", "ready", "halt",
                   "remove", "route", "reload", "finalize", "cleanup"},
           previous : Deployments \union {None}]

\* Type correctness; the two mutexes are held exactly by the commands inside
\* the sections they protect, or cancelled there.
TypeOK ==
    /\ container \in [Deployments -> {"absent", "stopped", "running"}]
    /\ file \in [Projects -> Deployments \union {None}]
    /\ live \in [Projects -> Deployments \union {None}]
    /\ op \in [Projects -> OpType]
    /\ admission \in Projects \union {None}
    /\ route_lock \in Projects \union {None, GcHolder}
    /\ gc.step \in {"idle", "discover", "remove", "reload"}
    /\ gc.known \subseteq Deployments /\ gc.stale \subseteq Deployments
    /\ kept \subseteq Projects \union {GcHolder} /\ torn \subseteq Projects /\ woken \subseteq Projects
    /\ \A p \in Projects :
          /\ op[p].step \in {"check", "run"} => admission = p
          /\ admission = p => op[p].step \in {"check", "run", "cleanup"}
          /\ op[p].step = "reload" => route_lock = p
          /\ route_lock = p => op[p].step \in {"reload", "cleanup"}
    /\ route_lock = GcHolder <=> gc.step = "reload"

\* Between commands a project's loaded route leads to a running container,
\* after failed builds, starts, readiness checks and rolled back reloads, with
\* commands of other projects reloading Caddy meanwhile.  The exception is a
\* project whose last stop, restart or route change broke off half way.
LiveRouteServed ==
    \A p \in Projects :
        op[p] = Idle /\ p \notin torn /\ live[p] # None => container[live[p]] = "running"

\* Whenever no route change is going on, Caddy serves what the site files say,
\* except where a route change was interrupted.
ConfigInSync ==
    route_lock = None => \A p \in Projects : p \notin torn => live[p] = file[p]

\* The two together: the configuration Caddy serves agrees with the site files,
\* and both agree with docker, but for the route changes that broke off.
RoutesConsistent == LiveRouteServed /\ ConfigInSync

\* Concurrent deployments never exceed MaxActive running projects: the count
\* under the admission lock is authoritative.  Waking and restarting take no part
\* in it, and a container that is being restarted is not counted.
DeployedWithinLimit ==
    Cardinality({p \in Projects : ActiveIn(p) # {} /\ p \notin woken}) <= MaxActive

\* A deployment never takes down the container its project is being served
\* from: not while it is a candidate, not when it fails, not when it commits.
DeployKeepsServed ==
    [][\A p \in Projects : \A d \in Deployments :
          At(p, {"deploy"}, op[p].step) /\ live[p] = d /\ d \in ActiveIn(p) /\ op[p].dep # d
              => container'[d] = "running"]_vars

\* A site file is only deleted on behalf of the deployment it names: a late stop
\* of an old deployment leaves the new deployment's route alone.
OnlyOwnRouteRemoved ==
    [][\A p \in Projects : file[p] # None /\ file'[p] = None
          => \/ op[p].dep = file[p]
             \/ gc.step = "remove" /\ file[p] \in gc.stale]_vars

\* p, or whoever holds one of the two locks, is kept.
Blocked(p) == {p, admission, route_lock} \intersect kept # {}

\* Every command ends, unless it is kept for ever itself or behind a lock of one
\* that is: nobody waits for ever for the admission or route lock otherwise,
\* however often a holder was cancelled, failed or was dropped after all.
CommandsEnd == \A p \in Projects : (op[p] # Idle) ~> (op[p] = Idle \/ []Blocked(p))

\* As documented: cancellation before the cutover cancels the deployment and
\* cleans the candidate up.  A deployment cancelled inside its route change (it
\* still has the route lock) leaves no site file for the container it removed.
CancelledLeavesNoRoute ==
    [][\A p \in Projects :
          CleanupCandidate(p) /\ route_lock = p /\ container'[op[p].dep] = "absent"
              => file'[p] # op[p].dep]_vars
==============================================================================
