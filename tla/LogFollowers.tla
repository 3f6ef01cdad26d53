----------------------------- MODULE LogFollowers -----------------------------
(***************************************************************************)
(* The registry of container log followers (containers/docker.rs) and its  *)
(* three users in executor/docker.rs: the end of a deployment, startup     *)
(* recovery and ReconcileWorkload.  A follower is a task around            *)
(* `docker logs --follow` that reports every line of its container under   *)
(* the id of the DeployProject command.                                    *)
(***************************************************************************)
EXTENDS Naturals, FiniteSets

CONSTANTS Containers

VARIABLES
    container,      \* the running containers
    log_followers   \* registry: key -> task; finished tasks stay until the next use

vars == <<container, log_followers>>

\* docker accepts a container's name and its id alike; the registry tells them
\* apart.
Key(c, by) == [of |-> c, by |-> by]

Init == container = {} /\ log_followers = {}

\* start_log_follower: finished tasks are forgotten, a key in use is refused.
StartLogFollower(registry, key) ==
    LET unfinished == {t \in registry : ~t.finished}
    IN IF \E t \in unfinished : t.key = key THEN unfinished
       ELSE unfinished \union {[key |-> key, finished |-> FALSE]}

\* A deployment is committed: its container runs and is followed by name.
Deploy(c) ==
    /\ c \notin container
    /\ container' = container \union {c}
    /\ log_followers' = StartLogFollower(log_followers, Key(c, "name"))

\* ReconcileWorkload with restart_log_follower, for a workload that is up.
RestartLogFollower(c) ==
    /\ c \in container
    /\ log_followers' = StartLogFollower(log_followers, Key(c, "id"))
    /\ UNCHANGED container

\* docker logs ends, with its container or on its own.
Finished(t) == [t EXCEPT !.finished = TRUE]

FollowerEnds(t) ==
    /\ log_followers' = (log_followers \ {t}) \union {Finished(t)}
    /\ UNCHANGED container

ContainerStops(c) ==
    /\ container' = container \ {c}
    /\ log_followers' = {IF t.key.of = c THEN Finished(t) ELSE t : t \in log_followers}

\* shutdown aborts all followers; recover attaches one to every running
\* container after the restart.
Restart ==
    /\ log_followers' = {[key |-> Key(c, "id"), finished |-> FALSE] : c \in container}
    /\ UNCHANGED container

Next ==
    \/ \E c \in Containers : Deploy(c) \/ RestartLogFollower(c) \/ ContainerStops(c)
    \/ \E t \in log_followers : FollowerEnds(t)
    \/ Restart

Spec == Init /\ [][Next]_vars

------------------------------------------------------------------------------
\* As documented: followers are deduplicated per container, so no line of a
\* container is reported twice.
OneFollowerPerContainer ==
    \A c \in Containers :
        Cardinality({t \in log_followers : t.key.of = c /\ ~t.finished}) <= 1
==============================================================================
