---------------------------- MODULE MCScheduler ----------------------------
(* Instances of Scheduler: four commands, told apart by type and project. *)
EXTENDS Scheduler, TLC

CONSTANTS c1, c2, c3, c4, p1, p2, np

\* A node-wide cleanup without project, a deploy and a health check of one
\* project, and a drain.
MixedTypes == c1 :> "CleanupRuntime" @@ c2 :> "DeployProject"
              @@ c3 :> "HealthCheck" @@ c4 :> "DrainNode"
MixedProjects == c1 :> np @@ c2 :> p1 @@ c3 :> p1 @@ c4 :> np

\* Every heavy command carries a project, as long as no CleanupRuntime is sent.
ProjectTypes == c1 :> "DeployProject" @@ c2 :> "WakeProject"
                @@ c3 :> "DrainNode" @@ c4 :> "ResumeNode"
ProjectProjects == c1 :> p1 @@ c2 :> p2 @@ c3 :> np @@ c4 :> np

\* A cleanup without project beside two heavy commands of projects.
HeavyTypes == c1 :> "CleanupRuntime" @@ c2 :> "DeployProject"
              @@ c3 :> "WakeProject" @@ c4 :> "DrainNode"
HeavyProjects == c1 :> np @@ c2 :> p1 @@ c3 :> p2 @@ c4 :> np

TaskSymmetry == Permutations(Tasks)
=============================================================================
