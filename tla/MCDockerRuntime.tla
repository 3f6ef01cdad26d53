-------------------------- MODULE MCDockerRuntime --------------------------
(* Instances of DockerRuntime: two projects, one of them with two deployments. *)
EXTENDS DockerRuntime, TLC

CONSTANTS p1, p2, d1, d2, d3

DeploymentProjects == d1 :> p1 @@ d2 :> p1 @@ d3 :> p2

\* One deployment for each of two projects.
SingleDeployments == d1 :> p1 @@ d3 :> p2
=============================================================================
