SPECIFICATION FairSpec
CONSTANTS
    p1 = p1
    p2 = p2
    d1 = d1
    d2 = d2
    d3 = d3
    None = None
    Projects = {p1, p2}
    Deployments = {d1, d3}
    DeploymentProject <- SingleDeployments
    MaxActive = 2
    Kinds = {"deploy", "stop", "gc"}
    KeptAt = {"run", "reload"}
INVARIANTS RoutesConsistent
PROPERTIES CommandsEnd
CHECK_DEADLOCK FALSE
