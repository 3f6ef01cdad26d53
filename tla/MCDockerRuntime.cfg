SPECIFICATION Spec
CONSTANTS
    p1 = p1
    p2 = p2
    d1 = d1
    d2 = d2
    d3 = d3
    None = None
    Projects = {p1, p2}
    Deployments = {d1, d2, d3}
    DeploymentProject <- DeploymentProjects
    MaxActive = 1
    Kinds = {"deploy", "stop", "sleep", "wake", "restart", "refresh", "remove"}
    KeptAt = {}
INVARIANTS TypeOK RoutesConsistent DeployedWithinLimit
PROPERTIES DeployKeepsServed OnlyOwnRouteRemoved
CHECK_DEADLOCK FALSE
