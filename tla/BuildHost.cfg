CONSTANTS
    Deployments = {c1, c2}
    Inspections = {c2}
    Forking = {"inspect"}
    MaxBuilds = 1
    AgesAfterDeadline = TRUE
    None = None
SPECIFICATION FairSpec
INVARIANTS TypeOK GroupsContained BuildsBounded WorkspaceWhileInUse NoSecretLeft
PROPERTIES LeftoversCollected
