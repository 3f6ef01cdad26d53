SPECIFICATION FairSpec
CONSTANTS
    c1 = c1
    c2 = c2
    c3 = c3
    c4 = c4
    p1 = p1
    p2 = p2
    np = np
    Commands = {c1, c2, c3, c4}
    Projects = {p1, p2}
    Tasks = {t1, t2}
    NoProject = np
    NoCommand = nc
    CommandType <- ProjectTypes
    ProjectOf <- ProjectProjects
    HeavyLimit = 1
INVARIANTS HeavyBound MetricExact ShutdownCancelsAll
PROPERTIES ShutdownStops DrainCompletes
CHECK_DEADLOCK FALSE
