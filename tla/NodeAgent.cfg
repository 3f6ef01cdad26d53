SPECIFICATION FairSpec
CONSTANTS
    MaxWork = 1
    None = None
INVARIANTS TypeOK NeverReactivated HeardDrainedIsIdle
PROPERTIES ShutdownCompletes DrainIsHeard
