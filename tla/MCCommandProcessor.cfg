SPECIFICATION FairSpec
CONSTANTS
    MaxAttempts = 3
    LogBudget = 2
    Unlimited = Unlimited
    MaxFlushTasks = 2
INVARIANTS TypeOK AcknowledgedIsRecorded LogsPrecedeTerminal RunsOnlyWhenOwned
PROPERTIES ImplementsContract ReturnsUnlessSelfBlocked
CHECK_DEADLOCK FALSE
