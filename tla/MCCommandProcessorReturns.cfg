SPECIFICATION FairSpec
CONSTANTS
    MaxAttempts = 3
    LogBudget = 2
    Unlimited = Unlimited
    MaxFlushTasks = 2
PROPERTY ProcessReturns
CHECK_DEADLOCK FALSE
