CONSTANTS
    Writers = {command, follower}
    Execution = {command}
    Processor = processor
    Timers = {t1, t2}
    None = None
    LogBounds <- MCLogBounds
    DefaultBatchLines = 3
    MaxBatchBytes = 2
    MaxAttempts = 2
    MaxSize = 2
    MaxLines = 3
SPECIFICATION FairSpec
INVARIANTS TypeOK FlushIsBarrier NoLineStranded WithinPolicy
PROPERTIES ImplementsDelivery EveryLineSettles
CHECK_DEADLOCK FALSE
