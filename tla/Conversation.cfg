SPECIFICATION FairSpec
CONSTANTS
    ChannelSize = 2
    MaxRetries = 1
    KeptUsers = 1
    Budgets <- MCBudgets
INVARIANTS
    LogTellsHistory
    FlushedIsRead
PROPERTIES
    ImplementsRolloutLog
    SnapshotsAccounted
    
    FlushReturns
\* the client may have sent its last submission, or the process be down
CHECK_DEADLOCK FALSE
