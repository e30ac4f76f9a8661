SPECIFICATION FairSpec
CONSTANTS
    MaxSubs = 3
    MaxAsks = 2
INVARIANTS
    RunningTaskIsActive
    ApprovedByClient
    InputsInOrder
    ShutdownStopsTasks
PROPERTIES
    OnlyOwnerRemovesTurn
    ImplementsOneTask
    EndIsReported
    CancelledTaskEnds
\* the client may have sent its last submission
CHECK_DEADLOCK FALSE
