SPECIFICATION FairSpec
CONSTANTS
    MaxTurns = 2
    MaxCalls = 2
    MaxAsks = 2
    MaxInterrupts = 1
INVARIANTS
    StatusTrue
    StartedOnce
PROPERTIES
    DecidedByItsAnswer
    InterruptAnswered
    DecisionArrives
\* the client may have sent its last message
CHECK_DEADLOCK FALSE
