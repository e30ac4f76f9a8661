SPECIFICATION FairSpec
CONSTANTS
    MaxSessions = 3
    WarnAt = 3
    Protected = 1
    Retained = 2
    MaxBuffer = 2
    AnswerSizes = {1, 2}
    MaxCommands = 4
    Budgets <- MCBudgets
    Modes <- MCModes
    NoRetry = {"never", "on_request"}
INVARIANTS
    ApprovalsHold
    NoOrphan
    EndedOnce
    OutputInOrder
PROPERTIES
    PrunedLast
    EndReported
\* the model may have made its last call
CHECK_DEADLOCK FALSE
