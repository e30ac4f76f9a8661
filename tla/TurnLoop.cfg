SPECIFICATION FairSpec
CONSTANTS
    read = read
    exec = exec
    Calls <- MCCalls
    Parallel <- MCParallel
    Mutating <- MCMutating
    NoId = NoId
    MaxRetries = 1
    MaxRequests = 2
    MaxTurns = 2
INVARIANTS
    PromptPaired
    ExclusiveAlone
    ToolsSettled
    OutputsInCallOrder
PROPERTIES
    PromptOnlyGrows
    CancelledTurnEnds
\* the last turn may have ended
CHECK_DEADLOCK FALSE
