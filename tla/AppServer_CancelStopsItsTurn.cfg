SPECIFICATION Spec
CONSTANTS
    MaxTurns = 2
    MaxCalls = 2
    MaxAsks = 2
    MaxInterrupts = 1
PROPERTIES
    CancelStopsItsTurn
\* the client may have sent its last message
CHECK_DEADLOCK FALSE
