SPECIFICATION FairSpec
CONSTANTS
    MaxSessions = 1
    MaxLines = 2
    MaxRequests = 3
INVARIANTS
    OutputOnce
PROPERTIES
    CallsServed
    TimeoutReturns
\* the host may be down
CHECK_DEADLOCK FALSE
