SPECIFICATION FairSpec
CONSTANTS
    w1 = w1
    w2 = w2
    m1 = m1
    m2 = m2
    Waiters <- MCWaiters
    Markers <- MCMarkers
    Free = Free
    LockTimeouts = TRUE
INVARIANTS
    OneWinner
PROPERTIES
    ImplementsLatch
    AttachedWaiterReleased
\* every thread may have returned
CHECK_DEADLOCK FALSE
