SPECIFICATION FairSpec
CONSTANTS
    w1 = w1
    w2 = w2
    m1 = m1
    m2 = m2
    Waiters = {w1}
    Markers = {m1}
    Free = Free
    LockTimeouts = FALSE
PROPERTIES
    EveryWaiterReleased
\* every thread may have returned
CHECK_DEADLOCK FALSE
