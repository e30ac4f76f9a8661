SPECIFICATION Spec
CONSTANTS
    Paths = {"in", "new", "out"}
    Writable = {"in", "new"}
    NoPath = "none"
    Texts = {"", "a", "b"}
    Modes <- MCModes
    NoRetry = {"never"}
    Cases <- MCCases
    EditedTo <- MCEdited
INVARIANT
    ChangesApplied
\* the call has ended
CHECK_DEADLOCK FALSE
