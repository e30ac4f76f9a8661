--------------------------- MODULE MCReadinessFlag ---------------------------
\* Two waiting tool calls and two subscribers, interchangeable in each group.
EXTENDS ReadinessFlag, TLC

CONSTANTS w1, w2, m1, m2

MCWaiters == {w1, w2}
MCMarkers == {m1, m2}

ThreadSymmetry == Permutations(MCWaiters) \union Permutations(MCMarkers)
=============================================================================
