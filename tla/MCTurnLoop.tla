----------------------------- MODULE MCTurnLoop -----------------------------
\* A call of a tool that may run in parallel, and one of a tool that may not
\* and waits for the gate.
EXTENDS TurnLoop

CONSTANTS read, exec

MCCalls    == {read, exec}
MCParallel == {read}
MCMutating == {exec}
=============================================================================
