--------------------------- MODULE MCUnifiedExec ---------------------------
\* Bounds for UnifiedExec: a limit of three sessions, one of them protected,
\* and behaviours that go far in one direction each.
EXTENDS UnifiedExec

Mode(p, o) == [policy |-> p, open |-> o]
MCModes == {Mode("never", TRUE), Mode("never", FALSE), Mode("on_failure", FALSE),
            Mode("on_request", FALSE), Mode("untrusted", FALSE)}

Budget(command, chunk, poll, exit, drop) ==
  [command |-> command, chunk |-> chunk, poll |-> poll, exit |-> exit, drop |-> drop]

\* Without a sandbox: many sessions, with and without a dropped call; two that
\* write and are polled; one that writes more than a channel retains. With a
\* sandbox: a retry that writes, and approvals for two calls.
MCBudgets ==
  [m \in MCModes |-> IF m.open
                     THEN {Budget(4, 0, 0, 2, 0), Budget(3, 0, 1, 1, 1), Budget(2, 2, 1, 1, 0),
                           Budget(2, 1, 1, 1, 1), Budget(1, 3, 2, 1, 1)}
                     ELSE {Budget(1, 1, 1, 2, 1), Budget(2, 0, 0, 2, 0)}]
=============================================================================
