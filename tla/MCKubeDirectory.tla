-------------------------- MODULE MCKubeDirectory --------------------------
\* KubeDirectory for TLC: a second session, an eviction, the observations and
\* the faults are combined pairwise.
EXTENDS KubeDirectory

Scenario(sessions, submits, evictions, faults, sweeps) ==
    [sessions |-> sessions, submits |-> submits, evictions |-> evictions,
     faults |-> faults, sweeps |-> sweeps]

MCBudgets ==
    { Scenario(2, 0, 1, 0, {FALSE}),    \* an eviction during a takeover
      Scenario(2, 0, 0, 1, {FALSE}),    \* a takeover with a fault
      Scenario(2, 0, 0, 1, {TRUE}),     \* and with a local sweep
      Scenario(1, 0, 1, 1, BOOLEAN),    \* an eviction with a fault
      Scenario(2, 1, 0, 0, {}),         \* an observation during a takeover
      Scenario(1, 2, 0, 1, {}),         \* observations with a fault
      Scenario(1, 3, 0, 0, {}) }        \* a worker that keeps falling behind
=============================================================================
