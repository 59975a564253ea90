CONSTANTS
    Sessions = {s1, s2}
    None = None
    MaxTries = 2
    Budgets <- MCBudgets
SPECIFICATION Spec
INVARIANT RenewalWins
CHECK_DEADLOCK FALSE
