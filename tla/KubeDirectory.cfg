CONSTANTS
    Sessions = {s1, s2}
    None = None
    MaxTries = 2
    Budgets <- MCBudgets
SPECIFICATION Spec
INVARIANTS
    OwnerIsShown
    RuntimeDataOfSession
    NoObservationLost
PROPERTIES
    EvictionSticks
    GoneIsOffline
CHECK_DEADLOCK FALSE
