SPECIFICATION Spec
CONSTANTS
    s1 = s1
    s2 = s2
    Sessions = {s1, s2}
    NoSession = NoSession
    MaxEvictions = 1
    MaxRestarts = 1
SYMMETRY SessionSymmetry
INVARIANTS
    UncancelledIsCurrent
    TombstoneFencesLateCommit
    OneOfflineWorker
    RevisionOfThisProcess
PROPERTIES
    StaleTaskSparesRegistry
    EvictionHoldsUntilNewer
CHECK_DEADLOCK FALSE
