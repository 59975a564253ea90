SPECIFICATION FairSpec
CONSTANTS
    s1 = s1
    s2 = s2
    Sessions = {s1, s2}
    NoSession = NoSession
    MaxEvictions = 1
    MaxRestarts = 0
PROPERTIES
    CancelledHandlerEnds
    OfflineWorkerSettles
CHECK_DEADLOCK FALSE
