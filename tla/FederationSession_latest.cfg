SPECIFICATION FairSpec
CONSTANTS
    s1 = s1
    s2 = s2
    Sessions = {s1, s2}
    NoSession = NoSession
    MaxEvictions = 0
    MaxRestarts = 0
PROPERTY OfflineReachesRow
CHECK_DEADLOCK FALSE
