SPECIFICATION Spec
CONSTANTS
    a = a
    b = b
    Keys <- MCKeys
    Initial <- MCInitial
    Edits <- MCEdits
    MaxEntries = 1
    MaxSessions = 2
    MaxChanges = 2
    MaxFaults = 1
    MaxQueue = 1
INVARIANTS CacheIsSnapshot StoreMirrorsCache FreshIsFed
PROPERTY OutcomesAreTruthful
CONSTRAINT NotLate
CHECK_DEADLOCK FALSE
