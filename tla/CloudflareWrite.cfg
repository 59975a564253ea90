SPECIFICATION Spec
CONSTANTS
    c1 = c1
    c2 = c2
    kA = kA
    kB = kB
    x = x
    y = y
    Calls <- MCCalls
    Keys = {kA, kB}
    Data = {x, y}
    Puts <- MCPuts
    InitialRecords <- MCInitialRecords
    PageSize = 2
    MaxEdits = 1
INVARIANTS OutcomeIsTruthful GuardAdmitsOneWinner
PROPERTIES NoUnseenRecordRemoved UndisturbedDeleteIsSafe
SYMMETRY Interchangeable
CHECK_DEADLOCK FALSE
