SPECIFICATION Spec
CONSTANTS
    None = None
    c1 = c1
    c2 = c2
    a1 = a1
    a2 = a2
    kA = kA
    kB = kB
    kC = kC
    w1 = w1
    w2 = w2
    eu60 = eu60
    us300 = us300
    euAlias = euAlias
    usAlias = usAlias
    primary = primary
    Calls <- MCCalls
    Accounts <- MCAccounts
    KeyOrder <- MCKeyOrder
    Contents <- MCContents
    Owner <- MCOwner
    RecordType <- MCRecordType
    Family <- MCFamily
    Backing <- MCBacking
    Selector <- MCSelector
    Ttl <- MCTtl
    Requests <- MCRequests
    InitialRecords <- MCInitialRecords
    PageSize = 2
    PerAccount = 1
    Global = 2
    MaxTracked = 1
    MaxActions = 3
    MaxWeighted = 1
    MaxEdits = 1
INVARIANTS OutcomeIsTruthful OneZonePerIdempotencyKey AccountConcurrencyBounded
PROPERTIES NoLostUpdate BatchKeepsZoneConsistent
CHECK_DEADLOCK FALSE
