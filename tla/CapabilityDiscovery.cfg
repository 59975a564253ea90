SPECIFICATION Spec
CONSTANTS
    c1 = c1
    c2 = c2
    d1 = d1
    rA = rA
    rB = rB
    Callers = {c1, c2, d1}
    Invalidators = {i1}
    Authorities = {a, b}
    Reports = {full}
    ReplicaOf <- MCReplicaOf
    MaxPermits = 1
    MaxTries = 2
    MaxFaults = 1
    None = None
SYMMETRY Interchangeable
INVARIANTS OneDiscoveryPerAuthority OutcomeIsAuthoritative InvalidatedStaysOut
PROPERTY ImplementsSnapshotStore
