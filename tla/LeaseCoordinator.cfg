SPECIFICATION Spec
CONSTANTS
    a1 = a1
    b1 = b1
    b2 = b2
    rA = rA
    rB = rB
    Sessions = {a1, b1, b2}
    Replicas = {rA, rB}
    ReplicaOf <- MCReplicaOf
    NoSession = NoSession
    NoReplica = NoReplica
    Duration = 2
    OpTimeout = 1
    MaxAttempts = 2
    MaxStarting = 1
    MaxTime = 5
SYMMETRY Contenders
INVARIANTS
    OverlapIsBounded
    FencesAreGranted
PROPERTIES
    OnlyUnusableIsReleased
    ImplementsFencedLease
    TakeoverAfterSilence
CONSTRAINT InTime
CHECK_DEADLOCK FALSE
