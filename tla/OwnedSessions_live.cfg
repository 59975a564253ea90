\* Two sessions on two replicas, which may crash, and an eviction of either.
SPECIFICATION FairSpec
CONSTANTS
    a1 = a1
    a2 = a2
    b1 = b1
    rA = rA
    rB = rB
    NoSession = NoSession
    NoReplica = NoReplica
    Askers = {}
    Evictable = {a1, b1}
    Stopping = {rA, rB}
    Sessions <- MCTwoSessions
    Replicas <- MCReplicas
    ReplicaOf <- MCReplicaOf
INVARIANTS
    OnlineSessionIsMaintained
PROPERTIES
    StaleOwnerIsRevoked
    CancelledLeaseIsGivenUp
CHECK_DEADLOCK FALSE
