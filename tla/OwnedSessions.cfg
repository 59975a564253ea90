\* Two sessions on one replica and one on another, a request on the latter.
SPECIFICATION Spec
CONSTANTS
    a1 = a1
    a2 = a2
    b1 = b1
    rA = rA
    rB = rB
    NoSession = NoSession
    NoReplica = NoReplica
    Askers = {rB}
    Evictable = {}
    Stopping = {}
    Sessions <- MCSessions
    Replicas <- MCReplicas
    ReplicaOf <- MCReplicaOf
INVARIANT SentAtMostOnce
PROPERTY NoAdmissionAfterRelease
CHECK_DEADLOCK FALSE
