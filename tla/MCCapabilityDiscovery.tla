----------------------- MODULE MCCapabilityDiscovery -----------------------
(* Two callers in one process, one in another, and an invalidation. *)
EXTENDS CapabilityDiscovery, TLC

CONSTANTS c1, c2, d1, rA, rB

MCReplicaOf == (c1 :> rA) @@ (c2 :> rA) @@ (d1 :> rB)
Interchangeable == Permutations({c1, c2}) \cup Permutations(Authorities)
=============================================================================
