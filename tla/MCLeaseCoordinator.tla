------------------------ MODULE MCLeaseCoordinator ------------------------
(* Instances of LeaseCoordinator for TLC: an owner and two contenders. *)
EXTENDS LeaseCoordinator, TLC

CONSTANTS a1, b1, b2, rA, rB

\* The first session runs on one replica, the contenders on the other.
MCReplicaOf == [s \in Sessions |-> IF s = a1 THEN rA ELSE rB]

\* The contenders are interchangeable.
Contenders == Permutations({b1, b2})

\* The states of the last tick are checked and not explored further.
InTime == now < MaxTime
=============================================================================
