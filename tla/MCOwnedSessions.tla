-------------------------- MODULE MCOwnedSessions --------------------------
(***************************************************************************)
(* Two sync calls on one replica and one on another: a reconnect to the    *)
(* same replica, a takeover by the other one, and both at once.            *)
(***************************************************************************)
EXTENDS OwnedSessions

CONSTANTS a1, a2, b1, rA, rB

MCSessions == {a1, a2, b1}
MCTwoSessions == {a1, b1}
MCReplicas == {rA, rB}
MCReplicaOf == [s \in Sessions |-> IF s = b1 THEN rB ELSE rA]
=============================================================================
