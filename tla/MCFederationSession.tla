----------------------- MODULE MCFederationSession -----------------------
(* Instances of FederationSession for TLC. *)
EXTENDS FederationSession, TLC

\* The sessions of a controller are interchangeable in every safety property.
SessionSymmetry == Permutations(Sessions)
=============================================================================
