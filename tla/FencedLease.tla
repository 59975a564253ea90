---------------------------- MODULE FencedLease ----------------------------
(***************************************************************************)
(* What a Coordinator promises for one role, as center-core states it with *)
(* Leadership, RenewalOutcome and ReleaseOutcome: the role has at most one *)
(* owner, every grant carries a fencing epoch above all earlier ones, and  *)
(* only the owner's own fence can give the role up.  A renewal changes     *)
(* nothing that is visible here.                                           *)
(***************************************************************************)
EXTENDS Naturals

CONSTANTS
    Sessions,   \* the acquire calls for the role
    NoSession   \* nobody owns the role

VARIABLES
    owner,      \* the session whose token the role carries
    epoch,      \* the fencing epoch of the latest grant
    granted     \* the epoch granted to each session, 0 if none was

Init ==
    /\ owner = NoSession
    /\ epoch = 0
    /\ granted = [s \in Sessions |-> 0]

\* A grant may displace any owner: who is entitled to one is not said here.
Grant(s) ==
    /\ granted[s] = 0
    /\ epoch' = epoch + 1
    /\ granted' = [granted EXCEPT ![s] = epoch + 1]
    /\ owner' = s

Release(s) ==
    /\ owner = s
    /\ owner' = NoSession
    /\ UNCHANGED << epoch, granted >>

Next == \E s \in Sessions : Grant(s) \/ Release(s)

Spec == Init /\ [][Next]_<< owner, epoch, granted >>
=============================================================================
