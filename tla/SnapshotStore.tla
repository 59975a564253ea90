--------------------------- MODULE SnapshotStore ---------------------------
(***************************************************************************)
(* What a CapabilitySnapshotStore promises for one key (center-core,       *)
(* cloud/capabilities.rs), with the operations as the SQL store performs   *)
(* them (center-adapter-sql/cloud_capabilities.rs): each is one statement  *)
(* or one transaction on the row of the key.                               *)
(***************************************************************************)
EXTENDS Naturals

CONSTANTS
    Authorities,  \* account generation and credential revision
    Tokens,       \* discovery tokens, one per begin_discovery
    Reports,      \* contents of a snapshot
    None          \* no authority, no snapshot

VARIABLES
    epoch,        \* discovery_epoch
    authority,    \* the fence that may commit, None once it is revoked
    snapshot      \* the committed snapshot, with the fence it came under

Init == epoch = 0 /\ authority = None /\ snapshot = None

\* The next epoch and a new token, whatever authority is there; the
\* committed snapshot stays readable.
begin_discovery(a, t) ==
    /\ epoch' = epoch + 1
    /\ authority' = [auth |-> a, epoch |-> epoch + 1, token |-> t]
    /\ UNCHANGED snapshot

\* Only under the current fence, and under one fence only one payload.
put_if_current(r) ==
    LET s == [fence |-> authority, report |-> r] IN
    /\ authority /= None
    /\ snapshot /= None /\ snapshot.fence = authority => snapshot = s
    /\ snapshot' = s
    /\ UNCHANGED << epoch, authority >>

\* A matching authority loses its epoch and token, a matching snapshot its
\* contents.  The SQL row still names the revoked generation and revision, so
\* that a repeated invalidation advances the epoch once more.
invalidate_account_revision(a) ==
    /\ IF authority /= None /\ authority.auth = a
         THEN epoch' = epoch + 1 /\ authority' = None
         ELSE /\ epoch' = epoch \/ (authority = None /\ epoch' = epoch + 1)
              /\ UNCHANGED authority
    /\ snapshot' = IF snapshot /= None /\ snapshot.fence.auth = a
                     THEN None ELSE snapshot

Next ==
    \/ \E a \in Authorities, t \in Tokens : begin_discovery(a, t)
    \/ \E r \in Reports : put_if_current(r)
    \/ \E a \in Authorities : invalidate_account_revision(a)

Spec == Init /\ [][Next]_<< epoch, authority, snapshot >>
=============================================================================
