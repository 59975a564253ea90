------------------------ MODULE CapabilityDiscovery ------------------------
(***************************************************************************)
(* Capability discovery: CapabilityDiscoveryService (center-runtime,       *)
(* cloud/capability_discovery.rs) on several replicas over the Kubernetes  *)
(* snapshot store (center-adapter-kubernetes/cloud_capability_store.rs),   *)
(* for one account and scope, that is, one store key and one CRD.          *)
(*                                                                         *)
(* Within a process, callers with the same account authority share a       *)
(* flight: whoever takes its gate discovers for all.  A dropped call lets  *)
(* go of gate and permit, and the next waiter takes over.  Between         *)
(* processes only the CRD decides: every write replaces its status if the  *)
(* resourceVersion is the one that was read.  A request whose answer was   *)
(* lost, or whose caller is gone, may still be executed later.             *)
(*                                                                         *)
(* A flight is named by the caller that created it.  The gate of a flight  *)
(* and the permits of a replica are held by callers at certain places of   *)
(* their code, so they are read off pc: Rust releases both on every way    *)
(* out.  The lifetime of a snapshot is not timed: a matching one may be    *)
(* found fresh or expired.                                                 *)
(***************************************************************************)
EXTENDS Naturals, FiniteSets

CONSTANTS
    Callers,        \* refresh calls, each used once
    Invalidators,   \* invalidate_stale_revision calls, each used once
    Authorities,    \* account generation and credential revision
    Reports,        \* what a discovery may report
    ReplicaOf,      \* the process a caller runs in
    MaxPermits,     \* max_concurrent_discoveries
    MaxTries,       \* MAX_CONFLICT_RETRIES
    MaxFaults,      \* bound: failed requests and dropped calls
    None            \* no fence, snapshot, flight or outcome

\* What begin_discovery grants, what is committed and what a call returns.
Fence == [auth : Authorities, epoch : Nat, token : Callers]
Snapshot == [fence : Fence, report : Reports]
Outcome ==
    [kind : {"cached", "refreshed", "won_by_other", "error"},
     snapshot : Snapshot \cup {None}]

ASSUME NoneAssumption ==
    /\ None \notin Fence /\ None \notin Snapshot /\ None \notin Outcome

ASSUME ConfigAssumption ==
    /\ MaxPermits \in Nat \ {0} /\ MaxTries \in Nat \ {0}
    /\ MaxFaults \in Nat
    /\ Callers \cap Invalidators = {}

VARIABLES
    resource,   \* the CRD: rv (0: absent), last epoch, authority, snapshot
    late,       \* writes that nobody waits for, for the current rv
    pc,         \* where each caller and invalidator is
    auth,       \* the authority it was called for
    seen,       \* the resourceVersion it read
    tries,      \* attempts left in its conflict loop
    flight,     \* the flight a caller has joined
    listed,     \* the flights of the services' lists
    result,     \* the published result of each flight
    fence,      \* the fence begin_discovery granted to a caller
    outcome,    \* what a caller is about to return or has returned
    faults,     \* failed requests and dropped calls so far
    committed,  \* history: every snapshot the CRD has held
    purged      \* history: the epoch at the last invalidation of an authority

store == << resource, late, committed, purged >>
service == << flight, listed, result >>
vars == << resource, late, pc, auth, seen, tries, flight, listed, result,
           fence, outcome, faults, committed, purged >>

Processes == Callers \cup Invalidators

Permitted ==   \* perform_refresh holds a permit
    { "begin", "create", "beginWrite", "discover", "put", "putWrite", "winner" }
Performing == Permitted \cup {"permit", "publish"}  \* no result yet
Gated == Performing \cup {"unlist"}
Joined == Gated \cup {"gate"}          \* the call holds its Arc<Flight>
Writing == {"create", "beginWrite", "putWrite", "invWrite"}

Failed == [kind |-> "error", snapshot |-> None]
Ok(k, s) == [kind |-> k, snapshot |-> s]

Init ==
    /\ resource = [rv |-> 0, epoch |-> 0, authority |-> None, snapshot |-> None]
    /\ late = {}
    /\ pc = [p \in Processes |-> "idle"]
    /\ auth = [p \in Processes |-> None]
    /\ seen = [p \in Processes |-> 0]
    /\ tries = [p \in Processes |-> MaxTries]
    /\ flight = [c \in Callers |-> None]
    /\ listed = {}
    /\ result = [c \in Callers |-> None]
    /\ fence = [c \in Callers |-> None]
    /\ outcome = [c \in Callers |-> None]
    /\ faults = 0
    /\ committed = {}
    /\ purged = [a \in Authorities |-> 0]

Fault == faults < MaxFaults /\ faults' = faults + 1

Goto(p, l) == pc' = [pc EXCEPT ![p] = l]

(***************************************************************************)
(* The Kubernetes API server                                               *)
(***************************************************************************)

active_matches(a) == resource.authority /= None /\ resource.authority.auth = a
snapshot_matches(a) == resource.snapshot /= None /\ resource.snapshot.fence.auth = a

\* Mutant: the snapshot is dropped, its writer keeps its authority.
invalidatedSnapshotOnly(a) ==
    [ resource EXCEPT !.rv = @ + 1,
        !.snapshot = IF snapshot_matches(a) THEN None ELSE @ ]

\* The CRD after an invalidation of a: the writer of that authority is fenced
\* off by an epoch nobody owns.
invalidated(a) ==
    [ resource EXCEPT !.rv = @ + 1,
        !.epoch = IF active_matches(a) THEN @ + 1 ELSE @,
        !.authority = IF active_matches(a) THEN None ELSE @,
        !.snapshot = IF snapshot_matches(a) THEN None ELSE @ ]

next_fence(p) ==
    [auth |-> auth[p], epoch |-> resource.epoch + 1, token |-> p]

\* The write a process sends from where it is.  Its body was made from the
\* resource it read, which is the current one if the write is accepted.
Request(p) ==
    [kind |-> pc[p], by |-> p,
     snapshot |-> IF pc[p] = "putWrite" THEN outcome[p].snapshot ELSE None]

written(w) ==
    CASE w.kind = "create" -> [resource EXCEPT !.rv = @ + 1]
      [] w.kind = "beginWrite" ->
            [resource EXCEPT !.rv = @ + 1, !.epoch = @ + 1,
                             !.authority = next_fence(w.by)]
      [] w.kind = "putWrite" -> [resource EXCEPT !.rv = @ + 1, !.snapshot = w.snapshot]
      [] w.kind = "invWrite" -> invalidated(auth[w.by])

\* Executing a write settles every other write for the same resourceVersion.
Execute(w) ==
    /\ resource' = written(w)
    /\ late' = {}
    /\ committed' = committed \cup ({resource'.snapshot} \ {None})
    /\ purged' = IF w.kind = "invWrite"
                   THEN [purged EXCEPT ![auth[w.by]] = resource'.epoch]
                   ELSE purged

\* The write of a process that no longer waits for it.
Abandon(p) ==
    /\ late' = IF pc[p] \in Writing /\ seen[p] = resource.rv
                 THEN late \cup {Request(p)} ELSE late
    /\ UNCHANGED << resource, committed, purged >>

LateWrite ==
    /\ \E w \in late : Execute(w)
    /\ UNCHANGED << faults, pc, auth, seen, tries, service, fence, outcome >>

(***************************************************************************)
(* Conflict loops: a read, then a conditional write, at most MaxTries      *)
(* times                                                                   *)
(***************************************************************************)

\* A loop is over: what it had read and counted is forgotten.
EndLoop(p) ==
    /\ seen' = [seen EXCEPT ![p] = 0]
    /\ tries' = [tries EXCEPT ![p] = MaxTries]

\* A caller whose perform_refresh failed publishes the error; an invalidation
\* returns it.
Fail(p) ==
    /\ IF p \in Callers
         THEN /\ outcome' = [outcome EXCEPT ![p] = Failed]
              /\ Goto(p, IF pc[p] = "get" THEN "done" ELSE "publish")
         ELSE UNCHANGED outcome /\ Goto(p, "done")
    /\ EndLoop(p)

\* Where a loop goes back to, and where it goes on, from its write.
LoopStart(l) ==
    CASE l \in {"create", "beginWrite"} -> "begin"
      [] l = "putWrite" -> "put"
      [] l = "invWrite" -> "invRead"
After(l) ==
    CASE l = "create" -> "beginWrite"
      [] l = "beginWrite" -> "discover"
      [] l = "putWrite" -> "publish"
      [] l = "invWrite" -> "done"

WriteAccepted(p) ==
    /\ pc[p] \in Writing
    /\ seen[p] = resource.rv
    /\ Execute(Request(p))
    /\ Goto(p, After(pc[p]))
    /\ IF pc[p] = "create"
         THEN seen' = [seen EXCEPT ![p] = resource'.rv] /\ UNCHANGED tries
         ELSE EndLoop(p)
    /\ fence' = IF pc[p] = "beginWrite"
                  THEN [fence EXCEPT ![p] = next_fence(p)] ELSE fence
    /\ UNCHANGED << faults, auth, service, outcome >>

WriteConflict(p) ==
    /\ pc[p] \in Writing
    /\ seen[p] /= resource.rv
    /\ IF tries[p] = 1
         THEN Fail(p)
         ELSE /\ tries' = [tries EXCEPT ![p] = @ - 1]
              /\ seen' = [seen EXCEPT ![p] = 0]
              /\ Goto(p, LoopStart(pc[p]))
              /\ UNCHANGED outcome
    /\ UNCHANGED << faults, store, auth, service, fence >>

WriteUnanswered(p) ==
    /\ pc[p] \in Writing
    /\ Fault
    /\ Abandon(p)
    /\ Fail(p)
    /\ UNCHANGED << auth, service, fence >>

ReadFailed(p) ==
    /\ pc[p] \in {"get", "begin", "put", "winner", "invList", "invRead"}
    /\ Fault
    /\ Fail(p)
    /\ UNCHANGED << store, auth, service, fence >>

Loop(p) ==
    WriteAccepted(p) \/ WriteConflict(p) \/ WriteUnanswered(p) \/ ReadFailed(p)

\* The resource is read and the process goes on at l.
Read(p, l) ==
    /\ seen' = [seen EXCEPT ![p] = resource.rv]
    /\ Goto(p, l)
    /\ UNCHANGED << auth, tries, service >>

(***************************************************************************)
(* get_or_refresh and refresh                                              *)
(***************************************************************************)

\* A caller asks for the cached snapshot first, or for a refresh outright.
Call(c) ==
    /\ pc[c] = "idle"
    /\ \E a \in Authorities : auth' = [auth EXCEPT ![c] = a]
    /\ \E l \in {"get", "join"} : Goto(c, l)
    /\ UNCHANGED << faults, store, seen, tries, service, fence, outcome >>

\* A snapshot of another generation or revision is never reused; one of the
\* caller's is unless its lifetime is over.
is_reusable(c) == snapshot_matches(auth[c])

GetCached(c) ==
    /\ pc[c] = "get"
    /\ is_reusable(c)
    /\ outcome' = [outcome EXCEPT ![c] = Ok("cached", resource.snapshot)]
    /\ Goto(c, "done")
    /\ UNCHANGED << faults, store, auth, seen, tries, service, fence >>

GetMissed(c) ==
    /\ pc[c] = "get"
    /\ Goto(c, "join")
    /\ UNCHANGED << faults, store, auth, seen, tries, service, fence, outcome >>

\* The list holds weak references: a flight nobody is in any more is dropped.
Alive(f) == \E c \in Callers : flight[c] = f /\ pc[c] \in Joined

SameKey(c, f) == ReplicaOf[c] = ReplicaOf[f] /\ auth[c] = auth[f]

\* Mutant: every caller opens a flight.
joinAlone(c) ==
    /\ pc[c] = "join"
    /\ flight' = [flight EXCEPT ![c] = c]
    /\ listed' = listed \cup {c}
    /\ Goto(c, "gate")
    /\ UNCHANGED << faults, store, auth, seen, tries, result, fence, outcome >>

Join(c) ==
    /\ pc[c] = "join"
    /\ LET live == {f \in listed : ReplicaOf[f] = ReplicaOf[c] => Alive(f)}
           mine == {f \in live : SameKey(c, f)}
       IN IF mine = {}
            THEN /\ flight' = [flight EXCEPT ![c] = c]
                 /\ listed' = live \cup {c}
            ELSE /\ \E f \in mine : flight' = [flight EXCEPT ![c] = f]
                 /\ listed' = live
    /\ Goto(c, "gate")
    /\ UNCHANGED << faults, store, auth, seen, tries, result, fence, outcome >>

GateFree(f) == \A c \in Callers : flight[c] = f => pc[c] \notin Gated

\* With the gate a caller returns the result it finds, or performs the
\* refresh itself.
Gate(c) ==
    /\ pc[c] = "gate"
    /\ GateFree(flight[c])
    /\ IF result[flight[c]] /= None
         THEN /\ outcome' = [outcome EXCEPT ![c] = result[flight[c]]]
              /\ Goto(c, "done")
         ELSE UNCHANGED outcome /\ Goto(c, "permit")
    /\ UNCHANGED << faults, store, auth, seen, tries, service, fence >>

Publish(c) ==
    /\ pc[c] = "publish"
    /\ result' = [result EXCEPT ![flight[c]] = outcome[c]]
    /\ Goto(c, "unlist")
    /\ UNCHANGED << faults, store, auth, seen, tries, flight, listed, fence, outcome >>

\* Afterwards the flight is taken off the list, and the result returned.
Unlist(c) ==
    /\ pc[c] = "unlist"
    /\ listed' = listed \ {flight[c]}
    /\ Goto(c, "done")
    /\ UNCHANGED << faults, store, auth, seen, tries, flight, result, fence, outcome >>

\* The caller's future is dropped at an await.
Cancel(c) ==
    /\ pc[c] \notin {"idle", "done"}
    /\ Fault
    /\ Abandon(c)
    /\ outcome' = [outcome EXCEPT ![c] = None]
    /\ Goto(c, "done")
    /\ EndLoop(c)
    /\ UNCHANGED << auth, service, fence >>

(***************************************************************************)
(* perform_refresh                                                         *)
(***************************************************************************)

Acquire(c) ==
    /\ pc[c] = "permit"
    /\ Cardinality({d \in Callers :
          ReplicaOf[d] = ReplicaOf[c] /\ pc[d] \in Permitted}) < MaxPermits
    /\ Goto(c, "begin")
    /\ UNCHANGED << faults, store, auth, seen, tries, service, fence, outcome >>

\* begin_discovery: the CRD is created where there is none.
Begin(c) ==
    /\ pc[c] = "begin"
    /\ Read(c, IF resource.rv = 0 THEN "create" ELSE "beginWrite")
    /\ UNCHANGED << faults, store, fence, outcome >>

\* The discoverer's report, or a failure made up for an error, a timeout, an
\* invalid report or a missing adapter.
Discover(c) ==
    /\ pc[c] = "discover"
    /\ \E r \in Reports :
          outcome' = [outcome EXCEPT ![c] =
                        Ok("refreshed", [fence |-> fence[c], report |-> r])]
    /\ Goto(c, "put")
    /\ UNCHANGED << faults, store, auth, seen, tries, service, fence >>

\* put_if_current: another fence in the CRD is the end of this one.
PutLost(c) ==
    /\ pc[c] = "put"
    /\ resource.authority /= fence[c]
    /\ Goto(c, "winner")
    /\ EndLoop(c)
    /\ UNCHANGED << faults, store, auth, service, fence, outcome >>

\* Mutant: the fence is not compared with the authority.
putUnfenced(c) ==
    /\ pc[c] = "put"
    /\ Read(c, "putWrite")
    /\ UNCHANGED << faults, store, fence, outcome >>

\* A snapshot that is there under the same fence is this one, or a conflict.
PutCurrent(c) ==
    /\ pc[c] = "put"
    /\ resource.authority = fence[c]
    /\ IF resource.snapshot = None \/ resource.snapshot.fence /= fence[c]
         THEN Read(c, "putWrite") /\ UNCHANGED outcome
         ELSE /\ IF resource.snapshot = outcome[c].snapshot
                   THEN Goto(c, "publish") /\ EndLoop(c) /\ UNCHANGED outcome
                   ELSE Fail(c)
              /\ UNCHANGED << auth, service >>
    /\ UNCHANGED << faults, store, fence >>

\* Mutant: any newer snapshot will do.
winnerOfAnyAuthority(c, s) == s.fence.epoch > fence[c].epoch

\* Whose snapshot a caller that lost its fence may return.
validate_winner(c, s) ==
    s.fence.auth = auth[c] /\ s.fence.epoch > fence[c].epoch

WinnerFound(c) ==
    /\ pc[c] = "winner"
    /\ resource.snapshot /= None
    /\ validate_winner(c, resource.snapshot)
    /\ outcome' = [outcome EXCEPT ![c] = Ok("won_by_other", resource.snapshot)]
    /\ Goto(c, "publish")
    /\ UNCHANGED << faults, store, auth, seen, tries, service, fence >>

\* The poll ends with the discovery timeout.
WinnerTimeout(c) ==
    /\ pc[c] = "winner"
    /\ Fail(c)
    /\ UNCHANGED << faults, store, auth, service, fence >>

Perform(c) ==
    \/ Acquire(c) \/ Begin(c) \/ Discover(c) \/ PutLost(c) \/ PutCurrent(c)
    \/ WinnerFound(c) \/ WinnerTimeout(c)

(***************************************************************************)
(* invalidate_stale_revision                                               *)
(***************************************************************************)

CallInvalidate(i) ==
    /\ pc[i] = "idle"
    /\ \E a \in Authorities : auth' = [auth EXCEPT ![i] = a]
    /\ Goto(i, "invList")
    /\ UNCHANGED << faults, store, seen, tries, service, fence, outcome >>

\* Nothing of the authority is stored: there is nothing to write.
InvalidateNothing(i) ==
    /\ \/ pc[i] = "invList" /\ resource.rv = 0
       \/ pc[i] = "invRead" /\ ~active_matches(auth[i]) /\ ~snapshot_matches(auth[i])
    /\ purged' = [purged EXCEPT ![auth[i]] = resource.epoch]
    /\ Goto(i, "done")
    /\ EndLoop(i)
    /\ UNCHANGED << faults, resource, late, committed, auth, service, fence, outcome >>

InvalidateList(i) ==
    /\ pc[i] = "invList" /\ resource.rv > 0
    /\ Goto(i, "invRead")
    /\ UNCHANGED << faults, store, auth, seen, tries, service, fence, outcome >>

InvalidateRead(i) ==
    /\ pc[i] = "invRead"
    /\ active_matches(auth[i]) \/ snapshot_matches(auth[i])
    /\ Read(i, "invWrite")
    /\ UNCHANGED << faults, store, fence, outcome >>

Invalidate(i) ==
    InvalidateNothing(i) \/ InvalidateList(i) \/ InvalidateRead(i)

(***************************************************************************)
(* The specification                                                       *)
(***************************************************************************)

Handle(c) ==
    \/ GetCached(c) \/ GetMissed(c) \/ Join(c) \/ Gate(c) \/ Perform(c)
    \/ Publish(c) \/ Unlist(c) \/ Loop(c)

\* All calls have returned.  No other state is without a step, and no step but
\* this one leads back, so that every call returns if it is polled.
Terminated ==
    /\ \A p \in Processes : pc[p] = "done"
    /\ UNCHANGED vars

Next ==
    \/ \E c \in Callers : Call(c) \/ Handle(c) \/ Cancel(c)
    \/ \E i \in Invalidators : CallInvalidate(i) \/ Invalidate(i) \/ Loop(i)
    \/ LateWrite
    \/ Terminated

Spec == Init /\ [][Next]_vars

(***************************************************************************)
(* Properties                                                              *)
(***************************************************************************)

Write == [kind : Writing, by : Processes, snapshot : Snapshot \cup {None}]
CallerPlaces == {"idle", "get", "join", "done"} \cup Joined
InvalidatorPlaces == {"idle", "invList", "invRead", "invWrite", "done"}

\* The resource, the calls and the flights have their type.
TypeOK ==
    /\ resource \in [rv : Nat, epoch : Nat, authority : Fence \cup {None},
                     snapshot : Snapshot \cup {None}]
    /\ late \subseteq Write
    /\ pc \in [Processes -> CallerPlaces \cup InvalidatorPlaces]
    /\ \A c \in Callers : pc[c] \in CallerPlaces
    /\ \A i \in Invalidators : pc[i] \in InvalidatorPlaces
    /\ auth \in [Processes -> Authorities \cup {None}]
    /\ seen \in [Processes -> Nat]
    /\ tries \in [Processes -> Nat \ {0}]
    /\ flight \in [Callers -> Callers \cup {None}]
    /\ listed \subseteq Callers
    /\ result \in [Callers -> Outcome \cup {None}]
    /\ fence \in [Callers -> Fence \cup {None}]
    /\ outcome \in [Callers -> Outcome \cup {None}]
    /\ faults \in Nat
    /\ committed \subseteq Snapshot
    /\ purged \in [Authorities -> Nat]

\* Concurrent callers of a process with one account authority cause one
\* discovery at a time, although the one in charge may be dropped, its flight
\* may be taken off the list and new callers open another one.
OneDiscoveryPerAuthority ==
    \A c, d \in Callers :
        pc[c] \in Performing /\ pc[d] \in Performing /\ SameKey(c, d) => c = d

\* What a call returns was committed, under exactly the authority it asked
\* for, and not before the discovery of its own that it stands for.
OutcomeIsAuthoritative ==
    \A c \in Callers :
        pc[c] = "done" /\ outcome[c] \notin {None, Failed} =>
            /\ outcome[c].snapshot \in committed
            /\ outcome[c].snapshot.fence.auth = auth[c]
            /\ fence[c] /= None => outcome[c].snapshot.fence.epoch >= fence[c].epoch

\* Once an invalidation has returned, no discovery that was in flight brings
\* the invalidated authority back: a snapshot of it is from a later discovery.
InvalidatedStaysOut ==
    \A a \in Authorities :
        snapshot_matches(a) => resource.snapshot.fence.epoch > purged[a]

\* The loops over the CRD implement the operations that the SQL store performs
\* in one statement.
Promise == INSTANCE SnapshotStore WITH
    epoch <- resource.epoch, authority <- resource.authority,
    snapshot <- resource.snapshot, Tokens <- Callers
ImplementsSnapshotStore == Promise!Spec
=============================================================================
