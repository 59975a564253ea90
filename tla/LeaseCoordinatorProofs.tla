----------------------- MODULE LeaseCoordinatorProofs -----------------------
(***************************************************************************)
(* Proofs about LeaseCoordinator, for any number of replicas and sessions, *)
(* any durations and any number of attempts: the compare-and-swap loops    *)
(* implement the coordinator's promise, a Lease is taken over only after   *)
(* its silence, and the displaced owner's trust ends within a bound.       *)
(***************************************************************************)
EXTENDS LeaseCoordinator, TLAPS

(***************************************************************************)
(* The inductive invariant                                                 *)
(***************************************************************************)

\* Epochs are granted once each, and the Lease carries the latest.
GrantsConsistent ==
    /\ lease.holder = NoReplica <=> lease.token = NoSession
    /\ \A t \in Sessions : granted[t] <= lease.epoch
    /\ lease.token \in Sessions => granted[lease.token] = lease.epoch
    /\ \A s, t \in Sessions : granted[s] > 0 /\ granted[s] = granted[t] => s = t

\* A session has been granted its fence when acquire returned, and while it
\* believes in it, and nothing before its PUT was accepted.
SessionsConsistent ==
    \A s \in Sessions :
        /\ pc[s] \in {"idle", "acquireGet", "acquireSent"} => granted[s] = 0
        /\ pc[s] \in Pc \ {"idle", "acquireGet", "acquireSent", "done"} =>
             granted[s] = fence[s] /\ fence[s] > 0
        /\ valid[s] => granted[s] = fence[s] /\ fence[s] > 0
        /\ pc[s] \in {"idle", "acquireGet", "acquireSent"} => ~valid[s]

\* What a PUT that the server would accept was computed from is still what the
\* Lease holds.
Current(p) ==
    /\ p.op = "acquire" =>
         p.epoch = lease.epoch + 1 /\ granted[p.session] = 0
    /\ p.op \in {"renew", "release"} => lease.token = p.session

PutsConsistent ==
    /\ \A s \in Sessions :
         pc[s] \in Sent =>
           /\ call[s].base <= lease.rv
           /\ call[s].base = lease.rv => Current(PutOf(s))
    /\ \A p \in late :
         /\ p.rv = lease.rv
         /\ Current(p)
         /\ p.op \in {"acquire", "release"} => pc[p.session] = "done"

IInv ==
    /\ TypeOK
    /\ GrantsConsistent
    /\ SessionsConsistent
    /\ PutsConsistent

(***************************************************************************)
(* What the building blocks of the actions do                              *)
(***************************************************************************)

\* A session's PUT is a PUT.
LEMMA PutOfType ==
    ASSUME TypeOK, NEW s \in Sessions
    PROVE  /\ PutOf(s) \in Put
           /\ PutOf(s).session = s
           /\ PutOf(s).rv = call[s].base
           /\ PutOf(s).epoch = fence[s]
           /\ PutOf(s).op = "acquire" <=> pc[s] = "acquireSent"
           /\ pc[s] = "renewSent" => PutOf(s).op = "renew"
           /\ pc[s] = "releaseSent" => PutOf(s).op = "release"
  BY DEF TypeOK, PutOf, Put, Operation, CallRecord

\* What the server stores is a Lease with the next resourceVersion.
LEMMA WrittenType ==
    ASSUME TypeOK, NEW p \in Put
    PROVE  /\ written(p) \in Lease
           /\ written(p).rv = lease.rv + 1
           /\ p.op = "acquire" =>
                /\ written(p).holder = ReplicaOf[p.session]
                /\ written(p).token = p.session
                /\ written(p).epoch = p.epoch
           /\ p.op = "renew" =>
                /\ written(p).holder = lease.holder
                /\ written(p).token = lease.token
                /\ written(p).epoch = lease.epoch
           /\ p.op = "release" =>
                /\ written(p).holder = NoReplica
                /\ written(p).token = NoSession
                /\ written(p).epoch = lease.epoch
<1>1. lease \in Lease /\ ReplicaOf[p.session] \in Replicas
  BY ReplicaOfAssumption DEF TypeOK, Put
<1>2. CASE p.op = "acquire"
  BY <1>1, <1>2 DEF written, Lease, Put
<1>3. CASE p.op = "renew"
  <2>1. written(p) = [lease EXCEPT !.rv = @ + 1]
    BY <1>3 DEF written
  <2> QED
    BY <1>1, <1>3, <2>1 DEF Lease
<1>4. CASE p.op = "release"
  <2>1. written(p) = [lease EXCEPT !.rv = @ + 1, !.holder = NoReplica,
                                   !.token = NoSession]
    BY <1>4 DEF written
  <2>2. written(p) \in Lease
    <3>1. [lease EXCEPT !.rv = @ + 1] \in Lease
      BY <1>1 DEF Lease
    <3>2. [[lease EXCEPT !.rv = @ + 1] EXCEPT !.holder = NoReplica] \in Lease
      BY <3>1 DEF Lease
    <3> QED
      BY <2>1, <3>2 DEF Lease
  <2>3. /\ written(p).rv = lease.rv + 1 /\ written(p).holder = NoReplica
        /\ written(p).token = NoSession /\ written(p).epoch = lease.epoch
    BY <1>1, <2>1 DEF Lease
  <2> QED
    BY <1>4, <2>2, <2>3
<1> QED
  BY <1>2, <1>3, <1>4 DEF Put, Operation

\* A call that returns, begins or sends its PUT changes its own session only.
LEMMA ReturnEffect ==
    ASSUME TypeOK, NEW s \in Sessions, NEW to \in Pc, Return(s, to)
    PROVE  /\ pc' = [pc EXCEPT ![s] = to] /\ pc' \in [Sessions -> Pc]
           /\ call' \in [Sessions -> CallRecord]
           /\ \A t \in Sessions : t /= s => call'[t] = call[t]
  BY DEF TypeOK, Return, CallRecord, NoCall

LEMMA SendEffect ==
    ASSUME TypeOK, NEW s \in Sessions, NEW to \in Pc, Send(s, to)
    PROVE  /\ pc' = [pc EXCEPT ![s] = to] /\ pc' \in [Sessions -> Pc]
           /\ call' \in [Sessions -> CallRecord]
           /\ call'[s].base = lease.rv
           /\ \A t \in Sessions : t /= s => call'[t] = call[t]
  BY DEF TypeOK, Send, CallRecord, Lease

LEMMA BeginEffect ==
    ASSUME TypeOK, NEW s \in Sessions, NEW to \in Pc, Begin(s, to)
    PROVE  /\ pc' = [pc EXCEPT ![s] = to] /\ pc' \in [Sessions -> Pc]
           /\ call' \in [Sessions -> CallRecord]
           /\ \A t \in Sessions : t /= s => call'[t] = call[t]
  BY DEF TypeOK, Begin, CallRecord

LEMMA ConflictEffect ==
    ASSUME TypeOK, NEW s \in Sessions, Conflict(s)
    PROVE  /\ pc'[s] \in Reading
           /\ pc[s] = "acquireSent" => pc'[s] = "acquireGet"
           /\ pc[s] /= "acquireSent" => pc'[s] \in {"renewGet", "releaseGet"}
           /\ pc' = [pc EXCEPT ![s] = again(pc[s])] /\ pc' \in [Sessions -> Pc]
           /\ call' \in [Sessions -> CallRecord]
           /\ \A t \in Sessions : t /= s => call'[t] = call[t]
           /\ UNCHANGED << now, server, obs, fence, valid, timer >>
<1>1. pc' \in [Sessions -> Pc] /\ pc'[s] = again(pc[s])
  BY DEF TypeOK, Conflict, Sent, again, Pc, Calling, Reading
<1>2. call[s].attempts + 1 \in Nat
  BY DEF TypeOK, CallRecord
<1>3. /\ call' \in [Sessions -> CallRecord]
      /\ \A t \in Sessions : t /= s => call'[t] = call[t]
  BY <1>2 DEF TypeOK, Conflict, CallRecord
<1> QED
  BY <1>1, <1>3 DEF Conflict, Sent, again, Reading

LEMMA AbandonedType ==
    ASSUME TypeOK, NEW S \in SUBSET Sessions
    PROVE  abandoned(S) \subseteq Put
  BY PutOfType DEF abandoned

LEMMA ExecuteType ==
    ASSUME TypeOK, NEW p \in Put, execute(p)
    PROVE  /\ lease' \in Lease /\ late' \subseteq Put
           /\ granted' \in [Sessions -> Nat]
           /\ writtenAt' \in Nat /\ takenAt' \in Nat
  BY WrittenType DEF TypeOK, execute, Put

(***************************************************************************)
(* Types                                                                   *)
(***************************************************************************)

\* Every action keeps the type invariant.
LEMMA TypePreserved == TypeOK /\ [Next]_vars => TypeOK'
<1> SUFFICES ASSUME TypeOK, [Next]_vars PROVE TypeOK'
  OBVIOUS
<1> USE NamesAssumption, ReplicaOfAssumption, TimesAssumption
<1>0. renew_after \in Nat
  BY DEF renew_after
<1>a. \A r \in Replicas, t \in Nat : observed(r, t) \in [rv : Nat, at : Nat]
  BY DEF TypeOK, observed, Lease
<1>b. {"idle", "starting", "held", "dropped", "done", "acquireGet", "renewGet",
       "releaseGet", "acquireSent", "renewSent", "releaseSent", "acquireOk",
       "renewOk", "releaseOk"} = Pc
  BY DEF Pc, Calling, Reading, Sent, Answered
<1>t. NoTimer \in Timer
  BY DEF NoTimer, Timer
<1>1. ASSUME NEW s \in Sessions, StartAcquire(s) \/ StartRenew(s) PROVE TypeOK'
  BY <1>1, <1>b, BeginEffect DEF StartAcquire, StartRenew, TypeOK, server
<1>r. ASSUME NEW s \in Sessions, Reject(s) \/ Close(s) PROVE TypeOK'
  <2>1. /\ Begin(s, "releaseGet") /\ timer' = [timer EXCEPT ![s] = NoTimer]
        /\ valid' = valid \/ valid' = [valid EXCEPT ![s] = FALSE]
        /\ UNCHANGED << now, server, obs, fence >>
    BY <1>r DEF Reject, Close, Revoke
  <2>2. pc' \in [Sessions -> Pc] /\ call' \in [Sessions -> CallRecord]
    BY <1>b, <2>1, BeginEffect
  <2>3. timer' \in [Sessions -> Timer] /\ valid' \in [Sessions -> BOOLEAN]
    BY <1>t, <2>1 DEF TypeOK
  <2> QED
    BY <2>1, <2>2, <2>3 DEF TypeOK, server
<1>k. ASSUME NEW s \in Sessions, StartKeeper(s) \/ Dropped(s) PROVE TypeOK'
  <2>1. pc' \in [Sessions -> Pc] /\ UNCHANGED << now, server, obs, call, fence, valid >>
    BY <1>k, <1>b DEF StartKeeper, Dropped, GoTo, TypeOK
  <2>2. timer' \in [Sessions -> Timer]
    <3>1. CASE Dropped(s)
      BY <1>t, <3>1 DEF Dropped, TypeOK
    <3>2. CASE StartKeeper(s)
      <4>1. timer \in [Sessions -> Timer] /\ now + Duration \in Nat
              /\ now + renew_after \in Nat
        BY <1>0 DEF TypeOK
      <4> QED
        BY <3>2, <4>1 DEF StartKeeper, Timer
    <3> QED
      BY <1>k, <3>1, <3>2
  <2> QED
    BY <2>1, <2>2 DEF TypeOK, server
<1>2. ASSUME NEW s \in Sessions, AcquireGet(s) PROVE TypeOK'
  <2>1. pc' \in [Sessions -> Pc] /\ call' \in [Sessions -> CallRecord]
    BY <1>2, <1>b, ReturnEffect, SendEffect DEF AcquireGet
  <2>2. obs' \in [Replicas -> [rv : Nat, at : Nat]]
    BY <1>2, <1>a DEF AcquireGet, observe, TypeOK, CallRecord
  <2>3. fence' \in [Sessions -> Nat]
    <3>1. fence \in [Sessions -> Nat] /\ lease.epoch + 1 \in Nat
      BY DEF TypeOK, Lease
    <3> QED
      BY <1>2, <3>1 DEF AcquireGet, next_epoch
  <2> QED
    BY <1>2, <2>1, <2>2, <2>3 DEF AcquireGet, TypeOK, server
<1>3. ASSUME NEW s \in Sessions, Acquired(s) \/ Renewed(s) PROVE TypeOK'
  <2>1. pc' \in [Sessions -> Pc] /\ call' \in [Sessions -> CallRecord]
    BY <1>3, <1>b, ReturnEffect DEF Acquired, Renewed
  <2>2. timer' \in [Sessions -> Timer] /\ valid' \in [Sessions -> BOOLEAN]
    <3>1. timer \in [Sessions -> Timer] /\ valid \in [Sessions -> BOOLEAN]
      BY DEF TypeOK
    <3>2. [deadline |-> now + Duration, wakeAt |-> now + renew_after,
           unkept |-> 0] \in Timer
      BY <1>0 DEF Timer, TypeOK
    <3>3. timer' \in [Sessions -> Timer]
      BY <1>3, <3>1, <3>2 DEF Acquired, Renewed
    <3>4. valid' \in [Sessions -> BOOLEAN]
      BY <1>3, <3>1 DEF Acquired, Renewed
    <3> QED
      BY <3>3, <3>4
  <2> QED
    BY <1>3, <2>1, <2>2 DEF Acquired, Renewed, TypeOK, server
<1>4. ASSUME NEW s \in Sessions, RenewGet(s) \/ ReleaseGet(s) PROVE TypeOK'
  <2>1. pc' \in [Sessions -> Pc] /\ call' \in [Sessions -> CallRecord]
    BY <1>4, <1>b, ReturnEffect, SendEffect, BeginEffect
       DEF RenewGet, ReleaseGet, Revoke
  <2>2. timer' \in [Sessions -> Timer] /\ valid' \in [Sessions -> BOOLEAN]
    <3>1. timer \in [Sessions -> Timer] /\ valid \in [Sessions -> BOOLEAN]
      BY DEF TypeOK
    <3>2. \/ timer' = timer /\ valid' = valid
          \/ /\ timer' = [timer EXCEPT ![s] = NoTimer]
             /\ valid' = [valid EXCEPT ![s] = FALSE]
      BY <1>4 DEF RenewGet, ReleaseGet, Revoke
    <3> QED
      BY <1>t, <3>1, <3>2
  <2> QED
    BY <1>4, <2>1, <2>2 DEF RenewGet, ReleaseGet, TypeOK, server
<1>5. ASSUME NEW s \in Sessions, Released(s) PROVE TypeOK'
  BY <1>5, <1>b, ReturnEffect DEF Released, TypeOK, server
<1>6. ASSUME NEW s \in Sessions, Accept(s) PROVE TypeOK'
  <2>1. PutOf(s) \in Put /\ execute(PutOf(s))
    BY <1>6, PutOfType DEF Accept
  <2>2. pc' \in [Sessions -> Pc]
    BY <1>6, <1>b DEF Accept, answer, TypeOK
  <2> QED
    BY <1>6, <2>1, <2>2, ExecuteType DEF Accept, TypeOK
<1>7. ASSUME NEW s \in Sessions, Conflict(s) PROVE TypeOK'
  BY <1>7, ConflictEffect DEF TypeOK, server
<1>8. ASSUME NEW s \in Sessions,
             \/ AcquireFailed(s) \/ RenewFailed(s) \/ RenewExpired(s)
             \/ ReleaseFailed(s)
      PROVE  TypeOK'
  <2>1. timer' \in [Sessions -> Timer] /\ valid' \in [Sessions -> BOOLEAN]
    <3>1. timer \in [Sessions -> Timer] /\ valid \in [Sessions -> BOOLEAN]
          /\ now + renew_after \in Nat
      BY <1>0 DEF TypeOK
    <3>2. /\ valid' = valid \/ valid' = [valid EXCEPT ![s] = FALSE]
          /\ \/ timer' = timer
             \/ timer' = [timer EXCEPT ![s] = NoTimer]
             \/ timer' = [timer EXCEPT ![s].wakeAt = now + renew_after]
      BY <1>8 DEF AcquireFailed, RenewFailed, RenewExpired, ReleaseFailed, Revoke
    <3>3. valid' \in [Sessions -> BOOLEAN]
      BY <3>1, <3>2
    <3>4. [timer[s] EXCEPT !.wakeAt = now + renew_after] \in Timer
      BY <3>1 DEF Timer
    <3>5. timer' \in [Sessions -> Timer]
      BY <1>t, <3>1, <3>2, <3>4
    <3> QED
      BY <3>3, <3>5
  <2>2. GiveUp(s) /\ \E to \in Pc : Return(s, to) \/ Begin(s, to)
    BY <1>8, <1>b
       DEF AcquireFailed, RenewFailed, RenewExpired, ReleaseFailed, Revoke
  <2>3. late' \subseteq Put
    BY <2>2, AbandonedType DEF GiveUp, TypeOK
  <2>4. pc' \in [Sessions -> Pc] /\ call' \in [Sessions -> CallRecord]
    BY <2>2, ReturnEffect, BeginEffect
  <2> QED
    BY <2>1, <2>2, <2>3, <2>4 DEF GiveUp, TypeOK
<1>9. ASSUME NEW p \in late, AcceptLate(p) PROVE TypeOK'
  BY <1>9, ExecuteType DEF AcceptLate, TypeOK
<1>10. ASSUME NEW r \in Replicas, Crash(r) PROVE TypeOK'
  <2> DEFINE dying == {s \in Sessions : ReplicaOf[s] = r /\ pc[s] /= "idle"}
  <2>1. /\ pc' = [s \in Sessions |-> IF s \in dying THEN "done" ELSE pc[s]]
        /\ call' = [s \in Sessions |-> IF s \in dying THEN NoCall ELSE call[s]]
        /\ timer' =
             [s \in Sessions |-> IF s \in dying THEN NoTimer ELSE timer[s]]
        /\ late' = late \cup abandoned(dying)
    BY <1>10 DEF Crash
  <2>2. abandoned(dying) \subseteq Put
    BY AbandonedType
  <2>3. NoCall \in CallRecord /\ NoTimer \in Timer
    BY DEF NoCall, CallRecord, NoTimer, Timer
  <2> HIDE DEF dying
  <2>4. /\ pc' \in [Sessions -> Pc] /\ call' \in [Sessions -> CallRecord]
        /\ timer' \in [Sessions -> Timer] /\ late' \subseteq Put
    BY <1>b, <2>1, <2>2, <2>3 DEF TypeOK
  <2>5. /\ obs' \in [Replicas -> [rv : Nat, at : Nat]]
        /\ valid' \in [Sessions -> BOOLEAN]
    BY <1>10 DEF Crash, TypeOK
  <2> QED
    BY <1>10, <2>4, <2>5 DEF Crash, TypeOK
<1>11. CASE Tick
  <2>1. \A s \in Sessions : [timer[s] EXCEPT !.unkept = @ + 1] \in Timer
    BY DEF TypeOK, Timer
  <2>2. timer' \in [Sessions -> Timer]
    BY <1>11, <2>1 DEF Tick, TypeOK
  <2> QED
    BY <1>11, <2>2 DEF Tick, TypeOK, server
<1>12. CASE UNCHANGED vars
  BY <1>12 DEF vars, TypeOK
<1> QED
  BY <1>1, <1>r, <1>k, <1>2, <1>3, <1>4, <1>5, <1>6, <1>7, <1>8, <1>9, <1>10,
     <1>11, <1>12 DEF Next

(***************************************************************************)
(* Steps that write the Lease                                              *)
(***************************************************************************)

\* The server accepts only PUTs that are Current.  Whatever they write, epochs
\* stay unique, and every other PUT, sent or given up, is refused afterwards.
LEMMA ExecuteEffect ==
    ASSUME IInv, NEW p \in Put, accepts(p), Current(p), execute(p)
    PROVE  /\ GrantsConsistent'
           /\ late' = {}
           /\ lease.rv \in Nat /\ lease'.rv = lease.rv + 1
           /\ p.op = "acquire" =>
                p.epoch > 0 /\ granted' = [granted EXCEPT ![p.session] = p.epoch]
           /\ p.op /= "acquire" => granted' = granted
<1> USE NamesAssumption, ReplicaOfAssumption
<1>1. TypeOK /\ GrantsConsistent /\ PutsConsistent
  BY DEF IInv
<1>2. lease' = written(p) /\ lease \in Lease /\ granted \in [Sessions -> Nat]
  BY <1>1 DEF execute, TypeOK
<1>3. lease.rv \in Nat /\ lease'.rv = lease.rv + 1
  BY <1>1, <1>2, WrittenType DEF Lease
<1>4. late' = {}
  BY <1>1, <1>3 DEF execute, accepts, PutsConsistent, TypeOK, Put
<1>5. p.session \in Sessions /\ ReplicaOf[p.session] \in Replicas
  BY DEF Put
<1>6. CASE p.op = "acquire"
  <2>1. /\ lease'.holder = ReplicaOf[p.session] /\ lease'.token = p.session
        /\ lease'.epoch = lease.epoch + 1 /\ p.epoch = lease.epoch + 1
        /\ lease.epoch \in Nat
    BY <1>1, <1>2, <1>6, WrittenType DEF Current, Lease
  <2>2. granted' = [granted EXCEPT ![p.session] = lease.epoch + 1]
    BY <1>6, <2>1 DEF execute
  <2>3. \A t \in Sessions : granted[t] \in Nat /\ granted[t] <= lease.epoch
    BY <1>1, <1>2 DEF GrantsConsistent
  <2>4. GrantsConsistent'
    BY <1>1, <1>2, <1>5, <2>1, <2>2, <2>3 DEF GrantsConsistent
  <2> QED
    BY <1>3, <1>4, <1>6, <2>1, <2>2, <2>4
<1>7. CASE p.op /= "acquire"
  <2>1. granted' = granted
    BY <1>7 DEF execute
  <2>2. p.op \in {"renew", "release"}
    BY <1>7 DEF Put, Operation
  <2>3. lease'.epoch = lease.epoch
    BY <1>1, <1>2, <2>2, WrittenType
  <2>4. \/ lease'.holder = lease.holder /\ lease'.token = lease.token
        \/ lease'.holder = NoReplica /\ lease'.token = NoSession
    BY <1>1, <1>2, <2>2, WrittenType
  <2>5. GrantsConsistent'
    BY <1>1, <2>1, <2>3, <2>4 DEF GrantsConsistent
  <2> QED
    BY <1>3, <1>4, <1>7, <2>1, <2>5
<1> QED
  BY <1>6, <1>7

\* After a write no PUT that is still waiting can be accepted.
LEMMA PutsAfterWrite ==
    ASSUME IInv, lease.rv \in Nat, lease'.rv = lease.rv + 1, late' = {},
           call' = call, pc' \in [Sessions -> Pc],
           \A t \in Sessions : pc'[t] \in Sent => pc[t] \in Sent
    PROVE  PutsConsistent'
<1>1. \A t \in Sessions : pc[t] \in Sent => call[t].base <= lease.rv
  BY DEF IInv, PutsConsistent
<1>2. \A t \in Sessions : call[t].base \in Nat
  BY DEF IInv, TypeOK, CallRecord
<1> QED
  BY <1>1, <1>2 DEF PutsConsistent

\* The PUT of a waiting caller keeps the invariant ...
LEMMA AcceptPreserves ==
    ASSUME IInv, TypeOK', NEW s \in Sessions, Accept(s)
    PROVE  GrantsConsistent' /\ SessionsConsistent' /\ PutsConsistent'
<1>1. TypeOK /\ SessionsConsistent /\ PutsConsistent
  BY DEF IInv
<1>2. pc[s] \in Sent /\ accepts(PutOf(s)) /\ execute(PutOf(s)) /\ PutOf(s) \in Put
  BY <1>1, PutOfType DEF Accept
<1>3. Current(PutOf(s))
  BY <1>1, <1>2, PutOfType DEF PutsConsistent, accepts
<1>4. /\ GrantsConsistent' /\ late' = {}
      /\ lease.rv \in Nat /\ lease'.rv = lease.rv + 1
  BY <1>2, <1>3, ExecuteEffect
<1>5. /\ pc' = [pc EXCEPT ![s] = answer(pc[s])] /\ pc \in [Sessions -> Pc]
      /\ fence' = fence /\ call' = call /\ valid' = valid
  BY <1>1 DEF Accept, TypeOK
<1>6. /\ pc[s] = "acquireSent" => answer(pc[s]) = "acquireOk"
      /\ pc[s] /= "acquireSent" => answer(pc[s]) \in {"renewOk", "releaseOk"}
  BY <1>2 DEF answer, Sent
<1>7. PutsConsistent'
  <2>1. \A t \in Sessions : pc'[t] \in Sent => pc[t] \in Sent
    BY <1>2, <1>5
  <2> QED
    BY <1>4, <1>5, <2>1, PutsAfterWrite DEF TypeOK
<1>8. SessionsConsistent'
  <2>1. CASE pc[s] = "acquireSent"
    <3>1. granted' = [granted EXCEPT ![s] = fence[s]] /\ fence[s] > 0
      BY <1>1, <1>2, <1>3, <2>1, ExecuteEffect, PutOfType
    <3> QED
      BY <1>1, <1>5, <1>6, <2>1, <3>1 DEF SessionsConsistent, TypeOK, Pc, Calling, Answered
  <2>2. CASE pc[s] /= "acquireSent"
    <3>1. granted' = granted
      BY <1>1, <1>2, <1>3, <2>2, ExecuteEffect, PutOfType
    <3> QED
      BY <1>1, <1>2, <1>5, <1>6, <2>2, <3>1
         DEF SessionsConsistent, Pc, Calling, Answered, Sent
  <2> QED
    BY <2>1, <2>2
<1> QED
  BY <1>4, <1>7, <1>8

\* ... and so does one whose caller has given up.
LEMMA AcceptLatePreserves ==
    ASSUME IInv, TypeOK', NEW p \in late, AcceptLate(p)
    PROVE  GrantsConsistent' /\ SessionsConsistent' /\ PutsConsistent'
<1>1. TypeOK /\ SessionsConsistent /\ PutsConsistent /\ p \in Put
  BY DEF IInv, TypeOK
<1>2. /\ accepts(p) /\ execute(p) /\ Current(p)
      /\ pc' = pc /\ call' = call /\ fence' = fence /\ valid' = valid
  BY <1>1 DEF AcceptLate, PutsConsistent
<1>3. /\ GrantsConsistent' /\ late' = {}
      /\ lease.rv \in Nat /\ lease'.rv = lease.rv + 1
  BY <1>1, <1>2, ExecuteEffect
<1>4. PutsConsistent'
  BY <1>2, <1>3, PutsAfterWrite DEF TypeOK
<1>5. SessionsConsistent'
  <2>1. CASE p.op = "acquire"
    <3>1. /\ pc[p.session] = "done" /\ p.session \in Sessions
          /\ granted' = [granted EXCEPT ![p.session] = p.epoch]
          /\ granted[p.session] = 0
      BY <1>1, <1>2, <2>1, ExecuteEffect DEF PutsConsistent, Put, Current
    <3>2. ~valid[p.session]
      <4>1. valid[p.session] => granted[p.session] = fence[p.session]
                                 /\ fence[p.session] > 0
        BY <1>1, <3>1 DEF SessionsConsistent
      <4> QED
        BY <1>1, <3>1, <4>1 DEF TypeOK
    <3> QED
      BY <1>1, <1>2, <3>1, <3>2 DEF SessionsConsistent, TypeOK
  <2>2. CASE p.op /= "acquire"
    <3>1. granted' = granted
      BY <1>1, <1>2, <2>2, ExecuteEffect
    <3> QED
      BY <1>1, <1>2, <3>1 DEF SessionsConsistent
  <2> QED
    BY <2>1, <2>2
<1> QED
  BY <1>3, <1>4, <1>5

(***************************************************************************)
(* Steps that do not                                                       *)
(***************************************************************************)

\* A step of session s that leaves the Lease alone keeps the PUTs consistent if
\* what it sends, or leaves behind, is computed from the Lease as it is.
LEMMA LocalStep ==
    ASSUME IInv, NEW s \in Sessions,
           lease' = lease, granted' = granted,
           pc[s] /= "done",
           \A t \in Sessions : t /= s => /\ pc'[t] = pc[t]
                                         /\ call'[t] = call[t]
                                         /\ fence'[t] = fence[t],
           pc'[s] \in Sent =>
             call'[s].base = lease.rv /\ Current(PutOf(s))',
           \/ late' = late
           \/ /\ late' = late \cup abandoned({s})
              /\ pc[s] \in {"acquireSent", "releaseSent"} => pc'[s] = "done"
    PROVE  PutsConsistent'
<1>1. TypeOK /\ PutsConsistent
  BY DEF IInv
<1>2. lease.rv \in Nat
  BY <1>1 DEF TypeOK, Lease
<1>3. ASSUME NEW t \in Sessions, pc'[t] \in Sent
      PROVE  /\ call'[t].base <= lease'.rv
             /\ call'[t].base = lease'.rv => Current(PutOf(t))'
  <2>1. CASE t = s
    BY <1>2, <1>3, <2>1
  <2>2. CASE t /= s
    <3>1. PutOf(t)' = PutOf(t)
      BY <2>2 DEF PutOf
    <3>2. /\ call[t].base <= lease.rv
          /\ call[t].base = lease.rv => Current(PutOf(t))
      BY <1>1, <1>3, <2>2 DEF PutsConsistent
    <3> QED
      BY <2>2, <3>1, <3>2 DEF Current
  <2> QED
    BY <2>1, <2>2
<1>4. ASSUME NEW p \in late'
      PROVE  /\ p.rv = lease'.rv /\ Current(p)'
             /\ p.op \in {"acquire", "release"} => pc'[p.session] = "done"
  <2>1. CASE p \in late
    <3>1. /\ p.rv = lease.rv /\ Current(p) /\ p.session \in Sessions
          /\ p.op \in {"acquire", "release"} => pc[p.session] = "done"
      BY <1>1, <2>1 DEF PutsConsistent, TypeOK, Put
    <3> QED
      BY <3>1 DEF Current
  <2>2. CASE p \notin late
    <3>1. /\ p = PutOf(s) /\ pc[s] \in Sent /\ accepts(p)
          /\ pc[s] \in {"acquireSent", "releaseSent"} => pc'[s] = "done"
      BY <1>4, <2>2 DEF abandoned
    <3>2. p.rv = lease.rv /\ Current(p) /\ p.session = s
      BY <1>1, <3>1, PutOfType DEF PutsConsistent, accepts
    <3>3. p.op \in {"acquire", "release"} => pc'[s] = "done"
      BY <1>1, <3>1, PutOfType DEF Sent
    <3> QED
      BY <3>2, <3>3 DEF Current
  <2> QED
    BY <2>1, <2>2
<1> QED
  BY <1>3, <1>4 DEF PutsConsistent

\* The three conjuncts after a local step, from what it does to its session.
LEMMA LocalPreserves ==
    ASSUME IInv, NEW s \in Sessions,
           lease' = lease, granted' = granted,
           pc[s] /= "done",
           \A t \in Sessions : t /= s => /\ pc'[t] = pc[t]
                                         /\ call'[t] = call[t]
                                         /\ fence'[t] = fence[t],
           pc'[s] \in Sent =>
             call'[s].base = lease.rv /\ Current(PutOf(s))',
           \/ late' = late
           \/ /\ late' = late \cup abandoned({s})
              /\ pc[s] \in {"acquireSent", "releaseSent"} => pc'[s] = "done",
           \/ pc'[s] = "done"
           \/ /\ pc[s] \in {"idle", "acquireGet", "acquireSent"}
              /\ pc'[s] \in {"idle", "acquireGet", "acquireSent"}
           \/ /\ pc[s] \in Pc \ {"idle", "acquireGet", "acquireSent", "done"}
              /\ pc'[s] \in Pc \ {"idle", "acquireGet", "acquireSent", "done"}
              /\ fence'[s] = fence[s],
           \A t \in Sessions : t /= s => valid'[t] = valid[t],
           \/ ~valid'[s]
           \/ /\ fence'[s] = fence[s]
              /\ pc'[s] \notin {"idle", "acquireGet", "acquireSent"}
              /\ \/ valid[s]
                 \/ pc[s] \in Pc \ {"idle", "acquireGet", "acquireSent", "done"}
    PROVE  GrantsConsistent' /\ SessionsConsistent' /\ PutsConsistent'
<1>1. PutsConsistent'
  BY LocalStep
<1>2. GrantsConsistent'
  BY DEF IInv, GrantsConsistent
<1>3. SessionsConsistent'
  BY DEF IInv, SessionsConsistent
<1> QED
  BY <1>1, <1>2, <1>3

\* Every action keeps the rest of the invariant.
LEMMA GrantsPreserved ==
    IInv /\ [Next]_vars => GrantsConsistent' /\ SessionsConsistent' /\ PutsConsistent'
<1> SUFFICES ASSUME IInv, [Next]_vars
             PROVE  GrantsConsistent' /\ SessionsConsistent' /\ PutsConsistent'
  OBVIOUS
<1> DEFINE Goal == GrantsConsistent' /\ SessionsConsistent' /\ PutsConsistent'
<1> USE NamesAssumption, ReplicaOfAssumption, TimesAssumption
<1>a. TypeOK /\ SessionsConsistent
  BY DEF IInv
<1>b. {"idle", "starting", "held", "dropped", "done", "acquireGet", "renewGet",
       "releaseGet", "acquireSent", "renewSent", "releaseSent", "acquireOk",
       "renewOk", "releaseOk"} = Pc
  BY DEF Pc, Calling, Reading, Sent, Answered
<1>c. TypeOK'
  BY <1>a, TypePreserved
<1>d. /\ pc \in [Sessions -> Pc] /\ fence \in [Sessions -> Nat]
      /\ valid \in [Sessions -> BOOLEAN]
  BY <1>a DEF TypeOK
<1>1. ASSUME NEW s \in Sessions, StartAcquire(s) \/ StartRenew(s) PROVE Goal
  <2>1. PICK to \in {"acquireGet", "renewGet"} :
          /\ Begin(s, to)
          /\ pc[s] = IF to = "acquireGet" THEN "idle" ELSE "held"
          /\ UNCHANGED << now, server, obs, fence, valid, timer >>
    BY <1>1 DEF StartAcquire, StartRenew
  <2>2. /\ pc' = [pc EXCEPT ![s] = to]
        /\ \A t \in Sessions : t /= s => call'[t] = call[t]
    BY <1>a, <1>b, <2>1, BeginEffect
  <2>3. pc[s] = "idle" => ~valid[s]
    BY <1>a DEF SessionsConsistent
  <2> QED
    BY <1>b, <1>d, <2>1, <2>2, <2>3, LocalPreserves DEF server, Sent
<1>r. ASSUME NEW s \in Sessions, Reject(s) \/ Close(s) PROVE Goal
  <2>1. /\ pc[s] \in {"starting", "held"} /\ Begin(s, "releaseGet")
        /\ valid' = valid \/ valid' = [valid EXCEPT ![s] = FALSE]
        /\ UNCHANGED << now, server, obs, fence >>
    BY <1>r DEF Reject, Close, Revoke
  <2>2. /\ pc' = [pc EXCEPT ![s] = "releaseGet"]
        /\ \A t \in Sessions : t /= s => call'[t] = call[t]
    BY <1>a, <1>b, <2>1, BeginEffect
  <2>3. \A t \in Sessions : t /= s => valid'[t] = valid[t]
    BY <1>d, <2>1
  <2> QED
    BY <1>b, <1>d, <2>1, <2>2, <2>3, LocalPreserves DEF server, Sent
<1>k. ASSUME NEW s \in Sessions, StartKeeper(s) \/ Dropped(s) PROVE Goal
  <2>1. PICK to \in {"held", "dropped"} :
          /\ pc[s] = "starting" /\ pc' = [pc EXCEPT ![s] = to]
          /\ UNCHANGED << now, server, obs, call, fence, valid >>
    BY <1>k DEF StartKeeper, Dropped, GoTo
  <2> QED
    BY <1>b, <1>d, <2>1, LocalPreserves DEF server, Sent
<1>2. ASSUME NEW s \in Sessions, AcquireGet(s) PROVE Goal
  <2>1. /\ pc[s] = "acquireGet" /\ granted[s] = 0 /\ ~valid[s]
        /\ UNCHANGED << now, server, valid, timer >>
    BY <1>2, <1>a DEF AcquireGet, SessionsConsistent
  <2>2. CASE Return(s, "done") /\ UNCHANGED fence
    BY <1>a, <1>b, <1>d, <2>1, <2>2, ReturnEffect, LocalPreserves DEF server, Sent
  <2>3. CASE Send(s, "acquireSent") /\ fence' = [fence EXCEPT ![s] = next_epoch(ReplicaOf[s])]
    <3>1. /\ pc' = [pc EXCEPT ![s] = "acquireSent"] /\ call'[s].base = lease.rv
          /\ \A t \in Sessions : t /= s => call'[t] = call[t]
      BY <1>a, <1>b, <2>3, SendEffect
    <3>2. fence'[s] = lease.epoch + 1 /\ pc'[s] = "acquireSent"
      BY <1>d, <2>3, <3>1 DEF next_epoch
    <3>3. Current(PutOf(s))'
      BY <2>1, <3>2 DEF Current, PutOf, server
    <3> QED
      BY <1>b, <1>d, <2>1, <2>3, <3>1, <3>3, LocalPreserves DEF server
  <2> QED
    BY <1>2, <2>2, <2>3 DEF AcquireGet
<1>3. ASSUME NEW s \in Sessions, Acquired(s) \/ Renewed(s) PROVE Goal
  <2>1. PICK to \in {"starting", "held"} :
          /\ pc[s] \in {"acquireOk", "renewOk"} /\ Return(s, to)
          /\ valid' = valid \/ valid' = [valid EXCEPT ![s] = TRUE]
          /\ UNCHANGED << now, server, obs, fence >>
    BY <1>3 DEF Acquired, Renewed
  <2>2. /\ pc' = [pc EXCEPT ![s] = to]
        /\ \A t \in Sessions : t /= s => call'[t] = call[t]
    BY <1>a, <1>b, <2>1, ReturnEffect
  <2>3. \A t \in Sessions : t /= s => valid'[t] = valid[t]
    BY <1>d, <2>1
  <2> QED
    BY <1>b, <1>d, <2>1, <2>2, <2>3, LocalPreserves DEF server, Sent
<1>4. ASSUME NEW s \in Sessions, RenewGet(s) \/ ReleaseGet(s) PROVE Goal
  <2>1. /\ pc[s] \in {"renewGet", "releaseGet"}
        /\ valid' = valid \/ valid' = [valid EXCEPT ![s] = FALSE]
        /\ UNCHANGED << now, server, obs, fence >>
    BY <1>4 DEF RenewGet, ReleaseGet, Revoke
  <2>0. \A t \in Sessions : t /= s => valid'[t] = valid[t]
    BY <1>d, <2>1
  <2>2. ASSUME NEW to \in {"releaseGet", "done"}, Return(s, to) \/ Begin(s, to),
               to = "done" => valid' = valid
        PROVE  Goal
    <3>1. /\ pc' = [pc EXCEPT ![s] = to]
          /\ \A t \in Sessions : t /= s => call'[t] = call[t]
      BY <1>a, <1>b, <2>2, ReturnEffect, BeginEffect
    <3> QED
      BY <1>b, <1>d, <2>0, <2>1, <2>2, <3>1, LocalPreserves DEF server, Sent
  <2>3. ASSUME NEW to \in {"renewSent", "releaseSent"}, Send(s, to), owns(s)
        PROVE  Goal
    <3>1. /\ pc' = [pc EXCEPT ![s] = to] /\ call'[s].base = lease.rv
          /\ \A t \in Sessions : t /= s => call'[t] = call[t]
      BY <1>a, <1>b, <2>3, SendEffect
    <3>2. pc'[s] = to /\ lease.token = s
      BY <1>d, <2>3, <3>1 DEF owns
    <3>3. Current(PutOf(s))'
      BY <2>1, <3>2 DEF Current, PutOf, server
    <3> QED
      BY <1>b, <1>d, <2>0, <2>1, <3>1, <3>3, LocalPreserves DEF server
  <2> QED
    BY <1>4, <2>2, <2>3 DEF RenewGet, ReleaseGet, Revoke
<1>5. ASSUME NEW s \in Sessions, Released(s) PROVE Goal
  <2>1. /\ pc[s] = "releaseOk" /\ Return(s, "done")
        /\ UNCHANGED << now, server, obs, fence, valid >>
    BY <1>5 DEF Released
  <2> QED
    BY <1>a, <1>b, <1>d, <2>1, ReturnEffect, LocalPreserves DEF server, Sent
<1>6. ASSUME NEW s \in Sessions, Accept(s) PROVE Goal
  BY <1>6, <1>c, AcceptPreserves
<1>7. ASSUME NEW s \in Sessions, Conflict(s) PROVE Goal
  <2>1. pc[s] \in Sent
    BY <1>7 DEF Conflict
  <2>2. pc[s] = "acquireSent" => ~valid[s]
    BY <1>a DEF SessionsConsistent
  <2>3. /\ pc'[s] \in Reading
        /\ pc[s] = "acquireSent" => pc'[s] = "acquireGet"
        /\ pc[s] /= "acquireSent" => pc'[s] \in {"renewGet", "releaseGet"}
        /\ \A t \in Sessions : t /= s => pc'[t] = pc[t] /\ call'[t] = call[t]
        /\ UNCHANGED << lease, late, granted, fence, valid >>
    BY <1>7, <1>a, <1>d, ConflictEffect DEF server
  <2>4. /\ pc[s] /= "done" /\ pc'[s] \notin Sent
        /\ \/ /\ pc[s] \in {"idle", "acquireGet", "acquireSent"}
              /\ pc'[s] \in {"idle", "acquireGet", "acquireSent"}
           \/ /\ pc[s] \in Pc \ {"idle", "acquireGet", "acquireSent", "done"}
              /\ pc'[s] \in Pc \ {"idle", "acquireGet", "acquireSent", "done"}
        /\ ~valid'[s] \/ pc'[s] \notin {"idle", "acquireGet", "acquireSent"}
    BY <1>b, <1>d, <2>1, <2>2, <2>3 DEF Sent, Reading
  <2> QED
    BY <2>3, <2>4, LocalPreserves
<1>8. ASSUME NEW s \in Sessions,
             \/ AcquireFailed(s) \/ RenewFailed(s) \/ RenewExpired(s)
             \/ ReleaseFailed(s)
      PROVE  Goal
  <2>1. PICK to \in {"done", "held", "releaseGet"} :
          /\ Return(s, to) \/ Begin(s, to)
          /\ GiveUp(s)
          /\ to = "done" => pc[s] /= "done"
          /\ to \in {"held", "releaseGet"} => pc[s] \in Renewing
          /\ valid' = valid \/ valid' = [valid EXCEPT ![s] = FALSE]
    BY <1>8, <1>d DEF AcquireFailed, RenewFailed, RenewExpired, ReleaseFailed, Revoke
  <2>2. /\ pc' = [pc EXCEPT ![s] = to]
        /\ \A t \in Sessions : t /= s => call'[t] = call[t]
        /\ lease' = lease /\ granted' = granted /\ fence' = fence
        /\ late' = late \cup abandoned({s})
    BY <1>a, <1>b, <2>1, ReturnEffect, BeginEffect DEF GiveUp
  <2>3. /\ \A t \in Sessions : t /= s => valid'[t] = valid[t]
        /\ ~valid'[s] \/ valid[s]
    BY <1>d, <2>1
  <2> QED
    BY <1>b, <1>d, <2>1, <2>2, <2>3, LocalPreserves DEF Sent, Renewing
<1>9. ASSUME NEW p \in late, AcceptLate(p) PROVE Goal
  BY <1>9, <1>c, AcceptLatePreserves
<1>11. CASE Tick \/ UNCHANGED vars
  <2>1. UNCHANGED << lease, late, granted, pc, call, fence, valid >>
    BY <1>11 DEF Tick, server, vars
  <2>2. \A t \in Sessions : PutOf(t)' = PutOf(t)
    BY <2>1 DEF PutOf
  <2>3. PutsConsistent'
    BY <2>1, <2>2 DEF IInv, PutsConsistent, Current
  <2> QED
    BY <2>1, <2>3 DEF IInv, GrantsConsistent, SessionsConsistent
<1>10. ASSUME NEW r \in Replicas, Crash(r) PROVE Goal
  <2> DEFINE dying == {s \in Sessions : ReplicaOf[s] = r /\ pc[s] /= "idle"}
  <2>1. /\ pc' = [s \in Sessions |-> IF s \in dying THEN "done" ELSE pc[s]]
        /\ call' = [s \in Sessions |-> IF s \in dying THEN NoCall ELSE call[s]]
        /\ late' = late \cup abandoned(dying)
        /\ lease' = lease /\ granted' = granted /\ fence' = fence
        /\ valid' = [s \in Sessions |-> valid[s] /\ s \notin dying]
    BY <1>10 DEF Crash
  <2> dying \subseteq Sessions
    OBVIOUS
  <2> HIDE DEF dying
  <2>2. \A t \in Sessions : t \in dying => pc'[t] = "done"
    BY <2>1
  <2>3. \A t \in Sessions : t \notin dying => pc'[t] = pc[t] /\ call'[t] = call[t]
    BY <2>1
  <2>4. GrantsConsistent'
    BY <2>1 DEF IInv, GrantsConsistent
  <2>5. SessionsConsistent'
    BY <2>1, <2>2, <2>3 DEF IInv, SessionsConsistent
  <2>6. ASSUME NEW t \in Sessions, pc'[t] \in Sent
        PROVE  /\ call'[t].base <= lease'.rv
               /\ call'[t].base = lease'.rv => Current(PutOf(t))'
    <3>1. t \notin dying
      BY <2>2, <2>6 DEF Sent
    <3>2. PutOf(t)' = PutOf(t)
      BY <2>1, <2>3, <3>1 DEF PutOf
    <3>3. /\ call[t].base <= lease.rv
          /\ call[t].base = lease.rv => Current(PutOf(t))
      BY <2>3, <2>6, <3>1 DEF IInv, PutsConsistent
    <3> QED
      BY <2>1, <2>3, <3>1, <3>2, <3>3 DEF Current
  <2>7. ASSUME NEW p \in late'
        PROVE  /\ p.rv = lease'.rv /\ Current(p)'
               /\ p.op \in {"acquire", "release"} => pc'[p.session] = "done"
    <3>1. CASE p \in late
      <4>1. /\ p.rv = lease.rv /\ Current(p) /\ p.session \in Sessions
            /\ p.op \in {"acquire", "release"} => pc[p.session] = "done"
        BY <3>1 DEF IInv, PutsConsistent, TypeOK, Put
      <4> QED
        BY <2>1, <2>2, <2>3, <4>1 DEF Current
    <3>2. CASE p \in abandoned(dying)
      <4>1. PICK t \in dying : p = PutOf(t) /\ pc[t] \in Sent /\ accepts(p)
        BY <3>2 DEF abandoned
      <4>2. p.rv = lease.rv /\ Current(p) /\ p.session = t
        BY <1>a, <4>1, PutOfType DEF IInv, PutsConsistent, accepts
      <4> QED
        BY <2>1, <2>2, <4>2 DEF Current
    <3> QED
      BY <2>1, <2>7, <3>1, <3>2
  <2> QED
    BY <2>4, <2>5, <2>6, <2>7 DEF PutsConsistent
<1> QED
  BY <1>1, <1>r, <1>k, <1>2, <1>3, <1>4, <1>5, <1>6, <1>7, <1>8, <1>9, <1>10,
     <1>11 DEF Next

(***************************************************************************)
(* The theorems                                                            *)
(***************************************************************************)

\* IInv is an inductive invariant of the coordinator.
THEOREM Inductive == Spec => []IInv
<1>1. Init => IInv
  <2> SUFFICES ASSUME Init PROVE IInv
    OBVIOUS
  <2> USE NamesAssumption, ReplicaOfAssumption, TimesAssumption
  <2>1. TypeOK
    BY DEF Init, TypeOK, NoLease, Lease, NoCall, CallRecord, NoTimer, Timer, Pc
  <2>2. GrantsConsistent /\ SessionsConsistent /\ PutsConsistent
    BY DEF Init, NoLease, GrantsConsistent, SessionsConsistent, PutsConsistent, Sent
  <2> QED
    BY <2>1, <2>2 DEF IInv
<1>2. IInv /\ [Next]_vars => IInv'
  BY TypePreserved, GrantsPreserved DEF IInv
<1> QED
  BY <1>1, <1>2, PTL DEF Spec

\* Type correctness of the coordinator.
THEOREM TypeCorrect == Spec => []TypeOK
<1>1. IInv => TypeOK
  BY DEF IInv
<1> QED
  BY <1>1, Inductive, PTL

\* Whoever believes in its ownership holds a fence that the Lease granted to
\* it alone, however many PUTs of callers that gave up are executed late.
THEOREM FencesAreReal == Spec => []FencesAreGranted
<1>1. IInv => FencesAreGranted
  <2> SUFFICES ASSUME IInv PROVE FencesAreGranted
    OBVIOUS
  <2>1. \A s \in Sessions : valid[s] => granted[s] = fence[s] /\ fence[s] > 0
    BY DEF IInv, SessionsConsistent
  <2>2. \A s, t \in Sessions :
          s /= t /\ granted[s] > 0 => granted[s] /= granted[t]
    BY DEF IInv, GrantsConsistent
  <2> QED
    BY <2>1, <2>2 DEF FencesAreGranted
<1> QED
  BY <1>1, Inductive, PTL

\* What a step may do to the Lease: nothing the promise shows, a grant with the
\* next epoch to a session that had none, or the release of the owner's PUT.
LEMMA LeaseSteps ==
    ASSUME IInv, [Next]_vars
    PROVE  \/ /\ lease'.token = lease.token /\ lease'.epoch = lease.epoch
              /\ granted' = granted
           \/ \E s \in Sessions :
                /\ granted[s] = 0
                /\ lease'.epoch = lease.epoch + 1
                /\ granted' = [granted EXCEPT ![s] = lease.epoch + 1]
                /\ lease'.token = s
           \/ \E s \in Sessions :
                /\ lease.token = s /\ lease'.token = NoSession
                /\ lease'.epoch = lease.epoch /\ granted' = granted
                /\ pc[s] \in {"releaseSent", "done"}
<1>1. TypeOK /\ PutsConsistent
  BY DEF IInv
<1>2. ASSUME NEW p \in Put, execute(p), Current(p),
             p.op = "release" => pc[p.session] \in {"releaseSent", "done"}
      PROVE  \/ /\ lease'.token = lease.token /\ lease'.epoch = lease.epoch
                /\ granted' = granted
             \/ /\ granted[p.session] = 0
                /\ lease'.epoch = lease.epoch + 1
                /\ granted' = [granted EXCEPT ![p.session] = lease.epoch + 1]
                /\ lease'.token = p.session
             \/ /\ lease.token = p.session /\ lease'.token = NoSession
                /\ lease'.epoch = lease.epoch /\ granted' = granted
                /\ pc[p.session] \in {"releaseSent", "done"}
  <2>1. lease' = written(p) /\ (p.op /= "acquire" => granted' = granted)
    BY <1>2 DEF execute
  <2>2. CASE p.op = "acquire"
    BY <1>1, <1>2, <2>1, <2>2, WrittenType DEF execute, Current
  <2>3. CASE p.op = "renew"
    BY <1>1, <2>1, <2>3, WrittenType
  <2>4. CASE p.op = "release"
    BY <1>1, <1>2, <2>1, <2>4, WrittenType DEF Current
  <2> QED
    BY <2>2, <2>3, <2>4 DEF Put, Operation
<1>3. ASSUME NEW s \in Sessions, Accept(s)
      PROVE  /\ PutOf(s) \in Put /\ PutOf(s).session = s
             /\ execute(PutOf(s)) /\ Current(PutOf(s))
             /\ PutOf(s).op = "release" => pc[s] \in {"releaseSent", "done"}
  <2>1. pc[s] \in Sent /\ accepts(PutOf(s)) /\ execute(PutOf(s))
    BY <1>3 DEF Accept
  <2>2. Current(PutOf(s))
    BY <1>1, <2>1, PutOfType DEF PutsConsistent, accepts
  <2> QED
    BY <1>1, <2>1, <2>2, PutOfType DEF Sent
<1>4. ASSUME NEW p \in late, AcceptLate(p)
      PROVE  /\ p \in Put /\ execute(p) /\ Current(p)
             /\ p.op = "release" => pc[p.session] \in {"releaseSent", "done"}
  BY <1>1, <1>4 DEF AcceptLate, PutsConsistent, TypeOK
<1>5. CASE UNCHANGED << lease, granted >>
  BY <1>5
<1>6. CASE \E s \in Sessions : Accept(s)
  <2>1. PICK s \in Sessions : Accept(s)
    BY <1>6
  <2> QED
    BY <1>2, <1>3, <2>1
<1>7. CASE \E p \in late : AcceptLate(p)
  <2>1. PICK p \in late : AcceptLate(p)
    BY <1>7
  <2>2. p.session \in Sessions
    BY <1>1, <2>1 DEF TypeOK, Put
  <2> QED
    BY <1>2, <1>4, <2>1, <2>2
<1>8. \/ UNCHANGED << lease, granted >>
      \/ \E s \in Sessions : Accept(s)
      \/ \E p \in late : AcceptLate(p)
  BY DEF Next, vars, server, StartAcquire, Begin, AcquireGet, Acquired, Renewed,
         StartKeeper, Reject, Dropped, StartRenew, RenewGet, Close, ReleaseGet,
         Released, Conflict, AcquireFailed, RenewFailed, RenewExpired,
         ReleaseFailed, GiveUp, Crash, Tick
<1> QED
  BY <1>5, <1>6, <1>7, <1>8

\* A fence leaves the Lease by a release only when its session can no longer be
\* used: it is revoked or, rejected, marked offline.
THEOREM UnusableBeforeReleased == Spec => OnlyUnusableIsReleased
<1>1. IInv /\ [Next]_vars =>
        [\A s \in Sessions :
           lease.token = s /\ lease'.token = NoSession => ~Usable(s)]_vars
  <2> SUFFICES ASSUME IInv, [Next]_vars, NEW s \in Sessions,
                      lease.token = s, lease'.token = NoSession
               PROVE  ~Usable(s)
    OBVIOUS
  <2>1. pc[s] \in {"releaseSent", "done"}
    BY LeaseSteps, NamesAssumption
  <2> QED
    BY <2>1 DEF Usable, Kept, Renewing
<1> QED
  BY <1>1, Inductive, PTL DEF Spec, OnlyUnusableIsReleased

\* The compare-and-swap loops of lease.rs implement the promise of FencedLease:
\* at most one owner, an epoch that every grant moves, releases by the owner.
THEOREM ImplementsPromise == Spec => ImplementsFencedLease
<1>1. Init => Promise!Init
  BY DEF Init, Promise!Init, NoLease
<1>2. IInv /\ [Next]_vars => [Promise!Next]_<< lease.token, lease.epoch, granted >>
  <2> SUFFICES ASSUME IInv, [Next]_vars
               PROVE  [Promise!Next]_<< lease.token, lease.epoch, granted >>
    OBVIOUS
  <2>1. CASE UNCHANGED << lease.token, lease.epoch, granted >>
    BY <2>1
  <2>2. CASE \E s \in Sessions : Promise!Grant(s)
    BY <2>2 DEF Promise!Next
  <2>3. CASE \E s \in Sessions : Promise!Release(s)
    BY <2>3 DEF Promise!Next
  <2>4. \/ UNCHANGED << lease.token, lease.epoch, granted >>
        \/ \E s \in Sessions : Promise!Grant(s)
        \/ \E s \in Sessions : Promise!Release(s)
    BY LeaseSteps DEF Promise!Grant, Promise!Release
  <2> QED
    BY <2>1, <2>2, <2>3, <2>4
<1> QED
  BY <1>1, <1>2, Inductive, PTL DEF Spec, ImplementsFencedLease, Promise!Spec

(***************************************************************************)
(* The time bounds                                                         *)
(***************************************************************************)

\* The history clocks are not ahead of time, and the holder is the replica of
\* the session whose token the Lease carries.
ClocksOrdered ==
    /\ writtenAt <= now /\ takenAt <= now
    /\ lease.rv = 0 => writtenAt = 0
    /\ lease.token \in Sessions => lease.holder = ReplicaOf[lease.token]

\* A call is over within its timeout, and reads its clock while it runs.
CallsInTime ==
    \A s \in Sessions :
        pc[s] \in Calling =>
          /\ call[s].began <= call[s].readAt /\ call[s].readAt <= now
          /\ now <= call[s].began + OpTimeout

\* A replica dates a resourceVersion at most one call before it was written.
ObservationsInTime ==
    \A r \in Replicas :
        /\ obs[r].rv <= lease.rv
        /\ obs[r].rv = lease.rv => writtenAt <= obs[r].at + OpTimeout

\* A contender's PUT that would be accepted was sent after a silent duration.
Waited(p) ==
    p.op = "acquire" /\ lease.holder \notin {NoReplica, ReplicaOf[p.session]}
      => writtenAt + Duration <= now + OpTimeout

ContendersWaited ==
    /\ \A s \in Sessions :
         pc[s] = "acquireSent" /\ call[s].base = lease.rv => Waited(PutOf(s))
    /\ \A p \in late : Waited(p)

\* A session trusts its Lease while maintain_ownership runs, and before it is
\* spawned: until the deadline, and then for a duration at least.
Trusting(s) == Kept(s) \/ pc[s] = "starting"
Until(s) == IF pc[s] = "starting" THEN now + Duration ELSE timer[s].deadline

\* A session between the acceptance of its acquire and its last trust.
Live(s) == Trusting(s) \/ pc[s] = "acquireOk"

\* A session that has been told of its PUT's acceptance.
Confirmed(s) == pc[s] \in {"acquireOk", "renewOk"}

\* The owner trusts the Lease for its duration from the answer to a write, or
\* from the start of maintain_ownership.
OwnerInTime(s) ==
    Live(s) /\ lease.epoch = fence[s] =>
      /\ lease.token = s
      /\ Trusting(s) =>
           Until(s) <= writtenAt + OpTimeout + Duration + timer[s].unkept
      /\ Confirmed(s) => call[s].began <= writtenAt

\* Once another replica has taken it over, no answer extends that trust.
DisplacedInTime(s) ==
    /\ Live(s) /\ lease.epoch = fence[s] + 1
    /\ lease.holder \notin {NoReplica, ReplicaOf[s]}
    =>
      /\ Trusting(s) => Until(s) <= takenAt + 2 * OpTimeout + timer[s].unkept
      /\ Confirmed(s) => call[s].began + Duration <= takenAt + OpTimeout

\* maintain_ownership looks at its deadline at least once per sleep.
MaintenanceInTime(s) ==
    /\ pc[s] = "held" => /\ now <= timer[s].wakeAt
                         /\ timer[s].wakeAt < timer[s].deadline + renew_after
    /\ pc[s] \in Renewing => now <= timer[s].deadline

TimesInv ==
    /\ ClocksOrdered
    /\ CallsInTime
    /\ ObservationsInTime
    /\ ContendersWaited
    /\ \A s \in Sessions :
         OwnerInTime(s) /\ DisplacedInTime(s) /\ MaintenanceInTime(s)

\* A step writes the Lease by executing one PUT, sent or given up, or leaves it.
LEMMA WriteOrNot ==
    ASSUME IInv, [Next]_vars
    PROVE  \/ UNCHANGED << lease, granted, writtenAt, takenAt >>
           \/ \E s \in Sessions : Accept(s)
           \/ \E p \in late : AcceptLate(p)
  BY DEF Next, vars, server, StartAcquire, Begin, AcquireGet, Acquired, Renewed,
         StartKeeper, Reject, Dropped, StartRenew, RenewGet, Close, ReleaseGet,
         Released, Conflict, AcquireFailed, RenewFailed, RenewExpired,
         ReleaseFailed, GiveUp, Crash, Tick

\* The PUT a waiting caller gets accepted is Current and has waited.
LEMMA AcceptedPut ==
    ASSUME IInv, TimesInv, NEW s \in Sessions, Accept(s)
    PROVE  /\ PutOf(s) \in Put /\ PutOf(s).session = s
           /\ execute(PutOf(s)) /\ accepts(PutOf(s)) /\ Current(PutOf(s))
           /\ Waited(PutOf(s))
<1>1. TypeOK /\ PutsConsistent /\ ContendersWaited
  BY DEF IInv, TimesInv
<1>2. pc[s] \in Sent /\ accepts(PutOf(s)) /\ execute(PutOf(s))
  BY DEF Accept
<1>3. Current(PutOf(s))
  BY <1>1, <1>2, PutOfType DEF PutsConsistent, accepts
<1>4. Waited(PutOf(s))
  <2>1. PutOf(s).op = "acquire" <=> pc[s] = "acquireSent"
    BY <1>1, PutOfType
  <2>2. call[s].base = lease.rv
    BY <1>1, <1>2, PutOfType DEF accepts
  <2> QED
    BY <1>1, <2>1, <2>2 DEF ContendersWaited, Waited
<1> QED
  BY <1>1, <1>2, <1>3, <1>4, PutOfType

\* The types of everything that is compared.
LEMMA TimesAreNat ==
    ASSUME TypeOK
    PROVE  /\ now \in Nat /\ writtenAt \in Nat /\ takenAt \in Nat
           /\ lease.rv \in Nat /\ lease.epoch \in Nat
           /\ \A s \in Sessions :
                /\ call[s].began \in Nat /\ call[s].readAt \in Nat
                /\ call[s].base \in Nat /\ fence[s] \in Nat
                /\ timer[s].deadline \in Nat /\ timer[s].wakeAt \in Nat
                /\ timer[s].unkept \in Nat
           /\ \A r \in Replicas : obs[r].rv \in Nat /\ obs[r].at \in Nat
  BY DEF TypeOK, Lease, CallRecord, Timer

LEMMA UntilIsNat == ASSUME TypeOK, NEW s \in Sessions PROVE Until(s) \in Nat
  BY TimesAssumption, TimesAreNat DEF Until

\* A sleep takes at least a tick.
LEMMA SleepIsPositive == renew_after \in Nat /\ renew_after > 0
<1>1. Duration \in Nat
  BY TimesAssumption
<1>2. Duration < 3 \/ Duration \div 3 > 0
  BY <1>1
<1> QED
  BY <1>1, <1>2 DEF renew_after

\* What a write does to the clocks and to the sessions that are live.  The
\* owner's trust is bounded by the write before; a contender's write comes a
\* silent duration after it.
LEMMA WriteTimes ==
    ASSUME IInv, TimesInv, IInv', NEW p \in Put,
           execute(p), accepts(p), Current(p), Waited(p),
           UNCHANGED << now, obs, call, fence, timer >>,
           \A t \in Sessions : t /= p.session => pc'[t] = pc[t],
           \/ pc' = pc
           \/ /\ pc[p.session] \in Sent
              /\ pc' = [pc EXCEPT ![p.session] = answer(pc[p.session])]
              /\ p.op = "acquire" <=> pc[p.session] = "acquireSent"
              /\ p.op = "release" => pc[p.session] = "releaseSent"
              /\ p.epoch = fence[p.session],
           pc' = pc /\ p.op \in {"acquire", "release"} => pc[p.session] = "done"
    PROVE  TimesInv'
<1> USE ReplicaOfAssumption, NamesAssumption, TimesAssumption
<1>1. /\ TypeOK /\ GrantsConsistent /\ SessionsConsistent /\ PutsConsistent
      /\ TypeOK' /\ GrantsConsistent' /\ SessionsConsistent' /\ PutsConsistent'
      /\ ClocksOrdered /\ CallsInTime /\ ObservationsInTime /\ ContendersWaited
  BY DEF IInv, TimesInv
<1>2. /\ lease' = written(p) /\ lease'.rv = lease.rv + 1 /\ writtenAt' = now
      /\ takenAt' = IF p.op = "acquire" THEN now ELSE takenAt
      /\ late' = {}
  BY <1>1, ExecuteEffect, WrittenType DEF execute
<1>3. /\ p.session \in Sessions /\ ReplicaOf[p.session] \in Replicas
      /\ pc \in [Sessions -> Pc]
  BY <1>1 DEF Put, TypeOK
<1>n. /\ now \in Nat /\ writtenAt \in Nat /\ takenAt \in Nat
      /\ lease.rv \in Nat /\ lease.epoch \in Nat
      /\ \A s \in Sessions :
           /\ call[s].began \in Nat /\ call[s].readAt \in Nat
           /\ call[s].base \in Nat /\ fence[s] \in Nat
           /\ timer[s].deadline \in Nat /\ timer[s].wakeAt \in Nat
           /\ timer[s].unkept \in Nat
      /\ \A r \in Replicas : obs[r].rv \in Nat /\ obs[r].at \in Nat
  BY <1>1, TimesAreNat
<1>4. /\ p.op = "acquire" =>
           /\ lease'.holder = ReplicaOf[p.session]
           /\ lease'.token = p.session
           /\ lease'.epoch = p.epoch /\ p.epoch = lease.epoch + 1
      /\ p.op = "renew" =>
           /\ lease'.holder = lease.holder
           /\ lease'.token = lease.token /\ lease.token = p.session
           /\ lease'.epoch = lease.epoch
      /\ p.op = "release" =>
           /\ lease'.holder = NoReplica
           /\ lease'.token = NoSession /\ lease.token = p.session
           /\ lease'.epoch = lease.epoch
      /\ p.op \in {"acquire", "renew", "release"}
  BY <1>1, <1>2, WrittenType DEF Current, Put, Operation
<1>5. ClocksOrdered'
  BY <1>1, <1>2, <1>3, <1>4, <1>n DEF ClocksOrdered
<1>6. \A t \in Sessions : /\ pc'[t] \in Calling => pc[t] \in Calling
                          /\ pc'[t] = "acquireSent" => pc[t] = "acquireSent"
                          /\ pc'[t] \in Renewing <=> pc[t] \in Renewing
                          /\ pc'[t] = "held" <=> pc[t] = "held"
                          /\ pc'[t] = "starting" <=> pc[t] = "starting"
                          /\ t /= p.session => pc'[t] = pc[t]
  <2>1. CASE pc' = pc
    BY <2>1
  <2>2. CASE /\ pc[p.session] \in Sent
             /\ pc' = [pc EXCEPT ![p.session] = answer(pc[p.session])]
    <3>1. /\ pc'[p.session] \in Answered
          /\ pc'[p.session] = "renewOk" <=> pc[p.session] = "renewSent"
      BY <1>3, <2>2 DEF answer, Sent, Answered
    <3>2. \A t \in Sessions : t /= p.session => pc'[t] = pc[t]
      BY <1>3, <2>2
    <3> QED
      BY <1>3, <2>2, <3>1, <3>2 DEF Calling, Sent, Answered, Renewing
  <2> QED
    BY <2>1, <2>2
<1>7. CallsInTime'
  BY <1>1, <1>6 DEF CallsInTime
<1>8. ObservationsInTime'
  BY <1>1, <1>2, <1>n DEF ObservationsInTime
<1>9. ContendersWaited'
  <2>1. \A t \in Sessions : pc'[t] = "acquireSent" => call'[t].base <= lease.rv
    BY <1>1, <1>6 DEF PutsConsistent, Sent
  <2>2. \A t \in Sessions : pc'[t] = "acquireSent" => call'[t].base /= lease'.rv
    BY <1>2, <1>n, <2>1
  <2> QED
    BY <1>2, <2>2 DEF ContendersWaited
<1>10. ASSUME NEW s \in Sessions
       PROVE  OwnerInTime(s)' /\ DisplacedInTime(s)' /\ MaintenanceInTime(s)'
  <2>1. OwnerInTime(s) /\ DisplacedInTime(s) /\ MaintenanceInTime(s)
    BY DEF TimesInv
  <2>2. MaintenanceInTime(s)'
    BY <1>6, <2>1 DEF MaintenanceInTime, renew_after
  <2>3. (Trusting(s)' <=> Trusting(s)) /\ Until(s)' = Until(s) /\ Until(s) \in Nat
    <3>1. pc'[s] = "starting" <=> pc[s] = "starting"
      BY <1>6
    <3>2. Trusting(s)' <=> Trusting(s)
      BY <1>6, <3>1 DEF Trusting, Kept
    <3> QED
      BY <1>1, <3>1, <3>2, UntilIsNat DEF Until
  <2>4. Live(s)' => granted'[s] = fence[s] /\ pc'[s] /= "done"
    BY <1>1 DEF Live, Trusting, Kept, SessionsConsistent, Renewing, Pc, Calling,
                Reading, Sent, Answered
  <2>5. Live(s) => granted[s] = fence[s] /\ fence[s] <= lease.epoch
    BY <1>1, <1>3 DEF Live, Trusting, Kept, SessionsConsistent, GrantsConsistent, Renewing,
                Pc, Calling, Reading, Sent, Answered
  <2>6. CASE p.op = "acquire" /\ s = p.session
    <3>1. Live(s)' => pc'[s] = "acquireOk"
      <4>1. CASE pc' = pc
        BY <1>3, <2>4, <2>6, <4>1
      <4>2. CASE pc' /= pc
        BY <1>3, <2>6, <4>2 DEF answer
      <4> QED
        BY <4>1, <4>2
    <3>2. pc'[s] = "acquireOk" => pc[s] \in Calling
      BY <1>6 DEF Calling, Answered
    <3>3. pc'[s] = "acquireOk" => call[s].began <= now
      BY <1>1, <1>n, <3>2 DEF CallsInTime
    <3>4. pc'[s] = "acquireOk" => ~Trusting(s)'
      BY DEF Trusting, Kept, Renewing
    <3> QED
      BY <1>2, <1>4, <2>2, <2>6, <3>1, <3>3, <3>4
         DEF OwnerInTime, DisplacedInTime, Confirmed
  <2>7. CASE p.op = "acquire" /\ s /= p.session
    <3>1. pc'[s] = pc[s] /\ (Live(s)' <=> Live(s)) /\ (Confirmed(s)' <=> Confirmed(s))
      BY <1>6, <2>7 DEF Live, Trusting, Kept, Confirmed
    <3>2. Live(s)' => lease'.epoch /= fence'[s]
      BY <1>4, <1>n, <2>5, <2>7, <3>1
    <3>3. ASSUME Live(s)', lease'.epoch = fence'[s] + 1,
                 lease'.holder \notin {NoReplica, ReplicaOf[s]}
          PROVE  writtenAt + Duration <= now + OpTimeout
      <4>1. lease.epoch = fence[s]
        BY <1>4, <1>n, <2>7, <3>3
      <4>2. lease.token = s /\ lease.holder = ReplicaOf[s]
        BY <1>1, <2>1, <3>1, <3>3, <4>1 DEF OwnerInTime, ClocksOrdered
      <4>3. ReplicaOf[s] \in Replicas
        OBVIOUS
      <4> QED
        BY <1>4, <2>7, <3>3, <4>2, <4>3 DEF Waited
    <3>4. ASSUME Live(s)', lease'.epoch = fence'[s] + 1,
                 lease'.holder \notin {NoReplica, ReplicaOf[s]}
          PROVE  /\ Trusting(s)' =>
                      Until(s) <= now + 2 * OpTimeout + timer[s].unkept
                 /\ Confirmed(s)' => call[s].began + Duration <= now + OpTimeout
      <4>1. lease.epoch = fence[s]
        BY <1>4, <1>n, <2>7, <3>4
      <4>2. /\ Trusting(s) =>
                 Until(s) <= writtenAt + OpTimeout + Duration + timer[s].unkept
            /\ Confirmed(s) => call[s].began <= writtenAt
        BY <2>1, <3>1, <3>4, <4>1 DEF OwnerInTime
      <4>3. /\ timer[s].unkept \in Nat /\ call[s].began \in Nat
            /\ writtenAt \in Nat /\ now \in Nat
            /\ OpTimeout \in Nat /\ Duration \in Nat
        BY <1>n
      <4>4. writtenAt + Duration <= now + OpTimeout
        BY <3>3, <3>4
      <4>5. Trusting(s) => Until(s) <= now + 2 * OpTimeout + timer[s].unkept
        BY <2>3, <4>2, <4>3, <4>4
      <4>6. Confirmed(s) => call[s].began + Duration <= now + OpTimeout
        BY <4>2, <4>3, <4>4
      <4> QED
        BY <2>3, <3>1, <4>5, <4>6
    <3>5. takenAt' = now /\ timer' = timer /\ call' = call
      BY <1>2, <2>7
    <3>6. OwnerInTime(s)'
      BY <3>2 DEF OwnerInTime
    <3>7. DisplacedInTime(s)'
      BY <2>3, <3>4, <3>5 DEF DisplacedInTime
    <3> QED
      BY <2>2, <3>6, <3>7
  <2>8. CASE p.op \in {"renew", "release"}
    <3>1. lease'.epoch = lease.epoch /\ takenAt' = takenAt /\ lease.token = p.session
      BY <1>2, <1>4, <2>8
    <3>2. Live(s)' <=> Live(s)
      <4>1. pc'[s] = "acquireOk" <=> pc[s] = "acquireOk"
        <5>1. CASE pc' = pc
          BY <5>1
        <5>2. CASE pc' /= pc /\ s = p.session
          BY <1>3, <2>8, <5>2 DEF answer, Sent
        <5>3. CASE s /= p.session
          BY <1>6, <5>3
        <5> QED
          BY <5>1, <5>2, <5>3
      <4> QED
        BY <2>3, <4>1 DEF Live
    <3>3. CASE s = p.session
      <4>1. granted[s] = lease.epoch
        BY <1>1, <1>3, <3>1, <3>3 DEF GrantsConsistent
      <4>2. Live(s) => lease.epoch = fence[s]
        BY <2>5, <4>1
      <4>3. Live(s)' => p.op = "renew"
        <5>1. CASE p.op = "release" /\ Live(s)'
          <6>1. lease'.token = NoSession /\ lease.token = s
            BY <1>4, <3>3, <5>1
          <6>2. pc[s] \in {"releaseSent", "done"}
            BY <1>1, <3>3, <5>1 DEF Sent
          <6> QED
            BY <3>2, <5>1, <6>2 DEF Live, Trusting, Kept, Renewing
        <5> QED
          BY <2>8, <5>1
      <4>4. Confirmed(s)' => call[s].began <= now
        <5>1. Confirmed(s)' => pc[s] \in Calling
          BY <1>6 DEF Confirmed, Calling, Answered
        <5> QED
          BY <1>1, <1>n, <5>1 DEF CallsInTime
      <4>5. Trusting(s) /\ Live(s)' =>
              Until(s) <= now + OpTimeout + Duration + timer[s].unkept
        <5>1. Trusting(s) /\ Live(s)' =>
                Until(s) <= writtenAt + OpTimeout + Duration + timer[s].unkept
          BY <2>1, <3>2, <4>2 DEF OwnerInTime
        <5>2. timer[s].unkept \in Nat /\ writtenAt <= now
          BY <1>1, <1>n DEF ClocksOrdered
        <5> QED
          BY <1>n, <2>3, <5>1, <5>2
      <4>6. OwnerInTime(s)'
        BY <1>2, <1>4, <2>3, <3>3, <4>3, <4>4, <4>5 DEF OwnerInTime
      <4>7. DisplacedInTime(s)'
        BY <1>n, <3>1, <3>2, <4>2 DEF DisplacedInTime
      <4> QED
        BY <2>2, <4>6, <4>7
    <3>4. CASE s /= p.session
      <4>1. pc'[s] = pc[s] /\ (Confirmed(s)' <=> Confirmed(s))
        BY <1>6, <3>4 DEF Confirmed
      <4>2. ~(Live(s) /\ lease.epoch = fence[s])
        BY <2>1, <3>1, <3>4 DEF OwnerInTime
      <4>3. OwnerInTime(s)'
        BY <3>1, <3>2, <4>2 DEF OwnerInTime
      <4>4. lease'.holder \in {NoReplica, lease.holder}
        BY <1>4, <2>8
      <4>5. DisplacedInTime(s)'
        BY <2>1, <2>3, <3>1, <3>2, <4>1, <4>4 DEF DisplacedInTime
      <4> QED
        BY <2>2, <4>3, <4>5
    <3> QED
      BY <3>3, <3>4
  <2> QED
    BY <1>4, <2>6, <2>7, <2>8
<1> QED
  BY <1>5, <1>7, <1>8, <1>9, <1>10 DEF TimesInv

\* Both kinds of write keep the time bounds.
LEMMA WritesInTime ==
    ASSUME IInv, TimesInv, IInv',
           \/ \E s \in Sessions : Accept(s)
           \/ \E p \in late : AcceptLate(p)
    PROVE  TimesInv'
<1>1. TypeOK /\ PutsConsistent /\ ContendersWaited
  BY DEF IInv, TimesInv
<1>2. ASSUME NEW s \in Sessions, Accept(s) PROVE TimesInv'
  <2>1. /\ PutOf(s) \in Put /\ PutOf(s).session = s
        /\ execute(PutOf(s)) /\ accepts(PutOf(s)) /\ Current(PutOf(s))
        /\ Waited(PutOf(s))
    BY <1>2, AcceptedPut
  <2>2. /\ UNCHANGED << now, obs, call, fence, timer >>
        /\ pc[s] \in Sent /\ pc' = [pc EXCEPT ![s] = answer(pc[s])]
    BY <1>2 DEF Accept
  <2>3. /\ PutOf(s).op = "acquire" <=> pc[s] = "acquireSent"
        /\ PutOf(s).op = "release" => pc[s] = "releaseSent"
        /\ PutOf(s).epoch = fence[s]
    BY <1>1, <2>2, PutOfType DEF Sent
  <2>4. \A t \in Sessions : t /= s => pc'[t] = pc[t]
    BY <1>1, <2>2 DEF TypeOK
  <2>5. pc' /= pc
    BY <1>1, <2>2 DEF TypeOK, answer, Sent
  <2> QED
    BY <2>1, <2>2, <2>3, <2>4, <2>5, WriteTimes
<1>3. ASSUME NEW p \in late, AcceptLate(p) PROVE TimesInv'
  <2>1. /\ p \in Put /\ execute(p) /\ accepts(p) /\ Current(p) /\ Waited(p)
        /\ UNCHANGED << now, obs, call, fence, timer >> /\ pc' = pc
        /\ p.op \in {"acquire", "release"} => pc[p.session] = "done"
    BY <1>1, <1>3 DEF AcceptLate, PutsConsistent, ContendersWaited, TypeOK
  <2> QED
    BY <2>1, WriteTimes
<1> QED
  BY <1>2, <1>3

\* A session that is not named in a step that leaves the Lease and time alone
\* keeps its bounds.
LEMMA OthersInTime ==
    ASSUME NEW t \in Sessions,
           UNCHANGED << now, lease, writtenAt, takenAt >>,
           pc'[t] = pc[t], call'[t] = call[t], fence'[t] = fence[t],
           timer'[t] = timer[t],
           OwnerInTime(t), DisplacedInTime(t), MaintenanceInTime(t)
    PROVE  OwnerInTime(t)' /\ DisplacedInTime(t)' /\ MaintenanceInTime(t)'
  BY DEF OwnerInTime, DisplacedInTime, MaintenanceInTime, Live, Trusting, Kept,
         Until, Confirmed, renew_after

\* A step of one session that leaves the Lease and time alone, from what it
\* does to that session and to its replica's observations.
LEMMA LocalInTime ==
    ASSUME IInv, TimesInv, NEW s \in Sessions,
           UNCHANGED << now, lease, granted, writtenAt, takenAt >>,
           \A t \in Sessions : t /= s => /\ pc'[t] = pc[t]
                                         /\ call'[t] = call[t]
                                         /\ fence'[t] = fence[t]
                                         /\ timer'[t] = timer[t],
           pc'[s] \in Calling =>
             /\ call'[s].began <= call'[s].readAt /\ call'[s].readAt <= now
             /\ now <= call'[s].began + OpTimeout,
           ObservationsInTime',
           pc'[s] = "acquireSent" /\ call'[s].base = lease.rv =>
             Waited(PutOf(s))',
           late' = late \/ late' = late \cup abandoned({s}),
           OwnerInTime(s)' /\ DisplacedInTime(s)' /\ MaintenanceInTime(s)'
    PROVE  TimesInv'
<1>1. TypeOK /\ ClocksOrdered /\ CallsInTime /\ ContendersWaited
  BY DEF IInv, TimesInv
<1>2. ClocksOrdered'
  BY <1>1 DEF ClocksOrdered
<1>3. CallsInTime'
  BY <1>1 DEF CallsInTime
<1>4. ContendersWaited'
  <2>1. ASSUME NEW t \in Sessions, pc'[t] = "acquireSent",
               call'[t].base = lease'.rv
        PROVE  Waited(PutOf(t))'
    <3>1. CASE t = s
      BY <2>1, <3>1
    <3>2. CASE t /= s
      <4>1. PutOf(t)' = PutOf(t)
        BY <3>2 DEF PutOf
      <4>2. Waited(PutOf(t))
        BY <1>1, <2>1, <3>2 DEF ContendersWaited
      <4> QED
        BY <4>1, <4>2 DEF Waited
    <3> QED
      BY <3>1, <3>2
  <2>2. ASSUME NEW p \in late' PROVE Waited(p)'
    <3>1. CASE p \in late
      BY <1>1, <3>1 DEF ContendersWaited, Waited
    <3>2. CASE p \notin late
      <4>1. p = PutOf(s) /\ accepts(p)
        BY <2>2, <3>2 DEF abandoned
      <4>2. Waited(p)
        BY <1>1, <4>1, PutOfType DEF ContendersWaited, Waited, accepts
      <4> QED
        BY <4>2 DEF Waited
    <3> QED
      BY <3>1, <3>2
  <2> QED
    BY <2>1, <2>2 DEF ContendersWaited
<1>5. ASSUME NEW t \in Sessions
      PROVE  OwnerInTime(t)' /\ DisplacedInTime(t)' /\ MaintenanceInTime(t)'
  <2>1. OwnerInTime(t) /\ DisplacedInTime(t) /\ MaintenanceInTime(t)
    BY DEF TimesInv
  <2> QED
    BY <2>1, OthersInTime
<1> QED
  BY <1>2, <1>3, <1>4, <1>5 DEF TimesInv

\* The observations stay in time when nobody looks.
LEMMA NobodyLooks ==
    ASSUME TimesInv, UNCHANGED << lease, obs, writtenAt >>
    PROVE  ObservationsInTime'
  BY DEF TimesInv, ObservationsInTime

\* A session that is not live has no bounds to keep.
LEMMA IdleInTime ==
    ASSUME NEW s \in Sessions, ~(pc'[s] \in {"held", "acquireOk", "starting"} \cup Renewing)
    PROVE  OwnerInTime(s)' /\ DisplacedInTime(s)' /\ MaintenanceInTime(s)'
  BY DEF OwnerInTime, DisplacedInTime, MaintenanceInTime, Live, Trusting, Kept

\* A session that stays valid without new confirmation keeps its deadline.
LEMMA StaysInTime ==
    ASSUME NEW s \in Sessions, Kept(s), pc'[s] \in {"held", "renewGet", "renewSent"},
           UNCHANGED << lease, writtenAt, takenAt, fence >>,
           timer'[s].deadline = timer[s].deadline,
           timer'[s].unkept = timer[s].unkept,
           OwnerInTime(s), DisplacedInTime(s)
    PROVE  OwnerInTime(s)' /\ DisplacedInTime(s)'
<1>1. /\ Trusting(s) /\ Trusting(s)' /\ Live(s) /\ Live(s)' /\ ~Confirmed(s)'
      /\ Until(s)' = Until(s)
  BY DEF Kept, Trusting, Until, Live, Confirmed, Renewing
<1> QED
  BY <1>1 DEF OwnerInTime, DisplacedInTime

\* Every action keeps the time bounds.
LEMMA TimesPreserved ==
    ASSUME IInv, TimesInv, [Next]_vars, IInv'
    PROVE  TimesInv'
<1> USE NamesAssumption, ReplicaOfAssumption, TimesAssumption
<1>a. /\ TypeOK /\ ClocksOrdered /\ CallsInTime /\ ObservationsInTime
      /\ ContendersWaited
  BY DEF IInv, TimesInv
<1>b. {"idle", "starting", "held", "dropped", "done", "acquireGet", "renewGet",
       "releaseGet", "acquireSent", "renewSent", "releaseSent", "acquireOk",
       "renewOk", "releaseOk"} = Pc
  BY DEF Pc, Calling, Reading, Sent, Answered
<1>d. /\ pc \in [Sessions -> Pc] /\ fence \in [Sessions -> Nat]
      /\ timer \in [Sessions -> Timer] /\ call \in [Sessions -> CallRecord]
      /\ obs \in [Replicas -> [rv : Nat, at : Nat]]
  BY <1>a DEF TypeOK
<1>n. /\ now \in Nat /\ writtenAt \in Nat /\ takenAt \in Nat
      /\ lease.rv \in Nat /\ lease.epoch \in Nat
      /\ \A s \in Sessions :
           /\ call[s].began \in Nat /\ call[s].readAt \in Nat
           /\ call[s].base \in Nat /\ fence[s] \in Nat
           /\ timer[s].deadline \in Nat /\ timer[s].wakeAt \in Nat
           /\ timer[s].unkept \in Nat
      /\ \A r \in Replicas : obs[r].rv \in Nat /\ obs[r].at \in Nat
  BY <1>a, TimesAreNat
<1>r0. renew_after \in Nat /\ renew_after > 0
  BY SleepIsPositive
<1>s. \A s \in Sessions : OwnerInTime(s) /\ DisplacedInTime(s) /\ MaintenanceInTime(s)
  BY DEF TimesInv
<1>1. ASSUME NEW s \in Sessions, StartAcquire(s) \/ StartRenew(s) PROVE TimesInv'
  <2>1. PICK to \in {"acquireGet", "renewGet"} :
          /\ Begin(s, to)
          /\ to = "renewGet" => pc[s] = "held" /\ now < timer[s].deadline
          /\ UNCHANGED << now, lease, late, granted, writtenAt, takenAt, obs,
                          fence, timer >>
    BY <1>1 DEF StartAcquire, StartRenew, server
  <2>2. /\ pc' = [pc EXCEPT ![s] = to]
        /\ call' = [call EXCEPT ![s] = [began |-> now, readAt |-> now,
                                        attempts |-> 1, base |-> 0]]
    BY <2>1 DEF Begin
  <2>3. /\ pc'[s] = to /\ call'[s].began = now /\ call'[s].readAt = now
        /\ \A t \in Sessions : t /= s => pc'[t] = pc[t] /\ call'[t] = call[t]
    BY <1>d, <2>2
  <2>4. OwnerInTime(s)' /\ DisplacedInTime(s)' /\ MaintenanceInTime(s)'
    <3>1. CASE to = "renewGet"
      <4>1. Kept(s)
        BY <2>1, <3>1 DEF Kept
      <4>2. MaintenanceInTime(s)'
        BY <1>n, <2>1, <2>3, <3>1 DEF MaintenanceInTime
      <4> QED
        BY <1>s, <2>1, <2>3, <3>1, <4>1, <4>2, StaysInTime
    <3>2. CASE to /= "renewGet"
      BY <2>1, <2>3, <3>2, IdleInTime DEF Renewing
    <3> QED
      BY <3>1, <3>2
  <2>5. now <= now + OpTimeout /\ now <= now
    BY <1>n
  <2>6. ObservationsInTime'
    BY <2>1, NobodyLooks
  <2> QED
    BY <2>1, <2>2, <2>3, <2>4, <2>5, <2>6, LocalInTime
<1>r. ASSUME NEW s \in Sessions, Reject(s) \/ Close(s) PROVE TimesInv'
  <2>1. /\ Begin(s, "releaseGet") /\ timer' = [timer EXCEPT ![s] = NoTimer]
        /\ UNCHANGED << now, lease, late, granted, writtenAt, takenAt, obs, fence >>
    BY <1>r DEF Reject, Close, Revoke, server
  <2>2. /\ pc'[s] = "releaseGet" /\ call'[s].began = now /\ call'[s].readAt = now
        /\ \A t \in Sessions : t /= s => /\ pc'[t] = pc[t] /\ call'[t] = call[t]
                                         /\ timer'[t] = timer[t]
    BY <1>d, <2>1 DEF Begin
  <2>3. OwnerInTime(s)' /\ DisplacedInTime(s)' /\ MaintenanceInTime(s)'
    BY <2>2, IdleInTime DEF Renewing
  <2>4. now <= now + OpTimeout /\ now <= now
    BY <1>n
  <2>5. ObservationsInTime'
    BY <2>1, NobodyLooks
  <2> QED
    BY <2>1, <2>2, <2>3, <2>4, <2>5, LocalInTime
<1>k. ASSUME NEW s \in Sessions, StartKeeper(s) \/ Dropped(s) PROVE TimesInv'
  <2>1. /\ pc[s] = "starting"
        /\ UNCHANGED << now, lease, late, granted, writtenAt, takenAt, obs, call,
                        fence >>
        /\ \/ /\ pc' = [pc EXCEPT ![s] = "dropped"]
              /\ timer' = [timer EXCEPT ![s] = NoTimer]
           \/ /\ pc' = [pc EXCEPT ![s] = "held"]
              /\ timer' = [timer EXCEPT ![s].deadline = now + Duration,
                                        ![s].wakeAt = now + renew_after]
    BY <1>k DEF StartKeeper, Dropped, GoTo, server
  <2>2. \A t \in Sessions : t /= s => pc'[t] = pc[t] /\ timer'[t] = timer[t]
    BY <1>d, <2>1
  <2>3. OwnerInTime(s)' /\ DisplacedInTime(s)' /\ MaintenanceInTime(s)'
    <3>1. CASE pc' = [pc EXCEPT ![s] = "dropped"]
      <4>1. pc'[s] = "dropped"
        BY <1>d, <3>1
      <4> QED
        BY <4>1, IdleInTime DEF Renewing
    <3>2. CASE /\ pc' = [pc EXCEPT ![s] = "held"]
               /\ timer' = [timer EXCEPT ![s].deadline = now + Duration,
                                         ![s].wakeAt = now + renew_after]
      <4>1. pc'[s] = "held"
        BY <1>d, <3>2
      <4>2. timer[s] \in Timer /\ timer \in [Sessions -> Timer]
        BY <1>d
      <4>3. /\ timer'[s].deadline = now + Duration
            /\ timer'[s].wakeAt = now + renew_after
            /\ timer'[s].unkept = timer[s].unkept
        BY <3>2, <4>2 DEF Timer
      <4>4. /\ Live(s) /\ Trusting(s) /\ Trusting(s)' /\ ~Confirmed(s)'
            /\ Until(s) = now + Duration /\ Until(s)' = now + Duration
        BY <2>1, <4>1, <4>3
           DEF Live, Trusting, Kept, Confirmed, Until
      <4>5. OwnerInTime(s)'
        BY <1>s, <2>1, <4>3, <4>4 DEF OwnerInTime
      <4>6. DisplacedInTime(s)'
        BY <1>s, <2>1, <4>3, <4>4 DEF DisplacedInTime
      <4>7. now <= now + renew_after /\ now + renew_after < now + Duration + renew_after
        BY <1>n, <1>r0
      <4>8. MaintenanceInTime(s)'
        BY <2>1, <4>1, <4>3, <4>7 DEF MaintenanceInTime, Renewing, renew_after
      <4> QED
        BY <4>5, <4>6, <4>8
    <3> QED
      BY <2>1, <3>1, <3>2
  <2>4. pc'[s] \in {"held", "dropped"}
    BY <1>d, <2>1
  <2>5. ObservationsInTime'
    BY <2>1, NobodyLooks
  <2> QED
    BY <2>1, <2>2, <2>3, <2>4, <2>5, LocalInTime
       DEF Calling, Reading, Sent, Answered
<1>2. ASSUME NEW s \in Sessions, AcquireGet(s) PROVE TimesInv'
  <2> DEFINE r == ReplicaOf[s]
             t == call[s].readAt
  <2>1. /\ pc[s] = "acquireGet" /\ observe(r, t)
        /\ UNCHANGED << now, lease, late, granted, writtenAt, takenAt, timer >>
    BY <1>2 DEF AcquireGet, server
  <2>2. /\ call[s].began <= t /\ t <= now /\ now <= call[s].began + OpTimeout
        /\ t \in Nat /\ r \in Replicas
    BY <1>a, <1>n, <2>1 DEF CallsInTime, Calling, Reading
  <2>3. writtenAt <= t + OpTimeout
    BY <1>a, <1>n, <2>2 DEF ClocksOrdered
  <2>4. observed(r, t).rv = lease.rv /\ writtenAt <= observed(r, t).at + OpTimeout
    BY <1>a, <2>2, <2>3 DEF observed, ObservationsInTime
  <2>5. ObservationsInTime'
    <3>1. \A q \in Replicas : obs'[q] = obs[q] \/ obs'[q] = observed(r, t)
      BY <1>d, <2>1, <2>2 DEF observe
    <3>2. \A q \in Replicas : /\ obs[q].rv <= lease.rv
                              /\ obs[q].rv = lease.rv =>
                                   writtenAt <= obs[q].at + OpTimeout
      BY <1>a DEF ObservationsInTime
    <3>3. lease.rv <= lease.rv
      BY <1>n
    <3> HIDE DEF r, t
    <3>4. \A q \in Replicas : /\ obs'[q].rv <= lease.rv
                              /\ obs'[q].rv = lease.rv =>
                                   writtenAt <= obs'[q].at + OpTimeout
      BY <2>4, <3>1, <3>2, <3>3
    <3> QED
      BY <2>1, <3>4 DEF ObservationsInTime
  <2>6. CASE Return(s, "done") /\ UNCHANGED fence
    <3>1. /\ pc' = [pc EXCEPT ![s] = "done"]
          /\ \A q \in Sessions : q /= s => call'[q] = call[q]
      BY <1>a, <1>b, <2>6, ReturnEffect
    <3>2. pc'[s] = "done" /\ \A q \in Sessions : q /= s => pc'[q] = pc[q]
      BY <1>d, <3>1
    <3>3. OwnerInTime(s)' /\ DisplacedInTime(s)' /\ MaintenanceInTime(s)'
      BY <3>2, IdleInTime DEF Renewing
    <3> QED
      BY <2>1, <2>5, <2>6, <3>1, <3>2, <3>3, LocalInTime
         DEF Calling, Reading, Sent, Answered
  <2>7. CASE /\ Send(s, "acquireSent")
             /\ fence' = [fence EXCEPT ![s] = next_epoch(r)]
             /\ ~(is_active(r, t) /\ lease.holder /= r)
    <3>1. /\ pc' = [pc EXCEPT ![s] = "acquireSent"]
          /\ call' = [call EXCEPT ![s].base = lease.rv]
      BY <2>7 DEF Send
    <3>2. /\ pc'[s] = "acquireSent"
          /\ call'[s].began = call[s].began /\ call'[s].readAt = call[s].readAt
          /\ \A q \in Sessions : q /= s => /\ pc'[q] = pc[q]
                                           /\ call'[q] = call[q]
                                           /\ fence'[q] = fence[q]
      BY <1>d, <2>7, <3>1 DEF CallRecord
    <3>3. lease.holder \notin {NoReplica, r} => writtenAt + Duration <= now + OpTimeout
      <4>1. SUFFICES ASSUME lease.holder \notin {NoReplica, r}
                     PROVE  writtenAt + Duration <= now + OpTimeout
        OBVIOUS
      <4>2. ~(t < observed(r, t).at + Duration)
        BY <2>7, <4>1 DEF is_active
      <4>3. observed(r, t).at \in Nat
        BY <1>n, <2>2 DEF observed
      <4> HIDE DEF t, r
      <4> QED
        BY <1>n, <2>2, <2>4, <4>2, <4>3
    <3>4. Waited(PutOf(s))'
      <4>1. PutOf(s)'.session = s
        BY DEF PutOf
      <4> QED
        BY <2>1, <3>3, <4>1 DEF Waited
    <3>5. OwnerInTime(s)' /\ DisplacedInTime(s)' /\ MaintenanceInTime(s)'
      BY <3>2, IdleInTime DEF Renewing
    <3> QED
      BY <2>1, <2>2, <2>5, <3>2, <3>4, <3>5, LocalInTime
  <2> QED
    BY <1>2, <2>6, <2>7 DEF AcquireGet
<1>3. ASSUME NEW s \in Sessions, Acquired(s) PROVE TimesInv'
  <2>1. /\ pc[s] = "acquireOk" /\ Return(s, "starting")
        /\ UNCHANGED << now, lease, late, granted, writtenAt, takenAt, obs,
                        fence, timer >>
    BY <1>3 DEF Acquired, server
  <2>2. /\ pc' = [pc EXCEPT ![s] = "starting"]
        /\ \A t \in Sessions : t /= s => call'[t] = call[t]
    BY <1>a, <1>b, <2>1, ReturnEffect
  <2>3. pc'[s] = "starting" /\ \A t \in Sessions : t /= s => pc'[t] = pc[t]
    BY <1>d, <2>2
  <2>4. now <= call[s].began + OpTimeout
    BY <1>a, <2>1 DEF CallsInTime, Calling, Answered
  <2>5. /\ Live(s) /\ Confirmed(s) /\ ~Confirmed(s)'
        /\ Until(s)' = now + Duration
    BY <2>1, <2>3 DEF Live, Confirmed, Until
  <2>6. /\ call[s].began \in Nat /\ timer[s].unkept \in Nat
        /\ writtenAt \in Nat /\ takenAt \in Nat /\ now \in Nat
        /\ OpTimeout \in Nat /\ Duration \in Nat
    BY <1>n
  <2>7. OwnerInTime(s)'
    <3>1. call[s].began <= writtenAt =>
            now + Duration <= writtenAt + OpTimeout + Duration + timer[s].unkept
      BY <2>4, <2>6
    <3> QED
      BY <1>s, <2>1, <2>5, <3>1 DEF OwnerInTime
  <2>8. DisplacedInTime(s)'
    <3>1. call[s].began + Duration <= takenAt + OpTimeout =>
            now + Duration <= takenAt + 2 * OpTimeout + timer[s].unkept
      BY <2>4, <2>6
    <3> QED
      BY <1>s, <2>1, <2>5, <3>1 DEF DisplacedInTime
  <2>9. MaintenanceInTime(s)' /\ ObservationsInTime'
    BY <2>1, <2>3, NobodyLooks DEF MaintenanceInTime, Renewing
  <2> QED
    BY <2>1, <2>2, <2>3, <2>7, <2>8, <2>9, LocalInTime
       DEF Calling, Reading, Sent, Answered
<1>l. ASSUME NEW s \in Sessions, Renewed(s) PROVE TimesInv'
  <2>1. /\ pc[s] = "renewOk" /\ Return(s, "held")
        /\ timer' = [timer EXCEPT ![s] = [deadline |-> now + Duration,
                                          wakeAt |-> now + renew_after,
                                          unkept |-> 0]]
        /\ UNCHANGED << now, lease, late, granted, writtenAt, takenAt, obs, fence >>
    BY <1>l DEF Renewed, server
  <2>2. /\ pc' = [pc EXCEPT ![s] = "held"]
        /\ \A t \in Sessions : t /= s => call'[t] = call[t]
    BY <1>a, <1>b, <2>1, ReturnEffect
  <2>3. /\ pc'[s] = "held"
        /\ timer'[s].deadline = now + Duration
        /\ timer'[s].wakeAt = now + renew_after
        /\ timer'[s].unkept = 0
        /\ \A t \in Sessions : t /= s => pc'[t] = pc[t] /\ timer'[t] = timer[t]
    BY <1>d, <2>1, <2>2
  <2>4. MaintenanceInTime(s)'
    <3>1. now <= now + renew_after /\ now + renew_after < now + Duration + renew_after
      BY <1>n, <1>r0
    <3> QED
      BY <2>1, <2>3, <3>1 DEF MaintenanceInTime, Renewing, renew_after
  <2>5. now <= call[s].began + OpTimeout
    BY <1>a, <2>1 DEF CallsInTime, Calling, Answered
  <2>6. /\ Live(s) /\ Confirmed(s) /\ ~Confirmed(s)'
        /\ Until(s)' = now + Duration
    BY <2>1, <2>3 DEF Live, Trusting, Kept, Confirmed, Until, Renewing
  <2>7. OwnerInTime(s)'
    <3>1. call[s].began <= writtenAt =>
            now + Duration <= writtenAt + OpTimeout + Duration + 0
      BY <1>n, <2>5
    <3> QED
      BY <1>s, <2>1, <2>3, <2>6, <3>1 DEF OwnerInTime
  <2>8. DisplacedInTime(s)'
    <3>1. call[s].began + Duration <= takenAt + OpTimeout =>
            now + Duration <= takenAt + 2 * OpTimeout + 0
      BY <1>n, <2>5
    <3> QED
      BY <1>s, <2>1, <2>3, <2>6, <3>1 DEF DisplacedInTime
  <2>9. ObservationsInTime'
    BY <2>1, NobodyLooks
  <2> QED
    BY <2>1, <2>2, <2>3, <2>4, <2>7, <2>8, <2>9, LocalInTime
       DEF Calling, Reading, Sent, Answered
<1>4. ASSUME NEW s \in Sessions, RenewGet(s) \/ ReleaseGet(s) PROVE TimesInv'
  <2>1. /\ pc[s] \in {"renewGet", "releaseGet"}
        /\ UNCHANGED << now, lease, late, granted, writtenAt, takenAt, obs, fence >>
        /\ \/ timer' = timer
           \/ timer' = [timer EXCEPT ![s] = NoTimer]
    BY <1>4 DEF RenewGet, ReleaseGet, Revoke, server
  <2>2. ObservationsInTime'
    BY <2>1, NobodyLooks
  <2>3. \A t \in Sessions : t /= s => timer'[t] = timer[t]
    BY <1>d, <2>1
  <2>4. ASSUME NEW to \in {"releaseGet", "done"},
               to = "releaseGet" => Begin(s, to),
               to = "done" => Return(s, to)
        PROVE  TimesInv'
    <3>1. /\ pc' = [pc EXCEPT ![s] = to]
          /\ \A q \in Sessions : q /= s => call'[q] = call[q]
      BY <1>a, <1>b, <2>4, ReturnEffect, BeginEffect
    <3>4. pc'[s] \in Calling =>
            /\ call'[s].began <= call'[s].readAt /\ call'[s].readAt <= now
            /\ now <= call'[s].began + OpTimeout
      <4>1. CASE to = "releaseGet"
        BY <1>d, <1>n, <2>4, <4>1 DEF Begin
      <4>2. CASE to = "done"
        BY <1>d, <3>1, <4>2 DEF Calling, Reading, Sent, Answered
      <4> QED
        BY <4>1, <4>2
    <3>2. pc'[s] = to /\ \A q \in Sessions : q /= s => pc'[q] = pc[q]
      BY <1>d, <3>1
    <3>3. OwnerInTime(s)' /\ DisplacedInTime(s)' /\ MaintenanceInTime(s)'
      BY <3>2, IdleInTime DEF Renewing
    <3> QED
      BY <2>1, <2>2, <2>3, <3>1, <3>2, <3>3, <3>4, LocalInTime
  <2>5. ASSUME NEW to \in {"renewSent", "releaseSent"}, Send(s, to),
               timer' = timer, pc[s] = "renewGet" <=> to = "renewSent"
        PROVE  TimesInv'
    <3>1. /\ pc' = [pc EXCEPT ![s] = to]
          /\ call' = [call EXCEPT ![s].base = lease.rv]
      BY <2>5 DEF Send
    <3>2. /\ pc'[s] = to
          /\ call'[s].began = call[s].began /\ call'[s].readAt = call[s].readAt
          /\ \A q \in Sessions : q /= s => pc'[q] = pc[q] /\ call'[q] = call[q]
      BY <1>d, <3>1 DEF CallRecord
    <3>3. /\ call[s].began <= call[s].readAt /\ call[s].readAt <= now
          /\ now <= call[s].began + OpTimeout
      BY <1>a, <2>1 DEF CallsInTime, Calling, Reading
    <3>4. OwnerInTime(s)' /\ DisplacedInTime(s)' /\ MaintenanceInTime(s)'
      <4>1. CASE to = "renewSent"
        <5>1. Kept(s)
          BY <2>5, <4>1 DEF Kept, Renewing
        <5>2. MaintenanceInTime(s)'
          BY <1>s, <2>1, <2>5, <3>2, <4>1 DEF MaintenanceInTime, Renewing
        <5> QED
          BY <1>s, <2>1, <2>5, <3>2, <4>1, <5>1, <5>2, StaysInTime
      <4>2. CASE to /= "renewSent"
        BY <2>5, <3>2, <4>2, IdleInTime DEF Renewing
      <4> QED
        BY <4>1, <4>2
    <3> QED
      BY <2>1, <2>2, <2>3, <2>5, <3>2, <3>3, <3>4, LocalInTime
  <2> QED
    BY <1>4, <2>4, <2>5 DEF RenewGet, ReleaseGet, Revoke
<1>5. ASSUME NEW s \in Sessions, Released(s) PROVE TimesInv'
  <2>1. /\ Return(s, "done")
        /\ UNCHANGED << now, lease, late, granted, writtenAt, takenAt, obs,
                        fence, timer >>
    BY <1>5 DEF Released, server
  <2>2. /\ pc' = [pc EXCEPT ![s] = "done"]
        /\ \A q \in Sessions : q /= s => call'[q] = call[q]
    BY <1>a, <1>b, <2>1, ReturnEffect
  <2>3. pc'[s] = "done" /\ \A q \in Sessions : q /= s => pc'[q] = pc[q]
    BY <1>d, <2>2
  <2>4. OwnerInTime(s)' /\ DisplacedInTime(s)' /\ MaintenanceInTime(s)'
    BY <2>3, IdleInTime DEF Renewing
  <2>5. ObservationsInTime'
    BY <2>1, NobodyLooks
  <2> QED
    BY <2>1, <2>2, <2>3, <2>4, <2>5, LocalInTime
       DEF Calling, Reading, Sent, Answered
<1>6. CASE \/ \E s \in Sessions : Accept(s)
           \/ \E p \in late : AcceptLate(p)
  BY <1>6, WritesInTime
<1>7. ASSUME NEW s \in Sessions, Conflict(s) PROVE TimesInv'
  <2>1. /\ pc[s] \in Sent /\ pc' = [pc EXCEPT ![s] = again(pc[s])]
        /\ call' = [call EXCEPT ![s].attempts = @ + 1, ![s].readAt = now]
        /\ UNCHANGED << now, lease, late, granted, writtenAt, takenAt, obs,
                        fence, timer >>
    BY <1>7 DEF Conflict, server
  <2>2. /\ pc'[s] \in Reading
        /\ pc'[s] = "renewGet" <=> pc[s] = "renewSent"
        /\ \A q \in Sessions : q /= s => pc'[q] = pc[q] /\ call'[q] = call[q]
    BY <1>d, <2>1 DEF again, Sent, Reading
  <2>3. call'[s].began = call[s].began /\ call'[s].readAt = now
    BY <1>d, <2>1 DEF CallRecord
  <2>4. call[s].began <= now /\ now <= call[s].began + OpTimeout /\ now <= now
    BY <1>a, <1>n, <2>1 DEF CallsInTime, Calling
  <2>5. OwnerInTime(s)' /\ DisplacedInTime(s)' /\ MaintenanceInTime(s)'
    <3>1. CASE pc[s] = "renewSent"
      <4>1. Kept(s) /\ pc'[s] = "renewGet"
        BY <2>2, <3>1 DEF Kept, Renewing
      <4>2. MaintenanceInTime(s)'
        BY <1>s, <2>1, <3>1, <4>1 DEF MaintenanceInTime, Renewing
      <4> QED
        BY <1>s, <2>1, <4>1, <4>2, StaysInTime
    <3>2. CASE pc[s] /= "renewSent"
      BY <2>2, <3>2, IdleInTime DEF Renewing, Reading
    <3> QED
      BY <3>1, <3>2
  <2>6. ObservationsInTime'
    BY <2>1, NobodyLooks
  <2> QED
    BY <2>1, <2>2, <2>3, <2>4, <2>5, <2>6, LocalInTime DEF Reading
<1>8. ASSUME NEW s \in Sessions,
             \/ AcquireFailed(s) \/ RenewFailed(s) \/ RenewExpired(s)
             \/ ReleaseFailed(s)
      PROVE  TimesInv'
  <2>1. PICK to \in {"done", "held", "releaseGet"} :
          /\ GiveUp(s)
          /\ to = "releaseGet" => Begin(s, to)
          /\ to /= "releaseGet" => Return(s, to)
          /\ to = "held" => /\ pc[s] \in Renewing
                            /\ now < timer[s].deadline
                            /\ timer' = [timer EXCEPT ![s].wakeAt = now + renew_after]
          /\ to /= "held" => \/ timer' = timer
                             \/ timer' = [timer EXCEPT ![s] = NoTimer]
    BY <1>8 DEF AcquireFailed, RenewFailed, RenewExpired, ReleaseFailed, Revoke
  <2>2. /\ pc' = [pc EXCEPT ![s] = to]
        /\ \A t \in Sessions : t /= s => call'[t] = call[t]
        /\ UNCHANGED << now, lease, granted, writtenAt, takenAt, obs, fence >>
        /\ late' = late \cup abandoned({s})
    BY <1>a, <1>b, <2>1, ReturnEffect, BeginEffect DEF GiveUp
  <2>3. /\ pc'[s] = to
        /\ \A q \in Sessions : q /= s => pc'[q] = pc[q] /\ timer'[q] = timer[q]
    BY <1>d, <2>1, <2>2
  <2>4. OwnerInTime(s)' /\ DisplacedInTime(s)' /\ MaintenanceInTime(s)'
    <3>1. CASE to = "held"
      <4>1. /\ timer'[s].deadline = timer[s].deadline
            /\ timer'[s].unkept = timer[s].unkept
            /\ timer'[s].wakeAt = now + renew_after
        BY <1>d, <2>1, <3>1 DEF Timer
      <4>2. /\ now <= now + renew_after
            /\ now + renew_after < timer[s].deadline + renew_after
        BY <1>n, <1>r0, <2>1, <3>1
      <4>3. MaintenanceInTime(s)'
        BY <2>2, <2>3, <3>1, <4>1, <4>2 DEF MaintenanceInTime, Renewing, renew_after
      <4>4. Kept(s)
        BY <2>1, <3>1 DEF Kept
      <4> QED
        BY <1>s, <2>2, <2>3, <3>1, <4>1, <4>3, <4>4, StaysInTime
    <3>2. CASE to /= "held"
      BY <2>1, <2>3, <3>2, IdleInTime DEF Renewing
    <3> QED
      BY <3>1, <3>2
  <2>5. ObservationsInTime'
    BY <2>2, NobodyLooks
  <2>6. pc'[s] \in Calling =>
          /\ call'[s].began <= call'[s].readAt /\ call'[s].readAt <= now
          /\ now <= call'[s].began + OpTimeout
    <3>1. CASE to = "releaseGet"
      BY <1>d, <1>n, <2>1, <3>1 DEF Begin
    <3>2. CASE to /= "releaseGet"
      BY <2>3, <3>2 DEF Calling, Reading, Sent, Answered
    <3> QED
      BY <3>1, <3>2
  <2>7. pc'[s] /= "acquireSent"
    BY <2>3
  <2> QED
    BY <2>2, <2>3, <2>4, <2>5, <2>6, <2>7, LocalInTime
<1>9. ASSUME NEW r \in Replicas, Crash(r) PROVE TimesInv'
  <2> DEFINE dying == {s \in Sessions : ReplicaOf[s] = r /\ pc[s] /= "idle"}
  <2>1. /\ pc' = [s \in Sessions |-> IF s \in dying THEN "done" ELSE pc[s]]
        /\ call' = [s \in Sessions |-> IF s \in dying THEN NoCall ELSE call[s]]
        /\ timer' = [s \in Sessions |-> IF s \in dying THEN NoTimer ELSE timer[s]]
        /\ late' = late \cup abandoned(dying)
        /\ obs' = [obs EXCEPT ![r] = [rv |-> 0, at |-> 0]]
        /\ UNCHANGED << now, lease, granted, writtenAt, takenAt, fence >>
    BY <1>9 DEF Crash
  <2> dying \subseteq Sessions
    OBVIOUS
  <2> HIDE DEF dying
  <2>2. \A t \in Sessions : t \in dying => pc'[t] = "done"
    BY <2>1
  <2>3. \A t \in Sessions : t \notin dying =>
          pc'[t] = pc[t] /\ call'[t] = call[t] /\ timer'[t] = timer[t]
    BY <2>1
  <2>4. ClocksOrdered'
    BY <1>a, <2>1 DEF ClocksOrdered
  <2>5. CallsInTime'
    BY <1>a, <2>1, <2>2, <2>3 DEF CallsInTime, Calling, Reading, Sent, Answered
  <2>6. ObservationsInTime'
    <3>1. \A q \in Replicas :
            obs'[q] = IF q = r THEN [rv |-> 0, at |-> 0] ELSE obs[q]
      BY <1>d, <2>1
    <3>2. 0 <= lease.rv /\ (lease.rv = 0 => writtenAt <= 0 + OpTimeout)
      BY <1>a, <1>n DEF ClocksOrdered
    <3> QED
      BY <1>a, <2>1, <3>1, <3>2 DEF ObservationsInTime
  <2>7. ContendersWaited'
    <3>1. ASSUME NEW t \in Sessions, pc'[t] = "acquireSent",
                 call'[t].base = lease'.rv
          PROVE  Waited(PutOf(t))'
      <4>1. t \notin dying
        BY <2>2, <3>1
      <4>2. PutOf(t)' = PutOf(t)
        BY <2>1, <2>3, <4>1 DEF PutOf
      <4>3. Waited(PutOf(t))
        BY <1>a, <2>1, <2>3, <3>1, <4>1 DEF ContendersWaited
      <4> QED
        BY <2>1, <4>2, <4>3 DEF Waited
    <3>2. ASSUME NEW p \in late' PROVE Waited(p)'
      <4>1. CASE p \in late
        BY <1>a, <2>1, <4>1 DEF ContendersWaited, Waited
      <4>2. CASE p \in abandoned(dying)
        <5>1. PICK t \in dying : p = PutOf(t) /\ accepts(p)
          BY <4>2 DEF abandoned
        <5>2. Waited(p)
          BY <1>a, <5>1, PutOfType DEF ContendersWaited, Waited, accepts
        <5> QED
          BY <2>1, <5>2 DEF Waited
      <4> QED
        BY <2>1, <3>2, <4>1, <4>2
    <3> QED
      BY <3>1, <3>2 DEF ContendersWaited
  <2>8. ASSUME NEW t \in Sessions
        PROVE  OwnerInTime(t)' /\ DisplacedInTime(t)' /\ MaintenanceInTime(t)'
    <3>1. CASE t \in dying
      BY <2>2, <3>1, IdleInTime DEF Renewing
    <3>2. CASE t \notin dying
      BY <1>s, <2>1, <2>3, <3>2, OthersInTime
    <3> QED
      BY <3>1, <3>2
  <2> QED
    BY <2>4, <2>5, <2>6, <2>7, <2>8 DEF TimesInv
<1>10. CASE Tick
  <2>1. /\ now' = now + 1
        /\ \A s \in Sessions : ~timeout_due(s) /\ ~sleep_over(s)
        /\ UNCHANGED << lease, late, granted, writtenAt, takenAt, obs, pc,
                        call, fence >>
        /\ timer' = [s \in Sessions |->
                       IF pc[s] = "starting"
                         THEN [timer[s] EXCEPT !.unkept = @ + 1] ELSE timer[s]]
    BY <1>10 DEF Tick, server
  <2>2. ClocksOrdered'
    BY <1>a, <1>n, <2>1 DEF ClocksOrdered
  <2>3. CallsInTime'
    BY <1>a, <1>n, <2>1 DEF CallsInTime, timeout_due
  <2>4. ObservationsInTime'
    BY <2>1, NobodyLooks
  <2>5. \A t \in Sessions : PutOf(t)' = PutOf(t)
    BY <2>1 DEF PutOf
  <2>6. \A p : Waited(p) => Waited(p)'
    BY <1>n, <2>1 DEF Waited
  <2>7. ContendersWaited'
    BY <1>a, <2>1, <2>5, <2>6 DEF ContendersWaited
  <2>8. ASSUME NEW t \in Sessions
        PROVE  OwnerInTime(t)' /\ DisplacedInTime(t)' /\ MaintenanceInTime(t)'
    <3>0. /\ timer'[t].deadline = timer[t].deadline
          /\ timer'[t].wakeAt = timer[t].wakeAt
          /\ pc[t] = "starting" => timer'[t].unkept = timer[t].unkept + 1
          /\ pc[t] /= "starting" => timer'[t].unkept = timer[t].unkept
      <4>1. timer'[t] = IF pc[t] = "starting"
                          THEN [timer[t] EXCEPT !.unkept = @ + 1] ELSE timer[t]
        BY <2>1
      <4>2. timer[t] \in Timer
        BY <1>d
      <4> QED
        BY <4>1, <4>2 DEF Timer
    <3>1. OwnerInTime(t)' /\ DisplacedInTime(t)'
      <4>1. /\ Trusting(t)' <=> Trusting(t)
            /\ Live(t)' <=> Live(t)
            /\ Confirmed(t)' <=> Confirmed(t)
        BY <2>1 DEF Trusting, Kept, Live, Confirmed
      <4>2. /\ timer[t].unkept \in Nat /\ timer[t].deadline \in Nat
            /\ writtenAt \in Nat /\ takenAt \in Nat /\ now \in Nat
            /\ OpTimeout \in Nat /\ Duration \in Nat
        BY <1>n
      <4>3. \A b \in Nat : Until(t) <= b + timer[t].unkept =>
                            Until(t)' <= b + timer'[t].unkept
        <5>1. CASE pc[t] = "starting"
          BY <2>1, <3>0, <4>2, <5>1 DEF Until
        <5>2. CASE pc[t] /= "starting"
          BY <2>1, <3>0, <4>2, <5>2 DEF Until
        <5> QED
          BY <5>1, <5>2
      <4>4. /\ writtenAt + OpTimeout + Duration \in Nat
            /\ takenAt + 2 * OpTimeout \in Nat
        BY <4>2
      <4>5. OwnerInTime(t)'
        BY <1>s, <2>1, <4>1, <4>3, <4>4 DEF OwnerInTime
      <4>6. DisplacedInTime(t)'
        BY <1>s, <2>1, <4>1, <4>3, <4>4 DEF DisplacedInTime
      <4> QED
        BY <4>5, <4>6
    <3>2. pc[t] = "held" => now + 1 <= timer[t].wakeAt
      BY <1>n, <2>1 DEF sleep_over
    <3>3. pc[t] \in Renewing => now + 1 <= timer[t].deadline
      BY <1>n, <2>1 DEF timeout_due, Renewing, Calling, Reading, Sent, Answered
    <3>4. MaintenanceInTime(t)'
      BY <1>s, <2>1, <3>0, <3>2, <3>3 DEF MaintenanceInTime, renew_after
    <3> QED
      BY <3>1, <3>4
  <2> QED
    BY <2>2, <2>3, <2>4, <2>7, <2>8 DEF TimesInv
<1>11. CASE UNCHANGED vars
  <2>1. \A t \in Sessions : PutOf(t)' = PutOf(t)
    BY <1>11 DEF vars, PutOf
  <2>2. ContendersWaited'
    BY <1>11, <1>a, <2>1 DEF vars, ContendersWaited, Waited
  <2>3. ClocksOrdered' /\ CallsInTime' /\ ObservationsInTime'
    BY <1>11, <1>a DEF vars, ClocksOrdered, CallsInTime, ObservationsInTime
  <2>4. \A t \in Sessions :
          OwnerInTime(t)' /\ DisplacedInTime(t)' /\ MaintenanceInTime(t)'
    BY <1>11, <1>s, OthersInTime DEF vars
  <2> QED
    BY <2>2, <2>3, <2>4 DEF TimesInv
<1> QED
  BY <1>1, <1>r, <1>k, <1>2, <1>3, <1>l, <1>4, <1>5, <1>6, <1>7, <1>8, <1>9,
     <1>10, <1>11 DEF Next

\* TimesInv holds throughout.
THEOREM TimesInductive == Spec => []TimesInv
<1>1. Init => TimesInv
  <2> SUFFICES ASSUME Init PROVE TimesInv
    OBVIOUS
  <2> USE NamesAssumption, ReplicaOfAssumption, TimesAssumption
  <2>1. ClocksOrdered /\ CallsInTime /\ ContendersWaited
    BY DEF Init, NoLease, ClocksOrdered, CallsInTime, ContendersWaited,
           Calling, Reading, Sent, Answered
  <2>2. ObservationsInTime
    BY DEF Init, NoLease, ObservationsInTime
  <2>3. \A s \in Sessions :
          OwnerInTime(s) /\ DisplacedInTime(s) /\ MaintenanceInTime(s)
    BY DEF Init, OwnerInTime, DisplacedInTime, MaintenanceInTime, Live,
           Trusting, Kept, Renewing
  <2> QED
    BY <2>1, <2>2, <2>3 DEF TimesInv
<1>2. IInv /\ IInv' /\ TimesInv /\ [Next]_vars => TimesInv'
  BY TimesPreserved
<1> QED
  BY <1>1, <1>2, Inductive, PTL DEF Spec

\* A displaced owner that maintain_ownership watches stops believing in its Lease
\* within two operation timeouts and one sleep of the takeover, plus, before its
\* first confirmed renewal, the time it took to spawn the task.
THEOREM OverlapBounded == Spec => []OverlapIsBounded
<1>1. IInv /\ TimesInv => OverlapIsBounded
  <2> SUFFICES ASSUME IInv, TimesInv, NEW s \in Sessions, Kept(s),
                      lease.epoch = fence[s] + 1,
                      lease.holder \notin {NoReplica, ReplicaOf[s]}
               PROVE  now < takenAt + 2 * OpTimeout + renew_after + timer[s].unkept
    BY DEF OverlapIsBounded
  <2>1. timer[s].deadline <= takenAt + 2 * OpTimeout + timer[s].unkept
    <3>1. Live(s) /\ Trusting(s) /\ Until(s) = timer[s].deadline
      BY DEF Live, Trusting, Until, Kept, Renewing
    <3> QED
      BY <3>1 DEF TimesInv, DisplacedInTime
  <2>2. /\ timer[s].unkept \in Nat
        /\ now \in Nat /\ takenAt \in Nat /\ timer[s].deadline \in Nat
        /\ timer[s].wakeAt \in Nat /\ OpTimeout \in Nat
    BY TimesAreNat, TimesAssumption DEF IInv
  <2>3. renew_after \in Nat /\ renew_after > 0
    BY SleepIsPositive
  <2>4. now < timer[s].deadline + renew_after
    <3>1. CASE pc[s] = "held"
      BY <2>2, <2>3, <3>1 DEF TimesInv, MaintenanceInTime
    <3>2. CASE pc[s] \in Renewing
      BY <2>2, <2>3, <3>2 DEF TimesInv, MaintenanceInTime
    <3> QED
      BY <3>1, <3>2 DEF Kept
  <2> QED
    BY <2>1, <2>2, <2>3, <2>4
<1> QED
  BY <1>1, Inductive, TimesInductive, PTL

\* No replica takes another's Lease before a duration, less one operation
\* timeout, has passed since the last write.
THEOREM TakenAfterSilence == Spec => TakeoverAfterSilence
<1>1. IInv /\ TimesInv /\ [Next]_vars =>
        [Takeover => now + OpTimeout >= writtenAt + Duration]_vars
  <2> SUFFICES ASSUME IInv, TimesInv, [Next]_vars, Takeover
               PROVE  now + OpTimeout >= writtenAt + Duration
    OBVIOUS
  <2>1. TypeOK
    BY DEF IInv
  <2>2. ASSUME NEW p \in Put, execute(p), Waited(p)
        PROVE  writtenAt + Duration <= now + OpTimeout
    <3>1. lease' = written(p)
      BY <2>2 DEF execute
    <3>2. p.op = "acquire"
      BY <2>1, <2>2, <3>1, WrittenType DEF Takeover, Put, Operation
    <3>3. lease'.holder = ReplicaOf[p.session]
      BY <2>1, <2>2, <3>1, <3>2, WrittenType
    <3> QED
      BY <2>2, <3>2, <3>3 DEF Takeover, Waited
  <2>3. ~UNCHANGED << lease, granted, writtenAt, takenAt >>
    BY DEF Takeover
  <2>4. CASE \E s \in Sessions : Accept(s)
    <3>1. PICK s \in Sessions : Accept(s)
      BY <2>4
    <3>2. PutOf(s) \in Put /\ execute(PutOf(s)) /\ Waited(PutOf(s))
      BY <3>1, AcceptedPut
    <3>3. writtenAt + Duration <= now + OpTimeout
      BY <2>2, <3>2
    <3> QED
      BY <3>3, <2>1, TimesAreNat, TimesAssumption
  <2>5. CASE \E p \in late : AcceptLate(p)
    <3>1. PICK p \in late : AcceptLate(p)
      BY <2>5
    <3>2. p \in Put /\ execute(p) /\ Waited(p)
      BY <2>1, <3>1 DEF AcceptLate, TimesInv, ContendersWaited, TypeOK
    <3>3. writtenAt + Duration <= now + OpTimeout
      BY <2>2, <3>2
    <3> QED
      BY <3>3, <2>1, TimesAreNat, TimesAssumption
  <2> QED
    BY <2>3, <2>4, <2>5, WriteOrNot
<1> QED
  BY <1>1, Inductive, TimesInductive, PTL DEF Spec, TakeoverAfterSilence
=============================================================================
