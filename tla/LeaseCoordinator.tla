-------------------------- MODULE LeaseCoordinator --------------------------
(***************************************************************************)
(* KubernetesLeaseCoordinator and the maintain_ownership task that drives  *)
(* it, for one role (one controller's ownership Lease).                    *)
(*                                                                         *)
(* Each of acquire, renew and release is a loop of a GET and a PUT that    *)
(* the API server accepts only if the resourceVersion is still the one     *)
(* that was read.  A caller gives up after COORDINATION_OPERATION_TIMEOUT, *)
(* but a PUT it has sent may be executed afterwards.  A contender does not *)
(* compare wall clocks: it takes a Lease over when it has seen the same    *)
(* resourceVersion for a whole lease duration on its own monotonic clock.  *)
(* The owner, in turn, trusts its Lease for a duration counted from the    *)
(* answer to its last renewal, or from the start of maintain_ownership,    *)
(* which sync spawns only after the registration is projected and the      *)
(* first messages are sent: until then, and for ever if sync is dropped    *)
(* before, ownership_valid is true and nobody watches the clock.           *)
(* (fence_owned_session clears ownership_valid on behalf of a newer        *)
(* session: OwnedSessions.  Here it stays true as long as it may.)         *)
(*                                                                         *)
(* Time is counted in ticks; a tick cannot pass while a timer that is due  *)
(* has not been handled.                                                   *)
(***************************************************************************)
EXTENDS Naturals

CONSTANTS
    Sessions,    \* the sync calls that ask for the role
    Replicas,    \* Center replicas
    ReplicaOf,   \* the replica (Lease holder identity) of each session
    NoSession,   \* no token annotation
    NoReplica,   \* no holder
    Duration,    \* lease_duration, in ticks
    OpTimeout,   \* COORDINATION_OPERATION_TIMEOUT, in ticks
    MaxAttempts, \* MAX_CONFLICT_RETRIES
    MaxStarting, \* bound: ticks that pass before maintain_ownership is spawned
    MaxTime      \* bound: ticks

ASSUME NamesAssumption == NoSession \notin Sessions /\ NoReplica \notin Replicas
ASSUME ReplicaOfAssumption == ReplicaOf \in [Sessions -> Replicas]
ASSUME TimesAssumption ==
    /\ Duration \in Nat \ {0} /\ OpTimeout \in Nat \ {0}
    /\ MaxAttempts \in Nat \ {0} /\ MaxTime \in Nat /\ MaxStarting \in Nat

VARIABLES
    now,        \* time
    lease,      \* the Lease object; rv = 0 while it does not exist
    obs,        \* observations of each replica's coordinator
    pc,         \* where each session is
    call,       \* the running coordinator call of each session
    fence,      \* the epoch of the session's Leadership
    valid,      \* ownership_valid of each session
    timer,      \* maintain_ownership: the deadline and the end of the sleep
    late,       \* PUTs whose caller has given up and that can still succeed
    granted,    \* history: the epoch each session's acquire was granted
    writtenAt,  \* history: when the Lease was last written
    takenAt     \* history: when the Lease was last acquired

vars == << now, lease, obs, pc, call, fence, valid, timer, late, granted,
           writtenAt, takenAt >>

server == << lease, late, granted, writtenAt, takenAt >>

(***************************************************************************)
(* Values                                                                  *)
(***************************************************************************)
Operation == {"acquire", "renew", "release"}

\* A session in one of these has sent a PUT and waits for the answer.
Sent == {"acquireSent", "renewSent", "releaseSent"}
Reading == {"acquireGet", "renewGet", "releaseGet"}
Answered == {"acquireOk", "renewOk", "releaseOk"}
Calling == Reading \cup Sent \cup Answered
Renewing == {"renewGet", "renewSent", "renewOk"}

\* "starting": sync goes on with its registration, maintain_ownership is not
\* spawned yet.  "dropped": the peer reset the stream meanwhile.
Pc == {"idle", "starting", "held", "dropped", "done"} \cup Calling

Lease == [rv : Nat, holder : Replicas \cup {NoReplica},
          token : Sessions \cup {NoSession}, epoch : Nat]
NoLease == [rv |-> 0, holder |-> NoReplica, token |-> NoSession, epoch |-> 0]

\* A running call: when it began, monotonic_now of the attempt, the number of
\* attempts and the resourceVersion that the PUT is based on.
CallRecord == [began : Nat, readAt : Nat, attempts : Nat, base : Nat]
NoCall == [began |-> 0, readAt |-> 0, attempts |-> 0, base |-> 0]

\* unkept: history, the time from the answer to acquire to the start of
\* maintain_ownership, until the first renewal is confirmed.
Timer == [deadline : Nat, wakeAt : Nat, unkept : Nat]
NoTimer == [deadline |-> 0, wakeAt |-> 0, unkept |-> 0]

Put == [session : Sessions, op : Operation, rv : Nat, epoch : Nat]

Init ==
    /\ now = 0
    /\ lease = NoLease
    /\ obs = [r \in Replicas |-> [rv |-> 0, at |-> 0]]
    /\ pc = [s \in Sessions |-> "idle"]
    /\ call = [s \in Sessions |-> NoCall]
    /\ fence = [s \in Sessions |-> 0]
    /\ valid = [s \in Sessions |-> FALSE]
    /\ timer = [s \in Sessions |-> NoTimer]
    /\ late = {}
    /\ granted = [s \in Sessions |-> 0]
    /\ writtenAt = 0
    /\ takenAt = 0

\* maintain_ownership runs: it sleeps or renews.
Kept(s) == pc[s] \in {"held"} \cup Renewing

\* The registry has the session online and its ownership is valid: Admin requests
\* may go through it.  (A rejected registration is marked offline first.)
Usable(s) == valid[s] /\ (Kept(s) \/ pc[s] \in {"starting", "dropped"})

GoTo(s, from, to) == pc[s] = from /\ pc' = [pc EXCEPT ![s] = to]

\* max(valid_for / 3, 100ms): never less than a tick.
renew_after == IF Duration < 3 THEN 1 ELSE Duration \div 3

(***************************************************************************)
(* The Lease as the coordinator reads it                                   *)
(***************************************************************************)

\* Mutant: the first observation of a Lease is kept for ever.
observedOnce(r, t) ==
    IF obs[r].rv > 0 THEN obs[r] ELSE [rv |-> lease.rv, at |-> t]

\* The observation that is_active works with: the stored one if the Lease still
\* has the resourceVersion it was made for, a new one otherwise.
observed(r, t) ==
    IF obs[r].rv = lease.rv THEN obs[r] ELSE [rv |-> lease.rv, at |-> t]

is_active(r, t) ==
    lease.holder /= NoReplica /\ t < observed(r, t).at + Duration

\* is_active stores its observation, unless the Lease has no holder.
observe(r, t) ==
    obs' = IF lease.holder = NoReplica THEN obs
                                       ELSE [obs EXCEPT ![r] = observed(r, t)]

\* Mutant: the fencing token and the epoch are not compared.
ownsByHolder(s) == lease.holder = ReplicaOf[s]

owns(s) ==
    lease.holder = ReplicaOf[s] /\ lease.token = s /\ lease.epoch = fence[s]

\* Mutant: a replica that acquires again keeps its epoch.
nextEpochOfHolder(r) ==
    IF lease.holder = r THEN lease.epoch ELSE lease.epoch + 1

\* Every acquire moves the epoch, that of the holder itself too.
next_epoch(r) == lease.epoch + 1

(***************************************************************************)
(* The API server                                                          *)
(***************************************************************************)
PutOf(s) ==
    [session |-> s, rv |-> call[s].base, epoch |-> fence[s],
     op |-> CASE pc[s] = "acquireSent" -> "acquire"
              [] pc[s] = "renewSent" -> "renew"
              [] OTHER -> "release"]

accepts(p) == p.rv = lease.rv

\* Mutant: a release clears all annotations.
writtenForgetsEpoch(p) ==
    CASE p.op = "acquire" ->
           [rv |-> lease.rv + 1, holder |-> ReplicaOf[p.session],
            token |-> p.session, epoch |-> p.epoch]
      [] p.op = "renew" -> [lease EXCEPT !.rv = @ + 1]
      [] p.op = "release" -> [NoLease EXCEPT !.rv = lease.rv + 1]

\* acquired_lease; renew and release change only what they read.
written(p) ==
    CASE p.op = "acquire" ->
           [rv |-> lease.rv + 1, holder |-> ReplicaOf[p.session],
            token |-> p.session, epoch |-> p.epoch]
      [] p.op = "renew" -> [lease EXCEPT !.rv = @ + 1]
      [] p.op = "release" -> [lease EXCEPT !.rv = @ + 1, !.holder = NoReplica,
                                           !.token = NoSession]

\* Once the Lease is written, the server refuses what is based on an earlier
\* version.
execute(p) ==
    /\ lease' = written(p)
    /\ writtenAt' = now
    /\ takenAt' = IF p.op = "acquire" THEN now ELSE takenAt
    /\ granted' = IF p.op = "acquire"
                    THEN [granted EXCEPT ![p.session] = p.epoch] ELSE granted
    /\ late' = {q \in late \ {p} : accepts(q)'}

answer(at) ==
    CASE at = "acquireSent" -> "acquireOk"
      [] at = "renewSent" -> "renewOk"
      [] OTHER -> "releaseOk"

again(at) ==
    CASE at = "acquireSent" -> "acquireGet"
      [] at = "renewSent" -> "renewGet"
      [] OTHER -> "releaseGet"

\* The PUT of a caller that is still waiting is accepted ...
Accept(s) ==
    /\ pc[s] \in Sent
    /\ accepts(PutOf(s))
    /\ execute(PutOf(s))
    /\ pc' = [pc EXCEPT ![s] = answer(@)]
    /\ UNCHANGED << now, obs, call, fence, valid, timer >>

\* ... or refused with 409, and the caller's loop reads again.
Conflict(s) ==
    /\ pc[s] \in Sent
    /\ ~accepts(PutOf(s))
    /\ call[s].attempts < MaxAttempts
    /\ call' = [call EXCEPT ![s].attempts = @ + 1, ![s].readAt = now]
    /\ pc' = [pc EXCEPT ![s] = again(@)]
    /\ UNCHANGED << now, server, obs, fence, valid, timer >>

\* The PUT of a caller that has given up.
AcceptLate(p) ==
    /\ accepts(p)
    /\ execute(p)
    /\ UNCHANGED << now, obs, pc, call, fence, valid, timer >>

(***************************************************************************)
(* Calls                                                                   *)
(***************************************************************************)
Begin(s, to) ==
    /\ pc' = [pc EXCEPT ![s] = to]
    /\ call' = [call EXCEPT ![s] = [began |-> now, readAt |-> now,
                                    attempts |-> 1, base |-> 0]]

\* The call has returned.
Return(s, to) ==
    pc' = [pc EXCEPT ![s] = to] /\ call' = [call EXCEPT ![s] = NoCall]

\* The GET has been answered and the PUT is sent.
Send(s, to) ==
    /\ pc' = [pc EXCEPT ![s] = to]
    /\ call' = [call EXCEPT ![s].base = lease.rv]

StartAcquire(s) ==
    /\ pc[s] = "idle"
    /\ Begin(s, "acquireGet")
    /\ UNCHANGED << now, server, obs, fence, valid, timer >>

\* acquire: the GET is answered.  monotonic_now was read before it was sent.
AcquireGet(s) ==
    LET r == ReplicaOf[s]
        t == call[s].readAt
    IN
    /\ pc[s] = "acquireGet"
    /\ observe(r, t)
    /\ IF is_active(r, t) /\ lease.holder /= r
         THEN Return(s, "done") /\ UNCHANGED fence
         ELSE Send(s, "acquireSent")
                /\ fence' = [fence EXCEPT ![s] = next_epoch(r)]
    /\ UNCHANGED << now, server, valid, timer >>

\* The Leadership arrives: the session is registered with a valid ownership.
Acquired(s) ==
    /\ pc[s] = "acquireOk"
    /\ Return(s, "starting")
    /\ valid' = [valid EXCEPT ![s] = TRUE]
    /\ UNCHANGED << now, server, obs, fence, timer >>

\* The registration is projected and the first messages are sent:
\* maintain_ownership is spawned and counts from here.
StartKeeper(s) ==
    /\ GoTo(s, "starting", "held")
    /\ timer' = [timer EXCEPT ![s].deadline = now + Duration,
                              ![s].wakeAt = now + renew_after]
    /\ UNCHANGED << now, server, obs, call, fence, valid >>

\* The projection fails: the session is marked offline and its Lease released,
\* while ownership_valid stays true.
Reject(s) ==
    /\ pc[s] = "starting"
    /\ Begin(s, "releaseGet")
    /\ timer' = [timer EXCEPT ![s] = NoTimer]
    /\ UNCHANGED << now, server, obs, fence, valid >>

\* The peer resets the stream before maintain_ownership is spawned.
Dropped(s) ==
    /\ GoTo(s, "starting", "dropped")
    /\ timer' = [timer EXCEPT ![s] = NoTimer]
    /\ UNCHANGED << now, server, obs, call, fence, valid >>

\* maintain_ownership wakes up before its deadline.
StartRenew(s) ==
    /\ pc[s] = "held"
    /\ now >= timer[s].wakeAt /\ now < timer[s].deadline
    /\ Begin(s, "renewGet")
    /\ UNCHANGED << now, server, obs, fence, valid, timer >>

\* The end of maintain_ownership: ownership_valid is cleared before the Lease is
\* released.
Revoke(s) ==
    /\ Begin(s, "releaseGet")
    /\ valid' = [valid EXCEPT ![s] = FALSE]
    /\ timer' = [timer EXCEPT ![s] = NoTimer]

RenewGet(s) ==
    /\ pc[s] = "renewGet"
    /\ IF owns(s) THEN Send(s, "renewSent") /\ UNCHANGED << valid, timer >>
                  ELSE Revoke(s)
    /\ UNCHANGED << now, server, obs, fence >>

Renewed(s) ==
    /\ pc[s] = "renewOk"
    /\ Return(s, "held")
    /\ timer' = [timer EXCEPT ![s] = [deadline |-> now + Duration,
                                      wakeAt |-> now + renew_after,
                                      unkept |-> 0]]
    /\ UNCHANGED << now, server, obs, fence, valid >>

\* The session is cancelled, or maintain_ownership wakes up after its deadline.
Close(s) ==
    /\ pc[s] = "held"
    /\ Revoke(s)
    /\ UNCHANGED << now, server, obs, fence >>

ReleaseGet(s) ==
    /\ pc[s] = "releaseGet"
    /\ IF owns(s) THEN Send(s, "releaseSent") ELSE Return(s, "done")
    /\ UNCHANGED << now, server, obs, fence, valid, timer >>

Released(s) ==
    /\ pc[s] = "releaseOk"
    /\ Return(s, "done")
    /\ UNCHANGED << now, server, obs, fence, valid, timer >>

\* The PUTs that these callers have sent and no longer wait for.
abandoned(S) ==
    {p \in {PutOf(s) : s \in {t \in S : pc[t] \in Sent}} : accepts(p)}

\* The call ends with an error or with its timeout; a PUT that was sent may
\* still be executed, and an answer may be lost.
GiveUp(s) ==
    /\ late' = late \cup abandoned({s})
    /\ UNCHANGED << now, lease, granted, writtenAt, takenAt, obs, fence >>

AcquireFailed(s) ==
    /\ pc[s] \in {"acquireGet", "acquireSent", "acquireOk"}
    /\ Return(s, "done")
    /\ GiveUp(s)
    /\ UNCHANGED << valid, timer >>

\* Mutant: a failed renewal also moves the deadline.
renewFailedMovesDeadline(s) ==
    /\ pc[s] \in Renewing
    /\ now < timer[s].deadline
    /\ Return(s, "held")
    /\ GiveUp(s)
    /\ timer' = [timer EXCEPT ![s].deadline = now + Duration,
                              ![s].wakeAt = now + renew_after]
    /\ UNCHANGED valid

\* A failed renewal is tried again after another sleep ...
RenewFailed(s) ==
    /\ pc[s] \in Renewing
    /\ now < timer[s].deadline
    /\ Return(s, "held")
    /\ GiveUp(s)
    /\ timer' = [timer EXCEPT ![s].wakeAt = now + renew_after]
    /\ UNCHANGED valid

\* ... unless the deadline has passed.
RenewExpired(s) ==
    /\ pc[s] \in Renewing
    /\ now >= timer[s].deadline
    /\ Revoke(s)
    /\ GiveUp(s)

ReleaseFailed(s) ==
    /\ pc[s] \in {"releaseGet", "releaseSent", "releaseOk"}
    /\ Return(s, "done")
    /\ GiveUp(s)
    /\ UNCHANGED << valid, timer >>

(***************************************************************************)
(* A replica dies with its sessions and its observations.                  *)
(***************************************************************************)
Crash(r) ==
    LET dying == {s \in Sessions : ReplicaOf[s] = r /\ pc[s] /= "idle"} IN
    /\ \E s \in dying : pc[s] /= "done"
    /\ pc' = [s \in Sessions |-> IF s \in dying THEN "done" ELSE pc[s]]
    /\ call' = [s \in Sessions |-> IF s \in dying THEN NoCall ELSE call[s]]
    /\ valid' = [s \in Sessions |-> valid[s] /\ s \notin dying]
    /\ timer' = [s \in Sessions |-> IF s \in dying THEN NoTimer ELSE timer[s]]
    /\ late' = late \cup abandoned(dying)
    /\ obs' = [obs EXCEPT ![r] = [rv |-> 0, at |-> 0]]
    /\ UNCHANGED << now, lease, granted, writtenAt, takenAt, fence >>

(***************************************************************************)
(* Time                                                                    *)
(***************************************************************************)

\* renew_timeout is the operation timeout or what is left of the deadline.
timeout_due(s) ==
    /\ pc[s] \in Calling
    /\ \/ now >= call[s].began + OpTimeout
       \/ pc[s] \in Renewing /\ now >= timer[s].deadline

sleep_over(s) == pc[s] = "held" /\ now >= timer[s].wakeAt

Tick ==
    /\ now < MaxTime
    /\ \A s \in Sessions : ~timeout_due(s) /\ ~sleep_over(s)
    /\ \A s \in Sessions : pc[s] = "starting" => timer[s].unkept < MaxStarting
    /\ now' = now + 1
    /\ timer' = [s \in Sessions |->
                   IF pc[s] = "starting" THEN [timer[s] EXCEPT !.unkept = @ + 1]
                                         ELSE timer[s]]
    /\ UNCHANGED << server, obs, pc, call, fence, valid >>

(***************************************************************************)
(* The specification                                                       *)
(***************************************************************************)
Next ==
    \/ \E s \in Sessions :
         \/ StartAcquire(s) \/ AcquireGet(s) \/ Acquired(s)
         \/ StartKeeper(s) \/ Reject(s) \/ Dropped(s)
         \/ StartRenew(s) \/ RenewGet(s) \/ Renewed(s)
         \/ Close(s) \/ ReleaseGet(s) \/ Released(s)
         \/ Accept(s) \/ Conflict(s)
         \/ AcquireFailed(s) \/ RenewFailed(s) \/ RenewExpired(s)
         \/ ReleaseFailed(s)
    \/ \E p \in late : AcceptLate(p)
    \/ \E r \in Replicas : Crash(r)
    \/ Tick

Spec == Init /\ [][Next]_vars

(***************************************************************************)
(* Invariants                                                              *)
(***************************************************************************)

\* The type invariant.
TypeOK ==
    /\ now \in Nat
    /\ lease \in Lease
    /\ obs \in [Replicas -> [rv : Nat, at : Nat]]
    /\ pc \in [Sessions -> Pc]
    /\ call \in [Sessions -> CallRecord]
    /\ fence \in [Sessions -> Nat]
    /\ valid \in [Sessions -> BOOLEAN]
    /\ timer \in [Sessions -> Timer]
    /\ late \subseteq Put
    /\ granted \in [Sessions -> Nat]
    /\ writtenAt \in Nat
    /\ takenAt \in Nat

\* A session that believes in its ownership holds a fence that the Lease really
\* granted to it, and no two such fences are equal, whatever PUTs of earlier
\* callers are executed late.
FencesAreGranted ==
    /\ \A s \in Sessions : valid[s] => granted[s] = fence[s] /\ fence[s] > 0
    /\ \A s, t \in Sessions : s /= t /\ granted[s] > 0 => granted[s] /= granted[t]

\* After another replica took its Lease over, a displaced owner whose
\* maintain_ownership runs is revoked within a bounded time: the latency of the
\* answer it counted from, the latency of the contender's GET, one sleep, and,
\* until a first renewal has succeeded, the time sync took to spawn the task.
\* Nothing bounds the trust of a session whose task is not spawned yet, or, when
\* sync was dropped, will never be.
OverlapIsBounded ==
    \A s \in Sessions :
        /\ Kept(s)
        /\ lease.epoch = fence[s] + 1
        /\ lease.holder \notin {NoReplica, ReplicaOf[s]}
        => now < takenAt + 2 * OpTimeout + renew_after + timer[s].unkept

(***************************************************************************)
(* Action properties                                                       *)
(***************************************************************************)
Takeover ==
    /\ lease'.epoch /= lease.epoch
    /\ lease.holder /= NoReplica /\ lease'.holder /= lease.holder

\* A Lease is taken from another replica only after it was left unwritten for
\* its duration, less the time the contender's own GET and PUT may take.
TakeoverAfterSilence ==
    [][Takeover => now + OpTimeout >= writtenAt + Duration]_vars

\* The session whose fence leaves the Lease by a release can no longer be used:
\* its cached ownership is revoked or, when its registration was rejected, it is
\* marked offline.  Nobody else's release, retried or late, clears the Lease.
OnlyUnusableIsReleased ==
    [][\A s \in Sessions :
         lease.token = s /\ lease'.token = NoSession => ~Usable(s)]_vars

\* lease.rs implements the coordinator's promise.
Promise == INSTANCE FencedLease WITH
    owner <- lease.token, epoch <- lease.epoch, granted <- granted
ImplementsFencedLease == Promise!Spec
=============================================================================
