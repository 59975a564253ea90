--------------------------- MODULE KubeDirectory ---------------------------
(***************************************************************************)
(* The durable record of one controller in a Kubernetes deployment: the    *)
(* EdgionController resource and everybody who writes it.                  *)
(*                                                                         *)
(*   a registering session     upsert_registration    (Sessions)           *)
(*   the OfflineReconciler     mark_offline           ("off")              *)
(*   the RuntimeProjector      project_runtime        ("run")              *)
(*   an operator's DELETE      evict, then evict_live ("evict")            *)
(*   the directory sweep       mark_offline           ("sweep")            *)
(*                                                                         *)
(* Each call reads the resource, may replace its spec, and then replaces   *)
(* its status; both writes carry the resourceVersion that was read.  What  *)
(* matters of a resourceVersion is whether it is still the current one     *)
(* (fresh), and a write makes every other one stale.  A call whose future  *)
(* is dropped or whose answer is lost may leave its request behind, to be  *)
(* executed later (late).                                                  *)
(*                                                                         *)
(* The sessions, the reconciler, the projector and the DELETE run on one   *)
(* replica; the sweep runs there or on another one.  The Lease is what its *)
(* Coordinator promises (module FencedLease): a fencing token is unique to *)
(* its epoch, so the epoch stands for both.  Names that collide, times and *)
(* the descriptive fields of a status are left out.                        *)
(***************************************************************************)
EXTENDS Naturals, FiniteSets

CONSTANTS
    Sessions,       \* the sessions the controller opens, one after another
    None,           \* no session, resource, status or slot
    MaxTries,       \* MAX_CONFLICT_RETRIES
    Budgets         \* what may happen: each one bounds a set of behaviours

\* A budget says how many sessions connect, how many messages are handled, how
\* many DELETE calls there are, how many failed calls, lapsed renewals and
\* crashes, and whether the sweep runs on this replica (TRUE) or elsewhere.
Budget == [sessions : Nat, submits : Nat, evictions : Nat, faults : Nat,
           sweeps : SUBSET BOOLEAN]

ASSUME BoundsAreNat == MaxTries \in Nat /\ Budgets \subseteq Budget
ASSUME NamesDiffer ==
    /\ None \notin Sessions \cup {"sweep"}
    /\ Sessions \cap {"off", "run", "evict", "sweep"} = {}

VARIABLES
    res,        \* the EdgionController resource at the API server
    late,       \* writes of abandoned calls whose resourceVersion is current
    call,       \* the directory call each caller is in
    lease,      \* the controller's ownership Lease
    sess,       \* the sessions of the controller
    registered, \* the session ControllerRegistry holds as online
    passed,     \* sessions whose message has passed the ownership checks
    slot,       \* the RuntimeProjector's slot for the controller
    sweep,      \* where the directory sweep is
    owed,       \* history: what the projector was last given
    left        \* what is left of the budget

vars == << res, late, call, lease, sess, registered, passed, slot, sweep,
           owed, left >>

Callers == Sessions \cup {"off", "run", "evict", "sweep"}
Fields == {"watch", "stats"}
Specs == {"named", "blank"}
Data == [Fields -> [by : Sessions, n : Nat] \cup {None}]
NoData == [f \in Fields |-> None]

Status == [phase : {"Online", "Offline"}, session : Sessions \cup {None},
           epoch : Nat, data : Data, evicted : BOOLEAN]
Resource == [spec : Specs, status : Status \cup {None}]

SlotEntry == [by : Sessions, data : Data, gen : Nat]
Owed == [by : Sessions, data : Data]

ASSUME NoneIsNoResource == None \notin Resource
ASSUME NoneIsNoRecord == None \notin Status \cup SlotEntry \cup Owed

Steps == {"idle", "get", "spec", "status", "ok", "stale", "error",
          "match", "remove"}
Call == [step : Steps, tries : Nat, fresh : BOOLEAN,
         want : Resource \cup {None}, by : Sessions \cup {None}, epoch : Nat,
         data : Data, gen : Nat]

Idle == [step |-> "idle", tries |-> 0, fresh |-> FALSE, want |-> None,
         by |-> None, epoch |-> 0, data |-> NoData, gen |-> 0]

TypeOK ==
    /\ res \in Resource \cup {None}
    /\ late \subseteq Resource
    /\ call \in [Callers -> Call]
    /\ lease \in [epoch : Nat, owner : Sessions \cup {"sweep", None},
                  here : BOOLEAN, expired : BOOLEAN]
    /\ sess \in [Sessions -> [st : {"new", "registering", "live", "ended"},
                              epoch : Nat]]
    /\ registered \in Sessions \cup {None}
    /\ passed \subseteq Sessions
    /\ slot \in SlotEntry \cup {None}
    /\ sweep \in [step : {"idle", "prune", "locate", "acquire", "mark"},
                  here : BOOLEAN, by : Sessions \cup {None}]
    /\ owed \in Owed \cup {None}
    /\ left \in Budget

Init ==
    /\ res = None
    /\ late = {}
    /\ call = [t \in Callers |-> Idle]
    /\ lease = [epoch |-> 0, owner |-> None, here |-> FALSE, expired |-> FALSE]
    /\ sess = [s \in Sessions |-> [st |-> "new", epoch |-> 0]]
    /\ registered = None
    /\ passed = {}
    /\ slot = None
    /\ sweep = [step |-> "idle", here |-> FALSE, by |-> None]
    /\ owed = None
    /\ left \in Budgets

Fault ==
    /\ left.faults > 0
    /\ left' = [left EXCEPT !.faults = @ - 1]

(***************************************************************************)
(* The status transitions, each None when the call has nothing to write.   *)
(***************************************************************************)

\* Mutant: a registration keeps the runtime data of the session before it.
RegisteredKeepsData(c, status) ==
    IF status /= None /\ status.epoch >= c.epoch THEN None
    ELSE [phase |-> "Online", session |-> c.by, epoch |-> c.epoch,
          data |-> IF status = None THEN NoData ELSE status.data,
          evicted |-> FALSE]

\* upsert_registration: a status of the same or a later epoch is left alone.
Registered(c, status) ==
    IF status /= None /\ status.epoch >= c.epoch THEN None
    ELSE [phase |-> "Online", session |-> c.by, epoch |-> c.epoch,
          data |-> NoData, evicted |-> FALSE]

\* Mutant: an eviction does not stand in the way of mark_offline.
NotCurrentByFence(c, status) ==
    \/ status.epoch > c.epoch
    \/ status.epoch = c.epoch /\ status.session /= c.by

\* mark_offline: the status is evicted, of a later epoch, or of another session.
NotCurrent(c, status) ==
    \/ status.evicted
    \/ status.epoch > c.epoch
    \/ status.epoch = c.epoch /\ status.session /= c.by

MarkedOffline(c, status) ==
    IF status = None
      THEN [phase |-> "Offline", session |-> c.by, epoch |-> c.epoch,
            data |-> NoData, evicted |-> FALSE]
      ELSE IF NotCurrent(c, status) THEN None
      ELSE [phase |-> "Offline", session |-> c.by, epoch |-> c.epoch,
            data |-> status.data, evicted |-> FALSE]

Merge(old, new) == [f \in Fields |-> IF new[f] = None THEN old[f] ELSE new[f]]

\* project_runtime: only into the online status of the observation's session.
Projected(c, status) ==
    IF \/ status = None
       \/ status.evicted
       \/ status.phase /= "Online"
       \/ status.session /= c.by
       \/ status.epoch /= c.epoch
      THEN None
      ELSE [status EXCEPT !.data = Merge(@, c.data)]

\* evict: nothing is left to evict without a status, or when it is evicted.
Evicted(status) ==
    IF status = None \/ status.evicted THEN None
    ELSE [status EXCEPT !.evicted = TRUE, !.phase = "Offline", !.session = None]

Transition(t, c, status) ==
    CASE t \in Sessions -> Registered(c, status)
      [] t \in {"off", "sweep"} -> MarkedOffline(c, status)
      [] t = "run" -> Projected(c, status)
      [] t = "evict" -> Evicted(status)

\* The spec a call hands to get_or_create: a registration's describes the
\* controller, the others only name it.
SpecOf(t) == IF t \in Sessions THEN "named" ELSE "blank"

(***************************************************************************)
(* One directory call: replace_status_with_retry, and the same loop in     *)
(* evict, which neither creates the resource nor touches its spec.         *)
(***************************************************************************)
StartCall(by, epoch) == [Idle EXCEPT !.step = "get", !.by = by, !.epoch = epoch]

\* The call has the resource r in hand and sends the status it wants, if any.
\* evict remembers the fence of the status it replaces: its EvictionTarget.
Decide(t, c, r) ==
    LET status == Transition(t, c, r.status) IN
    IF status = None
      THEN [c EXCEPT !.step = "stale", !.want = None, !.fresh = FALSE]
      ELSE [c EXCEPT !.step = "status", !.fresh = TRUE,
                     !.want = [spec |-> r.spec, status |-> status],
                     !.epoch = IF t = "evict" THEN r.status.epoch ELSE @]

\* get_or_create answers with the resource, or first writes its spec.
HasSpec(t) == IF t = "evict" THEN TRUE ELSE res.spec = SpecOf(t)

Get(t) ==
    LET c == call[t] IN
    /\ c.step = "get"
    /\ call' = [call EXCEPT ![t] =
         IF res = None
           THEN IF t = "evict"
                  THEN [c EXCEPT !.step = "stale"]
                  ELSE [c EXCEPT !.step = "spec", !.fresh = TRUE,
                          !.want = [spec |-> SpecOf(t), status |-> None]]
           ELSE IF HasSpec(t) THEN Decide(t, c, res)
           ELSE [c EXCEPT !.step = "spec", !.fresh = TRUE,
                          !.want = [res EXCEPT !.spec = SpecOf(t)]]]
    /\ UNCHANGED << res, late, lease, sess, registered, passed, slot, sweep,
                    owed, left >>

Writing(c) == c.step \in {"spec", "status"}

\* Mutant: a write is executed whatever has happened to the resource.
AlwaysCurrent(c) == TRUE

\* The precondition the API server checks.
Current(c) == c.fresh

\* A write took place: every resourceVersion read so far is stale.
Outdated(calls) == [t \in Callers |-> [calls[t] EXCEPT !.fresh = FALSE]]

Commit(t) ==
    LET c == call[t] IN
    /\ Writing(c)
    /\ Current(c)
    /\ res' = c.want
    /\ call' = [Outdated(call) EXCEPT ![t] =
                  IF c.step = "spec" THEN Decide(t, c, c.want)
                  ELSE [c EXCEPT !.step = "ok", !.want = None, !.fresh = FALSE]]
    /\ late' = {}
    /\ UNCHANGED << lease, sess, registered, passed, slot, sweep, owed, left >>

\* 409: start over, MaxTries times in all.
Conflict(t) ==
    LET c == call[t] IN
    /\ Writing(c)
    /\ ~Current(c)
    /\ call' = [call EXCEPT ![t] =
         [c EXCEPT !.step = IF c.tries + 1 < MaxTries THEN "get" ELSE "error",
                   !.tries = @ + 1, !.want = None]]
    /\ UNCHANGED << res, late, lease, sess, registered, passed, slot, sweep,
                    owed, left >>

\* What may become of the requests of calls that are given up.
Abandoned(callers) ==
    LET sent == {call[t].want : t \in {u \in callers : Writing(call[u])
                                                       /\ call[u].fresh}}
    IN {late \cup w : w \in SUBSET sent}

\* A timeout or a transport error: the request may be executed all the same.
Fail(t) ==
    LET c == call[t] IN
    /\ c.step \in {"get", "spec", "status"}
    /\ Fault
    /\ late' \in Abandoned({t})
    /\ call' = [call EXCEPT ![t] = [c EXCEPT !.step = "error", !.want = None,
                                             !.fresh = FALSE]]
    /\ UNCHANGED << res, lease, sess, registered, passed, slot, sweep, owed >>

CommitLate ==
    /\ \E r \in late : res' = r
    /\ late' = {}
    /\ call' = Outdated(call)
    /\ UNCHANGED << lease, sess, registered, passed, slot, sweep, owed, left >>

(***************************************************************************)
(* Sessions.                                                               *)
(***************************************************************************)
Active == lease.owner /= None /\ ~lease.expired

\* acquire: refused while another replica's Lease is active.
Grantable(here) == ~Active \/ (here /\ lease.here)

Grant(owner, here) ==
    lease' = [epoch |-> lease.epoch + 1, owner |-> owner, here |-> here,
              expired |-> FALSE]

\* A registration acquires the Lease, takes the controller's place in the
\* registry (which cancels the session it displaces) and is projected.
Connect(s) ==
    /\ sess[s].st = "new"
    /\ left.sessions > 0
    /\ left' = [left EXCEPT !.sessions = @ - 1]
    /\ Grantable(TRUE)
    /\ Grant(s, TRUE)
    /\ sess' = [sess EXCEPT ![s] = [st |-> "registering",
                                    epoch |-> lease.epoch + 1]]
    /\ registered' = s
    /\ call' = [call EXCEPT ![s] = StartCall(s, lease.epoch + 1)]
    /\ UNCHANGED << res, late, passed, slot, sweep, owed >>

\* The registration is projected: a reconciler still at work is cancelled.
RegisterOk(s) ==
    /\ call[s].step = "ok"
    /\ sess' = [sess EXCEPT ![s].st = "live"]
    /\ late' \in Abandoned({"off"})
    /\ call' = [call EXCEPT ![s] = Idle, !["off"] = Idle]
    /\ UNCHANGED << res, lease, registered, passed, slot, sweep, owed, left >>

\* mark_offline of the registry, and OfflineReconciler::schedule, which cancels
\* the worker of an earlier session.
Schedule(s, idle) ==
    /\ registered' = IF registered = s THEN None ELSE registered
    /\ late' \in Abandoned({"off"})
    /\ call' = [call EXCEPT !["off"] = StartCall(s, sess[s].epoch),
                            ![s] = IF idle THEN Idle ELSE @]

\* It is not: the session is refused, and projected offline because the
\* registration may be written after all.
RegisterFailed(s) ==
    /\ call[s].step \in {"stale", "error"}
    /\ sess' = [sess EXCEPT ![s].st = "ended"]
    /\ Schedule(s, TRUE)
    /\ UNCHANGED << res, lease, passed, slot, sweep, owed, left >>

\* The stream ends, its heartbeat fails or its ownership is lost.
Disconnect(s) ==
    /\ sess[s].st = "live"
    /\ registered = s
    /\ sess' = [sess EXCEPT ![s].st = "ended"]
    /\ Schedule(s, FALSE)
    /\ UNCHANGED << res, lease, passed, slot, sweep, owed, left >>

\* A session the registry no longer holds is cancelled and leaves no trace.
Leave(s) ==
    /\ sess[s].st = "live"
    /\ registered /= s
    /\ sess' = [sess EXCEPT ![s].st = "ended"]
    /\ UNCHANGED << res, late, call, lease, registered, passed, slot, sweep,
                    owed, left >>

\* The reconciler is done when the call is answered, and else tries again.
OffDone ==
    /\ call["off"].step \in {"ok", "stale", "error"}
    /\ call' = [call EXCEPT !["off"] =
         IF @.step = "error" THEN StartCall(@.by, @.epoch) ELSE Idle]
    /\ UNCHANGED << res, late, lease, sess, registered, passed, slot, sweep,
                    owed, left >>

\* The owner's renewals stop for so long that the Lease runs out ...
Expire ==
    /\ Fault
    /\ Active /\ lease.owner \in Sessions
    /\ lease' = [lease EXCEPT !.expired = TRUE]
    /\ UNCHANGED << res, late, call, sess, registered, passed, slot, sweep,
                    owed >>

\* ... and one arrives after all.
Renew(s) ==
    /\ sess[s].st = "live"
    /\ lease.owner = s /\ lease.here /\ lease.expired
    /\ lease' = [lease EXCEPT !.expired = FALSE]
    /\ UNCHANGED << res, late, call, sess, registered, passed, slot, sweep,
                    owed, left >>

\* A session that is over gives its Lease back.
Release(s) ==
    /\ sess[s].st = "ended"
    /\ lease.owner = s /\ lease.here
    /\ lease' = [lease EXCEPT !.owner = None, !.here = FALSE,
                              !.expired = FALSE]
    /\ UNCHANGED << res, late, call, sess, registered, passed, slot, sweep,
                    owed, left >>

\* A Lease whose owner died runs out.
Lapse ==
    /\ Active
    /\ \/ ~lease.here /\ lease.owner \in Sessions
       \/ lease.owner = "sweep" /\ sweep.step /= "mark"
    /\ lease' = [lease EXCEPT !.expired = TRUE]
    /\ UNCHANGED << res, late, call, sess, registered, passed, slot, sweep,
                    owed, left >>

(***************************************************************************)
(* RuntimeProjector.                                                       *)
(***************************************************************************)

\* A message is let through ...
Pass(s) ==
    /\ sess[s].st = "live"
    /\ registered = s
    /\ s \notin passed
    /\ passed' = passed \cup {s}
    /\ left.submits > 0
    /\ left' = [left EXCEPT !.submits = @ - 1]
    /\ UNCHANGED << res, late, call, lease, sess, registered, slot, sweep,
                    owed >>

\* A watch response and a StatsReport each observe their own fields, a Pong
\* nothing but the time.
Observation(s, kind) ==
    [f \in Fields |-> IF f = kind THEN [by |-> s, n |-> left.submits] ELSE None]

\* An observation of the same session is completed, another one replaced.
Slot(s, data) ==
    IF slot = None THEN [by |-> s, data |-> data, gen |-> 0]
    ELSE [by |-> s, gen |-> slot.gen + 1,
          data |-> IF slot.by = s THEN Merge(slot.data, data) ELSE data]

\* ... and its observation is submitted, whatever happened in between.
Submit(s, kind) ==
    /\ s \in passed
    /\ passed' = passed \ {s}
    /\ slot' = Slot(s, Observation(s, kind))
    /\ owed' = [by |-> s, data |->
                  IF owed /= None /\ owed.by = s
                    THEN Merge(owed.data, Observation(s, kind))
                    ELSE Observation(s, kind)]
    /\ UNCHANGED << res, late, call, lease, sess, registered, sweep, left >>

\* The worker takes a copy of the slot to the directory.
Project ==
    /\ slot /= None
    /\ call["run"].step = "idle"
    /\ call' = [call EXCEPT !["run"] =
         [StartCall(slot.by, sess[slot.by].epoch) EXCEPT
            !.data = slot.data, !.gen = slot.gen]]
    /\ UNCHANGED << res, late, lease, sess, registered, passed, slot, sweep,
                    owed, left >>

\* Mutant: the slot is emptied whatever was submitted meanwhile.
DoneAnyway(c) == c.step \in {"ok", "stale"}

\* The slot is emptied if nothing was submitted meanwhile.
Done(c) == c.step \in {"ok", "stale"} /\ c.gen = slot.gen

ProjectDone ==
    LET c == call["run"] IN
    /\ c.step \in {"ok", "stale", "error"}
    /\ slot' = IF Done(c) THEN None ELSE slot
    /\ call' = [call EXCEPT !["run"] = Idle]
    /\ UNCHANGED << res, late, lease, sess, registered, passed, sweep, owed,
                    left >>

(***************************************************************************)
(* The DELETE of an operator: evict, then evict_live.                      *)
(***************************************************************************)
Evict ==
    /\ call["evict"].step = "idle"
    /\ left.evictions > 0
    /\ left' = [left EXCEPT !.evictions = @ - 1]
    /\ call' = [call EXCEPT !["evict"] = StartCall(None, 0)]
    /\ UNCHANGED << res, late, lease, sess, registered, passed, slot, sweep,
                    owed >>

EvictStep(from, next) ==
    /\ call["evict"].step \in from
    /\ call' = [call EXCEPT !["evict"] =
                  IF next = "idle" THEN Idle ELSE [@ EXCEPT !.step = next]]
    /\ UNCHANGED << res, late, lease, sess, passed, slot, sweep, owed, left >>

EvictRefused == EvictStep({"stale", "error"}, "idle") /\ UNCHANGED registered

\* evict_live: the owner is still the one the eviction was written for.
EvictLocate ==
    /\ EvictStep({"ok"}, IF Active /\ lease.epoch = call["evict"].epoch
                           THEN "match" ELSE "idle")
    /\ UNCHANGED registered

\* evict_fenced: and so is the session in the registry ...
EvictMatch ==
    /\ EvictStep({"match"},
         IF registered /= None /\ sess[registered].epoch = call["evict"].epoch
           THEN "remove" ELSE "idle")
    /\ UNCHANGED registered

\* ... of which evict_unfenced then removes whichever session it holds.
EvictRemove == EvictStep({"remove"}, "idle") /\ registered' = None

(***************************************************************************)
(* The directory sweep.                                                    *)
(***************************************************************************)
SweepTo(step) == sweep' = [sweep EXCEPT !.step = step]

\* list: an evicted controller, or one without a status, is not listed.
Listed ==
    IF res = None THEN FALSE
    ELSE IF res.status = None THEN FALSE ELSE ~res.status.evicted

SweepList(here) ==
    /\ sweep.step = "idle"
    /\ here \in left.sweeps
    /\ IF Listed
         THEN /\ res.status.phase = "Online"
              /\ sweep' = [step |-> "locate", here |-> here,
                           by |-> res.status.session]
         ELSE /\ here /\ registered /= None
              /\ sweep' = [step |-> "prune", here |-> TRUE, by |-> None]
    /\ UNCHANGED << res, late, call, lease, sess, registered, passed, slot,
                    owed, left >>

\* evict_unfenced of a local session whose controller was not listed.
SweepPrune ==
    /\ sweep.step = "prune"
    /\ registered' = None
    /\ SweepTo("idle")
    /\ UNCHANGED << res, late, call, lease, sess, passed, slot, owed, left >>

\* Mutant: a Lease that has run out still locates its owner.
OwnerIsNamed == lease.owner /= None

\* locate: the Lease has an owner and has not run out.
OwnerLocated == Active

SweepLocate ==
    /\ sweep.step = "locate"
    /\ SweepTo(IF OwnerLocated THEN "idle" ELSE "acquire")
    /\ UNCHANGED << res, late, call, lease, sess, registered, passed, slot,
                    owed, left >>

\* reconcile_expired_owner: the Lease is acquired, and the listed session
\* marked offline under the new fence ...
SweepAcquire ==
    /\ sweep.step = "acquire"
    /\ Grantable(sweep.here)
    /\ Grant("sweep", sweep.here)
    /\ call' = [call EXCEPT !["sweep"] = StartCall(sweep.by, lease.epoch + 1)]
    /\ SweepTo("mark")
    /\ UNCHANGED << res, late, sess, registered, passed, slot, owed, left >>

SweepRefused ==
    /\ sweep.step = "acquire"
    /\ ~Grantable(sweep.here)
    /\ SweepTo("idle")
    /\ UNCHANGED << res, late, call, lease, sess, registered, passed, slot,
                    owed, left >>

\* ... and given back, if it is still the sweep's.
SweepDone ==
    /\ call["sweep"].step \in {"ok", "stale", "error"}
    /\ lease' = IF lease.owner = "sweep"
                  THEN [lease EXCEPT !.owner = None, !.here = FALSE,
                                     !.expired = FALSE]
                  ELSE lease
    /\ call' = [call EXCEPT !["sweep"] = Idle]
    /\ SweepTo("idle")
    /\ UNCHANGED << res, late, sess, registered, passed, slot, owed, left >>

\* The replica dies with everything that runs on it.
Crash ==
    LET gone == IF sweep.here THEN Callers ELSE Callers \ {"sweep"} IN
    /\ Fault
    /\ late' \in Abandoned(gone)
    /\ call' = [t \in Callers |-> IF t \in gone THEN Idle ELSE call[t]]
    /\ sess' = [s \in Sessions |->
                  IF sess[s].st = "new" THEN sess[s]
                  ELSE [sess[s] EXCEPT !.st = "ended"]]
    /\ registered' = None
    /\ passed' = {}
    /\ slot' = None
    /\ owed' = None
    /\ lease' = [lease EXCEPT !.here = FALSE]
    /\ sweep' = IF sweep.here
                  THEN [step |-> "idle", here |-> FALSE, by |-> None]
                  ELSE sweep
    /\ UNCHANGED res

Next ==
    \/ \E t \in Callers : Get(t) \/ Commit(t) \/ Conflict(t) \/ Fail(t)
    \/ CommitLate
    \/ \E s \in Sessions :
         \/ Connect(s) \/ RegisterOk(s) \/ RegisterFailed(s)
         \/ Disconnect(s) \/ Leave(s) \/ Renew(s) \/ Release(s)
         \/ Pass(s) \/ \E kind \in Fields \cup {"pong"} : Submit(s, kind)
    \/ OffDone \/ Expire \/ Lapse
    \/ Project \/ ProjectDone
    \/ Evict \/ EvictRefused \/ EvictLocate \/ EvictMatch \/ EvictRemove
    \/ \E here \in BOOLEAN : SweepList(here)
    \/ SweepPrune \/ SweepLocate \/ SweepAcquire \/ SweepRefused \/ SweepDone
    \/ Crash

\* Requests are answered and tasks run on; a Lease that nobody renews runs
\* out; the sweep of another replica keeps ticking.
Fairness ==
    /\ \A t \in Callers : WF_vars(Get(t) \/ Commit(t) \/ Conflict(t))
    /\ \A s \in Sessions :
         /\ WF_vars(RegisterOk(s) \/ RegisterFailed(s) \/ Leave(s))
         /\ WF_vars(Release(s))
    /\ WF_vars(OffDone)
    /\ WF_vars(Lapse)
    /\ WF_vars(SweepList(FALSE))
    /\ WF_vars(SweepPrune \/ SweepLocate \/ SweepAcquire \/ SweepRefused
                 \/ SweepDone)

Spec == Init /\ [][Next]_vars /\ Fairness

(***************************************************************************)
(* Properties.                                                             *)
(***************************************************************************)
HasStatus == IF res = None THEN FALSE ELSE res.status /= None

\* The directory shows the owner: as long as a session that has been
\* acknowledged owns the Lease, the status carries its fence and shows it
\* online, unless an operator has evicted it (upsert_registration is awaited
\* before the session is acknowledged, and every other write is fenced).
OwnerIsShown ==
    \A s \in Sessions :
        sess[s].st = "live" /\ lease.owner = s =>
            /\ HasStatus
            /\ res.status.epoch = sess[s].epoch
            /\ \/ res.status.evicted
               \/ res.status.phase = "Online" /\ res.status.session = s

\* A status shown online holds no runtime data of another session (a
\* registration clears it, project_runtime compares session and fence).
RuntimeDataOfSession ==
    (HasStatus /\ res.status.phase = "Online") =>
        \A f \in Fields :
            res.status.data[f] /= None =>
                res.status.data[f].by = res.status.session

\* Unless another session's observation takes its place in the slot, what
\* was submitted for a session is in its online status once the slot is empty
\* (the generation check of the RuntimeProjector's worker).
NoObservationLost ==
    (/\ HasStatus /\ slot = None /\ owed /= None
     /\ res.status.phase = "Online" /\ res.status.session = owed.by)
        => res.status.data = Merge(res.status.data, owed.data)

\* The fence of the status never goes back, and an eviction is undone only by
\* a registration under a later fence (the transitions of mark_offline,
\* project_runtime and upsert_registration).
EvictionSticks ==
    [][HasStatus =>
         /\ HasStatus'
         /\ res'.status.epoch >= res.status.epoch
         /\ res.status.evicted /\ ~res'.status.evicted =>
              /\ res'.status.phase = "Online"
              /\ res'.status.epoch > res.status.epoch]_vars

\* Where some other replica sweeps the directory, a session that is over is
\* not shown online for ever, whichever calls failed, processes died or workers
\* were cancelled (project_offline_with_retry, reconcile_expired_owner).
GoneIsOffline ==
    \A s \in Sessions :
        (sess[s].st = "ended" /\ FALSE \in left.sweeps) ~>
            ~(HasStatus /\ res.status.phase = "Online"
                        /\ res.status.session = s)

(***************************************************************************)
(* What a comment of the repository says and the code does not do          *)
(***************************************************************************)

\* "a concurrent renewal wins as Conflict and prevents a false offline
\* projection": the acquire of reconcile_expired_owner is not granted while the
\* Lease is active.
RenewalWins ==
    sweep.step = "acquire" /\ Active => ~Grantable(sweep.here)
=============================================================================
