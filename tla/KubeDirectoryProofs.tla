------------------------ MODULE KubeDirectoryProofs ------------------------
(***************************************************************************)
(* The safety properties of KubeDirectory, for every set of sessions,      *)
(* number of retries and budget.                                           *)
(*                                                                         *)
(* None is inductive: a status stays as it should only because the writes  *)
(* that may still be executed, of calls under way or given up, all keep it *)
(* so.  Pending is the set of those writes.  IInv says of each one what    *)
(* OwnerIsShown and EvictionSticks say of the status; DataInv, in the last *)
(* part, says whose runtime data each one holds and which observations the *)
(* projector has given it.                                                 *)
(***************************************************************************)
EXTENDS KubeDirectory, TLAPS

\* The writes that the API server would still execute.
Pending ==
    {call[t].want : t \in {u \in Callers : Writing(call[u]) /\ call[u].fresh}}
      \cup late

\* What replacing the resource old by new may do to the status.
Follows(old, new) ==
    old /= None /\ old.status /= None =>
        /\ new.status /= None
        /\ new.status.epoch >= old.status.epoch
        /\ old.status.evicted /\ ~new.status.evicted =>
             /\ new.status.phase = "Online"
             /\ new.status.epoch > old.status.epoch

\* The resource r shows the session s as its owner.
Shows(r, s) ==
    /\ r /= None
    /\ r.status /= None
    /\ r.status.epoch = sess[s].epoch
    /\ \/ r.status.evicted
       \/ r.status.phase = "Online" /\ r.status.session = s

\* The session owns the Lease and its registration has been written.
Acknowledged(s) ==
    /\ lease.owner = s
    /\ sess[s].st = "live" \/ call[s].step = "ok"

\* Fences are handed out once, in order, and the Lease carries the last one.
EpochsInOrder ==
    /\ \A s \in Sessions : sess[s].epoch <= lease.epoch
    /\ \A s, u \in Sessions :
         s /= u /\ sess[s].st /= "new" /\ sess[u].st /= "new"
           => sess[s].epoch /= sess[u].epoch
    /\ \A s \in Sessions :
         lease.owner = s => sess[s].st /= "new" /\ sess[s].epoch = lease.epoch

\* A call carries the fence of the session it is about; the reconciler's session
\* is over, and the sweep's fence belongs to no session.
CallsCarryFences ==
    /\ \A s \in Sessions : call[s].step /= "idle" =>
         /\ sess[s].st = "registering"
         /\ call[s].by = s /\ call[s].epoch = sess[s].epoch
    /\ call["off"].step /= "idle" =>
         /\ call["off"].by \in Sessions
         /\ sess[call["off"].by].st = "ended"
         /\ call["off"].epoch = sess[call["off"].by].epoch
    /\ call["sweep"].step /= "idle" =>
         /\ sweep.step = "mark"
         /\ call["sweep"].epoch <= lease.epoch
         /\ call["sweep"].epoch = lease.epoch => lease.owner \notin Sessions

\* Every pending write is a step EvictionSticks allows.
PendingFollows == \A w \in Pending : w \in Resource /\ Follows(res, w)

\* Neither the resource nor a pending write hides an acknowledged owner.
PendingShows ==
    \A s \in Sessions : Acknowledged(s) =>
        /\ Shows(res, s)
        /\ \A w \in Pending : Shows(w, s)

\* The status a registration is about to write shows its session.
RegistrationShows ==
    \A s \in Sessions : call[s].step = "status" => Shows(call[s].want, s)

IInv == /\ TypeOK
        /\ EpochsInOrder
        /\ CallsCarryFences
        /\ RegistrationShows
        /\ PendingFollows
        /\ PendingShows

-----------------------------------------------------------------------------
(***************************************************************************)
(* Types                                                                   *)
(***************************************************************************)

\* The call records the actions build are call records.
LEMMA IdleType == NoData \in Data /\ Idle \in Call
  BY DEF NoData, Data, Idle, Call, Steps

LEMMA StartCallType ==
  ASSUME NEW by \in Sessions \cup {None}, NEW e \in Nat
  PROVE  StartCall(by, e) \in Call
  BY IdleType DEF StartCall, Idle, Call, Steps

LEMMA MergeType ==
  ASSUME NEW old \in Data, NEW new \in Data
  PROVE  Merge(old, new) \in Data
  BY DEF Merge, Data

\* A status transition yields a status or nothing, and what it yields follows
\* the status it started from.
LEMMA TransitionType ==
  ASSUME NEW t \in Callers, NEW c \in Call, NEW status \in Status \cup {None}
  PROVE  Transition(t, c, status) \in Status \cup {None}
<1>1. CASE t \in Sessions
  BY <1>1, NamesDiffer, IdleType DEF Transition, Registered, Status, Call
<1>2. CASE t \in {"off", "sweep"}
  BY <1>2, NamesDiffer, IdleType
     DEF Transition, MarkedOffline, NotCurrent, Status, Call
<1>3. CASE t = "run"
  <2>1. Transition(t, c, status) = Projected(c, status)
    BY <1>3, NamesDiffer DEF Transition
  <2>2. CASE Projected(c, status) = None
    BY <2>1, <2>2
  <2>3. CASE Projected(c, status) /= None
    <3>1. status \in Status
      BY <2>3 DEF Projected
    <3>2. Merge(status.data, c.data) \in Data
      BY <3>1, MergeType DEF Status, Call
    <3>3. Projected(c, status) = [status EXCEPT !.data = Merge(@, c.data)]
      BY <2>3 DEF Projected
    <3> QED BY <2>1, <3>1, <3>2, <3>3 DEF Status
  <2> QED BY <2>2, <2>3
<1>4. CASE t = "evict"
  BY <1>4, NamesDiffer DEF Transition, Evicted, Status
<1> QED BY <1>1, <1>2, <1>3, <1>4 DEF Callers

LEMMA DecideType ==
  ASSUME NEW t \in Callers, NEW c \in Call, NEW r \in Resource
  PROVE  Decide(t, c, r) \in Call
<1> DEFINE status == Transition(t, c, r.status)
<1>1. status \in Status \cup {None} /\ r.status \in Status \cup {None}
  BY TransitionType DEF Resource
<1>2. CASE status = None
  BY <1>2 DEF Decide, Call, Steps
<1>3. CASE status /= None
  <2>1. [spec |-> r.spec, status |-> status] \in Resource
    BY <1>1, <1>3 DEF Resource
  <2>2. t = "evict" => r.status.epoch \in Nat
    <3> SUFFICES ASSUME t = "evict" PROVE r.status.epoch \in Nat
      OBVIOUS
    <3>1. r.status /= None
      BY <1>3, NamesDiffer DEF Transition, Evicted
    <3> QED BY <1>1, <3>1 DEF Status
  <2>3. c.epoch \in Nat
    BY DEF Call
  <2>4. Decide(t, c, r) = [c EXCEPT !.step = "status", !.fresh = TRUE,
                     !.want = [spec |-> r.spec, status |-> status],
                     !.epoch = IF t = "evict" THEN r.status.epoch ELSE @]
    BY <1>3 DEF Decide
  <2> HIDE DEF status
  <2> QED BY <2>1, <2>2, <2>3, <2>4 DEF Call, Steps
<1> QED BY <1>2, <1>3

LEMMA CallTypeOf ==
  ASSUME TypeOK, NEW t \in Callers
  PROVE  call[t] \in Call
  BY DEF TypeOK

LEMMA AbandonedIsPending ==
  ASSUME NEW ts \in SUBSET Callers, NEW l \in Abandoned(ts)
  PROVE  l \subseteq Pending
  BY DEF Abandoned, Pending

\* A write under way writes a resource.
LEMMA WantIsResource ==
  ASSUME PendingFollows, NEW t \in Callers, Writing(call[t]), Current(call[t])
  PROVE  call[t].want \in Pending /\ call[t].want \in Resource
  BY DEF PendingFollows, Pending, Current

LEMMA OutdatedType ==
  ASSUME TypeOK
  PROVE  Outdated(call) \in [Callers -> Call]
<1>1. ASSUME NEW t \in Callers PROVE [call[t] EXCEPT !.fresh = FALSE] \in Call
  <2>1. call[t] \in Call
    BY CallTypeOf
  <2> QED BY <2>1 DEF Call
<1> QED BY <1>1 DEF Outdated

LEMMA ObservationType ==
  ASSUME TypeOK, NEW s \in Sessions, NEW kind
  PROVE  Observation(s, kind) \in Data
  BY DEF Observation, Data, TypeOK, Budget

LEMMA SlotType ==
  ASSUME TypeOK, NEW s \in Sessions, NEW d \in Data
  PROVE  Slot(s, d) \in SlotEntry
  BY MergeType DEF Slot, SlotEntry, TypeOK

LEMMA TypeStep ==
  ASSUME IInv, [Next]_vars
  PROVE  TypeOK'
<1> USE DEF Callers
<1>0. TypeOK /\ PendingFollows
  BY DEF IInv
<1>1. ASSUME NEW t \in Callers, Get(t) PROVE TypeOK'
  <2> DEFINE c == call[t]
  <2>1. c \in Call
    BY <1>0, CallTypeOf
  <2>2. ASSUME res = None, t /= "evict"
        PROVE  [c EXCEPT !.step = "spec", !.fresh = TRUE,
                  !.want = [spec |-> SpecOf(t), status |-> None]] \in Call
    BY <2>1, <2>2 DEF Call, Steps, SpecOf, Resource, Specs
  <2>3. [c EXCEPT !.step = "stale"] \in Call
    BY <2>1 DEF Call, Steps
  <2>4. ASSUME res /= None PROVE Decide(t, c, res) \in Call
    BY <1>0, <2>1, <2>4, DecideType DEF TypeOK
  <2>5. ASSUME res /= None
        PROVE  [c EXCEPT !.step = "spec", !.fresh = TRUE,
                         !.want = [res EXCEPT !.spec = SpecOf(t)]] \in Call
    BY <1>0, <2>1, <2>5 DEF TypeOK, Call, Steps, SpecOf, Resource, Specs
  <2>6. PICK d \in Call : call' = [call EXCEPT ![t] = d]
    BY <1>1, <2>2, <2>3, <2>4, <2>5 DEF Get
  <2> QED BY <1>0, <1>1, <2>6 DEF TypeOK, Get
<1>2. ASSUME NEW t \in Callers, Commit(t) PROVE TypeOK'
  <2> DEFINE c == call[t]
  <2>1. c \in Call /\ c.want \in Resource
    BY <1>0, <1>2, CallTypeOf, WantIsResource DEF Commit
  <2>2. Outdated(call) \in [Callers -> Call]
    BY <1>0, OutdatedType
  <2>3. Decide(t, c, c.want) \in Call
    BY <2>1, DecideType
  <2>4. [c EXCEPT !.step = "ok", !.want = None, !.fresh = FALSE] \in Call
    BY <2>1 DEF Call, Steps
  <2>5. call' \in [Callers -> Call]
    BY <1>2, <2>2, <2>3, <2>4 DEF Commit
  <2> QED BY <1>0, <1>2, <2>1, <2>5 DEF TypeOK, Commit
<1>3. ASSUME NEW t \in Callers, Conflict(t) PROVE TypeOK'
  <2>1. call[t] \in Call
    BY <1>0, CallTypeOf
  <2>2. call[t].tries + 1 \in Nat
    BY <2>1 DEF Call
  <2>3. ASSUME NEW step \in Steps, NEW n \in Nat
        PROVE  [call[t] EXCEPT !.step = step, !.tries = n, !.want = None]
                 \in Call
    BY <2>1 DEF Call
  <2>4. PICK step \in Steps, n \in Nat : call' = [call EXCEPT ![t] =
          [call[t] EXCEPT !.step = step, !.tries = n, !.want = None]]
    BY <1>3, <2>2 DEF Conflict, Steps
  <2>5. call' \in [Callers -> Call]
    BY <1>0, <2>3, <2>4 DEF TypeOK
  <2> QED BY <1>0, <1>3, <2>5 DEF TypeOK, Conflict
<1>4. ASSUME NEW t \in Callers, Fail(t) PROVE TypeOK'
  <2>1. call[t] \in Call
    BY <1>0, CallTypeOf
  <2>2. [call[t] EXCEPT !.step = "error", !.want = None, !.fresh = FALSE] \in Call
    BY <2>1 DEF Call, Steps
  <2>3. late' \subseteq Resource
    BY <1>0, <1>4, AbandonedIsPending DEF Fail, PendingFollows
  <2>4. left' \in Budget
    BY <1>0, <1>4 DEF Fail, Fault, TypeOK, Budget
  <2> QED BY <1>0, <1>4, <2>2, <2>3, <2>4 DEF TypeOK, Fail
<1>5. ASSUME CommitLate PROVE TypeOK'
  <2>1. Outdated(call) \in [Callers -> Call]
    BY <1>0, OutdatedType
  <2> QED BY <1>0, <1>5, <2>1 DEF TypeOK, CommitLate
<1>6. ASSUME NEW s \in Sessions, Connect(s) PROVE TypeOK'
  <2>1. StartCall(s, lease.epoch + 1) \in Call
    BY <1>0, StartCallType DEF TypeOK
  <2>2. left' \in Budget
    BY <1>0, <1>6 DEF Connect, TypeOK, Budget
  <2>3. lease.epoch + 1 \in Nat
    BY <1>0 DEF TypeOK
  <2> QED BY <1>0, <1>6, <2>1, <2>2, <2>3 DEF TypeOK, Connect, Grant
<1>7. ASSUME NEW s \in Sessions, RegisterOk(s) PROVE TypeOK'
  <2>1. late' \subseteq Resource
    BY <1>0, <1>7, AbandonedIsPending DEF RegisterOk, PendingFollows
  <2> QED BY <1>0, <1>7, <2>1, IdleType DEF TypeOK, RegisterOk
<1>8. ASSUME NEW s \in Sessions, NEW b \in BOOLEAN, Schedule(s, b)
      PROVE  /\ call' \in [Callers -> Call]
             /\ late' \subseteq Resource
             /\ registered' \in Sessions \cup {None}
  <2>1. late' \subseteq Resource
    BY <1>0, <1>8, AbandonedIsPending DEF Schedule, PendingFollows
  <2>2. StartCall(s, sess[s].epoch) \in Call
    BY <1>0, StartCallType DEF TypeOK
  <2> QED BY <1>0, <1>8, <2>1, <2>2, IdleType DEF TypeOK, Schedule
<1>9. ASSUME NEW s \in Sessions, RegisterFailed(s) PROVE TypeOK'
  <2>1. sess' \in [Sessions -> [st : {"new", "registering", "live", "ended"},
                                epoch : Nat]]
    BY <1>0, <1>9 DEF TypeOK, RegisterFailed
  <2> QED BY <1>0, <1>8, <1>9, <2>1 DEF TypeOK, RegisterFailed
<1>10. ASSUME NEW s \in Sessions, Disconnect(s) PROVE TypeOK'
  <2>1. sess' \in [Sessions -> [st : {"new", "registering", "live", "ended"},
                                epoch : Nat]]
    BY <1>0, <1>10 DEF TypeOK, Disconnect
  <2> QED BY <1>0, <1>8, <1>10, <2>1 DEF TypeOK, Disconnect
<1>11. ASSUME NEW s \in Sessions, Leave(s) \/ Renew(s) \/ Release(s)
       PROVE  TypeOK'
  <2>1. CASE Leave(s)
    BY <1>0, <2>1 DEF TypeOK, Leave
  <2>2. CASE Renew(s)
    BY <1>0, <2>2 DEF TypeOK, Renew
  <2>3. CASE Release(s)
    BY <1>0, <2>3 DEF TypeOK, Release
  <2> QED BY <1>11, <2>1, <2>2, <2>3
<1>12. ASSUME OffDone PROVE TypeOK'
  <2>1. StartCall(call["off"].by, call["off"].epoch) \in Call
    BY <1>0, StartCallType, CallTypeOf DEF Call
  <2> QED BY <1>0, <1>12, <2>1, IdleType DEF TypeOK, OffDone
<1>13. ASSUME Expire \/ Lapse PROVE TypeOK'
  <2>1. CASE Expire
    <3>1. left' \in Budget
      BY <1>0, <2>1 DEF TypeOK, Expire, Fault, Budget
    <3> QED BY <1>0, <2>1, <3>1 DEF TypeOK, Expire
  <2>2. CASE Lapse
    BY <1>0, <2>2 DEF TypeOK, Lapse
  <2> QED BY <1>13, <2>1, <2>2
<1>14. ASSUME NEW s \in Sessions, Pass(s) PROVE TypeOK'
  BY <1>0, <1>14 DEF TypeOK, Pass, Budget
<1>15. ASSUME NEW s \in Sessions, NEW kind, Submit(s, kind) PROVE TypeOK'
  <2>1. Observation(s, kind) \in Data
    BY <1>0, ObservationType
  <2>2. slot' \in SlotEntry
    BY <1>0, <1>15, <2>1, SlotType DEF Submit
  <2>3. owed' \in Owed
    BY <1>0, <1>15, <2>1, MergeType DEF Submit, TypeOK, Owed
  <2> QED BY <1>0, <1>15, <2>2, <2>3 DEF TypeOK, Submit
<1>16. ASSUME Project PROVE TypeOK'
  <2>1. slot \in SlotEntry
    BY <1>0, <1>16 DEF TypeOK, Project
  <2>2. StartCall(slot.by, sess[slot.by].epoch) \in Call
    BY <1>0, <2>1, StartCallType DEF TypeOK, SlotEntry
  <2>3. [StartCall(slot.by, sess[slot.by].epoch) EXCEPT
            !.data = slot.data, !.gen = slot.gen] \in Call
    BY <2>1, <2>2 DEF Call, SlotEntry
  <2> QED BY <1>0, <1>16, <2>3 DEF TypeOK, Project
<1>17. ASSUME ProjectDone PROVE TypeOK'
  BY <1>0, <1>17, IdleType DEF TypeOK, ProjectDone
<1>18. ASSUME Evict PROVE TypeOK'
  <2>1. StartCall(None, 0) \in Call
    BY StartCallType
  <2> QED BY <1>0, <1>18, <2>1 DEF TypeOK, Evict, Budget
<1>19. ASSUME NEW from, NEW next \in Steps, EvictStep(from, next),
              registered' \in Sessions \cup {None}
       PROVE  TypeOK'
  <2>1. [call["evict"] EXCEPT !.step = next] \in Call
    BY <1>0, CallTypeOf DEF Call
  <2> QED BY <1>0, <1>19, <2>1, IdleType DEF TypeOK, EvictStep
<1>20. ASSUME EvictRefused \/ EvictLocate \/ EvictMatch \/ EvictRemove
       PROVE  TypeOK'
  <2>1. registered \in Sessions \cup {None}
    BY <1>0 DEF TypeOK
  <2>2. CASE EvictRefused
    BY <2>1, <2>2, <1>19 DEF EvictRefused, Steps
  <2>3. CASE EvictLocate
    <3>1. PICK next \in {"match", "idle"} : EvictStep({"ok"}, next)
      BY <2>3 DEF EvictLocate
    <3> QED BY <2>1, <2>3, <3>1, <1>19 DEF EvictLocate, Steps
  <2>4. CASE EvictMatch
    <3>1. PICK next \in {"remove", "idle"} : EvictStep({"match"}, next)
      BY <2>4 DEF EvictMatch
    <3> QED BY <2>1, <2>4, <3>1, <1>19 DEF EvictMatch, Steps
  <2>5. CASE EvictRemove
    BY <2>5, <1>19 DEF EvictRemove, Steps
  <2> QED BY <1>20, <2>2, <2>3, <2>4, <2>5
<1>21. ASSUME NEW here \in BOOLEAN, SweepList(here) PROVE TypeOK'
  <2>1. CASE Listed
    <3>1. res.status \in Status
      BY <1>0, <2>1 DEF TypeOK, Listed, Resource
    <3> QED BY <1>0, <1>21, <2>1, <3>1 DEF TypeOK, SweepList, Status
  <2>2. CASE ~Listed
    <3>1. sweep' = [step |-> "prune", here |-> TRUE, by |-> None]
      BY <1>21, <2>2 DEF SweepList
    <3> QED BY <1>0, <1>21, <3>1 DEF TypeOK, SweepList
  <2> QED BY <2>1, <2>2
<1>22. ASSUME SweepPrune \/ SweepLocate \/ SweepRefused PROVE TypeOK'
  BY <1>0, <1>22 DEF TypeOK, SweepPrune, SweepLocate, SweepRefused, SweepTo
<1>23. ASSUME SweepAcquire PROVE TypeOK'
  <2>1. StartCall(sweep.by, lease.epoch + 1) \in Call
    BY <1>0, StartCallType DEF TypeOK
  <2> QED BY <1>0, <1>23, <2>1 DEF TypeOK, SweepAcquire, Grant, SweepTo
<1>24. ASSUME SweepDone PROVE TypeOK'
  BY <1>0, <1>24, IdleType DEF TypeOK, SweepDone, SweepTo
<1>25. ASSUME Crash PROVE TypeOK'
  <2>1. late' \subseteq Resource
    BY <1>0, <1>25, AbandonedIsPending DEF Crash, PendingFollows
  <2>2. left' \in Budget
    BY <1>0, <1>25 DEF Crash, Fault, TypeOK, Budget
  <2>3. call' \in [Callers -> Call]
    BY <1>0, <1>25, IdleType DEF Crash, TypeOK
  <2> QED BY <1>0, <1>25, <2>1, <2>2, <2>3 DEF TypeOK, Crash
<1>26. ASSUME UNCHANGED vars PROVE TypeOK'
  BY <1>0, <1>26 DEF TypeOK, vars
<1> QED
  BY <1>1, <1>2, <1>3, <1>4, <1>5, <1>6, <1>7, <1>9, <1>10, <1>11, <1>12,
     <1>13, <1>14, <1>15, <1>16, <1>17, <1>18, <1>20, <1>21, <1>22, <1>23,
     <1>24, <1>25, <1>26
  DEF Next

-----------------------------------------------------------------------------
(***************************************************************************)
(* Fences                                                                  *)
(***************************************************************************)

\* What a step of a directory call leaves as it is.
LEMMA DecideKeeps ==
  ASSUME NEW t \in Callers, NEW c \in Call, NEW r \in Resource
  PROVE  /\ Decide(t, c, r).by = c.by
         /\ t /= "evict" => Decide(t, c, r).epoch = c.epoch
         /\ Decide(t, c, r).step \in {"stale", "status"}
         /\ Decide(t, c, r).step = "status" =>
              /\ Transition(t, c, r.status) /= None
              /\ Decide(t, c, r).want =
                   [spec |-> r.spec, status |-> Transition(t, c, r.status)]
  BY DEF Decide, Call

\* A caller that is in a call stays in it or leaves it, with the same fence.
SameCall(t) ==
    /\ call'[t].by = call[t].by
    /\ t /= "evict" => call'[t].epoch = call[t].epoch
    /\ call'[t].step /= "idle" => call[t].step /= "idle"
    /\ call'[t].step = "ok" => call[t].step \in {"ok", "status"}

LEMMA GetKeeps ==
  ASSUME TypeOK, NEW t \in Callers, Get(t)
  PROVE  \A u \in Callers : SameCall(u)
<1> DEFINE c == call[t]
<1>1. c \in Call /\ c.step = "get"
  BY CallTypeOf DEF Get
<1>2. ASSUME NEW u \in Callers, u /= t PROVE SameCall(u)
  BY <1>2 DEF TypeOK, Get, SameCall
<1>3. SameCall(t)
  <2>1. CASE res = None
    BY <1>1, <2>1 DEF TypeOK, Get, SameCall, Call
  <2>2. CASE res /= None /\ HasSpec(t)
    <3>1. res \in Resource /\ call'[t] = Decide(t, c, res)
      BY <2>2 DEF TypeOK, Get
    <3> QED BY <1>1, <3>1, DecideKeeps DEF SameCall
  <2>3. CASE res /= None /\ ~HasSpec(t)
    BY <1>1, <2>3 DEF TypeOK, Get, SameCall, Call
  <2> QED BY <2>1, <2>2, <2>3
<1> QED BY <1>2, <1>3

LEMMA CommitKeeps ==
  ASSUME TypeOK, PendingFollows, NEW t \in Callers, Commit(t)
  PROVE  \A u \in Callers : SameCall(u)
<1> DEFINE c == call[t]
<1>1. c \in Call /\ c.want \in Resource /\ c.step \in {"spec", "status"}
  BY CallTypeOf, WantIsResource DEF Commit, Writing
<1>2. ASSUME NEW u \in Callers, u /= t PROVE SameCall(u)
  <2>1. call[u] \in Call
    BY CallTypeOf
  <2>2. call'[u] = [call[u] EXCEPT !.fresh = FALSE]
    BY <1>2, OutdatedType DEF Commit, Outdated
  <2> QED BY <2>1, <2>2 DEF SameCall, Call
<1>3. SameCall(t)
  <2>1. CASE c.step = "spec"
    <3>1. call'[t] = Decide(t, c, c.want)
      BY <2>1, OutdatedType DEF Commit
    <3> QED BY <1>1, <2>1, <3>1, DecideKeeps DEF SameCall
  <2>2. CASE c.step = "status"
    <3>1. call'[t] = [c EXCEPT !.step = "ok", !.want = None, !.fresh = FALSE]
      BY <2>2, OutdatedType DEF Commit
    <3> QED BY <1>1, <2>2, <3>1 DEF SameCall, Call
  <2> QED BY <1>1, <2>1, <2>2
<1> QED BY <1>2, <1>3

LEMMA OtherCallStepsKeep ==
  ASSUME TypeOK,
         \/ CommitLate
         \/ \E t \in Callers : Conflict(t) \/ Fail(t)
  PROVE  \A u \in Callers : SameCall(u)
<1>1. ASSUME NEW u \in Callers PROVE call[u] \in Call
  BY CallTypeOf
<1>2. CASE CommitLate
  <2>1. ASSUME NEW u \in Callers
        PROVE call'[u] = [call[u] EXCEPT !.fresh = FALSE]
    BY <1>2 DEF CommitLate, Outdated
  <2> QED BY <1>1, <2>1 DEF SameCall, Call
<1>3. ASSUME NEW t \in Callers, Conflict(t) PROVE \A u \in Callers : SameCall(u)
  BY <1>1, <1>3 DEF Conflict, Writing, SameCall, Call, TypeOK
<1>4. ASSUME NEW t \in Callers, Fail(t) PROVE \A u \in Callers : SameCall(u)
  BY <1>1, <1>4 DEF Fail, SameCall, Call, TypeOK
<1> QED BY <1>2, <1>3, <1>4

LEMMA EpochsStep ==
  ASSUME IInv, [Next]_vars
  PROVE  EpochsInOrder'
<1>0. TypeOK /\ EpochsInOrder /\ CallsCarryFences
  BY DEF IInv
<1>1. CASE UNCHANGED << lease, sess >>
  BY <1>0, <1>1 DEF EpochsInOrder
<1>2. ASSUME NEW s \in Sessions, Connect(s) PROVE EpochsInOrder'
  <2>1. /\ sess' = [sess EXCEPT ![s] = [st |-> "registering",
                                        epoch |-> lease.epoch + 1]]
        /\ lease'.epoch = lease.epoch + 1
        /\ lease'.owner = s
        /\ lease.epoch \in Nat
        /\ \A u \in Sessions : sess[u].epoch \in Nat
    BY <1>0, <1>2 DEF Connect, Grant, TypeOK
  <2>2. \A u \in Sessions : u /= s => sess'[u] = sess[u]
    BY <1>0, <2>1 DEF TypeOK
  <2>3. sess'[s].epoch = lease.epoch + 1 /\ sess'[s].st = "registering"
    BY <1>0, <2>1 DEF TypeOK
  <2> QED BY <1>0, <2>1, <2>2, <2>3 DEF EpochsInOrder
<1>3. ASSUME NEW s \in Sessions, sess[s].st /= "new", UNCHANGED lease,
             NEW st, st /= "new", sess' = [sess EXCEPT ![s].st = st]
      PROVE  EpochsInOrder'
  BY <1>0, <1>3 DEF EpochsInOrder, TypeOK
<1>4. ASSUME NEW s \in Sessions,
             RegisterOk(s) \/ RegisterFailed(s) \/ Disconnect(s) \/ Leave(s)
      PROVE  EpochsInOrder'
  <2>1. sess[s].st /= "new"
    BY <1>0, <1>4
    DEF CallsCarryFences, RegisterOk, RegisterFailed, Disconnect, Leave
  <2> QED BY <1>3, <1>4, <2>1 DEF RegisterOk, RegisterFailed, Disconnect, Leave
<1>5. ASSUME UNCHANGED sess, lease'.epoch = lease.epoch,
             lease'.owner \in {lease.owner, None}
      PROVE  EpochsInOrder'
  BY <1>0, <1>5, NamesDiffer DEF EpochsInOrder
<1>6. ASSUME NEW s \in Sessions, Renew(s) \/ Release(s) PROVE EpochsInOrder'
  BY <1>0, <1>5, <1>6 DEF Renew, Release, TypeOK
<1>7. ASSUME Expire \/ Lapse \/ SweepDone PROVE EpochsInOrder'
  BY <1>0, <1>5, <1>7 DEF Expire, Lapse, SweepDone, TypeOK
<1>8. ASSUME SweepAcquire PROVE EpochsInOrder'
  <2>1. /\ lease'.epoch = lease.epoch + 1 /\ lease'.owner = "sweep"
        /\ UNCHANGED sess
        /\ lease.epoch \in Nat
        /\ \A u \in Sessions : sess[u].epoch \in Nat
    BY <1>0, <1>8 DEF SweepAcquire, Grant, TypeOK
  <2> QED BY <1>0, <2>1, NamesDiffer DEF EpochsInOrder
<1>9. ASSUME Crash PROVE EpochsInOrder'
  <2>1. lease'.epoch = lease.epoch /\ lease'.owner = lease.owner
    BY <1>0, <1>9 DEF Crash, TypeOK
  <2>2. \A u \in Sessions : /\ sess'[u].epoch = sess[u].epoch
                            /\ sess'[u].st = "new" <=> sess[u].st = "new"
    BY <1>0, <1>9 DEF Crash, TypeOK
  <2> QED BY <1>0, <2>1, <2>2 DEF EpochsInOrder
<1>10. ASSUME NEW t \in Callers, Get(t) \/ Commit(t) \/ Conflict(t) \/ Fail(t)
       PROVE  UNCHANGED << lease, sess >>
  BY <1>10 DEF Get, Commit, Conflict, Fail
<1>11. ASSUME NEW s \in Sessions, NEW kind, Pass(s) \/ Submit(s, kind)
       PROVE  UNCHANGED << lease, sess >>
  BY <1>11 DEF Pass, Submit
<1>12. ASSUME \/ CommitLate \/ OffDone \/ Project \/ ProjectDone \/ Evict
              \/ EvictRefused \/ EvictLocate \/ EvictMatch \/ EvictRemove
              \/ SweepPrune \/ SweepLocate \/ SweepRefused
              \/ UNCHANGED vars
       PROVE  UNCHANGED << lease, sess >>
  BY <1>12 DEF CommitLate, OffDone, Project, ProjectDone, Evict, EvictRefused,
     EvictLocate, EvictMatch, EvictRemove, EvictStep, SweepPrune, SweepLocate,
     SweepRefused, vars
<1>13. ASSUME NEW here \in BOOLEAN, SweepList(here)
       PROVE  UNCHANGED << lease, sess >>
  BY <1>13 DEF SweepList
<1> QED
  BY <1>1, <1>2, <1>4, <1>6, <1>7, <1>8, <1>9, <1>10, <1>11, <1>12, <1>13
  DEF Next

LEMMA CallsStep ==
  ASSUME IInv, [Next]_vars
  PROVE  CallsCarryFences'
<1>0. /\ TypeOK /\ EpochsInOrder /\ CallsCarryFences /\ PendingFollows
      /\ {"off", "run", "evict", "sweep"} \subseteq Callers
      /\ Sessions \subseteq Callers
  BY DEF IInv, Callers
<1>1. ASSUME UNCHANGED << lease, sess, sweep >>,
             \A u \in Callers : SameCall(u)
      PROVE  CallsCarryFences'
  <2>1. \A s \in Sessions : s \in Callers /\ s /= "evict"
    BY NamesDiffer DEF Callers
  <2> QED BY <1>0, <1>1, <2>1 DEF CallsCarryFences, SameCall, Callers
<1>2. ASSUME NEW t \in Callers, Get(t) \/ Commit(t) \/ Conflict(t) \/ Fail(t)
      PROVE  CallsCarryFences'
  <2>1. UNCHANGED << lease, sess, sweep >>
    BY <1>2 DEF Get, Commit, Conflict, Fail
  <2>2. \A u \in Callers : SameCall(u)
    BY <1>0, <1>2, GetKeeps, CommitKeeps, OtherCallStepsKeep
  <2> QED BY <1>1, <2>1, <2>2
<1>3. ASSUME CommitLate PROVE CallsCarryFences'
  <2>1. UNCHANGED << lease, sess, sweep >>
    BY <1>3 DEF CommitLate
  <2> QED BY <1>0, <1>1, <1>3, <2>1, OtherCallStepsKeep
<1>4. ASSUME NEW s \in Sessions, Connect(s) PROVE CallsCarryFences'
  <2>1. /\ sess'[s].st = "registering" /\ sess'[s].epoch = lease.epoch + 1
        /\ \A u \in Sessions \ {s} : sess'[u] = sess[u]
        /\ lease'.epoch = lease.epoch + 1 /\ lease.epoch \in Nat
        /\ call["sweep"].epoch \in Nat
        /\ UNCHANGED sweep
    BY <1>0, <1>4 DEF Connect, Grant, TypeOK, Call
  <2>2. /\ call'[s].by = s /\ call'[s].epoch = lease.epoch + 1
        /\ \A u \in Callers \ {s} : call'[u] = call[u]
    BY <1>0, <1>4 DEF Connect, TypeOK, StartCall, Idle
  <2>3. call["off"].step /= "idle" => call["off"].by \in Sessions \ {s}
    BY <1>0, <1>4 DEF CallsCarryFences, Connect
  <2> QED BY <1>0, <2>1, <2>2, <2>3, NamesDiffer DEF CallsCarryFences
<1>5. ASSUME NEW s \in Sessions, RegisterOk(s) PROVE CallsCarryFences'
  <2>1. /\ call'[s].step = "idle" /\ call'["off"].step = "idle"
        /\ \A u \in Callers \ {s, "off"} : call'[u] = call[u]
        /\ \A u \in Sessions \ {s} : sess'[u] = sess[u]
        /\ UNCHANGED << lease, sweep >>
    BY <1>0, <1>5 DEF RegisterOk, TypeOK, Idle
  <2> QED BY <1>0, <2>1, NamesDiffer DEF CallsCarryFences
<1>6. ASSUME NEW s \in Sessions, RegisterFailed(s) \/ Disconnect(s)
      PROVE  CallsCarryFences'
  <2>1. /\ sess' = [sess EXCEPT ![s].st = "ended"]
        /\ UNCHANGED << lease, sweep >>
    BY <1>6 DEF RegisterFailed, Disconnect
  <2>2. PICK idle \in BOOLEAN :
          Schedule(s, idle) /\ (~idle => call[s].step = "idle")
    <3>1. CASE RegisterFailed(s)
      BY <3>1 DEF RegisterFailed
    <3>2. CASE Disconnect(s)
      BY <1>0, <3>2 DEF Disconnect, CallsCarryFences
    <3> QED BY <1>6, <3>1, <3>2
  <2>3. call' = [call EXCEPT !["off"] = StartCall(s, sess[s].epoch),
                             ![s] = IF idle THEN Idle ELSE @]
    BY <2>2 DEF Schedule
  <2>4. s /= "off"
    BY NamesDiffer
  <2>5. call'[s].step = "idle"
    BY <1>0, <2>2, <2>3, <2>4 DEF TypeOK, Idle
  <2>6. call'["off"].by = s /\ call'["off"].epoch = sess[s].epoch
    BY <1>0, <2>3, <2>4 DEF TypeOK, StartCall, Idle
  <2>7. \A u \in Callers \ {s, "off"} : call'[u] = call[u]
    BY <1>0, <2>3 DEF TypeOK
  <2>8. /\ sess'[s].st = "ended" /\ sess'[s].epoch = sess[s].epoch
        /\ \A u \in Sessions \ {s} : sess'[u] = sess[u]
    BY <1>0, <2>1 DEF TypeOK
  <2> QED BY <1>0, <2>1, <2>5, <2>6, <2>7, <2>8, NamesDiffer DEF CallsCarryFences
<1>7. ASSUME NEW s \in Sessions, Leave(s) PROVE CallsCarryFences'
  <2>1. /\ sess[s].st = "live"
        /\ \A u \in Sessions \ {s} : sess'[u] = sess[u]
        /\ UNCHANGED << call, lease, sweep >>
    BY <1>0, <1>7 DEF Leave, TypeOK
  <2> QED BY <1>0, <2>1 DEF CallsCarryFences
<1>8. ASSUME UNCHANGED << call, sess, sweep >>, lease'.epoch = lease.epoch,
             lease'.owner \in {lease.owner, None}
      PROVE  CallsCarryFences'
  BY <1>0, <1>8, NamesDiffer DEF CallsCarryFences
<1>9. ASSUME NEW s \in Sessions, Renew(s) \/ Release(s) PROVE CallsCarryFences'
  BY <1>0, <1>8, <1>9 DEF Renew, Release, TypeOK
<1>10. ASSUME Expire \/ Lapse PROVE CallsCarryFences'
  BY <1>0, <1>8, <1>10 DEF Expire, Lapse, TypeOK
<1>11. ASSUME NEW s \in Sessions, NEW kind, Pass(s) \/ Submit(s, kind)
       PROVE  CallsCarryFences'
  BY <1>8, <1>11 DEF Pass, Submit
<1>12. ASSUME UNCHANGED << lease, sess, sweep >>,
              \A u \in Callers \ {"off", "run", "evict"} : call'[u] = call[u],
              \/ call'["off"] = call["off"]
              \/ call'["off"].step = "idle"
              \/ /\ call["off"].step /= "idle"
                 /\ call'["off"].by = call["off"].by
                 /\ call'["off"].epoch = call["off"].epoch
       PROVE  CallsCarryFences'
  <2>1. \A u \in Sessions \cup {"sweep"} : call'[u] = call[u]
    BY <1>12, NamesDiffer DEF Callers
  <2> QED BY <1>0, <1>12, <2>1 DEF CallsCarryFences
<1>13. ASSUME OffDone PROVE CallsCarryFences'
  BY <1>0, <1>12, <1>13 DEF OffDone, TypeOK, Idle, StartCall
<1>14. ASSUME Project \/ ProjectDone PROVE CallsCarryFences'
  BY <1>0, <1>12, <1>14 DEF Project, ProjectDone, TypeOK
<1>15. ASSUME \/ Evict \/ EvictRefused \/ EvictLocate \/ EvictMatch
              \/ EvictRemove
       PROVE  CallsCarryFences'
  BY <1>0, <1>12, <1>15 DEF Evict, EvictRefused, EvictLocate, EvictMatch,
     EvictRemove, EvictStep, TypeOK
<1>16. ASSUME UNCHANGED << call, sess, lease >>, sweep.step /= "mark"
       PROVE  CallsCarryFences'
  BY <1>0, <1>16 DEF CallsCarryFences
<1>17. ASSUME NEW here \in BOOLEAN, SweepList(here) PROVE CallsCarryFences'
  BY <1>16, <1>17 DEF SweepList
<1>18. ASSUME SweepPrune \/ SweepLocate \/ SweepRefused PROVE CallsCarryFences'
  BY <1>16, <1>18 DEF SweepPrune, SweepLocate, SweepRefused
<1>19. ASSUME SweepAcquire PROVE CallsCarryFences'
  <2>1. /\ call'["sweep"].epoch = lease.epoch + 1
        /\ \A u \in Callers \ {"sweep"} : call'[u] = call[u]
        /\ lease'.epoch = lease.epoch + 1 /\ lease'.owner = "sweep"
        /\ lease.epoch \in Nat
        /\ sweep'.step = "mark"
        /\ UNCHANGED sess
    BY <1>0, <1>19 DEF SweepAcquire, Grant, SweepTo, TypeOK, StartCall, Idle
  <2> QED BY <1>0, <2>1, NamesDiffer DEF CallsCarryFences
<1>20. ASSUME SweepDone PROVE CallsCarryFences'
  <2>1. /\ call'["sweep"].step = "idle"
        /\ \A u \in Callers \ {"sweep"} : call'[u] = call[u]
        /\ UNCHANGED sess
    BY <1>0, <1>20 DEF SweepDone, TypeOK, Idle
  <2> QED BY <1>0, <2>1, NamesDiffer DEF CallsCarryFences
<1>21. ASSUME Crash PROVE CallsCarryFences'
  <2>1. \A u \in Callers \ {"sweep"} : call'[u].step = "idle"
    BY <1>21 DEF Crash, Idle
  <2>2. CASE sweep.here
    <3>1. call'["sweep"].step = "idle"
      BY <1>0, <1>21, <2>2 DEF Crash, Idle
    <3> QED BY <1>0, <2>1, <3>1, NamesDiffer DEF CallsCarryFences
  <2>3. CASE ~sweep.here
    <3>1. /\ call'["sweep"] = call["sweep"] /\ UNCHANGED sweep
          /\ lease'.epoch = lease.epoch /\ lease'.owner = lease.owner
      BY <1>0, <1>21, <2>3 DEF Crash, TypeOK
    <3> QED BY <1>0, <2>1, <3>1, NamesDiffer DEF CallsCarryFences
  <2> QED BY <2>2, <2>3
<1>22. ASSUME UNCHANGED vars PROVE CallsCarryFences'
  BY <1>8, <1>22 DEF vars
<1> QED
  BY <1>2, <1>3, <1>4, <1>5, <1>6, <1>7, <1>9, <1>10, <1>11, <1>13, <1>14,
     <1>15, <1>17, <1>18, <1>19, <1>20, <1>21, <1>22
  DEF Next

-----------------------------------------------------------------------------
(***************************************************************************)
(* Pending writes                                                          *)
(***************************************************************************)

LEMMA TransitionFollows ==
  ASSUME NEW t \in Callers, NEW c \in Call, NEW status \in Status,
         Transition(t, c, status) /= None, status /= None
  PROVE  LET new == Transition(t, c, status) IN
         /\ new.epoch >= status.epoch
         /\ status.evicted /\ ~new.evicted =>
              new.phase = "Online" /\ new.epoch > status.epoch
<1>1. CASE t \in Sessions
  BY <1>1, NamesDiffer DEF Transition, Registered, Status, Call
<1>2. CASE t \in {"off", "sweep"}
  BY <1>2, NamesDiffer DEF Transition, MarkedOffline, NotCurrent, Status, Call
<1>3. CASE t = "run"
  BY <1>3, NamesDiffer DEF Transition, Projected, Status, Call
<1>4. CASE t = "evict"
  BY <1>4, NamesDiffer DEF Transition, Evicted, Status, Call
<1> QED BY <1>1, <1>2, <1>3, <1>4 DEF Callers

LEMMA DecideFollows ==
  ASSUME NEW t \in Callers, NEW c \in Call, NEW r \in Resource,
         Decide(t, c, r).step = "status"
  PROVE  /\ Decide(t, c, r).want \in Resource
         /\ Follows(r, Decide(t, c, r).want)
<1> DEFINE new == Transition(t, c, r.status)
           w == Decide(t, c, r).want
<1>1. new /= None /\ w = [spec |-> r.spec, status |-> new]
  BY DecideKeeps
<1>2. r.status \in Status \cup {None} /\ r.spec \in Specs
  BY DEF Resource
<1>3. new \in Status
  BY <1>1, <1>2, TransitionType
<1>4. w \in Resource
  BY <1>1, <1>2, <1>3 DEF Resource
<1>5. w.status = new
  BY <1>1
<1>6. Follows(r, w)
  <2> SUFFICES ASSUME r.status /= None
               PROVE  /\ new.epoch >= r.status.epoch
                      /\ r.status.evicted /\ ~new.evicted =>
                           new.phase = "Online" /\ new.epoch > r.status.epoch
    BY <1>1, <1>5 DEF Follows
  <2> QED BY <1>1, <1>2, TransitionFollows
<1> QED BY <1>4, <1>6

\* Unless a call gets to write something, the pending writes only get fewer.
LEMMA PendingShrinks ==
  ASSUME late' \subseteq Pending,
         \A t \in Callers : Writing(call'[t]) /\ call'[t].fresh =>
             call'[t] = call[t]
  PROVE  Pending' \subseteq Pending
  BY DEF Pending, Writing

\* What a step of a call may add to them.
LEMMA GetPending ==
  ASSUME TypeOK, NEW t \in Callers, Get(t)
  PROVE  Pending' \subseteq
           Pending \cup {w \in {call'[t].want} : Writing(call'[t])}
  BY DEF TypeOK, Get, Pending, Writing

LEMMA CommitPending ==
  ASSUME TypeOK, PendingFollows, NEW t \in Callers, Commit(t)
  PROVE  Pending' \subseteq
           {w \in {Decide(t, call[t], call[t].want).want} :
              call[t].step = "spec"
              /\ Decide(t, call[t], call[t].want).step = "status"}
<1> DEFINE c == call[t]
           d == Decide(t, c, c.want)
<1>1. c \in Call /\ c.want \in Resource
  BY CallTypeOf, WantIsResource DEF Commit
<1>2. ASSUME NEW u \in Callers, u /= t PROVE ~call'[u].fresh
  <2>1. call[u] \in Call
    BY CallTypeOf
  <2>2. call'[u] = [call[u] EXCEPT !.fresh = FALSE]
    BY <1>2, OutdatedType DEF Commit, Outdated
  <2> QED BY <2>1, <2>2 DEF Call
<1>3. CASE c.step = "spec"
  <2>1. call'[t] = d
    BY <1>3, OutdatedType DEF Commit
  <2>2. d.step \in {"stale", "status"}
    BY <1>1, DecideKeeps
  <2>3. late' = {}
    BY DEF Commit
  <2>4. ASSUME NEW w \in Pending' PROVE w = d.want /\ d.step = "status"
    <3>1. PICK u \in Callers : /\ w = call'[u].want
                               /\ call'[u].step \in {"spec", "status"}
                               /\ call'[u].fresh
      BY <2>3, <2>4 DEF Pending, Writing
    <3>2. u = t
      BY <1>2, <3>1
    <3> QED BY <2>1, <2>2, <3>1, <3>2
  <2> QED BY <1>3, <2>4
<1>4. CASE c.step = "status"
  <2>1. call'[t] = [c EXCEPT !.step = "ok", !.want = None, !.fresh = FALSE]
    BY <1>4, OutdatedType DEF Commit
  <2>2. ~call'[t].fresh
    BY <1>1, <2>1 DEF Call
  <2> QED BY <1>2, <2>2 DEF Pending, Commit
<1> QED BY <1>3, <1>4 DEF Commit, Writing

LEMMA CommitLatePending ==
  ASSUME TypeOK, CommitLate
  PROVE  Pending' = {}
<1>1. ASSUME NEW u \in Callers PROVE ~call'[u].fresh
  <2>1. call[u] \in Call
    BY CallTypeOf
  <2>2. call'[u] = [call[u] EXCEPT !.fresh = FALSE]
    BY DEF CommitLate, Outdated
  <2> QED BY <2>1, <2>2 DEF Call
<1> QED BY <1>1 DEF Pending, CommitLate

\* A step that writes nothing, lets no call write and acknowledges nobody.
Quiet ==
    /\ res' = res
    /\ Pending' \subseteq Pending
    /\ \A s \in Sessions : Acknowledged(s)' =>
         Acknowledged(s) /\ sess'[s].epoch = sess[s].epoch
    /\ \A s \in Sessions : call'[s].step = "status" =>
         /\ call[s].step = "status" /\ call'[s].want = call[s].want
         /\ sess'[s].epoch = sess[s].epoch

LEMMA QuietIf ==
  ASSUME res' = res, late' \subseteq Pending,
         \A t \in Callers : call'[t] = call[t]
                           \/ call'[t].step \notin {"spec", "status", "ok"},
         \A s \in Sessions :
           /\ sess'[s].st = "live" => sess[s].st = "live" \/ call[s].step = "ok"
           /\ \/ /\ lease'.owner = s => lease.owner = s
                 /\ sess'[s].epoch = sess[s].epoch
              \/ sess'[s].st /= "live" /\ call'[s].step = "get"
  PROVE  Quiet
<1>1. Pending' \subseteq Pending
  <2>1. \A t \in Callers : Writing(call'[t]) /\ call'[t].fresh =>
             call'[t] = call[t]
    BY DEF Writing
  <2> QED BY <2>1, PendingShrinks
<1>2. \A s \in Sessions : s \in Callers
  BY DEF Callers
<1>3. ASSUME NEW s \in Sessions, Acknowledged(s)'
      PROVE  Acknowledged(s) /\ sess'[s].epoch = sess[s].epoch
  BY <1>2, <1>3 DEF Acknowledged
<1>4. ASSUME NEW s \in Sessions, call'[s].step = "status"
      PROVE  /\ call[s].step = "status" /\ call'[s].want = call[s].want
             /\ sess'[s].epoch = sess[s].epoch
  BY <1>2, <1>4
<1> QED BY <1>1, <1>3, <1>4 DEF Quiet

LEMMA QuietStep ==
  ASSUME IInv, [Next]_vars,
         ~(\E t \in Callers : Get(t) \/ Commit(t)), ~CommitLate
  PROVE  Quiet
<1>0. /\ TypeOK /\ CallsCarryFences /\ late \subseteq Pending
      /\ Sessions \cup {"off", "run", "evict", "sweep"} = Callers
      /\ \A ts \in SUBSET Callers : \A l \in Abandoned(ts) : l \subseteq Pending
  BY AbandonedIsPending DEF IInv, Callers, Pending
<1>1. ASSUME NEW t \in Callers, Conflict(t) \/ Fail(t) PROVE Quiet
  <2>1. /\ res' = res /\ late' \subseteq Pending /\ UNCHANGED << lease, sess >>
    BY <1>0, <1>1 DEF Conflict, Fail
  <2>2. /\ \A u \in Callers \ {t} : call'[u] = call[u]
        /\ call'[t].step \in {"get", "error"}
    <3>1. call[t] \in Call
      BY <1>0, CallTypeOf
    <3>2. CASE Conflict(t)
      BY <1>0, <3>1, <3>2 DEF Conflict, TypeOK, Call
    <3>3. CASE Fail(t)
      BY <1>0, <3>1, <3>3 DEF Fail, TypeOK, Call
    <3> QED BY <1>1, <3>2, <3>3
  <2> QED BY <2>1, <2>2, QuietIf
<1>2. ASSUME NEW s \in Sessions, Connect(s) PROVE Quiet
  <2>1. /\ res' = res /\ late' \subseteq Pending /\ lease'.owner = s
    BY <1>0, <1>2 DEF Connect, Grant
  <2>2. /\ \A u \in Callers \ {s} : call'[u] = call[u]
        /\ call'[s].step = "get"
        /\ \A u \in Sessions \ {s} : sess'[u] = sess[u]
        /\ sess'[s].st = "registering"
    BY <1>0, <1>2 DEF Connect, TypeOK, StartCall, Idle
  <2> QED BY <2>1, <2>2, QuietIf
<1>3. ASSUME NEW s \in Sessions, RegisterOk(s) PROVE Quiet
  <2>1. /\ res' = res /\ late' \subseteq Pending /\ UNCHANGED lease
        /\ call[s].step = "ok"
    BY <1>0, <1>3 DEF RegisterOk
  <2>2. \A u \in Callers : call'[u] = call[u] \/ call'[u].step = "idle"
    BY <1>0, <1>3 DEF RegisterOk, TypeOK, Idle
  <2>3. \A u \in Sessions : /\ sess'[u].epoch = sess[u].epoch
                            /\ u /= s => sess'[u] = sess[u]
    BY <1>0, <1>3 DEF RegisterOk, TypeOK
  <2> QED BY <2>1, <2>2, <2>3, QuietIf
<1>4. ASSUME NEW s \in Sessions, RegisterFailed(s) \/ Disconnect(s) PROVE Quiet
  <2>1. /\ res' = res /\ UNCHANGED lease
        /\ sess' = [sess EXCEPT ![s].st = "ended"]
        /\ \E idle \in BOOLEAN : Schedule(s, idle)
    BY <1>4 DEF RegisterFailed, Disconnect
  <2>2. PICK idle \in BOOLEAN : Schedule(s, idle)
    BY <2>1
  <2>3. late' \subseteq Pending
    BY <1>0, <2>2 DEF Schedule
  <2>4. call' = [call EXCEPT !["off"] = StartCall(s, sess[s].epoch),
                             ![s] = IF idle THEN Idle ELSE @]
    BY <2>2 DEF Schedule
  <2>5. s /= "off"
    BY NamesDiffer
  <2>6. call'[s] = call[s] \/ call'[s].step = "idle"
    BY <1>0, <2>4, <2>5 DEF TypeOK, Idle
  <2>7. call'["off"].step = "get"
    BY <1>0, <2>4, <2>5 DEF TypeOK, StartCall, Idle
  <2>8. \A u \in Callers \ {s, "off"} : call'[u] = call[u]
    BY <1>0, <2>4 DEF TypeOK
  <2>9. \A u \in Sessions : /\ sess'[u].epoch = sess[u].epoch
                            /\ sess'[u].st = "live" => sess[u].st = "live"
    BY <1>0, <2>1 DEF TypeOK
  <2> QED BY <2>1, <2>3, <2>6, <2>7, <2>8, <2>9, QuietIf
<1>5. ASSUME NEW s \in Sessions, Leave(s) PROVE Quiet
  <2>1. /\ res' = res /\ late' \subseteq Pending /\ UNCHANGED << lease, call >>
        /\ \A u \in Sessions : /\ sess'[u].epoch = sess[u].epoch
                               /\ sess'[u].st = "live" => sess[u].st = "live"
    BY <1>0, <1>5 DEF Leave, TypeOK
  <2> QED BY <2>1, QuietIf
<1>6. ASSUME UNCHANGED << res, late, call, sess >>,
             lease'.owner \in {lease.owner, None, "sweep"}
      PROVE  Quiet
  <2>1. \A s \in Sessions : lease'.owner = s => lease.owner = s
    BY <1>6, NamesDiffer
  <2> QED BY <1>0, <1>6, <2>1, QuietIf
<1>7. ASSUME NEW s \in Sessions, Renew(s) \/ Release(s) PROVE Quiet
  BY <1>0, <1>6, <1>7 DEF Renew, Release, TypeOK
<1>8. ASSUME Expire \/ Lapse PROVE Quiet
  BY <1>0, <1>6, <1>8 DEF Expire, Lapse, TypeOK
<1>9. ASSUME NEW s \in Sessions, NEW kind, Pass(s) \/ Submit(s, kind) PROVE Quiet
  BY <1>6, <1>9 DEF Pass, Submit
<1>10. ASSUME NEW here \in BOOLEAN, SweepList(here) PROVE Quiet
  BY <1>6, <1>10 DEF SweepList
<1>11. ASSUME SweepPrune \/ SweepLocate \/ SweepRefused \/ UNCHANGED vars
       PROVE  Quiet
  BY <1>6, <1>11 DEF SweepPrune, SweepLocate, SweepRefused, vars
<1>12. ASSUME UNCHANGED << res, late, sess >>,
              lease'.owner \in {lease.owner, None, "sweep"},
              NEW t \in {"off", "run", "evict", "sweep"}, NEW c,
              c.step \notin {"spec", "status", "ok"},
              call' = [call EXCEPT ![t] = c]
       PROVE  Quiet
  <2>1. \A u \in Callers : call'[u] = call[u]
                          \/ call'[u].step \notin {"spec", "status", "ok"}
    BY <1>0, <1>12 DEF TypeOK
  <2>2. \A s \in Sessions : lease'.owner = s => lease.owner = s
    BY <1>12, NamesDiffer
  <2> QED BY <1>0, <1>12, <2>1, <2>2, QuietIf
<1>13. ASSUME OffDone PROVE Quiet
  <2>1. PICK c : /\ call' = [call EXCEPT !["off"] = c]
                 /\ c = IF call["off"].step = "error"
                          THEN StartCall(call["off"].by, call["off"].epoch)
                          ELSE Idle
    BY <1>13 DEF OffDone
  <2>2. c.step \in {"get", "idle"}
    BY <2>1 DEF StartCall, Idle
  <2> QED BY <1>12, <1>13, <2>1, <2>2 DEF OffDone
<1>14. ASSUME Project \/ ProjectDone PROVE Quiet
  BY <1>12, <1>14 DEF Project, ProjectDone, StartCall, Idle
<1>15. ASSUME Evict PROVE Quiet
  BY <1>12, <1>15 DEF Evict, StartCall, Idle
<1>16. ASSUME NEW from, NEW next \in {"match", "remove", "idle"},
              EvictStep(from, next)
       PROVE  Quiet
  <2>1. call["evict"] \in Call
    BY <1>0, CallTypeOf
  <2>2. [call["evict"] EXCEPT !.step = next].step = next
    BY <2>1 DEF Call
  <2> QED BY <1>12, <1>16, <2>2 DEF EvictStep, Idle
<1>17. ASSUME EvictRefused \/ EvictLocate \/ EvictMatch \/ EvictRemove
       PROVE  Quiet
  BY <1>16, <1>17 DEF EvictRefused, EvictLocate, EvictMatch, EvictRemove
<1>18. ASSUME SweepAcquire PROVE Quiet
  BY <1>12, <1>18 DEF SweepAcquire, Grant, StartCall, Idle
<1>19. ASSUME SweepDone PROVE Quiet
  <2>1. lease'.owner \in {lease.owner, None}
    BY <1>0, <1>19 DEF SweepDone, TypeOK
  <2> QED BY <1>12, <1>19, <2>1 DEF SweepDone, Idle
<1>20. ASSUME Crash PROVE Quiet
  <2>1. res' = res /\ late' \subseteq Pending /\ lease'.owner = lease.owner
    BY <1>0, <1>20 DEF Crash, TypeOK
  <2>2. \A u \in Callers : call'[u] = call[u] \/ call'[u].step = "idle"
    BY <1>20 DEF Crash, Idle
  <2>3. \A u \in Sessions : /\ sess'[u].epoch = sess[u].epoch
                            /\ sess'[u].st = "live" => sess[u].st = "live"
    BY <1>0, <1>20 DEF Crash, TypeOK
  <2> QED BY <2>1, <2>2, <2>3, QuietIf
<1> QED
  BY <1>1, <1>2, <1>3, <1>4, <1>5, <1>7, <1>8, <1>9, <1>10, <1>11, <1>13,
     <1>14, <1>15, <1>17, <1>18, <1>19, <1>20
  DEF Next

\* The status a call decides on keeps showing an acknowledged owner: of the
\* calls that replace a status, a registration has a later fence only if it is
\* the owner's, mark_offline is about a session that is over or fenced out, and
\* the two others keep what is shown.
LEMMA DecideShows ==
  ASSUME IInv, NEW t \in Callers, call[t].step \in {"get", "spec"},
         NEW r \in Resource, Decide(t, call[t], r).step = "status",
         NEW s \in Sessions, Acknowledged(s), Shows(r, s)
  PROVE  Shows(Decide(t, call[t], r).want, s)
<1> DEFINE c == call[t]
           new == Transition(t, c, r.status)
           w == Decide(t, c, r).want
<1>0. TypeOK /\ EpochsInOrder /\ CallsCarryFences
  BY DEF IInv
<1>1. c \in Call
  BY <1>0, CallTypeOf
<1>2. new /= None /\ w = [spec |-> r.spec, status |-> new]
  BY <1>1, DecideKeeps
<1>3. r.status \in Status /\ r.status /= None
  BY DEF Resource, Shows
<1>4. w.status = new /\ w.spec = r.spec
  BY <1>2
<1>5. w /= None
  <2>1. w \in Resource
    BY <1>1, DecideFollows
  <2> QED BY <2>1, NoneIsNoResource
<1>6. /\ r.status.epoch = sess[s].epoch
      /\ r.status.evicted \/ (r.status.phase = "Online" /\ r.status.session = s)
      /\ sess[s].epoch = lease.epoch /\ lease.owner = s /\ sess[s].st /= "new"
      /\ sess[s].st = "live" \/ call[s].step = "ok"
      /\ lease.epoch \in Nat /\ c.epoch \in Nat
  BY <1>0, <1>1 DEF Shows, Acknowledged, EpochsInOrder, TypeOK, Call
<1>7. CASE t \in Sessions
  <2>1. new = Registered(c, r.status)
    BY <1>7, NamesDiffer DEF Transition
  <2>2. c.epoch = sess[t].epoch /\ sess[t].epoch <= lease.epoch
    BY <1>0, <1>7 DEF CallsCarryFences, EpochsInOrder
  <2>3. r.status.epoch >= c.epoch
    BY <1>6, <2>2
  <2> QED BY <1>2, <1>3, <2>1, <2>3 DEF Registered
<1>8. CASE t \in {"off", "sweep"}
  <2>1. new = MarkedOffline(c, r.status)
    BY <1>8, NamesDiffer DEF Transition
  <2>2. ~NotCurrent(c, r.status)
    BY <1>2, <1>3, <2>1 DEF MarkedOffline
  <2>3. ~r.status.evicted /\ c.epoch >= lease.epoch
    BY <1>3, <1>6, <2>2 DEF NotCurrent, Status
  <2>4. c.epoch = lease.epoch => c.by = s
    BY <1>3, <1>6, <2>2 DEF NotCurrent
  <2>5. CASE t = "off"
    <3>1. /\ c.by \in Sessions /\ sess[c.by].st = "ended"
          /\ c.epoch = sess[c.by].epoch /\ sess[c.by].epoch <= lease.epoch
      BY <1>0, <2>5 DEF CallsCarryFences, EpochsInOrder
    <3>2. c.by = s
      BY <1>6, <2>3, <2>4, <3>1
    <3>3. call[s].step /= "ok"
      BY <1>0, <3>1, <3>2 DEF CallsCarryFences
    <3> QED BY <1>6, <3>1, <3>2, <3>3
  <2>6. CASE t = "sweep"
    BY <1>0, <1>6, <2>3, <2>6 DEF CallsCarryFences
  <2> QED BY <1>8, <2>5, <2>6
<1>9. CASE t = "run"
  <2>1. new = Projected(c, r.status)
    BY <1>9, NamesDiffer DEF Transition
  <2>2. new = [r.status EXCEPT !.data = Merge(@, c.data)]
    BY <1>2, <2>1 DEF Projected
  <2>3. /\ new.epoch = r.status.epoch /\ new.evicted = r.status.evicted
        /\ new.phase = r.status.phase /\ new.session = r.status.session
    BY <1>3, <2>2 DEF Status
  <2> QED BY <1>2, <1>4, <1>5, <1>6, <2>3 DEF Shows
<1>10. CASE t = "evict"
  <2>1. new = Evicted(r.status)
    BY <1>10, NamesDiffer DEF Transition
  <2>2. new.epoch = r.status.epoch /\ new.evicted
    BY <1>2, <1>3, <2>1 DEF Evicted, Status
  <2> QED BY <1>2, <1>4, <1>5, <1>6, <2>2 DEF Shows
<1> QED BY <1>7, <1>8, <1>9, <1>10 DEF Callers

-----------------------------------------------------------------------------
(***************************************************************************)
(* The remaining parts of the invariant                                    *)
(***************************************************************************)

LEMMA FollowsStep ==
  ASSUME IInv, [Next]_vars
  PROVE  PendingFollows'
<1>0. TypeOK /\ PendingFollows
  BY DEF IInv
<1>1. ASSUME Quiet PROVE PendingFollows'
  BY <1>0, <1>1 DEF Quiet, PendingFollows, Follows
<1>2. ASSUME NEW t \in Callers, Get(t) PROVE PendingFollows'
  <2> DEFINE c == call[t]
             w == call'[t].want
  <2>1. /\ res' = res
        /\ Pending' \subseteq Pending \cup {v \in {w} : Writing(call'[t])}
    BY <1>0, <1>2, GetPending DEF Get
  <2>2. c \in Call /\ res \in Resource \cup {None}
    BY <1>0, CallTypeOf DEF TypeOK
  <2>3. ASSUME Writing(call'[t]) PROVE w \in Resource /\ Follows(res, w)
    <3>1. CASE res = None
      <4>1. w = [spec |-> SpecOf(t), status |-> None]
        BY <1>0, <1>2, <2>2, <2>3, <3>1 DEF Get, TypeOK, Writing, Call
      <4> QED BY <3>1, <4>1 DEF Resource, Specs, SpecOf, Follows
    <3>2. CASE res /= None /\ HasSpec(t)
      <4>1. call'[t] = Decide(t, c, res)
        BY <1>0, <1>2, <3>2 DEF Get, TypeOK
      <4>2. res \in Resource
        BY <2>2, <3>2
      <4>3. call'[t].step = "status"
        BY <2>2, <2>3, <4>1, <4>2, DecideKeeps DEF Writing
      <4> QED BY <2>2, <4>1, <4>2, <4>3, DecideFollows
    <3>3. CASE res /= None /\ ~HasSpec(t)
      <4>1. w = [res EXCEPT !.spec = SpecOf(t)]
        BY <1>0, <1>2, <2>2, <3>3 DEF Get, TypeOK, Call
      <4>2. res \in Resource /\ SpecOf(t) \in Specs
        BY <2>2, <3>3 DEF SpecOf, Specs
      <4>3. w \in Resource /\ w.status = res.status
        BY <4>1, <4>2 DEF Resource
      <4>4. res.status \in Status \cup {None}
        BY <4>2 DEF Resource
      <4> QED BY <4>3, <4>4 DEF Follows, Status
    <3> QED BY <3>1, <3>2, <3>3
  <2> QED BY <1>0, <2>1, <2>3 DEF PendingFollows, Follows
<1>3. ASSUME NEW t \in Callers, Commit(t) PROVE PendingFollows'
  <2> DEFINE c == call[t]
             d == Decide(t, c, c.want)
  <2>1. c \in Call /\ c.want \in Resource /\ res' = c.want
    BY <1>0, <1>3, CallTypeOf, WantIsResource DEF Commit
  <2>2. ASSUME NEW w \in Pending' PROVE w = d.want /\ d.step = "status"
    BY <1>0, <1>3, <2>2, CommitPending
  <2>3. ASSUME d.step = "status" PROVE d.want \in Resource /\ Follows(c.want, d.want)
    BY <2>1, <2>3, DecideFollows
  <2> QED BY <2>1, <2>2, <2>3 DEF PendingFollows, Follows
<1>4. ASSUME CommitLate PROVE PendingFollows'
  BY <1>0, <1>4, CommitLatePending DEF PendingFollows
<1> QED BY <1>1, <1>2, <1>3, <1>4, QuietStep

\* A registration's status is the one Registered builds.
LEMMA DecideRegisters ==
  ASSUME IInv, NEW s \in Sessions, call[s].step \in {"get", "spec"},
         NEW r \in Resource, Decide(s, call[s], r).step = "status"
  PROVE  Shows(Decide(s, call[s], r).want, s)
<1> DEFINE c == call[s]
           new == Transition(s, c, r.status)
           w == Decide(s, c, r).want
<1>0. TypeOK /\ CallsCarryFences /\ s \in Callers
  BY DEF IInv, Callers
<1>1. c \in Call
  BY <1>0, CallTypeOf
<1>2. new /= None /\ w = [spec |-> r.spec, status |-> new] /\ w \in Resource
  BY <1>0, <1>1, DecideKeeps, DecideFollows
<1>3. w.status = new /\ w /= None
  BY <1>2, NoneIsNoResource
<1>4. new = Registered(c, r.status)
  BY NamesDiffer DEF Transition
<1>5. c.by = s /\ c.epoch = sess[s].epoch
  BY <1>0 DEF CallsCarryFences
<1>6. new.phase = "Online" /\ new.session = s /\ new.epoch = sess[s].epoch
  BY <1>2, <1>4, <1>5 DEF Registered
<1> QED BY <1>2, <1>3, <1>6 DEF Shows

LEMMA RegistrationStep ==
  ASSUME IInv, [Next]_vars
  PROVE  RegistrationShows'
<1>0. TypeOK /\ PendingFollows /\ RegistrationShows /\ Sessions \subseteq Callers
  BY DEF IInv, Callers
<1>1. ASSUME Quiet PROVE RegistrationShows'
  BY <1>0, <1>1 DEF Quiet, RegistrationShows, Shows
<1>2. ASSUME NEW t \in Callers, Get(t) PROVE RegistrationShows'
  <2>1. /\ UNCHANGED sess /\ \A u \in Callers \ {t} : call'[u] = call[u]
    BY <1>0, <1>2 DEF Get, TypeOK
  <2>2. ASSUME t \in Sessions, call'[t].step = "status"
        PROVE  Shows(call'[t].want, t)
    <3>1. call[t] \in Call /\ call[t].step = "get"
      BY <1>0, <1>2, CallTypeOf DEF Get
    <3>2. res \in Resource /\ call'[t] = Decide(t, call[t], res)
      BY <1>0, <1>2, <2>2, <3>1 DEF Get, TypeOK, Call
    <3> QED BY <2>2, <3>1, <3>2, DecideRegisters
  <2> QED BY <1>0, <2>1, <2>2 DEF RegistrationShows, Shows
<1>3. ASSUME NEW t \in Callers, Commit(t) PROVE RegistrationShows'
  <2>1. UNCHANGED sess /\ Outdated(call) \in [Callers -> Call]
    BY <1>0, <1>3, OutdatedType DEF Commit
  <2>2. ASSUME NEW s \in Sessions, s /= t, call'[s].step = "status"
        PROVE  Shows(call'[s].want, s)
    <3>1. call[s] \in Call
      BY <1>0, CallTypeOf
    <3>2. call'[s] = [call[s] EXCEPT !.fresh = FALSE]
      BY <1>0, <1>3, <2>1, <2>2 DEF Commit, Outdated
    <3>3. call'[s].step = call[s].step /\ call'[s].want = call[s].want
      BY <3>1, <3>2 DEF Call
    <3> QED BY <1>0, <2>2, <3>3 DEF RegistrationShows
  <2>3. ASSUME t \in Sessions, call'[t].step = "status"
        PROVE  Shows(call'[t].want, t)
    <3>1. call[t] \in Call /\ call[t].want \in Resource
      BY <1>0, <1>3, CallTypeOf, WantIsResource DEF Commit
    <3>2. call[t].step = "spec" /\ call'[t] = Decide(t, call[t], call[t].want)
      BY <1>3, <2>1, <2>3, <3>1 DEF Commit, Writing, Call
    <3> QED BY <2>3, <3>1, <3>2, DecideRegisters
  <2> QED BY <2>1, <2>2, <2>3 DEF RegistrationShows, Shows
<1>4. ASSUME CommitLate PROVE RegistrationShows'
  <2>1. ASSUME NEW s \in Sessions
        PROVE  call'[s].step = call[s].step /\ call'[s].want = call[s].want
    <3>1. call[s] \in Call
      BY <1>0, CallTypeOf
    <3>2. call'[s] = [call[s] EXCEPT !.fresh = FALSE]
      BY <1>0, <1>4 DEF CommitLate, Outdated
    <3> QED BY <3>1, <3>2 DEF Call
  <2>2. UNCHANGED sess
    BY <1>4 DEF CommitLate
  <2> QED BY <1>0, <2>1, <2>2 DEF RegistrationShows, Shows
<1> QED BY <1>1, <1>2, <1>3, <1>4, QuietStep

\* Reading the resource acknowledges nobody.
LEMMA GetAcknowledges ==
  ASSUME IInv, NEW s \in Sessions, Acknowledged(s)', NEW t \in Callers, Get(t)
  PROVE  Acknowledged(s)
<1>0. /\ TypeOK /\ PendingFollows /\ s \in Callers /\ call[s] \in Call
  BY CallTypeOf DEF IInv, Callers
<1>1. UNCHANGED << lease, sess >>
  BY DEF Get
<1>2. CASE t /= s
  <2>1. call'[s] = call[s]
    BY <1>0, <1>2 DEF Get, TypeOK
  <2> QED BY <1>1, <2>1 DEF Acknowledged
<1>3. CASE t = s
  <2>1. call'[s].step /= "ok"
    <3>1. res \in Resource => Decide(s, call[s], res).step \in {"stale", "status"}
      BY <1>0, DecideKeeps
    <3> QED BY <1>0, <1>3, <3>1 DEF Get, TypeOK, Call
  <2> QED BY <1>1, <2>1 DEF Acknowledged
<1> QED BY <1>2, <1>3

\* A write keeps the acknowledged sessions, and acknowledges one only if it is
\* the status of its registration.
LEMMA CommitAcknowledges ==
  ASSUME IInv, NEW s \in Sessions, Acknowledged(s)',
         \/ CommitLate
         \/ \E t \in Callers : Commit(t)
  PROVE  \/ Acknowledged(s)
         \/ Commit(s) /\ call[s].step = "status"
<1>0. /\ TypeOK /\ PendingFollows /\ s \in Callers /\ call[s] \in Call
  BY CallTypeOf DEF IInv, Callers
<1>1. CASE CommitLate
  <2>1. call'[s] = [call[s] EXCEPT !.fresh = FALSE] /\ UNCHANGED << lease, sess >>
    BY <1>0, <1>1 DEF CommitLate, Outdated
  <2>2. call'[s].step = call[s].step
    BY <1>0, <2>1 DEF Call
  <2> QED BY <2>1, <2>2 DEF Acknowledged
<1>2. ASSUME NEW t \in Callers, Commit(t), ~(t = s /\ call[s].step = "status")
      PROVE  Acknowledged(s)
  <2>1. UNCHANGED << lease, sess >> /\ Outdated(call) \in [Callers -> Call]
    BY <1>0, <1>2, OutdatedType DEF Commit
  <2>2. CASE t /= s
    <3>1. call'[s] = [call[s] EXCEPT !.fresh = FALSE]
      BY <1>0, <1>2, <2>1, <2>2 DEF Commit, Outdated
    <3>2. call'[s].step = call[s].step
      BY <1>0, <3>1 DEF Call
    <3> QED BY <2>1, <3>2 DEF Acknowledged
  <2>3. CASE t = s
    <3>1. call[s].step = "spec" /\ call[s].want \in Resource
      BY <1>0, <1>2, <2>3, WantIsResource DEF Commit, Writing
    <3>2. call'[s] = Decide(s, call[s], call[s].want)
      BY <1>0, <1>2, <2>1, <2>3, <3>1 DEF Commit
    <3>3. call'[s].step /= "ok"
      BY <1>0, <3>1, <3>2, DecideKeeps
    <3> QED BY <2>1, <3>3 DEF Acknowledged
  <2> QED BY <2>2, <2>3
<1> QED BY <1>1, <1>2

LEMMA ShowsStep ==
  ASSUME IInv, [Next]_vars
  PROVE  PendingShows'
<1>0. /\ TypeOK /\ PendingFollows /\ PendingShows /\ RegistrationShows
      /\ Sessions \subseteq Callers
  BY DEF IInv, Callers
<1>1. ASSUME Quiet PROVE PendingShows'
  BY <1>0, <1>1 DEF Quiet, PendingShows, Shows
<1>2. ASSUME UNCHANGED sess,
             \A s \in Sessions : Acknowledged(s)' =>
               Shows(res', s) /\ \A w \in Pending' : Shows(w, s)
      PROVE  PendingShows'
  BY <1>2 DEF PendingShows, Shows
<1>3. ASSUME NEW t \in Callers, Get(t) PROVE PendingShows'
  <2> DEFINE c == call[t]
             w == call'[t].want
  <2>1. /\ UNCHANGED << res, sess >>
        /\ Pending' \subseteq Pending \cup {v \in {w} : Writing(call'[t])}
    BY <1>0, <1>3, GetPending DEF Get
  <2>2. c \in Call /\ c.step = "get"
    BY <1>0, <1>3, CallTypeOf DEF Get
  <2>3. ASSUME NEW s \in Sessions, Acknowledged(s)'
        PROVE  Shows(res', s) /\ \A v \in Pending' : Shows(v, s)
    <3>1. Acknowledged(s)
      BY <1>3, <2>3, GetAcknowledges
    <3>2. Shows(res, s) /\ \A v \in Pending : Shows(v, s)
      BY <1>0, <3>1 DEF PendingShows
    <3>3. res \in Resource
      BY <1>0, <3>2 DEF TypeOK, Shows
    <3>4. ASSUME Writing(call'[t]) PROVE Shows(w, s)
      <4>1. CASE HasSpec(t)
        <5>1. call'[t] = Decide(t, c, res)
          BY <1>0, <1>3, <3>2, <4>1 DEF Get, TypeOK, Shows
        <5>2. Decide(t, c, res).step = "status"
          BY <2>2, <3>3, <3>4, <5>1, DecideKeeps DEF Writing
        <5> QED BY <2>2, <3>1, <3>2, <3>3, <5>1, <5>2, DecideShows
      <4>2. CASE ~HasSpec(t)
        <5>1. w = [res EXCEPT !.spec = SpecOf(t)]
          BY <1>0, <1>3, <2>2, <3>2, <4>2 DEF Get, TypeOK, Call, Shows
        <5>2. SpecOf(t) \in Specs
          BY DEF SpecOf, Specs
        <5>3. w \in Resource /\ w.status = res.status
          BY <3>3, <5>1, <5>2 DEF Resource
        <5> QED BY <3>2, <5>3, NoneIsNoResource DEF Shows
      <4> QED BY <4>1, <4>2
    <3> QED BY <2>1, <3>2, <3>4
  <2> QED BY <1>2, <2>1, <2>3
<1>4. ASSUME NEW t \in Callers, Commit(t) PROVE PendingShows'
  <2> DEFINE c == call[t]
             d == Decide(t, c, c.want)
  <2>1. /\ c \in Call /\ c.want \in Resource /\ c.want \in Pending
        /\ res' = c.want /\ UNCHANGED sess
    BY <1>0, <1>4, CallTypeOf, WantIsResource DEF Commit
  <2>2. ASSUME NEW w \in Pending'
        PROVE  c.step = "spec" /\ w = d.want /\ d.step = "status"
    BY <1>0, <1>4, <2>2, CommitPending
  <2>3. ASSUME NEW s \in Sessions, Acknowledged(s)'
        PROVE  Shows(res', s) /\ \A w \in Pending' : Shows(w, s)
    <3>1. CASE Acknowledged(s)
      <4>1. Shows(c.want, s)
        BY <1>0, <2>1, <3>1 DEF PendingShows
      <4>2. ASSUME NEW w \in Pending' PROVE Shows(w, s)
        BY <2>1, <2>2, <3>1, <4>1, <4>2, DecideShows
      <4> QED BY <2>1, <4>1, <4>2
    <3>2. CASE ~Acknowledged(s)
      <4>1. Commit(s) /\ call[s].step = "status"
        BY <1>4, <2>3, <3>2, CommitAcknowledges
      <4>2. call'[s] = [call[s] EXCEPT !.step = "ok", !.want = None, !.fresh = FALSE]
        BY <1>0, <4>1, OutdatedType DEF Commit
      <4>3. res' = call[s].want /\ Shows(call[s].want, s)
        BY <1>0, <4>1 DEF Commit, RegistrationShows
      <4>4. Pending' = {}
        BY <1>0, <4>1, CommitPending
      <4> QED BY <4>3, <4>4
    <3> QED BY <3>1, <3>2
  <2> QED BY <1>2, <2>1, <2>3
<1>5. ASSUME CommitLate PROVE PendingShows'
  <2>1. UNCHANGED sess /\ res' \in Pending /\ Pending' = {}
    BY <1>0, <1>5, CommitLatePending DEF CommitLate, Pending
  <2>2. ASSUME NEW s \in Sessions, Acknowledged(s)' PROVE Shows(res', s)
    <3>1. Acknowledged(s)
      <4>1. call[s] \in Call /\ call'[s] = [call[s] EXCEPT !.fresh = FALSE]
        BY <1>0, <1>5, CallTypeOf DEF CommitLate, Outdated
      <4>2. call'[s].step = call[s].step /\ UNCHANGED << lease, sess >>
        BY <1>5, <4>1 DEF Call, CommitLate
      <4> QED BY <2>2, <4>2 DEF Acknowledged
    <3> QED BY <1>0, <2>1, <3>1 DEF PendingShows
  <2> QED BY <1>2, <2>1, <2>2
<1> QED BY <1>1, <1>3, <1>4, <1>5, QuietStep

-----------------------------------------------------------------------------
(***************************************************************************)
(* Theorems                                                                *)
(***************************************************************************)

\* The invariant holds in every behaviour: Init establishes it and every action
\* keeps it.
THEOREM Invariance == Spec => []IInv
<1>1. Init => IInv
  <2> SUFFICES ASSUME Init PROVE IInv
    OBVIOUS
  <2>1. /\ \A t \in Callers : call[t] = Idle
        /\ \A s \in Sessions : sess[s].st = "new" /\ sess[s].epoch = 0
        /\ \A s \in Sessions : s \in Callers
    BY DEF Init, Callers
  <2>2. TypeOK
    BY IdleType, BoundsAreNat DEF Init, TypeOK
  <2>3. EpochsInOrder
    BY <2>1, NamesDiffer DEF Init, EpochsInOrder
  <2>4. CallsCarryFences /\ RegistrationShows
    BY <2>1 DEF CallsCarryFences, RegistrationShows, Callers, Idle
  <2>5. Pending = {}
    BY <2>1 DEF Init, Pending, Idle, Writing
  <2>6. \A s \in Sessions : ~Acknowledged(s)
    BY <2>1, NamesDiffer DEF Init, Acknowledged
  <2> QED BY <2>2, <2>3, <2>4, <2>5, <2>6 DEF IInv, PendingFollows, PendingShows
<1>2. IInv /\ [Next]_vars => IInv'
  BY TypeStep, EpochsStep, CallsStep, FollowsStep, RegistrationStep, ShowsStep
  DEF IInv
<1> QED BY <1>1, <1>2, PTL DEF Spec

\* Type correctness: the resource, every write that may still reach it, every
\* directory call, the Lease and the projector's slot stay well formed.
THEOREM TypeCorrect == Spec => []TypeOK
<1>1. IInv => TypeOK
  BY DEF IInv
<1> QED BY <1>1, Invariance, PTL

\* The directory shows the owner: whatever writes of the reconciler, the
\* projector, the sweep, an eviction or an abandoned call are under way, the
\* status of a session that has been acknowledged and owns the Lease carries its
\* fence and is online, unless it was evicted.
THEOREM OwnerShown == Spec => []OwnerIsShown
<1>1. IInv => OwnerIsShown
  <2> SUFFICES ASSUME IInv, NEW s \in Sessions, sess[s].st = "live",
                      lease.owner = s
               PROVE  /\ HasStatus
                      /\ res.status.epoch = sess[s].epoch
                      /\ \/ res.status.evicted
                         \/ res.status.phase = "Online" /\ res.status.session = s
    BY DEF OwnerIsShown
  <2>1. Shows(res, s)
    BY DEF IInv, PendingShows, Acknowledged
  <2> QED BY <2>1 DEF Shows, HasStatus
<1> QED BY <1>1, Invariance, PTL

\* The fence of the status never goes back and an eviction is undone only by a
\* registration under a later fence: every write that the API server executes
\* follows the status it replaces.
THEOREM EvictionHolds == Spec => EvictionSticks
<1> DEFINE A == HasStatus =>
         /\ HasStatus'
         /\ res'.status.epoch >= res.status.epoch
         /\ res.status.evicted /\ ~res'.status.evicted =>
              /\ res'.status.phase = "Online"
              /\ res'.status.epoch > res.status.epoch
<1>1. IInv /\ [Next]_vars => [A]_vars
  <2> SUFFICES ASSUME IInv, [Next]_vars, HasStatus
               PROVE  A
    BY DEF A
  <2>0. TypeOK /\ PendingFollows
    BY DEF IInv
  <2>1. res /= None /\ res.status /= None /\ res.status \in Status
    BY <2>0 DEF HasStatus, TypeOK, Resource
  <2>2. ASSUME res' = res PROVE A
    BY <2>1, <2>2 DEF A, HasStatus, Status
  <2>3. ASSUME res' \in Pending PROVE A
    <3>1. res' \in Resource /\ Follows(res, res')
      BY <2>0, <2>3 DEF PendingFollows
    <3>2. res' /= None
      BY <3>1, NoneIsNoResource
    <3> QED BY <2>1, <3>1, <3>2 DEF A, Follows, HasStatus
  <2>4. ASSUME NEW t \in Callers, Commit(t) PROVE res' \in Pending
    BY <2>0, <2>4, WantIsResource DEF Commit
  <2>5. ASSUME CommitLate PROVE res' \in Pending
    BY <2>5 DEF CommitLate, Pending
  <2>6. ASSUME NEW t \in Callers, Get(t) PROVE res' = res
    BY <2>6 DEF Get
  <2> QED BY <2>2, <2>3, <2>4, <2>5, <2>6, QuietStep DEF Quiet
<1> QED BY <1>1, Invariance, PTL DEF Spec, EvictionSticks

-----------------------------------------------------------------------------
(***************************************************************************)
(* Runtime data                                                            *)
(*                                                                         *)
(* What an observation is worth is decided by writes that are still under  *)
(* way, as above: the invariant says of every pending write, not only of   *)
(* the resource, whose data it holds and which observations are in it.     *)
(***************************************************************************)

\* The resource r is shown online for the session s.
OnlineOf(r, s) ==
    /\ r /= None
    /\ r.status /= None
    /\ r.status.phase = "Online" /\ r.status.session = s

\* These data are all of session s.
DataOf(d, s) == \A f \in Fields : d[f] /= None => d[f].by = s

\* An online status is a session's under its fence, not evicted, and holds
\* that session's data only.
WellOnline(r) ==
    (r /= None /\ r.status /= None /\ r.status.phase = "Online") =>
        /\ r.status.session \in Sessions
        /\ sess[r.status.session].st /= "new"
        /\ r.status.epoch = sess[r.status.session].epoch
        /\ ~r.status.evicted
        /\ DataOf(r.status.data, r.status.session)

OnlineIsOwn == WellOnline(res) /\ \A w \in Pending : WellOnline(w)

\* The sessions the projector still deals with.
Heard(s) ==
    \/ s \in passed
    \/ slot /= None /\ slot.by = s
    \/ owed /= None /\ owed.by = s
    \/ call["run"].step /= "idle" /\ call["run"].by = s

\* Sessions whose registration has been written: none of them is registered a
\* second time, so none is shown online again once it is not.
Settled(s) == sess[s].st = "live" \/ call[s].step = "ok" \/ Heard(s)

SettledStays ==
    \A s \in Sessions :
        /\ Heard(s) => sess[s].st \in {"live", "ended"}
        /\ Settled(s) =>
             \A w \in Pending : OnlineOf(w, s) => OnlineOf(res, s)

\* Wherever s is shown online, or is about to be, the field f is v.
Landed(s, f, v) ==
    \A r \in Pending \cup {res} : OnlineOf(r, s) => r.status.data[f] = v

\* The worker projects a copy of the slot, which was completed or replaced
\* since if its generation differs.
WorkerCopies ==
    LET c == call["run"] IN
    c.step /= "idle" =>
        /\ slot /= None
        /\ c.by \in Sessions /\ c.epoch = sess[c.by].epoch
        /\ DataOf(c.data, c.by)
        /\ c.gen <= slot.gen
        /\ c.gen = slot.gen => c.by = slot.by /\ c.data = slot.data
        /\ c.by = slot.by => \A f \in Fields :
             c.data[f] /= None /\ owed.data[f] /= None => slot.data[f] /= None

\* The slot holds a part of what is owed.
SlotIsOwed ==
    slot /= None =>
        /\ owed /= None /\ owed.by = slot.by
        /\ DataOf(slot.data, slot.by)
        /\ \A f \in Fields : slot.data[f] /= None => owed.data[f] = slot.data[f]

\* What is owed is in the slot or has landed.
OwedIsKept ==
    owed /= None => \A f \in Fields :
        owed.data[f] /= None =>
            \/ slot /= None /\ slot.data[f] /= None
            \/ Landed(owed.by, f, owed.data[f])

\* What the worker's call has come to.
WorkerOutcome ==
    LET c == call["run"] IN
    /\ c.step = "status" => \A f \in Fields :
         c.data[f] /= None => c.want.status.data[f] = c.data[f]
    /\ c.step = "ok" => \A f \in Fields :
         c.data[f] /= None => Landed(c.by, f, c.data[f])
    /\ c.step = "stale" => ~OnlineOf(res, c.by)

DataInv == /\ OnlineIsOwn
           /\ SettledStays
           /\ WorkerCopies
           /\ SlotIsOwed
           /\ OwedIsKept
           /\ WorkerOutcome

\* A session that has connected keeps its fence, and one that was acknowledged
\* or refused is never registering again.
LEMMA SessionsKeep ==
  ASSUME IInv, [Next]_vars, NEW s \in Sessions, sess[s].st /= "new"
  PROVE  /\ sess'[s].st /= "new" /\ sess'[s].epoch = sess[s].epoch
         /\ sess[s].st \in {"live", "ended"} => sess'[s].st \in {"live", "ended"}
<1>0. TypeOK
  BY DEF IInv
<1>1. ASSUME NEW u \in Sessions, Connect(u) PROVE sess'[s] = sess[s]
  BY <1>0, <1>1 DEF Connect, TypeOK
<1>2. ASSUME NEW u \in Sessions, NEW st \in {"live", "ended"},
             sess' = [sess EXCEPT ![u].st = st]
      PROVE  /\ sess'[s].st \in {sess[s].st, "live", "ended"}
             /\ sess'[s].epoch = sess[s].epoch
  BY <1>0, <1>2 DEF TypeOK
<1>3. ASSUME NEW u \in Sessions,
             RegisterOk(u) \/ RegisterFailed(u) \/ Disconnect(u) \/ Leave(u)
      PROVE  /\ sess'[s].st \in {sess[s].st, "live", "ended"}
             /\ sess'[s].epoch = sess[s].epoch
  BY <1>2, <1>3 DEF RegisterOk, RegisterFailed, Disconnect, Leave
<1>4. ASSUME Crash
      PROVE  sess'[s].st = "ended" /\ sess'[s].epoch = sess[s].epoch
  BY <1>0, <1>4 DEF Crash, TypeOK
<1>5. ASSUME ~Crash,
             \A u \in Sessions : ~(\/ Connect(u) \/ RegisterOk(u)
                                   \/ RegisterFailed(u) \/ Disconnect(u)
                                   \/ Leave(u))
      PROVE  sess' = sess
  BY <1>5 DEF Next, Get, Commit, Conflict, Fail, CommitLate, Renew, Release,
     Pass, Submit, OffDone, Expire, Lapse, Project, ProjectDone, Evict,
     EvictRefused, EvictLocate, EvictMatch, EvictRemove, EvictStep, SweepList,
     SweepPrune, SweepLocate, SweepAcquire, SweepRefused, SweepDone, vars
<1> QED BY <1>0, <1>1, <1>3, <1>4, <1>5 DEF TypeOK

\* How w may have been made from the resource r: with another spec, or by the
\* decision of a call.
Derived(w, r) ==
    /\ w \in Resource
    /\ \/ w.status = None
       \/ r \in Resource /\ w.status = r.status
       \/ /\ r \in Resource
          /\ \E t \in Callers :
               /\ call[t].step \in {"get", "spec"}
               /\ Decide(t, call[t], r).step = "status"
               /\ w = Decide(t, call[t], r).want

\* Where the resource and the pending writes come from.
LEMMA Origins ==
  ASSUME IInv, [Next]_vars
  PROVE  /\ res' = res \/ res' \in Pending
         /\ \A w \in Pending' : \/ res' = res /\ w \in Pending
                                \/ Derived(w, res')
<1>0. TypeOK /\ PendingFollows
  BY DEF IInv
<1>1. ASSUME Quiet PROVE res' = res /\ Pending' \subseteq Pending
  BY <1>1 DEF Quiet
<1>2. ASSUME NEW t \in Callers, Get(t)
      PROVE  res' = res /\ \A w \in Pending' : w \in Pending \/ Derived(w, res)
  <2> DEFINE c == call[t]
             w == call'[t].want
  <2>1. /\ res' = res
        /\ Pending' \subseteq Pending \cup {v \in {w} : Writing(call'[t])}
    BY <1>0, <1>2, GetPending DEF Get
  <2>2. c \in Call /\ res \in Resource \cup {None} /\ c.step = "get"
    BY <1>0, <1>2, CallTypeOf DEF TypeOK, Get
  <2>3. ASSUME Writing(call'[t]) PROVE Derived(w, res)
    <3>1. CASE res = None
      <4>1. w = [spec |-> SpecOf(t), status |-> None]
        BY <1>0, <1>2, <2>2, <2>3, <3>1 DEF Get, TypeOK, Writing, Call
      <4> QED BY <4>1 DEF Resource, Specs, SpecOf, Derived
    <3>2. CASE res /= None /\ HasSpec(t)
      <4>1. call'[t] = Decide(t, c, res)
        BY <1>0, <1>2, <3>2 DEF Get, TypeOK
      <4>2. res \in Resource
        BY <2>2, <3>2
      <4>3. call'[t].step = "status"
        BY <2>2, <2>3, <4>1, <4>2, DecideKeeps DEF Writing
      <4>4. w \in Resource
        BY <2>2, <4>1, <4>2, <4>3, DecideFollows
      <4> QED BY <2>2, <4>1, <4>2, <4>3, <4>4 DEF Derived
    <3>3. CASE res /= None /\ ~HasSpec(t)
      <4>1. w = [res EXCEPT !.spec = SpecOf(t)]
        BY <1>0, <1>2, <2>2, <3>3 DEF Get, TypeOK, Call
      <4>2. res \in Resource /\ SpecOf(t) \in Specs
        BY <2>2, <3>3 DEF SpecOf, Specs
      <4> QED BY <4>1, <4>2 DEF Resource, Derived
    <3> QED BY <3>1, <3>2, <3>3
  <2> QED BY <2>1, <2>3
<1>3. ASSUME NEW t \in Callers, Commit(t)
      PROVE  res' \in Pending /\ \A w \in Pending' : Derived(w, res')
  <2> DEFINE c == call[t]
             d == Decide(t, c, c.want)
  <2>1. c \in Call /\ c.want \in Pending /\ c.want \in Resource /\ res' = c.want
    BY <1>0, <1>3, CallTypeOf, WantIsResource DEF Commit
  <2>2. ASSUME NEW w \in Pending'
        PROVE  c.step = "spec" /\ w = d.want /\ d.step = "status"
    BY <1>0, <1>3, <2>2, CommitPending
  <2>3. ASSUME d.step = "status" PROVE d.want \in Resource
    BY <2>1, <2>3, DecideFollows
  <2> QED BY <2>1, <2>2, <2>3 DEF Derived
<1>4. ASSUME CommitLate PROVE res' \in Pending /\ Pending' = {}
  BY <1>0, <1>4, CommitLatePending DEF CommitLate, Pending
<1> QED BY <1>1, <1>2, <1>3, <1>4, QuietStep

\* A registration being decided has not been written.
LEMMA SettledIsOver ==
  ASSUME IInv, SettledStays, NEW s \in Sessions, Settled(s)
  PROVE  call[s].step \notin {"get", "spec", "status"}
  BY DEF IInv, CallsCarryFences, SettledStays, Settled

\* Only a registration shows a session online that was not; only the worker
\* adds data to an online status.
LEMMA DerivedOnline ==
  ASSUME IInv, NEW w, NEW r, Derived(w, r), NEW s \in Sessions, OnlineOf(w, s)
  PROVE  \/ /\ OnlineOf(r, s) /\ w.status = r.status
         \/ /\ OnlineOf(r, s) /\ ~r.status.evicted
            /\ call["run"].step \in {"get", "spec"} /\ call["run"].by = s
            /\ w.status = [r.status EXCEPT !.data = Merge(@, call["run"].data)]
         \/ /\ call[s].step \in {"get", "spec"}
            /\ w.status = [phase |-> "Online", session |-> s,
                           epoch |-> sess[s].epoch, data |-> NoData,
                           evicted |-> FALSE]
<1>0. TypeOK /\ CallsCarryFences /\ w \in Resource /\ w.status /= None
  BY DEF IInv, Derived, OnlineOf
<1>1. CASE r \in Resource /\ w.status = r.status
  BY <1>0, <1>1, NoneIsNoResource DEF OnlineOf
<1>2. ASSUME NEW t \in Callers, r \in Resource, call[t].step \in {"get", "spec"},
             Decide(t, call[t], r).step = "status",
             w = Decide(t, call[t], r).want
      PROVE  \/ /\ OnlineOf(r, s) /\ ~r.status.evicted
                /\ call["run"].step \in {"get", "spec"} /\ call["run"].by = s
                /\ w.status = [r.status EXCEPT !.data = Merge(@, call["run"].data)]
             \/ /\ call[s].step \in {"get", "spec"}
                /\ w.status = [phase |-> "Online", session |-> s,
                               epoch |-> sess[s].epoch, data |-> NoData,
                               evicted |-> FALSE]
  <2> DEFINE c == call[t]
  <2>1. c \in Call /\ r.status \in Status \cup {None} /\ r /= None
    BY <1>0, <1>2, CallTypeOf, NoneIsNoResource DEF Resource
  <2>2. w = [spec |-> r.spec, status |-> Transition(t, c, r.status)]
    BY <1>2, <2>1, DecideKeeps
  <2>3. /\ w.status = Transition(t, c, r.status)
        /\ w.status.phase = "Online" /\ w.status.session = s
    BY <2>2 DEF OnlineOf
  <2>4. CASE t \in Sessions
    <3>1. w.status = Registered(c, r.status)
      BY <2>3, <2>4, NamesDiffer DEF Transition
    <3>2. w.status = [phase |-> "Online", session |-> c.by, epoch |-> c.epoch,
                      data |-> NoData, evicted |-> FALSE]
      BY <1>0, <3>1 DEF Registered
    <3>3. c.by = t /\ c.epoch = sess[t].epoch
      BY <1>0, <1>2, <2>4 DEF CallsCarryFences
    <3>4. t = s
      BY <2>3, <3>2, <3>3
    <3> QED BY <1>2, <3>2, <3>3, <3>4
  <2>5. CASE t \in {"off", "sweep"}
    <3>1. w.status = MarkedOffline(c, r.status)
      BY <2>3, <2>5, NamesDiffer DEF Transition
    <3> QED BY <1>0, <2>3, <3>1 DEF MarkedOffline
  <2>6. CASE t = "run"
    <3>1. w.status = Projected(c, r.status)
      BY <2>3, <2>6, NamesDiffer DEF Transition
    <3>2. /\ w.status = [r.status EXCEPT !.data = Merge(@, c.data)]
          /\ r.status /= None /\ r.status.phase = "Online"
          /\ r.status.session = c.by /\ ~r.status.evicted
      BY <1>0, <3>1 DEF Projected
    <3>3. w.status.session = r.status.session
      BY <2>1, <3>2 DEF Status
    <3> QED BY <1>2, <2>1, <2>3, <2>6, <3>2, <3>3 DEF OnlineOf
  <2>7. CASE t = "evict"
    <3>1. w.status = Evicted(r.status)
      BY <2>3, <2>7, NamesDiffer DEF Transition
    <3>2. r.status \in Status
      BY <1>0, <2>1, <3>1 DEF Evicted
    <3>3. w.status.phase = "Offline"
      BY <1>0, <3>1, <3>2 DEF Evicted, Status
    <3> QED BY <2>3, <3>3
  <2> QED BY <2>4, <2>5, <2>6, <2>7 DEF Callers
<1> QED BY <1>0, <1>1, <1>2 DEF Derived

\* Merging keeps the old value of a field or takes the new one.
LEMMA MergeFields ==
  ASSUME NEW old, NEW new, NEW f \in Fields
  PROVE  Merge(old, new)[f] = IF new[f] = None THEN old[f] ELSE new[f]
  BY DEF Merge

\* What has landed stays, unless the worker is about to write another value.
LEMMA LandedStays ==
  ASSUME IInv, SettledStays, [Next]_vars,
         NEW s \in Sessions, Settled(s), NEW f \in Fields, NEW v,
         Landed(s, f, v),
         (call["run"].step \in {"get", "spec"} /\ call["run"].by = s) =>
           call["run"].data[f] \in {None, v}
  PROVE  Landed(s, f, v)'
<1> DEFINE Ok(r) == OnlineOf(r, s) => r.status.data[f] = v
<1>1. \A r \in Pending \cup {res} : Ok(r)
  BY DEF Landed
<1>2. Ok(res')
  BY <1>1, Origins
<1>3. ASSUME NEW w \in Pending' PROVE Ok(w)
  <2>1. CASE w \in Pending
    BY <1>1, <2>1
  <2>2. CASE Derived(w, res') /\ OnlineOf(w, s)
    <3>1. call[s].step \notin {"get", "spec"}
      BY SettledIsOver
    <3>2. CASE OnlineOf(res', s) /\ w.status = res'.status
      BY <1>2, <3>2
    <3>3. CASE /\ OnlineOf(res', s)
               /\ call["run"].step \in {"get", "spec"} /\ call["run"].by = s
               /\ w.status = [res'.status EXCEPT
                                !.data = Merge(@, call["run"].data)]
      <4>1. res' \in Resource /\ res'.status \in Status
        <5>1. TypeOK'
          BY TypeStep
        <5> QED BY <3>3, <5>1 DEF TypeOK, OnlineOf, Resource
      <4>2. w.status.data = Merge(res'.status.data, call["run"].data)
        BY <3>3, <4>1 DEF Status
      <4>3. w.status.data[f] = v
        BY <1>2, <3>3, <4>2, MergeFields
      <4> QED BY <4>3
    <3> QED BY <2>2, <3>1, <3>2, <3>3, DerivedOnline
  <2> QED BY <2>1, <2>2, Origins
<1>4. \A r \in Pending' \cup {res'} : Ok(r)
  BY <1>2, <1>3
<1> QED BY <1>4 DEF Landed, OnlineOf

\* The worker's call goes on with the copy it was started with.
RunKeeps ==
    /\ call'["run"].by = call["run"].by
    /\ call'["run"].epoch = call["run"].epoch
    /\ call'["run"].data = call["run"].data
    /\ call'["run"].gen = call["run"].gen
    /\ call'["run"].step /= "idle" <=> call["run"].step /= "idle"
    /\ \/ /\ call'["run"].step = call["run"].step
          /\ call'["run"].want = call["run"].want
       \/ call'["run"].step \in {"get", "spec", "error"}
       \/ Get("run") \/ Commit("run")

\* The decision of a call keeps the observation it carries.
LEMMA DecideKeepsData ==
  ASSUME NEW t \in Callers, NEW c \in Call, NEW r \in Resource
  PROVE  Decide(t, c, r).data = c.data /\ Decide(t, c, r).gen = c.gen
  BY DEF Decide, Call

LEMMA RunDecides ==
  ASSUME NEW c \in Call, NEW r \in Resource
  PROVE  /\ Decide("run", c, r).by = c.by
         /\ Decide("run", c, r).epoch = c.epoch
         /\ Decide("run", c, r).step \in {"stale", "status"}
<1>1. PICK t \in Callers : t = "run"
  BY DEF Callers
<1>2. t /= "evict"
  BY <1>1
<1>3. /\ Decide(t, c, r).by = c.by
      /\ Decide(t, c, r).epoch = c.epoch
      /\ Decide(t, c, r).step \in {"stale", "status"}
  BY <1>2, DecideKeeps
<1> QED BY <1>1, <1>3

LEMMA RunStep ==
  ASSUME IInv, [Next]_vars, ~Project, ~ProjectDone, ~Crash
  PROVE  RunKeeps
<1> DEFINE c == call["run"]
<1>0. /\ TypeOK /\ PendingFollows /\ "run" \in Callers /\ c \in Call
      /\ \A s \in Sessions : s /= "run"
  BY CallTypeOf, NamesDiffer DEF IInv, Callers
<1>1. CASE call'["run"] = call["run"]
  BY <1>1 DEF RunKeeps
<1>2. ASSUME NEW t \in Callers, t /= "run", Get(t) \/ Conflict(t) \/ Fail(t)
      PROVE  RunKeeps
  BY <1>0, <1>1, <1>2 DEF Get, Conflict, Fail, TypeOK
<1>3. CASE CommitLate \/ \E t \in Callers \ {"run"} : Commit(t)
  <2>1. call'["run"] = [c EXCEPT !.fresh = FALSE]
    BY <1>0, <1>3, OutdatedType DEF CommitLate, Commit, Outdated
  <2> QED BY <1>0, <2>1 DEF RunKeeps, Call
<1>4. CASE Get("run")
  <2>0. c.step = "get"
    BY <1>4 DEF Get
  <2>1. CASE res = None
    <3>1. call'["run"] = [c EXCEPT !.step = "spec", !.fresh = TRUE,
                            !.want = [spec |-> SpecOf("run"), status |-> None]]
      BY <1>0, <1>4, <2>1 DEF Get, TypeOK
    <3> QED BY <1>0, <2>0, <3>1 DEF RunKeeps, Call
  <2>2. CASE res /= None /\ HasSpec("run")
    <3>1. res \in Resource /\ call'["run"] = Decide("run", c, res)
      BY <1>0, <1>4, <2>2 DEF TypeOK, Get
    <3>2. /\ call'["run"].by = c.by /\ call'["run"].epoch = c.epoch
          /\ call'["run"].step \in {"stale", "status"}
      BY <1>0, <3>1, RunDecides
    <3>3. call'["run"].data = c.data /\ call'["run"].gen = c.gen
      BY <1>0, <3>1, DecideKeepsData
    <3> QED
      BY <1>4, <2>0, <3>2, <3>3 DEF RunKeeps
  <2>3. CASE res /= None /\ ~HasSpec("run")
    <3>1. call'["run"] = [c EXCEPT !.step = "spec", !.fresh = TRUE,
                            !.want = [res EXCEPT !.spec = SpecOf("run")]]
      BY <1>0, <1>4, <2>3 DEF Get, TypeOK
    <3> QED BY <1>0, <2>0, <3>1 DEF RunKeeps, Call
  <2> QED BY <2>1, <2>2, <2>3
<1>5. CASE Commit("run")
  <2>0. c.step \in {"spec", "status"} /\ c.want \in Resource
    BY <1>0, <1>5, WantIsResource DEF Commit, Writing
  <2>1. CASE c.step = "spec"
    <3>1. call'["run"] = Decide("run", c, c.want)
      BY <1>0, <1>5, <2>1, OutdatedType DEF Commit
    <3>2. /\ call'["run"].by = c.by /\ call'["run"].epoch = c.epoch
          /\ call'["run"].step \in {"stale", "status"}
      BY <1>0, <2>0, <3>1, RunDecides
    <3>3. call'["run"].data = c.data /\ call'["run"].gen = c.gen
      BY <1>0, <2>0, <3>1, DecideKeepsData
    <3> QED
      BY <1>5, <2>1, <3>2, <3>3 DEF RunKeeps
  <2>2. CASE c.step = "status"
    <3>1. call'["run"] = [c EXCEPT !.step = "ok", !.want = None, !.fresh = FALSE]
      BY <1>0, <1>5, <2>2, OutdatedType DEF Commit
    <3> QED BY <1>0, <1>5, <2>2, <3>1 DEF RunKeeps, Call
  <2> QED BY <2>0, <2>1, <2>2
<1>6. CASE Conflict("run")
  <2>1. PICK step \in {"get", "error"} : call'["run"] =
          [c EXCEPT !.step = step, !.tries = c.tries + 1, !.want = None]
    BY <1>0, <1>6 DEF Conflict, TypeOK
  <2>2. c.step /= "idle"
    BY <1>6 DEF Conflict, Writing
  <2> QED BY <1>0, <2>1, <2>2 DEF RunKeeps, Call
<1>7. CASE Fail("run")
  <2>1. call'["run"] = [c EXCEPT !.step = "error", !.want = None, !.fresh = FALSE]
    BY <1>0, <1>7 DEF Fail, TypeOK
  <2>2. c.step /= "idle"
    BY <1>7 DEF Fail
  <2> QED BY <1>0, <2>1, <2>2 DEF RunKeeps, Call
<1>8. ASSUME NEW s \in Sessions, Connect(s) \/ RegisterOk(s)
      PROVE  call'["run"] = call["run"]
  BY <1>0, <1>8 DEF Connect, RegisterOk, TypeOK
<1>9. ASSUME NEW s \in Sessions, RegisterFailed(s) \/ Disconnect(s)
      PROVE  call'["run"] = call["run"]
  BY <1>0, <1>9 DEF RegisterFailed, Disconnect, Schedule, TypeOK
<1>10. ASSUME NEW s \in Sessions, NEW kind,
              Leave(s) \/ Renew(s) \/ Release(s) \/ Pass(s) \/ Submit(s, kind)
       PROVE  call'["run"] = call["run"]
  BY <1>10 DEF Leave, Renew, Release, Pass, Submit
<1>11. ASSUME OffDone \/ Expire \/ Lapse \/ Evict \/ EvictRefused
              \/ EvictLocate \/ EvictMatch \/ EvictRemove
       PROVE  call'["run"] = call["run"]
  BY <1>0, <1>11 DEF OffDone, Expire, Lapse, Evict, EvictRefused, EvictLocate,
     EvictMatch, EvictRemove, EvictStep, TypeOK
<1>12. ASSUME \/ \E here \in BOOLEAN : SweepList(here)
              \/ SweepPrune \/ SweepLocate \/ SweepAcquire \/ SweepRefused
              \/ SweepDone \/ UNCHANGED vars
       PROVE  call'["run"] = call["run"]
  BY <1>0, <1>12 DEF SweepList, SweepPrune, SweepLocate, SweepAcquire,
     SweepRefused, SweepDone, TypeOK, vars
<1> QED
  BY <1>1, <1>2, <1>3, <1>4, <1>5, <1>6, <1>7, <1>8, <1>9, <1>10, <1>11, <1>12
  DEF Next

\* The slot and what is owed change in the projector's own steps.
LEMMA ProjectorSteps ==
  ASSUME IInv, [Next]_vars
  PROVE  \/ UNCHANGED << slot, owed >> /\ RunKeeps
            /\ \/ passed' = passed
               \/ \E s \in Sessions : sess[s].st = "live" /\ passed' = passed \cup {s}
         \/ \E s \in Sessions, kind \in Fields \cup {"pong"} : Submit(s, kind)
         \/ Project \/ ProjectDone \/ Crash
<1>1. ASSUME ~Project, ~ProjectDone, ~Crash,
             \A s \in Sessions, kind \in Fields \cup {"pong"} : ~Submit(s, kind)
      PROVE  UNCHANGED << slot, owed >>
             /\ \/ passed' = passed
                \/ \E s \in Sessions : sess[s].st = "live" /\ passed' = passed \cup {s}
  BY <1>1 DEF Next, Get, Commit, Conflict, Fail, CommitLate, Connect, RegisterOk,
     RegisterFailed, Disconnect, Leave, Renew, Release, Pass, OffDone, Expire,
     Lapse, Evict, EvictRefused, EvictLocate, EvictMatch, EvictRemove, EvictStep,
     SweepList, SweepPrune, SweepLocate, SweepAcquire, SweepRefused, SweepDone,
     vars
<1> QED BY <1>1, RunStep

\* A session becomes live after its registration was written.
LEMMA LiveOrOk ==
  ASSUME IInv, [Next]_vars, NEW s \in Sessions,
         sess'[s].st = "live" \/ call'[s].step = "ok"
  PROVE  \/ sess[s].st = "live" \/ call[s].step = "ok"
         \/ Commit(s) /\ call[s].step = "status"
<1>0. /\ TypeOK /\ PendingFollows /\ s \in Callers /\ call[s] \in Call
      /\ s \notin {"off", "run", "evict", "sweep"}
  BY CallTypeOf, NamesDiffer DEF IInv, Callers
<1>1. ASSUME NEW t \in Callers, Get(t)
      PROVE  sess' = sess /\ (call'[s].step = "ok" => call[s].step = "ok")
  <2>1. res \in Resource => Decide(s, call[s], res).step \in {"stale", "status"}
    BY <1>0, DecideKeeps
  <2> QED BY <1>0, <1>1, <2>1 DEF Get, TypeOK, Call
<1>2. ASSUME NEW t \in Callers, Conflict(t) \/ Fail(t)
      PROVE  sess' = sess /\ (call'[s].step = "ok" => call[s].step = "ok")
  <2>0. sess' = sess
    BY <1>2 DEF Conflict, Fail
  <2>1. CASE t /= s
    <3>1. call'[s] = call[s]
      BY <1>0, <1>2, <2>1 DEF Conflict, Fail, TypeOK
    <3> QED BY <2>0, <3>1
  <2>2. CASE t = s /\ Conflict(t)
    <3>1. PICK step \in {"get", "error"} : call'[s] =
            [call[s] EXCEPT !.step = step, !.tries = call[s].tries + 1, !.want = None]
      BY <1>0, <2>2 DEF Conflict, TypeOK
    <3> QED BY <1>0, <2>0, <3>1 DEF Call
  <2>3. CASE t = s /\ Fail(t)
    <3>1. call'[s] = [call[s] EXCEPT !.step = "error", !.want = None, !.fresh = FALSE]
      BY <1>0, <2>3 DEF Fail, TypeOK
    <3> QED BY <1>0, <2>0, <3>1 DEF Call
  <2> QED BY <1>2, <2>1, <2>2, <2>3
<1>3. ASSUME CommitLate \/ \E t \in Callers \ {s} : Commit(t)
      PROVE  sess' = sess /\ call'[s].step = call[s].step
  <2>1. sess' = sess /\ call'[s] = [call[s] EXCEPT !.fresh = FALSE]
    BY <1>0, <1>3, OutdatedType DEF CommitLate, Commit, Outdated
  <2> QED BY <1>0, <2>1 DEF Call
<1>4. ASSUME Commit(s), call[s].step /= "status"
      PROVE  sess' = sess /\ call'[s].step /= "ok"
  <2>1. call[s].step = "spec" /\ call[s].want \in Resource
    BY <1>0, <1>4, WantIsResource DEF Commit, Writing
  <2>2. call'[s] = Decide(s, call[s], call[s].want) /\ sess' = sess
    BY <1>0, <1>4, <2>1, OutdatedType DEF Commit
  <2> QED BY <1>0, <2>1, <2>2, DecideKeeps
<1>5. ASSUME NEW u \in Sessions, Connect(u) \/ RegisterOk(u)
      PROVE  sess[s].st = "live" \/ call[s].step = "ok"
  <2>1. CASE u /= s
    <3>1. call'[s] = call[s] /\ sess'[s] = sess[s]
      BY <1>0, <1>5, <2>1 DEF Connect, RegisterOk, TypeOK
    <3> QED BY <3>1
  <2>2. CASE u = s /\ Connect(s)
    <3>1. /\ sess'[s].st = "registering"
          /\ call'[s] = StartCall(s, lease.epoch + 1)
      BY <1>0, <2>2 DEF Connect, TypeOK
    <3>2. call'[s].step = "get"
      BY <3>1 DEF StartCall, Idle
    <3> QED BY <3>1, <3>2
  <2>3. CASE u = s /\ RegisterOk(s)
    BY <2>3 DEF RegisterOk
  <2> QED BY <1>5, <2>1, <2>2, <2>3
<1>6. ASSUME NEW u \in Sessions, RegisterFailed(u) \/ Disconnect(u) \/ Leave(u)
      PROVE  sess[s].st = "live" \/ call[s].step = "ok"
  <2>1. sess'[s].st = "live" => sess[s].st = "live"
    BY <1>0, <1>6 DEF RegisterFailed, Disconnect, Leave, TypeOK
  <2>2. call'[s].step = "ok" => call[s].step = "ok"
    BY <1>0, <1>6
    DEF RegisterFailed, Disconnect, Leave, Schedule, TypeOK, Idle, StartCall
  <2> QED BY <2>1, <2>2
<1>7. ASSUME NEW u \in Sessions, NEW kind,
             Renew(u) \/ Release(u) \/ Pass(u) \/ Submit(u, kind)
      PROVE  sess' = sess /\ call'[s] = call[s]
  BY <1>7 DEF Renew, Release, Pass, Submit
<1>8. ASSUME OffDone \/ Expire \/ Lapse \/ Project \/ ProjectDone \/ Evict
             \/ EvictRefused \/ EvictLocate \/ EvictMatch \/ EvictRemove
      PROVE  sess' = sess /\ call'[s] = call[s]
  BY <1>0, <1>8 DEF OffDone, Expire, Lapse, Project, ProjectDone, Evict,
     EvictRefused, EvictLocate, EvictMatch, EvictRemove, EvictStep, TypeOK
<1>9. ASSUME \/ \E here \in BOOLEAN : SweepList(here)
             \/ SweepPrune \/ SweepLocate \/ SweepAcquire \/ SweepRefused
             \/ SweepDone \/ UNCHANGED vars
      PROVE  sess' = sess /\ call'[s] = call[s]
  BY <1>0, <1>9 DEF SweepList, SweepPrune, SweepLocate, SweepAcquire,
     SweepRefused, SweepDone, TypeOK, vars
<1>10. ASSUME Crash PROVE FALSE
  BY <1>0, <1>10 DEF Crash, TypeOK, Idle
<1> QED
  BY <1>1, <1>2, <1>3, <1>4, <1>5, <1>6, <1>7, <1>8, <1>9, <1>10 DEF Next

\* The projector hears of a session while it is live.
LEMMA HeardFrom ==
  ASSUME IInv, [Next]_vars, NEW s \in Sessions, Heard(s)'
  PROVE  Heard(s) \/ sess[s].st = "live"
<1>0. TypeOK
  BY DEF IInv
<1>1. CASE /\ UNCHANGED << slot, owed >> /\ RunKeeps
           /\ \/ passed' = passed
              \/ \E u \in Sessions : sess[u].st = "live" /\ passed' = passed \cup {u}
  BY <1>1 DEF Heard, RunKeeps
<1>2. ASSUME NEW u \in Sessions, NEW kind, Submit(u, kind)
      PROVE  Heard(s)
  <2>1. u \in passed /\ passed' \subseteq passed /\ call' = call /\ owed'.by = u
    BY <1>2 DEF Submit
  <2>2. slot'.by = u
    BY <1>2 DEF Submit, Slot
  <2> QED BY <2>1, <2>2 DEF Heard
<1>3. CASE Project
  <2>1. /\ slot /= None /\ UNCHANGED << slot, owed, passed >>
        /\ call'["run"].by = slot.by
    BY <1>0, <1>3 DEF Project, StartCall, Idle, TypeOK, Callers
  <2> QED BY <2>1 DEF Heard
<1>4. CASE ProjectDone
  <2>1. /\ call'["run"].step = "idle" /\ UNCHANGED << owed, passed >>
        /\ slot' \in {slot, None}
    BY <1>0, <1>4 DEF ProjectDone, Idle, TypeOK, Callers
  <2> QED BY <2>1 DEF Heard
<1>5. CASE Crash
  <2>1. slot' = None /\ owed' = None /\ passed' = {}
    BY <1>5 DEF Crash
  <2>2. call'["run"].step = "idle"
    BY <1>0, <1>5 DEF Crash, Idle, Callers
  <2> QED BY <2>1, <2>2 DEF Heard
<1> QED BY <1>1, <1>2, <1>3, <1>4, <1>5, ProjectorSteps

LEMMA SettledStep ==
  ASSUME IInv, SettledStays, [Next]_vars
  PROVE  SettledStays'
<1>1. ASSUME NEW s \in Sessions, Heard(s)' PROVE sess'[s].st \in {"live", "ended"}
  <2>1. sess[s].st \in {"live", "ended"}
    BY <1>1, HeardFrom DEF SettledStays
  <2> QED BY <2>1, SessionsKeep
<1>2. ASSUME NEW s \in Sessions, Settled(s)', NEW w \in Pending', OnlineOf(w, s)
      PROVE  OnlineOf(res', s)
  <2>1. CASE Settled(s)
    <3>1. call[s].step \notin {"get", "spec"}
      BY <2>1, SettledIsOver
    <3>2. CASE res' = res /\ w \in Pending
      BY <1>2, <2>1, <3>2 DEF SettledStays
    <3>3. CASE Derived(w, res')
      BY <1>2, <3>1, <3>3, DerivedOnline
    <3> QED BY <3>2, <3>3, Origins
  <2>2. CASE ~Settled(s)
    <3>1. Commit(s) /\ call[s].step = "status"
      BY <1>2, <2>2, LiveOrOk, HeardFrom DEF Settled
    <3>2. Pending' = {}
      BY <3>1, CommitPending DEF IInv, Callers
    <3> QED BY <3>2
  <2> QED BY <2>1, <2>2
<1> QED BY <1>1, <1>2 DEF SettledStays, OnlineOf

LEMMA OnlineStep ==
  ASSUME IInv, DataInv, [Next]_vars
  PROVE  OnlineIsOwn'
<1>0. OnlineIsOwn /\ TypeOK /\ WorkerCopies
  BY DEF DataInv, IInv
<1>1. ASSUME NEW r, WellOnline(r) PROVE WellOnline(r)'
  BY <1>1, SessionsKeep DEF WellOnline
<1>2. WellOnline(res') /\ WellOnline(res)'
  BY <1>0, <1>1, Origins DEF OnlineIsOwn
<1>3. ASSUME NEW w \in Pending', Derived(w, res') PROVE WellOnline(w)'
  <2>1. SUFFICES ASSUME w.status /= None, w.status.phase = "Online"
                 PROVE  WellOnline(w)
    BY <1>1 DEF WellOnline
  <2>2. w \in Resource /\ w.status \in Status
    BY <1>3, <2>1 DEF Derived, Resource
  <2> DEFINE s == w.status.session
  <2>3. CASE w.status = res'.status /\ res' \in Resource
    BY <1>2, <2>3, NoneIsNoResource DEF WellOnline
  <2>4. ASSUME NEW u \in Sessions, s = u, OnlineOf(res', u), ~res'.status.evicted,
               call["run"].step \in {"get", "spec"}, call["run"].by = u,
               w.status = [res'.status EXCEPT !.data = Merge(@, call["run"].data)]
        PROVE  WellOnline(w)
    <3>1. res' \in Resource /\ res'.status \in Status
      <4>1. TypeOK'
        BY TypeStep
      <4> QED BY <2>4, <4>1 DEF TypeOK, OnlineOf, Resource
    <3>2. /\ w.status.data = Merge(res'.status.data, call["run"].data)
          /\ w.status.epoch = res'.status.epoch
          /\ w.status.session = res'.status.session
          /\ w.status.evicted = res'.status.evicted
      BY <2>4, <3>1 DEF Status
    <3>3. DataOf(res'.status.data, u) /\ DataOf(call["run"].data, u)
      BY <1>0, <1>2, <2>4 DEF WellOnline, OnlineOf, WorkerCopies
    <3>4. DataOf(w.status.data, u)
      BY <3>2, <3>3, MergeFields DEF DataOf
    <3> QED BY <1>2, <2>4, <3>2, <3>4 DEF WellOnline, OnlineOf
  <2>5. ASSUME NEW u \in Sessions, call[u].step \in {"get", "spec"},
               w.status = [phase |-> "Online", session |-> u,
                           epoch |-> sess[u].epoch, data |-> NoData,
                           evicted |-> FALSE]
        PROVE  WellOnline(w)
    <3>1. sess[u].st = "registering"
      BY <2>5 DEF IInv, CallsCarryFences
    <3>2. DataOf(NoData, u)
      BY DEF DataOf, NoData
    <3> QED BY <2>5, <3>1, <3>2 DEF WellOnline
  <2>6. CASE s \in Sessions
    <3>1. OnlineOf(w, s)
      BY <2>1, <2>2, NoneIsNoResource DEF OnlineOf
    <3>2. OnlineOf(res', s) => res' \in Resource
      <4>1. TypeOK'
        BY TypeStep
      <4> QED BY <4>1 DEF TypeOK, OnlineOf
    <3> HIDE DEF s
    <3>3. \E u \in Sessions : u = s
      BY <2>6
    <3> QED BY <1>3, <2>3, <2>4, <2>5, <2>6, <3>1, <3>2, DerivedOnline
  <2>7. CASE s \notin Sessions
    <3>1. PICK r : r = res' /\ Derived(w, r)
      BY <1>3
    <3>2. CASE r \in Resource /\ w.status = r.status
      BY <2>3, <3>1, <3>2
    <3>3. ASSUME NEW t \in Callers, r \in Resource,
                 call[t].step \in {"get", "spec"},
                 Decide(t, call[t], r).step = "status",
                 w = Decide(t, call[t], r).want
          PROVE  WellOnline(w)
      <4> DEFINE c == call[t]
      <4>1. c \in Call /\ r.status \in Status \cup {None}
        BY <1>0, <3>3, CallTypeOf DEF Resource
      <4>0. w = [spec |-> r.spec, status |-> Transition(t, c, r.status)]
        BY <3>3, <4>1, DecideKeeps
      <4>2. w.status = Transition(t, c, r.status)
        BY <4>0
      <4>3. CASE t \in Sessions
        <5>1. w.status = Registered(c, r.status) /\ c.by = t
          BY <3>3, <4>2, <4>3, NamesDiffer DEF Transition, IInv, CallsCarryFences
        <5> QED BY <2>1, <2>7, <4>3, <5>1 DEF Registered
      <4>4. CASE t \in {"off", "sweep"}
        <5>1. w.status = MarkedOffline(c, r.status)
          BY <4>2, <4>4, NamesDiffer DEF Transition
        <5> QED BY <2>1, <5>1 DEF MarkedOffline
      <4>5. CASE t = "run"
        <5>1. w.status = Projected(c, r.status)
          BY <4>2, <4>5, NamesDiffer DEF Transition
        <5>2. r.status \in Status /\ w.status = [r.status EXCEPT !.data = Merge(@, c.data)]
          BY <2>1, <4>1, <5>1 DEF Projected
        <5>3. r.status.session = c.by /\ w.status.session = r.status.session
          BY <2>1, <4>1, <5>1, <5>2 DEF Projected, Status
        <5>4. c.by \in Sessions
          BY <1>0, <3>3, <4>5 DEF WorkerCopies
        <5> QED BY <2>7, <5>3, <5>4
      <4>6. CASE t = "evict"
        <5>1. w.status = Evicted(r.status)
          BY <4>2, <4>6, NamesDiffer DEF Transition
        <5>2. r.status \in Status
          BY <2>1, <4>1, <5>1 DEF Evicted
        <5> QED BY <2>1, <5>1, <5>2 DEF Evicted, Status
      <4> QED BY <4>3, <4>4, <4>5, <4>6 DEF Callers
    <3> QED BY <2>1, <3>1, <3>2, <3>3 DEF Derived
  <2> QED BY <2>6, <2>7
<1>4. ASSUME NEW w \in Pending' PROVE WellOnline(w)'
  BY <1>0, <1>1, <1>3, <1>4, Origins DEF OnlineIsOwn
<1> QED BY <1>2, <1>4 DEF OnlineIsOwn

\* What the worker wants to write holds the observation it carries; when it
\* has nothing to write, its session is not shown online.
LEMMA RunWants ==
  ASSUME NEW c \in Call, NEW r \in Resource
  PROVE  /\ Decide("run", c, r).step = "status" =>
              \A f \in Fields : c.data[f] /= None =>
                Decide("run", c, r).want.status.data[f] = c.data[f]
         /\ Decide("run", c, r).step = "stale" =>
              ~(/\ OnlineOf(r, c.by) /\ ~r.status.evicted
                /\ r.status.epoch = c.epoch)
<1>1. PICK t \in Callers : t = "run"
  BY DEF Callers
<1> DEFINE d == Decide(t, c, r)
<1>2. Transition(t, c, r.status) = Projected(c, r.status)
  BY <1>1, NamesDiffer DEF Transition
<1>3. r.status \in Status \cup {None}
  BY DEF Resource
<1>4. ASSUME d.step = "status", NEW f \in Fields, c.data[f] /= None
      PROVE  d.want.status.data[f] = c.data[f]
  <2>1. /\ Projected(c, r.status) /= None
        /\ d.want = [spec |-> r.spec, status |-> Projected(c, r.status)]
    BY <1>2, <1>4, DecideKeeps
  <2>2. r.status \in Status /\ Projected(c, r.status) =
          [r.status EXCEPT !.data = Merge(@, c.data)]
    BY <1>3, <2>1 DEF Projected
  <2>3. d.want.status.data = Merge(r.status.data, c.data)
    BY <2>1, <2>2 DEF Status
  <2> QED BY <1>4, <2>3, MergeFields
<1>5. ASSUME d.step = "stale", OnlineOf(r, c.by), ~r.status.evicted,
             r.status.epoch = c.epoch
      PROVE  FALSE
  <2>1. Projected(c, r.status) = None
    BY <1>2, <1>5 DEF Decide, Call
  <2>2. r.status \in Status
    BY <1>3, <1>5 DEF OnlineOf
  <2>3. [r.status EXCEPT !.data = Merge(@, c.data)] \in Status
    BY <2>2, MergeType DEF Status, Call
  <2>4. Projected(c, r.status) = [r.status EXCEPT !.data = Merge(@, c.data)]
    BY <1>5 DEF Projected, OnlineOf
  <2> QED BY <2>1, <2>3, <2>4, NoneIsNoRecord
<1> QED BY <1>1, <1>4, <1>5

\* What a submission makes of the slot and of what is owed.
LEMMA SubmitMakes ==
  ASSUME IInv, SlotIsOwed, NEW s \in Sessions, NEW kind, Submit(s, kind)
  PROVE  \E obs \in Data :
           /\ DataOf(obs, s)
           /\ slot' /= None /\ owed' /= None /\ slot'.by = s /\ owed'.by = s
           /\ slot /= None => slot'.gen = slot.gen + 1
           /\ \A f \in Fields :
                slot'.data[f] = IF obs[f] /= None THEN obs[f]
                                ELSE IF slot /= None /\ slot.by = s
                                THEN slot.data[f] ELSE None
           /\ \A f \in Fields :
                owed'.data[f] = IF obs[f] /= None THEN obs[f]
                                ELSE IF owed /= None /\ owed.by = s
                                THEN owed.data[f] ELSE None
<1> DEFINE obs == Observation(s, kind)
<1>0. TypeOK
  BY DEF IInv
<1>1. obs \in Data
  BY <1>0, ObservationType
<1>2. DataOf(obs, s)
  BY DEF DataOf, Observation
<1>3. slot' = Slot(s, obs) /\ slot' /= None
  <2>1. slot' = Slot(s, obs)
    BY DEF Submit
  <2> QED BY <1>0, <1>1, <2>1, SlotType, NoneIsNoRecord
<1>4. /\ slot'.by = s
      /\ slot /= None => slot'.gen = slot.gen + 1
      /\ slot'.data = IF slot /= None /\ slot.by = s
                        THEN Merge(slot.data, obs) ELSE obs
  BY <1>3 DEF Slot
<1>5. owed' = [by |-> s, data |-> IF owed /= None /\ owed.by = s
                                    THEN Merge(owed.data, obs) ELSE obs]
  BY DEF Submit
<1>6. /\ owed'.by = s
      /\ owed'.data = IF owed /= None /\ owed.by = s
                        THEN Merge(owed.data, obs) ELSE obs
  BY <1>5
<1>7. owed' /= None
  <2>1. owed /= None => owed.data \in Data
    BY <1>0 DEF TypeOK, Owed
  <2>2. owed' \in Owed
    BY <1>1, <1>5, <2>1, MergeType DEF Owed
  <2> QED BY <2>2, NoneIsNoRecord
<1> HIDE DEF obs
<1>8. ASSUME NEW f \in Fields
      PROVE  /\ slot'.data[f] = IF obs[f] /= None THEN obs[f]
                                ELSE IF slot /= None /\ slot.by = s
                                THEN slot.data[f] ELSE None
             /\ owed'.data[f] = IF obs[f] /= None THEN obs[f]
                                ELSE IF owed /= None /\ owed.by = s
                                THEN owed.data[f] ELSE None
  BY <1>4, <1>6, MergeFields
<1> QED BY <1>1, <1>2, <1>3, <1>4, <1>6, <1>7, <1>8

\* After the worker's last step it is in no call.
LEMMA RunIdles ==
  ASSUME IInv, ProjectDone \/ Crash
  PROVE  call'["run"] = Idle
  BY NamesDiffer DEF IInv, TypeOK, ProjectDone, Crash, Callers

LEMMA SlotIsOwedStep ==
  ASSUME IInv, DataInv, [Next]_vars
  PROVE  SlotIsOwed'
<1>0. TypeOK /\ SlotIsOwed
  BY DEF IInv, DataInv
<1>1. CASE UNCHANGED << slot, owed >>
  BY <1>0, <1>1 DEF SlotIsOwed, DataOf
<1>2. ASSUME NEW s \in Sessions, NEW kind, Submit(s, kind) PROVE SlotIsOwed'
  <2>1. PICK obs \in Data :
           /\ DataOf(obs, s)
           /\ slot' /= None /\ owed' /= None /\ slot'.by = s /\ owed'.by = s
           /\ slot /= None => slot'.gen = slot.gen + 1
           /\ \A f \in Fields :
                slot'.data[f] = IF obs[f] /= None THEN obs[f]
                                ELSE IF slot /= None /\ slot.by = s
                                THEN slot.data[f] ELSE None
           /\ \A f \in Fields :
                owed'.data[f] = IF obs[f] /= None THEN obs[f]
                                ELSE IF owed /= None /\ owed.by = s
                                THEN owed.data[f] ELSE None
    BY <1>0, <1>2, SubmitMakes
  <2> QED BY <1>0, <2>1 DEF SlotIsOwed, DataOf
<1>3. CASE Project
  BY <1>1, <1>3 DEF Project
<1>4. CASE ProjectDone
  BY <1>0, <1>4 DEF ProjectDone, SlotIsOwed, DataOf
<1>5. CASE Crash
  BY <1>5 DEF Crash, SlotIsOwed
<1> QED BY <1>1, <1>2, <1>3, <1>4, <1>5, ProjectorSteps

LEMMA WorkerCopiesStep ==
  ASSUME IInv, DataInv, [Next]_vars
  PROVE  WorkerCopies'
<1>0. TypeOK /\ SlotIsOwed /\ WorkerCopies /\ SettledStays
  BY DEF IInv, DataInv
<1>1. CASE UNCHANGED << slot, owed >> /\ RunKeeps
  <2>1. CASE call["run"].step = "idle"
    BY <1>1, <2>1 DEF RunKeeps, WorkerCopies
  <2>2. CASE call["run"].step /= "idle"
    <3>1. PICK u \in Sessions : u = call["run"].by
      BY <1>0, <2>2 DEF WorkerCopies
    <3>2. sess'[u].epoch = sess[u].epoch
      BY <1>0, <2>2, <3>1, SessionsKeep DEF SettledStays, Heard
    <3> QED BY <1>0, <1>1, <2>2, <3>1, <3>2 DEF RunKeeps, WorkerCopies, DataOf
  <2> QED BY <2>1, <2>2
<1>2. ASSUME NEW s \in Sessions, NEW kind, Submit(s, kind) PROVE WorkerCopies'
  <2>1. PICK obs \in Data :
           /\ DataOf(obs, s)
           /\ slot' /= None /\ owed' /= None /\ slot'.by = s /\ owed'.by = s
           /\ slot /= None => slot'.gen = slot.gen + 1
           /\ \A f \in Fields :
                slot'.data[f] = IF obs[f] /= None THEN obs[f]
                                ELSE IF slot /= None /\ slot.by = s
                                THEN slot.data[f] ELSE None
           /\ \A f \in Fields :
                owed'.data[f] = IF obs[f] /= None THEN obs[f]
                                ELSE IF owed /= None /\ owed.by = s
                                THEN owed.data[f] ELSE None
    BY <1>0, <1>2, SubmitMakes
  <2>2. call' = call /\ sess' = sess
    BY <1>2 DEF Submit
  <2>3. call["run"].gen \in Nat /\ (slot /= None => slot.gen \in Nat)
    BY <1>0, CallTypeOf DEF TypeOK, SlotEntry, Call, Callers
  <2>4. ASSUME call["run"].step /= "idle"
        PROVE  call["run"].gen < slot'.gen
    BY <1>0, <2>1, <2>3, <2>4 DEF WorkerCopies
  <2> QED BY <1>0, <2>1, <2>2, <2>3, <2>4 DEF WorkerCopies, SlotIsOwed, DataOf
<1>3. CASE Project
  <2>1. slot \in SlotEntry /\ slot' = slot /\ owed' = owed /\ sess' = sess
    BY <1>0, <1>3 DEF Project, TypeOK
  <2>2. call'["run"] = [StartCall(slot.by, sess[slot.by].epoch) EXCEPT
                          !.data = slot.data, !.gen = slot.gen]
    BY <1>0, <1>3 DEF Project, TypeOK, Callers
  <2>3. /\ call'["run"].by = slot.by /\ call'["run"].epoch = sess[slot.by].epoch
        /\ call'["run"].data = slot.data /\ call'["run"].gen = slot.gen
    BY <2>2 DEF StartCall, Idle
  <2>4. slot /= None /\ slot.gen \in Nat /\ slot.by \in Sessions
    BY <2>1, NoneIsNoRecord DEF SlotEntry
  <2> QED BY <1>0, <2>1, <2>3, <2>4 DEF WorkerCopies, SlotIsOwed, DataOf
<1>4. CASE ProjectDone \/ Crash
  <2>1. call'["run"].step = "idle"
    BY <1>4, RunIdles DEF Idle
  <2> QED BY <2>1 DEF WorkerCopies
<1> QED BY <1>1, <1>2, <1>3, <1>4, ProjectorSteps

\* A submission concerns the projector alone.
LEMMA SubmitLeaves ==
  ASSUME NEW s \in Sessions, NEW kind, Submit(s, kind)
  PROVE  /\ UNCHANGED << res, late, call, sess >>
         /\ Pending' = Pending
         /\ \A u, f, v : Landed(u, f, v)' <=> Landed(u, f, v)
<1>1. UNCHANGED << res, late, call, sess >>
  BY DEF Submit
<1>2. Pending' = Pending
  BY <1>1 DEF Pending, Writing
<1> QED BY <1>1, <1>2 DEF Landed, OnlineOf

LEMMA OwedIsKeptStep ==
  ASSUME IInv, DataInv, [Next]_vars
  PROVE  OwedIsKept'
<1>0. /\ TypeOK /\ SlotIsOwed /\ WorkerCopies /\ SettledStays /\ OwedIsKept
      /\ WorkerOutcome
  BY DEF IInv, DataInv
<1> DEFINE c == call["run"]
<1>1. ASSUME owed' = owed, slot' \in {slot, None}, owed /= None,
             NEW f \in Fields, owed.data[f] /= None,
             Landed(owed.by, f, owed.data[f]),
             c.step \in {"get", "spec"} /\ c.by = owed.by =>
               c.data[f] \in {None, owed.data[f]}
      PROVE  Landed(owed.by, f, owed.data[f])'
  <2>1. PICK u \in Sessions : u = owed.by
    BY <1>0, <1>1 DEF TypeOK, Owed
  <2>2. PICK v : v = owed.data[f]
    OBVIOUS
  <2>3. Settled(u)
    BY <1>1, <2>1 DEF Settled, Heard
  <2>4. Landed(u, f, v)
    BY <1>1, <2>1, <2>2
  <2>5. Landed(u, f, v)'
    BY <1>0, <1>1, <2>1, <2>2, <2>3, <2>4, LandedStays
  <2> QED BY <1>1, <2>1, <2>2, <2>5 DEF Landed, OnlineOf
<1>2. CASE UNCHANGED << slot, owed >>
  <2> SUFFICES ASSUME owed /= None, NEW f \in Fields, owed.data[f] /= None,
                      ~(slot /= None /\ slot.data[f] /= None)
               PROVE  Landed(owed.by, f, owed.data[f])'
    BY <1>2 DEF OwedIsKept, Landed, OnlineOf
  <2>1. Landed(owed.by, f, owed.data[f])
    BY <1>0 DEF OwedIsKept
  <2>2. c.step /= "idle" /\ c.by = owed.by => c.data[f] = None
    BY <1>0 DEF WorkerCopies, SlotIsOwed
  <2> QED BY <1>1, <1>2, <2>1, <2>2
<1>3. ASSUME NEW s \in Sessions, NEW kind, Submit(s, kind) PROVE OwedIsKept'
  <2>1. PICK obs \in Data :
           /\ DataOf(obs, s)
           /\ slot' /= None /\ owed' /= None /\ slot'.by = s /\ owed'.by = s
           /\ slot /= None => slot'.gen = slot.gen + 1
           /\ \A f \in Fields :
                slot'.data[f] = IF obs[f] /= None THEN obs[f]
                                ELSE IF slot /= None /\ slot.by = s
                                THEN slot.data[f] ELSE None
           /\ \A f \in Fields :
                owed'.data[f] = IF obs[f] /= None THEN obs[f]
                                ELSE IF owed /= None /\ owed.by = s
                                THEN owed.data[f] ELSE None
    BY <1>0, <1>3, SubmitMakes
  <2>2. ASSUME NEW f \in Fields, owed'.data[f] /= None, slot'.data[f] = None
        PROVE  /\ owed /= None /\ owed.by = s /\ owed.data[f] = owed'.data[f]
               /\ Landed(owed.by, f, owed.data[f])
    <3>1. obs[f] = None
      BY <2>1, <2>2
    <3>2. owed /= None /\ owed.by = s /\ owed.data[f] = owed'.data[f]
      BY <2>1, <2>2, <3>1
    <3>3. ~(slot /= None /\ slot.data[f] /= None)
      BY <1>0, <2>1, <2>2, <3>1, <3>2 DEF SlotIsOwed
    <3> QED BY <1>0, <2>2, <3>2, <3>3 DEF OwedIsKept
  <2>3. ASSUME NEW f \in Fields, owed'.data[f] /= None, slot'.data[f] = None
        PROVE  Landed(owed.by, f, owed.data[f])'
    <3>1. Pending' = Pending /\ res' = res
      BY <1>3, SubmitLeaves
    <3> QED BY <2>1, <2>2, <2>3, <3>1 DEF Landed, OnlineOf
  <2> QED BY <2>1, <2>3 DEF OwedIsKept, Landed, OnlineOf
<1>4. CASE Project
  BY <1>2, <1>4 DEF Project
<1>5. CASE ProjectDone
  <2>1. CASE ~Done(c)
    BY <1>2, <1>5, <2>1 DEF ProjectDone
  <2>2. CASE Done(c)
    <3>0. /\ slot' = None /\ owed' = owed /\ c.step \in {"ok", "stale"}
          /\ slot /= None /\ c.by = slot.by /\ c.data = slot.data
          /\ c.by \in Sessions
      BY <1>0, <1>5, <2>2 DEF ProjectDone, Done, WorkerCopies
    <3> SUFFICES ASSUME owed /= None, NEW f \in Fields, owed.data[f] /= None
                 PROVE  Landed(owed.by, f, owed.data[f])'
      BY <3>0 DEF OwedIsKept, Landed, OnlineOf
    <3>1. Landed(owed.by, f, owed.data[f])
      <4>1. CASE slot.data[f] = None
        BY <1>0, <4>1 DEF OwedIsKept
      <4>2. CASE slot.data[f] /= None
        <5>1. owed.by = c.by /\ owed.data[f] = c.data[f] /\ c.data[f] /= None
          BY <1>0, <3>0, <4>2 DEF SlotIsOwed
        <5>2. CASE c.step = "ok"
          BY <1>0, <5>1, <5>2 DEF WorkerOutcome
        <5>3. CASE c.step = "stale"
          <6>1. ~OnlineOf(res, owed.by)
            BY <1>0, <5>1, <5>3 DEF WorkerOutcome
          <6>2. Settled(owed.by)
            BY DEF Settled, Heard
          <6> QED BY <1>0, <3>0, <5>1, <6>1, <6>2 DEF SettledStays, Landed
        <5> QED BY <3>0, <5>2, <5>3
      <4> QED BY <4>1, <4>2
    <3> QED BY <1>1, <3>0, <3>1
  <2> QED BY <2>1, <2>2
<1>6. CASE Crash
  BY <1>6 DEF Crash, OwedIsKept
<1> QED BY <1>2, <1>3, <1>4, <1>5, <1>6, ProjectorSteps

LEMMA WorkerOutcomeStep ==
  ASSUME IInv, DataInv, [Next]_vars
  PROVE  WorkerOutcome'
<1> DEFINE c == call["run"]
<1>0. /\ TypeOK /\ PendingFollows /\ OnlineIsOwn /\ WorkerCopies /\ SettledStays
      /\ WorkerOutcome /\ c \in Call /\ "run" \in Callers
  BY CallTypeOf DEF IInv, DataInv, Callers
<1>1. ASSUME RunKeeps, call'["run"].step = c.step, call'["run"].want = c.want
      PROVE  WorkerOutcome'
  <2>1. ASSUME c.step = "ok", NEW f \in Fields, c.data[f] /= None
        PROVE  Landed(call["run"].by, f, call["run"].data[f])'
    <3>1. PICK u \in Sessions : u = c.by
      BY <1>0, <2>1 DEF WorkerCopies
    <3>2. PICK v : v = c.data[f]
      OBVIOUS
    <3>3. Settled(u) /\ Landed(u, f, v)
      BY <1>0, <2>1, <3>1, <3>2 DEF Settled, Heard, WorkerOutcome
    <3>4. Landed(u, f, v)'
      BY <1>0, <2>1, <3>1, <3>2, <3>3, LandedStays
    <3>5. call'["run"].by = u /\ call'["run"].data[f] = v
      BY <1>1, <3>1, <3>2 DEF RunKeeps
    <3> QED BY <3>4, <3>5 DEF Landed, OnlineOf
  <2>2. ASSUME c.step = "stale" PROVE ~OnlineOf(res', c.by)
    <3>1. c.by \in Sessions /\ Settled(c.by)
      BY <1>0, <2>2 DEF WorkerCopies, Settled, Heard
    <3>2. ~OnlineOf(res, c.by) /\ \A w \in Pending : ~OnlineOf(w, c.by)
      BY <1>0, <2>2, <3>1 DEF WorkerOutcome, SettledStays
    <3> QED BY <3>2, Origins
  <2>3. /\ call'["run"].by = c.by /\ call'["run"].data = c.data
    BY <1>1 DEF RunKeeps
  <2>4. ASSUME c.step = "stale" PROVE ~OnlineOf(res, call["run"].by)'
    BY <2>2, <2>3, <2>4 DEF OnlineOf
  <2> QED BY <1>0, <1>1, <2>1, <2>3, <2>4 DEF WorkerOutcome
<1>2. ASSUME call'["run"].step \in {"idle", "get", "spec", "error"}
      PROVE  WorkerOutcome'
  BY <1>2 DEF WorkerOutcome
\* The decision of the worker's call, on the resource that stays or is written.
<1>3. ASSUME res' \in Resource, WellOnline(res'), c.step /= "idle",
             call'["run"] = Decide("run", c, res')
      PROVE  WorkerOutcome'
  <2>1. /\ call'["run"].by = c.by
        /\ call'["run"].step \in {"stale", "status"}
    BY <1>0, <1>3, RunDecides
  <2>2. call'["run"].data = c.data
    BY <1>0, <1>3, DecideKeepsData
  <2>3. call'["run"].step = "status" => \A f \in Fields :
          c.data[f] /= None => call'["run"].want.status.data[f] = c.data[f]
    BY <1>0, <1>3, RunWants
  <2>4. ASSUME call'["run"].step = "stale" PROVE ~OnlineOf(res', c.by)
    <3>1. ~(/\ OnlineOf(res', c.by) /\ ~res'.status.evicted
            /\ res'.status.epoch = c.epoch)
      BY <1>0, <1>3, <2>4, RunWants
    <3>2. c.epoch = sess[c.by].epoch
      BY <1>0, <1>3 DEF WorkerCopies
    <3> QED BY <1>3, <3>1, <3>2 DEF WellOnline, OnlineOf
  <2>5. call'["run"].step = "stale" => ~OnlineOf(res, call["run"].by)'
    BY <2>1, <2>4 DEF OnlineOf
  <2> QED BY <2>1, <2>2, <2>3, <2>5 DEF WorkerOutcome
<1>4. CASE Get("run")
  <2>0. c.step = "get" /\ res' = res
    BY <1>4 DEF Get
  <2>1. CASE res = None
    <3>1. call'["run"] = [c EXCEPT !.step = "spec", !.fresh = TRUE,
                            !.want = [spec |-> SpecOf("run"), status |-> None]]
      BY <1>0, <1>4, <2>1 DEF Get, TypeOK
    <3>2. call'["run"].step = "spec"
      BY <1>0, <3>1 DEF Call
    <3> QED BY <1>2, <3>2
  <2>2. CASE res /= None /\ HasSpec("run")
    <3>1. res \in Resource /\ call'["run"] = Decide("run", c, res)
      BY <1>0, <1>4, <2>2 DEF TypeOK, Get
    <3> QED BY <1>0, <1>3, <2>0, <3>1 DEF OnlineIsOwn
  <2>3. CASE res /= None /\ ~HasSpec("run")
    <3>1. call'["run"] = [c EXCEPT !.step = "spec", !.fresh = TRUE,
                            !.want = [res EXCEPT !.spec = SpecOf("run")]]
      BY <1>0, <1>4, <2>3 DEF Get, TypeOK
    <3>2. call'["run"].step = "spec"
      BY <1>0, <3>1 DEF Call
    <3> QED BY <1>2, <3>2
  <2> QED BY <2>1, <2>2, <2>3
<1>5. CASE Commit("run")
  <2>0. /\ c.step \in {"spec", "status"} /\ c.want \in Resource
        /\ res' = c.want /\ c.want \in Pending
    BY <1>0, <1>5, WantIsResource DEF Commit, Writing
  <2>1. CASE c.step = "spec"
    <3>1. call'["run"] = Decide("run", c, c.want)
      BY <1>0, <1>5, <2>1, OutdatedType DEF Commit
    <3> QED BY <1>0, <1>3, <2>0, <2>1, <3>1 DEF OnlineIsOwn
  <2>2. CASE c.step = "status"
    <3>1. call'["run"] = [c EXCEPT !.step = "ok", !.want = None, !.fresh = FALSE]
      BY <1>0, <1>5, <2>2, OutdatedType DEF Commit
    <3>2. /\ call'["run"].step = "ok" /\ call'["run"].by = c.by
          /\ call'["run"].data = c.data
      BY <1>0, <3>1 DEF Call
    <3>3. Pending' = {}
      BY <1>0, <1>5, <2>2, CommitPending
    <3>4. ASSUME NEW f \in Fields, c.data[f] /= None
          PROVE  Landed(call["run"].by, f, call["run"].data[f])'
      <4>1. res'.status.data[f] = c.data[f]
        BY <1>0, <2>0, <2>2, <3>4 DEF WorkerOutcome
      <4> QED BY <3>2, <3>3, <4>1 DEF Landed
    <3> QED BY <3>2, <3>4 DEF WorkerOutcome
  <2> QED BY <2>0, <2>1, <2>2
<1>6. ASSUME NEW s \in Sessions, NEW kind, Submit(s, kind) PROVE WorkerOutcome'
  <2>1. UNCHANGED << res, call >> /\ Pending' = Pending
    BY <1>6, SubmitLeaves
  <2> QED BY <1>0, <2>1 DEF WorkerOutcome, Landed, OnlineOf
<1>7. CASE Project
  <2>1. call'["run"] = [StartCall(slot.by, sess[slot.by].epoch) EXCEPT
                          !.data = slot.data, !.gen = slot.gen]
    BY <1>0, <1>7 DEF Project, TypeOK
  <2>2. call'["run"].step = "get"
    BY <2>1 DEF StartCall, Idle
  <2> QED BY <1>2, <2>2
<1>8. CASE ProjectDone \/ Crash
  <2>1. call'["run"].step = "idle"
    BY <1>8, RunIdles DEF Idle
  <2> QED BY <1>2, <2>1
<1>9. CASE RunKeeps
  BY <1>1, <1>2, <1>4, <1>5, <1>9 DEF RunKeeps
<1> QED BY <1>6, <1>7, <1>8, <1>9, ProjectorSteps

LEMMA DataStep ==
  ASSUME IInv, DataInv, [Next]_vars
  PROVE  DataInv'
<1>1. SettledStays'
  BY SettledStep DEF DataInv
<1> QED
  BY <1>1, OnlineStep, WorkerCopiesStep, SlotIsOwedStep, OwedIsKeptStep,
     WorkerOutcomeStep
  DEF DataInv

\* What an observation is worth: the resource and every write that may still be
\* executed show a session online only with its own data, and hold each
\* observation the projector took off its slot.
THEOREM DataInductive == Spec => []DataInv
<1>1. Init => DataInv
  <2> SUFFICES ASSUME Init PROVE DataInv
    OBVIOUS
  <2>1. call["run"].step = "idle" /\ \A t \in Callers : call[t].step = "idle"
    BY DEF Init, Idle, Callers
  <2>2. Pending = {}
    BY <2>1 DEF Init, Pending, Writing
  <2>3. \A s \in Sessions : ~Heard(s)
    BY <2>1 DEF Init, Heard
  <2> QED BY <2>1, <2>2, <2>3 DEF Init, DataInv, OnlineIsOwn, WellOnline,
       SettledStays, Settled, WorkerCopies, SlotIsOwed, OwedIsKept, WorkerOutcome
<1>2. IInv /\ DataInv /\ [Next]_vars => DataInv'
  BY DataStep
<1> QED BY <1>1, <1>2, Invariance, PTL DEF Spec

\* A status shown online holds no runtime data of another session: registration
\* clears it, project_runtime compares session and fence.
THEOREM OwnDataShown == Spec => []RuntimeDataOfSession
<1>1. DataInv => RuntimeDataOfSession
  BY DEF DataInv, OnlineIsOwn, WellOnline, DataOf, RuntimeDataOfSession, HasStatus
<1> QED BY <1>1, DataInductive, PTL

\* Once the slot is empty, everything submitted for the session it last held is
\* in the online status of that session, whatever calls failed or were retried
\* and whatever was submitted while the worker was at the API server.
THEOREM ObservationsKept == Spec => []NoObservationLost
<1>1. IInv /\ DataInv => NoObservationLost
  <2> SUFFICES ASSUME IInv, DataInv, HasStatus, slot = None, owed /= None,
                      res.status.phase = "Online", res.status.session = owed.by
               PROVE  res.status.data = Merge(res.status.data, owed.data)
    BY DEF NoObservationLost
  <2>1. OnlineOf(res, owed.by)
    BY DEF HasStatus, OnlineOf
  <2>2. ASSUME NEW f \in Fields, owed.data[f] /= None
        PROVE  res.status.data[f] = owed.data[f]
    BY <2>1, <2>2 DEF DataInv, OwedIsKept, Landed
  <2>3. res.status.data \in Data
    BY DEF IInv, TypeOK, HasStatus, Resource, Status
  <2> QED BY <2>2, <2>3 DEF Merge, Data
<1> QED BY <1>1, Invariance, DataInductive, PTL
=============================================================================
