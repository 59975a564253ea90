------------------------ MODULE OwnedSessionsProofs ------------------------
(***************************************************************************)
(* Proofs about OwnedSessions, for any sessions and any replicas.          *)
(***************************************************************************)
EXTENDS OwnedSessions, TLAPS

(***************************************************************************)
(* The inductive invariant                                                 *)
(***************************************************************************)

\* A session is looked up on its own replica only.
EntryIsLocal ==
    \A r \in Replicas :
        entry[r].session \in Sessions => ReplicaOf[entry[r].session] = r

\* Whoever takes a handler's entry away, or its sender, cancels the session.
RegisteredUntilCancelled ==
    \A s \in Sessions :
        pc[s] \in {"projecting", "opening", "live"} /\ ~cancelled[s] =>
            /\ entry[ReplicaOf[s]].session = s
            /\ entry[ReplicaOf[s]].tx /\ ~entry[ReplicaOf[s]].offline

\* A session that gives its Lease up is cancelled, also when its registration
\* was rejected.
ReleasingIsCancelled ==
    \A s \in Sessions : keeper[s] \in Releasing => cancelled[s]

\* A request holds what its step needs, and has been sent only if it waits for
\* the result or is over.
RequestConsistent ==
    /\ request.pc \in {"local", "locating", "forwarding"} => request.at \in Replicas
    /\ request.pc = "forwarding" => request.route \in Sessions
    /\ request.pc \in {"sending", "admitted", "waiting"} => request.to \in Sessions
    /\ request.pc \notin {"waiting", "done"} => request.sent = 0
    /\ request.sent <= 1

EvictionConsistent ==
    eviction.pc \in {"locating", "matching", "removing"} => eviction.target \in Sessions

IInv ==
    /\ TypeOK
    /\ EntryIsLocal
    /\ RegisteredUntilCancelled
    /\ ReleasingIsCancelled
    /\ OnlineSessionIsMaintained
    /\ RequestConsistent
    /\ EvictionConsistent


(***************************************************************************)
(* The invariant is inductive                                              *)
(***************************************************************************)

\* What the sessions and the registries keep, apart from requests and evictions.
SessionsType ==
    /\ owner \in Sessions \cup {NoSession}
    /\ epoch \in Nat
    /\ granted \in [Sessions -> Nat]
    /\ pc \in [Sessions -> Pc]
    /\ valid \in [Sessions -> BOOLEAN]
    /\ cancelled \in [Sessions -> BOOLEAN]
    /\ entry \in [Replicas -> Entry]
    /\ \A r \in Replicas : entry[r].tx => entry[r].session \in Sessions
    /\ keeper \in [Sessions -> Keeper]

SessionsInv ==
    /\ SessionsType
    /\ EntryIsLocal
    /\ RegisteredUntilCancelled
    /\ ReleasingIsCancelled
    /\ OnlineSessionIsMaintained

AdminInv ==
    /\ request \in Request
    /\ eviction \in Eviction
    /\ RequestConsistent
    /\ EvictionConsistent

LEMMA Split == IInv <=> SessionsInv /\ AdminInv
  BY DEF IInv, SessionsInv, SessionsType, AdminInv, TypeOK

\* A step that changes neither the sessions nor the registries.
LEMMA SessionsUnchanged ==
    SessionsInv /\ UNCHANGED << lease, session >> => SessionsInv'
  BY DEF SessionsInv, SessionsType, EntryIsLocal, RegisteredUntilCancelled,
     ReleasingIsCancelled, OnlineSessionIsMaintained, is_online, lease, session

LEMMA AdminUnchanged ==
    AdminInv /\ UNCHANGED << request, eviction >> => AdminInv'
  BY DEF AdminInv, RequestConsistent, EvictionConsistent

\* Every step of a handler, of a keeper and of the Lease keeps the invariant of
\* the sessions.
LEMMA SessionSteps ==
    ASSUME SessionsInv, NEW s \in Sessions, Sync(s) \/ Keep(s) \/ Grant(s) \/ Release(s)
    PROVE  SessionsInv'
<1> USE NamesAssumption, ReplicaOfAssumption
    DEF SessionsInv, SessionsType, EntryIsLocal, RegisteredUntilCancelled,
       ReleasingIsCancelled, OnlineSessionIsMaintained, is_online, lease, session,
       Pc, Keeper, Maintaining, Releasing, Entry, NoEntry
<1>1. CASE Fence(s)
  BY <1>1 DEF Fence, fence_owned_session, GoTo
<1>2. CASE AcquireOk(s)
  BY <1>2 DEF AcquireOk, GoTo
<1>3. CASE AcquireFailed(s)
  BY <1>3 DEF AcquireFailed, GoTo
<1>4. CASE Register(s)
  BY <1>4 DEF Register, GoTo, register
<1>5. CASE ProjectionOk(s)
  BY <1>5 DEF ProjectionOk, GoTo
<1>6. CASE ProjectionFailed(s)
  BY <1>6 DEF ProjectionFailed, GoTo, mark_offline
<1>7. CASE HandlerDropped(s)
  BY <1>7 DEF HandlerDropped, GoTo
<1>8. CASE LoopCancelled(s)
  BY <1>8 DEF LoopCancelled, EndLoop, GoTo, mark_offline
<1>9. CASE LoopClosed(s)
  <2>1. /\ entry[ReplicaOf[s]].session = s /\ ~entry[ReplicaOf[s]].offline
        /\ ~cancelled[s] /\ pc[s] = "live"
    BY <1>9 DEF LoopClosed, EndLoop, GoTo
  <2>2. /\ pc' = [pc EXCEPT ![s] = "done"]
        /\ entry' = [entry EXCEPT ![ReplicaOf[s]].tx = FALSE,
                                  ![ReplicaOf[s]].offline = TRUE]
        /\ cancelled' = [cancelled EXCEPT ![s] = TRUE]
        /\ UNCHANGED << owner, epoch, granted, valid, keeper >>
    BY <1>9, <2>1 DEF LoopClosed, EndLoop, GoTo, mark_offline
  <2>3. \A r \in Replicas : r /= ReplicaOf[s] => entry'[r] = entry[r]
    BY <2>2
  <2>4. LET e == entry'[ReplicaOf[s]] IN
        e \in Entry /\ e.session = s /\ e.tx = FALSE /\ e.offline = TRUE
    BY <2>1, <2>2
  <2>5. SessionsType'
    <3>1. entry' \in [Replicas -> Entry]
      BY <2>2, <2>3, <2>4
    <3>2. \A r \in Replicas : entry'[r].tx => entry'[r].session \in Sessions
      BY <2>3, <2>4
    <3>3. pc' \in [Sessions -> Pc] /\ cancelled' \in [Sessions -> BOOLEAN]
      BY <2>2
    <3> QED
      BY <2>2, <3>1, <3>2, <3>3
  <2>6. EntryIsLocal' /\ ReleasingIsCancelled'
    BY <2>2, <2>3, <2>4
  <2>7. RegisteredUntilCancelled'
    BY <2>1, <2>2, <2>3, <2>4
  <2>8. OnlineSessionIsMaintained'
    BY <2>1, <2>2, <2>3, <2>4
  <2> QED
    BY <2>5, <2>6, <2>7, <2>8
<1>10. CASE LoopSuperseded(s)
  BY <1>10 DEF LoopSuperseded, GoTo
<1>11. CASE KeeperCancelled(s)
  BY <1>11 DEF KeeperCancelled
<1>12. CASE KeeperLost(s)
  BY <1>12 DEF KeeperLost, Revoke
<1>13. CASE KeeperExpired(s)
  BY <1>13 DEF KeeperExpired, Revoke
<1>14. CASE KeeperCancel(s)
  BY <1>14 DEF KeeperCancel
<1>15. CASE ReleaseLost(s)
  BY <1>15 DEF ReleaseLost
<1>16. CASE ReleaseFailed(s)
  BY <1>16 DEF ReleaseFailed
<1>17. CASE Grant(s)
  BY <1>17 DEF Grant, Lease!Grant
<1>18. CASE Release(s)
  BY <1>18 DEF Release, Lease!Release
<1>19. CASE StartKeeper(s)
  BY <1>19 DEF StartKeeper, GoTo
<1> QED
  BY <1>1, <1>2, <1>3, <1>4, <1>5, <1>6, <1>7, <1>8, <1>9, <1>10, <1>11, <1>12,
     <1>13, <1>14, <1>15, <1>16, <1>17, <1>18, <1>19 DEF Sync, Keep

LEMMA ReplicaSteps ==
    ASSUME SessionsInv, NEW r \in Replicas,
           Drain(r) \/ Crash(r) \/ (remove(r) /\ UNCHANGED << lease, pc, keeper >>)
    PROVE  SessionsInv'
<1> USE NamesAssumption, ReplicaOfAssumption
    DEF SessionsInv, SessionsType, EntryIsLocal, RegisteredUntilCancelled,
       ReleasingIsCancelled, OnlineSessionIsMaintained, is_online, lease, session,
       Pc, Keeper, Maintaining, Releasing, Entry, NoEntry
<1>1. CASE Drain(r)
  <2> DEFINE s == entry[r].session
  <2>1. /\ s \in Sessions /\ ReplicaOf[s] = r
        /\ cancelled' = [cancelled EXCEPT ![s] = TRUE]
        /\ entry' = [entry EXCEPT ![r].tx = FALSE]
        /\ UNCHANGED << owner, epoch, granted, pc, valid, keeper >>
    BY <1>1 DEF Drain
  <2>2. \A q \in Replicas : q /= r => entry'[q] = entry[q]
    BY <2>1
  <2>3. /\ entry'[r] \in Entry /\ entry'[r].tx = FALSE
        /\ entry'[r].session = s /\ entry'[r].offline = entry[r].offline
    <3>1. entry[r] \in Entry /\ entry'[r] = [entry[r] EXCEPT !.tx = FALSE]
      BY <2>1
    <3> QED
      BY <3>1
  <2> HIDE DEF s
  <2>4. SessionsType'
    BY <2>1, <2>2, <2>3
  <2>5. EntryIsLocal' /\ ReleasingIsCancelled'
    BY <2>1, <2>2, <2>3
  <2>6. RegisteredUntilCancelled'
    BY <2>1, <2>2, <2>3
  <2>7. OnlineSessionIsMaintained'
    BY <2>1, <2>2, <2>3
  <2> QED
    BY <2>4, <2>5, <2>6, <2>7
<1>2. CASE Crash(r)
  BY <1>2 DEF Crash, Running, EndOf, NoRequest, Over, NoEviction
<1>3. CASE remove(r) /\ UNCHANGED << lease, pc, keeper >>
  BY <1>3 DEF remove
<1> QED
  BY <1>1, <1>2, <1>3

\* The steps of a request and of an eviction keep theirs.
LEMMA AdminSteps ==
    ASSUME SessionsInv, AdminInv, Admin
    PROVE  AdminInv'
<1> USE NamesAssumption, ReplicaOfAssumption, BoundsAssumption
    DEF AdminInv, RequestConsistent, EvictionConsistent,
       Request, Eviction, NoRequest, NoEviction, EndOf, Over
<1>1. ASSUME NEW r \in Askers, RequestLocal(r) \/ RequestRemote(r)
      PROVE  AdminInv'
  BY <1>1 DEF RequestLocal, RequestRemote
<1>2. ASSUME NEW s \in Evictable, EvictStart(s)
      PROVE  AdminInv'
  BY <1>2 DEF EvictStart
<1>3. CASE LocalGet
  BY <1>3 DEF LocalGet, is_online, SessionsInv, SessionsType
<1>4. CASE Locate
  <2>1. PICK s \in Sessions :
          request' = [request EXCEPT !.pc = "forwarding", !.route = s]
    BY <1>4 DEF Locate, located, SessionsInv, SessionsType
  <2>2. eviction' = eviction /\ request.pc = "locating"
    BY <1>4 DEF Locate
  <2> QED
    BY <2>1, <2>2
<1>5. CASE ForwardMatch
  BY <1>5 DEF ForwardMatch
<1>6. CASE ForwardStale
  BY <1>6 DEF ForwardStale
<1>7. CASE Send
  <2>1. /\ request.sent = 0 /\ request.to \in Sessions
        /\ request' = [request EXCEPT !.pc = "waiting", !.sent = @ + 1]
        /\ eviction' = eviction
    BY <1>7 DEF Send
  <2>2. /\ request' \in Request /\ request'.pc = "waiting"
        /\ request'.sent = 1 /\ request'.to = request.to
    <3> DEFINE q == [request EXCEPT !.pc = "waiting"]
    <3>1. q \in Request /\ q.pc = "waiting" /\ q.to = request.to
      OBVIOUS
    <3>2. request' = [q EXCEPT !.sent = 1]
      BY <2>1
    <3> HIDE DEF q
    <3> QED
      BY <3>1, <3>2
  <2> QED
    BY <2>1, <2>2
<1>8. CASE RequestEnds
  BY <1>8 DEF RequestEnds
<1>9. CASE EvictLocate
  BY <1>9 DEF EvictLocate, located
<1>10. CASE EvictMatch
  BY <1>10 DEF EvictMatch
<1>11. CASE EvictRemove
  BY <1>11 DEF EvictRemove
<1>12. CASE Admit \/ SendPending
  BY <1>12 DEF Admit, SendPending
<1> QED
  BY <1>1, <1>2, <1>3, <1>4, <1>5, <1>6, <1>7, <1>8, <1>9, <1>10, <1>11, <1>12
     DEF Admin

\* Every step keeps the whole invariant.
LEMMA Step == IInv /\ [Next]_vars => IInv'
<1> SUFFICES ASSUME SessionsInv, AdminInv, [Next]_vars
             PROVE  SessionsInv' /\ AdminInv'
  <2>1. IInv' <=> SessionsInv' /\ AdminInv'
    BY Split DEF IInv, SessionsInv, SessionsType, AdminInv, TypeOK
  <2> QED
    BY Split, <2>1
<1>1. ASSUME NEW s \in Sessions, Sync(s) \/ Keep(s) \/ Grant(s) \/ Release(s)
      PROVE  SessionsInv' /\ AdminInv'
  <2>1. UNCHANGED << request, eviction >>
    BY <1>1 DEF Sync, Fence, AcquireOk, AcquireFailed, Register, ProjectionOk,
       StartKeeper, ProjectionFailed, HandlerDropped, LoopCancelled, LoopClosed, EndLoop,
       LoopSuperseded, Keep, KeeperCancelled, KeeperLost, KeeperExpired, Revoke,
       KeeperCancel, ReleaseLost, ReleaseFailed, Grant, Release
  <2> QED
    BY <1>1, <2>1, SessionSteps, AdminUnchanged
<1>2. ASSUME NEW r \in Stopping, Drain(r) \/ Crash(r)
      PROVE  SessionsInv' /\ AdminInv'
  <2>1. r \in Replicas
    BY BoundsAssumption
  <2>2. CASE Drain(r)
    BY <2>1, <2>2, ReplicaSteps, AdminUnchanged DEF Drain
  <2>3. CASE Crash(r)
    <3>1. /\ request' \in {request, EndOf(request)}
          /\ eviction' \in {eviction, Over}
      BY <2>3 DEF Crash
    <3>2. AdminInv'
      BY <3>1 DEF AdminInv, RequestConsistent, EvictionConsistent, Request,
         Eviction, NoRequest, NoEviction, EndOf, Over
    <3> QED
      BY <2>1, <2>3, <3>2, ReplicaSteps
  <2> QED
    BY <1>2, <2>2, <2>3
<1>3. CASE Admin
  <2>1. CASE EvictRemove
    <3>1. ReplicaOf[eviction.target] \in Replicas
      BY <2>1, ReplicaOfAssumption DEF EvictRemove, AdminInv, EvictionConsistent
    <3> QED
      BY <1>3, <2>1, <3>1, ReplicaSteps, AdminSteps DEF EvictRemove
  <2>2. CASE ~EvictRemove
    <3>1. UNCHANGED << lease, session >>
      BY <1>3, <2>2 DEF Admin, RequestLocal, RequestRemote, LocalGet, Locate,
         ForwardMatch, ForwardStale, Admit, Send, SendPending, RequestEnds,
         EvictStart, EvictLocate, EvictMatch
    <3> QED
      BY <1>3, <3>1, AdminSteps, SessionsUnchanged
  <2> QED
    BY <2>1, <2>2
<1>4. CASE UNCHANGED vars
  BY <1>4, SessionsUnchanged, AdminUnchanged DEF vars
<1> QED
  BY <1>1, <1>2, <1>3, <1>4 DEF Next

\* IInv holds throughout: the inductive invariant behind the theorems below.
THEOREM Inductive == Spec => []IInv
<1>1. Init => IInv
  BY NamesAssumption, ReplicaOfAssumption
     DEF Init, Lease!Init, IInv, TypeOK, Pc, Keeper, Entry, NoEntry, Request,
         NoRequest, Eviction, NoEviction, EntryIsLocal, RegisteredUntilCancelled,
         ReleasingIsCancelled, Releasing, OnlineSessionIsMaintained, is_online,
         RequestConsistent, EvictionConsistent
<1> QED
  BY <1>1, Step, PTL DEF Spec

\* Every variable of the sessions, the registries, the requests and the
\* evictions keeps its type, and an entry with a sender names a session.
THEOREM TypeCorrect == Spec => []TypeOK
<1>1. IInv => TypeOK
  BY DEF IInv
<1> QED
  BY <1>1, Inductive, PTL

\* On any number of replicas the registry hands out no sender of a session whose
\* Lease nobody maintains, except until maintain_ownership is spawned, which a
\* dropped handler never does.
THEOREM SendersAreMaintained == Spec => []OnlineSessionIsMaintained
<1>1. IInv => OnlineSessionIsMaintained
  BY DEF IInv
<1> QED
  BY <1>1, Inductive, PTL

\* ProxyForwarder never replays a request that may have reached a controller.
THEOREM NeverReplayed == Spec => []SentAtMostOnce
<1>1. IInv => SentAtMostOnce
  BY DEF IInv, RequestConsistent, SentAtMostOnce
<1> QED
  BY <1>1, Inductive, PTL

\* However long ago a request took a sender from the registry, it does not get
\* past its last look at the token once the session gives its Lease up.
THEOREM ClosedBeforeRelease == Spec => NoAdmissionAfterRelease
<1>1. IInv /\ [Next]_vars =>
        (request.pc = "sending" /\ request'.pc = "admitted"
           => keeper[request.to] \notin Releasing)
  <2> SUFFICES ASSUME IInv, [Next]_vars, request.pc = "sending",
                      request'.pc = "admitted"
               PROVE  keeper[request.to] \notin Releasing
    OBVIOUS
  <2>1. request' /= request
    OBVIOUS
  <2>2. request' /= EndOf(request)
    BY DEF EndOf, NoRequest
  <2>3. Admin
    BY <2>1, <2>2 DEF Next, vars, Sync, Fence, AcquireOk, AcquireFailed, Register,
       ProjectionOk, StartKeeper, ProjectionFailed, HandlerDropped, LoopCancelled,
       LoopClosed, EndLoop, LoopSuperseded, Keep, KeeperCancelled, KeeperLost,
       KeeperExpired, Revoke, KeeperCancel, ReleaseLost, ReleaseFailed, Grant,
       Release, Drain, Crash
  <2>4. Admit
    BY <2>1, <2>2, <2>3 DEF Admin, RequestLocal, RequestRemote, LocalGet, Locate,
       ForwardMatch, ForwardStale, Send, SendPending, RequestEnds, EvictStart,
       EvictLocate, EvictMatch, EvictRemove
  <2>5. ~cancelled[request.to] /\ request.to \in Sessions
    BY <2>4 DEF Admit, IInv, RequestConsistent
  <2> QED
    BY <2>5 DEF IInv, ReleasingIsCancelled
<1> QED
  BY <1>1, Inductive, PTL DEF Spec, NoAdmissionAfterRelease
=============================================================================
