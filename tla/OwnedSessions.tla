--------------------------- MODULE OwnedSessions ---------------------------
(***************************************************************************)
(* The sessions of one controller on several Center replicas (the          *)
(* Kubernetes composition), and the Admin requests that reach them.        *)
(*                                                                         *)
(* sync fences the local session, acquires the controller's ownership      *)
(* Lease, installs the session with its fence in the replica's             *)
(* ControllerRegistry and spawns maintain_ownership, which revokes the     *)
(* cached ownership before it releases the Lease.  An Admin request goes   *)
(* to a dispatchable local session or is forwarded once to the replica     *)
(* that the Lease names; an eviction does the same.                        *)
(*                                                                         *)
(* The Lease itself is the promise of FencedLease, which LeaseCoordinator  *)
(* implements: a grant may come at any time, because a Lease may expire,   *)
(* and a renewal that succeeds changes nothing.  Time is not modelled; a   *)
(* timeout is a step that may be taken.                                    *)
(***************************************************************************)
EXTENDS Naturals

CONSTANTS
    Sessions,   \* the sync calls of the controller, on all replicas
    Replicas,   \* Center replicas
    ReplicaOf,  \* the replica of each session
    Askers,     \* the replicas an Admin request may come to
    Evictable,  \* the sessions the directory may record an eviction of
    Stopping,   \* the replicas that may be drained or lost
    NoSession,  \* no session
    NoReplica   \* no replica

ASSUME NamesAssumption == NoSession \notin Sessions /\ NoReplica \notin Replicas
ASSUME ReplicaOfAssumption == ReplicaOf \in [Sessions -> Replicas]
ASSUME BoundsAssumption ==
    Askers \subseteq Replicas /\ Evictable \subseteq Sessions /\ Stopping \subseteq Replicas

VARIABLES
    owner, epoch, granted,  \* the Lease (FencedLease)
    pc,         \* where the handler of each session is
    valid,      \* ownership_valid of each session
    cancelled,  \* session_cancel of each session
    entry,      \* ControllerRegistry of each replica: the controller's session
    keeper,     \* maintain_ownership of each session, or the release that
                \* follows a rejected registration
    request,    \* an Admin request
    eviction    \* an Admin DELETE, after the directory has recorded it

lease == << owner, epoch, granted >>
session == << pc, valid, cancelled, entry, keeper >>
vars == << lease, session, request, eviction >>

Lease == INSTANCE FencedLease

(***************************************************************************)
(* Values                                                                  *)
(***************************************************************************)

\* "abandoned": acquire was given up, its PUT may still be executed.
\* "opening": sync puts RegisterAck and the first watch request into a bounded
\* channel that nobody drains yet; it looks neither at the token nor at a clock.
\* "dropped": the peer reset the stream while sync awaited the projection or one
\* of these sends.
Pc == {"idle", "acquiring", "acquired", "projecting", "opening", "live", "done",
       "abandoned", "dropped", "crashed"}

\* "gaveUp": release failed or timed out, its PUT may still be executed.
\* "lost": the process died while the task was running.
Releasing == {"releasing", "gaveUp", "released"}
Maintaining == {"sleeping", "revoked"}
Keeper == {"none", "lost"} \cup Maintaining \cup Releasing

Entry == [session : Sessions \cup {NoSession}, tx : BOOLEAN, offline : BOOLEAN]
NoEntry == [session |-> NoSession, tx |-> FALSE, offline |-> FALSE]

\* at: the replica that got the request; route: the session whose fence
\* the Lease named; to: the session whose sender was taken; sent: how often the
\* request was put into a stream.
Request == [pc : {"idle", "local", "locating", "forwarding", "sending",
                  "admitted", "waiting", "done"},
            at : Replicas \cup {NoReplica}, attempt : {0, 1},
            route : Sessions \cup {NoSession}, to : Sessions \cup {NoSession},
            sent : Nat]
NoRequest == [pc |-> "idle", at |-> NoReplica, attempt |-> 0,
              route |-> NoSession, to |-> NoSession, sent |-> 0]

\* target: the session whose fence the directory returned with the eviction.
Eviction == [pc : {"idle", "locating", "matching", "removing", "done"},
             target : Sessions \cup {NoSession}]
NoEviction == [pc |-> "idle", target |-> NoSession]

\* A request and an eviction that are over.
EndOf(q) == [NoRequest EXCEPT !.pc = "done", !.sent = q.sent]
Over == [NoEviction EXCEPT !.pc = "done"]

Init ==
    /\ Lease!Init
    /\ pc = [s \in Sessions |-> "idle"]
    /\ valid = [s \in Sessions |-> FALSE]
    /\ cancelled = [s \in Sessions |-> FALSE]
    /\ entry = [r \in Replicas |-> NoEntry]
    /\ keeper = [s \in Sessions |-> "none"]
    /\ request = NoRequest
    /\ eviction = NoEviction

GoTo(s, from, to) == pc[s] = from /\ pc' = [pc EXCEPT ![s] = to]

(***************************************************************************)
(* The registry of a replica                                               *)
(***************************************************************************)

fence_owned_session(r) ==
    /\ valid' = [s \in Sessions |-> valid[s] /\ s /= entry[r].session]
    /\ cancelled' = [s \in Sessions |-> cancelled[s] \/ s = entry[r].session]

register(s) ==
    LET e == entry[ReplicaOf[s]] IN
    /\ entry' = [entry EXCEPT ![ReplicaOf[s]] =
                    [session |-> s, tx |-> TRUE, offline |-> FALSE]]
    /\ valid' = [valid EXCEPT ![s] = TRUE]
    /\ cancelled' = [t \in Sessions |->
                        cancelled[t] \/ (e.tx /\ t = e.session)]

mark_offline(s) ==
    LET e == entry[ReplicaOf[s]] IN
    IF e.session = s /\ ~e.offline
      THEN /\ entry' = [entry EXCEPT ![ReplicaOf[s]].tx = FALSE,
                                     ![ReplicaOf[s]].offline = TRUE]
           /\ cancelled' = [cancelled EXCEPT ![s] = TRUE]
      ELSE UNCHANGED << entry, cancelled >>

remove(r) ==
    /\ entry' = [entry EXCEPT ![r] = NoEntry]
    /\ valid' = [s \in Sessions |-> valid[s] /\ s /= entry[r].session]
    /\ cancelled' = [s \in Sessions |-> cancelled[s] \/ s = entry[r].session]

\* ControllerSession::is_online
is_online(r) == entry[r].tx /\ ~cancelled[entry[r].session]

\* ProxyForwarder::local_session_is_dispatchable
dispatchable(r) == is_online(r) /\ valid[entry[r].session]

\* SessionView::matches_ownership, at the replica that holds the fence of s
matches_ownership(s) == entry[ReplicaOf[s]].session = s /\ valid[s]

(***************************************************************************)
(* FederationSync::sync                                                    *)
(***************************************************************************)

\* The local session is fenced before the Lease is asked for.
Fence(s) ==
    /\ GoTo(s, "idle", "acquiring")
    /\ fence_owned_session(ReplicaOf[s])
    /\ UNCHANGED << lease, entry, keeper, request, eviction >>

\* The coordinator grants the role, perhaps after the caller gave up.
Grant(s) ==
    /\ pc[s] \in {"acquiring", "abandoned"}
    /\ Lease!Grant(s)
    /\ UNCHANGED << session, request, eviction >>

AcquireOk(s) ==
    /\ granted[s] > 0
    /\ GoTo(s, "acquiring", "acquired")
    /\ UNCHANGED << lease, valid, cancelled, entry, keeper, request, eviction >>

\* Conflict, an error, COORDINATION_OPERATION_TIMEOUT or a dropped future.
AcquireFailed(s) ==
    /\ GoTo(s, "acquiring", "abandoned")
    /\ UNCHANGED << lease, valid, cancelled, entry, keeper, request, eviction >>

Register(s) ==
    /\ GoTo(s, "acquired", "projecting")
    /\ register(s)
    /\ UNCHANGED << lease, keeper, request, eviction >>

\* The directory has the registration: sync goes on to its two sends.
ProjectionOk(s) ==
    /\ GoTo(s, "projecting", "opening")
    /\ UNCHANGED << lease, valid, cancelled, entry, keeper, request, eviction >>

\* Both messages are in the channel: maintain_ownership and the loop start.
StartKeeper(s) ==
    /\ GoTo(s, "opening", "live")
    /\ keeper' = [keeper EXCEPT ![s] = "sleeping"]
    /\ UNCHANGED << lease, valid, cancelled, entry, request, eviction >>

\* Mutant: a rejected registration releases the Lease and stays registered.
projectionFailedStaysOnline(s) ==
    /\ GoTo(s, "projecting", "done")
    /\ keeper' = [keeper EXCEPT ![s] = "releasing"]
    /\ UNCHANGED << lease, valid, cancelled, entry, request, eviction >>

\* The registration is rejected: mark_offline, then release_ownership.
ProjectionFailed(s) ==
    /\ GoTo(s, "projecting", "done")
    /\ mark_offline(s)
    /\ keeper' = [keeper EXCEPT ![s] = "releasing"]
    /\ UNCHANGED << lease, valid, request, eviction >>

HandlerDropped(s) ==
    /\ pc[s] \in {"projecting", "opening"}
    /\ pc' = [pc EXCEPT ![s] = "dropped"]
    /\ UNCHANGED << lease, valid, cancelled, entry, keeper, request, eviction >>

\* The loop ends with mark_offline_all ...
EndLoop(s) ==
    /\ GoTo(s, "live", "done")
    /\ mark_offline(s)
    /\ UNCHANGED << lease, valid, keeper, request, eviction >>

LoopCancelled(s) == cancelled[s] /\ EndLoop(s)
LoopClosed(s) == ~cancelled[s] /\ EndLoop(s)

\* ... or, when a message finds the session superseded, without it.
LoopSuperseded(s) ==
    /\ ~valid[s] \/ cancelled[s] \/ entry[ReplicaOf[s]].session /= s
    /\ GoTo(s, "live", "done")
    /\ UNCHANGED << lease, valid, cancelled, entry, keeper, request, eviction >>

(***************************************************************************)
(* maintain_ownership and release_ownership                                *)
(***************************************************************************)

\* Mutant: a cancelled session ends its task and keeps the Lease.
keeperCancelledKeepsLease(s) ==
    /\ keeper[s] = "sleeping" /\ cancelled[s]
    /\ keeper' = [keeper EXCEPT ![s] = "none"]
    /\ valid' = [valid EXCEPT ![s] = FALSE]
    /\ UNCHANGED << lease, pc, cancelled, entry, request, eviction >>

\* The sleep is interrupted: cached ownership is revoked before the release.
KeeperCancelled(s) ==
    /\ keeper[s] = "sleeping" /\ cancelled[s]
    /\ keeper' = [keeper EXCEPT ![s] = "releasing"]
    /\ valid' = [valid EXCEPT ![s] = FALSE]
    /\ UNCHANGED << lease, pc, cancelled, entry, request, eviction >>

\* Mutant: the stream is closed but the cached ownership stays valid.
revokeKeepsFlag(s) ==
    /\ keeper[s] = "sleeping"
    /\ keeper' = [keeper EXCEPT ![s] = "revoked"]
    /\ UNCHANGED << lease, pc, valid, cancelled, entry, request, eviction >>

Revoke(s) ==
    /\ keeper[s] = "sleeping"
    /\ keeper' = [keeper EXCEPT ![s] = "revoked"]
    /\ valid' = [valid EXCEPT ![s] = FALSE]
    /\ UNCHANGED << lease, pc, cancelled, entry, request, eviction >>

\* RenewalOutcome::Lost
KeeperLost(s) == owner /= s /\ Revoke(s)

\* The deadline passed without a successful renewal.
KeeperExpired(s) == Revoke(s)

\* Mutant: a revoked session is left to its peer.
keeperCancelForgotten(s) ==
    /\ keeper[s] = "revoked"
    /\ keeper' = [keeper EXCEPT ![s] = "releasing"]
    /\ UNCHANGED << lease, pc, valid, cancelled, entry, request, eviction >>

\* session_cancel.cancel()
KeeperCancel(s) ==
    /\ keeper[s] = "revoked"
    /\ keeper' = [keeper EXCEPT ![s] = "releasing"]
    /\ cancelled' = [cancelled EXCEPT ![s] = TRUE]
    /\ UNCHANGED << lease, pc, valid, entry, request, eviction >>

\* The Lease is released, perhaps after the caller gave up.
Release(s) ==
    /\ keeper[s] \in {"releasing", "gaveUp"}
    /\ Lease!Release(s)
    /\ keeper' = [keeper EXCEPT ![s] = "released"]
    /\ UNCHANGED << pc, valid, cancelled, entry, request, eviction >>

\* ReleaseOutcome::Lost
ReleaseLost(s) ==
    /\ keeper[s] = "releasing" /\ owner /= s
    /\ keeper' = [keeper EXCEPT ![s] = "released"]
    /\ UNCHANGED << lease, pc, valid, cancelled, entry, request, eviction >>

ReleaseFailed(s) ==
    /\ keeper[s] = "releasing"
    /\ keeper' = [keeper EXCEPT ![s] = "gaveUp"]
    /\ UNCHANGED << lease, pc, valid, cancelled, entry, request, eviction >>

(***************************************************************************)
(* A replica stops or is lost                                              *)
(***************************************************************************)

\* ControllerRegistry::cancel_all, at the start of a graceful shutdown
Drain(r) ==
    /\ is_online(r)
    /\ cancelled' = [cancelled EXCEPT ![entry[r].session] = TRUE]
    /\ entry' = [entry EXCEPT ![r].tx = FALSE]
    /\ UNCHANGED << lease, pc, valid, keeper, request, eviction >>

Running == {"acquired", "projecting", "opening", "live"}

\* The process dies with its handlers, its keepers, its registry and the
\* requests it serves.  A PUT that was sent may still be executed.
Crash(r) ==
    LET lost == {s \in Sessions : ReplicaOf[s] = r} IN
    /\ \/ entry[r] /= NoEntry
       \/ \E s \in lost : pc[s] \in Running \cup {"acquiring"}
       \/ \E s \in lost : keeper[s] \in Maintaining \cup {"releasing"}
    /\ pc' = [s \in Sessions |->
                CASE s \in lost /\ pc[s] = "acquiring" -> "abandoned"
                  [] s \in lost /\ pc[s] \in Running -> "crashed"
                  [] OTHER -> pc[s]]
    /\ keeper' = [s \in Sessions |->
                    CASE s \in lost /\ keeper[s] = "releasing" -> "gaveUp"
                      [] s \in lost /\ keeper[s] \in Maintaining -> "lost"
                      [] OTHER -> keeper[s]]
    /\ valid' = [s \in Sessions |-> valid[s] /\ s \notin lost]
    /\ cancelled' = [s \in Sessions |->
                        cancelled[s] \/ (s \in lost /\ pc[s] \notin {"idle", "acquiring"})]
    /\ entry' = [entry EXCEPT ![r] = NoEntry]
    /\ request' = IF request.at = r THEN EndOf(request) ELSE request
    /\ eviction' = IF eviction.pc = "removing" /\ eviction.target \in lost
                      THEN Over ELSE eviction
    /\ UNCHANGED lease

(***************************************************************************)
(* ProxyForwarder::forward                                                 *)
(***************************************************************************)

\* A dispatchable local session is preferred to a lookup of the owner.
RequestLocal(r) ==
    /\ request.pc = "idle" /\ dispatchable(r)
    /\ request' = [request EXCEPT !.pc = "local", !.at = r]
    /\ UNCHANGED << lease, session, eviction >>

RequestRemote(r) ==
    /\ request.pc = "idle" /\ ~dispatchable(r)
    /\ request' = [request EXCEPT !.pc = "locating", !.at = r]
    /\ UNCHANGED << lease, session, eviction >>

\* forward_local reads the registry again, and asks only for a sender.
LocalGet ==
    /\ request.pc = "local" /\ is_online(request.at)
    /\ request' = [request EXCEPT !.pc = "sending",
                                  !.to = entry[request.at].session]
    /\ UNCHANGED << lease, session, eviction >>

\* KubernetesControllerOwnerLocator::locate: the owner, or nobody when the Lease
\* looks expired, a GET fails or the holder's Pod is not running.
located == {owner, NoSession}

\* The Lease names another replica, and another fence than the one that was
\* stale.
Locate ==
    /\ request.pc = "locating"
    /\ \E s \in located \ {NoSession, request.route} :
         /\ ReplicaOf[s] /= request.at
         /\ request' = [request EXCEPT !.pc = "forwarding", !.route = s]
    /\ UNCHANGED << lease, session, eviction >>

\* forward_fenced_local, on the replica of the route
ForwardMatch ==
    /\ request.pc = "forwarding"
    /\ matches_ownership(request.route) /\ is_online(ReplicaOf[request.route])
    /\ request' = [request EXCEPT !.pc = "sending", !.to = request.route]
    /\ UNCHANGED << lease, session, eviction >>

\* StaleOwnership: the owner is looked up once more.
ForwardStale ==
    /\ request.pc = "forwarding" /\ request.attempt = 0
    /\ ~matches_ownership(request.route)
    /\ request' = [request EXCEPT !.pc = "locating", !.attempt = 1]
    /\ UNCHANGED << lease, session, eviction >>

\* dispatch_to_session: a poll of the biased select looks at the cancellation
\* first.  It is the last look before the send.
Admit ==
    /\ request.pc = "sending"
    /\ ~cancelled[request.to]
    /\ request' = [request EXCEPT !.pc = "admitted"]
    /\ UNCHANGED << lease, session, eviction >>

\* The same poll sends, on another thread than the one that may by now have
\* cancelled the session.  The receiver is gone when the handler was dropped.
Send ==
    /\ request.pc = "admitted"
    /\ pc[request.to] \notin {"dropped", "crashed"}
    /\ request' = [request EXCEPT !.pc = "waiting", !.sent = @ + 1]
    /\ UNCHANGED << lease, session, eviction >>

\* The channel is full: the next poll begins with the cancellation again.
SendPending ==
    /\ request.pc = "admitted"
    /\ request' = [request EXCEPT !.pc = "sending"]
    /\ UNCHANGED << lease, session, eviction >>

\* Mutant: a forwarded request whose result is uncertain is tried once more.
requestEndsWithRetry ==
    /\ request.pc \notin {"idle", "done"}
    /\ request' = IF request.pc = "waiting" /\ request.attempt = 0
                    THEN [request EXCEPT !.pc = "locating", !.attempt = 1]
                    ELSE EndOf(request)
    /\ UNCHANGED << lease, session, eviction >>

\* A response, a timeout, a cancelled session, a closed stream, no route, a
\* route to this replica, a fence that is stale twice, or a transport error.
RequestEnds ==
    /\ request.pc \notin {"idle", "done"}
    /\ request' = EndOf(request)
    /\ UNCHANGED << lease, session, eviction >>

(***************************************************************************)
(* OwnerAwareControllerEvictor::evict_live                                 *)
(***************************************************************************)

\* The directory has recorded the eviction of the session it knew.
EvictStart(s) ==
    /\ eviction.pc = "idle"
    /\ pc[s] \in {"projecting", "opening", "live", "done", "dropped", "crashed"}
    /\ eviction' = [eviction EXCEPT !.pc = "locating", !.target = s]
    /\ UNCHANGED << lease, session, request >>

\* A lookup that finds nobody or another fence ends the eviction.
EvictLocate ==
    /\ eviction.pc = "locating"
    /\ \E s \in located :
         eviction' = IF s = eviction.target
                       THEN [eviction EXCEPT !.pc = "matching"] ELSE Over
    /\ UNCHANGED << lease, session, request >>

\* evict_fenced.  When it does not match, a second lookup either finds the same
\* route, a conflict, or another fence: both end the eviction.
EvictMatch ==
    /\ eviction.pc = "matching"
    /\ eviction' = IF matches_ownership(eviction.target)
                      THEN [eviction EXCEPT !.pc = "removing"] ELSE Over
    /\ UNCHANGED << lease, session, request >>

\* evict_unfenced removes the session that is registered by now.
EvictRemove ==
    /\ eviction.pc = "removing"
    /\ remove(ReplicaOf[eviction.target])
    /\ eviction' = Over
    /\ UNCHANGED << lease, pc, keeper, request >>

(***************************************************************************)
(* Specification                                                           *)
(***************************************************************************)

Sync(s) ==
    \/ Fence(s) \/ AcquireOk(s) \/ AcquireFailed(s) \/ Register(s)
    \/ ProjectionOk(s) \/ StartKeeper(s) \/ ProjectionFailed(s) \/ HandlerDropped(s)
    \/ LoopCancelled(s) \/ LoopClosed(s) \/ LoopSuperseded(s)

Keep(s) ==
    \/ KeeperCancelled(s) \/ KeeperLost(s) \/ KeeperExpired(s) \/ KeeperCancel(s)
    \/ ReleaseLost(s) \/ ReleaseFailed(s)

Admin ==
    \/ \E r \in Askers : RequestLocal(r) \/ RequestRemote(r)
    \/ LocalGet \/ Locate \/ ForwardMatch \/ ForwardStale
    \/ Admit \/ Send \/ SendPending \/ RequestEnds
    \/ \E s \in Evictable : EvictStart(s)
    \/ EvictLocate \/ EvictMatch \/ EvictRemove

Next ==
    \/ \E s \in Sessions : Sync(s) \/ Keep(s) \/ Grant(s) \/ Release(s)
    \/ \E r \in Stopping : Drain(r) \/ Crash(r)
    \/ Admin

Spec == Init /\ [][Next]_vars

\* The directory answers or times out, a cancelled handler and a cancelled
\* keeper are polled, and a keeper whose Lease is gone learns it: it renews
\* every third of the Lease duration, and at its deadline it needs no answer.
\* A release is answered or times out.  Nothing is assumed of the sends that
\* come before maintain_ownership: they end only if the channel has room.
Fairness ==
    \A s \in Sessions :
        /\ WF_vars(ProjectionOk(s) \/ ProjectionFailed(s))
        /\ WF_vars(LoopCancelled(s) \/ LoopSuperseded(s))
        /\ WF_vars(KeeperCancelled(s) \/ KeeperLost(s))
        /\ WF_vars(KeeperCancel(s))
        /\ WF_vars(Release(s) \/ ReleaseLost(s) \/ ReleaseFailed(s))

FairSpec == Spec /\ Fairness

(***************************************************************************)
(* Properties                                                              *)
(***************************************************************************)

TypeOK ==
    /\ owner \in Sessions \cup {NoSession}
    /\ epoch \in Nat
    /\ granted \in [Sessions -> Nat]
    /\ pc \in [Sessions -> Pc]
    /\ valid \in [Sessions -> BOOLEAN]
    /\ cancelled \in [Sessions -> BOOLEAN]
    /\ entry \in [Replicas -> Entry]
    /\ \A r \in Replicas : entry[r].tx => entry[r].session \in Sessions
    /\ keeper \in [Sessions -> Keeper]
    /\ request \in Request
    /\ eviction \in Eviction

\* A session whose sender the registry still hands out has a task that renews
\* its Lease and will revoke it, except until maintain_ownership is spawned, at
\* the end of sync, and for ever if the handler is dropped before that.
OnlineSessionIsMaintained ==
    \A r \in Replicas :
        LET s == entry[r].session IN
        is_online(r) =>
            \/ keeper[s] \in Maintaining
            \/ pc[s] \in {"projecting", "opening", "dropped"}

\* Once a session has begun to give its Lease up, no request gets past the last
\* look at session_cancel before its stream: not one that read the registry
\* before that, neither locally nor after a hop, also when the registration was
\* rejected and ownership_valid still says yes.  A request that was past it may
\* still be sent, on another thread: one poll's worth of overlap.
NoAdmissionAfterRelease ==
    [][request.pc = "sending" /\ request'.pc = "admitted"
         => keeper[request.to] \notin Releasing]_vars

\* A request reaches at most one stream, once: only a fence that was stale
\* before the dispatch is tried again (ProxyForwarder::forward).
SentAtMostOnce == request.sent <= 1

\* A running session whose Lease went to another session loses its cached
\* ownership (maintain_ownership).
StaleOwnerIsRevoked ==
    \A s \in Sessions :
        keeper[s] = "sleeping" /\ owner /= s ~> ~valid[s]

\* A cancelled session does not keep its Lease, unless the release failed, or
\* nobody is there to send it: the process or the handler is gone, or the handler
\* stays for ever in the sends before maintain_ownership.
CancelledLeaseIsGivenUp ==
    \A s \in Sessions :
        cancelled[s] /\ owner = s ~>
            \/ owner /= s
            \/ keeper[s] \in {"gaveUp", "lost"}
            \/ pc[s] \in {"dropped", "crashed"}
            \/ [](pc[s] = "opening")
=============================================================================
