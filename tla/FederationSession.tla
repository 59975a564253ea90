------------------------- MODULE FederationSession -------------------------
(***************************************************************************)
(* The life of a controller's federation sessions in one EdgionCenter      *)
(* process that keeps its directory in SQL (the standalone composition).   *)
(*                                                                         *)
(* A controller opens a stream with FederationSync.sync.  The handler      *)
(* installs the session in the ControllerRegistry (cancelling the session  *)
(* it displaces), announces it to the ResourceAggregator, projects it to   *)
(* the ControllerDirectory and then runs the message loop; when the loop   *)
(* ends, four state holders are told that the controller is offline: the   *)
(* registry, the aggregator, the watch cache and, through the              *)
(* OfflineReconciler's retrying worker, the directory row.                 *)
(*                                                                         *)
(* Every map involved is keyed by the controller id and every operation    *)
(* touches the one key it is called with, so the module follows ONE        *)
(* controller; Sessions are the sync calls that controller makes, which    *)
(* overlap freely.  Each shared structure has its own lock, so a handler   *)
(* is split exactly where it leaves one lock and enters the next, or       *)
(* awaits.  SQL statements commit on their own: a caller's timeout does    *)
(* not undo a statement that was already sent.                             *)
(***************************************************************************)
EXTENDS Naturals

CONSTANTS
    Sessions,      \* the sync calls of the controller
    NoSession,     \* "no session id" (SQL NULL, an absent map entry)
    MaxEvictions,  \* bound: Admin DELETE requests
    MaxRestarts    \* bound: process crashes followed by a restart

ASSUME NoSessionAssumption == NoSession \notin Sessions
ASSUME BoundsAssumption == MaxEvictions \in Nat /\ MaxRestarts \in Nat

VARIABLES
    pc,          \* where the handler of each session is
    observedAt,  \* observed_at_unix_ms of each session, 0 before it is taken
    clock,       \* the last value next_observed_at_ms returned
    cancelled,   \* session_cancel token of each session
    entry,       \* ControllerRegistry: the controller's ControllerSession
    agg,         \* ResourceAggregator: the controller's snapshot
    cache,       \* CenterWatchCacheRegistry: the controller's cache
    hasCache,    \* the session's pm_cache is the cache in the registry
    row,         \* SQL table controllers: the controller's row
    write,       \* each session's registration statement
    task,        \* each session's offline projection worker
    slot,        \* OfflineReconciler.workers[controller]
    admin,       \* where the Admin DELETE handler is
    evictions,   \* Admin DELETE requests so far
    restarts     \* restarts so far

vars == << pc, observedAt, clock, cancelled, entry, agg, cache, hasCache, row,
           write, task, slot, admin, evictions, restarts >>

memory == << entry, agg, cache, hasCache >>
database == << row, write >>
workers == << task, slot >>
environment == << admin, evictions, restarts >>

(***************************************************************************)
(* Values                                                                  *)
(***************************************************************************)
Loop == {"running", "checking", "applying", "backoff", "rewatching"}

\* Awaiting a send on the session's own bounded outbound channel, without a
\* deadline and without a look at the token: RegisterAck and the first watch
\* request (whose receiver is only drained once sync has spawned the forwarder),
\* and the re-watch request of the loop.
Sending == {"acking", "requesting", "rewatching"}
Leaving == {"offAggregator", "offCache", "offSchedule"}
Rejecting == {"failAggregator", "failSchedule"}

\* Sessions that have been installed in the registry and are still handled.
Handled == {"registered", "upserting"} \cup Sending \cup Loop \cup Leaving
              \cup Rejecting

Pc == {"idle", "observed", "done"} \cup Handled

Entry == [session : Sessions \cup {NoSession}, tx : BOOLEAN, offline : BOOLEAN]
NoEntry == [session |-> NoSession, tx |-> FALSE, offline |-> FALSE]

Snapshot == [present : BOOLEAN, online : BOOLEAN,
             stats : Sessions \cup {NoSession}]
NoSnapshot == [present |-> FALSE, online |-> FALSE, stats |-> NoSession]

Cache == [present : BOOLEAN, stale : BOOLEAN]
NoCache == [present |-> FALSE, stale |-> FALSE]

Row == [present : BOOLEAN, online : BOOLEAN, session : Sessions \cup {NoSession},
        observed : Nat, evicted : BOOLEAN]
NoRow == [present |-> FALSE, online |-> FALSE, session |-> NoSession,
          observed |-> 0, evicted |-> FALSE]

WriteState == {"none", "sent", "committed", "stale", "lost"}
TaskState == {"none", "retrying", "check", "cancelled", "marked", "notCurrent",
              "stopped"}
ActiveTask == {"retrying", "check"}

AdminPc == {"idle", "evictRegistry", "evictAggregator", "evictCache"}

Init ==
    /\ pc = [s \in Sessions |-> "idle"]
    /\ observedAt = [s \in Sessions |-> 0]
    /\ clock = 0
    /\ cancelled = [s \in Sessions |-> FALSE]
    /\ entry = NoEntry
    /\ agg = NoSnapshot
    /\ cache = NoCache
    /\ hasCache = [s \in Sessions |-> FALSE]
    /\ row = NoRow
    /\ write = [s \in Sessions |-> "none"]
    /\ task = [s \in Sessions |-> "none"]
    /\ slot = NoSession
    /\ admin = "idle"
    /\ evictions = 0
    /\ restarts = 0

GoTo(s, from, to) == pc[s] = from /\ pc' = [pc EXCEPT ![s] = to]

(***************************************************************************)
(* Shared structures: what one call under one lock does                    *)
(***************************************************************************)

\* Mutant: the displaced session is replaced but not cancelled.
registerWithoutCancel(s) ==
    /\ entry' = [session |-> s, tx |-> TRUE, offline |-> FALSE]
    /\ UNCHANGED cancelled

\* ControllerRegistry::register_owned_cancellable
register(s) ==
    /\ entry' = [session |-> s, tx |-> TRUE, offline |-> FALSE]
    /\ cancelled' = [t \in Sessions |->
                        cancelled[t] \/ (entry.tx /\ t = entry.session)]

\* Mutant: the expected session id is not compared.
transitionsAny(s) == ~entry.offline

\* ControllerRegistry::mark_offline makes a transition only for the session
\* that is installed and not yet offline.
transitions(s) == entry.session = s /\ ~entry.offline

mark_offline(s) ==
    IF transitions(s)
      THEN /\ entry' = [entry EXCEPT !.tx = FALSE, !.offline = TRUE]
           /\ cancelled' = [cancelled EXCEPT ![s] = TRUE]
      ELSE UNCHANGED << entry, cancelled >>

\* ControllerRegistry::remove
remove ==
    /\ entry' = NoEntry
    /\ cancelled' = [t \in Sessions |-> cancelled[t] \/ t = entry.session]

\* ResourceAggregator::set_controller_info, mark_offline, update_stats, remove
set_controller_info ==
    agg' = [present |-> TRUE, online |-> TRUE, stats |-> NoSession]

aggregator_mark_offline == agg' = [agg EXCEPT !.online = FALSE]

update_stats(s) ==
    agg' = IF agg.present THEN [agg EXCEPT !.stats = s] ELSE agg

\* CenterWatchCacheRegistry::get_or_create, mark_offline, remove_controller
get_or_create(s) ==
    /\ cache' = IF cache.present THEN cache
                                 ELSE [present |-> TRUE, stale |-> FALSE]
    /\ hasCache' = [hasCache EXCEPT ![s] = TRUE]

cache_mark_offline == cache' = [cache EXCEPT !.stale = cache.present]

remove_controller ==
    /\ cache' = NoCache
    /\ hasCache' = [s \in Sessions |-> FALSE]

\* A batch outcome recorded by the session's cache handle.  A handle taken
\* before an eviction points to a cache the registry no longer has.
record_stale(s, stale) ==
    cache' = IF hasCache[s] THEN [cache EXCEPT !.stale = stale] ELSE cache

\* Mutant: a registration of an equal revision is accepted.
registrationAppliesToEqual(s) == ~row.present \/ row.observed <= observedAt[s]

(***************************************************************************)
(* Store::project_controller_registration: one conditional upsert.         *)
(***************************************************************************)
registration_applies(s) == ~row.present \/ row.observed < observedAt[s]

project_controller_registration(s) ==
    row' = IF registration_applies(s)
             THEN [present |-> TRUE, online |-> TRUE, session |-> s,
                   observed |-> observedAt[s], evicted |-> FALSE]
             ELSE row

(***************************************************************************)
(* Store::mark_session_offline: a conditional tombstone upsert, then a     *)
(* SELECT that classifies what is stored.                                  *)
(***************************************************************************)
tombstone_applies(s) == row.session = s \/ row.observed < observedAt[s]

\* Mutant: the tombstone also clears the eviction fence.
tombstoneRevives(s) ==
    row' = IF row.present /\ ~tombstone_applies(s)
             THEN row
             ELSE [present |-> TRUE, online |-> FALSE, session |-> s,
                   observed |-> observedAt[s], evicted |-> FALSE]

write_tombstone(s) ==
    row' = CASE ~row.present ->
                  [present |-> TRUE, online |-> FALSE, session |-> s,
                   observed |-> observedAt[s], evicted |-> FALSE]
             [] row.present /\ tombstone_applies(s) ->
                  [row EXCEPT !.online = FALSE, !.session = s,
                              !.observed = IF @ < observedAt[s]
                                             THEN observedAt[s] ELSE @]
             [] OTHER -> row

tombstone_not_current(s) == row.evicted \/ row.observed > observedAt[s]
tombstone_marked(s) ==
    row.observed = observedAt[s] /\ row.session = s /\ ~row.online

\* Store::evict_controller
evict_controller ==
    row' = IF row.present /\ ~row.evicted
             THEN [row EXCEPT !.evicted = TRUE, !.online = FALSE,
                              !.session = NoSession]
             ELSE row

\* OfflineReconciler::cancel
cancel_worker ==
    /\ slot' = NoSession
    /\ task' = [t \in Sessions |->
                  IF t = slot /\ task[t] \in ActiveTask THEN "cancelled"
                                                        ELSE task[t]]

\* Mutant: the previous worker is forgotten but not cancelled.
scheduleWithoutCancel(s) ==
    slot' = s /\ task' = [task EXCEPT ![s] = "retrying"]

\* OfflineReconciler::schedule
schedule(s) ==
    /\ slot' = s
    /\ task' = [t \in Sessions |->
                  IF t = s THEN "retrying"
                  ELSE IF t = slot /\ task[t] \in ActiveTask THEN "cancelled"
                  ELSE task[t]]

(***************************************************************************)
(* FederationSync::sync: registration                                      *)
(***************************************************************************)

\* A valid RegisterRequest arrived: the session id and its revision are taken.
Begin(s) ==
    /\ GoTo(s, "idle", "observed")
    /\ clock' = clock + 1
    /\ observedAt' = [observedAt EXCEPT ![s] = clock + 1]
    /\ UNCHANGED << cancelled, memory, database, workers, environment >>

Register(s) ==
    /\ GoTo(s, "observed", "registered")
    /\ register(s)
    /\ UNCHANGED << observedAt, clock, agg, cache, hasCache, database, workers,
                    environment >>

\* set_controller_info, and the registration statement is sent.
Announce(s) ==
    /\ GoTo(s, "registered", "upserting")
    /\ set_controller_info
    /\ write' = [write EXCEPT ![s] = "sent"]
    /\ UNCHANGED << observedAt, clock, cancelled, entry, cache, hasCache, row,
                    workers, environment >>

\* The database executes the statement, whether or not the caller still waits.
CommitRegistration(s) ==
    /\ write[s] = "sent"
    /\ project_controller_registration(s)
    /\ write' = [write EXCEPT ![s] =
                    IF registration_applies(s) THEN "committed" ELSE "stale"]
    /\ UNCHANGED << pc, observedAt, clock, cancelled, memory, workers,
                    environment >>

\* The statement never reaches the table (connection or pool error).
LoseRegistration(s) ==
    /\ write[s] = "sent"
    /\ write' = [write EXCEPT ![s] = "lost"]
    /\ UNCHANGED << pc, observedAt, clock, cancelled, memory, row, workers,
                    environment >>

\* Ok(Ok(())): the pending offline projection of the controller is dropped.
ProjectionOk(s) ==
    /\ GoTo(s, "upserting", "acking")
    /\ write[s] = "committed"
    /\ cancel_worker
    /\ UNCHANGED << observedAt, clock, cancelled, memory, database,
                    environment >>

\* An error, or CONTROLLER_PROJECTION_TIMEOUT: also when the statement has
\* committed or will commit later.
ProjectionFailed(s) ==
    /\ GoTo(s, "upserting", "failAggregator")
    /\ mark_offline(s)
    /\ UNCHANGED << observedAt, clock, agg, cache, hasCache, database, workers,
                    environment >>

\* tonic drops the future of sync when the peer resets the stream while it
\* awaits the projection or one of its two sends: nothing that was done so far
\* is undone.
HandlerDropped(s) ==
    /\ pc[s] \in {"upserting", "acking", "requesting"}
    /\ pc' = [pc EXCEPT ![s] = "done"]
    /\ UNCHANGED << observedAt, clock, cancelled, memory, database, workers,
                    environment >>

RejectAggregator(s) ==
    /\ GoTo(s, "failAggregator", "failSchedule")
    /\ aggregator_mark_offline
    /\ UNCHANGED << observedAt, clock, cancelled, entry, cache, hasCache,
                    database, workers, environment >>

RejectSchedule(s) ==
    /\ GoTo(s, "failSchedule", "done")
    /\ schedule(s)
    /\ UNCHANGED << observedAt, clock, cancelled, memory, database,
                    environment >>

\* RegisterAck is in the channel: the cache handle, and the first watch request.
OpenWatch(s) ==
    /\ GoTo(s, "acking", "requesting")
    /\ get_or_create(s)
    /\ UNCHANGED << observedAt, clock, cancelled, entry, agg, database,
                    workers, environment >>

\* The watch request is in the channel: forwarder, heartbeat and loop start.
StartLoop(s) ==
    /\ GoTo(s, "requesting", "running")
    /\ UNCHANGED << observedAt, clock, cancelled, memory, database, workers,
                    environment >>

(***************************************************************************)
(* FederationSync::sync: the message loop                                  *)
(***************************************************************************)

\* mark_offline_all starts with the registry's guard and returns when it
\* makes no transition.
MarkOfflineAll(s) ==
    /\ pc' = [pc EXCEPT ![s] =
                IF transitions(s) THEN "offAggregator" ELSE "done"]
    /\ mark_offline(s)
    /\ UNCHANGED << observedAt, clock, agg, cache, hasCache, database, workers,
                    environment >>

\* Mutant: the token is ignored by a session that is no longer current.
loopCancelledIfCurrent(s) ==
    pc[s] = "running" /\ cancelled[s] /\ entry.session = s /\ MarkOfflineAll(s)

\* The biased select sees the cancelled token first.
LoopCancelled(s) == pc[s] = "running" /\ cancelled[s] /\ MarkOfflineAll(s)

\* The stream failed or was closed by the controller.
LoopClosed(s) == pc[s] = "running" /\ ~cancelled[s] /\ MarkOfflineAll(s)

OffAggregator(s) ==
    /\ GoTo(s, "offAggregator", "offCache")
    /\ aggregator_mark_offline
    /\ UNCHANGED << observedAt, clock, cancelled, entry, cache, hasCache,
                    database, workers, environment >>

OffCache(s) ==
    /\ GoTo(s, "offCache", "offSchedule")
    /\ cache_mark_offline
    /\ UNCHANGED << observedAt, clock, cancelled, entry, agg, hasCache,
                    database, workers, environment >>

OffSchedule(s) ==
    /\ GoTo(s, "offSchedule", "done")
    /\ schedule(s)
    /\ UNCHANGED << observedAt, clock, cancelled, memory, database,
                    environment >>

Receive(s) ==
    /\ GoTo(s, "running", "checking")
    /\ ~cancelled[s]
    /\ UNCHANGED << observedAt, clock, cancelled, memory, database, workers,
                    environment >>

\* "Session superseded by takeover, stopping stale loop": the loop ends here
\* without mark_offline_all.
is_current_session(s) == entry.session = s

CheckMessage(s) ==
    /\ GoTo(s, "checking",
            IF cancelled[s] \/ ~is_current_session(s) THEN "done"
                                                      ELSE "applying")
    /\ UNCHANGED << observedAt, clock, cancelled, memory, database, workers,
                    environment >>

\* One of the later re-checks sees the token and continues the loop.
RecheckCancelled(s) ==
    /\ GoTo(s, "applying", "running")
    /\ cancelled[s]
    /\ UNCHANGED << observedAt, clock, cancelled, memory, database, workers,
                    environment >>

\* The payload is handled after the last re-check; a Pong and a proxy
\* response touch none of this module's state.
ApplyOther(s) ==
    /\ GoTo(s, "applying", "running")
    /\ UNCHANGED << observedAt, clock, cancelled, memory, database, workers,
                    environment >>

\* A watch batch is applied, or stops the watch (overflow, Forbidden).
ApplyWatch(s) ==
    /\ GoTo(s, "applying", "running")
    /\ \E stale \in BOOLEAN : record_stale(s, stale)
    /\ UNCHANGED << observedAt, clock, cancelled, entry, agg, hasCache,
                    database, workers, environment >>

ApplyStats(s) ==
    /\ GoTo(s, "applying", "running")
    /\ update_stats(s)
    /\ UNCHANGED << observedAt, clock, cancelled, entry, cache, hasCache,
                    database, workers, environment >>

\* A malformed batch or a watch error: backoff_then_rewatch.
ApplyFailed(s) ==
    /\ GoTo(s, "applying", "backoff")
    /\ UNCHANGED << observedAt, clock, cancelled, memory, database, workers,
                    environment >>

\* A reloaded or replaced server is watched again at once.
ApplyReWatch(s) ==
    /\ GoTo(s, "applying", "rewatching")
    /\ UNCHANGED << observedAt, clock, cancelled, memory, database, workers,
                    environment >>

BackoffElapsed(s) ==
    /\ GoTo(s, "backoff", "rewatching")
    /\ UNCHANGED << observedAt, clock, cancelled, memory, database, workers,
                    environment >>

\* The re-watch request is in the channel, or its receiver is gone.
ReWatched(s) ==
    /\ GoTo(s, "rewatching", "running")
    /\ UNCHANGED << observedAt, clock, cancelled, memory, database, workers,
                    environment >>

\* The token, or the closed outbound channel, ends the backoff and the loop.
BackoffStopped(s) ==
    /\ GoTo(s, "backoff", "done")
    /\ UNCHANGED << observedAt, clock, cancelled, memory, database, workers,
                    environment >>

\* Heartbeat task: no Pong within the budget.
HeartbeatTimeout(s) ==
    /\ pc[s] \in Loop
    /\ ~cancelled[s]
    /\ cancelled' = [cancelled EXCEPT ![s] = TRUE]
    /\ UNCHANGED << pc, observedAt, clock, memory, database, workers,
                    environment >>

(***************************************************************************)
(* project_offline_with_retry, run by an OfflineReconciler worker          *)
(***************************************************************************)

WorkerWrite(s) ==
    /\ task[s] = "retrying"
    /\ write_tombstone(s)
    /\ task' = [task EXCEPT ![s] = "check"]
    /\ UNCHANGED << pc, observedAt, clock, cancelled, memory, write, slot,
                    environment >>

\* Mutant: NotCurrent is retried like a failure.
workerFinishOnlyMarked(s) ==
    /\ task[s] = "check"
    /\ ~tombstone_not_current(s) /\ tombstone_marked(s)
    /\ task' = [task EXCEPT ![s] = "marked"]
    /\ slot' = IF slot = s THEN NoSession ELSE slot
    /\ UNCHANGED << pc, observedAt, clock, cancelled, memory, database,
                    environment >>

\* The SELECT; a finished worker clears the slot if the slot is still its own.
WorkerFinish(s) ==
    /\ task[s] = "check"
    /\ tombstone_not_current(s) \/ tombstone_marked(s)
    /\ task' = [task EXCEPT ![s] =
                  IF tombstone_not_current(s) THEN "notCurrent" ELSE "marked"]
    /\ slot' = IF slot = s THEN NoSession ELSE slot
    /\ UNCHANGED << pc, observedAt, clock, cancelled, memory, database,
                    environment >>

\* The attempt fails or times out and is tried again after the backoff.
WorkerRetry(s) ==
    /\ task[s] = "check"
    /\ task' = [task EXCEPT ![s] = "retrying"]
    /\ UNCHANGED << pc, observedAt, clock, cancelled, memory, database, slot,
                    environment >>

\* A cancelled worker stops; a tombstone it had already sent may still commit.
\* (A tombstone of s that commits again after its first commit changes nothing:
\* the row then has a revision of at least observedAt[s].)
WorkerStop(s) ==
    /\ task[s] = "cancelled"
    /\ task' = [task EXCEPT ![s] = "stopped"]
    /\ write_tombstone(s) \/ row' = row
    /\ UNCHANGED << pc, observedAt, clock, cancelled, memory, write, slot,
                    environment >>

(***************************************************************************)
(* Admin DELETE: directory.evict, then LocalControllerEvictor              *)
(***************************************************************************)
AdminEvictRow ==
    /\ admin = "idle"
    /\ evictions < MaxEvictions
    /\ evictions' = evictions + 1
    /\ admin' = "evictRegistry"
    /\ evict_controller
    /\ UNCHANGED << pc, observedAt, clock, cancelled, memory, write, workers,
                    restarts >>

AdminEvictRegistry ==
    /\ admin = "evictRegistry"
    /\ admin' = "evictAggregator"
    /\ remove
    /\ UNCHANGED << pc, observedAt, clock, agg, cache, hasCache, database,
                    workers, evictions, restarts >>

AdminEvictAggregator ==
    /\ admin = "evictAggregator"
    /\ admin' = "evictCache"
    /\ agg' = NoSnapshot
    /\ UNCHANGED << pc, observedAt, clock, cancelled, entry, cache, hasCache,
                    database, workers, evictions, restarts >>

AdminEvictCache ==
    /\ admin = "evictCache"
    /\ admin' = "idle"
    /\ remove_controller
    /\ UNCHANGED << pc, observedAt, clock, cancelled, entry, agg, database,
                    workers, evictions, restarts >>

(***************************************************************************)
(* The process dies and starts again.  Nothing but the row survives, and   *)
(* Store::connect runs reset_controller_sessions on it.  The next revision *)
(* starts again from the wall clock, which may have been set back.         *)
(***************************************************************************)
\* Mutant: the revision survives the restart.
resetKeepsRevision ==
    row' = [row EXCEPT !.online = FALSE, !.session = NoSession]

reset_controller_sessions ==
    row' = [row EXCEPT !.online = FALSE, !.session = NoSession, !.observed = 0]

Restart ==
    /\ restarts < MaxRestarts
    /\ restarts' = restarts + 1
    /\ pc' = [s \in Sessions |-> IF pc[s] = "idle" THEN "idle" ELSE "done"]
    /\ observedAt' = [s \in Sessions |-> 0]
    /\ clock' \in 0 .. clock
    /\ cancelled' = [s \in Sessions |-> FALSE]
    /\ entry' = NoEntry
    /\ agg' = NoSnapshot
    /\ cache' = NoCache
    /\ hasCache' = [s \in Sessions |-> FALSE]
    /\ reset_controller_sessions
    /\ write' = [s \in Sessions |-> "none"]
    /\ task' = [s \in Sessions |-> "none"]
    /\ slot' = NoSession
    /\ admin' = "idle"
    /\ UNCHANGED evictions

(***************************************************************************)
(* The specification                                                       *)
(***************************************************************************)
Apply(s) ==
    \/ RecheckCancelled(s) \/ ApplyOther(s) \/ ApplyWatch(s)
    \/ ApplyStats(s) \/ ApplyFailed(s) \/ ApplyReWatch(s)

Backoff(s) == BackoffElapsed(s) \/ BackoffStopped(s)

Handle(s) ==
    \/ Register(s) \/ Announce(s) \/ ProjectionOk(s) \/ ProjectionFailed(s)
    \/ RejectAggregator(s) \/ RejectSchedule(s)
    \/ LoopCancelled(s) \/ CheckMessage(s) \/ Apply(s) \/ Backoff(s)
    \/ OffAggregator(s) \/ OffCache(s) \/ OffSchedule(s)

\* What a send awaits: that the peer reads its stream.
Send(s) == OpenWatch(s) \/ StartLoop(s) \/ ReWatched(s)

Controller(s) ==
    \/ Begin(s) \/ HandlerDropped(s) \/ Receive(s) \/ LoopClosed(s)
    \/ HeartbeatTimeout(s)

Database(s) == CommitRegistration(s) \/ LoseRegistration(s)

Worker(s) ==
    WorkerWrite(s) \/ WorkerFinish(s) \/ WorkerRetry(s) \/ WorkerStop(s)

Admin ==
    \/ AdminEvictRow \/ AdminEvictRegistry \/ AdminEvictAggregator
    \/ AdminEvictCache

Next ==
    \/ \E s \in Sessions :
          Handle(s) \/ Send(s) \/ Controller(s) \/ Database(s) \/ Worker(s)
    \/ Admin
    \/ Restart

Spec == Init /\ [][Next]_vars

(***************************************************************************)
(* Fairness: tokio polls every ready task, the projection deadline is a    *)
(* timer, and the directory is not unavailable for ever, so an attempt of  *)
(* a worker that keeps retrying gets an answer in the end.  Nothing is     *)
(* assumed of the controller, the admin or the registration statement, nor *)
(* of a send on the outbound channel, which ends only if the peer reads.   *)
(***************************************************************************)
Fairness ==
    /\ \A s \in Sessions : WF_vars(Handle(s))
    /\ \A s \in Sessions : WF_vars(WorkerWrite(s)) /\ SF_vars(WorkerFinish(s))
    /\ WF_vars(AdminEvictRegistry \/ AdminEvictAggregator \/ AdminEvictCache)

FairSpec == Spec /\ Fairness

(***************************************************************************)
(* Invariants                                                              *)
(***************************************************************************)

\* The type invariant.
TypeOK ==
    /\ pc \in [Sessions -> Pc]
    /\ observedAt \in [Sessions -> Nat]
    /\ clock \in Nat
    /\ cancelled \in [Sessions -> BOOLEAN]
    /\ entry \in Entry
    /\ agg \in Snapshot
    /\ cache \in Cache
    /\ hasCache \in [Sessions -> BOOLEAN]
    /\ row \in Row
    /\ write \in [Sessions -> WriteState]
    /\ task \in [Sessions -> TaskState]
    /\ slot \in Sessions \cup {NoSession}
    /\ admin \in AdminPc
    /\ evictions \in Nat
    /\ restarts \in Nat

\* A handler that has been registered and whose token is not cancelled is the
\* session the registry holds, with its sender.  A takeover, a disconnect and an
\* Admin DELETE each cancel the session they take out of the registry, so two
\* handlers of one controller never both believe they are live.
UncancelledIsCurrent ==
    \A s \in Sessions :
        pc[s] \in Handled /\ ~cancelled[s] =>
            entry.session = s /\ entry.tx /\ ~entry.offline

\* Once a worker has written the tombstone of a session, the row never shows
\* that session online again, although the session's own registration
\* statement may still commit after its caller timed out ("Retry a conditional
\* offline projection so a late commit is fenced").
TombstoneFencesLateCommit ==
    \A s \in Sessions :
        task[s] \in {"check", "marked", "notCurrent"} =>
            /\ row.observed >= observedAt[s]
            /\ ~(row.online /\ row.session = s)

\* mark_session_offline's SELECT, which runs outside the tombstone's statement,
\* never meets a row it must reject with "offline tombstone invariant failed".
TombstoneCheckNeverBails ==
    \A s \in Sessions :
        task[s] = "check" => tombstone_not_current(s) \/ tombstone_marked(s)

\* The reconciler runs at most one worker per controller, the one in its slot:
\* reconnect churn replaces and cancels the previous worker.
OneOfflineWorker ==
    \A s \in Sessions : task[s] \in ActiveTask => slot = s

\* The fencing revision of the row is that of a session of this process, or 0:
\* after a restart no registration is refused because of a revision that a
\* previous process stored, even if the wall clock was set back.
RevisionOfThisProcess ==
    row.observed > 0 => \E s \in Sessions : observedAt[s] = row.observed

(***************************************************************************)
(* Action properties                                                       *)
(***************************************************************************)

\* A stale task never touches its successor's registry entry: an installed
\* session is put offline only by a step of its own handler.
StaleTaskSparesRegistry ==
    [][\A s \in Sessions :
         /\ entry.session = s /\ ~entry.offline
         /\ entry'.session = s /\ entry'.offline
         => pc'[s] /= pc[s]]_vars

\* Within one process the fencing revision of the row never goes back, so a
\* delayed statement of an older session cannot replace a newer one's.
RevisionNeverGoesBack ==
    [][restarts' = restarts => row'.observed >= row.observed]_vars

\* An evicted row comes back only through a registration with a strictly newer
\* revision; an offline projection scheduled before the eviction cannot
\* recreate it.
EvictionHoldsUntilNewer ==
    [][row.evicted /\ ~row'.evicted
         => row'.online /\ row'.observed > row.observed]_vars

(***************************************************************************)
(* Liveness                                                                *)
(***************************************************************************)

\* A cancelled session (taken over, evicted, heartbeat lost) ends, whatever it
\* was doing, unless it stays for ever in one of the three sends that look
\* neither at the token nor at a clock (the channel is full and nobody reads).
CancelledHandlerEnds ==
    \A s \in Sessions :
        pc[s] \in Handled /\ cancelled[s] ~>
            pc[s] = "done" \/ [](pc[s] \in Sending)

\* An offline worker that is not cancelled ends, and then the row does not show
\* its session online.
OfflineWorkerSettles ==
    \A s \in Sessions :
        task[s] = "retrying" ~>
            \/ task[s] \in {"none", "cancelled", "stopped"}
            \/ task[s] \in {"marked", "notCurrent"}
                 /\ ~(row.online /\ row.session = s)

(***************************************************************************)
(* What a comment of the repository says and the code does not do          *)
(***************************************************************************)

\* "One latest desired offline projection per controller": a session that went
\* offline is in the end not shown online by the row.
OfflineReachesRow ==
    \A s \in Sessions :
        pc[s] = "offSchedule" ~> ~(row.online /\ row.session = s)
=============================================================================
