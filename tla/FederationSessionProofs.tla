---------------------- MODULE FederationSessionProofs ----------------------
(***************************************************************************)
(* Proofs about FederationSession, for any number of sessions, evictions   *)
(* and restarts.                                                           *)
(***************************************************************************)
EXTENDS FederationSession, TLAPS

(***************************************************************************)
(* The inductive invariant                                                 *)
(***************************************************************************)

\* A session has a revision from Begin until the process ends.
RevisionsTaken ==
    \A s \in Sessions :
        /\ observedAt[s] <= clock
        /\ pc[s] = "idle" => observedAt[s] = 0
        /\ pc[s] \notin {"idle", "done"} => observedAt[s] > 0
        /\ write[s] = "sent" => observedAt[s] > 0
        /\ task[s] /= "none" => pc[s] = "done" /\ observedAt[s] > 0

\* next_observed_at_ms never returns one value twice.
RevisionsDistinct ==
    \A s, t \in Sessions :
        observedAt[s] > 0 /\ observedAt[s] = observedAt[t] => s = t

\* What is stored belongs together: a row names the session whose revision it
\* carries, unless it was evicted or reset.
RowConsistent ==
    /\ ~row.present => row.observed = 0 /\ ~row.evicted
    /\ row.online => row.session \in Sessions
    /\ row.session \in Sessions =>
         row.observed > 0 /\ observedAt[row.session] = row.observed
    /\ row.observed > 0 /\ ~row.evicted => row.session \in Sessions
    /\ RevisionOfThisProcess

IInv ==
    /\ TypeOK
    /\ UncancelledIsCurrent
    /\ OneOfflineWorker
    /\ RevisionsTaken
    /\ RevisionsDistinct
    /\ RowConsistent
    /\ TombstoneFencesLateCommit

(***************************************************************************)
(* What the calls on the shared structures do to them                      *)
(***************************************************************************)

\* The registry's mark_offline keeps the types, touches only the session it is
\* called with, and changes the entry only of that session.
LEMMA MarkOfflineEffect ==
    ASSUME TypeOK, NEW s \in Sessions, mark_offline(s)
    PROVE  /\ entry' \in Entry
           /\ cancelled' \in [Sessions -> BOOLEAN]
           /\ entry'.session = entry.session
           /\ entry.session /= s => entry' = entry /\ cancelled' = cancelled
           /\ \A t \in Sessions : t /= s => cancelled'[t] = cancelled[t]
           /\ \A t \in Sessions : cancelled[t] => cancelled'[t]
           /\ transitions(s) => cancelled'[s]
           /\ ~transitions(s) => entry' = entry /\ cancelled' = cancelled
  BY DEF TypeOK, mark_offline, transitions, Entry

\* The aggregator's mark_offline keeps its type.
LEMMA AggregatorOfflineEffect ==
    ASSUME TypeOK, aggregator_mark_offline
    PROVE  agg' \in Snapshot
  BY DEF TypeOK, aggregator_mark_offline, Snapshot

\* Likewise the cache.
LEMMA CacheOfflineEffect ==
    ASSUME TypeOK, cache_mark_offline
    PROVE  cache' \in Cache
  BY DEF TypeOK, cache_mark_offline, Cache

\* The registration statement either leaves the row alone or makes it the row
\* of the session.
LEMMA RegistrationEffect ==
    ASSUME TypeOK, NEW s \in Sessions, project_controller_registration(s)
    PROVE  /\ row' \in Row
           /\ ~registration_applies(s) => row' = row
           /\ registration_applies(s) =>
                /\ row'.present /\ row'.online /\ ~row'.evicted
                /\ row'.session = s
                /\ row'.observed = observedAt[s]
  BY DEF TypeOK, project_controller_registration, Row

\* The tombstone either leaves the row alone or takes it offline for the session
\* with a revision that is not lower.
LEMMA TombstoneEffect ==
    ASSUME TypeOK, NEW s \in Sessions, write_tombstone(s)
    PROVE  /\ row' \in Row
           /\ row.present /\ ~tombstone_applies(s) => row' = row
           /\ ~row.present =>
                /\ row'.present /\ ~row'.online /\ ~row'.evicted
                /\ row'.session = s
                /\ row'.observed = observedAt[s]
           /\ row.present /\ tombstone_applies(s) =>
                /\ row'.present /\ ~row'.online /\ row'.evicted = row.evicted
                /\ row'.session = s
                /\ row'.observed = IF row.observed < observedAt[s]
                                     THEN observedAt[s] ELSE row.observed
<1>1. CASE ~row.present
  BY <1>1 DEF TypeOK, write_tombstone, Row
<1>2. CASE row.present /\ tombstone_applies(s)
  <2>1. row' = [row EXCEPT !.online = FALSE, !.session = s,
                           !.observed = IF @ < observedAt[s]
                                          THEN observedAt[s] ELSE @]
    BY <1>2 DEF write_tombstone
  <2>2. row \in Row /\ observedAt[s] \in Nat
    BY DEF TypeOK
  <2> QED
    BY <1>2, <2>1, <2>2 DEF Row
<1>3. CASE row.present /\ ~tombstone_applies(s)
  BY <1>3 DEF TypeOK, write_tombstone
<1> QED
  BY <1>1, <1>2, <1>3

\* The eviction keeps the revision and touches an evicted row no more.
LEMMA EvictionEffect ==
    ASSUME TypeOK, evict_controller
    PROVE  /\ row' \in Row
           /\ row'.observed = row.observed
           /\ row'.present = row.present
           /\ row.evicted => row' = row
           /\ row' /= row =>
                row'.session = NoSession /\ ~row'.online /\ row'.evicted
  BY DEF TypeOK, evict_controller, Row

\* The reset at start-up keeps nothing but presence and eviction.
LEMMA ResetEffect ==
    ASSUME TypeOK, reset_controller_sessions
    PROVE  /\ row' \in Row
           /\ row'.observed = 0 /\ row'.session = NoSession /\ ~row'.online
           /\ row'.present = row.present /\ row'.evicted = row.evicted
  BY DEF TypeOK, reset_controller_sessions, Row

(***************************************************************************)
(* Types                                                                   *)
(***************************************************************************)

\* Every action keeps the type invariant.
LEMMA TypePreserved ==
    TypeOK /\ [Next]_vars
      => TypeOK'
<1> SUFFICES ASSUME TypeOK, [Next]_vars
             PROVE  TypeOK'
  OBVIOUS
<1> USE BoundsAssumption
      DEF TypeOK, Pc, Handled, Sending, Loop, Leaving, Rejecting, NoEntry,
          NoSnapshot, NoCache, WriteState, TaskState, AdminPc, GoTo, memory, database,
          workers, environment
<1>1. ASSUME NEW s \in Sessions, Begin(s) PROVE TypeOK'
  BY <1>1 DEF Begin
<1>2. ASSUME NEW s \in Sessions, Register(s) PROVE TypeOK'
  BY <1>2 DEF Register, register, Entry
<1>3. ASSUME NEW s \in Sessions, Announce(s) PROVE TypeOK'
  BY <1>3 DEF Announce, set_controller_info, Snapshot
<1>4. ASSUME NEW s \in Sessions, CommitRegistration(s) PROVE TypeOK'
  BY <1>4, RegistrationEffect DEF CommitRegistration
<1>5. ASSUME NEW s \in Sessions, LoseRegistration(s) PROVE TypeOK'
  BY <1>5 DEF LoseRegistration
<1>6. ASSUME NEW s \in Sessions, ProjectionOk(s) PROVE TypeOK'
  BY <1>6 DEF ProjectionOk, cancel_worker
<1>7. ASSUME NEW s \in Sessions, ProjectionFailed(s) PROVE TypeOK'
  BY <1>7, MarkOfflineEffect DEF ProjectionFailed
<1>8. ASSUME NEW s \in Sessions, RejectAggregator(s) PROVE TypeOK'
  BY <1>8, AggregatorOfflineEffect DEF RejectAggregator
<1>9. ASSUME NEW s \in Sessions, RejectSchedule(s) PROVE TypeOK'
  BY <1>9 DEF RejectSchedule, schedule
<1>10. ASSUME NEW s \in Sessions, OpenWatch(s) PROVE TypeOK'
  BY <1>10 DEF OpenWatch, get_or_create, Cache
<1>11. ASSUME NEW s \in Sessions, LoopCancelled(s) PROVE TypeOK'
  BY <1>11, MarkOfflineEffect DEF LoopCancelled, MarkOfflineAll
<1>12. ASSUME NEW s \in Sessions, LoopClosed(s) PROVE TypeOK'
  BY <1>12, MarkOfflineEffect DEF LoopClosed, MarkOfflineAll
<1>13. ASSUME NEW s \in Sessions, OffAggregator(s) PROVE TypeOK'
  BY <1>13, AggregatorOfflineEffect DEF OffAggregator
<1>14. ASSUME NEW s \in Sessions, OffCache(s) PROVE TypeOK'
  BY <1>14, CacheOfflineEffect DEF OffCache
<1>15. ASSUME NEW s \in Sessions, OffSchedule(s) PROVE TypeOK'
  BY <1>15 DEF OffSchedule, schedule
<1>16. ASSUME NEW s \in Sessions, Receive(s) PROVE TypeOK'
  BY <1>16 DEF Receive
<1>17. ASSUME NEW s \in Sessions, CheckMessage(s) PROVE TypeOK'
  BY <1>17 DEF CheckMessage
<1>18. ASSUME NEW s \in Sessions, RecheckCancelled(s) PROVE TypeOK'
  BY <1>18 DEF RecheckCancelled
<1>19. ASSUME NEW s \in Sessions, ApplyOther(s) PROVE TypeOK'
  BY <1>19 DEF ApplyOther
<1>20. ASSUME NEW s \in Sessions, ApplyWatch(s) PROVE TypeOK'
  BY <1>20 DEF ApplyWatch, record_stale, Cache
<1>21. ASSUME NEW s \in Sessions, ApplyStats(s) PROVE TypeOK'
  BY <1>21 DEF ApplyStats, update_stats, Snapshot
<1>22. ASSUME NEW s \in Sessions, ApplyFailed(s) PROVE TypeOK'
  BY <1>22 DEF ApplyFailed
<1>23. ASSUME NEW s \in Sessions, BackoffElapsed(s) PROVE TypeOK'
  BY <1>23 DEF BackoffElapsed
<1>24. ASSUME NEW s \in Sessions, BackoffStopped(s) PROVE TypeOK'
  BY <1>24 DEF BackoffStopped
<1>25. ASSUME NEW s \in Sessions, HeartbeatTimeout(s) PROVE TypeOK'
  BY <1>25 DEF HeartbeatTimeout
<1>26. ASSUME NEW s \in Sessions, HandlerDropped(s) PROVE TypeOK'
  BY <1>26 DEF HandlerDropped
<1>27. ASSUME NEW s \in Sessions, WorkerWrite(s) PROVE TypeOK'
  BY <1>27, TombstoneEffect DEF WorkerWrite
<1>28. ASSUME NEW s \in Sessions, WorkerFinish(s) PROVE TypeOK'
  BY <1>28 DEF WorkerFinish
<1>29. ASSUME NEW s \in Sessions, WorkerRetry(s) PROVE TypeOK'
  BY <1>29 DEF WorkerRetry
<1>30. ASSUME NEW s \in Sessions, WorkerStop(s) PROVE TypeOK'
  BY <1>30, TombstoneEffect DEF WorkerStop
<1>31. CASE AdminEvictRow
  BY <1>31, EvictionEffect DEF AdminEvictRow
<1>32. CASE AdminEvictRegistry
  BY <1>32 DEF AdminEvictRegistry, remove, Entry
<1>33. CASE AdminEvictAggregator
  BY <1>33 DEF AdminEvictAggregator, Snapshot
<1>34. CASE AdminEvictCache
  BY <1>34 DEF AdminEvictCache, remove_controller, Cache
<1>35. CASE Restart
  BY <1>35, ResetEffect DEF Restart, Entry, Snapshot, Cache
<1>36. CASE UNCHANGED vars
  BY <1>36 DEF vars
<1>37. ASSUME NEW s \in Sessions, StartLoop(s) PROVE TypeOK'
  BY <1>37 DEF StartLoop
<1>38. ASSUME NEW s \in Sessions, ApplyReWatch(s) PROVE TypeOK'
  BY <1>38 DEF ApplyReWatch
<1>39. ASSUME NEW s \in Sessions, ReWatched(s) PROVE TypeOK'
  BY <1>39 DEF ReWatched
<1> QED
  BY <1>1, <1>2, <1>3, <1>4, <1>5, <1>6, <1>7, <1>8, <1>9, <1>10, <1>11,
     <1>12, <1>13, <1>14, <1>15, <1>16, <1>17, <1>18, <1>19, <1>20, <1>21,
     <1>22, <1>23, <1>24, <1>25, <1>26, <1>27, <1>28, <1>29, <1>30, <1>31, <1>32,
     <1>33, <1>34, <1>35, <1>36, <1>37, <1>38, <1>39
     DEF Next, Handle, Send, Controller, Database, Worker, Admin, Apply, Backoff

(***************************************************************************)
(* The registry and the handlers                                           *)
(***************************************************************************)

\* Whoever takes a session out of the registry, or puts it offline there, also
\* cancels its token.
LEMMA UncancelledPreserved ==
    TypeOK /\ UncancelledIsCurrent /\ [Next]_vars
      => UncancelledIsCurrent'
<1> SUFFICES ASSUME TypeOK /\ UncancelledIsCurrent, [Next]_vars
             PROVE  UncancelledIsCurrent'
  OBVIOUS
<1> USE NoSessionAssumption
      DEF TypeOK, UncancelledIsCurrent, Pc, Handled, Sending, Loop, Leaving,
          Rejecting, NoEntry, Entry, GoTo, memory
<1> DEFINE Goal == UncancelledIsCurrent
<1>1. ASSUME NEW s \in Sessions, Begin(s) PROVE Goal'
  BY <1>1 DEF Begin
<1>2. ASSUME NEW s \in Sessions, Register(s) PROVE Goal'
  BY <1>2 DEF Register, register
<1>3. ASSUME NEW s \in Sessions, Announce(s) PROVE Goal'
  BY <1>3 DEF Announce
<1>4. ASSUME NEW s \in Sessions, CommitRegistration(s) PROVE Goal'
  BY <1>4 DEF CommitRegistration
<1>5. ASSUME NEW s \in Sessions, LoseRegistration(s) PROVE Goal'
  BY <1>5 DEF LoseRegistration
<1>6. ASSUME NEW s \in Sessions, ProjectionOk(s) PROVE Goal'
  BY <1>6 DEF ProjectionOk
<1>7. ASSUME NEW s \in Sessions, ProjectionFailed(s) PROVE Goal'
  BY <1>7, MarkOfflineEffect DEF ProjectionFailed
<1>8. ASSUME NEW s \in Sessions, RejectAggregator(s) PROVE Goal'
  BY <1>8 DEF RejectAggregator
<1>9. ASSUME NEW s \in Sessions, RejectSchedule(s) PROVE Goal'
  BY <1>9 DEF RejectSchedule
<1>10. ASSUME NEW s \in Sessions, OpenWatch(s) PROVE Goal'
  BY <1>10 DEF OpenWatch
<1>11. ASSUME NEW s \in Sessions, LoopCancelled(s) PROVE Goal'
  BY <1>11, MarkOfflineEffect DEF LoopCancelled, MarkOfflineAll, transitions
<1>12. ASSUME NEW s \in Sessions, LoopClosed(s) PROVE Goal'
  BY <1>12, MarkOfflineEffect DEF LoopClosed, MarkOfflineAll, transitions
<1>13. ASSUME NEW s \in Sessions, OffAggregator(s) PROVE Goal'
  BY <1>13 DEF OffAggregator
<1>14. ASSUME NEW s \in Sessions, OffCache(s) PROVE Goal'
  BY <1>14 DEF OffCache
<1>15. ASSUME NEW s \in Sessions, OffSchedule(s) PROVE Goal'
  BY <1>15 DEF OffSchedule
<1>16. ASSUME NEW s \in Sessions, Receive(s) PROVE Goal'
  BY <1>16 DEF Receive
<1>17. ASSUME NEW s \in Sessions, CheckMessage(s) PROVE Goal'
  BY <1>17 DEF CheckMessage
<1>18. ASSUME NEW s \in Sessions, RecheckCancelled(s) PROVE Goal'
  BY <1>18 DEF RecheckCancelled
<1>19. ASSUME NEW s \in Sessions, ApplyOther(s) PROVE Goal'
  BY <1>19 DEF ApplyOther
<1>20. ASSUME NEW s \in Sessions, ApplyWatch(s) PROVE Goal'
  BY <1>20 DEF ApplyWatch
<1>21. ASSUME NEW s \in Sessions, ApplyStats(s) PROVE Goal'
  BY <1>21 DEF ApplyStats
<1>22. ASSUME NEW s \in Sessions, ApplyFailed(s) PROVE Goal'
  BY <1>22 DEF ApplyFailed
<1>23. ASSUME NEW s \in Sessions, BackoffElapsed(s) PROVE Goal'
  BY <1>23 DEF BackoffElapsed
<1>24. ASSUME NEW s \in Sessions, BackoffStopped(s) PROVE Goal'
  BY <1>24 DEF BackoffStopped
<1>25. ASSUME NEW s \in Sessions, HeartbeatTimeout(s) PROVE Goal'
  BY <1>25 DEF HeartbeatTimeout
<1>26. ASSUME NEW s \in Sessions, HandlerDropped(s) PROVE Goal'
  BY <1>26 DEF HandlerDropped
<1>27. ASSUME NEW s \in Sessions, WorkerWrite(s) PROVE Goal'
  BY <1>27 DEF WorkerWrite
<1>28. ASSUME NEW s \in Sessions, WorkerFinish(s) PROVE Goal'
  BY <1>28 DEF WorkerFinish
<1>29. ASSUME NEW s \in Sessions, WorkerRetry(s) PROVE Goal'
  BY <1>29 DEF WorkerRetry
<1>30. ASSUME NEW s \in Sessions, WorkerStop(s) PROVE Goal'
  BY <1>30 DEF WorkerStop
<1>31. CASE AdminEvictRow
  BY <1>31 DEF AdminEvictRow
<1>32. CASE AdminEvictRegistry
  BY <1>32 DEF AdminEvictRegistry, remove
<1>33. CASE AdminEvictAggregator
  BY <1>33 DEF AdminEvictAggregator
<1>34. CASE AdminEvictCache
  BY <1>34 DEF AdminEvictCache
<1>35. CASE Restart
  BY <1>35 DEF Restart
<1>36. CASE UNCHANGED vars
  BY <1>36 DEF vars
<1>37. ASSUME NEW s \in Sessions, StartLoop(s) PROVE Goal'
  BY <1>37 DEF StartLoop
<1>38. ASSUME NEW s \in Sessions, ApplyReWatch(s) PROVE Goal'
  BY <1>38 DEF ApplyReWatch
<1>39. ASSUME NEW s \in Sessions, ReWatched(s) PROVE Goal'
  BY <1>39 DEF ReWatched
<1> QED
  BY <1>1, <1>2, <1>3, <1>4, <1>5, <1>6, <1>7, <1>8, <1>9, <1>10, <1>11,
     <1>12, <1>13, <1>14, <1>15, <1>16, <1>17, <1>18, <1>19, <1>20, <1>21,
     <1>22, <1>23, <1>24, <1>25, <1>26, <1>27, <1>28, <1>29, <1>30, <1>31, <1>32,
     <1>33, <1>34, <1>35, <1>36, <1>37, <1>38, <1>39
     DEF Next, Handle, Send, Controller, Database, Worker, Admin, Apply, Backoff

\* The actions that change the row, a revision or a worker; every other one
\* leaves these alone.
LEMMA RowFrame ==
    ASSUME [Next]_vars
    PROVE  \/ \E s \in Sessions :
                \/ Begin(s) \/ CommitRegistration(s)
                \/ WorkerWrite(s) \/ WorkerStop(s)
                \/ WorkerFinish(s) \/ WorkerRetry(s)
                \/ ProjectionOk(s) \/ RejectSchedule(s) \/ OffSchedule(s)
           \/ AdminEvictRow
           \/ Restart
           \/ UNCHANGED << row, observedAt, task, slot >>
  BY DEF Next, Handle, Send, Controller, Database, Worker, Admin, Apply, Backoff,
         StartLoop, ApplyReWatch, ReWatched, vars, database, workers, MarkOfflineAll,
         Register, Announce, LoseRegistration, ProjectionFailed,
         RejectAggregator, OpenWatch, LoopCancelled, LoopClosed, OffAggregator,
         OffCache, Receive, CheckMessage, RecheckCancelled, ApplyOther,
         ApplyWatch, ApplyStats, ApplyFailed, BackoffElapsed, BackoffStopped,
         HeartbeatTimeout, HandlerDropped, AdminEvictRegistry, AdminEvictAggregator,
         AdminEvictCache

\* A worker leaves the slot only when it ends or is cancelled.
LEMMA OneWorkerPreserved ==
    TypeOK /\ OneOfflineWorker /\ [Next]_vars => OneOfflineWorker'
<1> SUFFICES ASSUME TypeOK, OneOfflineWorker, [Next]_vars
             PROVE  OneOfflineWorker'
  OBVIOUS
<1> USE NoSessionAssumption
    DEF TypeOK, OneOfflineWorker, TaskState, ActiveTask, workers
<1>1. ASSUME NEW s \in Sessions, ProjectionOk(s) PROVE OneOfflineWorker'
  BY <1>1 DEF ProjectionOk, cancel_worker
<1>2. ASSUME NEW s \in Sessions, RejectSchedule(s) \/ OffSchedule(s)
      PROVE  OneOfflineWorker'
  BY <1>2 DEF RejectSchedule, OffSchedule, schedule
<1>3. ASSUME NEW s \in Sessions, Worker(s) PROVE OneOfflineWorker'
  BY <1>3 DEF Worker, WorkerWrite, WorkerFinish, WorkerRetry, WorkerStop
<1>4. ASSUME NEW s \in Sessions, Begin(s) \/ CommitRegistration(s)
      PROVE  OneOfflineWorker'
  BY <1>4 DEF Begin, CommitRegistration
<1>5. CASE AdminEvictRow
  BY <1>5 DEF AdminEvictRow
<1>6. CASE Restart
  BY <1>6 DEF Restart
<1>7. CASE UNCHANGED << row, observedAt, task, slot >>
  BY <1>7
<1> QED
  BY <1>1, <1>2, <1>3, <1>4, <1>5, <1>6, <1>7, RowFrame DEF Worker

\* Revisions come from a counter that every handler reads once.
LEMMA RevisionsPreserved ==
    TypeOK /\ RevisionsTaken /\ RevisionsDistinct /\ [Next]_vars
      => (RevisionsTaken /\ RevisionsDistinct)'
<1> SUFFICES ASSUME TypeOK /\ RevisionsTaken /\ RevisionsDistinct, [Next]_vars
             PROVE  (RevisionsTaken /\ RevisionsDistinct)'
  OBVIOUS
<1> USE DEF TypeOK, RevisionsTaken, RevisionsDistinct, Pc, Handled, Sending,
            Loop, Leaving, Rejecting, GoTo, TaskState, ActiveTask, WriteState,
            database, workers
<1> DEFINE Goal == RevisionsTaken /\ RevisionsDistinct
<1>1. ASSUME NEW s \in Sessions, Begin(s) PROVE Goal'
  BY <1>1 DEF Begin
<1>2. ASSUME NEW s \in Sessions, Register(s) PROVE Goal'
  BY <1>2 DEF Register
<1>3. ASSUME NEW s \in Sessions, Announce(s) PROVE Goal'
  BY <1>3 DEF Announce
<1>4. ASSUME NEW s \in Sessions, CommitRegistration(s) PROVE Goal'
  BY <1>4 DEF CommitRegistration
<1>5. ASSUME NEW s \in Sessions, LoseRegistration(s) PROVE Goal'
  BY <1>5 DEF LoseRegistration
<1>6. ASSUME NEW s \in Sessions, ProjectionOk(s) PROVE Goal'
  BY <1>6 DEF ProjectionOk, cancel_worker
<1>7. ASSUME NEW s \in Sessions, ProjectionFailed(s) PROVE Goal'
  BY <1>7 DEF ProjectionFailed
<1>8. ASSUME NEW s \in Sessions, RejectAggregator(s) PROVE Goal'
  BY <1>8 DEF RejectAggregator
<1>9. ASSUME NEW s \in Sessions, RejectSchedule(s) PROVE Goal'
  BY <1>9 DEF RejectSchedule, schedule
<1>10. ASSUME NEW s \in Sessions, OpenWatch(s) PROVE Goal'
  BY <1>10 DEF OpenWatch
<1>11. ASSUME NEW s \in Sessions, LoopCancelled(s) PROVE Goal'
  BY <1>11 DEF LoopCancelled, MarkOfflineAll
<1>12. ASSUME NEW s \in Sessions, LoopClosed(s) PROVE Goal'
  BY <1>12 DEF LoopClosed, MarkOfflineAll
<1>13. ASSUME NEW s \in Sessions, OffAggregator(s) PROVE Goal'
  BY <1>13 DEF OffAggregator
<1>14. ASSUME NEW s \in Sessions, OffCache(s) PROVE Goal'
  BY <1>14 DEF OffCache
<1>15. ASSUME NEW s \in Sessions, OffSchedule(s) PROVE Goal'
  BY <1>15 DEF OffSchedule, schedule
<1>16. ASSUME NEW s \in Sessions, Receive(s) PROVE Goal'
  BY <1>16 DEF Receive
<1>17. ASSUME NEW s \in Sessions, CheckMessage(s) PROVE Goal'
  BY <1>17 DEF CheckMessage
<1>18. ASSUME NEW s \in Sessions, RecheckCancelled(s) PROVE Goal'
  BY <1>18 DEF RecheckCancelled
<1>19. ASSUME NEW s \in Sessions, ApplyOther(s) PROVE Goal'
  BY <1>19 DEF ApplyOther
<1>20. ASSUME NEW s \in Sessions, ApplyWatch(s) PROVE Goal'
  BY <1>20 DEF ApplyWatch
<1>21. ASSUME NEW s \in Sessions, ApplyStats(s) PROVE Goal'
  BY <1>21 DEF ApplyStats
<1>22. ASSUME NEW s \in Sessions, ApplyFailed(s) PROVE Goal'
  BY <1>22 DEF ApplyFailed
<1>23. ASSUME NEW s \in Sessions, BackoffElapsed(s) PROVE Goal'
  BY <1>23 DEF BackoffElapsed
<1>24. ASSUME NEW s \in Sessions, BackoffStopped(s) PROVE Goal'
  BY <1>24 DEF BackoffStopped
<1>25. ASSUME NEW s \in Sessions, HeartbeatTimeout(s) PROVE Goal'
  BY <1>25 DEF HeartbeatTimeout
<1>26. ASSUME NEW s \in Sessions, HandlerDropped(s) PROVE Goal'
  BY <1>26 DEF HandlerDropped
<1>27. ASSUME NEW s \in Sessions, WorkerWrite(s) PROVE Goal'
  BY <1>27 DEF WorkerWrite
<1>28. ASSUME NEW s \in Sessions, WorkerFinish(s) PROVE Goal'
  BY <1>28 DEF WorkerFinish
<1>29. ASSUME NEW s \in Sessions, WorkerRetry(s) PROVE Goal'
  BY <1>29 DEF WorkerRetry
<1>30. ASSUME NEW s \in Sessions, WorkerStop(s) PROVE Goal'
  BY <1>30 DEF WorkerStop
<1>31. CASE AdminEvictRow
  BY <1>31 DEF AdminEvictRow
<1>32. CASE AdminEvictRegistry
  BY <1>32 DEF AdminEvictRegistry
<1>33. CASE AdminEvictAggregator
  BY <1>33 DEF AdminEvictAggregator
<1>34. CASE AdminEvictCache
  BY <1>34 DEF AdminEvictCache
<1>35. CASE Restart
  BY <1>35 DEF Restart
<1>36. CASE UNCHANGED vars
  BY <1>36 DEF vars
<1>37. ASSUME NEW s \in Sessions, StartLoop(s) PROVE Goal'
  BY <1>37 DEF StartLoop
<1>38. ASSUME NEW s \in Sessions, ApplyReWatch(s) PROVE Goal'
  BY <1>38 DEF ApplyReWatch
<1>39. ASSUME NEW s \in Sessions, ReWatched(s) PROVE Goal'
  BY <1>39 DEF ReWatched
<1> QED
  BY <1>1, <1>2, <1>3, <1>4, <1>5, <1>6, <1>7, <1>8, <1>9, <1>10, <1>11,
     <1>12, <1>13, <1>14, <1>15, <1>16, <1>17, <1>18, <1>19, <1>20, <1>21,
     <1>22, <1>23, <1>24, <1>25, <1>26, <1>27, <1>28, <1>29, <1>30, <1>31, <1>32,
     <1>33, <1>34, <1>35, <1>36, <1>37, <1>38, <1>39
     DEF Next, Handle, Send, Controller, Database, Worker, Admin, Apply, Backoff

(***************************************************************************)
(* The row                                                                 *)
(***************************************************************************)

\* A registration statement that applies carries a revision that no finished
\* tombstone has reached, so it is not the statement of a fenced session.
LEMMA RegistrationPreservesRow ==
    ASSUME IInv, NEW s \in Sessions, CommitRegistration(s)
    PROVE  (RowConsistent /\ TombstoneFencesLateCommit)'
<1> USE NoSessionAssumption
<1>1. observedAt[s] > 0 /\ row \in Row /\ observedAt \in [Sessions -> Nat]
  BY DEF CommitRegistration, IInv, RevisionsTaken, TypeOK
<1>2. CASE ~registration_applies(s)
  <2>1. UNCHANGED << row, observedAt, task >>
    BY <1>2, RegistrationEffect DEF CommitRegistration, IInv, workers
  <2> QED
    BY <2>1 DEF IInv, RowConsistent, TombstoneFencesLateCommit,
                RevisionOfThisProcess
<1>3. CASE registration_applies(s)
  <2>1. /\ row'.present /\ row'.online /\ ~row'.evicted
        /\ row'.session = s /\ row'.observed = observedAt[s]
        /\ UNCHANGED << observedAt, task >>
    BY <1>3, RegistrationEffect DEF CommitRegistration, IInv, workers
  <2>2. row.observed < observedAt[s]
    BY <1>1, <1>3 DEF registration_applies, IInv, RowConsistent
  <2>3. RowConsistent'
    BY <1>1, <2>1 DEF RowConsistent, RevisionOfThisProcess
  <2>4. TombstoneFencesLateCommit'
    BY <1>1, <2>1, <2>2 DEF IInv, TombstoneFencesLateCommit, Row
  <2> QED
    BY <2>3, <2>4
<1> QED
  BY <1>2, <1>3

\* A tombstone leaves the row of its session, or a row with a higher or equal
\* revision of another session.
LEMMA TombstoneFences ==
    ASSUME IInv, NEW s \in Sessions, task[s] /= "none", write_tombstone(s),
           UNCHANGED observedAt
    PROVE  /\ RowConsistent'
           /\ row'.observed >= row.observed
           /\ row'.observed >= observedAt[s]
           /\ ~(row'.online /\ row'.session = s)
           /\ row' /= row => ~row'.online
<1> USE NoSessionAssumption
<1>1. /\ observedAt[s] > 0 /\ row \in Row /\ observedAt \in [Sessions -> Nat]
      /\ RowConsistent
  BY DEF IInv, RevisionsTaken, TypeOK
<1>2. CASE row.present /\ ~tombstone_applies(s)
  BY <1>1, <1>2, TombstoneEffect
     DEF IInv, RowConsistent, RevisionOfThisProcess, tombstone_applies, Row
<1>3. CASE ~row.present
  BY <1>1, <1>3, TombstoneEffect
     DEF IInv, RowConsistent, RevisionOfThisProcess, Row
<1>4. CASE row.present /\ tombstone_applies(s)
  <2>1. row'.present /\ ~row'.online /\ row'.session = s
    BY <1>4, TombstoneEffect DEF IInv
  <2>2. row'.observed = observedAt[s] /\ observedAt[s] >= row.observed
    BY <1>1, <1>4, TombstoneEffect
       DEF IInv, tombstone_applies, RowConsistent, Row
  <2> QED
    BY <1>1, <2>1, <2>2 DEF RowConsistent, RevisionOfThisProcess
<1> QED
  BY <1>2, <1>3, <1>4

\* Every action keeps the row consistent and the finished tombstones effective.
LEMMA RowPreserved ==
    IInv /\ [Next]_vars => (RowConsistent /\ TombstoneFencesLateCommit)'
<1> SUFFICES ASSUME IInv, [Next]_vars
             PROVE  (RowConsistent /\ TombstoneFencesLateCommit)'
  OBVIOUS
<1> USE NoSessionAssumption
<1> DEFINE Goal == RowConsistent /\ TombstoneFencesLateCommit
<1>1. ASSUME NEW s \in Sessions, Begin(s) PROVE Goal'
  <2>1. /\ observedAt[s] = 0 /\ task[s] = "none"
        /\ UNCHANGED << row, task >>
        /\ \A t \in Sessions : t /= s => observedAt'[t] = observedAt[t]
    BY <1>1 DEF Begin, GoTo, IInv, RevisionsTaken, TypeOK, database, workers
  <2> QED
    BY <2>1 DEF IInv, RowConsistent, TombstoneFencesLateCommit,
                RevisionOfThisProcess
<1>2. ASSUME NEW s \in Sessions, CommitRegistration(s) PROVE Goal'
  BY <1>2, RegistrationPreservesRow
<1>3. ASSUME NEW s \in Sessions, WorkerWrite(s) \/ WorkerStop(s) PROVE Goal'
  <2>1. /\ task[s] /= "none" /\ UNCHANGED observedAt
        /\ write_tombstone(s) \/ row' = row
        /\ task'[s] \in {"check", "stopped"}
        /\ task'[s] = "check" => write_tombstone(s)
        /\ \A t \in Sessions : t /= s => task'[t] = task[t]
    BY <1>3 DEF WorkerWrite, WorkerStop, IInv, TypeOK
  <2>2. CASE row' = row /\ ~write_tombstone(s)
    BY <2>1, <2>2 DEF IInv, RowConsistent, TombstoneFencesLateCommit,
                      RevisionOfThisProcess
  <2>3. CASE write_tombstone(s)
    <3>1. /\ RowConsistent'
          /\ row'.observed >= row.observed
          /\ row'.observed >= observedAt[s]
          /\ ~(row'.online /\ row'.session = s)
          /\ row' /= row => ~row'.online
      BY <2>1, <2>3, TombstoneFences
    <3>2. row \in Row /\ row' \in Row /\ observedAt \in [Sessions -> Nat]
      BY <2>3, TombstoneEffect DEF IInv, TypeOK
    <3>3. TombstoneFencesLateCommit'
      BY <2>1, <3>1, <3>2 DEF IInv, TombstoneFencesLateCommit, Row
    <3> QED
      BY <3>1, <3>3
  <2> QED
    BY <2>1, <2>2, <2>3
<1>4. ASSUME NEW s \in Sessions,
             \/ WorkerFinish(s) \/ WorkerRetry(s)
             \/ ProjectionOk(s) \/ RejectSchedule(s) \/ OffSchedule(s)
      PROVE  Goal'
  <2>1. /\ UNCHANGED << row, observedAt >>
        /\ \A t \in Sessions :
             task'[t] \in {"check", "marked", "notCurrent"} =>
               task[t] \in {"check", "marked", "notCurrent"}
    BY <1>4 DEF WorkerFinish, WorkerRetry, ProjectionOk, RejectSchedule,
                OffSchedule, cancel_worker, schedule, database, IInv, TypeOK
  <2> QED
    BY <2>1 DEF IInv, RowConsistent, TombstoneFencesLateCommit,
                RevisionOfThisProcess
<1>5. CASE AdminEvictRow
  <2>1. UNCHANGED << observedAt, task >> /\ evict_controller
    BY <1>5 DEF AdminEvictRow, workers
  <2>2. /\ row'.observed = row.observed /\ row'.present = row.present
        /\ row.evicted => row' = row
        /\ row' /= row =>
             row'.session = NoSession /\ ~row'.online /\ row'.evicted
    BY <2>1, EvictionEffect DEF IInv
  <2>3. ~row.present => row' = row
    BY <2>1 DEF evict_controller
  <2> QED
    BY <2>1, <2>2, <2>3 DEF IInv, RowConsistent, TombstoneFencesLateCommit,
                            RevisionOfThisProcess
<1>6. CASE Restart
  <2>1. /\ row'.observed = 0 /\ row'.session = NoSession /\ ~row'.online
        /\ row'.present = row.present /\ row'.evicted = row.evicted
        /\ task' = [s \in Sessions |-> "none"]
    BY <1>6, ResetEffect DEF Restart, IInv
  <2> QED
    BY <2>1 DEF IInv, RowConsistent, TombstoneFencesLateCommit,
                RevisionOfThisProcess
<1>7. CASE UNCHANGED << row, observedAt, task, slot >>
  BY <1>7 DEF IInv, RowConsistent, TombstoneFencesLateCommit,
              RevisionOfThisProcess
<1> QED
  BY <1>1, <1>2, <1>3, <1>4, <1>5, <1>6, <1>7, RowFrame

(***************************************************************************)
(* The theorems                                                            *)
(***************************************************************************)
\* The initial states satisfy the inductive invariant ...
LEMMA InitIInv == Init => IInv
  BY NoSessionAssumption, BoundsAssumption
     DEF Init, IInv, TypeOK, UncancelledIsCurrent, OneOfflineWorker,
         RevisionsTaken, RevisionsDistinct, RowConsistent,
         RevisionOfThisProcess, TombstoneFencesLateCommit, Pc, Handled, Sending,
         Loop, Leaving, Rejecting, Entry, NoEntry, Snapshot, NoSnapshot, Cache,
         NoCache, Row, NoRow, WriteState, TaskState, ActiveTask, AdminPc

\* ... and every step preserves it.
LEMMA NextIInv == IInv /\ [Next]_vars => IInv'
  BY TypePreserved, UncancelledPreserved, OneWorkerPreserved,
     RevisionsPreserved, RowPreserved DEF IInv

\* Every reachable state satisfies the inductive invariant.
THEOREM Inductive == Spec => []IInv
  BY InitIInv, NextIInv, PTL DEF Spec

\* Type correctness.
THEOREM TypeCorrect == Spec => []TypeOK
  BY Inductive, PTL DEF IInv

\* At any time at most one handler of a controller is live, the one whose
\* session the registry holds, however takeovers, disconnects and Admin DELETEs
\* interleave.
THEOREM OneLiveHandler == Spec => []UncancelledIsCurrent
  BY Inductive, PTL DEF IInv

\* The reconciler runs at most one worker per controller.
THEOREM ReconcilerKeepsOneWorker == Spec => []OneOfflineWorker
  BY Inductive, PTL DEF IInv

\* A session whose tombstone has been written is never shown online again, not
\* even by its own delayed registration statement.
THEOREM LateCommitIsFenced == Spec => []TombstoneFencesLateCommit
  BY Inductive, PTL DEF IInv

\* No registration is refused because of a revision of an earlier process.
THEOREM RestartForgetsRevisions == Spec => []RevisionOfThisProcess
  BY Inductive, PTL DEF IInv, RowConsistent

\* The classification after the tombstone always succeeds: a row with the
\* worker's own revision that was not evicted can only be its own row.
THEOREM TombstoneCheckSucceeds == Spec => []TombstoneCheckNeverBails
<1>1. IInv => TombstoneCheckNeverBails
  <2> SUFFICES ASSUME IInv, NEW s \in Sessions, task[s] = "check",
                      ~tombstone_not_current(s)
               PROVE  tombstone_marked(s)
    BY DEF TombstoneCheckNeverBails
  <2>1. /\ observedAt[s] > 0 /\ row.observed >= observedAt[s]
        /\ ~(row.online /\ row.session = s)
    BY DEF IInv, RevisionsTaken, TombstoneFencesLateCommit
  <2>2. ~row.evicted /\ row.observed = observedAt[s]
    BY <2>1 DEF tombstone_not_current, IInv, TypeOK, Row
  <2>3. row.session \in Sessions /\ observedAt[row.session] = observedAt[s]
    BY <2>1, <2>2 DEF IInv, RowConsistent
  <2>4. row.session = s
    BY <2>1, <2>3 DEF IInv, RevisionsDistinct
  <2> QED
    BY <2>1, <2>2, <2>4 DEF tombstone_marked
<1> QED
  BY <1>1, Inductive, PTL

\* Within one process a delayed statement of an older session never replaces
\* what a newer one stored.
THEOREM RevisionIsMonotone == Spec => RevisionNeverGoesBack
<1>1. IInv /\ [Next]_vars =>
        [restarts' = restarts => row'.observed >= row.observed]_vars
  <2> SUFFICES ASSUME IInv, [Next]_vars, restarts' = restarts
               PROVE  row'.observed >= row.observed
    OBVIOUS
  <2>0. row \in Row /\ observedAt \in [Sessions -> Nat] /\ restarts \in Nat
    BY DEF IInv, TypeOK
  <2>1. ASSUME NEW s \in Sessions, CommitRegistration(s)
        PROVE  row'.observed >= row.observed
    BY <2>0, <2>1, RegistrationEffect
       DEF CommitRegistration, registration_applies, IInv, RowConsistent, Row
  <2>2. ASSUME NEW s \in Sessions, WorkerWrite(s) \/ WorkerStop(s)
        PROVE  row'.observed >= row.observed
    <3>1. task[s] /= "none" /\ UNCHANGED observedAt
      BY <2>2 DEF WorkerWrite, WorkerStop
    <3>2. write_tombstone(s) \/ row' = row
      BY <2>2 DEF WorkerWrite, WorkerStop
    <3> QED
      BY <2>0, <3>1, <3>2, TombstoneFences DEF Row
  <2>3. CASE AdminEvictRow
    BY <2>0, <2>3, EvictionEffect DEF AdminEvictRow, IInv, Row
  <2>4. CASE Restart
    BY <2>0, <2>4 DEF Restart
  <2>5. ASSUME NEW s \in Sessions,
               \/ Begin(s) \/ WorkerFinish(s) \/ WorkerRetry(s)
               \/ ProjectionOk(s) \/ RejectSchedule(s) \/ OffSchedule(s)
        PROVE  row'.observed >= row.observed
    BY <2>0, <2>5 DEF Begin, WorkerFinish, WorkerRetry, ProjectionOk,
                      RejectSchedule, OffSchedule, database, Row
  <2>6. CASE UNCHANGED << row, observedAt, task, slot >>
    BY <2>0, <2>6 DEF Row
  <2> QED
    BY <2>1, <2>2, <2>3, <2>4, <2>5, <2>6, RowFrame
<1> QED
  BY <1>1, Inductive, PTL DEF Spec, RevisionNeverGoesBack

\* An evicted controller comes back only with a strictly newer registration.
THEOREM EvictionHolds == Spec => EvictionHoldsUntilNewer
<1>1. IInv /\ [Next]_vars =>
        [row.evicted /\ ~row'.evicted
           => row'.online /\ row'.observed > row.observed]_vars
  <2> SUFFICES ASSUME IInv, [Next]_vars, row.evicted, ~row'.evicted
               PROVE  row'.online /\ row'.observed > row.observed
    OBVIOUS
  <2>0. /\ row \in Row /\ observedAt \in [Sessions -> Nat]
        /\ row.present
    BY DEF IInv, TypeOK, RowConsistent
  <2>1. ASSUME NEW s \in Sessions, CommitRegistration(s)
        PROVE  row'.online /\ row'.observed > row.observed
    BY <2>0, <2>1, RegistrationEffect
       DEF CommitRegistration, registration_applies, IInv, Row
  <2>2. ASSUME NEW s \in Sessions, WorkerWrite(s) \/ WorkerStop(s)
        PROVE  FALSE
    <3>1. write_tombstone(s) \/ row' = row
      BY <2>2 DEF WorkerWrite, WorkerStop
    <3> QED
      BY <2>0, <3>1, TombstoneEffect DEF IInv
  <2>3. CASE AdminEvictRow
    BY <2>3, EvictionEffect DEF AdminEvictRow, IInv
  <2>4. CASE Restart
    BY <2>4, ResetEffect DEF Restart, IInv
  <2>5. ASSUME NEW s \in Sessions,
               \/ Begin(s) \/ WorkerFinish(s) \/ WorkerRetry(s)
               \/ ProjectionOk(s) \/ RejectSchedule(s) \/ OffSchedule(s)
        PROVE  FALSE
    BY <2>5 DEF Begin, WorkerFinish, WorkerRetry, ProjectionOk,
                RejectSchedule, OffSchedule, database
  <2> QED
    BY <2>1, <2>2, <2>3, <2>4, <2>5, RowFrame
<1> QED
  BY <1>1, Inductive, PTL DEF Spec, EvictionHoldsUntilNewer

\* Only the handler of the installed session puts its registry entry offline.
THEOREM SuccessorIsSpared == Spec => StaleTaskSparesRegistry
<1> DEFINE Spares(s) ==
             /\ entry.session = s /\ ~entry.offline
             /\ entry'.session = s /\ entry'.offline
             => pc'[s] /= pc[s]
<1>1. TypeOK /\ [Next]_vars => [\A s \in Sessions : Spares(s)]_vars
  <2> SUFFICES ASSUME TypeOK, [Next]_vars, NEW s \in Sessions,
                      entry.session = s, ~entry.offline,
                      entry'.session = s, entry'.offline
               PROVE  pc'[s] /= pc[s]
    OBVIOUS
  <2>1. ASSUME NEW t \in Sessions, ProjectionFailed(t)
        PROVE  pc'[s] /= pc[s]
    BY <2>1, MarkOfflineEffect DEF ProjectionFailed, GoTo, TypeOK
  <2>2. ASSUME NEW t \in Sessions, LoopCancelled(t) \/ LoopClosed(t)
        PROVE  pc'[s] /= pc[s]
    BY <2>2, MarkOfflineEffect DEF LoopCancelled, LoopClosed, MarkOfflineAll,
                                   TypeOK
  <2>3. ASSUME NEW t \in Sessions, Register(t) PROVE FALSE
    BY <2>3 DEF Register, register
  <2>4. CASE AdminEvictRegistry \/ Restart
    BY <2>4 DEF AdminEvictRegistry, remove, Restart, NoEntry
  <2> QED
    BY <2>1, <2>2, <2>3, <2>4
       DEF Next, Handle, Send, Controller, Database, Worker, Admin, Apply, Backoff,
           StartLoop, ApplyReWatch, ReWatched, vars, memory, Begin, Announce, CommitRegistration,
           LoseRegistration, ProjectionOk, RejectAggregator, RejectSchedule,
           OpenWatch, OffAggregator, OffCache, OffSchedule, Receive,
           CheckMessage, RecheckCancelled, ApplyOther, ApplyWatch, ApplyStats,
           ApplyFailed, BackoffElapsed, BackoffStopped, HeartbeatTimeout,
           HandlerDropped, WorkerWrite, WorkerFinish, WorkerRetry, WorkerStop, AdminEvictRow,
           AdminEvictAggregator, AdminEvictCache
<1> QED
  BY <1>1, TypeCorrect, PTL DEF Spec, StaleTaskSparesRegistry
=============================================================================
