----------------------------- MODULE ConfigSync -----------------------------
(***************************************************************************)
(* Configuration documents between one controller and one Center process:  *)
(* the federation watch of a session (center-runtime/federation/server.rs, *)
(* FedWatchState, apply_watch_list, apply_watch_event), the per-controller *)
(* watch cache (watch_cache/cache.rs) with its handler, the override rows  *)
(* of CenterMetaDataStore (metadata_store.rs), and the two operations that *)
(* read their outcome off that cache: a guarded document write             *)
(* (center-app/api/config_data_ops.rs) and a reload (api/reload_ops.rs).   *)
(*                                                                         *)
(* The cache outlives sessions.  A session's loop checks that it is the    *)
(* current one and then applies the message it holds: a takeover may come  *)
(* in between, and then two sessions feed one cache.  `late` records that  *)
(* it has happened.                                                        *)
(*                                                                         *)
(* The controller is external.  Its documents have a history: hist[n] is   *)
(* the state after n - 1 changes, and n - 1 serves as the resourceVersion  *)
(* of the document changed last.  Every rebuild of its sync server mints a *)
(* new server id and counts sync versions from 0 again; base[i] is the     *)
(* number of changes server i started with.                                *)
(***************************************************************************)
EXTENDS Naturals, Sequences, FiniteSets

CONSTANTS
    Keys,          \* namespace/name of a document
    Edits,         \* edits by others: records of a key and a kind or "none"
    Initial,       \* the documents at the start: a kind or "none" per key
    MaxEntries,    \* MAX_ENTRIES_PER_CONTROLLER
    MaxSessions,   \* bound: registrations of the controller
    MaxChanges,    \* bound: changes of documents
    MaxFaults,     \* bound: rebuilds of the sync server, refusals, garbled messages,
                   \* cancelled tokens, sweeps that prune
    MaxQueue       \* bound: messages in flight on a stream

(* "off" and "on" are region route overrides without and with the setting  *)
(* the write asks for; "other" is a document of another type.              *)
Kinds == {"off", "on", "other"}
Overrides == {"off", "on"}

ASSUME BoundsAssumption ==
    /\ MaxEntries \in Nat /\ MaxSessions \in Nat /\ MaxChanges \in Nat
    /\ MaxFaults \in Nat /\ MaxQueue \in Nat
    /\ Keys # {}
    /\ Edits \subseteq [key: Keys, kind: Kinds \cup {"none"}]
    /\ Initial \in [Keys -> Kinds \cup {"none"}]

Doc == [rv: Nat, kind: Kinds]
NoDoc == [rv |-> 0, kind |-> "none"]
State == [Keys -> Doc \cup {NoDoc}]
Empty == [k \in Keys |-> NoDoc]
Present(state) == {k \in Keys : state[k] # NoDoc}

Sessions == 1..MaxSessions

VARIABLES
    hist,     \* controller: its documents after every change
    base,     \* controller: changes each of its sync servers started with
    faults,   \* faults so far
    watch,    \* controller: the watch it serves on each session's stream
    stream,   \* messages from the controller, per session
    current,  \* registry: the session with a sender, or 0
    cancelled, \* registry: the token of that session is cancelled
    cache,    \* CenterWatchCache
    store,    \* CenterMetaDataStore: the override rows of this controller
    sess,     \* the session loops
    late,     \* history: a session that is no longer current has written
    astray,   \* history: keys whose row was pruned, or touched twice by one batch
    wr,       \* a write_config_data call
    rl        \* a reload_controller call

controller == <<hist, base, faults>>
registry == <<current, cancelled>>
ops == <<wr, rl>>
vars == <<hist, base, faults, watch, stream, current, cancelled, cache, store, sess, late,
          astray, wr, rl>>

Now == Len(hist)
Server == Len(base)
VersionAt(n) == n - 1 - base[Server]

NoWatch == [on |-> FALSE, pending |-> FALSE, rid |-> 0, from |-> 0, at |-> 0, server |-> 0]
NoMessage == [type |-> "none", rid |-> 0, server |-> 0, version |-> 0, state |-> Empty,
              events |-> << >>]
Types == {"none", "list", "events", "error", "forbidden", "badlist", "badevents"}
NoBatch == [add |-> Empty, update |-> Empty, remove |-> {}, full |-> FALSE]

NoSession == [pc |-> "idle", rid |-> 0, server |-> 0, terminated |-> FALSE,
              msg |-> NoMessage, batch |-> NoBatch]
NoWrite == [pc |-> "idle", key |-> CHOOSE k \in Keys : TRUE, pre |-> 0, via |-> FALSE,
            put |-> "none", rv |-> 0, result |-> "none"]

Init ==
    /\ hist = << [k \in Keys |-> IF Initial[k] = "none" THEN NoDoc
                                 ELSE [rv |-> 0, kind |-> Initial[k]]] >>
    /\ base = << 0 >>
    /\ faults = 0
    /\ watch = [s \in Sessions |-> NoWatch]
    /\ stream = [s \in Sessions |-> << >>]
    /\ current = 0 /\ cancelled = FALSE
    /\ cache = [data |-> Empty, version |-> 0, server |-> 0, stale |-> FALSE]
    /\ store = Empty
    /\ sess = [s \in Sessions |-> NoSession]
    /\ late = FALSE
    /\ astray = {}
    /\ wr = NoWrite
    /\ rl = [pc |-> "idle", baseline |-> 0, result |-> "none"]

-----------------------------------------------------------------------------
(* The session: registration to the end of its loop.                       *)

Goto(s, pc) == sess' = [sess EXCEPT ![s].pc = pc, ![s].msg = NoMessage, ![s].batch = NoBatch]

(* The loop ends and the stream with it.                                   *)
Leave(s, pc) ==
    /\ sess' = [sess EXCEPT ![s] = [NoSession EXCEPT !.pc = pc]]
    /\ stream' = [stream EXCEPT ![s] = << >>]
    /\ watch' = [watch EXCEPT ![s] = NoWatch]

(* A request for the watch replaces the one the controller serves.         *)
Asked(rid, from) == [NoWatch EXCEPT !.on = TRUE, !.pending = TRUE, !.rid = rid, !.from = from]
Request(s, rid, from) ==
    watch' = [watch EXCEPT ![s] = IF watch[s].on THEN Asked(rid, from) ELSE NoWatch]

(* Registration: a takeover of the session before, whose token it cancels. *)
(* The controller writes no more to the stream it has left.                *)
Open(s) ==
    /\ sess[s].pc = "idle"
    /\ \A t \in Sessions : t < s => sess[t].pc # "idle"
    /\ current' = s /\ cancelled' = FALSE
    /\ sess' = [sess EXCEPT ![s].pc = "opening"]
    /\ watch' = [t \in Sessions |-> NoWatch]
    /\ UNCHANGED <<controller, stream, cache, store, late, astray, ops>>

(* The registration's projection is answered and the first watch resumes   *)
(* from the version of the cache; FedWatchState::new takes the server id a *)
(* little later, and only a late write could come between.                 *)
Begin(s) ==
    /\ sess[s].pc = "opening"
    /\ sess' = [sess EXCEPT ![s].pc = "run", ![s].rid = 1, ![s].server = cache.server]
    /\ watch' = [watch EXCEPT ![s] = IF current = s THEN Asked(1, cache.version) ELSE NoWatch]
    /\ UNCHANGED <<controller, stream, registry, cache, store, late, astray, ops>>

(* The registry forgets the sender of this session, if it is still its.    *)
MarkOffline(s) ==
    IF current = s THEN current' = 0 /\ cancelled' = FALSE ELSE UNCHANGED registry

(* The projection fails: the registry and the aggregator are marked, the   *)
(* watch cache is not.  Or the handler is dropped, and nothing is.         *)
Abandon(s) ==
    /\ sess[s].pc = "opening"
    /\ MarkOffline(s) \/ UNCHANGED registry
    /\ Leave(s, "gone")
    /\ UNCHANGED <<controller, cache, store, late, astray, ops>>

(* The heartbeat misses its pongs, or the ownership of the session is lost.*)
Cancel ==
    /\ current # 0 /\ ~cancelled /\ faults < MaxFaults
    /\ cancelled' = TRUE
    /\ faults' = faults + 1
    /\ UNCHANGED <<hist, base, watch, stream, current, cache, store, sess, late, astray, ops>>

Stopped(s) == current # s \/ cancelled

(* The next message, and the check that this session may still apply it.   *)
Receive(s) ==
    /\ sess[s].pc = "run" /\ stream[s] # << >>
    /\ ~Stopped(s)
    /\ sess' = [sess EXCEPT ![s].pc = "apply", ![s].msg = Head(stream[s])]
    /\ stream' = [stream EXCEPT ![s] = Tail(@)]
    /\ UNCHANGED <<controller, watch, registry, cache, store, late, astray, ops>>

(* A later check: the message is dropped, and the next turn ends the loop. *)
Recheck(s) ==
    /\ sess[s].pc = "apply" /\ Stopped(s)
    /\ Goto(s, "ending")
    /\ UNCHANGED <<controller, watch, stream, registry, cache, store, late, astray, ops>>

(* The first check fails, on a message of any kind: the loop ends and      *)
(* cleans nothing up, also when the session is still the current one.      *)
Superseded(s) ==
    /\ sess[s].pc \in {"run", "ending"} /\ Stopped(s)
    /\ Leave(s, "gone")
    /\ UNCHANGED <<controller, registry, cache, store, late, astray, ops>>

(* The stream ends, or the select sees the token: mark_offline_all, up to  *)
(* the registry's answer; a session that has been taken over touches       *)
(* nothing.                                                                *)
Disconnect(s) ==
    /\ sess[s].pc \in {"run", "ending"}
    /\ MarkOffline(s)
    /\ Leave(s, IF current = s THEN "offline" ELSE "done")
    /\ UNCHANGED <<controller, cache, store, late, astray, ops>>

(* CenterWatchCacheRegistry::mark_offline: the cache is kept, as stale.    *)
SetStale(s) ==
    /\ sess[s].pc = "offline"
    /\ cache' = [cache EXCEPT !.stale = TRUE]
    /\ Goto(s, "done")
    /\ UNCHANGED <<controller, watch, stream, registry, store, late, astray, ops>>

(* backoff_then_rewatch.                                                   *)
BackoffEnds(s) ==
    /\ sess[s].pc = "backoff"
    /\ sess' = [sess EXCEPT ![s].pc = "run", ![s].rid = @ + 1]
    /\ Request(s, sess[s].rid + 1, 0)
    /\ UNCHANGED <<controller, stream, registry, cache, store, late, astray, ops>>

(* A stream that closes or a token that is cancelled during the backoff    *)
(* ends the loop, and nothing is cleaned up.                               *)
BackoffStops(s) ==
    /\ sess[s].pc = "backoff"
    /\ Leave(s, "gone")
    /\ UNCHANGED <<controller, registry, cache, store, late, astray, ops>>

-----------------------------------------------------------------------------
(* apply_watch_list and apply_watch_event: synchronous, on the message the *)
(* loop holds.                                                             *)

(* The version check of an event batch.                                    *)
VersionGap(version) == cache.version > 0 /\ version <= cache.version

(* The events at some positions in order; the last one of a key decides.   *)
Touched(events, at) == {events[i].key : i \in at}
LastOf(events, at, k) ==
    events[CHOOSE i \in at : /\ events[i].key = k
                             /\ \A j \in at : events[j].key = k => j <= i]
AfterEvents(data, events, at) ==
    [k \in Keys |-> IF k \in Touched(events, at) THEN LastOf(events, at, k).doc ELSE data[k]]

(* Keys that more than one event is about: the maps below lose their order.*)
Repeated(events) ==
    {k \in Keys : \E i, j \in DOMAIN events : i # j /\ events[i].key = k /\ events[j].key = k}

(* The three maps handed to the handler: per class, the last event of a    *)
(* key wins, and a key may be in more than one.                            *)
OfType(events, type) == {i \in DOMAIN events : events[i].type = type}
BatchOf(events) ==
    [add |-> AfterEvents(Empty, events, OfType(events, "add")),
     update |-> AfterEvents(Empty, events, OfType(events, "update")),
     remove |-> Touched(events, OfType(events, "delete")),
     full |-> FALSE]

(* Mutant: a batch that was refused does not make the cache stale.         *)
OverflowStaysFresh(s) ==
    /\ UNCHANGED cache
    /\ sess' = [sess EXCEPT ![s].pc = "run", ![s].msg = NoMessage, ![s].terminated = TRUE]

(* A batch beyond the capacity changes nothing but the flags (overflowed,  *)
(* a diagnostic, is left out).                                             *)
Overflow(s) ==
    /\ cache' = [cache EXCEPT !.stale = TRUE]
    /\ sess' = [sess EXCEPT ![s].pc = "run", ![s].msg = NoMessage, ![s].terminated = TRUE]

(* replace_all and apply_events under the lock, the handler still to run.  *)
Store(s, data, batch) ==
    LET m == sess[s].msg
    IN  /\ cache' = [data |-> data, version |-> m.version, server |-> m.server,
                     stale |-> FALSE]
        /\ sess' = [sess EXCEPT ![s].pc = "publish", ![s].msg = NoMessage, ![s].batch = batch,
                                ![s].server = m.server]

(* A message of an earlier request, or for a watch that is terminated.     *)
Skipped(s) == sess[s].msg.rid # sess[s].rid \/ sess[s].terminated

ApplySkipped(s) ==
    /\ sess[s].pc = "apply" /\ Skipped(s)
    /\ Goto(s, "run")
    /\ UNCHANGED <<controller, watch, stream, registry, cache, store, late, astray, ops>>

ApplyList(s) ==
    /\ sess[s].pc = "apply" /\ ~Skipped(s) /\ sess[s].msg.type = "list"
    /\ LET state == sess[s].msg.state
       IN  IF Cardinality(Present(state)) > MaxEntries
           THEN Overflow(s) /\ UNCHANGED <<late, astray>>
           ELSE /\ Store(s, state, [NoBatch EXCEPT !.add = state, !.full = TRUE])
                /\ late' = (late \/ current # s)
                /\ astray' = {}
    /\ UNCHANGED <<controller, watch, stream, registry, store, ops>>

(* Mutant: a batch of another server is applied as if it continued the     *)
(* cached one.                                                             *)
AnyServer(s) == FALSE

ServerChanged(s) == sess[s].server # 0 /\ sess[s].server # sess[s].msg.server

(* Another server, or a version that does not advance: watch again from 0, *)
(* at once.                                                                *)
ApplyReWatch(s) ==
    /\ sess[s].pc = "apply" /\ ~Skipped(s) /\ sess[s].msg.type \in {"events", "badevents"}
    /\ \/ ServerChanged(s)
       \/ sess[s].msg.type = "events" /\ VersionGap(sess[s].msg.version)
    /\ sess' = [sess EXCEPT ![s].pc = "run", ![s].msg = NoMessage, ![s].rid = @ + 1]
    /\ Request(s, sess[s].rid + 1, 0)
    /\ UNCHANGED <<controller, stream, registry, cache, store, late, astray, ops>>

ApplyEvents(s) ==
    /\ sess[s].pc = "apply" /\ ~Skipped(s) /\ sess[s].msg.type = "events"
    /\ ~ServerChanged(s) /\ ~VersionGap(sess[s].msg.version)
    /\ LET events == sess[s].msg.events
           data == AfterEvents(cache.data, events, DOMAIN events)
       IN  IF Cardinality(Present(data)) > MaxEntries
           THEN Overflow(s) /\ UNCHANGED <<late, astray>>
           ELSE /\ Store(s, data, BatchOf(events))
                /\ late' = (late \/ current # s)
                /\ astray' = (astray \ Touched(events, DOMAIN events)) \cup Repeated(events)
    /\ UNCHANGED <<controller, watch, stream, registry, store, ops>>

(* A recoverable error, a malformed list, malformed events: back off.      *)
ApplyBackoff(s) ==
    /\ sess[s].pc = "apply" /\ ~Skipped(s)
    /\ \/ sess[s].msg.type \in {"error", "badlist"}
       \/ sess[s].msg.type = "badevents" /\ ~ServerChanged(s)
    /\ Goto(s, "backoff")
    /\ UNCHANGED <<controller, watch, stream, registry, cache, store, late, astray, ops>>

(* "Forbidden" ends the watch for good.                                    *)
ApplyForbidden(s) ==
    /\ sess[s].pc = "apply" /\ ~Skipped(s) /\ sess[s].msg.type = "forbidden"
    /\ sess' = [sess EXCEPT ![s].pc = "run", ![s].msg = NoMessage, ![s].terminated = TRUE]
    /\ cache' = [cache EXCEPT !.stale = TRUE]
    /\ UNCHANGED <<controller, watch, stream, registry, store, late, astray, ops>>

(* The handler, outside the cache's lock.  full_set replaces the rows;     *)
(* partial_update removes, then upserts the added and then the updated     *)
(* documents; a document of another type takes its row away.               *)
RowOf(doc) == IF doc.kind \in Overrides THEN doc ELSE NoDoc
Upsert(rows, docs) == [k \in Keys |-> IF docs[k] # NoDoc THEN RowOf(docs[k]) ELSE rows[k]]
FullSet(batch) == Upsert(Empty, batch.add)

(* Mutant: what a batch removes keeps its row.                             *)
NeverRemoves(rows, batch) == Upsert(Upsert(rows, batch.add), batch.update)

PartialUpdate(rows, batch) ==
    Upsert(Upsert([k \in Keys |-> IF k \in batch.remove THEN NoDoc ELSE rows[k]], batch.add),
           batch.update)

Publish(s) ==
    /\ sess[s].pc = "publish"
    /\ LET batch == sess[s].batch
       IN  store' = IF batch.full THEN FullSet(batch) ELSE PartialUpdate(store, batch)
    /\ late' = (late \/ current # s)
    /\ Goto(s, "run")
    /\ UNCHANGED <<controller, watch, stream, registry, cache, astray, ops>>

(* retain_controllers, from the sweep of the directory: a controller that  *)
(* the list does not show, for an eviction or because the list is older    *)
(* than its registration, loses its rows; the cache keeps its documents.   *)
(* full_set and partial_update lock the rows one at a time: a sweep that   *)
(* falls into a call takes some of its rows and leaves others.             *)
Retain(K) ==
    /\ K # {} /\ K \subseteq Present(store) /\ faults < MaxFaults
    /\ faults' = faults + 1
    /\ store' = [k \in Keys |-> IF k \in K THEN NoDoc ELSE store[k]]
    /\ astray' = astray \cup K
    /\ UNCHANGED <<hist, base, watch, stream, registry, cache, sess, late, ops>>

-----------------------------------------------------------------------------
(* write_config_data: a guarded write of the setting "on" to a document.   *)

(* is_online: a sender, and a token that is not cancelled.                 *)
Dispatchable == current # 0 /\ ~cancelled

(* Of a write that is over, the PUT may still be on its way.               *)
EndWrite(result) ==
    wr' = [(IF result = "failed" THEN wr ELSE NoWrite) EXCEPT !.pc = "done", !.via = FALSE,
                                                              !.result = result]

(* The document and its precondition: no resourceVersion, no write; an     *)
(* intent that holds, no write; a document of another type is refused.     *)
Judge(k, doc, via) ==
    CASE doc.kind = "on" -> EndWrite("converged")
      [] doc.kind = "other" -> EndWrite("failed")
      [] doc.kind = "off" ->
           wr' = [wr EXCEPT !.pc = "sent", !.key = k, !.via = via, !.pre = doc.rv,
                            !.put = "inflight"]

(* From the cache, or, where no session feeds it, from the controller by   *)
(* way of the replica that owns its session.                               *)
WriteReads(k) ==
    /\ wr.pc = "idle" /\ rl.pc = "idle"
    /\ CASE cache.data[k] # NoDoc -> Judge(k, cache.data[k], FALSE)
         [] cache.data[k] = NoDoc /\ Dispatchable -> EndWrite("failed")
         [] cache.data[k] = NoDoc /\ ~Dispatchable -> wr' = [wr EXCEPT !.pc = "fetch", !.key = k]
    /\ UNCHANGED <<controller, watch, stream, registry, cache, store, sess, late, astray, rl>>

WriteFetches ==
    /\ wr.pc = "fetch"
    /\ \/ EndWrite("failed")
       \/ hist[Now][wr.key] # NoDoc /\ Judge(wr.key, hist[Now][wr.key], TRUE)
    /\ UNCHANGED <<controller, watch, stream, registry, cache, store, sess, late, astray, rl>>

(* Controller: the PUT with If-Match, at most once, or never.              *)
Put ==
    /\ wr.put = "inflight" /\ Now <= MaxChanges
    /\ IF hist[Now][wr.key] # NoDoc /\ hist[Now][wr.key].rv = wr.pre
       THEN /\ hist' = Append(hist, [hist[Now] EXCEPT ![wr.key] = [rv |-> Now, kind |-> "on"]])
            /\ wr' = [wr EXCEPT !.put = "applied", !.rv = Now]
       ELSE wr' = [wr EXCEPT !.put = "conflict"] /\ UNCHANGED hist
    /\ UNCHANGED <<base, faults, watch, stream, registry, cache, store, sess, late, astray, rl>>

(* What an answered PUT leads to: 409 is final.                            *)
AfterPut == IF wr.put = "applied" THEN "poll" ELSE "conflict"

WriteAnswered ==
    /\ wr.pc = "sent" /\ wr.put \in {"applied", "conflict"}
    /\ IF AfterPut # "poll" THEN EndWrite(AfterPut)
       ELSE IF Dispatchable THEN wr' = [wr EXCEPT !.pc = "poll"] ELSE EndWrite("accepted")
    /\ UNCHANGED <<controller, watch, stream, registry, cache, store, sess, late, astray, rl>>

(* The proxy gives up: no answer within its deadline, no session, or an    *)
(* answer that is an error.                                                *)
WriteUnanswered ==
    /\ wr.pc = "sent"
    /\ EndWrite("failed")
    /\ UNCHANGED <<controller, watch, stream, registry, cache, store, sess, late, astray, rl>>

(* Mutant: the document being in the cache is enough.                      *)
SeenAtAll(doc) == doc # NoDoc

(* The cached document has left the precondition.                          *)
VersionMoved(doc) == doc # NoDoc /\ doc.rv # wr.pre

WritePolls ==
    /\ wr.pc = "poll"
    /\ LET doc == cache.data[wr.key]
       IN  IF VersionMoved(doc)
           THEN EndWrite(IF doc.kind = "on" THEN "converged" ELSE "superseded")
           ELSE EndWrite("unknown")
    /\ UNCHANGED <<controller, watch, stream, registry, cache, store, sess, late, astray, rl>>

-----------------------------------------------------------------------------
(* reload_controller.                                                      *)

EndReload(result) == rl' = [pc |-> "done", baseline |-> 0, result |-> result]

(* The baseline comes before the dispatch.                                 *)
ReloadBegins ==
    /\ rl.pc = "idle" /\ wr.pc = "idle"
    /\ rl' = [rl EXCEPT !.pc = "sent", !.baseline = cache.server]
    /\ UNCHANGED <<controller, watch, stream, registry, cache, store, sess, late, astray, wr>>

(* 409, 503, another status or a tunnel error: refused, one way or         *)
(* another; or 2xx: queued, no more.                                       *)
ReloadAnswered ==
    /\ rl.pc = "sent"
    /\ \/ EndReload("refused")
       \/ IF ~Dispatchable \/ rl.baseline = 0 THEN EndReload("accepted")
          ELSE rl' = [rl EXCEPT !.pc = "poll"]
    /\ UNCHANGED <<controller, watch, stream, registry, cache, store, sess, late, astray, wr>>

ServerIdMoved == cache.server # 0 /\ cache.server # rl.baseline

ReloadPolls ==
    /\ rl.pc = "poll"
    /\ EndReload(IF ServerIdMoved THEN "converged" ELSE "unknown")
    /\ UNCHANGED <<controller, watch, stream, registry, cache, store, sess, late, astray, wr>>

-----------------------------------------------------------------------------
(* The controller (external).                                              *)

(* Somebody edits a document in the controller's cluster.                  *)
Change(e) ==
    /\ Now <= MaxChanges
    /\ e.kind = "none" => hist[Now][e.key] # NoDoc
    /\ hist' = Append(hist, [hist[Now] EXCEPT ![e.key] =
                  IF e.kind = "none" THEN NoDoc ELSE [rv |-> Now, kind |-> e.kind]])
    /\ UNCHANGED <<base, faults, watch, stream, registry, cache, store, sess, late, astray, ops>>

(* The sync server is rebuilt: a reload, asked for or not.                 *)
Rebuild ==
    /\ faults < MaxFaults
    /\ faults' = faults + 1
    /\ base' = Append(base, Now - 1)
    /\ UNCHANGED <<hist, watch, stream, registry, cache, store, sess, late, astray, ops>>

Send(s, m) ==
    /\ Len(stream[s]) < MaxQueue
    /\ stream' = [stream EXCEPT ![s] = Append(@, m)]

Message(s, type) == [NoMessage EXCEPT !.type = type, !.rid = watch[s].rid, !.server = Server,
                                      !.version = VersionAt(Now)]

(* A new watch begins with a list of everything, or resumes after the      *)
(* version it names if the present server has reached it.                  *)
ServeList(s) ==
    /\ watch[s].on /\ watch[s].pending
    /\ Send(s, [Message(s, "list") EXCEPT !.state = hist[Now]])
    /\ watch' = [watch EXCEPT ![s].pending = FALSE, ![s].from = 0, ![s].at = Now,
                              ![s].server = Server]
    /\ UNCHANGED <<controller, registry, cache, store, sess, late, astray, ops>>

ServeResume(s) ==
    /\ watch[s].on /\ watch[s].pending
    /\ watch[s].from \in 1..VersionAt(Now)
    /\ watch' = [watch EXCEPT ![s].pending = FALSE, ![s].from = 0,
                              ![s].at = watch[s].from + 1 + base[Server], ![s].server = Server]
    /\ UNCHANGED <<controller, stream, registry, cache, store, sess, late, astray, ops>>

EventAt(n) ==
    LET k == CHOOSE j \in Keys : hist[n][j] # hist[n - 1][j]
    IN  [key |-> k, doc |-> hist[n][k],
         type |-> IF hist[n][k] = NoDoc THEN "delete"
                  ELSE IF hist[n - 1][k] = NoDoc THEN "add" ELSE "update"]
EventsBetween(m, n) == [i \in 1..(n - m) |-> EventAt(m + i)]

(* What has changed since the last message, in one batch.                  *)
ServeEvents(s) ==
    /\ watch[s].on /\ ~watch[s].pending /\ watch[s].server = Server /\ watch[s].at < Now
    /\ Send(s, [Message(s, "events") EXCEPT !.events = EventsBetween(watch[s].at, Now)])
    /\ watch' = [watch EXCEPT ![s].at = Now]
    /\ UNCHANGED <<controller, registry, cache, store, sess, late, astray, ops>>

(* The server behind a watch has been replaced: the watcher gets an error, *)
(* or events of the new server.                                            *)
ServeRebuilt(s) ==
    /\ watch[s].on /\ ~watch[s].pending /\ watch[s].server # Server
    /\ \/ Send(s, [Message(s, "error") EXCEPT !.version = 0])
       \/ Now > 1 /\ Send(s, [Message(s, "events") EXCEPT !.events = << EventAt(Now) >>])
    /\ watch' = [watch EXCEPT ![s].at = Now, ![s].server = Server]
    /\ UNCHANGED <<controller, registry, cache, store, sess, late, astray, ops>>

(* A refused, failing or garbled watch.                                    *)
Fault(s) ==
    /\ watch[s].on /\ faults < MaxFaults
    /\ faults' = faults + 1
    /\ \E type \in IF watch[s].pending THEN {"forbidden", "badlist"} ELSE {"badevents"} :
          Send(s, [Message(s, type) EXCEPT !.version = 0])
    /\ watch' = [watch EXCEPT ![s].pending = FALSE, ![s].from = 0, ![s].at = Now,
                              ![s].server = Server]
    /\ UNCHANGED <<hist, base, registry, cache, store, sess, late, astray, ops>>

-----------------------------------------------------------------------------
Apply(s) ==
    \/ ApplySkipped(s) \/ ApplyList(s) \/ ApplyReWatch(s) \/ ApplyEvents(s)
    \/ ApplyBackoff(s) \/ ApplyForbidden(s)
Session(s) ==
    \/ Open(s) \/ Begin(s) \/ Abandon(s) \/ Receive(s) \/ Recheck(s) \/ Superseded(s)
    \/ Disconnect(s) \/ SetStale(s)
    \/ BackoffEnds(s) \/ BackoffStops(s) \/ Apply(s) \/ Publish(s)
Serve(s) == ServeList(s) \/ ServeResume(s) \/ ServeEvents(s) \/ ServeRebuilt(s) \/ Fault(s)
Write ==
    \/ \E k \in Keys : WriteReads(k)
    \/ WriteFetches \/ Put \/ WriteAnswered \/ WriteUnanswered \/ WritePolls
Reload == ReloadBegins \/ ReloadAnswered \/ ReloadPolls

Next ==
    \/ \E s \in Sessions : Session(s) \/ Serve(s)
    \/ Cancel
    \/ \E K \in SUBSET Keys : Retain(K)
    \/ Write
    \/ Reload
    \/ \E e \in Edits : Change(e)
    \/ Rebuild

Spec == Init /\ [][Next]_vars

-----------------------------------------------------------------------------
(* Properties.                                                             *)

SessPCs == {"idle", "opening", "run", "apply", "publish", "backoff", "ending", "offline",
            "done", "gone"}
Results == {"none", "converged", "superseded", "accepted", "conflict", "failed", "unknown",
            "refused"}

Cache == [data: State, version: Nat, server: Nat, stale: BOOLEAN]
Watches == [on: BOOLEAN, pending: BOOLEAN, rid: Nat, from: Nat, at: Nat, server: Nat]
Events == [key: Keys, doc: Doc \cup {NoDoc}, type: {"add", "update", "delete"}]
Messages == [type: Types, rid: Nat, server: Nat, version: Nat, state: State,
             events: Seq(Events)]
Batches == [add: State, update: State, remove: SUBSET Keys, full: BOOLEAN]
SessionRecord == [pc: SessPCs, rid: Nat, server: Nat, terminated: BOOLEAN, msg: Messages,
                  batch: Batches]
WriteRecord == [pc: {"idle", "fetch", "sent", "poll", "done"}, key: Keys, pre: Nat,
                via: BOOLEAN, put: {"none", "inflight", "applied", "conflict"}, rv: Nat,
                result: Results]
ReloadRecord == [pc: {"idle", "sent", "poll", "done"}, baseline: Nat, result: Results]

(* Every variable has its type.                                            *)
TypeOK ==
    /\ hist \in Seq(State)
    /\ base \in Seq(Nat)
    /\ faults \in 0..MaxFaults
    /\ watch \in [Sessions -> Watches]
    /\ stream \in [Sessions -> Seq(Messages)]
    /\ current \in 0..MaxSessions /\ cancelled \in BOOLEAN
    /\ cache \in Cache /\ cache.server <= Server
    /\ store \in State
    /\ sess \in [Sessions -> SessionRecord]
    /\ late \in BOOLEAN
    /\ astray \subseteq Keys
    /\ wr \in WriteRecord
    /\ rl \in ReloadRecord

Snapshot(server, version) == hist[version + 1 + base[server]]

(* As long as only the current session writes, the cache is an exact past  *)
(* state of the controller: the one its server id and its sync version     *)
(* name.  No batch is applied on top of a state it does not continue, and  *)
(* an overflow or a fault leaves no half of one behind.                    *)
CacheIsSnapshot ==
    ~late =>
        IF cache.server = 0 THEN cache.data = Empty
        ELSE /\ cache.version + 1 + base[cache.server] \in DOMAIN hist
             /\ cache.data = Snapshot(cache.server, cache.version)

(* The override rows are those of the cached documents whenever no handler *)
(* call is outstanding, but for the keys that a sweep has pruned and those *)
(* that the last batch to touch them touched twice; a full list, or a      *)
(* batch that touches such a key once, puts its row right again.           *)
StoreMirrorsCache ==
    ~late /\ (\A s \in Sessions : sess[s].pc # "publish") =>
        \A k \in Keys \ astray : store[k] = RowOf(cache.data[k])

(* What the two operations report is true.  A write that saw its document  *)
(* move was executed, and what it saw is its own change ("converged") or a *)
(* later one; a conflict changed nothing.  A reload that converged saw a   *)
(* server newer than its baseline.  (A write that read the document from   *)
(* another replica has no cached version to compare with.)                 *)
OutcomesAreTruthful ==
    [][/\ wr.pc = "sent" /\ wr'.pc = "done" =>
            /\ wr'.result = "conflict" => wr.put = "conflict"
            /\ wr'.result = "accepted" => wr.put = "applied"
       /\ wr.pc = "poll" /\ wr'.result \in {"converged", "superseded"} /\ ~late /\ ~wr.via =>
            /\ wr.put = "applied"
            /\ cache.data[wr.key].rv >= wr.rv
            /\ wr'.result = "superseded" => cache.data[wr.key].rv > wr.rv
       /\ rl.pc = "poll" /\ rl'.result = "converged" /\ ~late => cache.server > rl.baseline]_vars

Latest(s) == sess[s].pc # "idle" /\ \A t \in Sessions : t > s => sess[t].pc = "idle"

(* A cache that is not marked stale is fed by the latest session, whose    *)
(* watch has not been terminated, or the mark is about to be set; only a   *)
(* session that is gone without its cleanup (a registration that failed, a *)
(* handler that was dropped, a loop that broke off in its backoff or       *)
(* between two messages) leaves a fresh cache behind that nobody feeds.    *)
FreshIsFed ==
    ~late /\ cache.server # 0 /\ ~cache.stale =>
        \E s \in Sessions :
            \/ sess[s].pc = "offline"
            \/ Latest(s) /\ sess[s].pc # "done" /\ ~sess[s].terminated
=============================================================================
