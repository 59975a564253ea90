# EdgionCenter: TLA+ specifications and proofs

EdgionCenter is the management plane of a fleet of Edgion gateway controllers. Controllers open
a long-lived bidirectional gRPC stream to a Center replica; the Center keeps a live view of the
fleet, projects it to a directory (SQL in the standalone binary, custom resources in the
Kubernetes binary), dispatches Admin requests through the streams and, with several replicas,
uses one Kubernetes Lease per controller to decide which replica owns its stream.

It also writes DNS zones at Route 53 and Cloudflare on behalf of its operators, and keeps snapshots
of what each provider account is capable of.

This directory models the concurrent core of that: the life of a session, the Lease and what the two
together mean for Admin traffic, the Kubernetes directory and everybody who writes it, the
configuration watch with the operations that read their outcome off it, the DNS writes, and the
discovery of capabilities. Source paths below are relative to the repository; `server.rs` is `crates/center-runtime/src/federation/server.rs`.

## 1. Inventory

| Component | State | Operations | What is hard | What makes it correct |
|---|---|---|---|---|
| controller registry (`federation/registry.rs`) | one `ControllerSession` per controller: sender, cancellation token, offline mark, ownership | register (takeover), mark_offline, remove, fence_owned_session, cancel_all | handlers, heartbeats, takeovers and DELETE race | a handler that is not cancelled is the registered one; a stale task never touches its successor's entry |
| session handler (`server.rs`, `sync`) | position in the handler, revision, watch state | register, announce, project, watch, message loop, heartbeat, disconnect | awaits between steps, a projection that times out and commits later, a future dropped by the peer | a cancelled handler ends, unless it hangs in a send; an ended session is shown offline, unless it leaves by one of the exits of section 6 |
| offline reconciler (`server.rs:529-602`) | the latest worker per controller | schedule, cancel, retry | reconnects during a directory outage | at most one worker; the latest offline state reaches the row |
| aggregator (`aggregator.rs`) | info, offline mark, last statistics | set_controller_info, mark_offline, update_stats, remove | updated without the registry's lock | agrees with the registry |
| watch cache, read model, metadata store (`watch_cache/`, `metadata_store.rs`) | entries, version, server id, stale and overflow flags, override rows | full list, delta batch, set_stale, overflow, handler, pruning by the sweep | rebuilt servers, refused batches, messages of an earlier request, a takeover between check and write | the entries are those of one server at one version, the rows those of the entries unless pruned, and fresh means fed |
| SQL directory (`center-adapter-sql/src/controllers.rs`) | the row: session, online, evicted, `observed_at_ms` | registration, tombstone, eviction, reset at start | statements in any order, two statements per tombstone | the revision never goes back; a tombstone or an eviction fences what is older |
| Lease coordinator (`center-adapter-kubernetes/src/lease.rs`) | the Lease object, observations of each replica | acquire, renew, release | compare-and-swap conflicts, lost answers, late PUTs, no common clock | one owner, growing fences, only the owner releases |
| ownership maintenance (`server.rs:376-483`) | deadline, `ownership_valid` | renew, revoke, release | deadline against renewal, crash | a session is unusable before its Lease is released; a lost Lease is noticed |
| owner locator, proxy, internal forwarding (`owner_locator.rs`, `proxy.rs`, `internal_forwarding/`) | pending requests | local dispatch, one fenced hop, one retry | ownership moves between lookup and dispatch | a request is dispatched at most once, and none is admitted to a session being released |
| Admin eviction (`eviction.rs`, `api/mod.rs`) | none of its own | durable eviction, then live cleanup | four separate steps; a check and a removal under two locks | an evicted controller stays evicted until it registers anew |
| Kubernetes controller directory, runtime projector, sweep (`controller_directory.rs`, `server.rs:102-237`, `bins/edgion-center-kubernetes/src/lib.rs`) | the `EdgionController` resource and its status, one projector slot, the sweep's list | five compare-and-swap callers: registration, offline, runtime, eviction, sweep | spec and status are written separately, answers are lost, writes executed late, lists stale | the owner is shown, an eviction sticks, no observation is lost, a session that is over is shown offline in the end |
| reload and configuration writes (`api/reload_ops.rs`, `api/config_data_ops.rs`) | the outcome of one operation | read or fetch, conditional PUT, poll the cache | the answer, the watch batch and a rebuild come in any order | the outcome is the truth |
| DNS write services (`center-integration-route53`, `center-integration-cloudflare`) and the adapters under them | permits, the authority snapshot, whether a mutation was dispatched | record batches, receipts, zone create and delete | deadlines at any await, lost responses, late executions, other editors, edited accounts, rotated keys | outcomes are true; guards hold when the provider executes; a retry repeats nothing |
| capability discovery and its stores (`cloud/capability_discovery.rs`, `cloud_capability_store.rs`, `cloud_capabilities.rs`) | flights, permits; epoch, authority and snapshot per account and scope | get_or_refresh, refresh, invalidate_stale_revision over begin_discovery, put_if_current, invalidate_account_revision | a leader dropped at any await, conflict loops, late writes, a rotation during a discovery | one discovery per process and authority; a caller gets a snapshot of its own authority; an invalidated one stays out |
| credential inspection, account stores (`cloud/credential_inspection.rs`, `provider_accounts.rs`, `provider_account_store.rs`) | cached inspections, generations | inspect, compare-and-swap | as above | a stale result is refused |
| authentication, authorisation, audit, dashboard | request-local | decisions, calls, output | no interleaving of their own | - |

Interaction: `sync` calls, in order, the registry's fence, the coordinator's acquire, the registry's
register, the aggregator and the directory; then its loop feeds watch cache and aggregator, a
heartbeat task and `maintain_ownership` cancel it through the session's token, and its end
schedules the offline reconciler. Admin requests take a sender out of the registry, or ask the
locator and go to the other replica. A configuration write goes to the controller through the same
tunnel, and what it did is read off the watch cache that the session's loop feeds. The DNS services
share nothing with the sessions; their calls meet in the provider account, the mounted keys, the
semaphores and the provider's zone. Refreshes of capabilities meet in a process's list of flights and,
across replicas, in the snapshot's resource. All of it is shared memory under short locks, with awaits
between the locks. The hazards that follow from this are listed in `PROJECT.json`, each with the
properties that cover it, and a note where they do so only in part.

## 2. Modules

| Module | Models |
|---|---|
| `FederationSession` | the sessions of one controller in one process with a SQL directory: registry, handler, heartbeat, aggregator, cache flags, row, offline workers, Admin DELETE, restart |
| `FencedLease` | the abstract promise of `Coordinator`: one owner, growing epochs, release only by the owner |
| `LeaseCoordinator` | `KubernetesLeaseCoordinator` and `maintain_ownership` for one Lease, with the API server, observations and time; implements `FencedLease` |
| `OwnedSessions` | the sessions of one controller on several replicas, composed with `FencedLease` (`INSTANCE`): fence, acquire, register, keep, revoke, release, drain, crash, Admin requests and evictions with forwarding |
| `KubeDirectory` | the `EdgionController` resource of one controller and its five writers, with the API server, the sessions of one replica, the runtime projector, an operator's DELETE and the sweep of this or another replica; the Lease is again the promise of `FencedLease`, reduced to its epoch |
| `ConfigSync` | the configuration watch between one controller and one process: sessions, cache, override rows, a document write and a reload |
| `Route53Write` | concurrent calls of the two Route 53 write services over the adapter, and Route 53 |
| `CloudflareWrite` | concurrent calls of the Cloudflare write service over the adapter, and Cloudflare |
| `SnapshotStore` | the promise of a `CapabilitySnapshotStore` for one account and scope, with the operations as the SQL store performs them |
| `CapabilityDiscovery` | the discovery service on several replicas over the Kubernetes snapshot store, with the API server; implements `SnapshotStore` |
| `MC*` | instances for TLC |
| `*Proofs` | theorems |

### FederationSession

`pc[s]` is the position of the `sync` call of session `s`; a handler step is one action between two
awaits or two locks. `entry`, `agg`, `cache` and `row` are the four holders of the controller's state;
`write[s]` is the registration statement, which may commit, or be lost, after its caller gave up;
`task[s]` is the offline worker of `s`, `slot` the reconciler's entry. `next_observed_at_ms` is `clock`: it
only matters that it grows within a process, and after a restart it starts anew, which is what
`reset_controller_sessions` is for. The two statements of `mark_session_offline`
are two steps, `WorkerWrite` and `WorkerFinish`, between which the row may change; the second one
classifies it with `tombstone_not_current` and `tombstone_marked`. A message is received,
checked, re-checked and applied in four steps, so that a takeover falls between any two of them.
What a watch batch does is reduced to whether it leaves the cache stale, fails
(`ApplyFailed`, which leads to the re-watch backoff) or is watched again at once (`ApplyReWatch`). The three sends of
`sync` on its own bounded channel, `RegisterAck` and the first watch request before anybody drains it, and every
re-watch request, await room without a deadline and without a look at the token; they are positions of their own (`Sending`).

### LeaseCoordinator

A coordinator call is `Begin`, a GET, and a PUT that the API server accepts only for the
`resourceVersion` that was read; a conflict starts over, up to `MaxAttempts`. The caller may time out
(`...Failed`); the PUT it has sent then moves to `late` and may still be executed. `obs[r]` is the
observation map of replica `r`: a version and the time of a clock reading taken *before* the GET.
Time is `now`; it advances only when no timer is overdue. One role is modelled, since Leases of
different controllers share nothing but the observation map, which is keyed by name. A first
acquire (`create`) is a PUT on version 0. The Lease's wall-clock fields are not modelled, since no
decision reads them. `granted`, `writtenAt` and `takenAt` are history variables.

A session is registered with `ownership_valid` set when its acquire is answered (`Acquired`), but `maintain_ownership`, and with it
the deadline, starts only after the projection and the two sends (`StartKeeper`). Between the two `pc[s]` is `"starting"`,
and the registration may be rejected, which marks the session offline and releases the Lease with
`ownership_valid` still set (`Reject`), or `sync` may be dropped, which leaves the session usable and unwatched
(`Dropped`). `Usable` says whether Admin requests may go through a session, `Kept` whether its keeper runs, and `unkept`
records how long that took to begin.

### OwnedSessions

The Lease is the promise `FencedLease`, so a grant may come whenever a session is acquiring, even
after it gave up. Renewals that succeed are stuttering steps. `keeper[s]` is `maintain_ownership` of `s`, or
the release after a rejected registration. `request` is an Admin request with the session whose fence
it carries, the replica it is on and the sender it holds; `eviction` an Admin DELETE after its durable
part. In `dispatch_to_session` the cancellation check (`Admit`) and the send (`Send`) belong to one poll of a biased
`select!`, but on a multi-threaded runtime the token may be cancelled, and the release begin, between them: they are
two steps, and a full channel leads back to the check (`SendPending`). `ProjectionOk` and `StartKeeper` are two steps as well, with the two
sends between them. `evict_fenced` checks under one lock and removes under another, so
`EvictMatch` and `EvictRemove` are two steps. A second lookup by an eviction always ends it. `RequestEnds`
stands for the answer, the timeout and every refusal. An owner lookup yields the current owner or
fails; the lookup's own observation rule and the Pod it resolves are part of that failure.

### KubeDirectory

`res` is the resource at the API server. Each writer is a `call`: GET, a write of the spec if it differs,
a write of the status; the `Transition` operators are the closures the five callers hand to
`replace_status_with_retry`. What matters of a `resourceVersion` is whether it is still the current one
(`fresh`), and any write makes every other one stale. A call that fails, is cancelled or dies with its
replica may leave its write behind in `late`, where it stays executable as long as nothing else is
written. A fencing token is unique to its epoch, so the epoch stands for both. A `Budget`
says how many sessions, observations, evictions and faults an execution has and where the sweep runs.

### ConfigSync

The controller is external: `hist` is the history of its documents, `base` the point at which each of its sync
servers started to count, `watch` the watch it serves. A session receives a message and checks that it
is current (`Receive`), applies it to the cache (`Apply...`) and then runs the handler outside the cache's lock
(`Publish`); a takeover may come between any two. Then two sessions feed one cache; `late`
records that it has happened and the properties speak of the states before. A registration (`Open`) is acknowledged and its
watch asked for (`Begin`), or fails or is dropped (`Abandon`). The token of the current session may be cancelled at any time (`Cancel`);
the loop notices it in the select, which cleans up (`Disconnect`), or between two messages or in a backoff, which does not (`Superseded`,
`BackoffStops`): such a session is `"gone"`. The directory sweeps of both binaries prune the override rows at any time (`Retain`). A document is its
`resourceVersion` and which of three kinds it is. Of a batch only the last event of a key matters
to the cache; `BatchOf` keeps the three maps of the handler apart, because there it is different. Polling is
one look at the cache: a look that does not settle the operation is either repeated, which is a
later look, or the last one.

### Route53Write, CloudflareWrite

A call is one request. The awaits of the code are step boundaries, with two exceptions: `get_zone` is one step with the first
page of an inventory, and the last page with `get_dnssec`. `wire[c]` is the one mutation a call may send: in
flight, executed, refused or lost, whether or not its caller still waits. A Route 53 record set is a key (owner, type, set identifier) with a
content; a replace may change neither its routing family nor its backing (alias, health check), and the members of an owner and type must
agree in routing family and in the TTLs they have, differ in the selectors they have, and not be too many if weighted
(`Compatible`, `GroupConsistent`). A revision is a digest of a content and so is the content itself. Listings are read page by page, from the
zone as it is at that moment. The authority checks read account, keys and account again; since
generations and revisions never come back, that is one atomic read. Both Route 53
services have a map of weak semaphores; a semaphore is named by the call that created it and lives as long as
some call holds it. Cloudflare's zone is the sequence of its records in listing order, since its pages
are offsets into it, and a batch names records by id. There the calls may be on different replicas, so
permits order nothing and are left out.

### CapabilityDiscovery, SnapshotStore

`pc[c]` is the position of a `refresh` or `get_or_refresh` call, `auth[c]` the account generation and credential
revision it was made for. A flight is named by the caller that created it; who holds its gate, or a
permit, is read off `pc`, since Rust drops both guards on every way out, that of a dropped future (`Cancel`)
too. `resource` is the CRD with its `resourceVersion`; the three conflict loops of the store share `WriteAccepted`,
`WriteConflict`, `WriteUnanswered` and `ReadFailed`, and an abandoned write waits in `late` until another write settles
it. A snapshot's lifetime is a choice: a matching one is found fresh or expired. `committed` and `purged` are
history variables. The SQL store performs each operation in one statement or one transaction (MySQL's
`begin_discovery`; a `put_if_current` that changed nothing adds a SELECT that only words its refusal), so its operations are
`SnapshotStore`, and that the loops over the CRD implement them says that the two stores agree.

## 3. Runs

| Run | Question and result |
|---|---|
| `session` | Takeovers, late statements, DELETE and restart in every order: an uncancelled handler is the registered one, tombstones fence late commits, at most one offline worker, no revision of an earlier process, evictions hold. 356 397 states. |
| `session_live` | A cancelled handler ends or stays in a send for ever; an offline worker that is not replaced settles. 353 621 states. |
| `session_latest` | Expected violation, see section 6. |
| `lease` | The compare-and-swap loops implement `FencedLease`; a trusted fence was granted; no release, however late, takes the Lease from a session that is still usable; a Lease is taken over only after a duration of silence less one operation timeout, and a displaced owner whose keeper runs is revoked within a bounded time. 3.4 million states. |
| `owned` | A request reaches at most one stream, and none passes the last check before the stream of a session that has begun to give its Lease up. 2 733 884 states. |
| `owned_live` | An online session is maintained, a stale owner is revoked in the end, a cancelled session gives its Lease up unless its handler is gone or hangs in a send; with crashes, drains and evictions. 30 995 states. |
| `kube_directory` | An acknowledged owner is shown online unless it was evicted; runtime data is that of the session shown; no observation is lost; an eviction is undone only by a later registration; and, with another replica that sweeps, a session that is over is shown offline in the end. 661 000 states. |
| `kube_renewal` | Expected violation, see section 6. |
| `capability` | Callers of one process and authority cause one discovery at a time, although leaders are dropped; what a call returns was committed under its own authority; a discovery that was invalidated cannot bring its snapshot back; the loops over the CRD implement `SnapshotStore`; every call returns. 1.8 million states. |
| `config_sync` | The cache is exactly one past state of the controller, the override rows mirror it where no sweep has pruned them, a cache that is not stale is fed by the latest session unless that one left without its cleanup, and a write or reload reports only what happened. 3.9 million states. |
| `route53_write` | What a caller is told is true of Route 53, whichever of deadline, fence and response came first; a batch takes effect only on the contents its guards named and keeps the zone consistent; retries create one zone; an account's concurrency is bounded. 4.7 million states. |
| `cloudflare_write` | Outcomes are true; of two puts with one guard one wins; no batch removes a record its caller did not see; a zone delete that was not disturbed takes an empty zone at the confirmed revision. 2.7 million states. |

### Bounds

* Two sessions in `FederationSession`: each property is about a session and the one that replaces it,
  and with two every order of an older and a newer one occurs, including a second takeover of the
  roles by symmetry. One DELETE and one restart, each of which may fall between any two steps.
  The theorems lift all of these bounds.
* Three sessions in `LeaseCoordinator` on two replicas: an owner, a contender, and a reconnect of the
  contender's replica, which acquires its own Lease again. Two attempts per call for a conflict, and five
  ticks, enough for a lease of duration 2 to be renewed, to expire and to be taken over, of which one may pass before
  `maintain_ownership` is spawned (`MaxStarting`). The states of the last tick are checked and not explored
  further (`InTime`). The theorems lift all of these; in particular they leave
  the time before the keeper starts unbounded.
* Three sessions in `owned` for a reconnect to one replica and a takeover by another at once, with one
  request that comes to the second replica and so is forwarded, refused, retried or dispatched
  locally; `owned_live` has two sessions and instead crashes, drains and evictions. `Askers`, `Evictable`
  and `Stopping` name which of these an instance has.

* `kube_directory`: two sessions, one of everything else, combined pairwise in `MCBudgets`: a takeover with an
  eviction, with a fault under either sweep, with an observation, an eviction with a fault, and
  one session with three observations so that the worker falls behind twice. Two tries per call, so
  that a conflict is met and the tries run out. The theorems lift these bounds.
* `config_sync`: two sessions, two documents of which the cache holds one (so that the second overflows
  it), two changes, one fault (a rebuild, a refused or garbled message, a cancelled token or a sweep that prunes), one message in flight. A batch of two events, a resumed watch,
  a version gap and a rebuilt server all occur. The constraint `NotLate` prunes what follows a late
  write, of which the properties say nothing.
* `route53_write`: two calls on two accounts, three keys on pages of two (a plan spans two pages),
  contents of three routing families with TTLs and selectors that agree or not, at most one weighted member, a CNAME beside
  A sets of the same owner, one outside edit, and one permit per account, tracked for one account only, so that admission is refused too. The theorems lift these bounds.
* `cloudflare_write`: two calls, two RRsets, pages of two, a zone of none or three records, one outside edit: a
  removal between two pages hides a record, two puts on one guard compete.

* `capability`: two callers in one process, one in another and an invalidation, two authorities, one permit, two
  tries, one fault (a dropped call or an unanswered request). Two callers show every way a flight passes
  on, the third makes fences get lost; one permit makes callers of different authorities wait for each
  other. The run also passes with two faults and with any number of them (9 million states, beyond the time of a routine run).

Deadlock is not checked, except in `capability`: sessions, requests and time are bounded, so every instance
stops, and in the system too a controller that has disconnected need not return. In `capability` the one
state without another step is that all calls have returned. Every other step brings some call forward in its code or uses
up a try or a fault, so no behaviour goes on for ever: that no state is stuck means that every call returns.

### Fairness

* `session_live`: weak fairness of each handler's own steps that the Center takes by itself (tokio
  polls ready tasks, and the projection and backoff deadlines are timers), of an offline worker's
  write and of the rest of a DELETE under way; strong fairness of the end of a worker's attempt, as a
  retried attempt succeeds once the directory is available. Nothing is assumed of the controller, of
  a registration statement, of an administrator, or of the sends on the bounded channel, which end only if the peer
  reads: hence the exception in `CancelledHandlerEnds`.
* `kube_directory` (`GoneIsOffline`): requests are answered, by success or conflict; handlers, the offline
  worker and a sweep under way run on; the ticker of another replica keeps ticking; a Lease that
  nobody renews runs out. Nothing is assumed of controllers, operators, renewals or faults, which are
  bounded by the budget.
* `owned_live`: the projection answers or times out; a cancelled loop and a cancelled keeper are
  polled; a keeper whose Lease is gone learns it, because it renews every third of the duration and at
  its deadline needs no answer; a release is answered or times out. Grants, crashes, drains,
  requests, the peer and the sends before the keeper starts are not assumed fair.

## 4. Theorems

Every safety property that a passing run checks, invariant or action property, and both refinements are proved for all
values of the constants; what remains with TLC is liveness. So are the type invariants, that
the row's revision never goes back within a process (`RevisionIsMonotone`), and that the second statement of `mark_session_offline` can
classify whatever it finds (`TombstoneCheckSucceeds`). The assumptions are the named `ASSUME`s: the null values are not sessions or replicas, every session has a
replica, durations and attempts are positive, bounds are natural numbers, and the three sets that
select an instance of `OwnedSessions` are subsets of sessions and replicas, callers have distinct names,
requests are well-formed and permits are positive, callers are no invalidations, no fence, snapshot or outcome is `None`,
pages hold at least one record, and a Cloudflare zone starts with its records numbered in listing order (ids are
opaque, and only their being distinct from each other and from later ones matters). TLC evaluates them in every run.

* **`FederationSessionProofs`.** `UncancelledIsCurrent`, `OneOfflineWorker` and the type invariant are nearly
  inductive. `TombstoneFencesLateCommit` is not: a late commit is harmless only because its revision is not
  above the row's. `IInv` therefore adds that revisions in use are positive and not above the clock
  (`RevisionsTaken`), that no two sessions share one (`RevisionsDistinct`), and that a row names the session
  whose revision it carries unless it was evicted or reset (`RowConsistent`). One lemma per operation
  of the registry and of the row states its effect; each conjunct is then preserved by every action.
  The action properties follow from `IInv`.
* **`LeaseCoordinatorProofs`.** A PUT is judged when it is executed, perhaps long after its caller is gone,
  so `IInv` speaks of every PUT that can still succeed: one that carries the current version was built from
  the current Lease (`PutsConsistent`), a grant's epoch is not above the Lease's and no two sessions share one
  (`GrantsConsistent`), and a session whose ownership is valid was granted its fence (`SessionsConsistent`). From these,
  `LeaseSteps` shows that each step of the Lease is a grant, a release by its owner, or invisible, which gives
  `OnlyUnusableIsReleased` and the refinement `ImplementsFencedLease`.
  The time bounds need `TimesInv`, about what clocks were read when: a call is over within its timeout (`CallsInTime`), a
  replica dates a version at most one call before it was written (`ObservationsInTime`), a contender's PUT that would be
  accepted was sent after a silent duration (`ContendersWaited`), an owner's deadline is a duration after the
  last write's answer, or after the start of its keeper, which `unkept` dates (`OwnerInTime`), and no answer extends that once it is displaced (`DisplacedInTime`), and the deadline is
  looked at once per sleep (`MaintenanceInTime`). `TakenAfterSilence` and `OverlapBounded` are sums of these.
* **`OwnedSessionsProofs`.** `NoAdmissionAfterRelease` needs that a session in release is cancelled
  (`ReleasingIsCancelled`), `OnlineSessionIsMaintained` that a session is registered until it is cancelled
  (`RegisteredUntilCancelled`) and that a registry only holds its own replica's sessions (`EntryIsLocal`);
  requests and evictions carry only sessions they were given (`RequestConsistent`, `EvictionConsistent`).

* **`KubeDirectoryProofs`.** `OwnerIsShown` must survive every write that may still be executed, also by callers
  that are gone. `Pending` is the set of those writes: the ones in calls and in `late` whose
  `resourceVersion` is current. `IInv` says that no epoch in use is above the Lease's (`EpochsInOrder`), that calls
  carry the fence of their session (`CallsCarryFences`), that the status shows an acknowledged owner
  (`RegistrationShows`), and that every pending write was built from the resource as it is
  (`PendingFollows`) and would show the owner too (`PendingShows`). `EvictionSticks` follows from `PendingFollows`:
  a write that succeeds is a transition of the status it replaces. `DataInv` follows the runtime data: what is online, or would be
  by a pending write, holds one session's data (`OnlineIsOwn`, from which `OwnDataShown`); a session that was registered is
  not registered again (`SettledStays`); the worker has a copy of the slot or the slot has moved on (`WorkerCopies`); and
  what is owed is in the slot or has landed wherever the session is shown (`OwedIsKept`, `WorkerOutcome`), from which `ObservationsKept`.
* **`Route53WriteProofs`.** `IInv` says where a call's mutation can be given its position (`Placed`), that its result is
  compatible with the wire (`Truthful`), and that a receipt or a create's answer rests on an executed
  mutation (`ReceiptOK`, `ZonesOK`, `SentOK`): `Outcomes`, `OneZone` and `NoUpdateLost` follow. `PInv` adds
  what a plan has established while the zone is unchanged since (`PlanOK`: the inventory read so far is the zone's, and
  after it the guards hold and the result is consistent), for `BatchConsistent`: what a batch does not touch keeps its members and
  their contents (`ResultConsistent`). `SInv` adds that the calls that work on one
  account hold one and the same semaphore, the tracked one (`SemaphoresOK`), whose holders are bounded: `ConcurrencyBounded`.
* **`CloudflareWriteProofs`.** Per call, `Placed` and `Truthful` relate its position, its result and its mutation (`Outcomes`), and
  `Planned` says that a batch on the wire deletes exactly the ids of its guard (`UnseenKept`). That of two puts with one
  guard one wins is a fact about ids: they are never used again, so two executed batches have deleted disjoint ids (`Spent`), and
  each executed put has records of its own in the zone as long as its RRset loses none (`Owned`, an
  existential: which records they are is not part of the state). An undisturbed listing holds every record of the pages
  read (`SeenAll`), hence an undisturbed confirmation has seen its rival's records (`OneConfirmed`), and an undisturbed
  preflight has seen the empty zone (`Preflighted`, from which `DeleteIsSafe`). `Without`, what a removal leaves of the listing, is
  defined by rank, and its lemmas are proved from counting, not by induction.
* **`ConfigSyncProofs`.** That the cache is a snapshot depends on what is in flight. `Line` says that each message a session has
  still to apply is sound, that is, its list is a state of the history and its events are the changes up to the state it names, and
  that they come in order; `Feeds` that none is behind the cache; `Chained` that a batch the reader will not refuse starts where the
  reader will then be, be it at the cache or at the message before, for whatever rebuilds, faults and repeated requests lie
  between; `Placed` which watch the controller serves. `Replay` then gives `Snapshots`: the last event of each key, over the
  state the batch starts from, is the state it ends in, for a batch of any length, since the least and the greatest
  position with a property exist (`LeastNat`, `GreatestNat`, from the well-foundedness of `<`). `Mirrored` carries the batch
  between cache and handler, which gives `MirrorKept`. `FreshFed` needs `Seated`: sessions register in order, the
  registry's is the latest, and the latest stays in the registry as long as it attends to its stream. `Aged`, that versions in the history grow, and `Written`, where in the history a write
  took effect, give `OutcomesTrue`: a poll that sees the document move sees a state at or after the write.
* **`CapabilityDiscoveryProofs`.** `InvalidatedStaysOut` speaks of the CRD alone, but what may be written next is in calls and in
  `late`. `IInv` says that a write for the current `resourceVersion` was made from the current resource (`WritesFit`: a snapshot
  is written only under its own fence, and once), so every step executes a write that fits or leaves the resource alone
  (`StoreStep`). From that follow the refinement `LoopsImplementSnapshotStore` and `PurgedIsOld`: neither authority nor snapshot of an
  invalidated revision has an epoch from before. `FlightsConsistent` says that a flight without a result is listed, has one caller
  at its gate or behind it, and is the only live one of its key on the list, which gives `DiscoveriesAreCoalesced`;
  `OutcomesConsistent` follows a committed snapshot from the CRD through a flight's result to the callers that share it.

Each `IInv` was checked with TLC before it was proved.

Only model-checked: the five liveness properties (`CancelledHandlerEnds`, `OfflineWorkerSettles`, `StaleOwnerIsRevoked`,
`CancelledLeaseIsGivenUp`, `GoneIsOffline`) and that every call of `capability` returns (its deadlock check). The prover has no rule for
fairness or `ENABLED`. What recursive definitions compute for all inputs is out of its reach as well; the modules use none.

## 5. Reading the results

`tlc -config FederationSession.cfg MCFederationSession` runs a model, `tlapm FederationSessionProofs.tla` the
proofs. `PROJECT.json` lists runs, the source lines of every definition, hazards and, for every
property, a mutant: a plausible slip in the code (defined in the module next to what it replaces,
marked `Mutant:`) under which TLC finds the property violated.

## 6. Where the code and its comments disagree

With a run:

1. `session_latest`: the late answer to an older registration cancels the newer session's offline worker
   (`server.rs:1446`), against "One latest desired offline projection per controller" (`server.rs:542`). In the
   Kubernetes deployment the sweep repairs it (`GoneIsOffline`), with SQL nothing does.
2. `kube_renewal`: "a concurrent renewal wins as Conflict and prevents a false offline projection"
   (`bins/edgion-center-kubernetes/src/lib.rs:53-55`) holds against other replicas only. On the replica that
   holds the Lease the sweep's acquire is granted, displaces the live owner and projects it offline.

Seen while modelling, reachable in the models, without a run of their own:

3. A session cancelled in its re-watch backoff, or found superseded between two messages, leaves its
   loop without `mark_offline_all` (`server.rs:1144`, `:1748`); the comment at `server.rs:1651` asks every branch to propagate offline.
   The registry's entry is then not online (`registry.rs:37-41`), but the cache stays fresh and the row online, and nobody
   feeds either. A failed registration marks registry and aggregator and not the cache (`server.rs:1453-1454`), and a dropped handler
   nothing at all. These are the sessions that `FreshIsFed` excepts as `"gone"`; it shows that there is no other such path.
4. A registration rejected after a takeover marks the successor's controller offline in the aggregator
   (`server.rs:1454`); the comment at `server.rs:1657` says a stale task touches nothing.
5. A contender's clock is read before its GET, so it waits up to one operation timeout less than the
   "conservative full duration" (`lease.rs:225`). `OverlapIsBounded` bounds the effect.
6. Two overlapping `sync` calls on one replica leave a window in which the first dispatches through a
   superseded fence (`server.rs:1334-1337`). `SentAtMostOnce` and `StaleOwnerIsRevoked` limit the window; nothing closes it.
7. A rejected registration releases its Lease with `ownership_valid` still set, against
   `skills/01-architecture/06-center/01-fed-sync-server.md:16-18`. The session is marked offline first,
   which is why `OnlyUnusableIsReleased` and `NoAdmissionAfterRelease` hold all the same; the effect is an uncertain failure where
   a retryable refusal was meant.
8. A configuration write whose PUT was dispatched but not answered is reported as `Failed`
   (`config_data_ops.rs:288-295`), which the dashboard's `WriteOutcomeTag.tsx:11` counts among the states "where
   nothing was applied". In `ConfigSync` a PUT may be executed after `WriteUnanswered`; `OutcomesAreTruthful`
   therefore claims nothing of `failed`.
9. A write that read its document by the fallback may still poll, and report convergence, if the session
   comes to this replica meanwhile; the module comment (`config_data_ops.rs:23-24`) says it "can only ever end in `Accepted`".
10. A batch with an update and then a deletion of one key removes the entry from the cache and leaves its
    override row: `partial_update` removes first and upserts afterwards (`metadata_store.rs:99-116`). `StoreMirrorsCache`
    excepts such keys (`astray`) until a full list, or a batch that touches them once, puts the row right.
11. "single-writer per cache" (`cache.rs:268`) does not hold between a takeover and the end of the displaced
    session's message: `late` in `ConfigSync`.
12. `evict_fenced` compares the fence of one session and removes whichever is registered then
    (`eviction.rs:72-84`): `EvictMatch`, `EvictRemove`.
13. The sweep prunes local sessions by a list that is older than they may be (`lib.rs:476-480`): `SweepList`, `SweepPrune`.
14. `mark_offline` and `project_runtime` hand `get_or_create` a spec with an empty cluster and so blank the one that
    `crd.rs:28` calls "retained for operator readability".
15. A displaced session's late observation takes the place of its successor's in the projector's slot and is then
    refused by the fence: the successor's is lost until its next message.
16. `begin_discovery` compares no generations: a slow caller with an older authority displaces the discovery of
    a newer one (`cloud_capability_store.rs:373`, `cloud_capabilities.rs:200`), whose caller then polls for a winner of its own
    authority and ends in `Conflict` if there is none (`PutLost`, `WinnerTimeout`). No wrong snapshot is served.
17. A refresh that is dropped between publishing its result and taking its flight off the list
    (`capability_discovery.rs:325-326`) leaves a listed flight: as long as somebody holds it, later callers get
    that result instead of a refresh.
18. In credential inspection, which is not modelled, a leader that times out leaves an entry in flight that nothing prunes, and
    an expired flight may be pruned while a caller still holds it, so that two inspections run (`credential_inspection.rs:236-260`).
19. `retain_controllers` (`metadata_store.rs:68`, called by the sweeps of both binaries) prunes by a list that may be older than a
    registration. The cache keeps the documents and a resumed watch sends none of them again, so the rows come back only
    with a full list or with a change of the document: `Retain`, `astray`.
20. `RegisterAck` and the first watch request are sent on a channel of 32 that nobody drains before `server.rs:1574`, while the session
    is already registered and Admin requests may fill it; re-watch requests are sent by the loop itself (`server.rs:1155`, `:1845`).
    None of these sends has a deadline or looks at the token: a cancelled handler may hang there
    (`CancelledHandlerEnds`, `CancelledLeaseIsGivenUp` except it), before `server.rs:1564` without a keeper for its Lease.
21. `ownership_valid` is true from `server.rs:1384` on, the deadline is set when `maintain_ownership` starts: a Lease that expires during the
    projection is trusted that much longer (`unkept` in `OverlapIsBounded`), and one whose handler was dropped before
    (`server.rs:1426`) is trusted until another session of the controller, or an eviction, comes to that replica.
22. A request that has passed its last look at the token may be sent after the session was cancelled and its release begun:
    one poll of overlap, on another thread (`Admit`, `Send`).

## 7. Not modelled

* Credential inspection: a second single-flight cache, of results that are compared with the account's
  generation when used. Account stores: each write is one compare-and-swap on a generation, taken as atomic by the
  DNS models. The capability stores' repair of malformed data, and snapshots of several scopes, which share
  only the list that an invalidation walks.
* DNSSEC changes, listings, cursors, and parsing, rendering and validation of record data: no state of their own, or
  the same dispatch and fences as the operations that are modelled.
* `project_controller_runtime` of the SQL directory; in `ConfigSync`, the removal of the cache by an eviction (`eviction.rs:58-64`), after
  which a running session writes to a cache nobody reads, as in `FederationSession`'s `AdminEvictCache`; the proxy's pending map and size limits;
  the region route and global resource handlers, which fan out what the proxy and `ConfigSync` model once.
* A restart ends the statements that the dead process had in flight; that the database still executes one of them
  after `reset_controller_sessions` is left out.
* Registration validation, the SPIFFE binding and the capacity check refuse a session before any
  state changes. Metrics, audit, authentication, authorisation and the dashboard keep no state that
  interleaves with the rest.

## 8. Plan

Done, in this order: `FederationSession`, `FencedLease` and `LeaseCoordinator`, `OwnedSessions` and their proofs;
`Route53Write`, `CloudflareWrite`, `ConfigSync` and `KubeDirectory`, and the proofs about the first and the last;
`SnapshotStore` and `CapabilityDiscovery` and their proofs; the time bounds of `LeaseCoordinator`, the runtime data of
`KubeDirectory`, and the proofs about `CloudflareWrite` and `ConfigSync`; the start of the keeper, the rejected registration and the sends that
cannot be interrupted in the session and Lease models, the exits without cleanup and the sweep in `ConfigSync`, and the
planning rules of Route 53 groups.

Next:

1. `ConfigSync` with an abstract cache, which moves from one state of the controller's history to another and
   never back under one server, as its promise: a refinement that follows from the invariant of `ConfigSyncProofs`.
2. The safety part of the liveness arguments: for each of the five, the bound or the measure that its fairness makes
   decrease, as an action property.
3. `KubeDirectory` as an implementation of an abstract directory that the SQL rows of `FederationSession` implement as well.
