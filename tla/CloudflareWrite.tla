-------------------------- MODULE CloudflareWrite --------------------------
(***************************************************************************)
(* The synchronous Cloudflare write surface: guarded RRset put and delete, *)
(* zone create and zone delete (center-integration-cloudflare/             *)
(* dns_write_service.rs) over CloudflareDnsSyncWriter and plan_batch       *)
(* (center-adapter-cloudflare/lib.rs) and the HTTP client's outcome rules  *)
(* (http.rs).                                                              *)
(*                                                                         *)
(* Cloudflare has no atomic guard.  A batch deletes physical records by    *)
(* id and posts new ones; records added by others after the plan stay.     *)
(* Listings are paginated by offset, so a removal while a call is between  *)
(* two pages can hide a record from it.  Calls run on any replica: the     *)
(* permits of one process (see Route53Write for the semaphores, which are  *)
(* the same) order nothing between replicas and are left out.              *)
(***************************************************************************)
EXTENDS Naturals, Sequences, FiniteSets

CONSTANTS
    Calls,      \* API requests, each used once
    Keys,       \* RRset keys: owner and type
    Data,       \* values of a physical record
    PageSize,   \* PROVIDER_PAGE_SIZE
    InitialRecords, \* listings the zone may start with
    Puts,       \* the sets of values puts may desire
    MaxEdits    \* bound: edits by everybody but the calls

ASSUME ConfigAssumption ==
    /\ PageSize \in Nat \ {0} /\ MaxEdits \in Nat
    /\ Keys # {}
    /\ \A p \in Puts : p \subseteq Data /\ p # {} /\ IsFiniteSet(p)

(* A physical record; an RRset is the set of records with one key, and its *)
(* revision a digest of their ids and values.                              *)
Record == [id: Nat, key: Keys, data: Data]
Members(listing, k) == {listing[i] : i \in {j \in DOMAIN listing : listing[j].key = k}}
Values(rrset) == {r.data : r \in rrset}
Ids(rrset) == {r.id : r \in rrset}

(* The records a zone starts with are numbered in the order of the listing. *)
ASSUME InitialAssumption ==
    \A listing \in InitialRecords :
        listing \in Seq(Record) /\ \A i \in DOMAIN listing : listing[i].id = i

Ops == {"put", "delete", "create_zone", "delete_zone"}

VARIABLES
    account,  \* the ProviderAccount row: generation and management policy
    token,    \* revision of the mounted API token
    edits,    \* edits made so far
    zone,     \* provider: the zone: exists, revision, DNSSEC on
    recs,     \* provider: its records in listing order
    nextId,   \* provider: the next record id
    wire,     \* provider: what became of each call's one mutation
    plan,     \* the mutation each call sent: ids to delete, values to post
    call,     \* the calls
    quiet,    \* history: calls whose zone has not changed since they began
              \* to read it for the decision at hand
    removed   \* history: keys some record was removed from

vars == <<account, token, edits, zone, recs, nextId, wire, plan, call, quiet, removed>>
authority == <<account, token, edits>>
provider == <<zone, recs, nextId, wire, quiet, removed>>

Policies == {"managed", "observed", "gone"}
Definite == {"conflict", "not_found", "invalid", "unavailable"}
Results == Definite \cup {"none", "ok", "unknown"}
ReadPCs == {"scan", "plan", "preflight", "observe"}
PCs == {"idle", "prepare", "token", "fence1", "zone", "fence2", "sent", "verify", "done"}
         \cup ReadPCs
Wires == {"none", "inflight", "applied", "conflict", "throttled", "lost"}
NoRow == [gen |-> 0, policy |-> "gone"]

Row == [gen: Nat, policy: Policies]
Plan == [ids: SUBSET Nat, posts: SUBSET Data]
NoPlan == [ids |-> {}, posts |-> {}]

CallRecord ==
    [pc: PCs, op: Ops, key: Keys, guard: SUBSET Record, desired: SUBSET Data, rev: Nat,
     row: Row, token: Nat, view: SUBSET Record, page: Nat, pages: Nat,
     dispatched: BOOLEAN, out: Results, clean: BOOLEAN, result: Results]

Init ==
    /\ account = [gen |-> 1, policy |-> "managed"]
    /\ token = 1
    /\ edits = 0
    /\ zone = [live |-> TRUE, rev |-> 1, dnssec |-> FALSE]
    /\ recs \in InitialRecords
    /\ nextId = 1 + Len(recs)
    /\ wire = [c \in Calls |-> "none"]
    /\ plan = [c \in Calls |-> NoPlan]
    /\ call = [c \in Calls |->
                [pc |-> "idle", op |-> "put", key |-> CHOOSE k \in Keys : TRUE,
                 guard |-> {}, desired |-> {}, rev |-> 0,
                 row |-> NoRow, token |-> 0,
                 view |-> {}, page |-> 1, pages |-> 0, dispatched |-> FALSE,
                 out |-> "none", clean |-> FALSE, result |-> "none"]]
    /\ quiet = {}
    /\ removed = {}

-----------------------------------------------------------------------------
Goto(c, pc) == call' = [call EXCEPT ![c].pc = pc]

(* The answer; what the call has read is dropped with its future.          *)
Finish(c, result) ==
    call' = [call EXCEPT ![c].pc = "done", ![c].result = result, ![c].row = NoRow,
                         ![c].token = 0, ![c].view = {}, ![c].page = 1, ![c].pages = 0,
                         ![c].out = "none"]

(* A put or delete names the revision the caller last saw ({}: the guard   *)
(* MustNotExist); a zone delete names the zone revision it saw.            *)
Begin(c) ==
    /\ call[c].pc = "idle"
    /\ \E op \in Ops, k \in Keys, d \in Puts \cup {{}}, exists \in BOOLEAN :
          /\ (op = "put") <=> (d # {})
          /\ op = "delete" => exists /\ Members(recs, k) # {}
          /\ op = "put" /\ exists => Members(recs, k) # {}
          /\ op \in {"create_zone", "delete_zone"} => ~exists /\ k = CHOOSE j \in Keys : TRUE
          /\ call' = [call EXCEPT ![c].pc = "prepare", ![c].op = op, ![c].key = k,
                        ![c].desired = d, ![c].rev = zone.rev,
                        ![c].guard = IF exists THEN Members(recs, k) ELSE {}]
    /\ UNCHANGED <<authority, provider, plan>>

(* prepare and validate_account.                                           *)
ReadAccount(c) ==
    /\ call[c].pc = "prepare"
    /\ CASE account.policy = "gone" -> Finish(c, "not_found")
         [] account.policy = "observed" -> Finish(c, "invalid")
         [] account.policy = "managed" ->
              call' = [call EXCEPT ![c].pc = "token", ![c].row = account]
    /\ UNCHANGED <<authority, provider, plan>>

(* resolve_token, and the writer built with it.                            *)
ReadToken(c) ==
    /\ call[c].pc = "token"
    /\ call' = [call EXCEPT ![c].pc = "fence1", ![c].token = token]
    /\ UNCHANGED <<authority, provider, plan>>

(* authority_is_current: rows and token revisions never come back, so the  *)
(* account-token-account reads amount to one atomic read.                  *)
AuthorityIsCurrent(c) == account = call[c].row /\ token = call[c].token

Send(c, p) ==
    /\ call' = [call EXCEPT ![c].pc = "sent", ![c].dispatched = TRUE]
    /\ wire' = [wire EXCEPT ![c] = "inflight"]
    /\ plan' = [plan EXCEPT ![c] = p]

(* The first fence.  create_zone sends its request right after it.         *)
FenceBeforeWork(c) ==
    /\ call[c].pc = "fence1"
    /\ IF ~AuthorityIsCurrent(c)
       THEN Finish(c, "unavailable") /\ UNCHANGED <<wire, plan>>
       ELSE CASE call[c].op = "create_zone" -> Send(c, NoPlan)
              [] call[c].op = "delete_zone" -> Goto(c, "preflight") /\ UNCHANGED <<wire, plan>>
              [] OTHER -> Goto(c, "zone") /\ UNCHANGED <<wire, plan>>
    /\ UNCHANGED <<authority, zone, recs, nextId, quiet, removed>>

(* observe_exact_zone.                                                     *)
ObserveZone(c) ==
    /\ call[c].pc = "zone"
    /\ IF zone.live THEN Goto(c, "scan") ELSE Finish(c, "not_found")
    /\ UNCHANGED <<authority, provider, plan>>

-----------------------------------------------------------------------------
(* all_records: pages of the listing by offset; the number of pages must   *)
(* not change between them and no record may turn up twice.                *)

TotalPages == (Len(recs) + PageSize - 1) \div PageSize
PageItems(p) == {recs[i] : i \in {j \in DOMAIN recs :
                                    (p - 1) * PageSize < j /\ j <= p * PageSize}}
Torn(c) ==
    \/ call[c].page > 1 /\ TotalPages # call[c].pages
    \/ Ids(PageItems(call[c].page)) \cap Ids(call[c].view) # {}
LastPage(c) == call[c].page >= TotalPages
Inventory(c) == call[c].view \cup PageItems(call[c].page)
RRset(c) == {r \in Inventory(c) : r.key = call[c].key}

(* Keep what was read and go on to the next page.                          *)
NextPage(c) ==
    call' = [call EXCEPT ![c].view = Inventory(c), ![c].page = @ + 1, ![c].pages = TotalPages]

(* Leave the scan for `pc` with nothing but a pending outcome.             *)
Leave(c, pc, out) ==
    call' = [call EXCEPT ![c].pc = pc, ![c].out = out, ![c].view = {}, ![c].page = 1,
                         ![c].pages = 0, ![c].clean = (pc = "verify" /\ c \in quiet')]

(* A scan starts to be undisturbed at its first page.                      *)
QuietFrom(c) == quiet' = IF call[c].page = 1 THEN quiet \cup {c} ELSE quiet

(* put_change and the delete's guard, on the service's own observation.    *)
GuardError(c, seen) ==
    IF seen = call[c].guard THEN "none"
    ELSE IF seen = {} THEN "not_found" ELSE "conflict"

(* aggregate_records refuses an RRset with two equal values.               *)
Aggregates(rrset) == Cardinality(Values(rrset)) = Cardinality(rrset)

ScanPage(c) ==
    /\ call[c].pc = "scan"
    /\ QuietFrom(c)
    /\ CASE ~zone.live -> Finish(c, "not_found")
         [] zone.live /\ Torn(c) -> Finish(c, "invalid")
         [] zone.live /\ ~Torn(c) /\ ~LastPage(c) -> NextPage(c)
         [] OTHER ->
              LET error == GuardError(c, RRset(c))
              IN  IF ~Aggregates(RRset(c)) THEN Finish(c, "invalid")
                  ELSE IF error = "none" THEN Leave(c, "fence2", "none") ELSE Finish(c, error)
    /\ UNCHANGED <<authority, zone, recs, nextId, wire, removed, plan>>

(* Mutant: the writer plans from its own observation without comparing it  *)
(* with the revision the request names.                                    *)
PlanTrustsObservation(c, seen) == IF ~Aggregates(seen) THEN "invalid" ELSE "none"

(* plan_batch's guard, on the writer's own observation: a stale guard is a *)
(* conflict.                                                               *)
PlanError(c, seen) ==
    IF ~Aggregates(seen) THEN "invalid"
    ELSE IF seen # call[c].guard THEN "conflict" ELSE "none"

(* plan_batch's plan: every member of the RRset observed afresh by its id, *)
(* every desired value as a post.                                          *)
PlanBatch(c, seen) == [ids |-> Ids(seen), posts |-> call[c].desired]

(* The fence between the service's guard and the writer's own.  A zone     *)
(* delete is sent right after it.                                          *)
FenceBeforeApply(c) ==
    /\ call[c].pc = "fence2"
    /\ IF ~AuthorityIsCurrent(c)
       THEN Finish(c, "unavailable") /\ UNCHANGED <<wire, plan>>
       ELSE IF call[c].op = "delete_zone" THEN Send(c, NoPlan)
            ELSE Goto(c, "plan") /\ UNCHANGED <<wire, plan>>
    /\ UNCHANGED <<authority, zone, recs, nextId, quiet, removed>>

(* apply_record_change up to the batch.  An error here goes through the    *)
(* fence of the undispatched case, which can only turn it into             *)
(* "unavailable".                                                          *)
Undispatched(c, error) ==
    Finish(c, IF AuthorityIsCurrent(c) THEN error ELSE "unavailable")

PlanPage(c) ==
    /\ call[c].pc = "plan"
    /\ QuietFrom(c)
    /\ CASE ~zone.live -> Undispatched(c, "not_found") /\ UNCHANGED <<wire, plan>>
         [] zone.live /\ Torn(c) -> Undispatched(c, "invalid") /\ UNCHANGED <<wire, plan>>
         [] zone.live /\ ~Torn(c) /\ ~LastPage(c) -> NextPage(c) /\ UNCHANGED <<wire, plan>>
         [] OTHER ->
              IF PlanError(c, RRset(c)) # "none"
              THEN Undispatched(c, PlanError(c, RRset(c))) /\ UNCHANGED <<wire, plan>>
              ELSE /\ call' = [call EXCEPT ![c].pc = "sent", ![c].dispatched = TRUE,
                                           ![c].view = {}, ![c].page = 1, ![c].pages = 0]
                   /\ wire' = [wire EXCEPT ![c] = "inflight"]
                   /\ plan' = [plan EXCEPT ![c] = PlanBatch(c, RRset(c))]
    /\ UNCHANGED <<authority, zone, recs, nextId, removed>>

(* Mutant: the blockers of a zone delete leave out the records.            *)
BlockedByDnssecOnly(c) == zone.dnssec

(* The blockers of a zone delete: a record that is left, DNSSEC.           *)
Blocked(c) == Inventory(c) # {} \/ zone.dnssec

(* preflight_zone_delete: the named revision, no record left, DNSSEC off.  *)
(* The zone is read first, the records page by page, DNSSEC last.          *)
Preflight(c) ==
    /\ call[c].pc = "preflight"
    /\ QuietFrom(c)
    /\ CASE ~zone.live -> Finish(c, "not_found")
         [] zone.live /\ call[c].page = 1 /\ zone.rev # call[c].rev -> Finish(c, "conflict")
         [] zone.live /\ ~(call[c].page = 1 /\ zone.rev # call[c].rev) /\ Torn(c) ->
              Finish(c, "invalid")
         [] zone.live /\ ~(call[c].page = 1 /\ zone.rev # call[c].rev) /\ ~Torn(c)
              /\ ~LastPage(c) -> NextPage(c)
         [] OTHER -> IF Blocked(c)
                     THEN Finish(c, "conflict") ELSE Leave(c, "fence2", "none")
    /\ UNCHANGED <<authority, zone, recs, nextId, wire, removed, plan>>

-----------------------------------------------------------------------------
(* The response and what is made of it.                                    *)

(* http_status_error and map_provider_error: an explicit rejection keeps a *)
(* definite category.                                                      *)
Rejection(w) == IF w = "throttled" THEN "unavailable" ELSE w

(* Whatever is not an explicit rejection or a well-formed success (a lost  *)
(* response, 408, 5xx, a malformed body) is an unknown outcome.            *)
ResponseOutcomes(c) ==
    {"unknown"}
    \cup (IF wire[c] = "applied" THEN {"ok"} ELSE {})
    \cup (IF wire[c] \in {"conflict", "throttled"} THEN {Rejection(wire[c])} ELSE {})

(* An error of create_zone is returned as it is; every other outcome first *)
(* passes the final fence, a record change also the post-observation.      *)
Response(c) ==
    /\ call[c].pc = "sent"
    /\ \E out \in ResponseOutcomes(c) :
          CASE call[c].op = "create_zone" /\ out # "ok" -> Finish(c, out)
            [] out = "ok" /\ call[c].op \in {"put", "delete"} -> Goto(c, "observe")
            [] OTHER -> call' = [call EXCEPT ![c].pc = "verify", ![c].out = out]
    /\ UNCHANGED <<authority, provider, plan>>

(* Mutant: a well-formed response is success, whatever was observed.       *)
TrustResponse(c, seen) == "ok"

(* The post-observation must show exactly the desired values (none for a   *)
(* delete); any failure of it is an unknown outcome.                       *)
PostOutcome(c, seen) ==
    IF Aggregates(seen) /\ Values(seen) = call[c].desired THEN "ok" ELSE "unknown"

PostObserve(c) ==
    /\ call[c].pc = "observe"
    /\ QuietFrom(c)
    /\ CASE ~zone.live \/ Torn(c) -> Leave(c, "verify", "unknown")
         [] zone.live /\ ~Torn(c) /\ ~LastPage(c) -> NextPage(c)
         [] OTHER -> Leave(c, "verify", PostOutcome(c, RRset(c)))
    /\ UNCHANGED <<authority, zone, recs, nextId, wire, removed, plan>>

(* The fence after a dispatched mutation: an authority that has changed    *)
(* makes any outcome unknown.                                              *)
Verify(c) ==
    /\ call[c].pc = "verify"
    /\ Finish(c, IF AuthorityIsCurrent(c) THEN call[c].out ELSE "unknown")
    /\ UNCHANGED <<authority, provider, plan>>

(* Mutant: an expired deadline as a plain failure, whether or not the      *)
(* request has left.                                                       *)
TimeoutIsUnavailable(c) == "unavailable"

(* The deadline covers every await.                                        *)
ClassifyTimeout(c) == IF call[c].dispatched THEN "unknown" ELSE "unavailable"

Timeout(c) ==
    /\ call[c].pc \notin {"idle", "done"}
    /\ Finish(c, ClassifyTimeout(c))
    /\ UNCHANGED <<authority, provider, plan>>

(* A read that fails, contradicts itself or shows that the zone does not   *)
(* admit the request: definite before the dispatch, unknown after it.      *)
ReadFault(c) ==
    /\ call[c].pc \in {"prepare", "token", "zone"} \cup ReadPCs
    /\ IF call[c].pc = "observe"
       THEN call' = [call EXCEPT ![c].pc = "verify", ![c].out = "unknown", ![c].view = {},
                                 ![c].page = 1, ![c].pages = 0]
       ELSE \/ Finish(c, "unavailable")
            \/ call[c].pc \in {"zone"} \cup ReadPCs /\ Finish(c, "invalid")
    /\ UNCHANGED <<authority, provider, plan>>

-----------------------------------------------------------------------------
(* Cloudflare (external) and everybody else.                               *)

Disturb(c) == quiet' = quiet \ (Calls \ {c})

(* The listing without these ids, the other records in their order: the    *)
(* j-th of them is the one up to which there are j.                        *)
Kept(ids) == {i \in DOMAIN recs : recs[i].id \notin ids}
Rank(ids, i) == Cardinality({k \in Kept(ids) : k <= i})
Without(ids) ==
    [j \in 1..Cardinality(Kept(ids)) |->
        recs[CHOOSE i \in Kept(ids) : Rank(ids, i) = j]]

(* The posts of a batch in some order, with fresh ids.                     *)
Posted(c) ==
    LET n == Cardinality(plan[c].posts)
    IN  {[i \in 1..n |-> [id |-> nextId + i - 1, key |-> call[c].key, data |-> f[i]]] :
            f \in {g \in [1..n -> plan[c].posts] : \A i, j \in 1..n : i # j => g[i] # g[j]}}

(* One transaction: every id must still exist.                             *)
ExecuteBatch(c) ==
    /\ call[c].op \in {"put", "delete"}
    /\ IF zone.live /\ plan[c].ids \subseteq {recs[i].id : i \in DOMAIN recs}
       THEN /\ \E new \in Posted(c) : recs' = Without(plan[c].ids) \o new
            /\ nextId' = nextId + Cardinality(plan[c].posts)
            /\ wire' = [wire EXCEPT ![c] = "applied"]
            /\ removed' = removed \cup {recs[i].key : i \in {j \in DOMAIN recs : recs[j].id \in plan[c].ids}}
            /\ Disturb(c)
       ELSE /\ wire' = [wire EXCEPT ![c] = "conflict"]
            /\ UNCHANGED <<recs, nextId, removed, quiet>>
    /\ UNCHANGED zone

ExecuteCreate(c) ==
    /\ call[c].op = "create_zone"
    /\ IF zone.live
       THEN wire' = [wire EXCEPT ![c] = "conflict"] /\ UNCHANGED <<zone, quiet>>
       ELSE /\ zone' = [live |-> TRUE, rev |-> zone.rev + 1, dnssec |-> FALSE]
            /\ wire' = [wire EXCEPT ![c] = "applied"]
            /\ Disturb(c)
    /\ UNCHANGED <<recs, nextId, removed>>

(* Cloudflare deletes a zone with whatever is in it.                       *)
ExecuteDelete(c) ==
    /\ call[c].op = "delete_zone"
    /\ IF zone.live
       THEN /\ zone' = [zone EXCEPT !.live = FALSE]
            /\ recs' = << >>
            /\ removed' = removed \cup {recs[i].key : i \in DOMAIN recs}
            /\ wire' = [wire EXCEPT ![c] = "applied"]
            /\ Disturb(c)
       ELSE wire' = [wire EXCEPT ![c] = "conflict"] /\ UNCHANGED <<zone, recs, removed, quiet>>
    /\ UNCHANGED nextId

Execute(c) ==
    /\ wire[c] = "inflight"
    /\ \/ ExecuteBatch(c)
       \/ ExecuteCreate(c)
       \/ ExecuteDelete(c)
       \/ /\ \E w \in {"throttled", "lost"} : wire' = [wire EXCEPT ![c] = w]
          /\ UNCHANGED <<zone, recs, nextId, quiet, removed>>
    /\ UNCHANGED <<authority, plan, call>>

(* Somebody else adds, changes in place or removes a record, or changes    *)
(* the zone's settings.                                                    *)
EditRecord ==
    /\ \/ /\ \E k \in Keys, d \in Data : recs' = Append(recs, [id |-> nextId, key |-> k, data |-> d])
          /\ nextId' = nextId + 1
          /\ UNCHANGED removed
       \/ /\ \E i \in DOMAIN recs, d \in Data : d # recs[i].data /\ recs' = [recs EXCEPT ![i].data = d]
          /\ UNCHANGED <<nextId, removed>>
       \/ /\ \E i \in DOMAIN recs : /\ recs' = Without({recs[i].id})
                                    /\ removed' = removed \cup {recs[i].key}
          /\ UNCHANGED nextId
    /\ UNCHANGED zone

EditZone ==
    /\ zone' = [zone EXCEPT !.rev = @ + 1, !.dnssec = TRUE]
    /\ UNCHANGED <<recs, nextId, removed>>

Edit ==
    /\ edits < MaxEdits /\ zone.live
    /\ edits' = edits + 1
    /\ EditRecord \/ EditZone
    /\ quiet' = {}
    /\ UNCHANGED <<account, token, wire, plan, call>>

(* The ProviderAccount is edited or deleted, or the API token is replaced. *)
EditAuthority ==
    /\ edits < MaxEdits
    /\ edits' = edits + 1
    /\ \/ /\ account.policy # "gone"
          /\ \E p \in Policies : account' = [gen |-> account.gen + 1, policy |-> p]
          /\ UNCHANGED token
       \/ token' = token + 1 /\ UNCHANGED account
    /\ UNCHANGED <<provider, plan, call>>

-----------------------------------------------------------------------------
CallStep(c) ==
    \/ Begin(c) \/ ReadAccount(c) \/ ReadToken(c) \/ FenceBeforeWork(c) \/ ObserveZone(c)
    \/ ScanPage(c) \/ FenceBeforeApply(c) \/ PlanPage(c) \/ Preflight(c)
    \/ Response(c) \/ PostObserve(c) \/ Verify(c) \/ Timeout(c) \/ ReadFault(c)

Next ==
    \/ \E c \in Calls : CallStep(c) \/ Execute(c)
    \/ Edit
    \/ EditAuthority

Spec == Init /\ [][Next]_vars

-----------------------------------------------------------------------------
(* Properties.                                                             *)

(* Every variable has its type.                                            *)
TypeOK ==
    /\ account \in Row
    /\ token \in Nat
    /\ edits \in 0..MaxEdits
    /\ zone \in [live: BOOLEAN, rev: Nat, dnssec: BOOLEAN]
    /\ recs \in Seq(Record)
    /\ nextId \in Nat
    /\ wire \in [Calls -> Wires]
    /\ plan \in [Calls -> Plan]
    /\ call \in [Calls -> CallRecord]
    /\ quiet \subseteq Calls
    /\ removed \subseteq Keys

(* What a call tells its caller is true of Cloudflare, now and later:      *)
(* after a definite refusal its mutation has not been and will not be      *)
(* executed; success means it was.                                         *)
OutcomeIsTruthful ==
    \A c \in Calls :
        /\ call[c].result \in Definite => wire[c] \notin {"inflight", "applied"}
        /\ call[c].result = "ok" => wire[c] = "applied"

SamePut(c, d) == /\ c # d
                 /\ call[c].op = "put" /\ call[d].op = "put"
                 /\ call[c].key = call[d].key /\ call[c].guard = call[d].guard

(* The guard is only best effort, yet it admits one winner: of two puts    *)
(* that named the same revision only one succeeds, and of two that both    *)
(* required the RRset to be absent only one does, unless a record of the   *)
(* RRset has been removed (`removed` does not say when) or one of the two  *)
(* post-observations was disturbed between two of its pages.               *)
GuardAdmitsOneWinner ==
    \A c, d \in Calls :
        SamePut(c, d) /\ call[c].result = "ok" /\ call[d].result = "ok" =>
            /\ call[c].guard = {}
            /\ \/ call[c].key \in removed
               \/ ~call[c].clean \/ ~call[d].clean

(* A batch removes no record its caller did not see: what others added to  *)
(* the RRset after the revision the request names stays.                   *)
NoUnseenRecordRemoved ==
    [][\A c \in Calls :
          wire[c] = "inflight" /\ wire'[c] = "applied" /\ call[c].op \in {"put", "delete"} =>
            \A i \in DOMAIN recs :
                \/ \E j \in DOMAIN recs' : recs'[j] = recs[i]
                \/ recs[i].id \in Ids(call[c].guard)]_vars

(* A zone that nobody has touched since the preflight began is deleted     *)
(* only empty, with DNSSEC off and at the revision the request confirmed.  *)
UndisturbedDeleteIsSafe ==
    [][\A c \in quiet :
          wire[c] = "inflight" /\ wire'[c] = "applied" /\ call[c].op = "delete_zone" =>
            recs = << >> /\ ~zone.dnssec /\ zone.rev = call[c].rev]_vars

=============================================================================
