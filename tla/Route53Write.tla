--------------------------- MODULE Route53Write ---------------------------
(***************************************************************************)
(* The synchronous Route 53 write surface: guarded record-set batches and  *)
(* receipt observation (center-integration-route53/dns_write_service.rs),  *)
(* hosted-zone create and delete (zone_lifecycle_service.rs), and the      *)
(* planning they rest on (center-adapter-route53/lib.rs, aws_sdk.rs).      *)
(*                                                                         *)
(* Calls run concurrently.  The awaits of the code are step boundaries: a  *)
(* ProviderAccount edit, a signing-key rotation, an edit of the zone by    *)
(* somebody else, the deadline, or another call may come between two.      *)
(* Two pairs of reads are one step each: get_zone with the first page of   *)
(* an inventory, and the last page with get_dnssec.                        *)
(* Route 53 itself is external: it executes a batch all-or-nothing, it may *)
(* execute one whose caller has already given up, and a response may be    *)
(* lost on the way back.                                                   *)
(***************************************************************************)
EXTENDS Naturals, Sequences, FiniteSets

CONSTANTS
    Calls,        \* API requests, each used once
    Accounts,     \* ProviderAccounts; each has one hosted zone with records
    KeyOrder,     \* the record-set keys, in the provider's listing order
    PageSize,     \* RECORD_PAGE_SIZE
    Contents,     \* record-set contents; a revision is a digest of one
    None,
    Owner,        \* key -> owner name
    RecordType,   \* key -> record type
    Family,       \* content -> routing family
    Backing,      \* content -> alias or not, and the health check
    Selector,     \* content -> failover role, region or location; or None
    Ttl,          \* content -> DnsTtl::Seconds; or None
    MaxWeighted,  \* members of a weighted group (100)
    Requests,     \* the requests callers may make
    InitialRecords, \* the record sets the zones may hold at the start
    PerAccount,   \* per_account_concurrency
    Global,       \* global_concurrency
    MaxTracked,   \* MAX_TRACKED_ACCOUNTS
    MaxActions,   \* MAX_PROVIDER_CHANGE_ACTIONS
    MaxEdits      \* bound: edits by everybody but the calls

Keys == {KeyOrder[i] : i \in DOMAIN KeyOrder}
KeyGroup(k) == <<Owner[k], RecordType[k]>>

Services == {"records", "lifecycle"}
Ops == {"change", "get_change", "create_zone", "delete_zone"}
Service(r) == IF r.op \in {"change", "get_change"} THEN "records" ELSE "lifecycle"

(* A change names a key, the guard (None: MustNotExist; a content: the      *)
(* revision that must match) and the desired content (None: delete).       *)
Change == {ch \in [key: Keys, guard: Contents \cup {None}, desired: Contents \cup {None}] :
             ch.guard # None \/ ch.desired # None}

(* `idem`: the idempotency key of a zone create; `expect`: the lifecycle    *)
(* revision a zone delete names; `receipt`: the call whose receipt is read. *)
Request == [op: Ops, account: Accounts, changes: Seq(Change), idem: Nat,
            expect: Nat, receipt: Calls \cup {None}]

ASSUME ConfigAssumption ==
    /\ Requests \subseteq Request
    /\ \A r \in Requests : r.op = "get_change" => r.receipt \in Calls
    /\ Accounts # {} /\ IsFiniteSet(Calls)
    /\ InitialRecords \subseteq [Accounts -> [Keys -> Contents \cup {None}]]
    /\ None \notin Calls \cup Contents
    /\ PerAccount \in Nat \ {0} /\ Global \in Nat \ {0} /\ PerAccount <= Global
    /\ PageSize \in Nat \ {0} /\ MaxTracked \in Nat /\ MaxActions \in Nat
    /\ MaxEdits \in Nat /\ MaxWeighted \in Nat
    /\ KeyOrder \in Seq(Keys)

VARIABLES
    account,   \* the ProviderAccount rows: generation and management policy
    keyRev,    \* revisions of the mounted signing keys, per account
    edits,     \* edits made so far
    zone,      \* provider: account -> the hosted zone exists
    recs,      \* provider: account -> key -> content or None
    hosted,    \* provider: zones created, by caller reference
    wire,      \* provider: what became of each call's one mutation
    tracked,   \* service -> account -> Weak<Semaphore>, named by its creator
    call,      \* the calls
    fresh      \* history: calls whose zone has not changed since they planned

vars == <<account, keyRev, edits, zone, recs, hosted, wire, tracked, call, fresh>>
provider == <<zone, recs, hosted, wire, fresh>>
authority == <<account, keyRev, edits>>

Policies == {"managed", "observed", "gone"}
AccountRow == [gen: Nat, policy: Policies]
Snapshot == [row: AccountRow, keys: Nat]
NoSnapshot == [row |-> [gen |-> 0, policy |-> "gone"], keys |-> 0]
NoRequest == [op |-> "change", account |-> CHOOSE a \in Accounts : TRUE,
              changes |-> << >>, idem |-> 0, expect |-> 0, receipt |-> None]

Definite == {"conflict", "not_found", "invalid", "unavailable", "observation"}
Results == Definite \cup {"none", "ok", "unknown"}
Waiting == {"account", "global"}
Working == {"prepare", "keys", "fence1", "zone", "scan", "plan", "fence2", "get",
            "find", "guard", "fence", "sent", "verify"}
PCs == {"idle", "done"} \cup Waiting \cup Working
Wires == {"none", "inflight", "applied", "conflict", "invalid", "throttled", "lost"}
NoView == [k \in Keys |-> None]

Init ==
    /\ account = [a \in Accounts |-> [gen |-> 1, policy |-> "managed"]]
    /\ keyRev = [a \in Accounts |-> 1]
    /\ edits = 0
    /\ zone = [a \in Accounts |-> TRUE]
    /\ recs \in InitialRecords
    /\ hosted = {}
    /\ wire = [c \in Calls |-> "none"]
    /\ tracked = [s \in Services |-> [a \in Accounts |-> None]]
    /\ call = [c \in Calls |->
                [pc |-> "idle", req |-> NoRequest, sem |-> None, snap |-> NoSnapshot,
                 view |-> NoView, pos |-> 0, dispatched |-> FALSE, result |-> "none"]]
    /\ fresh = {}

-----------------------------------------------------------------------------
(* Steps of a call.                                                        *)

Acct(c) == call[c].req.account
Goto(c, pc) == call' = [call EXCEPT ![c].pc = pc]

(* Returning drops both permits and the call's handle on the semaphore.    *)
Finish(c, result) ==
    call' = [call EXCEPT ![c].pc = "done", ![c].result = result, ![c].sem = None]

Alive(sem) == \E c \in Calls : call[c].sem = sem

HasDuplicates(changes) ==
    \E i, j \in DOMAIN changes : i # j /\ changes[i].key = changes[j].key

(* validate_shape refuses an empty batch or one that names a key twice.    *)
ValidShape(r) ==
    r.op = "change" => Len(r.changes) > 0 /\ ~HasDuplicates(r.changes)

(* A plausible bug: every call makes a semaphore of its own.               *)
AlwaysNewSemaphore(c, s, a) ==
    [sem |-> c, map |-> [tracked[s] EXCEPT ![a] = c]]

(* account_semaphore: the tracked semaphore while anyone holds it, a new   *)
(* one (named by this call) otherwise, unless too many accounts are live.  *)
AccountSemaphore(c, s, a) ==
    LET old == tracked[s]
        live == {b \in Accounts : old[b] # None /\ Alive(old[b])}
    IN  IF a \in live
        THEN [sem |-> old[a], map |-> old]
        ELSE IF Cardinality(live) >= MaxTracked
             THEN [sem |-> None, map |-> [b \in Accounts |-> IF b \in live THEN old[b] ELSE None]]
             ELSE [sem |-> c,
                   map |-> [b \in Accounts |-> IF b = a THEN c
                                               ELSE IF b \in live THEN old[b] ELSE None]]

(* A request arrives; the caller of get_change holds the receipt it names. *)
Begin(c, r) ==
    LET s == Service(r)
        got == AccountSemaphore(c, s, r.account)
        started == [call[c] EXCEPT !.req = r]
    IN  /\ call[c].pc = "idle"
        /\ r.op = "get_change" => call[r.receipt].result = "ok" /\ call[r.receipt].req.op = "change"
        /\ IF ValidShape(r)
           THEN /\ tracked' = [tracked EXCEPT ![s] = got.map]
                /\ call' = [call EXCEPT ![c] =
                      IF got.sem = None
                      THEN [started EXCEPT !.pc = "done", !.result = "unavailable"]
                      ELSE [started EXCEPT !.pc = "account", !.sem = got.sem]]
           ELSE /\ call' = [call EXCEPT ![c] = [started EXCEPT !.pc = "done", !.result = "invalid"]]
                /\ UNCHANGED tracked
        /\ UNCHANGED <<authority, provider>>

(* Calls holding a permit of an account's semaphore, and a global permit.  *)
AccountHolders(sem) == {c \in Calls : call[c].sem = sem /\ call[c].pc # "account"}
GlobalHolders(s) == {c \in Calls : Service(call[c].req) = s /\ call[c].pc \in Working}

AcquireAccount(c) ==
    /\ call[c].pc = "account"
    /\ Cardinality(AccountHolders(call[c].sem)) < PerAccount
    /\ Goto(c, "global")
    /\ UNCHANGED <<authority, provider, tracked>>

AcquireGlobal(c) ==
    /\ call[c].pc = "global"
    /\ Cardinality(GlobalHolders(Service(call[c].req))) < Global
    /\ Goto(c, "prepare")
    /\ UNCHANGED <<authority, provider, tracked>>

(* prepare: read the account and refuse one that is absent or not managed. *)
ReadAccount(c) ==
    LET row == account[Acct(c)]
    IN  /\ call[c].pc = "prepare"
        /\ CASE row.policy = "gone" -> Finish(c, "not_found")
             [] row.policy = "observed" ->
                    Finish(c, IF Service(call[c].req) = "records" THEN "invalid" ELSE "conflict")
             [] row.policy = "managed" ->
                    call' = [call EXCEPT ![c].pc = "keys", ![c].snap.row = row]
        /\ UNCHANGED <<authority, provider, tracked>>

(* Opaque receipts are authenticated locally: signed with the current key, *)
(* for this account and this zone.                                         *)
ReceiptInScope(c) ==
    LET r == call[c].req.receipt
    IN  /\ call[r].req.account = Acct(c)
        /\ call[r].snap.keys = keyRev[Acct(c)]

NextAfterKeys(op) ==
    CASE op = "change" -> "zone" [] op = "get_change" -> "fence1"
      [] op = "create_zone" -> "find" [] op = "delete_zone" -> "guard"

(* Resolve the signing keys, authenticate the receipt of a get_change, and *)
(* build the adapter.                                                      *)
ReadKeys(c) ==
    /\ call[c].pc = "keys"
    /\ IF call[c].req.op = "get_change" /\ ~ReceiptInScope(c)
       THEN Finish(c, "not_found")
       ELSE call' = [call EXCEPT ![c].pc = NextAfterKeys(call[c].req.op),
                                 ![c].snap.keys = keyRev[Acct(c)]]
    /\ UNCHANGED <<authority, provider, tracked>>

(* AuthorityFence::is_current: the account row and the key revisions are   *)
(* the ones the call prepared with.  Rows and revisions never come back,   *)
(* so the code's account-keys-account reads amount to one atomic read.     *)
IsCurrent(c) ==
    /\ account[Acct(c)] = call[c].snap.row
    /\ keyRev[Acct(c)] = call[c].snap.keys

(* get_change checks the fence before it builds the client and again after *)
(* it has seen the zone.                                                   *)
ObserveFence(c) ==
    /\ call[c].pc \in {"fence1", "fence2"}
    /\ IF IsCurrent(c)
       THEN Goto(c, IF call[c].pc = "fence1" THEN "zone" ELSE "get")
       ELSE Finish(c, "unavailable")
    /\ UNCHANGED <<authority, provider, tracked>>

(* observe_exact_zone_direct.                                              *)
ObserveZone(c) ==
    /\ call[c].pc = "zone"
    /\ IF zone[Acct(c)]
       THEN Goto(c, IF call[c].req.op = "change" THEN "scan" ELSE "fence2")
       ELSE Finish(c, "not_found")
    /\ UNCHANGED <<authority, provider, tracked>>

-----------------------------------------------------------------------------
(* Record-set changes: two complete paginated inventories, the service's   *)
(* guard check on the first and the adapter's plan on the second.          *)

PageKeys(pos) ==
    {KeyOrder[i] : i \in {j \in DOMAIN KeyOrder : pos < j /\ j <= pos + PageSize}}

(* One page of list_record_sets merged into the inventory read so far.     *)
ReadPage(c) ==
    [k \in Keys |-> IF k \in PageKeys(call[c].pos) THEN recs[Acct(c)][k] ELSE call[c].view[k]]
LastPage(c) == call[c].pos + PageSize >= Len(KeyOrder)

(* build_changes: each guard is met by the inventory.                      *)
GuardsHold(changes, view) ==
    \A i \in DOMAIN changes : view[changes[i].key] = changes[i].guard

ScanPage(c) ==
    /\ call[c].pc = "scan"
    /\ IF ~zone[Acct(c)]
       THEN Finish(c, "not_found")
       ELSE IF ~LastPage(c)
            THEN call' = [call EXCEPT ![c].view = ReadPage(c), ![c].pos = @ + PageSize]
            ELSE IF GuardsHold(call[c].req.changes, ReadPage(c))
                 THEN call' = [call EXCEPT ![c].pc = "plan", ![c].view = NoView, ![c].pos = 0]
                 ELSE Finish(c, "conflict")
    /\ UNCHANGED <<authority, provider, tracked>>

(* The zone as the plan expects the batch to leave it.                     *)
Resultant(changes, view) ==
    [k \in Keys |->
        IF \E i \in DOMAIN changes : changes[i].key = k
        THEN changes[CHOOSE i \in DOMAIN changes : changes[i].key = k].desired
        ELSE view[k]]

(* The members of an owner and type, as an inventory has them.             *)
Members(inventory, group) == {k \in Keys : KeyGroup(k) = group /\ inventory[k] # None}

(* A CNAME stands alone at its owner.                                      *)
CnameAlone(inventory, owner) ==
    \A j, k \in Keys :
        Owner[j] = owner /\ Owner[k] = owner /\ inventory[j] # None /\ inventory[k] # None =>
            (RecordType[j] = "CNAME" <=> RecordType[k] = "CNAME")

(* Two members of one owner and type have one routing family, one TTL      *)
(* where both give seconds, and different selectors where both have one.   *)
Compatible(v, w) ==
    /\ Family[v] = Family[w]
    /\ Ttl[v] # None /\ Ttl[w] # None => Ttl[v] = Ttl[w]
    /\ Selector[v] # None => Selector[v] # Selector[w]

GroupConsistent(inventory, group) ==
    /\ \A j, k \in Members(inventory, group) : j # k => Compatible(inventory[j], inventory[k])
    /\ (\E k \in Members(inventory, group) : Family[inventory[k]] = "weighted") =>
          Cardinality(Members(inventory, group)) <= MaxWeighted

ConsistentAt(inventory, owners, groups) ==
    /\ \A owner \in owners : CnameAlone(inventory, owner)
    /\ \A group \in groups : GroupConsistent(inventory, group)

(* A plausible bug: only the members the batch names are compared.         *)
ValidateBatchOnly(changes, view) ==
    ConsistentAt(Resultant(changes, NoView), {Owner[changes[i].key] : i \in DOMAIN changes},
                 {KeyGroup(changes[i].key) : i \in DOMAIN changes})

(* validate_resultant_inventory looks at the owners and groups the batch   *)
(* touches.                                                                *)
ValidateResultant(changes, view) ==
    ConsistentAt(Resultant(changes, view),
                 {Owner[changes[i].key] : i \in DOMAIN changes},
                 {KeyGroup(changes[i].key) : i \in DOMAIN changes})

Replaces(ch) == ch.guard # None /\ ch.desired # None

(* validate_replace_shape: what a replace may not change.                  *)
SameShape(v, w) == Family[v] = Family[w] /\ Backing[v] = Backing[w]

(* A plausible bug: a replace is sent as an UPSERT.                        *)
UpsertActions(ch) ==
    IF ch.desired = None
    THEN {[act |-> "DELETE", key |-> ch.key, content |-> ch.guard]}
    ELSE {[act |-> IF ch.guard = None THEN "CREATE" ELSE "UPSERT",
           key |-> ch.key, content |-> ch.desired]}

(* The provider actions of a change: CREATE, exact DELETE of what was      *)
(* observed, or the two together, never UPSERT.                            *)
ProviderActions(ch) ==
    (IF ch.guard = None THEN {} ELSE {[act |-> "DELETE", key |-> ch.key, content |-> ch.guard]})
    \cup
    (IF ch.desired = None THEN {} ELSE {[act |-> "CREATE", key |-> ch.key, content |-> ch.desired]})

ChangeBatch(changes) == UNION {ProviderActions(changes[i]) : i \in DOMAIN changes}

(* plan_change_batch refuses a stale guard, a replace that changes shape   *)
(* and an inconsistent result as a conflict; a replace with the content it *)
(* replaces and a batch of too many actions as invalid.                    *)
PlanError(changes, view) ==
    IF ~GuardsHold(changes, view) THEN "conflict"
    ELSE IF \E i \in DOMAIN changes : Replaces(changes[i])
                /\ ~SameShape(changes[i].guard, changes[i].desired) THEN "conflict"
    ELSE IF \E i \in DOMAIN changes : Replaces(changes[i])
                /\ changes[i].guard = changes[i].desired THEN "invalid"
    ELSE IF ~ValidateResultant(changes, view) THEN "conflict"
    ELSE IF Cardinality(ChangeBatch(changes)) > MaxActions THEN "invalid"
    ELSE "none"

(* The adapter's own inventory; a zone that has vanished is a conflict     *)
(* here (map_mutation_error).                                              *)
PlanPage(c) ==
    /\ call[c].pc = "plan"
    /\ IF ~zone[Acct(c)]
       THEN Finish(c, "conflict")
       ELSE IF ~LastPage(c)
            THEN call' = [call EXCEPT ![c].view = ReadPage(c), ![c].pos = @ + PageSize]
            ELSE LET error == PlanError(call[c].req.changes, ReadPage(c))
                 IN  IF error = "none"
                     THEN call' = [call EXCEPT ![c].pc = "fence", ![c].view = NoView, ![c].pos = 0]
                     ELSE Finish(c, error)
    /\ fresh' = IF call[c].pos = 0 THEN fresh \cup {c} ELSE fresh
    /\ UNCHANGED <<authority, zone, recs, hosted, wire, tracked>>

-----------------------------------------------------------------------------
(* Hosted-zone lifecycle.                                                  *)

(* A plausible bug: each attempt makes a reference of its own.             *)
ReferencePerAttempt(c) == <<Acct(c), call[c].req.idem, c>>

(* stable_caller_reference depends on the accounts and the idempotency key *)
(* only: every retry of one request sends the same reference.              *)
CallerReference(c) == <<Acct(c), call[c].req.idem>>

(* create_zone first looks for a zone a lost earlier attempt created, and  *)
(* answers with a recovered receipt if it finds one.                       *)
FindZone(c) ==
    /\ call[c].pc = "find"
    /\ IF \E z \in hosted : z.ref = CallerReference(c) /\ z.listed
       THEN Goto(c, "verify")
       ELSE Goto(c, "fence")
    /\ UNCHANGED <<authority, provider, tracked>>

(* Number of non-default record sets: the part of the lifecycle revision   *)
(* that the zone's records determine.                                      *)
RecordCount(a) == Cardinality({k \in Keys : recs[a][k] # None})

(* delete_zone_with_exact_guard.                                           *)
DeleteGuard(c) ==
    /\ call[c].pc = "guard"
    /\ CASE ~zone[Acct(c)] -> Finish(c, "not_found")
         [] zone[Acct(c)] /\ (RecordCount(Acct(c)) # call[c].req.expect
                              \/ RecordCount(Acct(c)) # 0) -> Finish(c, "conflict")
         [] OTHER -> Goto(c, "fence")
    /\ UNCHANGED <<authority, provider, tracked>>

-----------------------------------------------------------------------------
(* Dispatch and its outcome.                                               *)

(* The tracking API checks the fence once more, marks the call dispatched  *)
(* and sends the one mutation; a record batch the SDK cannot render is     *)
(* refused before anything is sent.                                        *)
Dispatch(c) ==
    /\ call[c].pc = "fence"
    /\ \/ /\ IsCurrent(c)
          /\ call' = [call EXCEPT ![c].pc = "sent", ![c].dispatched = TRUE]
          /\ wire' = [wire EXCEPT ![c] = "inflight"]
       \/ /\ IsCurrent(c) /\ call[c].req.op = "change"
          /\ Finish(c, "invalid")
          /\ UNCHANGED wire
       \/ /\ ~IsCurrent(c)
          /\ Finish(c, IF Service(call[c].req) = "records" THEN "unavailable" ELSE "invalid")
          /\ UNCHANGED wire
    /\ UNCHANGED <<authority, zone, recs, hosted, tracked, fresh>>

(* map_mutation_error of the record service keeps a conflict, an absence   *)
(* and a validation error and makes any other error after dispatch         *)
(* unknown; the lifecycle service makes every one unknown.                 *)
MapMutationError(c, category) ==
    IF category \in {"conflict", "invalid"} /\ Service(call[c].req) = "records"
    THEN category ELSE "unknown"

(* A response arrives.  Whatever is not an explicit rejection (a lost or   *)
(* malformed response, 408, 5xx) is an unknown outcome.                    *)
Response(c) ==
    /\ call[c].pc = "sent"
    /\ \/ wire[c] = "applied" /\ Goto(c, "verify")
       \/ wire[c] \in {"conflict", "invalid", "throttled"} /\ Finish(c, MapMutationError(c, wire[c]))
       \/ Finish(c, "unknown")
    /\ UNCHANGED <<authority, provider, tracked>>

(* The fence after the work: of a mutation that may have been dispatched   *)
(* the caller learns nothing, of an observation that it failed.            *)
Verify(c) ==
    /\ call[c].pc = "verify"
    /\ Finish(c, IF IsCurrent(c) THEN "ok"
                 ELSE IF call[c].req.op = "get_change" THEN "unavailable" ELSE "unknown")
    /\ UNCHANGED <<authority, provider, tracked>>

(* observe_change: GetChange of the authenticated provider change.         *)
GetChange(c) ==
    /\ call[c].pc = "get"
    /\ IF wire[call[c].req.receipt] = "applied" THEN Goto(c, "verify") ELSE Finish(c, "not_found")
    /\ UNCHANGED <<authority, provider, tracked>>

(* Plausible bug: the deadline forgets the dispatch.                       *)
TimeoutIsUnavailable(c) == "unavailable"

(* The operation deadline, which covers every await.                       *)
TimeoutResult(c) == IF call[c].dispatched THEN "unknown" ELSE "unavailable"

Timeout(c) ==
    /\ call[c].pc \in Waiting \cup Working
    /\ Finish(c, TimeoutResult(c))
    /\ UNCHANGED <<authority, provider, tracked>>

(* A read that fails: transport errors are unavailable, a malformed or     *)
(* contradictory inventory is not a state to act on, and a record set may  *)
(* turn out not to be valid in the zone that was observed.                 *)
ReadFault(c) ==
    /\ call[c].pc \in {"prepare", "keys", "zone", "scan", "plan", "find", "guard", "get"}
    /\ \/ Finish(c, "unavailable")
       \/ call[c].pc \in {"zone", "scan"} /\ Finish(c, "observation")
       \/ call[c].pc \in {"scan", "plan", "find", "guard", "get"} /\ Finish(c, "invalid")
       \/ call[c].pc = "find" /\ Finish(c, "unknown")  \* the zone found has disappeared
    /\ UNCHANGED <<authority, provider, tracked>>

-----------------------------------------------------------------------------
(* Route 53 (external) and everybody else.                                 *)

Accepts(batch, a) ==
    /\ zone[a]
    /\ \A x \in batch : x.act = "DELETE" => recs[a][x.key] = x.content
    /\ \A x \in batch : x.act = "CREATE" =>
          \/ recs[a][x.key] = None
          \/ \E y \in batch : y.act = "DELETE" /\ y.key = x.key

AfterBatch(batch, a) ==
    [k \in Keys |->
        IF \E x \in batch : x.key = k /\ x.act # "DELETE"
        THEN (CHOOSE x \in batch : x.key = k /\ x.act # "DELETE").content
        ELSE IF \E x \in batch : x.key = k THEN None ELSE recs[a][k]]

OthersOf(a) == {c \in Calls : Acct(c) = a}

ExecuteChange(c) ==
    LET a == Acct(c)
        batch == ChangeBatch(call[c].req.changes)
    IN  /\ call[c].req.op = "change"
        /\ IF Accepts(batch, a)
           THEN /\ recs' = [recs EXCEPT ![a] = AfterBatch(batch, a)]
                /\ wire' = [wire EXCEPT ![c] = "applied"]
                /\ fresh' = fresh \ OthersOf(a)
           ELSE /\ wire' = [wire EXCEPT ![c] = "conflict"]
                /\ UNCHANGED <<recs, fresh>>
        /\ UNCHANGED <<zone, hosted>>

(* A caller reference is accepted once; a new zone is listed a while later. *)
ExecuteCreate(c) ==
    /\ call[c].req.op = "create_zone"
    /\ IF \E z \in hosted : z.ref = CallerReference(c)
       THEN /\ wire' = [wire EXCEPT ![c] = "conflict"]
            /\ UNCHANGED hosted
       ELSE /\ wire' = [wire EXCEPT ![c] = "applied"]
            /\ hosted' = hosted \cup
                 {[ref |-> CallerReference(c), account |-> Acct(c),
                   idem |-> call[c].req.idem, listed |-> FALSE]}
    /\ UNCHANGED <<zone, recs, fresh>>

ExecuteDelete(c) ==
    LET a == Acct(c)
    IN  /\ call[c].req.op = "delete_zone"
        /\ IF zone[a] /\ RecordCount(a) = 0
           THEN /\ zone' = [zone EXCEPT ![a] = FALSE]
                /\ wire' = [wire EXCEPT ![c] = "applied"]
                /\ fresh' = fresh \ OthersOf(a)
           ELSE /\ wire' = [wire EXCEPT ![c] = "conflict"]
                /\ UNCHANGED <<zone, fresh>>
        /\ UNCHANGED <<recs, hosted>>

(* The mutation in flight is executed, throttled or lost, whether or not   *)
(* its caller still waits.                                                 *)
Execute(c) ==
    /\ wire[c] = "inflight"
    /\ \/ ExecuteChange(c)
       \/ ExecuteCreate(c)
       \/ ExecuteDelete(c)
       \/ /\ \E w \in {"invalid", "throttled", "lost"} : wire' = [wire EXCEPT ![c] = w]
          /\ UNCHANGED <<zone, recs, hosted, fresh>>
    /\ UNCHANGED <<authority, tracked, call>>

(* A created zone turns up in the listings.                                *)
ListZone ==
    /\ \E z \in hosted :
          ~z.listed /\ hosted' = (hosted \ {z}) \cup {[z EXCEPT !.listed = TRUE]}
    /\ UNCHANGED <<authority, zone, recs, wire, tracked, call, fresh>>

(* Somebody else edits the zone.                                           *)
EditRecords(a) ==
    /\ edits < MaxEdits /\ zone[a]
    /\ edits' = edits + 1
    /\ \E k \in Keys, v \in Contents \cup {None} :
          v # recs[a][k] /\ recs' = [recs EXCEPT ![a][k] = v]
    /\ fresh' = fresh \ OthersOf(a)
    /\ UNCHANGED <<account, keyRev, zone, hosted, wire, tracked, call>>

(* The ProviderAccount is edited or deleted; the signing keys are rotated. *)
EditAccount(a) ==
    /\ edits < MaxEdits /\ account[a].policy # "gone"
    /\ edits' = edits + 1
    /\ \E p \in Policies : account' = [account EXCEPT ![a] = [gen |-> @.gen + 1, policy |-> p]]
    /\ UNCHANGED <<keyRev, provider, tracked, call>>

RotateKeys(a) ==
    /\ edits < MaxEdits
    /\ edits' = edits + 1
    /\ keyRev' = [keyRev EXCEPT ![a] = @ + 1]
    /\ UNCHANGED <<account, provider, tracked, call>>

-----------------------------------------------------------------------------
CallStep(c) ==
    \/ AcquireAccount(c) \/ AcquireGlobal(c) \/ ReadAccount(c) \/ ReadKeys(c)
    \/ ObserveFence(c) \/ ObserveZone(c) \/ ScanPage(c) \/ PlanPage(c)
    \/ FindZone(c) \/ DeleteGuard(c) \/ Dispatch(c) \/ Response(c) \/ Verify(c)
    \/ GetChange(c) \/ Timeout(c) \/ ReadFault(c)

Next ==
    \/ \E c \in Calls, r \in Requests : Begin(c, r)
    \/ \E c \in Calls : CallStep(c) \/ Execute(c)
    \/ ListZone
    \/ \E a \in Accounts : EditRecords(a) \/ EditAccount(a) \/ RotateKeys(a)

Spec == Init /\ [][Next]_vars

-----------------------------------------------------------------------------
(* Properties.                                                             *)

CallRecord == [pc: PCs, req: Request, sem: Calls \cup {None}, snap: Snapshot,
               view: [Keys -> Contents \cup {None}], pos: Nat, dispatched: BOOLEAN,
               result: Results]

(* Every variable has its type.                                            *)
TypeOK ==
    /\ account \in [Accounts -> AccountRow]
    /\ keyRev \in [Accounts -> Nat]
    /\ edits \in 0..MaxEdits
    /\ zone \in [Accounts -> BOOLEAN]
    /\ recs \in [Accounts -> [Keys -> Contents \cup {None}]]
    /\ hosted \subseteq [ref: Accounts \X Nat, account: Accounts, idem: Nat, listed: BOOLEAN]
    /\ wire \in [Calls -> Wires]
    /\ tracked \in [Services -> [Accounts -> Calls \cup {None}]]
    /\ call \in [Calls -> CallRecord]
    /\ fresh \subseteq Calls

(* What a call tells its caller is true of Route 53, now and later: after  *)
(* a definite refusal its mutation has not been and will not be executed,  *)
(* whichever of the deadline, the fences and the response came first;      *)
(* success means it was executed (for a create: that a zone with the       *)
(* request's caller reference exists; for an observation: that the change  *)
(* was made, in the same account).                                         *)
OutcomeIsTruthful ==
    \A c \in Calls :
        /\ call[c].result \in Definite => wire[c] \notin {"inflight", "applied"}
        /\ call[c].result = "ok" =>
              CASE call[c].req.op \in {"change", "delete_zone"} -> wire[c] = "applied"
                [] call[c].req.op = "create_zone" -> \E z \in hosted : z.ref = CallerReference(c)
                [] call[c].req.op = "get_change" ->
                      /\ wire[call[c].req.receipt] = "applied"
                      /\ call[call[c].req.receipt].req.account = Acct(c)

(* A batch takes effect only on exactly the contents its guards named: an  *)
(* edit made after the inventories were read is never overwritten, though  *)
(* the inventories are paginated and the fence is checked in between.      *)
NoLostUpdate ==
    [][\A c \in Calls :
          wire[c] = "inflight" /\ wire'[c] = "applied" /\ call[c].req.op = "change" =>
            \A i \in DOMAIN call[c].req.changes :
                recs[Acct(c)][call[c].req.changes[i].key] = call[c].req.changes[i].guard]_vars

AllOwners == {Owner[k] : k \in Keys}
AllGroups == {KeyGroup(k) : k \in Keys}
Consistent(a) == ConsistentAt(recs[a], AllOwners, AllGroups)

(* A batch executed on the zone its plan saw leaves a consistent zone      *)
(* consistent: no CNAME beside other records, and per owner and type one   *)
(* routing family, one TTL, no selector twice and a bounded number of      *)
(* weighted members, also where the conflicting member is not part of the  *)
(* batch.                                                                  *)
BatchKeepsZoneConsistent ==
    [][\A c \in fresh :
          wire[c] = "inflight" /\ wire'[c] = "applied" /\ call[c].req.op = "change"
            /\ Consistent(Acct(c)) => Consistent(Acct(c))']_vars

(* However often a create is retried after unknown outcomes, one account   *)
(* and idempotency key own at most one hosted zone.                        *)
OneZonePerIdempotencyKey ==
    \A y, z \in hosted : y.account = z.account /\ y.idem = z.idem => y = z

(* Calls of one service on one account that are past admission never       *)
(* exceed per_account_concurrency, although semaphores are dropped with    *)
(* their last user and created anew.                                       *)
AccountConcurrencyBounded ==
    \A s \in Services, a \in Accounts :
        Cardinality({c \in Calls : /\ call[c].pc \in Working
                                    /\ Service(call[c].req) = s
                                    /\ Acct(c) = a}) <= PerAccount

=============================================================================
