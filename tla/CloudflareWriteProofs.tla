------------------------ MODULE CloudflareWriteProofs ------------------------
(***************************************************************************)
(* What a Cloudflare write tells its caller, which records a batch can     *)
(* remove, which of two puts can win and what a zone delete can destroy,   *)
(* for every set of calls, keys and values, every page size and every      *)
(* listing the zone starts with.                                           *)
(*                                                                         *)
(* The calls share nothing but the zone, so the invariant says of each     *)
(* call what it knows of its one mutation (Truthful, Planned), of the zone *)
(* what executed mutations left there (Spent, Owned), and of a listing     *)
(* read page by page what it has seen if nobody came between (SeenAll).    *)
(***************************************************************************)
EXTENDS CloudflareWrite, FiniteSetTheorems, TLAPS

Batch(c) == call[c].op \in {"put", "delete"}

\* The steps at which a call has sent nothing.
Early == {"idle", "prepare", "token", "fence1", "zone", "scan", "fence2", "plan", "preflight"}

\* The steps of each operation.
Placed(c) ==
    /\ call[c].pc = "preflight" => call[c].op = "delete_zone"
    /\ call[c].pc \in {"zone", "scan", "plan", "observe"} => Batch(c)
    /\ call[c].op = "create_zone" => call[c].pc # "fence2"

\* What a call knows of its one mutation.
Truthful(c) ==
    /\ call[c].pc \in Early => wire[c] = "none" /\ ~call[c].dispatched
    /\ call[c].pc \in {"sent", "observe", "verify"} => call[c].dispatched
    /\ ~call[c].dispatched => wire[c] = "none"
    /\ call[c].pc = "observe" => wire[c] = "applied"
    /\ call[c].pc = "verify" =>
          /\ call[c].out # "none"
          /\ call[c].out \in Definite => wire[c] \notin {"inflight", "applied"}
          /\ call[c].out = "ok" => wire[c] = "applied"
    /\ call[c].pc # "done" => call[c].result = "none"
    /\ call[c].result \in Definite => wire[c] \notin {"inflight", "applied"}
    /\ call[c].result = "ok" => wire[c] = "applied"

\* A batch that has been sent deletes the revision its request names and posts
\* the values it desires.
Planned(c) ==
    /\ call[c].op = "put" /\ call[c].pc # "idle" => call[c].desired \in Puts
    /\ IsFiniteSet(call[c].desired)
    /\ \A n \in Ids(call[c].guard) : n < nextId
    /\ wire[c] # "none" /\ Batch(c) =>
          plan[c].ids = Ids(call[c].guard) /\ plan[c].posts = call[c].desired

\* A call holds pages only while it reads them.
Paging(c) ==
    /\ call[c].page >= 1
    /\ call[c].pc \notin ReadPCs => call[c].page = 1 /\ call[c].view = {}
    /\ IsFiniteSet(call[c].view)

Present == {recs[i].id : i \in DOMAIN recs}
PresentIn(k) == {recs[i].id : i \in {j \in DOMAIN recs : recs[j].key = k}}

Executed(c) == wire[c] = "applied" /\ Batch(c)

\* Ids are not used again: an id names records of one RRset, and what a batch
\* deleted is gone for good, so no other batch can have deleted it.
Spent ==
    /\ \A n \in Present : n < nextId
    /\ \A i, j \in DOMAIN recs : recs[i].id = recs[j].id => recs[i].key = recs[j].key
    /\ \A c \in Calls : Executed(c) => Ids(call[c].guard) \cap Present = {}
    /\ \A c, d \in Calls : c # d /\ Executed(c) /\ Executed(d) =>
          Ids(call[c].guard) \cap Ids(call[d].guard) = {}

\* Every executed put has posted records of its own, which stay while no record
\* of their RRset is removed.
OwnedBy(own) ==
    /\ \A c \in Calls : \A n \in own[c] : n < nextId
    /\ \A c, d \in Calls : c # d => own[c] \cap own[d] = {}
    /\ \A c \in Calls : Executed(c) /\ call[c].op = "put" =>
          /\ IsFiniteSet(own[c]) /\ Cardinality(own[c]) = Cardinality(call[c].desired)
          /\ call[c].key \notin removed => own[c] \subseteq PresentIn(call[c].key)

Owned == \E own \in [Calls -> SUBSET Nat] : OwnedBy(own)

\* An undisturbed listing holds every record of the pages read so far.
SeenAll(c) ==
    c \in quiet /\ call[c].pc \in ReadPCs =>
        \A i \in DOMAIN recs : i <= (call[c].page - 1) * PageSize => recs[i] \in call[c].view

\* What the preflight of an undisturbed zone delete has established.
Preflighted(c) ==
    c \in quiet /\ call[c].op = "delete_zone" =>
        /\ call[c].pc = "preflight" /\ call[c].page > 1 => zone.rev = call[c].rev
        /\ call[c].pc = "fence2" \/ wire[c] = "inflight" =>
              recs = << >> /\ ~zone.dnssec /\ zone.rev = call[c].rev

\* The put has been confirmed by an undisturbed post-observation.
Confirmed(c) ==
    /\ call[c].op = "put" /\ call[c].clean
    /\ \/ call[c].pc = "verify" /\ call[c].out = "ok"
       \/ call[c].result = "ok"

OneConfirmed ==
    \A c, d \in Calls :
        c # d /\ call[c].key = call[d].key /\ Confirmed(c) /\ Confirmed(d) =>
            call[c].key \in removed

IInv ==
    /\ TypeOK
    /\ \A c \in Calls : Placed(c) /\ Truthful(c) /\ Planned(c) /\ Paging(c)
    /\ Spent
    /\ Owned
    /\ \A c \in Calls : SeenAll(c) /\ Preflighted(c)
    /\ OneConfirmed

-----------------------------------------------------------------------------
(***************************************************************************)
(* The shapes of a call's steps                                            *)
(***************************************************************************)

\* Only the call c changes; its request stays what it was.
Only(c) ==
    /\ call' \in [Calls -> CallRecord]
    /\ \A d \in Calls \ {c} : call'[d] = call[d]

Same(c) ==
    /\ Only(c)
    /\ call'[c].op = call[c].op /\ call'[c].key = call[c].key
    /\ call'[c].guard = call[c].guard /\ call'[c].desired = call[c].desired
    /\ call'[c].rev = call[c].rev

\* The call returns ...
Ends(c, result) ==
    /\ Same(c)
    /\ call'[c].pc = "done" /\ call'[c].result = result
    /\ call'[c].dispatched = call[c].dispatched /\ call'[c].clean = call[c].clean
    /\ call'[c].view = {} /\ call'[c].page = 1

\* ... or goes on, with what it has read,
Moves(c, pc) ==
    /\ Same(c)
    /\ call'[c].pc = pc /\ call'[c].result = call[c].result
    /\ call'[c].dispatched = call[c].dispatched /\ call'[c].clean = call[c].clean
    /\ call'[c].view = call[c].view /\ call'[c].page = call[c].page
    /\ call'[c].out = call[c].out

\* with another page,
Turns(c) ==
    /\ Same(c)
    /\ call'[c].pc = call[c].pc /\ call'[c].result = call[c].result
    /\ call'[c].dispatched = call[c].dispatched /\ call'[c].clean = call[c].clean
    /\ call'[c].view = Inventory(c) /\ call'[c].page = call[c].page + 1

\* or with nothing but an outcome.
Drops(c, pc, out) ==
    /\ Same(c)
    /\ call'[c].pc = pc /\ call'[c].out = out /\ call'[c].result = call[c].result
    /\ call'[c].dispatched = call[c].dispatched
    /\ call'[c].view = {} /\ call'[c].page = 1

\* The mutation is sent.
Sends(c, p) ==
    /\ Same(c)
    /\ call'[c].pc = "sent" /\ call'[c].dispatched = TRUE /\ call'[c].result = call[c].result
    /\ call'[c].clean = call[c].clean /\ call'[c].page = 1 /\ call'[c].view = {}
    /\ wire' = [wire EXCEPT ![c] = "inflight"]
    /\ plan' = [plan EXCEPT ![c] = p]

LEMMA CallType ==
  ASSUME TypeOK, NEW c \in Calls
  PROVE  call[c] \in CallRecord
  BY DEF TypeOK

\* A call record is replaced by another one.
LEMMA Update ==
  ASSUME TypeOK, NEW c \in Calls, NEW new \in CallRecord,
         call' = [call EXCEPT ![c] = new]
  PROVE  Only(c) /\ call'[c] = new
  BY DEF TypeOK, Only

LEMMA FinishEnds ==
  ASSUME TypeOK, NEW c \in Calls, NEW result \in Results, Finish(c, result)
  PROVE  Ends(c, result)
<1> DEFINE new == [call[c] EXCEPT !.pc = "done", !.result = result, !.row = NoRow,
                     !.token = 0, !.view = {}, !.page = 1, !.pages = 0, !.out = "none"]
<1>1. call[c] \in CallRecord
  BY CallType
<1>2. call' = [call EXCEPT ![c] = new]
  BY DEF Finish, TypeOK
<1>3. NoRow \in Row /\ "done" \in PCs /\ "none" \in Results
  BY DEF NoRow, Row, Policies, PCs, Results
<1>4. new \in CallRecord
  BY <1>1, <1>3 DEF CallRecord
<1>5. Only(c) /\ call'[c] = new
  BY <1>2, <1>4, Update
<1> QED BY <1>1, <1>5 DEF Ends, Same, CallRecord

LEMMA GotoMoves ==
  ASSUME TypeOK, NEW c \in Calls, NEW pc \in PCs, Goto(c, pc)
  PROVE  Moves(c, pc)
<1> DEFINE new == [call[c] EXCEPT !.pc = pc]
<1>1. call[c] \in CallRecord
  BY CallType
<1>2. call' = [call EXCEPT ![c] = new]
  BY DEF Goto, TypeOK
<1>3. new \in CallRecord
  BY <1>1 DEF CallRecord
<1>4. Only(c) /\ call'[c] = new
  BY <1>2, <1>3, Update
<1> QED BY <1>1, <1>4 DEF Moves, Same, CallRecord

\* The image of a finite set under a function is finite and no larger.
LEMMA ImageBound ==
  ASSUME NEW S, IsFiniteSet(S), NEW g
  PROVE  /\ IsFiniteSet({g[x] : x \in S})
         /\ Cardinality({g[x] : x \in S}) <= Cardinality(S)
<1> DEFINE T == {g[x] : x \in S}
           f == [x \in S |-> g[x]]
<1>1. f \in Surjection(S, T)
  BY DEF Surjection
<1> HIDE DEF f, T
<1>2. IsFiniteSet(T) /\ Cardinality(T) <= Cardinality(S)
  BY <1>1, FS_Surjection
<1> QED BY <1>2 DEF T

\* The items of a page are records, finitely many.
LEMMA PageType ==
  ASSUME TypeOK, NEW p
  PROVE  PageItems(p) \subseteq Record /\ IsFiniteSet(PageItems(p))
<1> DEFINE I == {j \in DOMAIN recs : (p - 1) * PageSize < j /\ j <= p * PageSize}
<1>1. recs \in Seq(Record)
  BY DEF TypeOK
<1>2. IsFiniteSet(1..Len(recs))
  BY <1>1, FS_Interval
<1>3. I \subseteq 1..Len(recs)
  BY <1>1
<1>4. IsFiniteSet(I)
  BY <1>2, <1>3, FS_Subset
<1> HIDE DEF I
<1>5. IsFiniteSet({recs[i] : i \in I})
  BY <1>4, ImageBound
<1> QED BY <1>1, <1>5 DEF PageItems, I

LEMMA InventoryType ==
  ASSUME TypeOK, NEW c \in Calls, IsFiniteSet(call[c].view)
  PROVE  /\ Inventory(c) \subseteq Record /\ IsFiniteSet(Inventory(c))
         /\ RRset(c) \subseteq Record /\ IsFiniteSet(RRset(c))
<1>1. call[c].view \subseteq Record
  BY CallType DEF CallRecord
<1>2. Inventory(c) \subseteq Record
  BY <1>1, PageType DEF Inventory
<1>3. IsFiniteSet(Inventory(c))
  BY PageType, FS_Union DEF Inventory
<1>4. RRset(c) \subseteq Inventory(c)
  BY DEF RRset
<1> QED BY <1>2, <1>3, <1>4, FS_Subset

\* A listing has finitely many pages.
LEMMA PagesType ==
  ASSUME TypeOK
  PROVE  TotalPages \in Nat
<1>1. Len(recs) \in Nat /\ PageSize \in Nat \ {0}
  BY ConfigAssumption DEF TypeOK
<1> QED BY <1>1 DEF TotalPages

LEMMA NextPageTurns ==
  ASSUME TypeOK, NEW c \in Calls, IsFiniteSet(call[c].view), NextPage(c)
  PROVE  Turns(c)
<1> DEFINE new == [call[c] EXCEPT !.view = Inventory(c), !.page = @ + 1,
                                  !.pages = TotalPages]
<1>1. call[c] \in CallRecord /\ Inventory(c) \subseteq Record
  BY CallType, InventoryType
<1>2. call' = [call EXCEPT ![c] = new]
  BY DEF NextPage, TypeOK
<1>3. new \in CallRecord
  <2>1. call[c].page + 1 \in Nat
    BY <1>1 DEF CallRecord
  <2> QED BY <1>1, <2>1, PagesType DEF CallRecord
<1>4. Only(c) /\ call'[c] = new
  BY <1>2, <1>3, Update
<1> QED BY <1>1, <1>4 DEF Turns, Same, CallRecord

LEMMA LeaveDrops ==
  ASSUME TypeOK, NEW c \in Calls, NEW pc \in PCs, NEW out \in Results,
         Leave(c, pc, out)
  PROVE  /\ Drops(c, pc, out)
         /\ call'[c].clean = (pc = "verify" /\ c \in quiet')
<1> DEFINE new == [call[c] EXCEPT !.pc = pc, !.out = out, !.view = {}, !.page = 1,
                     !.pages = 0, !.clean = (pc = "verify" /\ c \in quiet')]
<1>1. call[c] \in CallRecord
  BY CallType
<1>2. call' = [call EXCEPT ![c] = new]
  BY DEF Leave, TypeOK
<1>3. new \in CallRecord
  BY <1>1 DEF CallRecord
<1>4. Only(c) /\ call'[c] = new
  BY <1>2, <1>3, Update
<1> QED BY <1>1, <1>4 DEF Drops, Same, CallRecord

Refused(c) == wire[c] \notin {"inflight", "applied"}
NoSend == UNCHANGED << wire, plan >>

Begins(c) ==
    /\ call[c].pc = "idle" /\ call'[c].pc = "prepare"
    /\ Only(c) /\ NoSend /\ quiet' = quiet
    /\ call'[c].result = call[c].result /\ call'[c].dispatched = call[c].dispatched
    /\ call'[c].clean = call[c].clean
    /\ call'[c].view = call[c].view /\ call'[c].page = call[c].page
    /\ call'[c].op = "put" => call'[c].desired \in Puts
    /\ IsFiniteSet(call'[c].desired)
    /\ call'[c].guard \subseteq {recs[i] : i \in DOMAIN recs}

Returns(c) ==
    \E result \in Results \ {"none"} :
        /\ call[c].pc \notin {"idle", "done"}
        /\ Ends(c, result) /\ NoSend
        /\ quiet' \in {quiet, quiet \cup {c}}
        /\ quiet' # quiet => call[c].pc \in ReadPCs
        /\ result \in Definite => Refused(c)
        /\ result = "ok" => call[c].pc = "verify" /\ call[c].out = "ok"

Advances(c) ==
    \E pc \in PCs :
        /\ Moves(c, pc) /\ NoSend /\ quiet' = quiet
        /\ \/ call[c].pc = "prepare" /\ pc = "token"
           \/ call[c].pc = "token" /\ pc = "fence1"
           \/ call[c].pc = "fence1" /\ pc = "preflight" /\ call[c].op = "delete_zone"
           \/ call[c].pc = "fence1" /\ pc = "zone" /\ Batch(c)
           \/ call[c].pc = "zone" /\ pc = "scan"
           \/ call[c].pc = "fence2" /\ pc = "plan" /\ call[c].op # "delete_zone"
           \/ call[c].pc = "sent" /\ pc = "observe" /\ Executed(c)

ReadsOn(c) ==
    /\ call[c].pc \in ReadPCs
    /\ Turns(c) /\ NoSend /\ QuietFrom(c)
    /\ call[c].pc = "preflight" /\ call[c].page = 1 => zone.rev = call[c].rev

Checked(c) ==
    /\ call[c].pc \in {"scan", "preflight"}
    /\ Drops(c, "fence2", "none") /\ NoSend /\ QuietFrom(c)
    /\ call[c].pc = "preflight" =>
          /\ LastPage(c) /\ ~Blocked(c)
          /\ call[c].page = 1 => zone.rev = call[c].rev

Observed(c) ==
    \E out \in {"ok", "unknown"} :
        /\ call[c].pc = "observe"
        /\ Drops(c, "verify", out) /\ NoSend /\ QuietFrom(c)
        /\ call'[c].clean = (c \in quiet')
        /\ out = "ok" => /\ LastPage(c) /\ Aggregates(RRset(c))
                         /\ Values(RRset(c)) = call[c].desired

Answered(c) ==
    \E out \in Results \ {"none"} :
        /\ call[c].pc \in {"sent", "observe"}
        /\ Drops(c, "verify", out) /\ NoSend /\ quiet' = quiet
        /\ out \in Definite => Refused(c)
        /\ out = "ok" => wire[c] = "applied" /\ call[c].op # "put"

Dispatches(c) ==
    \E p \in Plan :
        /\ Sends(c, p)
        /\ \/ call[c].pc = "fence1" /\ call[c].op = "create_zone" /\ quiet' = quiet
           \/ call[c].pc = "fence2" /\ call[c].op = "delete_zone" /\ quiet' = quiet
           \/ /\ call[c].pc = "plan" /\ QuietFrom(c)
              /\ p.ids = Ids(call[c].guard) /\ p.posts = call[c].desired

Shaped(c) ==
    /\ UNCHANGED << authority, zone, recs, nextId, removed >>
    /\ \/ Begins(c) \/ Returns(c) \/ Advances(c) \/ ReadsOn(c)
       \/ Checked(c) \/ Observed(c) \/ Answered(c) \/ Dispatches(c)

\* What the steps of a call need of the invariant.
CallOK(c) == Placed(c) /\ Truthful(c) /\ Planned(c) /\ Paging(c)

LEMMA BeginShape ==
  ASSUME TypeOK, NEW c \in Calls, Begin(c)
  PROVE  Shaped(c)
<1>1. PICK op \in Ops, k \in Keys, d \in Puts \cup {{}}, exists \in BOOLEAN :
        /\ (op = "put") <=> (d # {})
        /\ op = "delete" => exists /\ Members(recs, k) # {}
        /\ op = "put" /\ exists => Members(recs, k) # {}
        /\ op \in {"create_zone", "delete_zone"} => ~exists /\ k = CHOOSE j \in Keys : TRUE
        /\ call' = [call EXCEPT ![c].pc = "prepare", ![c].op = op, ![c].key = k,
                      ![c].desired = d, ![c].rev = zone.rev,
                      ![c].guard = IF exists THEN Members(recs, k) ELSE {}]
  BY Zenon DEF Begin
<1> DEFINE g == IF exists THEN Members(recs, k) ELSE {}
           new == [call[c] EXCEPT !.pc = "prepare", !.op = op, !.key = k, !.desired = d,
                     !.rev = zone.rev, !.guard = g]
<1>2. call[c] \in CallRecord
  BY CallType
<1>3. g \subseteq {recs[i] : i \in DOMAIN recs} /\ g \subseteq Record
  BY DEF Members, TypeOK
<1> HIDE DEF g
<1>4. call' = [call EXCEPT ![c] = new]
  BY <1>1 DEF TypeOK, g
<1>5. d \subseteq Data /\ zone.rev \in Nat /\ "prepare" \in PCs
  BY ConfigAssumption DEF TypeOK, PCs
<1>6. new \in CallRecord
  BY <1>2, <1>3, <1>5 DEF CallRecord
<1>7. Only(c) /\ call'[c] = new
  BY <1>4, <1>6, Update
<1>8. call[c].pc = "idle" /\ UNCHANGED << authority, provider, plan >>
  BY DEF Begin
<1>9. /\ call'[c].pc = "prepare" /\ call'[c].op = op /\ call'[c].desired = d
      /\ call'[c].guard = g /\ call'[c].result = call[c].result
      /\ call'[c].dispatched = call[c].dispatched /\ call'[c].clean = call[c].clean
      /\ call'[c].view = call[c].view /\ call'[c].page = call[c].page
  BY <1>2, <1>7 DEF CallRecord
<1>10. (op = "put" => d \in Puts) /\ IsFiniteSet(d)
  BY <1>1, ConfigAssumption, FS_EmptySet
<1>11. Begins(c)
  BY <1>3, <1>7, <1>8, <1>9, <1>10 DEF Begins, NoSend, provider
<1> QED BY <1>8, <1>11 DEF Shaped, provider

\* A call that ends before or after its mutation with an answer that is right.
LEMMA ReturnShape ==
  ASSUME TypeOK, NEW c \in Calls, call[c].pc \notin {"idle", "done"},
         NEW result \in Results \ {"none"}, Finish(c, result),
         UNCHANGED << authority, zone, recs, nextId, removed, wire, plan >>,
         quiet' \in {quiet, quiet \cup {c}}, quiet' # quiet => call[c].pc \in ReadPCs,
         result \in Definite => Refused(c),
         result = "ok" => call[c].pc = "verify" /\ call[c].out = "ok"
  PROVE  Shaped(c)
<1>1. Ends(c, result)
  BY FinishEnds
<1>2. Returns(c)
  BY <1>1 DEF Returns, NoSend
<1> QED BY <1>2 DEF Shaped

LEMMA AdvanceShape ==
  ASSUME TypeOK, NEW c \in Calls, NEW pc \in PCs, Goto(c, pc),
         UNCHANGED << authority, provider, plan >>,
         \/ call[c].pc = "fence1" /\ pc = "preflight" /\ call[c].op = "delete_zone"
         \/ call[c].pc = "fence1" /\ pc = "zone" /\ Batch(c)
         \/ call[c].pc = "zone" /\ pc = "scan"
         \/ call[c].pc = "fence2" /\ pc = "plan" /\ call[c].op # "delete_zone"
         \/ call[c].pc = "sent" /\ pc = "observe" /\ Executed(c)
  PROVE  Shaped(c)
<1>1. Moves(c, pc)
  BY GotoMoves
<1>2. Advances(c)
  BY <1>1 DEF Advances, NoSend, provider
<1> QED BY <1>2 DEF Shaped, provider

\* A call that has sent nothing cannot be refused wrongly.
LEMMA EarlyIsRefused ==
  ASSUME NEW c \in Calls, CallOK(c), call[c].pc \in Early
  PROVE  Refused(c)
  BY DEF CallOK, Truthful, Refused

LEMMA ReadAccountShape ==
  ASSUME TypeOK, NEW c \in Calls, CallOK(c), ReadAccount(c) \/ ReadToken(c)
  PROVE  Shaped(c)
<1>0. /\ call[c] \in CallRecord /\ account \in Row /\ token \in Nat
      /\ UNCHANGED << authority, provider, plan >>
  BY CallType DEF TypeOK, ReadAccount, ReadToken
<1>1. ASSUME ReadAccount(c), account.policy # "managed" PROVE Shaped(c)
  <2>1. PICK result \in {"not_found", "invalid"} : Finish(c, result)
    BY <1>0, <1>1 DEF ReadAccount, Row, Policies
  <2>2. call[c].pc = "prepare"
    BY <1>1 DEF ReadAccount
  <2>3. Refused(c)
    BY <2>2, EarlyIsRefused DEF Early
  <2> QED BY <1>0, <2>1, <2>2, <2>3, ReturnShape DEF Results, Definite, provider
<1>2. ASSUME NEW r \in Row, NEW t \in Nat, NEW pc \in PCs,
             call' = [call EXCEPT ![c] = [call[c] EXCEPT !.pc = pc, !.row = r, !.token = t]],
             \/ call[c].pc = "prepare" /\ pc = "token"
             \/ call[c].pc = "token" /\ pc = "fence1"
      PROVE  Shaped(c)
  <2> DEFINE new == [call[c] EXCEPT !.pc = pc, !.row = r, !.token = t]
  <2>1. new \in CallRecord
    BY <1>0, <1>2 DEF CallRecord
  <2>2. Only(c) /\ call'[c] = new
    BY <1>2, <2>1, Update
  <2>3. Moves(c, pc)
    BY <1>0, <2>2 DEF Moves, Same, CallRecord
  <2>4. Advances(c)
    BY <1>0, <1>2, <2>3 DEF Advances, NoSend, provider
  <2> QED BY <1>0, <2>4 DEF Shaped, provider
<1>3. ASSUME ReadAccount(c), account.policy = "managed" PROVE Shaped(c)
  <2>1. /\ call[c].pc = "prepare"
        /\ call' = [call EXCEPT ![c].pc = "token", ![c].row = account]
    BY <1>3 DEF ReadAccount
  <2>2. call' = [call EXCEPT ![c] = [call[c] EXCEPT !.pc = "token", !.row = account,
                                                    !.token = call[c].token]]
    BY <1>0, <2>1 DEF TypeOK, CallRecord
  <2> QED BY <1>0, <1>2, <2>1, <2>2 DEF CallRecord, PCs
<1>4. ASSUME ReadToken(c) PROVE Shaped(c)
  <2>1. /\ call[c].pc = "token"
        /\ call' = [call EXCEPT ![c].pc = "fence1", ![c].token = token]
    BY <1>4 DEF ReadToken
  <2>2. call' = [call EXCEPT ![c] = [call[c] EXCEPT !.pc = "fence1", !.row = call[c].row,
                                                    !.token = token]]
    BY <1>0, <2>1 DEF TypeOK, CallRecord
  <2> QED BY <1>0, <1>2, <2>1, <2>2 DEF CallRecord, PCs
<1> QED BY <1>1, <1>3, <1>4

LEMMA SendSends ==
  ASSUME TypeOK, NEW c \in Calls, NEW p, Send(c, p), Paging(c), call[c].pc \notin ReadPCs
  PROVE  Sends(c, p)
<1> DEFINE new == [call[c] EXCEPT !.pc = "sent", !.dispatched = TRUE]
<1>1. call[c] \in CallRecord
  BY CallType
<1>2. call' = [call EXCEPT ![c] = new]
  BY DEF Send, TypeOK
<1>3. new \in CallRecord
  BY <1>1 DEF CallRecord, PCs
<1>4. Only(c) /\ call'[c] = new
  BY <1>2, <1>3, Update
<1>5. call[c].page = 1 /\ call[c].view = {}
  BY DEF Paging
<1>6. Same(c)
  BY <1>1, <1>4 DEF Same, CallRecord
<1>7. /\ call'[c].pc = "sent" /\ call'[c].dispatched = TRUE
      /\ call'[c].result = call[c].result /\ call'[c].clean = call[c].clean
      /\ call'[c].page = 1 /\ call'[c].view = {}
  BY <1>1, <1>4, <1>5 DEF CallRecord
<1> QED BY <1>6, <1>7 DEF Sends, Send

LEMMA NoPlanType == NoPlan \in Plan
  BY DEF NoPlan, Plan

LEMMA FenceShape ==
  ASSUME TypeOK, NEW c \in Calls, CallOK(c),
         FenceBeforeWork(c) \/ FenceBeforeApply(c) \/ ObserveZone(c)
  PROVE  Shaped(c)
<1>0. /\ call[c] \in CallRecord /\ Paging(c)
      /\ UNCHANGED << authority, zone, recs, nextId, quiet, removed >>
      /\ call[c].pc \in {"fence1", "fence2", "zone"}
      /\ call[c].pc \in Early /\ call[c].pc \notin ReadPCs
  BY CallType DEF CallOK, FenceBeforeWork, FenceBeforeApply, ObserveZone, Early, ReadPCs,
     provider
<1>1. ASSUME NEW result \in {"unavailable", "not_found"}, Finish(c, result), NoSend
      PROVE  Shaped(c)
  <2>1. Refused(c)
    BY <1>0, EarlyIsRefused
  <2> QED BY <1>0, <1>1, <2>1, ReturnShape DEF Results, Definite, NoSend
<1>2. ASSUME Send(c, NoPlan), \/ call[c].pc = "fence1" /\ call[c].op = "create_zone"
                              \/ call[c].pc = "fence2" /\ call[c].op = "delete_zone"
      PROVE  Shaped(c)
  <2>1. Sends(c, NoPlan)
    BY <1>0, <1>2, SendSends
  <2>2. Dispatches(c)
    BY <1>0, <1>2, <2>1, NoPlanType DEF Dispatches
  <2> QED BY <1>0, <2>2 DEF Shaped
<1>3. CASE FenceBeforeWork(c)
  <2>1. CASE ~AuthorityIsCurrent(c)
    BY <1>1, <1>3, <2>1 DEF FenceBeforeWork, NoSend
  <2>2. CASE AuthorityIsCurrent(c) /\ call[c].op = "create_zone"
    BY <1>2, <1>3, <2>2 DEF FenceBeforeWork
  <2>3. CASE AuthorityIsCurrent(c) /\ call[c].op = "delete_zone"
    <3>1. Goto(c, "preflight") /\ NoSend /\ call[c].pc = "fence1"
      BY <1>3, <2>3 DEF FenceBeforeWork, NoSend
    <3> QED BY <1>0, <2>3, <3>1, AdvanceShape DEF PCs, ReadPCs, NoSend, provider
  <2>4. CASE AuthorityIsCurrent(c) /\ call[c].op \notin {"create_zone", "delete_zone"}
    <3>1. Goto(c, "zone") /\ NoSend /\ call[c].pc = "fence1"
      BY <1>3, <2>4 DEF FenceBeforeWork, NoSend
    <3>2. Batch(c)
      BY <1>0, <2>4 DEF Batch, CallRecord, Ops
    <3> QED BY <1>0, <3>1, <3>2, AdvanceShape DEF PCs, NoSend, provider
  <2> QED BY <2>1, <2>2, <2>3, <2>4
<1>4. CASE FenceBeforeApply(c)
  <2>1. CASE ~AuthorityIsCurrent(c)
    BY <1>1, <1>4, <2>1 DEF FenceBeforeApply, NoSend
  <2>2. CASE AuthorityIsCurrent(c) /\ call[c].op = "delete_zone"
    BY <1>2, <1>4, <2>2 DEF FenceBeforeApply
  <2>3. CASE AuthorityIsCurrent(c) /\ call[c].op # "delete_zone"
    <3>1. Goto(c, "plan") /\ NoSend /\ call[c].pc = "fence2"
      BY <1>4, <2>3 DEF FenceBeforeApply, NoSend
    <3> QED BY <1>0, <2>3, <3>1, AdvanceShape DEF PCs, ReadPCs, NoSend, provider
  <2> QED BY <2>1, <2>2, <2>3
<1>5. CASE ObserveZone(c)
  <2>1. CASE zone.live
    <3>1. Goto(c, "scan") /\ NoSend /\ call[c].pc = "zone"
      BY <1>5, <2>1 DEF ObserveZone, NoSend, provider
    <3> QED BY <1>0, <3>1, AdvanceShape DEF PCs, ReadPCs, NoSend, provider
  <2>2. CASE ~zone.live
    BY <1>1, <1>5, <2>2 DEF ObserveZone, NoSend, provider
  <2> QED BY <2>1, <2>2
<1> QED BY <1>3, <1>4, <1>5

LEMMA QuietFromGrows ==
  ASSUME NEW c \in Calls, QuietFrom(c)
  PROVE  quiet' \in {quiet, quiet \cup {c}}
  BY DEF QuietFrom

LEMMA ScanShape ==
  ASSUME TypeOK, NEW c \in Calls, CallOK(c), ScanPage(c)
  PROVE  Shaped(c)
<1>0. /\ call[c] \in CallRecord /\ IsFiniteSet(call[c].view)
      /\ call[c].pc = "scan" /\ QuietFrom(c)
      /\ UNCHANGED << authority, zone, recs, nextId, wire, removed, plan >>
  BY CallType DEF CallOK, Paging, ScanPage
<1>1. ASSUME NEW result \in {"not_found", "invalid", "conflict"}, Finish(c, result)
      PROVE  Shaped(c)
  <2>1. Refused(c)
    BY <1>0, EarlyIsRefused DEF Early
  <2> QED
    BY <1>0, <1>1, <2>1, ReturnShape, QuietFromGrows DEF Results, Definite, ReadPCs
<1>2. ASSUME NextPage(c) PROVE Shaped(c)
  <2>1. Turns(c)
    BY <1>0, <1>2, NextPageTurns
  <2>2. ReadsOn(c)
    BY <1>0, <2>1 DEF ReadsOn, ReadPCs, NoSend
  <2> QED BY <1>0, <2>2 DEF Shaped
<1>3. ASSUME Leave(c, "fence2", "none") PROVE Shaped(c)
  <2>1. Drops(c, "fence2", "none")
    BY <1>3, LeaveDrops DEF PCs, Results
  <2>2. Checked(c)
    BY <1>0, <2>1 DEF Checked, NoSend
  <2> QED BY <1>0, <2>2 DEF Shaped
<1>4. \/ \E result \in {"not_found", "invalid", "conflict"} : Finish(c, result)
      \/ NextPage(c)
      \/ Leave(c, "fence2", "none")
  BY DEF ScanPage, GuardError
<1> QED BY <1>1, <1>2, <1>3, <1>4

LEMMA PlanShape ==
  ASSUME TypeOK, NEW c \in Calls, CallOK(c), PlanPage(c)
  PROVE  Shaped(c)
<1>0. /\ call[c] \in CallRecord /\ IsFiniteSet(call[c].view)
      /\ call[c].pc = "plan" /\ QuietFrom(c)
      /\ UNCHANGED << authority, zone, recs, nextId, removed >>
  BY CallType DEF CallOK, Paging, PlanPage
<1>1. ASSUME NEW error \in {"not_found", "invalid", "conflict"}, Undispatched(c, error),
             NoSend
      PROVE  Shaped(c)
  <2>1. PICK result \in {"not_found", "invalid", "conflict", "unavailable"} :
          Finish(c, result)
    BY <1>1 DEF Undispatched
  <2>2. Refused(c)
    BY <1>0, EarlyIsRefused DEF Early
  <2> QED
    BY <1>0, <1>1, <2>1, <2>2, ReturnShape, QuietFromGrows
    DEF Results, Definite, NoSend, ReadPCs
<1>2. ASSUME NextPage(c), NoSend PROVE Shaped(c)
  <2>1. Turns(c)
    BY <1>0, <1>2, NextPageTurns
  <2>2. ReadsOn(c)
    BY <1>0, <1>2, <2>1 DEF ReadsOn, ReadPCs
  <2> QED BY <1>0, <2>2 DEF Shaped
<1>3. ASSUME PlanError(c, RRset(c)) = "none",
             call' = [call EXCEPT ![c].pc = "sent", ![c].dispatched = TRUE,
                                  ![c].view = {}, ![c].page = 1, ![c].pages = 0],
             wire' = [wire EXCEPT ![c] = "inflight"],
             plan' = [plan EXCEPT ![c] = PlanBatch(c, RRset(c))]
      PROVE  Shaped(c)
  <2> DEFINE new == [call[c] EXCEPT !.pc = "sent", !.dispatched = TRUE, !.view = {},
                                    !.page = 1, !.pages = 0]
             p == PlanBatch(c, RRset(c))
  <2>1. call' = [call EXCEPT ![c] = new]
    BY <1>3 DEF TypeOK
  <2>2. new \in CallRecord
    BY <1>0 DEF CallRecord, PCs
  <2>3. Only(c) /\ call'[c] = new
    BY <2>1, <2>2, Update
  <2>4. Sends(c, p)
    <3>1. Same(c)
      BY <1>0, <2>3 DEF Same, CallRecord
    <3>2. /\ call'[c].pc = "sent" /\ call'[c].dispatched = TRUE
          /\ call'[c].result = call[c].result /\ call'[c].clean = call[c].clean
          /\ call'[c].page = 1 /\ call'[c].view = {}
      BY <1>0, <2>3 DEF CallRecord
    <3> QED BY <1>3, <3>1, <3>2 DEF Sends
  <2>5. RRset(c) = call[c].guard
    BY <1>3 DEF PlanError
  <2>6. p.ids = Ids(call[c].guard) /\ p.posts = call[c].desired
    BY <2>5 DEF PlanBatch
  <2>7. p \in Plan
    <3>1. RRset(c) \subseteq Record /\ call[c].desired \subseteq Data
      BY <1>0, InventoryType DEF CallRecord
    <3>2. Ids(RRset(c)) \subseteq Nat
      BY <3>1 DEF Ids, Record
    <3> QED BY <3>1, <3>2 DEF PlanBatch, Plan
  <2> HIDE DEF p
  <2>8. Dispatches(c)
    BY <1>0, <2>4, <2>6, <2>7 DEF Dispatches
  <2> QED BY <1>0, <2>8 DEF Shaped
<1>4. \/ /\ \E error \in {"not_found", "invalid", "conflict"} : Undispatched(c, error)
         /\ NoSend
      \/ NextPage(c) /\ NoSend
      \/ /\ PlanError(c, RRset(c)) = "none"
         /\ call' = [call EXCEPT ![c].pc = "sent", ![c].dispatched = TRUE,
                                 ![c].view = {}, ![c].page = 1, ![c].pages = 0]
         /\ wire' = [wire EXCEPT ![c] = "inflight"]
         /\ plan' = [plan EXCEPT ![c] = PlanBatch(c, RRset(c))]
  BY DEF PlanPage, PlanError, NoSend
<1> QED BY <1>1, <1>2, <1>3, <1>4

LEMMA PreflightShape ==
  ASSUME TypeOK, NEW c \in Calls, CallOK(c), Preflight(c)
  PROVE  Shaped(c)
<1>0. /\ call[c] \in CallRecord /\ IsFiniteSet(call[c].view)
      /\ call[c].pc = "preflight" /\ QuietFrom(c)
      /\ UNCHANGED << authority, zone, recs, nextId, wire, removed, plan >>
  BY CallType DEF CallOK, Paging, Preflight
<1>1. ASSUME NEW result \in {"not_found", "invalid", "conflict"}, Finish(c, result)
      PROVE  Shaped(c)
  <2>1. Refused(c)
    BY <1>0, EarlyIsRefused DEF Early
  <2> QED
    BY <1>0, <1>1, <2>1, ReturnShape, QuietFromGrows DEF Results, Definite, ReadPCs
<1>2. ASSUME NextPage(c), call[c].page = 1 => zone.rev = call[c].rev PROVE Shaped(c)
  <2>1. Turns(c)
    BY <1>0, <1>2, NextPageTurns
  <2>2. ReadsOn(c)
    BY <1>0, <1>2, <2>1 DEF ReadsOn, ReadPCs, NoSend
  <2> QED BY <1>0, <2>2 DEF Shaped
<1>3. ASSUME Leave(c, "fence2", "none"), LastPage(c), ~Blocked(c),
             call[c].page = 1 => zone.rev = call[c].rev
      PROVE  Shaped(c)
  <2>1. Drops(c, "fence2", "none")
    BY <1>3, LeaveDrops DEF PCs, Results
  <2>2. Checked(c)
    BY <1>0, <1>3, <2>1 DEF Checked, NoSend
  <2> QED BY <1>0, <2>2 DEF Shaped
<1> DEFINE stale == call[c].page = 1 /\ zone.rev # call[c].rev
<1>4. CASE ~zone.live
  BY <1>1, <1>4 DEF Preflight
<1>5. CASE zone.live /\ stale
  BY <1>1, <1>5 DEF Preflight
<1>6. CASE zone.live /\ ~stale /\ Torn(c)
  BY <1>1, <1>6 DEF Preflight
<1>7. CASE zone.live /\ ~stale /\ ~Torn(c) /\ ~LastPage(c)
  BY <1>2, <1>7 DEF Preflight
<1>8. CASE zone.live /\ ~stale /\ ~Torn(c) /\ LastPage(c)
  BY <1>1, <1>3, <1>8 DEF Preflight
<1> QED BY <1>4, <1>5, <1>6, <1>7, <1>8

\* A call goes on to the final fence with an outcome.
LEMMA AnswerShape ==
  ASSUME TypeOK, NEW c \in Calls, NEW out \in Results \ {"none"}, NEW n \in Nat,
         call' = [call EXCEPT ![c] = [call[c] EXCEPT !.pc = "verify", !.out = out,
                                        !.view = {}, !.page = 1, !.pages = n]],
         call[c].pc \in {"sent", "observe"},
         UNCHANGED << authority, provider, plan >>,
         out \in Definite => Refused(c),
         out = "ok" => wire[c] = "applied" /\ call[c].op # "put"
  PROVE  Shaped(c)
<1> DEFINE new == [call[c] EXCEPT !.pc = "verify", !.out = out, !.view = {}, !.page = 1,
                                  !.pages = n]
<1>1. call[c] \in CallRecord
  BY CallType
<1>2. new \in CallRecord
  BY <1>1 DEF CallRecord, PCs
<1>3. Only(c) /\ call'[c] = new
  BY <1>2, Update
<1>4. Drops(c, "verify", out)
  <2>1. Same(c)
    BY <1>1, <1>3 DEF Same, CallRecord
  <2>2. call'[c].pc = "verify" /\ call'[c].out = out
    <3>1. new.pc = "verify" /\ new.out = out
      BY <1>1 DEF CallRecord
    <3> HIDE DEF new
    <3> QED BY <1>3, <3>1
  <2>3. call'[c].view = {} /\ call'[c].page = 1
    <3>1. new.view = {} /\ new.page = 1
      BY <1>1 DEF CallRecord
    <3> HIDE DEF new
    <3> QED BY <1>3, <3>1
  <2>4. /\ call'[c].result = call[c].result
        /\ call'[c].dispatched = call[c].dispatched
    BY <1>1, <1>3 DEF CallRecord
  <2> QED BY <2>1, <2>2, <2>3, <2>4 DEF Drops
<1>5. Answered(c)
  BY <1>4 DEF Answered, NoSend, provider
<1> QED BY <1>5 DEF Shaped, provider

LEMMA ResponseShape ==
  ASSUME TypeOK, NEW c \in Calls, CallOK(c), Response(c)
  PROVE  Shaped(c)
<1>0. /\ call[c] \in CallRecord /\ call[c].pc = "sent"
      /\ call[c].page = 1 /\ call[c].view = {}
      /\ UNCHANGED << authority, provider, plan >>
  BY CallType DEF CallOK, Paging, Response, ReadPCs
<1>1. PICK out \in ResponseOutcomes(c) :
          CASE call[c].op = "create_zone" /\ out # "ok" -> Finish(c, out)
            [] out = "ok" /\ call[c].op \in {"put", "delete"} -> Goto(c, "observe")
            [] OTHER -> call' = [call EXCEPT ![c].pc = "verify", ![c].out = out]
  BY DEF Response
<1>2. /\ out \in Results \ {"none"}
      /\ out \in Definite => Refused(c)
      /\ out = "ok" => wire[c] = "applied"
  BY DEF ResponseOutcomes, Rejection, Results, Definite, Refused
<1>3. CASE call[c].op = "create_zone" /\ out # "ok"
  <2>1. Finish(c, out)
    BY <1>1, <1>3
  <2> QED BY <1>0, <1>2, <1>3, <2>1, ReturnShape DEF provider
<1>4. CASE out = "ok" /\ call[c].op \in {"put", "delete"}
  <2>1. Goto(c, "observe")
    BY <1>1, <1>4
  <2>2. Executed(c)
    BY <1>2, <1>4 DEF Executed, Batch
  <2> QED BY <1>0, <2>1, <2>2, AdvanceShape DEF PCs, ReadPCs
<1>5. CASE ~(call[c].op = "create_zone" /\ out # "ok")
           /\ ~(out = "ok" /\ call[c].op \in {"put", "delete"})
  <2>1. call' = [call EXCEPT ![c].pc = "verify", ![c].out = out]
    BY <1>1, <1>5
  <2>2. call' = [call EXCEPT ![c] = [call[c] EXCEPT !.pc = "verify", !.out = out,
                                        !.view = {}, !.page = 1, !.pages = call[c].pages]]
    BY <1>0, <2>1 DEF TypeOK, CallRecord
  <2>3. call[c].pages \in Nat
    BY <1>0 DEF CallRecord
  <2> QED BY <1>0, <1>2, <1>5, <2>2, <2>3, AnswerShape
<1> QED BY <1>3, <1>4, <1>5

LEMMA ObserveShape ==
  ASSUME TypeOK, NEW c \in Calls, CallOK(c), PostObserve(c)
  PROVE  Shaped(c)
<1>0. /\ call[c] \in CallRecord /\ IsFiniteSet(call[c].view)
      /\ call[c].pc = "observe" /\ QuietFrom(c)
      /\ UNCHANGED << authority, zone, recs, nextId, wire, removed, plan >>
  BY CallType DEF CallOK, Paging, PostObserve
<1>1. ASSUME NextPage(c) PROVE Shaped(c)
  <2>1. Turns(c)
    BY <1>0, <1>1, NextPageTurns
  <2>2. ReadsOn(c)
    BY <1>0, <2>1 DEF ReadsOn, ReadPCs, NoSend
  <2> QED BY <1>0, <2>2 DEF Shaped
<1>2. ASSUME NEW out \in {"ok", "unknown"}, Leave(c, "verify", out),
             out = "ok" => /\ LastPage(c) /\ Aggregates(RRset(c))
                           /\ Values(RRset(c)) = call[c].desired
      PROVE  Shaped(c)
  <2>1. Drops(c, "verify", out) /\ call'[c].clean = (c \in quiet')
    BY <1>2, LeaveDrops DEF PCs, Results
  <2>2. Observed(c)
    BY <1>0, <1>2, <2>1 DEF Observed, NoSend
  <2> QED BY <1>0, <2>2 DEF Shaped
<1>3. CASE ~zone.live \/ Torn(c)
  BY <1>2, <1>3 DEF PostObserve
<1>4. CASE zone.live /\ ~Torn(c) /\ ~LastPage(c)
  BY <1>1, <1>4 DEF PostObserve
<1>5. CASE zone.live /\ ~Torn(c) /\ LastPage(c)
  <2>1. Leave(c, "verify", PostOutcome(c, RRset(c)))
    BY <1>5 DEF PostObserve
  <2> QED BY <1>2, <1>5, <2>1 DEF PostOutcome
<1> QED BY <1>3, <1>4, <1>5

LEMMA EndShape ==
  ASSUME TypeOK, NEW c \in Calls, CallOK(c), Verify(c) \/ Timeout(c)
  PROVE  Shaped(c)
<1>0. call[c] \in CallRecord /\ UNCHANGED << authority, provider, plan >>
  BY CallType DEF Verify, Timeout
<1>1. CASE Verify(c) /\ call[c].out # "none"
  <2>1. PICK result \in {call[c].out, "unknown"} : Finish(c, result)
    BY <1>1 DEF Verify
  <2>2. call[c].pc = "verify" /\ result \in Results \ {"none"}
    BY <1>0, <1>1 DEF Verify, CallRecord, Results
  <2>3. result \in Definite => Refused(c)
    BY <2>2 DEF CallOK, Truthful, Refused, Definite
  <2> QED BY <1>0, <2>1, <2>2, <2>3, ReturnShape DEF provider
<1>2. CASE Timeout(c)
  <2>1. PICK result \in {"unavailable", "unknown"} :
          Finish(c, result) /\ (result = "unavailable" => ~call[c].dispatched)
    BY <1>2 DEF Timeout, ClassifyTimeout
  <2>2. call[c].pc \notin {"idle", "done"} /\ result \in Results \ {"none"}
    BY <1>2 DEF Timeout, Results, Definite
  <2>3. result \in Definite => Refused(c)
    BY <2>1 DEF CallOK, Truthful, Refused, Definite
  <2> QED BY <1>0, <2>1, <2>2, <2>3, ReturnShape DEF provider
<1> QED BY <1>1, <1>2 DEF CallOK, Truthful, Verify

LEMMA FaultShape ==
  ASSUME TypeOK, NEW c \in Calls, CallOK(c), ReadFault(c)
  PROVE  Shaped(c)
<1>0. call[c] \in CallRecord /\ UNCHANGED << authority, provider, plan >>
  BY CallType DEF ReadFault
<1>1. CASE call[c].pc = "observe"
  <2>1. call' = [call EXCEPT ![c].pc = "verify", ![c].out = "unknown", ![c].view = {},
                             ![c].page = 1, ![c].pages = 0]
    BY <1>1 DEF ReadFault
  <2>2. call' = [call EXCEPT ![c] = [call[c] EXCEPT !.pc = "verify", !.out = "unknown",
                                        !.view = {}, !.page = 1, !.pages = 0]]
    BY <2>1 DEF TypeOK
  <2>3. "unknown" \in Results \ {"none"} /\ "unknown" \notin Definite
    BY DEF Results, Definite
  <2> QED BY <1>0, <1>1, <2>2, <2>3, AnswerShape
<1>2. CASE call[c].pc # "observe"
  <2>1. PICK result \in {"unavailable", "invalid"} : Finish(c, result)
    BY <1>2 DEF ReadFault
  <2>2. call[c].pc \in Early \ {"idle"}
    BY <1>2 DEF ReadFault, Early, ReadPCs
  <2>3. Refused(c)
    BY <2>2, EarlyIsRefused
  <2>4. call[c].pc \notin {"idle", "done"}
    BY <2>2 DEF Early
  <2> QED BY <1>0, <2>1, <2>3, <2>4, ReturnShape DEF Results, Definite, provider
<1> QED BY <1>1, <1>2

\* Every step of a call has one of the shapes.
LEMMA CallShape ==
  ASSUME TypeOK, NEW c \in Calls, CallOK(c), CallStep(c)
  PROVE  Shaped(c)
  BY BeginShape, ReadAccountShape, FenceShape, ScanShape, PlanShape, PreflightShape,
     ResponseShape, ObserveShape, EndShape, FaultShape
  DEF CallStep

-----------------------------------------------------------------------------
(***************************************************************************)
(* The steps of a call keep the invariant                                  *)
(***************************************************************************)

\* What every shape has in common.
LEMMA ShapeFrame ==
  ASSUME TypeOK, NEW c \in Calls, CallOK(c), Shaped(c)
  PROVE  /\ Only(c) /\ UNCHANGED << account, token, edits, zone, recs, nextId, removed >>
         /\ quiet' \in {quiet, quiet \cup {c}}
         /\ \/ NoSend
            \/ \E p \in Plan : /\ wire[c] = "none"
                               /\ wire' = [wire EXCEPT ![c] = "inflight"]
                               /\ plan' = [plan EXCEPT ![c] = p]
         /\ \A d \in Calls \ {c} : wire'[d] = wire[d] /\ plan'[d] = plan[d]
         /\ wire[c] # "none" => Same(c)
<1>1. ASSUME Begins(c)
      PROVE  Only(c) /\ quiet' = quiet /\ NoSend /\ wire[c] = "none"
  BY <1>1 DEF Begins, CallOK, Truthful, Early
<1>2. ASSUME Returns(c) \/ Advances(c) \/ Answered(c)
      PROVE  Same(c) /\ quiet' \in {quiet, quiet \cup {c}} /\ NoSend
  BY <1>2 DEF Returns, Advances, Answered, Ends, Moves, Drops
<1>3. ASSUME ReadsOn(c) \/ Checked(c) \/ Observed(c)
      PROVE  Same(c) /\ quiet' \in {quiet, quiet \cup {c}} /\ NoSend
  BY <1>3, QuietFromGrows DEF ReadsOn, Checked, Observed, Turns, Drops
<1>4. ASSUME Dispatches(c)
      PROVE  /\ Same(c) /\ quiet' \in {quiet, quiet \cup {c}}
             /\ \E p \in Plan : /\ wire[c] = "none"
                                /\ wire' = [wire EXCEPT ![c] = "inflight"]
                                /\ plan' = [plan EXCEPT ![c] = p]
  BY <1>4, QuietFromGrows DEF Dispatches, Sends, CallOK, Truthful, Early
<1>5. Same(c) => Only(c)
  BY DEF Same
<1>6. /\ Only(c) /\ quiet' \in {quiet, quiet \cup {c}}
      /\ \/ NoSend
         \/ \E p \in Plan : /\ wire[c] = "none"
                            /\ wire' = [wire EXCEPT ![c] = "inflight"]
                            /\ plan' = [plan EXCEPT ![c] = p]
      /\ wire[c] # "none" => Same(c)
  BY <1>1, <1>2, <1>3, <1>4, <1>5 DEF Shaped
<1>7. \A d \in Calls \ {c} : wire'[d] = wire[d] /\ plan'[d] = plan[d]
  BY <1>6 DEF NoSend, TypeOK
<1>8. UNCHANGED << account, token, edits, zone, recs, nextId, removed >>
  BY DEF Shaped, authority
<1> QED BY <1>6, <1>7, <1>8

LEMMA TypeKept ==
  ASSUME TypeOK, NEW c \in Calls, CallOK(c), Shaped(c)
  PROVE  TypeOK'
<1>1. /\ Only(c) /\ UNCHANGED << account, token, edits, zone, recs, nextId, removed >>
      /\ quiet' \in {quiet, quiet \cup {c}}
      /\ \/ NoSend
         \/ \E p \in Plan : /\ wire' = [wire EXCEPT ![c] = "inflight"]
                            /\ plan' = [plan EXCEPT ![c] = p]
  BY ShapeFrame
<1>2. wire' \in [Calls -> Wires] /\ plan' \in [Calls -> Plan]
  BY <1>1 DEF TypeOK, NoSend, Wires
<1> QED BY <1>1, <1>2 DEF TypeOK, Only

\* The other calls are where they were.
LEMMA OthersKept ==
  ASSUME TypeOK, NEW c \in Calls, CallOK(c), Shaped(c), NEW d \in Calls \ {c}, CallOK(d)
  PROVE  CallOK(d)'
<1>1. /\ call'[d] = call[d] /\ wire'[d] = wire[d] /\ plan'[d] = plan[d] /\ nextId' = nextId
  BY ShapeFrame DEF Only
<1> QED BY <1>1 DEF CallOK, Placed, Truthful, Planned, Paging, Batch

LEMMA PlacedKept ==
  ASSUME TypeOK, NEW c \in Calls, CallOK(c), Shaped(c)
  PROVE  Placed(c)'
<1>1. CASE Begins(c)
  BY <1>1 DEF Begins, Placed
<1>2. CASE Returns(c)
  BY <1>2 DEF Returns, Ends, Placed
<1>3. CASE Advances(c)
  <2>1. call[c].op \in Ops
    BY CallType DEF CallRecord
  <2> QED BY <1>3, <2>1 DEF Advances, Moves, Same, CallOK, Placed, Batch, Executed, Ops
<1>4. CASE ReadsOn(c)
  BY <1>4 DEF ReadsOn, Turns, Same, CallOK, Placed, Batch
<1>5. CASE Checked(c)
  BY <1>5 DEF Checked, Drops, Same, CallOK, Placed, Batch
<1>6. CASE Observed(c) \/ Answered(c)
  BY <1>6 DEF Observed, Answered, Drops, Placed
<1>7. CASE Dispatches(c)
  BY <1>7 DEF Dispatches, Sends, Placed
<1> QED BY <1>1, <1>2, <1>3, <1>4, <1>5, <1>6, <1>7 DEF Shaped

LEMMA TruthfulKept ==
  ASSUME TypeOK, NEW c \in Calls, CallOK(c), Shaped(c)
  PROVE  Truthful(c)'
<1>0. Truthful(c)
  BY DEF CallOK
<1>1. CASE Begins(c)
  BY <1>0, <1>1 DEF Begins, NoSend, Truthful, Early
<1>2. CASE Returns(c)
  <2>1. PICK result \in Results \ {"none"} :
          /\ Ends(c, result) /\ NoSend
          /\ result \in Definite => Refused(c)
          /\ result = "ok" => call[c].pc = "verify" /\ call[c].out = "ok"
    BY <1>2 DEF Returns
  <2>2. /\ call'[c].pc = "done" /\ call'[c].result = result
        /\ call'[c].dispatched = call[c].dispatched /\ wire' = wire
    BY <2>1 DEF Ends, NoSend
  <2>3. result = "ok" => wire[c] = "applied"
    BY <1>0, <2>1 DEF Truthful
  <2> QED BY <1>0, <2>1, <2>2, <2>3 DEF Truthful, Early, Refused
<1>3. CASE Advances(c)
  BY <1>0, <1>3 DEF Advances, Moves, NoSend, Truthful, Early, Executed
<1>4. CASE ReadsOn(c)
  BY <1>0, <1>4 DEF ReadsOn, ReadPCs, Turns, NoSend, Truthful, Early
<1>5. CASE Checked(c)
  BY <1>0, <1>5 DEF Checked, Drops, NoSend, Truthful, Early
<1>6. CASE Observed(c)
  BY <1>0, <1>6 DEF Observed, Drops, NoSend, Truthful, Early, Definite
<1>7. CASE Answered(c)
  BY <1>0, <1>7 DEF Answered, Drops, NoSend, Truthful, Early, Refused
<1>8. CASE Dispatches(c)
  BY <1>0, <1>8 DEF Dispatches, Sends, Truthful, Early, TypeOK, Definite
<1> QED BY <1>1, <1>2, <1>3, <1>4, <1>5, <1>6, <1>7, <1>8 DEF Shaped

LEMMA PlannedKept ==
  ASSUME TypeOK, NEW c \in Calls, CallOK(c), Spent, Shaped(c)
  PROVE  Planned(c)'
<1>0. Planned(c) /\ Truthful(c) /\ Placed(c) /\ nextId' = nextId
  BY ShapeFrame DEF CallOK
<1>1. CASE Begins(c)
  <2>1. wire'[c] = "none"
    BY <1>0, <1>1 DEF Begins, NoSend, Truthful, Early
  <2>2. \A n \in Ids(call'[c].guard) : n < nextId
    BY <1>1 DEF Begins, Ids, Spent, Present
  <2> QED BY <1>0, <1>1, <2>1, <2>2 DEF Begins, Planned
<1>2. CASE Same(c) /\ NoSend /\ call[c].pc # "idle"
  BY <1>0, <1>2 DEF Same, NoSend, Planned, Batch
<1>3. CASE Returns(c) \/ Advances(c) \/ ReadsOn(c) \/ Checked(c) \/ Observed(c) \/ Answered(c)
  BY <1>2, <1>3 DEF Returns, Advances, ReadsOn, ReadPCs, Checked, Observed, Answered, Ends,
     Moves, Turns, Drops
<1>4. CASE Dispatches(c)
  <2>1. PICK p \in Plan : Sends(c, p)
        /\ \/ call[c].op \in {"create_zone", "delete_zone"}
           \/ p.ids = Ids(call[c].guard) /\ p.posts = call[c].desired
    BY <1>4 DEF Dispatches
  <2>2. plan'[c] = p /\ Same(c) /\ call[c].pc # "idle"
    BY <1>4, <2>1 DEF Sends, TypeOK, Dispatches
  <2> QED BY <1>0, <2>1, <2>2 DEF Planned, Same, Batch
<1> QED BY <1>1, <1>3, <1>4 DEF Shaped

LEMMA PagingKept ==
  ASSUME TypeOK, NEW c \in Calls, CallOK(c), Shaped(c)
  PROVE  Paging(c)'
<1>0. Paging(c) /\ call[c] \in CallRecord
  BY CallType DEF CallOK
<1>1. CASE Begins(c)
  BY <1>0, <1>1 DEF Begins, Paging, ReadPCs
<1>2. CASE Returns(c)
  BY <1>2, FS_EmptySet DEF Returns, Ends, Paging
<1>3. CASE Advances(c)
  BY <1>0, <1>3 DEF Advances, Moves, Paging, ReadPCs
<1>4. CASE ReadsOn(c)
  <2>1. /\ call'[c].pc = call[c].pc /\ call[c].pc \in ReadPCs
        /\ call'[c].view = Inventory(c) /\ call'[c].page = call[c].page + 1
    BY <1>4 DEF ReadsOn, Turns
  <2>2. IsFiniteSet(Inventory(c)) /\ call[c].page \in Nat
    BY <1>0, InventoryType DEF Paging, CallRecord
  <2> QED BY <1>0, <2>1, <2>2 DEF Paging
<1>5. CASE Checked(c) \/ Observed(c) \/ Answered(c)
  BY <1>5, FS_EmptySet DEF Checked, Observed, Answered, Drops, Paging
<1>6. CASE Dispatches(c)
  BY <1>6, FS_EmptySet DEF Dispatches, Sends, Paging
<1> QED BY <1>1, <1>2, <1>3, <1>4, <1>5, <1>6 DEF Shaped

LEMMA CallsKept ==
  ASSUME TypeOK, Spent, \A d \in Calls : CallOK(d), NEW c \in Calls, Shaped(c),
         NEW d \in Calls
  PROVE  CallOK(d)'
<1>1. CASE d = c
  BY <1>1, PlacedKept, TruthfulKept, PlannedKept, PagingKept DEF CallOK
<1>2. CASE d # c
  BY <1>2, OthersKept
<1> QED BY <1>1, <1>2

\* No batch is executed by a call's own step, and an executed one keeps its request.
LEMMA ExecutedSame ==
  ASSUME TypeOK, NEW c \in Calls, CallOK(c), Shaped(c), NEW d \in Calls
  PROVE  /\ Executed(d)' <=> Executed(d)
         /\ Executed(d) => /\ call'[d].op = call[d].op /\ call'[d].key = call[d].key
                           /\ call'[d].guard = call[d].guard
                           /\ call'[d].desired = call[d].desired
<1>1. CASE d # c
  BY <1>1, ShapeFrame DEF Only, Executed, Batch
<1>2. CASE d = c /\ wire[c] # "none"
  <2>1. Same(c) /\ wire' = wire
    BY <1>2, ShapeFrame DEF NoSend
  <2> QED BY <1>2, <2>1 DEF Same, Executed, Batch
<1>3. CASE d = c /\ wire[c] = "none"
  <2>1. wire'[c] \in {"none", "inflight"}
    BY <1>3, ShapeFrame DEF NoSend, TypeOK
  <2> QED BY <1>3, <2>1 DEF Executed
<1> QED BY <1>1, <1>2, <1>3

LEMMA SpentKept ==
  ASSUME TypeOK, NEW c \in Calls, CallOK(c), Shaped(c), Spent
  PROVE  Spent'
<1>1. recs' = recs /\ nextId' = nextId
  BY ShapeFrame
<1> QED BY <1>1, ExecutedSame DEF Spent, Present

LEMMA OwnedKept ==
  ASSUME TypeOK, NEW c \in Calls, CallOK(c), Shaped(c), Owned
  PROVE  Owned'
<1>1. recs' = recs /\ nextId' = nextId /\ removed' = removed
  BY ShapeFrame
<1>2. PICK own \in [Calls -> SUBSET Nat] : OwnedBy(own)
  BY DEF Owned
<1>3. OwnedBy(own)'
  BY <1>1, <1>2, ExecutedSame DEF OwnedBy, PresentIn
<1> QED BY <1>3 DEF Owned

\* The pages of a listing cover it.
LEMMA PagesCover ==
  ASSUME NEW n \in Nat, NEW size \in Nat \ {0}, NEW p \in Nat,
         p >= (n + size - 1) \div size
  PROVE  n <= p * size
<1> DEFINE q == (n + size - 1) \div size
<1>1. n + size - 1 \in Nat /\ q \in Nat
  OBVIOUS
<1>2. n + size - 1 < (q + 1) * size
  OBVIOUS
<1>3. n < q * size + 1
  BY <1>1, <1>2
<1>4. q * size <= p * size
  BY <1>1
<1> QED BY <1>1, <1>3, <1>4

\* What has been read after the page at hand, if nobody came between.
LEMMA PageSeen ==
  ASSUME TypeOK, NEW c \in Calls, Paging(c), SeenAll(c), call[c].pc \in ReadPCs,
         QuietFrom(c), c \in quiet', NEW i \in DOMAIN recs,
         i <= call[c].page * PageSize
  PROVE  recs[i] \in Inventory(c)
<1> DEFINE p == call[c].page
           before == (p - 1) * PageSize
<1>1. /\ p \in Nat /\ p >= 1 /\ PageSize \in Nat /\ PageSize > 0
      /\ i \in Nat /\ i >= 1
  BY CallType, ConfigAssumption DEF Paging, CallRecord, TypeOK
<1>2. before \in Nat
  <2>1. p - 1 \in Nat
    BY <1>1
  <2> QED BY <1>1, <2>1
<1>3. CASE i <= before
  <2>1. p # 1
    <3>1. p = 1 => before = 0
      BY <1>1
    <3> QED BY <1>1, <1>3, <3>1
  <2>2. c \in quiet
    BY <2>1 DEF QuietFrom
  <2>3. recs[i] \in call[c].view
    BY <1>3, <2>2 DEF SeenAll
  <2> QED BY <2>3 DEF Inventory
<1>4. CASE before < i
  <2>1. recs[i] \in PageItems(p)
    BY <1>4 DEF PageItems
  <2> QED BY <2>1 DEF Inventory
<1> QED BY <1>1, <1>2, <1>3, <1>4

LEMMA LastSeesAll ==
  ASSUME TypeOK, NEW c \in Calls, Paging(c), SeenAll(c), call[c].pc \in ReadPCs,
         QuietFrom(c), c \in quiet', LastPage(c), NEW i \in DOMAIN recs
  PROVE  recs[i] \in Inventory(c)
<1>1. /\ call[c].page \in Nat /\ PageSize \in Nat \ {0} /\ Len(recs) \in Nat
      /\ i \in Nat /\ i <= Len(recs)
  BY CallType, ConfigAssumption DEF CallRecord, TypeOK
<1>2. Len(recs) <= call[c].page * PageSize
  BY <1>1, PagesCover DEF LastPage, TotalPages
<1>3. call[c].page * PageSize \in Nat
  BY <1>1
<1>4. i <= call[c].page * PageSize
  BY <1>1, <1>2, <1>3
<1> QED BY <1>4, PageSeen

LEMMA SeenKept ==
  ASSUME TypeOK, NEW c \in Calls, CallOK(c), Shaped(c), \A d \in Calls : SeenAll(d),
         NEW d \in Calls
  PROVE  SeenAll(d)'
<1>0. recs' = recs /\ Only(c) /\ quiet' \in {quiet, quiet \cup {c}}
  BY ShapeFrame
<1>1. CASE d # c
  BY <1>0, <1>1 DEF Only, SeenAll
<1>2. CASE d = c /\ call'[c].pc \notin ReadPCs
  BY <1>2 DEF SeenAll
<1>3. CASE d = c /\ call'[c].page = 1
  <2>1. ASSUME NEW i \in DOMAIN recs PROVE ~(i <= (1 - 1) * PageSize)
    <3>1. i \in Nat /\ i >= 1 /\ PageSize \in Nat
      BY ConfigAssumption DEF TypeOK
    <3>2. (1 - 1) * PageSize = 0
      BY <3>1
    <3> QED BY <3>1, <3>2
  <2> QED BY <1>0, <1>3, <2>1 DEF SeenAll
<1>4. CASE d = c /\ Advances(c)
  <2>1. call[c].pc \notin ReadPCs /\ call'[c].page = call[c].page
    BY <1>4 DEF Advances, Moves, ReadPCs
  <2> QED BY <1>3, <1>4, <2>1 DEF CallOK, Paging
<1>5. CASE d = c /\ ReadsOn(c)
  <2>1. /\ call[c].pc \in ReadPCs /\ QuietFrom(c)
        /\ call'[c].view = Inventory(c) /\ call'[c].page = call[c].page + 1
    BY <1>5 DEF ReadsOn, Turns
  <2>2. call[c].page \in Nat
    BY CallType DEF CallRecord
  <2>3. call'[c].page - 1 = call[c].page
    BY <2>1, <2>2
  <2>4. Paging(c) /\ SeenAll(c)
    BY DEF CallOK
  <2>5. ASSUME c \in quiet', NEW i \in DOMAIN recs, i <= call[c].page * PageSize
        PROVE  recs[i] \in Inventory(c)
    BY <2>1, <2>4, <2>5, PageSeen
  <2> QED BY <1>0, <1>5, <2>1, <2>3, <2>5 DEF SeenAll
<1>6. CASE Begins(c) \/ Returns(c) \/ Checked(c) \/ Observed(c) \/ Answered(c) \/ Dispatches(c)
  <2>1. call'[c].pc \notin ReadPCs
    BY <1>6 DEF Begins, Returns, Ends, Checked, Observed, Answered, Drops, Dispatches, Sends,
       ReadPCs
  <2> QED BY <1>1, <1>2, <2>1
<1> QED BY <1>1, <1>4, <1>5, <1>6 DEF Shaped

LEMMA PreflightedKept ==
  ASSUME TypeOK, NEW c \in Calls, CallOK(c), Shaped(c), \A d \in Calls : SeenAll(d),
         \A d \in Calls : Preflighted(d), NEW d \in Calls
  PROVE  Preflighted(d)'
<1>0. /\ recs' = recs /\ zone' = zone /\ Only(c) /\ quiet' \in {quiet, quiet \cup {c}}
      /\ \A e \in Calls \ {c} : wire'[e] = wire[e]
  BY ShapeFrame
<1>1. CASE d # c
  BY <1>0, <1>1 DEF Only, Preflighted
<1> SUFFICES ASSUME d = c, c \in quiet', call'[c].op = "delete_zone"
             PROVE  /\ call'[c].pc = "preflight" /\ call'[c].page > 1 =>
                         zone.rev = call'[c].rev
                    /\ call'[c].pc = "fence2" \/ wire'[c] = "inflight" =>
                         recs = << >> /\ ~zone.dnssec /\ zone.rev = call'[c].rev
  BY <1>0, <1>1 DEF Preflighted
<1>2. CASE Begins(c)
  <2>1. wire'[c] = "none" /\ call'[c].pc = "prepare"
    BY <1>2 DEF Begins, NoSend, CallOK, Truthful, Early
  <2> QED BY <2>1
<1>3. CASE Returns(c) \/ Answered(c) \/ Observed(c)
  <2>1. /\ Same(c) /\ wire' = wire /\ call'[c].pc \in {"done", "verify"}
        /\ call[c].pc # "idle"
    BY <1>3 DEF Returns, Ends, Answered, Observed, Drops, NoSend
  <2>2. ASSUME wire[c] = "inflight" PROVE c \in quiet
    <3>1. call[c].pc \notin ReadPCs
      BY <2>2 DEF CallOK, Truthful, Early, ReadPCs
    <3>2. ~Observed(c)
      BY <3>1 DEF Observed, ReadPCs
    <3>3. ASSUME Returns(c), c \notin quiet PROVE FALSE
      BY <3>1, <3>3 DEF Returns
    <3> QED BY <1>3, <3>2, <3>3 DEF Answered
  <2> QED BY <2>1, <2>2 DEF Preflighted, Same
<1>4. CASE Advances(c)
  <2>1. /\ Same(c) /\ wire' = wire /\ quiet' = quiet /\ call'[c].page = call[c].page
        /\ call'[c].pc # "fence2"
    BY <1>4 DEF Advances, Moves, NoSend
  <2>2. call'[c].pc = "preflight" => call[c].page = 1
    BY <1>4 DEF Advances, Moves, CallOK, Paging, ReadPCs
  <2> QED BY <2>1, <2>2 DEF Preflighted, Same
<1>5. CASE ReadsOn(c)
  <2>1. /\ Same(c) /\ wire' = wire /\ call'[c].pc = call[c].pc /\ call[c].pc \in ReadPCs
        /\ QuietFrom(c)
        /\ call[c].pc = "preflight" /\ call[c].page = 1 => zone.rev = call[c].rev
    BY <1>5 DEF ReadsOn, Turns, NoSend
  <2>2. wire[c] # "inflight" /\ call[c].pc # "fence2"
    BY <2>1 DEF CallOK, Truthful, Early, ReadPCs
  <2>3. call[c].page \in Nat /\ call[c].page >= 1
    BY CallType DEF CallOK, Paging, CallRecord
  <2>4. ASSUME call[c].pc = "preflight", call[c].page # 1 PROVE zone.rev = call[c].rev
    <3>1. c \in quiet /\ call[c].page > 1
      BY <2>1, <2>3, <2>4 DEF QuietFrom
    <3> QED BY <2>1, <2>4, <3>1 DEF Preflighted, Same
  <2> QED BY <2>1, <2>2, <2>4 DEF Same
<1>6. CASE Checked(c)
  <2>1. /\ Same(c) /\ QuietFrom(c) /\ call[c].pc \in {"scan", "preflight"}
        /\ call'[c].pc = "fence2"
    BY <1>6 DEF Checked, Drops
  <2>2. call[c].pc = "preflight" /\ call[c].op = "delete_zone"
    BY <2>1 DEF Same, CallOK, Placed, Batch
  <2>3. /\ LastPage(c) /\ ~Blocked(c)
        /\ call[c].page = 1 => zone.rev = call[c].rev
    BY <1>6, <2>2 DEF Checked
  <2>4. call[c].page # 1 => zone.rev = call[c].rev
    <3>1. call[c].page \in Nat /\ call[c].page >= 1
      BY CallType DEF CallOK, Paging, CallRecord
    <3> QED BY <2>1, <2>2, <3>1 DEF QuietFrom, Preflighted
  <2>5. recs = << >>
    <3>1. Inventory(c) = {}
      BY <2>3 DEF Blocked
    <3>2. \A i \in DOMAIN recs : FALSE
      BY <2>1, <2>2, <2>3, <3>1, LastSeesAll DEF CallOK, ReadPCs
    <3>3. recs \in Seq(Record)
      BY DEF TypeOK
    <3> QED BY <3>2, <3>3
  <2>6. ~zone.dnssec
    BY <2>3 DEF Blocked
  <2> QED BY <2>1, <2>3, <2>4, <2>5, <2>6 DEF Same
<1>7. CASE Dispatches(c)
  <2>1. Same(c) /\ call'[c].pc = "sent"
    BY <1>7 DEF Dispatches, Sends
  <2>2. call[c].pc = "fence2" /\ quiet' = quiet
    BY <1>7, <2>1 DEF Dispatches, Same, CallOK, Placed, Batch
  <2> QED BY <2>1, <2>2 DEF Preflighted, Same
<1> QED BY <1>2, <1>3, <1>4, <1>5, <1>6, <1>7 DEF Shaped

\* What a step of the call makes of its own confirmation.
LEMMA ConfirmedStep ==
  ASSUME TypeOK, NEW c \in Calls, CallOK(c), Shaped(c), Confirmed(c)'
  PROVE  /\ call'[c].key = call[c].key
         /\ \/ Confirmed(c)
            \/ /\ call[c].pc = "observe" /\ call[c].op = "put"
               /\ QuietFrom(c) /\ c \in quiet'
               /\ LastPage(c) /\ Aggregates(RRset(c)) /\ Values(RRset(c)) = call[c].desired
<1>0. Truthful(c) /\ (call[c].pc # "done" => call[c].result = "none")
  BY DEF CallOK, Truthful
<1>1. CASE Begins(c)
  BY <1>0, <1>1 DEF Begins, Confirmed
<1>2. CASE Returns(c)
  BY <1>2 DEF Returns, Ends, Same, Confirmed
<1>3. CASE Advances(c) \/ ReadsOn(c) \/ Checked(c)
  <2>1. call'[c].pc # "verify" /\ call[c].pc # "done" /\ call'[c].result = call[c].result
    BY <1>3 DEF Advances, Moves, ReadsOn, Turns, Checked, Drops, ReadPCs
  <2> QED BY <1>0, <2>1 DEF Confirmed
<1>4. CASE Dispatches(c)
  <2>1. call'[c].pc = "sent" /\ call[c].pc # "done" /\ call'[c].result = call[c].result
    BY <1>4 DEF Dispatches, Sends
  <2> QED BY <1>0, <2>1 DEF Confirmed
<1>5. CASE Answered(c)
  <2>1. /\ call[c].pc # "done" /\ call'[c].result = call[c].result
        /\ call'[c].out = "ok" => call'[c].op # "put"
    BY <1>5 DEF Answered, Drops, Same
  <2> QED BY <1>0, <2>1 DEF Confirmed
<1>6. CASE Observed(c)
  <2>1. /\ call[c].pc = "observe" /\ call'[c].result = call[c].result /\ Same(c)
        /\ QuietFrom(c) /\ call'[c].clean = (c \in quiet')
        /\ call'[c].out = "ok" => /\ LastPage(c) /\ Aggregates(RRset(c))
                                  /\ Values(RRset(c)) = call[c].desired
    BY <1>6 DEF Observed, Drops
  <2>2. call'[c].op = "put" /\ call'[c].clean /\ call'[c].out = "ok"
    BY <1>0, <2>1 DEF Confirmed
  <2> QED BY <2>1, <2>2 DEF Same
<1> QED BY <1>1, <1>2, <1>3, <1>4, <1>5, <1>6 DEF Shaped

LEMMA ConfirmedExecuted ==
  ASSUME NEW c \in Calls, CallOK(c), Confirmed(c)
  PROVE  Executed(c) /\ call[c].op = "put" /\ call[c].desired \in Puts
  BY DEF CallOK, Truthful, Planned, Confirmed, Executed, Batch

\* A post-observation that shows every record of the RRset and exactly the desired
\* values leaves no room for the records of another put.
LEMMA NoRival ==
  ASSUME TypeOK, Owned, NEW c \in Calls, CallOK(c), SeenAll(c),
         call[c].pc = "observe", call[c].op = "put",
         QuietFrom(c), c \in quiet', LastPage(c),
         Aggregates(RRset(c)), Values(RRset(c)) = call[c].desired,
         NEW d \in Calls, d # c, call[d].key = call[c].key,
         Executed(d), call[d].op = "put", call[d].desired \in Puts
  PROVE  call[c].key \in removed
<1> SUFFICES ASSUME call[c].key \notin removed PROVE FALSE
  OBVIOUS
<1>0. PICK k \in Keys : k = call[c].key
  BY CallType DEF CallRecord
<1>1. PICK own \in [Calls -> SUBSET Nat] : OwnedBy(own)
  BY DEF Owned
<1>2. Executed(c) /\ call[c].desired \in Puts
  BY DEF CallOK, Truthful, Planned, Executed, Batch
<1> DEFINE A == own[c]
           B == own[d]
           S == RRset(c)
<1>3. /\ IsFiniteSet(A) /\ Cardinality(A) = Cardinality(call[c].desired)
      /\ IsFiniteSet(B) /\ Cardinality(B) = Cardinality(call[d].desired)
      /\ A \subseteq PresentIn(k) /\ B \subseteq PresentIn(k)
      /\ A \cap B = {}
  BY <1>0, <1>1, <1>2 DEF OwnedBy
<1>4. IsFiniteSet(S) /\ IsFiniteSet(call[d].desired) /\ call[d].desired # {}
  BY InventoryType, ConfigAssumption DEF CallOK, Paging
<1>5. PresentIn(k) \subseteq Ids(S)
  <2>1. ASSUME NEW i \in DOMAIN recs, recs[i].key = k PROVE recs[i] \in S
    <3>1. recs[i] \in Inventory(c)
      BY LastSeesAll DEF CallOK, ReadPCs
    <3> QED BY <1>0, <2>1, <3>1 DEF RRset
  <2> QED BY <2>1 DEF PresentIn, Ids
<1>6. IsFiniteSet(Ids(S)) /\ Cardinality(Ids(S)) <= Cardinality(S)
  <2> DEFINE g == [r \in S |-> r.id]
  <2>1. Ids(S) = {g[r] : r \in S}
    BY DEF Ids
  <2> HIDE DEF g
  <2> QED BY <1>4, <2>1, ImageBound
<1>7. Cardinality(S) = Cardinality(A)
  BY <1>3 DEF Aggregates
<1> HIDE DEF A, B, S
<1>8. A \cup B \subseteq Ids(S)
  BY <1>3, <1>5
<1>9. Cardinality(A \cup B) <= Cardinality(Ids(S))
  BY <1>6, <1>8, FS_Subset
<1>10. Cardinality({}) = 0
  BY FS_EmptySet
<1>11. Cardinality(A \cup B) = Cardinality(A) + Cardinality(B)
  <2>1. Cardinality(A \cup B) = Cardinality(A) + Cardinality(B) - Cardinality(A \cap B)
    BY <1>3, FS_Union
  <2>2. Cardinality(A) \in Nat /\ Cardinality(B) \in Nat
    BY <1>3, FS_CardinalityType
  <2>3. Cardinality(A \cap B) = 0
    <3>1. A \cap B = {}
      BY <1>3
    <3> QED BY <1>10, <3>1
  <2> QED BY <2>1, <2>2, <2>3
<1>12. Cardinality(B) > 0
  <2>1. Cardinality(call[d].desired) \in Nat /\ Cardinality(call[d].desired) # 0
    BY <1>4, FS_CardinalityType, FS_EmptySet
  <2> QED BY <1>3, <2>1
<1>13. Cardinality(A) \in Nat /\ Cardinality(B) \in Nat /\ Cardinality(Ids(S)) \in Nat
  BY <1>3, <1>6, FS_CardinalityType
<1> QED BY <1>6, <1>7, <1>9, <1>11, <1>12, <1>13

LEMMA OneConfirmedKept ==
  ASSUME TypeOK, \A d \in Calls : CallOK(d), Owned, \A d \in Calls : SeenAll(d),
         OneConfirmed, NEW c \in Calls, Shaped(c)
  PROVE  OneConfirmed'
<1>0. Only(c) /\ removed' = removed /\ CallOK(c)
  BY ShapeFrame
<1>1. ASSUME NEW d \in Calls \ {c} PROVE call'[d] = call[d] /\ (Confirmed(d)' => Confirmed(d))
  BY <1>0 DEF Only, Confirmed
<1>2. ASSUME NEW d \in Calls \ {c}, Confirmed(c)', Confirmed(d)', call'[c].key = call'[d].key
      PROVE  call'[c].key \in removed
  <2>1. call'[c].key = call[c].key /\ call[d].key = call[c].key /\ Confirmed(d)
    BY <1>0, <1>1, <1>2, ConfirmedStep
  <2>2. Executed(d) /\ call[d].op = "put" /\ call[d].desired \in Puts
    BY <2>1, ConfirmedExecuted
  <2>3. CASE Confirmed(c)
    BY <2>1, <2>3 DEF OneConfirmed
  <2>4. CASE ~Confirmed(c)
    <3>1. /\ call[c].pc = "observe" /\ call[c].op = "put"
          /\ QuietFrom(c) /\ c \in quiet'
          /\ LastPage(c) /\ Aggregates(RRset(c)) /\ Values(RRset(c)) = call[c].desired
      BY <1>0, <1>2, <2>4, ConfirmedStep
    <3> QED BY <1>0, <2>1, <2>2, <3>1, NoRival
  <2> QED BY <2>3, <2>4
<1>3. ASSUME NEW d \in Calls, NEW e \in Calls, d # e, Confirmed(d)', Confirmed(e)',
             call'[d].key = call'[e].key
      PROVE  call'[d].key \in removed'
  <2>1. CASE d = c \/ e = c
    BY <1>0, <1>2, <1>3, <2>1
  <2>2. CASE d # c /\ e # c
    BY <1>0, <1>1, <1>3, <2>2 DEF OneConfirmed
  <2> QED BY <2>1, <2>2
<1> QED BY <1>3 DEF OneConfirmed

-----------------------------------------------------------------------------
(***************************************************************************)
(* What becomes of the listing                                             *)
(***************************************************************************)

LEMMA RecsType ==
  ASSUME TypeOK, NEW i \in DOMAIN recs
  PROVE  recs[i] \in Record /\ recs[i].key \in Keys /\ recs[i].id \in Nat
<1>1. recs[i] \in Record
  BY DEF TypeOK
<1> QED BY <1>1 DEF Record

\* The ranks of the kept records number them.
LEMMA RankBijection ==
  ASSUME TypeOK, NEW ids
  PROVE  /\ IsFiniteSet(Kept(ids)) /\ Cardinality(Kept(ids)) \in Nat
         /\ \A i \in Kept(ids) : Rank(ids, i) \in 1..Cardinality(Kept(ids))
         /\ \A i, j \in Kept(ids) : Rank(ids, i) = Rank(ids, j) => i = j
         /\ \A m \in 1..Cardinality(Kept(ids)) : \E i \in Kept(ids) : Rank(ids, i) = m
<1> DEFINE K == Kept(ids)
           n == Cardinality(K)
           Low(i) == {k \in K : k <= i}
           r == [i \in K |-> Rank(ids, i)]
<1>1. K \subseteq 1..Len(recs) /\ Len(recs) \in Nat
  BY DEF Kept, TypeOK
<1>2. IsFiniteSet(1..Len(recs))
  BY <1>1, FS_Interval
<1>3. IsFiniteSet(K) /\ n \in Nat
  BY <1>1, <1>2, FS_Subset, FS_CardinalityType
<1>4. \A i \in K : Rank(ids, i) = Cardinality(Low(i))
  BY DEF Rank
<1> HIDE DEF K
<1>5. ASSUME NEW i \in K PROVE Cardinality(Low(i)) \in 1..n /\ IsFiniteSet(Low(i))
  <2>1. Low(i) \subseteq K /\ i \in Low(i)
    BY <1>1
  <2> HIDE DEF Low
  <2>2. IsFiniteSet(Low(i)) /\ Cardinality(Low(i)) <= n
    BY <1>3, <2>1, FS_Subset
  <2>3. Cardinality(Low(i)) \in Nat /\ Cardinality(Low(i)) # 0
    BY <2>1, <2>2, FS_CardinalityType, FS_EmptySet
  <2> QED BY <1>3, <2>2, <2>3
<1>6. ASSUME NEW i \in K, NEW j \in K, i < j
      PROVE  Cardinality(Low(i)) # Cardinality(Low(j))
  <2>0. K \subseteq Nat
    BY <1>1
  <2>1. Low(i) \subseteq Low(j)
    <3>1. \A k \in K : k <= i => k <= j
      BY <1>6, <2>0
    <3> QED BY <3>1
  <2>2. j \in Low(j) /\ j \notin Low(i)
    BY <1>6, <2>0
  <2> HIDE DEF Low
  <2> QED BY <1>5, <2>1, <2>2, FS_Subset
<1>7. \A i, j \in K : Rank(ids, i) = Rank(ids, j) => i = j
  <2>1. \A i, j \in K : i = j \/ i < j \/ j < i
    BY <1>1
  <2> HIDE DEF Low
  <2> QED BY <1>4, <1>6, <2>1
<1>8. r \in Injection(K, 1..n)
  <2> HIDE DEF Low, n
  <2> QED BY <1>4, <1>5, <1>7 DEF Injection, IsInjective
<1>9. IsFiniteSet(1..n) /\ Cardinality(1..n) = n
  BY <1>3, FS_Interval
<1>10. r \in Surjection(K, 1..n)
  <2> HIDE DEF r
  <2> QED BY <1>8, <1>9, FS_Injection
<1>11. \A m \in 1..n : \E i \in K : Rank(ids, i) = m
  BY <1>10 DEF Surjection
<1> QED BY <1>3, <1>4, <1>5, <1>7, <1>11 DEF K

\* The listing without some ids holds exactly the other records.
LEMMA WithoutIs ==
  ASSUME TypeOK, NEW ids
  PROVE  /\ Without(ids) \in Seq(Record)
         /\ \A j \in DOMAIN Without(ids) : \E i \in Kept(ids) : Without(ids)[j] = recs[i]
         /\ \A i \in Kept(ids) : \E j \in DOMAIN Without(ids) : Without(ids)[j] = recs[i]
<1> DEFINE K == Kept(ids)
           n == Cardinality(K)
           At(j) == CHOOSE i \in K : Rank(ids, i) = j
           s == [j \in 1..n |-> recs[At(j)]]
<1>1. /\ n \in Nat
      /\ \A i \in K : Rank(ids, i) \in 1..n
      /\ \A i, j \in K : Rank(ids, i) = Rank(ids, j) => i = j
      /\ \A m \in 1..n : \E i \in K : Rank(ids, i) = m
  BY RankBijection
<1>2. Without(ids) = s
  BY DEF Without
<1>3. \A i \in K : recs[i] \in Record
  BY DEF Kept, TypeOK
<1> HIDE DEF K, n
<1>4. \A j \in 1..n : At(j) \in K /\ Rank(ids, At(j)) = j
  BY <1>1
<1> HIDE DEF At
<1>5. s \in Seq(Record) /\ DOMAIN s = 1..n
  BY <1>1, <1>3, <1>4
<1>6. \A j \in DOMAIN s : \E i \in K : s[j] = recs[i]
  BY <1>4
<1>7. ASSUME NEW i \in K PROVE \E j \in DOMAIN s : s[j] = recs[i]
  <2>1. At(Rank(ids, i)) = i /\ Rank(ids, i) \in 1..n
    BY <1>1, <1>4
  <2>2. s[Rank(ids, i)] = recs[i]
    BY <2>1
  <2> QED BY <2>1, <2>2
<1> QED BY <1>2, <1>5, <1>6, <1>7 DEF K

\* The records with the ids `gone` are removed and n records of the RRset k get
\* fresh ids; the others keep their id and their key.
Relists(gone, n, k) ==
    /\ n \in Nat /\ nextId' = nextId + n
    /\ recs' \in Seq(Record)
    /\ \A i \in DOMAIN recs' :
          \/ \E j \in DOMAIN recs : /\ recs[j].id \notin gone
                                    /\ recs'[i].id = recs[j].id /\ recs'[i].key = recs[j].key
          \/ recs'[i].id \in nextId..(nextId + n - 1) /\ recs'[i].key = k
    /\ \A j \in DOMAIN recs : recs[j].id \notin gone =>
          \E i \in DOMAIN recs' : recs'[i].id = recs[j].id /\ recs'[i].key = recs[j].key
    /\ \A j \in DOMAIN recs : recs[j].id \in gone => recs[j].key \in removed'
    /\ removed \subseteq removed' /\ removed' \subseteq Keys

LEMMA SameRelists ==
  ASSUME TypeOK, UNCHANGED << recs, nextId, removed >>, NEW k
  PROVE  Relists({}, 0, k)
  BY DEF TypeOK, Relists

LEMMA EditRelists ==
  ASSUME TypeOK, Spent, EditRecord \/ EditZone
  PROVE  \E gone, n, k : Relists(gone, n, k)
<1>0. recs \in Seq(Record) /\ nextId \in Nat /\ removed \subseteq Keys
  BY DEF TypeOK
<1>1. ASSUME NEW k \in Keys, NEW d \in Data,
             recs' = Append(recs, [id |-> nextId, key |-> k, data |-> d]),
             nextId' = nextId + 1, removed' = removed
      PROVE  Relists({}, 1, k)
  <2> DEFINE new == [id |-> nextId, key |-> k, data |-> d]
  <2>1. new \in Record /\ new.id = nextId /\ new.key = k
    BY <1>0 DEF Record
  <2>2. recs' = Append(recs, new)
    BY <1>1
  <2> HIDE DEF new
  <2>3. recs' \in Seq(Record) /\ Len(recs') = Len(recs) + 1
    BY <1>0, <2>1, <2>2
  <2>4. \A i \in DOMAIN recs : i \in DOMAIN recs' /\ recs'[i] = recs[i]
    BY <1>0, <2>1, <2>2
  <2>5. \A i \in DOMAIN recs' : i \in DOMAIN recs \/ recs'[i] = new
    BY <1>0, <2>1, <2>2
  <2>6. nextId \in nextId..(nextId + 1 - 1)
    BY <1>0
  <2> QED BY <1>0, <1>1, <2>1, <2>3, <2>4, <2>5, <2>6 DEF Relists
<1>2. ASSUME NEW i \in DOMAIN recs, NEW d \in Data, recs' = [recs EXCEPT ![i].data = d],
             nextId' = nextId, removed' = removed
      PROVE  Relists({}, 0, 0)
  <2>1. recs[i] \in Record
    BY <1>0
  <2> DEFINE new == [recs[i] EXCEPT !.data = d]
  <2>2. new \in Record /\ new.id = recs[i].id /\ new.key = recs[i].key
    BY <2>1 DEF Record
  <2>3. recs' = [recs EXCEPT ![i] = new]
    BY <1>0, <1>2
  <2> HIDE DEF new
  <2>4. recs' \in Seq(Record) /\ DOMAIN recs' = DOMAIN recs
    BY <1>0, <2>2, <2>3
  <2>5. \A j \in DOMAIN recs : recs'[j].id = recs[j].id /\ recs'[j].key = recs[j].key
    BY <1>0, <2>2, <2>3
  <2> QED BY <1>0, <1>2, <2>4, <2>5 DEF Relists
<1>3. ASSUME NEW i \in DOMAIN recs, recs' = Without({recs[i].id}),
             removed' = removed \cup {recs[i].key}, nextId' = nextId
      PROVE  Relists({recs[i].id}, 0, 0)
  <2> DEFINE gone == {recs[i].id}
  <2>0. recs' = Without(gone) /\ recs[i] \in Record
    BY <1>0, <1>3
  <2>2. \A l \in DOMAIN recs : l \in Kept(gone) <=> recs[l].id \notin gone
    BY DEF Kept
  <2>3. Kept(gone) \subseteq DOMAIN recs
    BY DEF Kept
  <2>4. \A l \in DOMAIN recs : recs[l].id \in gone => recs[l].key \in removed'
    BY <1>3 DEF Spent
  <2>5. removed \subseteq removed' /\ removed' \subseteq Keys
    BY <1>0, <1>3, <2>0 DEF Record
  <2> HIDE DEF gone
  <2>6. /\ Without(gone) \in Seq(Record)
        /\ \A j \in DOMAIN Without(gone) : \E l \in Kept(gone) : Without(gone)[j] = recs[l]
        /\ \A l \in Kept(gone) : \E j \in DOMAIN Without(gone) : Without(gone)[j] = recs[l]
    BY WithoutIs
  <2>7. /\ recs' \in Seq(Record)
        /\ \A j \in DOMAIN recs' : \E l \in Kept(gone) : recs'[j] = recs[l]
        /\ \A l \in Kept(gone) : \E j \in DOMAIN recs' : recs'[j] = recs[l]
    BY <2>0, <2>6
  <2>8. nextId' = nextId + 0
    BY <1>0, <1>3
  <2>9. Relists(gone, 0, 0)
    BY <2>2, <2>3, <2>4, <2>5, <2>7, <2>8 DEF Relists
  <2> QED BY <2>9 DEF gone
<1>4. CASE EditRecord
  BY <1>1, <1>2, <1>3, <1>4 DEF EditRecord
<1>5. CASE EditZone
  BY <1>5, SameRelists DEF EditZone
<1> QED BY <1>4, <1>5

\* A batch that is applied.
LEMMA BatchRelists ==
  ASSUME TypeOK, Spent, NEW c \in Calls, NEW ids, IsFiniteSet(plan[c].posts),
         NEW new \in Posted(c),
         recs' = Without(ids) \o new, nextId' = nextId + Cardinality(plan[c].posts),
         removed' = removed \cup {recs[i].key : i \in {j \in DOMAIN recs : recs[j].id \in ids}}
  PROVE  /\ Relists(ids, Cardinality(plan[c].posts), call[c].key)
         /\ \A m \in nextId..(nextId + Cardinality(plan[c].posts) - 1) :
               \E i \in DOMAIN recs' : recs'[i].id = m /\ recs'[i].key = call[c].key
         /\ \A j \in Kept(ids) : \E i \in DOMAIN recs' : recs'[i] = recs[j]
<1> DEFINE n == Cardinality(plan[c].posts)
           old == Without(ids)
<1>0. recs \in Seq(Record) /\ nextId \in Nat /\ removed \subseteq Keys /\ n \in Nat
  BY FS_CardinalityType DEF TypeOK
<1>1. plan[c].posts \subseteq Data /\ call[c].key \in Keys
  BY CallType DEF TypeOK, Plan, CallRecord
<1>2. PICK f \in [1..n -> plan[c].posts] :
         new = [i \in 1..n |-> [id |-> nextId + i - 1, key |-> call[c].key, data |-> f[i]]]
  BY DEF Posted
<1> HIDE DEF n
<1>3. /\ new \in Seq(Record) /\ DOMAIN new = 1..n
      /\ \A i \in 1..n : new[i].id = nextId + i - 1 /\ new[i].key = call[c].key
  <2>1. \A i \in 1..n : [id |-> nextId + i - 1, key |-> call[c].key, data |-> f[i]] \in Record
    BY <1>0, <1>1, <1>2 DEF Record
  <2>2. new \in [1..n -> Record]
    BY <1>2, <2>1
  <2>3. new \in Seq(Record)
    BY <1>0, <2>2
  <2> QED BY <1>2, <2>2, <2>3
<1>4. /\ old \in Seq(Record)
      /\ \A j \in DOMAIN old : \E i \in Kept(ids) : old[j] = recs[i]
      /\ \A i \in Kept(ids) : \E j \in DOMAIN old : old[j] = recs[i]
  BY WithoutIs
<1>5. recs' = old \o new
  OBVIOUS
<1> HIDE DEF old
<1>6. /\ recs' \in Seq(Record) /\ Len(recs') = Len(old) + Len(new)
      /\ \A j \in DOMAIN old : j \in DOMAIN recs' /\ recs'[j] = old[j]
      /\ \A j \in DOMAIN new : Len(old) + j \in DOMAIN recs' /\ recs'[Len(old) + j] = new[j]
  <2>1. old \in Seq(Record) /\ new \in Seq(Record)
    BY <1>3, <1>4
  <2>2. recs' \in Seq(Record) /\ Len(recs') = Len(old) + Len(new)
    BY <1>5, <2>1
  <2>3. \A j \in DOMAIN old : j \in DOMAIN recs' /\ recs'[j] = old[j]
    BY <1>5, <2>1
  <2>4. \A j \in DOMAIN new : Len(old) + j \in DOMAIN recs' /\ recs'[Len(old) + j] = new[j]
    BY <1>5, <2>1
  <2> QED BY <2>2, <2>3, <2>4
<1>7. ASSUME NEW i \in DOMAIN recs' 
      PROVE  i \in DOMAIN old \/ \E j \in DOMAIN new : i = Len(old) + j
  <2>1. i \in Nat /\ i >= 1 /\ i <= Len(old) + Len(new) /\ Len(old) \in Nat /\ Len(new) \in Nat
    BY <1>3, <1>4, <1>6
  <2>2. CASE i <= Len(old)
    BY <1>4, <2>1, <2>2
  <2>3. CASE i > Len(old)
    <3>1. DOMAIN new = 1..Len(new)
      BY <1>3
    <3>2. i - Len(old) \in 1..Len(new) /\ i = Len(old) + (i - Len(old))
      BY <2>1, <2>3
    <3> QED BY <3>1, <3>2
  <2> QED BY <2>1, <2>2, <2>3
<1>8. \A l \in DOMAIN recs : l \in Kept(ids) <=> recs[l].id \notin ids
  BY DEF Kept
<1>9. Kept(ids) \subseteq DOMAIN recs
  BY DEF Kept
<1>10. \A j \in Kept(ids) : \E i \in DOMAIN recs' : recs'[i] = recs[j]
  <2> SUFFICES ASSUME NEW j \in Kept(ids)
               PROVE  \E i \in DOMAIN recs' : recs'[i] = recs[j]
    OBVIOUS
  <2>1. \E k \in DOMAIN old : old[k] = recs[j]
    BY <1>4, Zenon
  <2>2. PICK k \in DOMAIN old : old[k] = recs[j]
    BY <2>1, Zenon
  <2>3. k \in DOMAIN recs' /\ recs'[k] = old[k]
    BY <1>6, Zenon
  <2> QED BY <2>2, <2>3, Zenon
<1>11. \A m \in nextId..(nextId + n - 1) :
               \E i \in DOMAIN recs' : recs'[i].id = m /\ recs'[i].key = call[c].key
  <2> SUFFICES ASSUME NEW m \in nextId..(nextId + n - 1)
               PROVE  \E i \in DOMAIN recs' : recs'[i].id = m /\ recs'[i].key = call[c].key
    OBVIOUS
  <2>1. m - nextId + 1 \in 1..n /\ nextId + (m - nextId + 1) - 1 = m
    BY <1>0
  <2>2. PICK j \in 1..n : nextId + j - 1 = m
    BY <2>1
  <2>3. Len(old) + j \in DOMAIN recs' /\ recs'[Len(old) + j] = new[j]
    BY <1>3, <1>6
  <2>4. recs'[Len(old) + j].id = m /\ recs'[Len(old) + j].key = call[c].key
    BY <1>3, <2>2, <2>3
  <2> QED BY <2>3, <2>4
<1>12. \A i \in DOMAIN recs' :
          \/ \E j \in DOMAIN recs : /\ recs[j].id \notin ids
                                    /\ recs'[i].id = recs[j].id /\ recs'[i].key = recs[j].key
          \/ recs'[i].id \in nextId..(nextId + n - 1) /\ recs'[i].key = call[c].key
  <2> SUFFICES ASSUME NEW i \in DOMAIN recs'
               PROVE  \/ \E j \in DOMAIN recs : /\ recs[j].id \notin ids
                                                /\ recs'[i].id = recs[j].id
                                                /\ recs'[i].key = recs[j].key
                      \/ recs'[i].id \in nextId..(nextId + n - 1) /\ recs'[i].key = call[c].key
    OBVIOUS
  <2>1. CASE i \in DOMAIN old
    BY <1>4, <1>6, <1>8, <1>9, <2>1
  <2>2. ASSUME NEW j \in DOMAIN new, i = Len(old) + j
        PROVE  recs'[i].id \in nextId..(nextId + n - 1) /\ recs'[i].key = call[c].key
    <3>1. recs'[i] = new[j] /\ j \in 1..n
      BY <1>3, <1>6, <2>2
    <3>2. nextId + j - 1 \in nextId..(nextId + n - 1)
      BY <1>0, <3>1
    <3> QED BY <1>3, <3>1, <3>2
  <2> QED BY <1>7, <2>1, <2>2
<1>13. /\ \A l \in DOMAIN recs : recs[l].id \in ids => recs[l].key \in removed'
       /\ removed \subseteq removed' /\ removed' \subseteq Keys
  <2>1. \A l \in DOMAIN recs : recs[l].key \in Keys
    BY RecsType
  <2>2. \A l \in DOMAIN recs : recs[l].id \in ids => recs[l].key \in removed'
    OBVIOUS
  <2> QED BY <1>0, <2>1, <2>2
<1>14. \A j \in DOMAIN recs : recs[j].id \notin ids =>
          \E i \in DOMAIN recs' : recs'[i].id = recs[j].id /\ recs'[i].key = recs[j].key
  BY <1>8, <1>10
<1>15. Relists(ids, n, call[c].key)
  BY <1>0, <1>6, <1>12, <1>13, <1>14 DEF Relists, n
<1> QED BY <1>10, <1>11, <1>15 DEF n

\* A zone that is deleted with all that is in it.
LEMMA ZoneGone ==
  ASSUME TypeOK, recs' = << >>, nextId' = nextId,
         removed' = removed \cup {recs[i].key : i \in DOMAIN recs}, NEW k
  PROVE  Relists(Present, 0, k)
<1>1. recs \in Seq(Record) /\ nextId \in Nat /\ removed \subseteq Keys
  BY DEF TypeOK
<1>2. \A l \in DOMAIN recs : recs[l].key \in Keys /\ recs[l].id \in Present
  BY RecsType DEF Present
<1>3. recs' \in Seq(Record) /\ DOMAIN recs' = {} /\ nextId' = nextId + 0
  BY <1>1
<1>4. removed \subseteq removed' /\ removed' \subseteq Keys
  BY <1>1, <1>2
<1>5. \A l \in DOMAIN recs : recs[l].key \in removed'
  OBVIOUS
<1> QED BY <1>2, <1>3, <1>4, <1>5 DEF Relists

\* An id of the new listing is an old one that stays or a fresh one.
LEMMA PresentNext ==
  ASSUME TypeOK, NEW gone, NEW n, NEW k, Relists(gone, n, k), NEW m \in Present'
  PROVE  m \in Present \ gone \/ m \in nextId..(nextId + n - 1)
<1>1. PICK i \in DOMAIN recs' : m = recs'[i].id
  BY DEF Present
<1>2. CASE \E j \in DOMAIN recs : recs[j].id \notin gone /\ recs'[i].id = recs[j].id
  BY <1>1, <1>2 DEF Present
<1>3. CASE recs'[i].id \in nextId..(nextId + n - 1)
  BY <1>1, <1>3
<1> QED BY <1>2, <1>3 DEF Relists

LEMMA RelistSpent ==
  ASSUME TypeOK, Spent, \A d \in Calls : CallOK(d), call' = call,
         NEW gone, NEW n, NEW k, Relists(gone, n, k), NEW c,
         \A d \in Calls : Executed(d)' =>
             \/ Executed(d)
             \/ d = c /\ Ids(call[c].guard) \subseteq Present /\ Ids(call[c].guard) \subseteq gone
  PROVE  Spent'
<1>0. nextId \in Nat /\ n \in Nat /\ nextId' = nextId + n
  BY DEF TypeOK, Relists
<1>1. \A m \in Present : m \in Nat /\ m < nextId
  BY RecsType DEF Spent, Present
<1>2. \A m \in Present' : m < nextId'
  <2>1. \A m \in nextId..(nextId + n - 1) : m < nextId'
    BY <1>0
  <2>2. \A m \in Present : m < nextId'
    BY <1>0, <1>1
  <2> QED BY <2>1, <2>2, PresentNext
<1>3. ASSUME NEW i \in DOMAIN recs', NEW j \in DOMAIN recs', recs'[i].id = recs'[j].id
      PROVE  recs'[i].key = recs'[j].key
  <2>1. \A l \in DOMAIN recs : recs[l].id \notin nextId..(nextId + n - 1)
    BY <1>0, <1>1 DEF Present
  <2>2. CASE recs'[i].id \in nextId..(nextId + n - 1)
    <3>1. recs'[i].key = k
      BY <2>1, <2>2 DEF Relists
    <3>2. recs'[j].key = k
      BY <1>3, <2>1, <2>2 DEF Relists
    <3> QED BY <3>1, <3>2
  <2>3. CASE recs'[i].id \notin nextId..(nextId + n - 1)
    <3>1. PICK a \in DOMAIN recs : recs'[i].id = recs[a].id /\ recs'[i].key = recs[a].key
      BY <2>3 DEF Relists
    <3>2. PICK b \in DOMAIN recs : recs'[j].id = recs[b].id /\ recs'[j].key = recs[b].key
      BY <1>3, <2>3 DEF Relists
    <3> QED BY <1>3, <3>1, <3>2 DEF Spent
  <2> QED BY <2>2, <2>3
<1>4. ASSUME NEW d \in Calls, NEW m \in Ids(call[d].guard)
      PROVE  m \notin nextId..(nextId + n - 1)
  <2>1. m \in Nat /\ m < nextId
    <3>1. call[d].guard \subseteq Record
      BY CallType DEF CallRecord
    <3> QED BY <3>1 DEF CallOK, Planned, Ids, Record
  <2> QED BY <1>0, <2>1
<1>5. ASSUME NEW d \in Calls, Executed(d)' PROVE Ids(call[d].guard) \cap Present' = {}
  <2>1. CASE Executed(d)
    BY <1>4, <2>1, PresentNext DEF Spent
  <2>2. CASE d = c /\ Ids(call[c].guard) \subseteq gone
    BY <1>4, <2>2, PresentNext
  <2> QED BY <1>5, <2>1, <2>2
<1>6. ASSUME NEW d \in Calls, NEW e \in Calls, d # e, Executed(d)', Executed(e)'
      PROVE  Ids(call[d].guard) \cap Ids(call[e].guard) = {}
  <2>1. CASE Executed(d) /\ Executed(e)
    BY <1>6, <2>1 DEF Spent
  <2>2. ASSUME NEW f \in Calls, Executed(f), Ids(call[c].guard) \subseteq Present
        PROVE  Ids(call[f].guard) \cap Ids(call[c].guard) = {}
    BY <2>2 DEF Spent
  <2>3. CASE Executed(d) /\ ~Executed(e)
    BY <1>6, <2>2, <2>3
  <2>4. CASE ~Executed(d) /\ Executed(e)
    BY <1>6, <2>2, <2>4
  <2>5. CASE ~Executed(d) /\ ~Executed(e)
    BY <1>6, <2>5
  <2> QED BY <2>1, <2>3, <2>4, <2>5
<1> QED BY <1>2, <1>3, <1>5, <1>6 DEF Spent

\* The ids of an RRset that no record is removed from stay.
LEMMA PresentInKept ==
  ASSUME TypeOK, NEW gone, NEW n, NEW k, Relists(gone, n, k), NEW key, key \notin removed'
  PROVE  PresentIn(key) \subseteq PresentIn(key)'
<1> SUFFICES ASSUME NEW j \in DOMAIN recs, recs[j].key = key
             PROVE  \E i \in DOMAIN recs' : recs'[i].id = recs[j].id /\ recs'[i].key = key
  BY DEF PresentIn
<1> QED BY DEF Relists

LEMMA RelistOwned ==
  ASSUME TypeOK, Owned, call' = call,
         NEW gone, NEW n, NEW k, Relists(gone, n, k), NEW c,
         \A d \in Calls : Executed(d)' /\ call[d].op = "put" =>
             \/ Executed(d)
             \/ /\ d = c /\ n = Cardinality(call[c].desired)
                /\ \A m \in nextId..(nextId + n - 1) :
                      \E i \in DOMAIN recs' : recs'[i].id = m /\ recs'[i].key = call[c].key
  PROVE  Owned'
<1>0. /\ nextId \in Nat /\ n \in Nat /\ nextId' = nextId + n
      /\ removed \subseteq removed'
  BY DEF TypeOK, Relists
<1>1. PICK own \in [Calls -> SUBSET Nat] : OwnedBy(own)
  BY DEF Owned
<1> DEFINE fresh == nextId..(nextId + n - 1)
           isNew(d) == ~Executed(d) /\ Executed(d)' /\ call[d].op = "put"
           new == [d \in Calls |-> IF isNew(d) THEN fresh ELSE own[d]]
<1>2. /\ fresh \subseteq Nat /\ IsFiniteSet(fresh) /\ Cardinality(fresh) = n
      /\ \A m \in fresh : m >= nextId /\ m < nextId'
  <2>1. nextId \in Int /\ nextId + n - 1 \in Int
    BY <1>0
  <2>2. /\ IsFiniteSet(fresh)
        /\ Cardinality(fresh) = IF nextId > nextId + n - 1 THEN 0
                                ELSE (nextId + n - 1) - nextId + 1
    BY <2>1, FS_Interval
  <2>3. Cardinality(fresh) = n
    BY <1>0, <2>2
  <2>4. \A m \in fresh : m \in Nat /\ m >= nextId /\ m < nextId'
    BY <1>0
  <2> QED BY <2>2, <2>3, <2>4
<1>3. \A d \in Calls : own[d] \subseteq Nat /\ \A m \in own[d] : m < nextId
  BY <1>1 DEF OwnedBy
<1>4. \A d \in Calls : own[d] \cap fresh = {} /\ \A m \in own[d] : m < nextId'
  BY <1>0, <1>2, <1>3
<1>5. \A d \in Calls : isNew(d) => d = c
  OBVIOUS
<1> HIDE DEF fresh
<1>6. new \in [Calls -> SUBSET Nat]
  BY <1>2
<1>7. \A d \in Calls : new[d] = IF isNew(d) THEN fresh ELSE own[d]
  OBVIOUS
<1>8. \A d \in Calls : \A m \in new[d] : m < nextId'
  BY <1>2, <1>4
<1>9. \A d, e \in Calls : d # e => new[d] \cap new[e] = {}
  <2> SUFFICES ASSUME NEW d \in Calls, NEW e \in Calls, d # e PROVE new[d] \cap new[e] = {}
    OBVIOUS
  <2>1. own[d] \cap own[e] = {}
    BY <1>1 DEF OwnedBy
  <2>2. ~(isNew(d) /\ isNew(e))
    BY <1>5
  <2> HIDE DEF new, isNew
  <2> QED BY <1>4, <1>7, <2>1, <2>2
<1>10. ASSUME NEW d \in Calls, Executed(d)', call[d].op = "put"
       PROVE  /\ IsFiniteSet(new[d]) /\ Cardinality(new[d]) = Cardinality(call[d].desired)
              /\ call[d].key \notin removed' => new[d] \subseteq PresentIn(call[d].key)'
  <2>1. CASE Executed(d)
    <3>1. new[d] = own[d]
      BY <2>1
    <3>2. /\ IsFiniteSet(own[d]) /\ Cardinality(own[d]) = Cardinality(call[d].desired)
          /\ call[d].key \notin removed => own[d] \subseteq PresentIn(call[d].key)
      BY <1>1, <1>10, <2>1 DEF OwnedBy
    <3>3. PICK key : key = call[d].key
      OBVIOUS
    <3>4. key \notin removed' => PresentIn(key) \subseteq PresentIn(key)'
      BY PresentInKept
    <3>5. call[d].key \notin removed' => own[d] \subseteq PresentIn(key)'
      BY <1>0, <3>2, <3>3, <3>4
    <3>6. PresentIn(call[d].key)' = PresentIn(key)'
      BY <3>3 DEF PresentIn
    <3> QED BY <3>1, <3>2, <3>5, <3>6
  <2>2. CASE ~Executed(d)
    <3>1. new[d] = fresh
      BY <1>10, <2>2
    <3>2. /\ d = c /\ n = Cardinality(call[c].desired)
          /\ \A m \in fresh :
                \E i \in DOMAIN recs' : recs'[i].id = m /\ recs'[i].key = call[c].key
      BY <1>10, <2>2 DEF fresh
    <3>3. fresh \subseteq PresentIn(call[d].key)'
      BY <3>2 DEF PresentIn
    <3> QED BY <1>2, <3>1, <3>2, <3>3
  <2> QED BY <2>1, <2>2
<1> HIDE DEF new
<1>11. PICK o \in [Calls -> SUBSET Nat] : o = new
  BY <1>6
<1>12. OwnedBy(o)'
  BY <1>8, <1>9, <1>10, <1>11 DEF OwnedBy
<1> QED BY <1>12 DEF Owned

LEMMA RelistConfirmed ==
  ASSUME OneConfirmed, call' = call, removed \subseteq removed'
  PROVE  OneConfirmed'
  BY DEF OneConfirmed, Confirmed

-----------------------------------------------------------------------------
(***************************************************************************)
(* The edits of others keep the invariant                                  *)
(***************************************************************************)

LEMMA EditKeeps ==
  ASSUME IInv, Edit
  PROVE  IInv'
<1>0. /\ TypeOK /\ Spent /\ Owned /\ OneConfirmed /\ \A d \in Calls : CallOK(d)
      /\ edits' = edits + 1 /\ edits < MaxEdits /\ quiet' = {}
      /\ UNCHANGED << account, token, wire, plan, call >>
      /\ EditRecord \/ EditZone
  BY DEF IInv, CallOK, Edit
<1>1. PICK gone, n, k : Relists(gone, n, k)
  BY <1>0, EditRelists
<1>2. /\ recs' \in Seq(Record) /\ n \in Nat /\ nextId' = nextId + n
      /\ removed \subseteq removed' /\ removed' \subseteq Keys
  BY <1>1 DEF Relists
<1>3. \A d \in Calls : Executed(d)' <=> Executed(d)
  BY <1>0 DEF Executed, Batch
<1>4. zone' \in [live: BOOLEAN, rev: Nat, dnssec: BOOLEAN]
  <2>1. zone \in [live: BOOLEAN, rev: Nat, dnssec: BOOLEAN]
    BY <1>0 DEF TypeOK
  <2>2. CASE zone' = zone
    BY <2>1, <2>2
  <2>3. CASE EditZone
    <3>1. zone.rev + 1 \in Nat
      BY <2>1
    <3> QED BY <2>1, <2>3, <3>1 DEF EditZone
  <2> QED BY <1>0, <2>2, <2>3 DEF EditRecord
<1>5. TypeOK'
  <2>1. edits' \in 0..MaxEdits
    BY <1>0, ConfigAssumption DEF TypeOK
  <2>2. nextId' \in Nat
    BY <1>0, <1>2 DEF TypeOK
  <2> QED BY <1>0, <1>2, <1>4, <2>1, <2>2 DEF TypeOK
<1>6. ASSUME NEW d \in Calls PROVE Placed(d)' /\ Truthful(d)' /\ Planned(d)' /\ Paging(d)'
  <2>1. \A m \in Ids(call[d].guard) : m < nextId'
    <3>1. call[d].guard \subseteq Record /\ nextId \in Nat
      BY <1>0, CallType DEF CallRecord, TypeOK
    <3>2. \A m \in Ids(call[d].guard) : m \in Nat /\ m < nextId
      BY <1>0, <3>1 DEF CallOK, Planned, Ids, Record
    <3> QED BY <1>2, <3>1, <3>2
  <2>2. Planned(d)'
    BY <1>0, <2>1 DEF CallOK, Planned, Batch
  <2> QED BY <1>0, <2>2 DEF CallOK, Placed, Truthful, Paging, Batch
<1>7. Spent'
  BY <1>0, <1>1, <1>3, RelistSpent
<1>8. Owned'
  BY <1>0, <1>1, <1>3, RelistOwned
<1>9. \A d \in Calls : SeenAll(d)' /\ Preflighted(d)'
  BY <1>0 DEF SeenAll, Preflighted
<1>10. OneConfirmed'
  BY <1>0, <1>2, RelistConfirmed
<1> QED BY <1>5, <1>6, <1>7, <1>8, <1>9, <1>10 DEF IInv

LEMMA AuthorityKeeps ==
  ASSUME IInv, EditAuthority
  PROVE  IInv'
<1>1. UNCHANGED << zone, recs, nextId, wire, quiet, removed, plan, call >>
  BY DEF EditAuthority, provider
<1>2. account' \in Row /\ token' \in Nat /\ edits' \in 0..MaxEdits
  <2>1. account \in Row /\ token \in Nat /\ edits \in 0..MaxEdits
    BY DEF IInv, TypeOK
  <2>2. edits' \in 0..MaxEdits
    BY <2>1, ConfigAssumption DEF EditAuthority
  <2>3. account.gen + 1 \in Nat /\ token + 1 \in Nat
    BY <2>1 DEF Row
  <2> QED BY <2>1, <2>2, <2>3 DEF EditAuthority, Row
<1>3. TypeOK'
  BY <1>1, <1>2 DEF IInv, TypeOK
<1>4. \A d \in Calls : Placed(d)' /\ Truthful(d)' /\ Planned(d)' /\ Paging(d)'
  BY <1>1 DEF IInv, Placed, Truthful, Planned, Paging, Batch
<1>5. Spent'
  BY <1>1 DEF IInv, Spent, Present, Executed, Batch
<1>6. Owned'
  BY <1>1 DEF IInv, Owned, OwnedBy, PresentIn, Executed, Batch
<1>7. \A d \in Calls : SeenAll(d)' /\ Preflighted(d)'
  BY <1>1 DEF IInv, SeenAll, Preflighted
<1>8. OneConfirmed'
  BY <1>1 DEF IInv, OneConfirmed, Confirmed
<1> QED BY <1>3, <1>4, <1>5, <1>6, <1>7, <1>8 DEF IInv

-----------------------------------------------------------------------------
(***************************************************************************)
(* Cloudflare's execution of a mutation keeps the invariant                *)
(***************************************************************************)

\* A call waits for its answer, or has given up, when its mutation is executed.
LEMMA Waiting ==
  ASSUME NEW c \in Calls, CallOK(c), wire[c] = "inflight"
  PROVE  /\ call[c].pc \notin ReadPCs /\ call[c].pc \notin Early
         /\ call[c].result \notin Definite /\ call[c].result # "ok"
         /\ call[c].dispatched
         /\ call[c].pc = "verify" => call[c].out \notin Definite /\ call[c].out # "ok"
  BY DEF CallOK, Truthful, Early, ReadPCs

LEMMA OutcomeKeeps ==
  ASSUME IInv, NEW c \in Calls, wire[c] = "inflight",
         NEW w \in Wires \ {"none", "inflight"}, wire' = [wire EXCEPT ![c] = w],
         UNCHANGED << account, token, edits, plan, call >>,
         zone' \in [live: BOOLEAN, rev: Nat, dnssec: BOOLEAN],
         quiet' \subseteq quiet, quiet' \subseteq {c} \/ UNCHANGED << zone, recs >>,
         NEW gone, NEW n, NEW k, Relists(gone, n, k),
         Executed(c)' => /\ Ids(call[c].guard) \subseteq Present
                         /\ Ids(call[c].guard) \subseteq gone
                         /\ n = Cardinality(call[c].desired)
                         /\ \A m \in nextId..(nextId + n - 1) :
                               \E i \in DOMAIN recs' : /\ recs'[i].id = m
                                                       /\ recs'[i].key = call[c].key
  PROVE  IInv'
<1>0. /\ TypeOK /\ Spent /\ Owned /\ OneConfirmed /\ \A d \in Calls : CallOK(d)
      /\ \A d \in Calls : SeenAll(d) /\ Preflighted(d)
  BY DEF IInv, CallOK
<1>1. /\ recs' \in Seq(Record) /\ n \in Nat /\ nextId' = nextId + n
      /\ removed \subseteq removed' /\ removed' \subseteq Keys
  BY DEF Relists
<1>2. wire' \in [Calls -> Wires] /\ wire'[c] = w /\ \A d \in Calls \ {c} : wire'[d] = wire[d]
  BY <1>0 DEF TypeOK
<1>3. \A d \in Calls : Executed(d)' => Executed(d) \/ d = c
  BY <1>2 DEF Executed, Batch
<1>4. TypeOK'
  <2>1. nextId' \in Nat
    BY <1>0, <1>1 DEF TypeOK
  <2> QED BY <1>0, <1>1, <1>2, <2>1 DEF TypeOK
<1>5. ASSUME NEW d \in Calls PROVE Placed(d)' /\ Truthful(d)' /\ Planned(d)' /\ Paging(d)'
  <2>1. \A m \in Ids(call[d].guard) : m < nextId'
    <3>1. call[d].guard \subseteq Record /\ nextId \in Nat
      BY <1>0, CallType DEF CallRecord, TypeOK
    <3>2. \A m \in Ids(call[d].guard) : m \in Nat /\ m < nextId
      BY <1>0, <3>1 DEF CallOK, Planned, Ids, Record
    <3> QED BY <1>1, <3>1, <3>2
  <2>2. wire'[d] # "none" => wire[d] # "none"
    BY <1>2
  <2>3. Planned(d)'
    BY <1>0, <2>1, <2>2 DEF CallOK, Planned, Batch
  <2>4. Truthful(d)'
    <3>1. CASE d # c
      BY <1>0, <1>2, <3>1 DEF CallOK, Truthful
    <3>2. CASE d = c
      <4>1. Truthful(c)
        BY <1>0 DEF CallOK
      <4> QED BY <1>0, <3>2, <4>1, Waiting DEF Truthful, ReadPCs
    <3> QED BY <3>1, <3>2
  <2> QED BY <1>0, <2>3, <2>4 DEF CallOK, Placed, Paging, Batch
<1>6. Spent'
  BY <1>0, <1>3, RelistSpent
<1>7. Owned'
  BY <1>0, <1>3, RelistOwned
<1>8. ASSUME NEW d \in Calls PROVE SeenAll(d)' /\ Preflighted(d)'
  <2>1. CASE d = c
    <3>1. wire'[c] # "inflight"
      BY <1>2
    <3> QED BY <1>0, <2>1, <3>1, Waiting DEF SeenAll, Preflighted, Early, ReadPCs
  <2>2. CASE d # c /\ d \notin quiet'
    BY <2>2 DEF SeenAll, Preflighted
  <2>3. CASE d # c /\ d \in quiet'
    <3>1. UNCHANGED << zone, recs >> /\ wire'[d] = wire[d] /\ d \in quiet
      BY <1>2, <2>3
    <3> QED BY <1>0, <3>1 DEF SeenAll, Preflighted
  <2> QED BY <2>1, <2>2, <2>3
<1>9. OneConfirmed'
  BY <1>0, <1>1, RelistConfirmed
<1> QED BY <1>4, <1>5, <1>6, <1>7, <1>8, <1>9 DEF IInv

\* What a batch that is applied does.
LEMMA BatchApplied ==
  ASSUME IInv, NEW c \in Calls, wire[c] = "inflight", ExecuteBatch(c),
         zone.live, plan[c].ids \subseteq {recs[i].id : i \in DOMAIN recs}
  PROVE  /\ plan[c].ids = Ids(call[c].guard) /\ plan[c].posts = call[c].desired
         /\ Relists(plan[c].ids, Cardinality(plan[c].posts), call[c].key)
         /\ \A m \in nextId..(nextId + Cardinality(plan[c].posts) - 1) :
               \E i \in DOMAIN recs' : recs'[i].id = m /\ recs'[i].key = call[c].key
         /\ \A j \in Kept(plan[c].ids) : \E i \in DOMAIN recs' : recs'[i] = recs[j]
<1>1. /\ TypeOK /\ Spent /\ Planned(c) /\ Batch(c)
  BY DEF IInv, ExecuteBatch, Batch
<1>2. plan[c].ids = Ids(call[c].guard) /\ plan[c].posts = call[c].desired
  BY <1>1 DEF Planned
<1>3. IsFiniteSet(plan[c].posts)
  BY <1>1, <1>2 DEF Planned
<1>4. /\ \E new \in Posted(c) : recs' = Without(plan[c].ids) \o new
      /\ nextId' = nextId + Cardinality(plan[c].posts)
      /\ removed' = removed \cup
            {recs[i].key : i \in {j \in DOMAIN recs : recs[j].id \in plan[c].ids}}
  BY DEF ExecuteBatch
<1>5. PICK ids : ids = plan[c].ids
  OBVIOUS
<1>6. PICK new \in Posted(c) : recs' = Without(ids) \o new
  BY <1>4, <1>5
<1> QED BY <1>1, <1>2, <1>3, <1>4, <1>5, <1>6, BatchRelists

LEMMA ExecuteKeeps ==
  ASSUME IInv, NEW c \in Calls, Execute(c)
  PROVE  IInv'
<1>0. /\ TypeOK /\ wire[c] = "inflight" /\ UNCHANGED << account, token, edits, plan, call >>
      /\ zone \in [live: BOOLEAN, rev: Nat, dnssec: BOOLEAN]
  BY DEF IInv, Execute, authority, TypeOK
<1>1. ASSUME NEW w \in {"conflict", "throttled", "lost"}, wire' = [wire EXCEPT ![c] = w],
             UNCHANGED << zone, recs, nextId, quiet, removed >>
      PROVE  IInv'
  <2>1. Relists({}, 0, 0)
    BY <1>0, <1>1, SameRelists
  <2>2. ~Executed(c)'
    BY <1>0, <1>1 DEF Executed, TypeOK
  <2>3. w \in Wires \ {"none", "inflight"}
    BY DEF Wires
  <2> QED BY <1>0, <1>1, <2>1, <2>2, <2>3, OutcomeKeeps
<1>2. Disturb(c) => quiet' \subseteq quiet /\ quiet' \subseteq {c}
  BY <1>0 DEF Disturb, TypeOK
<1>3. PICK w : w = "applied"
  OBVIOUS
<1>4. w \in Wires \ {"none", "inflight"}
  BY <1>3 DEF Wires
<1>5. CASE ExecuteBatch(c)
  <2>1. CASE ~(zone.live /\ plan[c].ids \subseteq {recs[i].id : i \in DOMAIN recs})
    BY <1>1, <1>5, <2>1 DEF ExecuteBatch
  <2>2. CASE zone.live /\ plan[c].ids \subseteq {recs[i].id : i \in DOMAIN recs}
    <3>1. PICK ids, n, key :
            ids = plan[c].ids /\ n = Cardinality(plan[c].posts) /\ key = call[c].key
      OBVIOUS
    <3>2. /\ ids = Ids(call[c].guard) /\ n = Cardinality(call[c].desired)
          /\ Relists(ids, n, key)
          /\ \A m \in nextId..(nextId + n - 1) :
                \E i \in DOMAIN recs' : recs'[i].id = m /\ recs'[i].key = call[c].key
      BY <1>0, <1>5, <2>2, <3>1, BatchApplied
    <3>3. /\ wire' = [wire EXCEPT ![c] = w] /\ Disturb(c) /\ zone' = zone
      BY <1>3, <1>5, <2>2 DEF ExecuteBatch
    <3>4. Ids(call[c].guard) \subseteq Present
      BY <2>2, <3>1, <3>2 DEF Present
    <3> QED BY <1>0, <1>2, <1>4, <3>2, <3>3, <3>4, OutcomeKeeps
  <2> QED BY <2>1, <2>2
<1>6. CASE ExecuteCreate(c)
  <2>0. ~Executed(c)'
    BY <1>0, <1>6 DEF ExecuteCreate, Executed, Batch
  <2>1. CASE zone.live
    BY <1>1, <1>6, <2>1 DEF ExecuteCreate
  <2>2. CASE ~zone.live
    <3>1. /\ zone' = [live |-> TRUE, rev |-> zone.rev + 1, dnssec |-> FALSE]
          /\ wire' = [wire EXCEPT ![c] = w] /\ Disturb(c)
          /\ UNCHANGED << recs, nextId, removed >>
      BY <1>3, <1>6, <2>2 DEF ExecuteCreate
    <3>2. zone.rev + 1 \in Nat
      BY <1>0
    <3>3. zone' \in [live: BOOLEAN, rev: Nat, dnssec: BOOLEAN]
      BY <3>1, <3>2
    <3>4. Relists({}, 0, 0)
      BY <1>0, <3>1, SameRelists
    <3> QED BY <1>0, <1>2, <1>4, <2>0, <3>1, <3>3, <3>4, OutcomeKeeps
  <2> QED BY <2>1, <2>2
<1>7. CASE ExecuteDelete(c)
  <2>0. ~Executed(c)'
    BY <1>0, <1>7 DEF ExecuteDelete, Executed, Batch
  <2>1. CASE ~zone.live
    BY <1>1, <1>7, <2>1 DEF ExecuteDelete
  <2>2. CASE zone.live
    <3>1. /\ zone' = [zone EXCEPT !.live = FALSE] /\ recs' = << >> /\ nextId' = nextId
          /\ removed' = removed \cup {recs[i].key : i \in DOMAIN recs}
          /\ wire' = [wire EXCEPT ![c] = w] /\ Disturb(c)
      BY <1>3, <1>7, <2>2 DEF ExecuteDelete
    <3>2. zone' \in [live: BOOLEAN, rev: Nat, dnssec: BOOLEAN]
      BY <1>0, <3>1
    <3>3. PICK gone : gone = Present
      OBVIOUS
    <3>4. Relists(gone, 0, 0)
      BY <1>0, <3>1, <3>3, ZoneGone
    <3> QED BY <1>0, <1>2, <1>4, <2>0, <3>1, <3>2, <3>4, OutcomeKeeps
  <2> QED BY <2>1, <2>2
<1>8. CASE /\ \E o \in {"throttled", "lost"} : wire' = [wire EXCEPT ![c] = o]
           /\ UNCHANGED << zone, recs, nextId, quiet, removed >>
  BY <1>1, <1>8
<1> QED BY <1>5, <1>6, <1>7, <1>8 DEF Execute

-----------------------------------------------------------------------------
(***************************************************************************)
(* The theorems                                                            *)
(***************************************************************************)

LEMMA InitHolds ==
  ASSUME Init
  PROVE  IInv
<1> DEFINE idle == [pc |-> "idle", op |-> "put", key |-> CHOOSE k \in Keys : TRUE,
                 guard |-> {}, desired |-> {}, rev |-> 0,
                 row |-> NoRow, token |-> 0,
                 view |-> {}, page |-> 1, pages |-> 0, dispatched |-> FALSE,
                 out |-> "none", clean |-> FALSE, result |-> "none"]
<1>0. /\ recs \in InitialRecords /\ nextId = 1 + Len(recs)
      /\ wire = [c \in Calls |-> "none"] /\ plan = [c \in Calls |-> NoPlan]
      /\ quiet = {} /\ removed = {} /\ edits = 0 /\ token = 1
      /\ account = [gen |-> 1, policy |-> "managed"]
      /\ zone = [live |-> TRUE, rev |-> 1, dnssec |-> FALSE]
  BY DEF Init
<1>1. call = [c \in Calls |-> idle]
  BY Zenon DEF Init
<1>2. (CHOOSE k \in Keys : TRUE) \in Keys
  BY ConfigAssumption
<1>3. NoRow \in Row
  BY DEF NoRow, Row, Policies
<1>4. idle \in CallRecord
  BY <1>2, <1>3 DEF CallRecord, PCs, Ops, Results
<1>5. /\ idle.pc = "idle" /\ idle.op = "put" /\ idle.guard = {} /\ idle.desired = {}
      /\ idle.view = {} /\ idle.page = 1 /\ idle.dispatched = FALSE
      /\ idle.out = "none" /\ idle.clean = FALSE /\ idle.result = "none"
  OBVIOUS
<1> HIDE DEF idle
<1>6. recs \in Seq(Record) /\ \A i \in DOMAIN recs : recs[i].id = i
  BY <1>0, InitialAssumption
<1>7. TypeOK
  <2>1. account \in Row /\ zone \in [live: BOOLEAN, rev: Nat, dnssec: BOOLEAN]
    BY <1>0 DEF Row, Policies
  <2>2. nextId \in Nat /\ edits \in 0..MaxEdits
    BY <1>0, <1>6, ConfigAssumption
  <2>3. wire \in [Calls -> Wires] /\ plan \in [Calls -> Plan]
    BY <1>0, NoPlanType DEF Wires
  <2>4. call \in [Calls -> CallRecord]
    BY <1>1, <1>4
  <2> QED BY <1>0, <1>6, <2>1, <2>2, <2>3, <2>4 DEF TypeOK
<1>8. ASSUME NEW c \in Calls
      PROVE  call[c] = idle /\ wire[c] = "none"
  BY <1>0, <1>1
<1>9. ASSUME NEW c \in Calls PROVE Placed(c) /\ Truthful(c) /\ Planned(c) /\ Paging(c)
  <2>1. Placed(c)
    BY <1>5, <1>8 DEF Placed, Batch
  <2>2. Truthful(c)
    BY <1>5, <1>8 DEF Truthful, Early, Definite
  <2>3. Planned(c)
    BY <1>5, <1>8, FS_EmptySet DEF Planned, Ids
  <2>4. Paging(c)
    BY <1>5, <1>8, FS_EmptySet DEF Paging
  <2> QED BY <2>1, <2>2, <2>3, <2>4
<1>10. \A c \in Calls : ~Executed(c) /\ ~Confirmed(c)
  BY <1>5, <1>8 DEF Executed, Confirmed
<1>11. Spent
  <2>1. \A i \in DOMAIN recs : i < nextId
    BY <1>0, <1>6
  <2> QED BY <1>6, <1>10, <2>1 DEF Spent, Present
<1>12. Owned
  <2> DEFINE own == [c \in Calls |-> {}]
  <2>1. own \in [Calls -> SUBSET Nat] /\ \A c \in Calls : own[c] = {}
    OBVIOUS
  <2> HIDE DEF own
  <2>2. OwnedBy(own)
    BY <1>10, <2>1 DEF OwnedBy
  <2> QED BY <2>1, <2>2 DEF Owned
<1>13. OneConfirmed
  BY <1>10 DEF OneConfirmed
<1>14. \A c \in Calls : SeenAll(c) /\ Preflighted(c)
  BY <1>0 DEF SeenAll, Preflighted
<1> QED BY <1>7, <1>9, <1>11, <1>12, <1>13, <1>14 DEF IInv

LEMMA CallKeeps ==
  ASSUME IInv, NEW c \in Calls, CallStep(c)
  PROVE  IInv'
<1>0. /\ TypeOK /\ Spent /\ Owned /\ OneConfirmed /\ \A d \in Calls : CallOK(d)
      /\ \A d \in Calls : SeenAll(d) /\ Preflighted(d)
  BY DEF IInv, CallOK
<1>1. Shaped(c)
  BY <1>0, CallShape
<1>2. \A d \in Calls : CallOK(d)'
  BY <1>0, <1>1, CallsKept
<1>3. TypeOK' /\ Spent' /\ Owned' /\ OneConfirmed'
  BY <1>0, <1>1, TypeKept, SpentKept, OwnedKept, OneConfirmedKept
<1>4. \A d \in Calls : SeenAll(d)' /\ Preflighted(d)'
  BY <1>0, <1>1, SeenKept, PreflightedKept
<1> QED BY <1>2, <1>3, <1>4 DEF IInv, CallOK

LEMMA NextKeeps ==
  ASSUME IInv, [Next]_vars
  PROVE  IInv'
<1>1. CASE Next
  BY <1>1, CallKeeps, ExecuteKeeps, EditKeeps, AuthorityKeeps DEF Next
<1>2. CASE UNCHANGED vars
  <2>1. /\ UNCHANGED << account, token, edits, zone, recs, nextId, wire, plan >>
        /\ UNCHANGED << call, quiet, removed >>
    BY <1>2 DEF vars
  <2>2. TypeOK'
    BY <2>1 DEF IInv, TypeOK
  <2>3. \A d \in Calls : Placed(d)' /\ Truthful(d)' /\ Planned(d)' /\ Paging(d)'
    BY <2>1 DEF IInv, Placed, Truthful, Planned, Paging, Batch
  <2>4. Spent'
    BY <2>1 DEF IInv, Spent, Present, Executed, Batch
  <2>5. Owned'
    BY <2>1 DEF IInv, Owned, OwnedBy, PresentIn, Executed, Batch
  <2>6. \A d \in Calls : SeenAll(d)' /\ Preflighted(d)'
    BY <2>1 DEF IInv, SeenAll, Preflighted
  <2>7. OneConfirmed'
    BY <2>1 DEF IInv, OneConfirmed, Confirmed
  <2> QED BY <2>2, <2>3, <2>4, <2>5, <2>6, <2>7 DEF IInv
<1> QED BY <1>1, <1>2

\* The inductive invariant: what each call knows of its one mutation, what the
\* executed batches left in the zone, and what an undisturbed listing has seen.
THEOREM Inductive == Spec => []IInv
<1>1. Init => IInv
  BY InitHolds
<1>2. IInv /\ [Next]_vars => IInv'
  BY NextKeeps
<1> QED BY <1>1, <1>2, PTL DEF Spec

\* Every variable keeps its type: the writer's records of accounts, plans, pages and
\* outcomes, and Cloudflare's listing.
THEOREM TypeCorrect == Spec => []TypeOK
<1>1. IInv => TypeOK
  BY DEF IInv
<1> QED BY <1>1, Inductive, PTL

\* What put, delete, create and delete of a zone answer is true of Cloudflare, now
\* and later: a definite refusal is never followed by the execution of the
\* mutation, whatever deadline, fence or read has failed, and success means that
\* it was executed.
THEOREM Outcomes == Spec => []OutcomeIsTruthful
<1>1. IInv => OutcomeIsTruthful
  BY DEF IInv, Truthful, OutcomeIsTruthful
<1> QED BY <1>1, Inductive, PTL

\* Of two puts that named the same revision at most one is confirmed: plan_batch
\* deletes the revision's records by their ids, which only one transaction can do;
\* and of two that required the RRset to be absent the post-observation of the later
\* one would show the records of both.
THEOREM OneWinner == Spec => []GuardAdmitsOneWinner
<1>1. ASSUME IInv, NEW c \in Calls, NEW d \in Calls, SamePut(c, d),
             call[c].result = "ok", call[d].result = "ok"
      PROVE  /\ call[c].guard = {}
             /\ \/ call[c].key \in removed
                \/ ~call[c].clean \/ ~call[d].clean
  <2>1. Executed(c) /\ Executed(d) /\ c # d
    BY <1>1 DEF SamePut, Executed, Batch, IInv, Truthful
  <2>2. call[c].guard = {}
    <3>1. Ids(call[c].guard) \cap Ids(call[d].guard) = {} /\ call[c].guard = call[d].guard
      BY <1>1, <2>1 DEF IInv, Spent, SamePut
    <3> QED BY <3>1 DEF Ids
  <2>3. ASSUME call[c].clean, call[d].clean PROVE call[c].key \in removed
    <3>1. Confirmed(c) /\ Confirmed(d)
      BY <1>1, <2>3 DEF Confirmed, SamePut
    <3> QED BY <1>1, <2>1, <3>1 DEF IInv, OneConfirmed, SamePut
  <2> QED BY <2>2, <2>3
<1>2. IInv => GuardAdmitsOneWinner
  BY <1>1 DEF GuardAdmitsOneWinner
<1> QED BY <1>2, Inductive, PTL

\* A batch removes nothing but the records of the revision its request names: what
\* others added to the RRset since then stays, although Cloudflare has no guard.
THEOREM UnseenKept == Spec => NoUnseenRecordRemoved
<1>1. ASSUME IInv, Next, NEW c \in Calls, wire[c] = "inflight", wire'[c] = "applied",
             call[c].op \in {"put", "delete"}, NEW i \in DOMAIN recs
      PROVE  \/ \E j \in DOMAIN recs' : recs'[j] = recs[i]
             \/ recs[i].id \in Ids(call[c].guard)
  <2>0. TypeOK /\ \A d \in Calls : CallOK(d)
    BY <1>1 DEF IInv, CallOK
  <2>1. ASSUME NEW d \in Calls, CallStep(d) PROVE FALSE
    <3>1. Shaped(d) /\ CallOK(d)
      BY <2>0, <2>1, CallShape
    <3>2. wire' = wire \/ wire' = [wire EXCEPT ![d] = "inflight"]
      BY <2>0, <3>1, ShapeFrame DEF NoSend
    <3> QED BY <1>1, <2>0, <3>2 DEF TypeOK
  <2>2. ~Edit /\ ~EditAuthority
    BY <1>1 DEF Edit, EditAuthority, provider
  <2>3. Execute(c)
    <3>1. PICK d \in Calls : Execute(d)
      BY <1>1, <2>1, <2>2 DEF Next
    <3>2. \A e \in Calls \ {d} : wire'[e] = wire[e]
      <4>1. \E w : wire' = [wire EXCEPT ![d] = w]
        BY <3>1 DEF Execute, ExecuteBatch, ExecuteCreate, ExecuteDelete
      <4> QED BY <2>0, <4>1 DEF TypeOK
    <3> QED BY <1>1, <3>1, <3>2
  <2>4. /\ ExecuteBatch(c) /\ zone.live
        /\ plan[c].ids \subseteq {recs[j].id : j \in DOMAIN recs}
    BY <1>1, <2>0, <2>3 DEF Execute, ExecuteBatch, ExecuteCreate, ExecuteDelete, TypeOK
  <2>5. /\ plan[c].ids = Ids(call[c].guard)
        /\ \A j \in Kept(plan[c].ids) : \E l \in DOMAIN recs' : recs'[l] = recs[j]
    BY <1>1, <2>4, BatchApplied
  <2> QED BY <2>5 DEF Kept
<1>2. IInv /\ [Next]_vars =>
        [\A c \in Calls :
          wire[c] = "inflight" /\ wire'[c] = "applied" /\ call[c].op \in {"put", "delete"} =>
            \A i \in DOMAIN recs :
                \/ \E j \in DOMAIN recs' : recs'[j] = recs[i]
                \/ recs[i].id \in Ids(call[c].guard)]_vars
  BY <1>1
<1> QED BY <1>2, Inductive, PTL DEF Spec, NoUnseenRecordRemoved

\* A zone that nobody has touched since its preflight began is deleted only empty,
\* with DNSSEC off and at the revision the request confirmed, however many pages
\* the preflight had to read.
THEOREM DeleteIsSafe == Spec => UndisturbedDeleteIsSafe
<1>1. IInv /\ [Next]_vars =>
        [\A c \in quiet :
          wire[c] = "inflight" /\ wire'[c] = "applied" /\ call[c].op = "delete_zone" =>
            recs = << >> /\ ~zone.dnssec /\ zone.rev = call[c].rev]_vars
  BY DEF IInv, TypeOK, Preflighted
<1> QED BY <1>1, Inductive, PTL DEF Spec, UndisturbedDeleteIsSafe
=============================================================================
