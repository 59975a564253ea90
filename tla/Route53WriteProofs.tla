------------------------- MODULE Route53WriteProofs -------------------------
(***************************************************************************)
(* What a Route 53 write tells its caller, which zones a retried create    *)
(* can make and what a batch can overwrite, for every set of calls,        *)
(* accounts, keys, contents and requests, and every page size and limit.   *)
(*                                                                         *)
(* A call's answer is truthful because of what is known at each of its     *)
(* steps about the one mutation it may send: Truthful says it, step by     *)
(* step, and is inductive together with the facts about receipts and       *)
(* caller references it leans on.                                          *)
(***************************************************************************)
EXTENDS Route53Write, FiniteSetTheorems, TLAPS

\* The steps at which a call has sent nothing.
Early == {"idle"} \cup Waiting \cup (Working \ {"sent", "verify"})

\* What success means: OutcomeIsTruthful's second part.
Confirmed(c) ==
    /\ call[c].req.op \in {"change", "delete_zone"} => wire[c] = "applied"
    /\ call[c].req.op = "create_zone" => \E z \in hosted : z.ref = CallerReference(c)
    /\ call[c].req.op = "get_change" =>
          /\ wire[call[c].req.receipt] = "applied"
          /\ call[call[c].req.receipt].req.account = Acct(c)

Truthful(c) ==
    /\ call[c].pc \in Early => wire[c] = "none" /\ ~call[c].dispatched
    /\ call[c].pc # "done" => call[c].result = "none"
    /\ call[c].pc = "sent" => call[c].dispatched
    /\ ~call[c].dispatched => wire[c] = "none"
    /\ call[c].req.op = "get_change" => wire[c] = "none"
    /\ call[c].pc = "verify" => Confirmed(c)
    /\ call[c].pc = "done" =>
          /\ call[c].result # "none"
          /\ call[c].result \in Definite => wire[c] \notin {"inflight", "applied"}
          /\ call[c].result = "ok" => Confirmed(c)

\* The steps of each operation.
Places(op) ==
    {"idle", "account", "global", "prepare", "keys", "verify", "done"} \cup
    CASE op = "change" -> {"zone", "scan", "plan", "fence", "sent"}
      [] op = "get_change" -> {"fence1", "zone", "fence2", "get"}
      [] op = "create_zone" -> {"find", "fence", "sent"}
      [] op = "delete_zone" -> {"guard", "fence", "sent"}

Placed(c) == call[c].pc \in Places(call[c].req.op)

\* Where a call that reads a receipt has authenticated it.
Scoped == {"fence1", "zone", "fence2", "get", "verify"}

\* A call that reads a receipt has one, and past its authentication the receipt
\* is of the call's own account.
ReceiptOK(c) ==
    call[c].pc # "idle" /\ call[c].req.op = "get_change" =>
        /\ call[c].req.receipt \in Calls
        /\ call[call[c].req.receipt].result = "ok"
        /\ call[c].pc \in Scoped =>
              call[call[c].req.receipt].req.account = Acct(c)

\* Zones and caller references correspond, and a zone whose creation was
\* acknowledged is there.
ZonesOK ==
    /\ \A z \in hosted : z.ref = <<z.account, z.idem>>
    /\ \A y, z \in hosted : y.ref = z.ref => y = z
    /\ \A c \in Calls : wire[c] = "applied" /\ call[c].req.op = "create_zone" =>
          \E z \in hosted : z.ref = CallerReference(c)

\* A mutation is sent only for a batch that names no key twice.
SentOK ==
    \A c \in Calls : call[c].pc \notin {"idle", "done"} \/ wire[c] # "none" =>
        ValidShape(call[c].req)

IInv ==
    /\ TypeOK
    /\ \A c \in Calls : Placed(c) /\ Truthful(c) /\ ReceiptOK(c)
    /\ ZonesOK
    /\ SentOK

-----------------------------------------------------------------------------
(***************************************************************************)
(* The shapes of a call's steps                                            *)
(***************************************************************************)

\* Only the call c changes, and not its request.
Only(c) ==
    /\ call' \in [Calls -> CallRecord]
    /\ \A d \in Calls \ {c} : call'[d] = call[d]
    /\ call'[c].req = call[c].req

\* The call goes on ...
Moves(c, pc) ==
    /\ Only(c)
    /\ call'[c].pc = pc
    /\ call'[c].result = call[c].result /\ call'[c].dispatched = call[c].dispatched
    /\ call'[c].sem = call[c].sem

\* ... or returns.
Ends(c, result) ==
    /\ Only(c)
    /\ call'[c].pc = "done" /\ call'[c].result = result
    /\ call'[c].dispatched = call[c].dispatched
    /\ call'[c].sem = None

LEMMA CallType ==
  ASSUME TypeOK, NEW c \in Calls
  PROVE  call[c] \in CallRecord /\ Acct(c) \in Accounts
  BY DEF TypeOK, CallRecord, Acct, Request

LEMMA GotoMoves ==
  ASSUME TypeOK, NEW c \in Calls, NEW pc \in PCs, Goto(c, pc)
  PROVE  Moves(c, pc)
<1>1. call[c] \in CallRecord
  BY CallType
<1>2. call' = [call EXCEPT ![c] = [call[c] EXCEPT !.pc = pc]]
  BY DEF Goto, TypeOK
<1>3. [call[c] EXCEPT !.pc = pc] \in CallRecord
  BY <1>1 DEF CallRecord
<1>4. call'[c] = [call[c] EXCEPT !.pc = pc]
  BY <1>2 DEF TypeOK
<1> QED BY <1>1, <1>2, <1>3, <1>4 DEF Moves, Only, TypeOK, CallRecord

LEMMA FinishEnds ==
  ASSUME TypeOK, NEW c \in Calls, NEW result \in Results, Finish(c, result)
  PROVE  Ends(c, result)
<1> DEFINE new == [call[c] EXCEPT !.pc = "done", !.result = result, !.sem = None]
<1>1. call[c] \in CallRecord
  BY CallType
<1>2. call' = [call EXCEPT ![c] = new]
  BY DEF Finish, TypeOK
<1>3. new \in CallRecord
  BY <1>1 DEF CallRecord, PCs
<1>4. call'[c] = new
  BY <1>2 DEF TypeOK
<1> QED BY <1>1, <1>2, <1>3, <1>4 DEF Ends, Only, TypeOK, CallRecord

\* The page read so far is an inventory.
LEMMA ReadPageType ==
  ASSUME TypeOK, NEW c \in Calls
  PROVE  /\ ReadPage(c) \in [Keys -> Contents \cup {None}]
         /\ NoView \in [Keys -> Contents \cup {None}]
  BY CallType DEF ReadPage, NoView, TypeOK, CallRecord

\* A step that keeps the call's place but for its page, or moves with new data.
LEMMA PageMoves ==
  ASSUME TypeOK, NEW c \in Calls, NEW v \in [Keys -> Contents \cup {None}],
         NEW n \in Nat, NEW pc \in PCs,
         call' = [call EXCEPT ![c].pc = pc, ![c].view = v, ![c].pos = n]
  PROVE  Moves(c, pc)
<1> DEFINE new == [call[c] EXCEPT !.pc = pc, !.view = v, !.pos = n]
<1>1. call[c] \in CallRecord
  BY CallType
<1>2. call' = [call EXCEPT ![c] = new]
  BY DEF TypeOK
<1>3. new \in CallRecord
  BY <1>1 DEF CallRecord
<1>4. call'[c] = new
  BY <1>2 DEF TypeOK
<1> QED BY <1>1, <1>2, <1>3, <1>4 DEF Moves, Only, TypeOK, CallRecord

LEMMA PageStays ==
  ASSUME TypeOK, NEW c \in Calls, NEW v \in [Keys -> Contents \cup {None}],
         call' = [call EXCEPT ![c].view = v, ![c].pos = @ + PageSize]
  PROVE  Moves(c, call[c].pc)
<1> DEFINE new == [call[c] EXCEPT !.view = v, !.pos = @ + PageSize]
<1>1. call[c] \in CallRecord
  BY CallType
<1>2. call' = [call EXCEPT ![c] = new]
  BY DEF TypeOK
<1>3. new \in CallRecord
  <2>1. call[c].pos + PageSize \in Nat
    <3>1. PageSize \in Nat
      BY ConfigAssumption
    <3> QED BY <1>1, <3>1 DEF CallRecord
  <2> QED BY <1>1, <2>1 DEF CallRecord
<1>4. call'[c] = new
  BY <1>2 DEF TypeOK
<1> QED BY <1>1, <1>2, <1>3, <1>4 DEF Moves, Only, TypeOK, CallRecord

-----------------------------------------------------------------------------
(***************************************************************************)
(* What a step of a call amounts to                                        *)
(***************************************************************************)

Advances(c) ==
    /\ call[c].pc \in Early \ {"idle"}
    /\ \E pc \in Early \ {"idle"} :
         /\ Moves(c, pc)
         /\ pc \in Places(call[c].req.op)
         /\ call[c].req.op = "get_change" /\ pc \in Scoped =>
              \/ call[c].pc \in Scoped
              \/ call[call[c].req.receipt].req.account = Acct(c)
    /\ wire' = wire

Refuses(c) ==
    /\ call[c].pc \notin {"idle", "done"}
    /\ \E r \in Definite \cup {"unknown"} :
         /\ Ends(c, r)
         /\ r = "unknown" \/ wire[c] \notin {"inflight", "applied"}
    /\ wire' = wire

Sends(c) ==
    /\ call[c].pc = "fence"
    /\ Only(c)
    /\ call'[c].pc = "sent" /\ call'[c].dispatched
    /\ call'[c].result = call[c].result /\ call'[c].sem = call[c].sem
    /\ wire' = [wire EXCEPT ![c] = "inflight"]

Confirms(c) ==
    /\ call[c].pc \notin {"idle", "done"}
    /\ Moves(c, "verify")
    /\ Confirmed(c)
    /\ call[c].req.op = "get_change" => call[c].pc \in Scoped
    /\ wire' = wire

Succeeds(c) ==
    /\ call[c].pc = "verify"
    /\ Ends(c, "ok")
    /\ wire' = wire

LEMMA EarlySteps ==
  Early \ {"idle"} = {"account", "global", "prepare", "keys", "fence1", "zone",
                      "scan", "plan", "fence2", "get", "find", "guard", "fence"}
  BY DEF Early, Waiting, Working

LEMMA CallStepShape ==
  ASSUME IInv, NEW c \in Calls, CallStep(c)
  PROVE  \/ Advances(c) \/ Refuses(c) \/ Sends(c) \/ Confirms(c) \/ Succeeds(c)
<1> DEFINE op == call[c].req.op
<1>0. /\ TypeOK /\ Truthful(c) /\ Placed(c) /\ ReceiptOK(c) /\ ZonesOK
      /\ op \in Ops
  BY CallType DEF IInv, CallRecord, Request
<1>1. ASSUME NEW pc \in Early \ {"idle"}, Goto(c, pc), pc \in Places(op),
             call[c].pc \in Early \ {"idle"}, wire' = wire,
             op = "get_change" /\ pc \in Scoped => call[c].pc \in Scoped
      PROVE  Advances(c)
  <2>1. Moves(c, pc)
    BY <1>0, <1>1, GotoMoves DEF Early, PCs, Waiting, Working
  <2> QED BY <1>1, <2>1 DEF Advances
<1>2. ASSUME NEW r \in Definite \cup {"unknown"}, Finish(c, r), wire' = wire,
             \/ call[c].pc \in Early \ {"idle"}
             \/ /\ call[c].pc \notin {"idle", "done"}
                /\ r = "unknown" \/ wire[c] \notin {"inflight", "applied"}
      PROVE  Refuses(c)
  <2>1. Ends(c, r)
    BY <1>0, <1>2, FinishEnds DEF Results, Definite
  <2>2. call[c].pc \in Early => wire[c] = "none"
    BY <1>0 DEF Truthful
  <2>3. call[c].pc \in Early \ {"idle"} => call[c].pc \notin {"idle", "done"}
    BY EarlySteps
  <2> QED BY <1>2, <2>1, <2>2, <2>3 DEF Refuses
<1>3. CASE AcquireAccount(c)
  <2>1. Goto(c, "global") /\ call[c].pc = "account" /\ wire' = wire
    BY <1>3 DEF AcquireAccount, provider
  <2> QED BY <1>1, <2>1, EarlySteps DEF Places, Scoped
<1>4. CASE AcquireGlobal(c)
  <2>1. Goto(c, "prepare") /\ call[c].pc = "global" /\ wire' = wire
    BY <1>4 DEF AcquireGlobal, provider
  <2> QED BY <1>1, <2>1, EarlySteps DEF Places, Scoped
<1>5. CASE ReadAccount(c)
  <2> DEFINE row == account[Acct(c)]
  <2>1. wire' = wire /\ call[c].pc = "prepare"
    BY <1>5 DEF ReadAccount, provider
  <2>2. row \in AccountRow /\ call[c] \in CallRecord
    BY <1>0, CallType DEF TypeOK
  <2>3. CASE row.policy = "managed"
    <3> DEFINE new == [call[c] EXCEPT !.pc = "keys", !.snap.row = row]
    <3>1. call' = [call EXCEPT ![c].pc = "keys", ![c].snap.row = row]
      BY <1>5, <2>3 DEF ReadAccount
    <3>2. call' = [call EXCEPT ![c] = new]
      BY <1>0, <3>1 DEF TypeOK
    <3>3. new \in CallRecord
      BY <2>2 DEF CallRecord, Snapshot, PCs, Working
    <3>4. call'[c] = new
      BY <1>0, <3>2 DEF TypeOK
    <3>5. Moves(c, "keys")
      BY <1>0, <2>2, <3>2, <3>3, <3>4 DEF Moves, Only, TypeOK, CallRecord
    <3> QED BY <2>1, <3>5, EarlySteps DEF Advances, Places, Scoped
  <2>4. CASE row.policy # "managed"
    <3>1. row.policy \in {"gone", "observed"}
      BY <2>2, <2>4 DEF AccountRow, Policies
    <3>2. \E r \in {"not_found", "invalid", "conflict"} : Finish(c, r)
      BY <1>5, <3>1 DEF ReadAccount
    <3> QED BY <1>2, <2>1, <3>2, EarlySteps DEF Definite
  <2> QED BY <2>3, <2>4
<1>6. CASE ReadKeys(c)
  <2>1. wire' = wire /\ call[c].pc = "keys"
    BY <1>6 DEF ReadKeys, provider
  <2>2. CASE op = "get_change" /\ ~ReceiptInScope(c)
    BY <1>2, <1>6, <2>1, <2>2, EarlySteps DEF ReadKeys, Definite
  <2>3. CASE ~(op = "get_change" /\ ~ReceiptInScope(c))
    <3> DEFINE pc == NextAfterKeys(op)
               new == [call[c] EXCEPT !.pc = pc, !.snap.keys = keyRev[Acct(c)]]
    <3>1. call' = [call EXCEPT ![c].pc = pc, ![c].snap.keys = keyRev[Acct(c)]]
      BY <1>6, <2>3 DEF ReadKeys
    <3>2. call' = [call EXCEPT ![c] = new]
      BY <1>0, <3>1 DEF TypeOK
    <3>3. pc \in {"zone", "fence1", "find", "guard"} /\ pc \in Places(op)
      BY <1>0 DEF NextAfterKeys, Ops, Places
    <3>4. call[c] \in CallRecord /\ keyRev[Acct(c)] \in Nat
      BY <1>0, CallType DEF TypeOK
    <3> HIDE DEF pc
    <3>5. new \in CallRecord
      BY <3>3, <3>4 DEF CallRecord, Snapshot, PCs, Working
    <3>6. call'[c] = new
      BY <1>0, <3>2 DEF TypeOK
    <3>7. Moves(c, pc)
      BY <1>0, <3>2, <3>4, <3>5, <3>6 DEF Moves, Only, TypeOK, CallRecord
    <3>8. op = "get_change" => call[call[c].req.receipt].req.account = Acct(c)
      BY <2>3 DEF ReceiptInScope
    <3> QED BY <2>1, <3>3, <3>7, <3>8, EarlySteps DEF Advances
  <2> QED BY <2>2, <2>3
<1>7. CASE ObserveFence(c)
  <2>1. wire' = wire /\ call[c].pc \in {"fence1", "fence2"}
    BY <1>7 DEF ObserveFence, provider
  <2>2. op = "get_change"
    BY <1>0, <2>1 DEF Placed, Places, Ops
  <2>3. {"zone", "get"} \subseteq Places(op)
    BY <2>2 DEF Places
  <2> QED BY <1>1, <1>2, <1>7, <2>1, <2>3, EarlySteps DEF ObserveFence, Scoped, Definite
<1>8. CASE ObserveZone(c)
  <2>1. wire' = wire /\ call[c].pc = "zone"
    BY <1>8 DEF ObserveZone, provider
  <2>2. op \in {"change", "get_change"}
    BY <1>0, <2>1 DEF Placed, Places, Ops
  <2>3. (IF op = "change" THEN "scan" ELSE "fence2") \in Places(op)
    BY <2>2 DEF Places
  <2> QED BY <1>1, <1>2, <1>8, <2>1, <2>3, EarlySteps DEF ObserveZone, Scoped, Definite
<1>9. CASE ScanPage(c)
  <2>1. wire' = wire /\ call[c].pc = "scan"
    BY <1>9 DEF ScanPage, provider
  <2>2. op = "change"
    BY <1>0, <2>1 DEF Placed, Places, Ops
  <2>3. ASSUME NEW pc \in {"scan", "plan"}, Moves(c, pc) PROVE Advances(c)
    BY <2>1, <2>2, <2>3, EarlySteps DEF Advances, Places
  <2>4. CASE \E r \in {"not_found", "conflict"} : Finish(c, r)
    BY <1>2, <2>1, <2>4, EarlySteps DEF Definite
  <2>5. CASE call' = [call EXCEPT ![c].view = ReadPage(c), ![c].pos = @ + PageSize]
    BY <1>0, <2>1, <2>3, <2>5, ReadPageType, PageStays
  <2>6. CASE call' = [call EXCEPT ![c].pc = "plan", ![c].view = NoView, ![c].pos = 0]
    <3>1. "plan" \in PCs
      BY DEF PCs, Working
    <3> QED BY <1>0, <2>3, <2>6, <3>1, ReadPageType, PageMoves
  <2> QED BY <1>9, <2>4, <2>5, <2>6 DEF ScanPage
<1>10. CASE PlanPage(c)
  <2> DEFINE error == PlanError(call[c].req.changes, ReadPage(c))
  <2>1. wire' = wire /\ call[c].pc = "plan"
    BY <1>10 DEF PlanPage
  <2>2. op = "change"
    BY <1>0, <2>1 DEF Placed, Places, Ops
  <2>3. ASSUME NEW pc \in {"plan", "fence"}, Moves(c, pc) PROVE Advances(c)
    BY <2>1, <2>2, <2>3, EarlySteps DEF Advances, Places
  <2>4. error \in {"conflict", "invalid", "none"}
    BY DEF PlanError
  <2> HIDE DEF error
  <2>5. CASE \E r \in {"conflict", "invalid"} : Finish(c, r)
    BY <1>2, <2>1, <2>5, EarlySteps DEF Definite
  <2>6. CASE call' = [call EXCEPT ![c].view = ReadPage(c), ![c].pos = @ + PageSize]
    BY <1>0, <2>1, <2>3, <2>6, ReadPageType, PageStays
  <2>7. CASE call' = [call EXCEPT ![c].pc = "fence", ![c].view = NoView, ![c].pos = 0]
    <3>1. "fence" \in PCs
      BY DEF PCs, Working
    <3> QED BY <1>0, <2>3, <2>7, <3>1, ReadPageType, PageMoves
  <2> QED BY <1>10, <2>4, <2>5, <2>6, <2>7 DEF PlanPage, error
<1>11. CASE FindZone(c)
  <2>1. wire' = wire /\ call[c].pc = "find"
    BY <1>11 DEF FindZone, provider
  <2>2. op = "create_zone" /\ "fence" \in Places(op)
    BY <1>0, <2>1 DEF Placed, Places, Ops
  <2>3. CASE \E z \in hosted : z.ref = CallerReference(c) /\ z.listed
    <3>1. Moves(c, "verify")
      BY <1>0, <1>11, <2>3, GotoMoves DEF FindZone, PCs, Working
    <3> QED BY <2>1, <2>2, <2>3, <3>1 DEF Confirms, Confirmed
  <2>4. CASE ~(\E z \in hosted : z.ref = CallerReference(c) /\ z.listed)
    BY <1>1, <1>11, <2>1, <2>2, <2>4, EarlySteps DEF FindZone
  <2> QED BY <2>3, <2>4
<1>12. CASE DeleteGuard(c)
  <2>1. wire' = wire /\ call[c].pc = "guard"
    BY <1>12 DEF DeleteGuard, provider
  <2>2. op = "delete_zone" /\ "fence" \in Places(op)
    BY <1>0, <2>1 DEF Placed, Places, Ops
  <2>3. \/ \E r \in {"not_found", "conflict"} : Finish(c, r)
        \/ Goto(c, "fence")
    BY <1>12 DEF DeleteGuard
  <2>4. CASE \E r \in {"not_found", "conflict"} : Finish(c, r)
    BY <1>2, <2>1, <2>4, EarlySteps DEF Definite
  <2>5. CASE Goto(c, "fence")
    BY <1>1, <2>1, <2>2, <2>5, EarlySteps
  <2> QED BY <2>3, <2>4, <2>5
<1>13. CASE Dispatch(c)
  <2>1. call[c].pc = "fence"
    BY <1>13 DEF Dispatch
  <2>2. CASE call' = [call EXCEPT ![c].pc = "sent", ![c].dispatched = TRUE]
             /\ wire' = [wire EXCEPT ![c] = "inflight"]
    <3> DEFINE new == [call[c] EXCEPT !.pc = "sent", !.dispatched = TRUE]
    <3>1. call[c] \in CallRecord
      BY <1>0, CallType
    <3>2. call' = [call EXCEPT ![c] = new]
      BY <1>0, <2>2 DEF TypeOK
    <3>3. new \in CallRecord
      BY <3>1 DEF CallRecord, PCs, Working
    <3>4. call'[c] = new
      BY <1>0, <3>2 DEF TypeOK
    <3> QED BY <1>0, <2>1, <2>2, <3>1, <3>2, <3>3, <3>4
            DEF Sends, Only, TypeOK, CallRecord
  <2>3. CASE wire' = wire /\ \E r \in {"invalid", "unavailable"} : Finish(c, r)
    BY <1>2, <2>1, <2>3, EarlySteps DEF Definite
  <2> QED BY <1>13, <2>2, <2>3 DEF Dispatch
<1>14. CASE Response(c)
  <2>1. wire' = wire /\ call[c].pc = "sent"
    BY <1>14 DEF Response, provider
  <2>2. op \in {"change", "create_zone", "delete_zone"}
    BY <1>0, <2>1 DEF Placed, Places, Ops
  <2>3. CASE wire[c] = "applied" /\ Goto(c, "verify")
    <3>1. Moves(c, "verify")
      BY <1>0, <2>3, GotoMoves DEF PCs, Working
    <3>2. Confirmed(c)
      BY <1>0, <2>2, <2>3 DEF Confirmed, ZonesOK
    <3> QED BY <2>1, <2>2, <3>1, <3>2 DEF Confirms
  <2>4. CASE wire[c] \in {"conflict", "invalid", "throttled"}
             /\ Finish(c, MapMutationError(c, wire[c]))
    <3>1. MapMutationError(c, wire[c]) \in {"conflict", "invalid", "unknown"}
      BY DEF MapMutationError
    <3> QED BY <1>2, <2>1, <2>4, <3>1 DEF Definite
  <2>5. CASE Finish(c, "unknown")
    BY <1>2, <2>1, <2>5
  <2> QED BY <1>14, <2>3, <2>4, <2>5 DEF Response
<1>15. CASE Verify(c)
  <2>1. wire' = wire /\ call[c].pc = "verify"
    BY <1>15 DEF Verify, provider
  <2>2. CASE Finish(c, "ok")
    BY <1>0, <2>1, <2>2, FinishEnds DEF Succeeds, Results
  <2>3. CASE op = "get_change" /\ Finish(c, "unavailable")
    <3>1. wire[c] = "none"
      BY <1>0, <2>3 DEF Truthful
    <3> QED BY <1>2, <2>1, <2>3, <3>1 DEF Definite
  <2>4. CASE Finish(c, "unknown")
    BY <1>2, <2>1, <2>4
  <2> QED BY <1>15, <2>2, <2>3, <2>4 DEF Verify
<1>16. CASE GetChange(c)
  <2>1. wire' = wire /\ call[c].pc = "get"
    BY <1>16 DEF GetChange, provider
  <2>2. op = "get_change"
    BY <1>0, <2>1 DEF Placed, Places, Ops
  <2>3. CASE wire[call[c].req.receipt] = "applied"
    <3>1. Moves(c, "verify")
      BY <1>0, <1>16, <2>3, GotoMoves DEF GetChange, PCs, Working
    <3>2. Confirmed(c)
      BY <1>0, <2>1, <2>2, <2>3 DEF Confirmed, ReceiptOK, Scoped
    <3> QED BY <2>1, <3>1, <3>2 DEF Confirms, Scoped
  <2>4. CASE wire[call[c].req.receipt] # "applied"
    BY <1>2, <1>16, <2>1, <2>4, EarlySteps DEF GetChange, Definite
  <2> QED BY <2>3, <2>4
<1>17. CASE Timeout(c)
  <2>1. wire' = wire /\ call[c].pc \notin {"idle", "done"}
    BY <1>17 DEF Timeout, provider, Waiting, Working
  <2>2. CASE call[c].dispatched
    BY <1>2, <1>17, <2>1, <2>2 DEF Timeout, TimeoutResult
  <2>3. CASE ~call[c].dispatched
    <3>1. wire[c] = "none"
      BY <1>0, <2>3 DEF Truthful
    <3>2. Finish(c, "unavailable")
      BY <1>17, <2>3 DEF Timeout, TimeoutResult
    <3> QED BY <1>2, <2>1, <3>1, <3>2 DEF Definite
  <2> QED BY <2>2, <2>3
<1>18. CASE ReadFault(c)
  <2>1. wire' = wire /\ call[c].pc \in Early \ {"idle"}
    BY <1>18, EarlySteps DEF ReadFault, provider
  <2>2. \E r \in {"unavailable", "observation", "invalid", "unknown"} : Finish(c, r)
    BY <1>18 DEF ReadFault
  <2> QED BY <1>2, <2>1, <2>2 DEF Definite
<1> QED
  BY <1>3, <1>4, <1>5, <1>6, <1>7, <1>8, <1>9, <1>10, <1>11, <1>12, <1>13,
     <1>14, <1>15, <1>16, <1>17, <1>18
  DEF CallStep

LEMMA CallStepKeeps ==
  ASSUME NEW c \in Calls, CallStep(c)
  PROVE  /\ UNCHANGED << account, keyRev, edits, zone, recs, hosted, tracked >>
         /\ fresh' \subseteq fresh \cup {c}
  BY DEF CallStep, AcquireAccount, AcquireGlobal, ReadAccount, ReadKeys, ObserveFence,
     ObserveZone, ScanPage, PlanPage, FindZone, DeleteGuard, Dispatch, Response, Verify,
     GetChange, Timeout, ReadFault, provider, authority

\* A call changes nothing but itself, its mutation and its place in fresh.
LEMMA CallStepOnly ==
  ASSUME IInv, NEW c \in Calls, CallStep(c)
  PROVE  /\ Only(c) /\ call[c].pc \notin {"idle", "done"} /\ call'[c].pc # "idle"
         /\ wire' = wire \/ (wire[c] = "none" /\ wire' = [wire EXCEPT ![c] = "inflight"])
<1>1. Truthful(c)
  BY DEF IInv
<1>2. CASE Advances(c)
  BY <1>2, EarlySteps DEF Advances, Moves
<1>3. CASE Refuses(c)
  BY <1>3 DEF Refuses, Ends
<1>4. CASE Sends(c)
  BY <1>1, <1>4, EarlySteps DEF Sends, Truthful
<1>5. CASE Confirms(c)
  BY <1>5 DEF Confirms, Moves
<1>6. CASE Succeeds(c)
  BY <1>6 DEF Succeeds, Ends
<1> QED BY <1>2, <1>3, <1>4, <1>5, <1>6, CallStepShape

LEMMA SemaphoreType ==
  ASSUME TypeOK, NEW c \in Calls, NEW s \in Services, NEW a \in Accounts
  PROVE  /\ AccountSemaphore(c, s, a).sem \in Calls \cup {None}
         /\ AccountSemaphore(c, s, a).map \in [Accounts -> Calls \cup {None}]
<1>1. tracked[s] \in [Accounts -> Calls \cup {None}]
  BY DEF TypeOK
<1> QED BY <1>1 DEF AccountSemaphore

LEMMA BeginShape ==
  ASSUME TypeOK, NEW c \in Calls, NEW r \in Requests, Begin(c, r)
  PROVE  /\ call' \in [Calls -> CallRecord]
         /\ \A d \in Calls \ {c} : call'[d] = call[d]
         /\ call[c].pc = "idle"
         /\ call'[c].req = r /\ call'[c].dispatched = call[c].dispatched
         /\ \/ /\ call'[c].pc = "account" /\ call'[c].result = call[c].result
               /\ ValidShape(r)
            \/ call'[c].pc = "done" /\ call'[c].result \in {"unavailable", "invalid"}
         /\ r.op = "get_change" => r.receipt \in Calls /\ call[r.receipt].result = "ok"
         /\ tracked' \in [Services -> [Accounts -> Calls \cup {None}]]
         /\ UNCHANGED << account, keyRev, edits, zone, recs, hosted, wire, fresh >>
<1> DEFINE svc == Service(r)
           got == AccountSemaphore(c, svc, r.account)
           started == [call[c] EXCEPT !.req = r]
           new == call'[c]
<1>1. call[c] \in CallRecord /\ r \in Request /\ r.account \in Accounts
  BY CallType, ConfigAssumption DEF Request
<1>2. svc \in Services
  BY DEF Service, Services
<1>3. got.sem \in Calls \cup {None} /\ got.map \in [Accounts -> Calls \cup {None}]
  BY <1>1, <1>2, SemaphoreType
<1> HIDE DEF got
<1>4. started \in CallRecord /\ started.pc = call[c].pc /\ started.req = r
      /\ started.dispatched = call[c].dispatched /\ started.result = call[c].result
  BY <1>1 DEF CallRecord
<1>5. ASSUME NEW result \in {"unavailable", "invalid"}
      PROVE  LET n == [started EXCEPT !.pc = "done", !.result = result] IN
             /\ n \in CallRecord /\ n.pc = "done" /\ n.result = result
             /\ n.req = r /\ n.dispatched = call[c].dispatched
  BY <1>4 DEF CallRecord, PCs, Results, Definite
<1>6. LET n == [started EXCEPT !.pc = "account", !.sem = got.sem] IN
      /\ n \in CallRecord /\ n.pc = "account" /\ n.result = call[c].result
      /\ n.req = r /\ n.dispatched = call[c].dispatched
  BY <1>3, <1>4 DEF CallRecord, PCs, Waiting
<1> HIDE DEF started
<1>7. call[c].pc = "idle" /\ UNCHANGED << account, keyRev, edits, zone, recs, hosted, wire, fresh >>
  BY DEF Begin, authority, provider
<1>8. r.op = "get_change" => r.receipt \in Calls /\ call[r.receipt].result = "ok"
  BY ConfigAssumption DEF Begin
<1>9. PICK n : /\ call' = [call EXCEPT ![c] = n]
               /\ \/ n = [started EXCEPT !.pc = "done", !.result = "unavailable"]
                  \/ n = [started EXCEPT !.pc = "done", !.result = "invalid"]
                  \/ n = [started EXCEPT !.pc = "account", !.sem = got.sem] /\ ValidShape(r)
  <2>1. CASE ValidShape(r)
    BY <2>1 DEF Begin, started, got
  <2>2. CASE ~ValidShape(r)
    BY <2>2 DEF Begin, started, got
  <2> QED BY <2>1, <2>2
<1>10. call'[c] = n /\ \A d \in Calls \ {c} : call'[d] = call[d]
  BY <1>9 DEF TypeOK
<1>11. n \in CallRecord
  BY <1>5, <1>6, <1>9
<1>12. call' \in [Calls -> CallRecord]
  BY <1>9, <1>11 DEF TypeOK
<1>13. tracked' \in [Services -> [Accounts -> Calls \cup {None}]]
  <2>1. CASE ValidShape(r)
    <3>1. tracked' = [tracked EXCEPT ![svc] = got.map]
      BY <2>1 DEF Begin, got
    <3> QED BY <1>2, <1>3, <3>1 DEF TypeOK
  <2>2. CASE ~ValidShape(r)
    BY <2>2 DEF Begin, TypeOK
  <2> QED BY <2>1, <2>2
<1>14. /\ call'[c].req = r /\ call'[c].dispatched = call[c].dispatched
       /\ \/ /\ call'[c].pc = "account" /\ call'[c].result = call[c].result
             /\ ValidShape(r)
          \/ call'[c].pc = "done" /\ call'[c].result \in {"unavailable", "invalid"}
  BY <1>5, <1>6, <1>9, <1>10
<1> QED BY <1>7, <1>8, <1>10, <1>12, <1>13, <1>14

LEMMA ExecuteShape ==
  ASSUME TypeOK, NEW c \in Calls, Execute(c)
  PROVE  /\ wire[c] = "inflight"
         /\ \E w \in Wires \ {"none", "inflight"} : wire' = [wire EXCEPT ![c] = w]
         /\ \/ hosted' = hosted
            \/ /\ ~(\E z \in hosted : z.ref = CallerReference(c))
               /\ hosted' = hosted \cup
                    {[ref |-> CallerReference(c), account |-> Acct(c),
                      idem |-> call[c].req.idem, listed |-> FALSE]}
         /\ wire'[c] = "applied" /\ call[c].req.op = "create_zone" =>
              \E z \in hosted' : z.ref = CallerReference(c)
         /\ UNCHANGED << account, keyRev, edits, tracked, call >>
<1>1. wire[c] = "inflight" /\ UNCHANGED << account, keyRev, edits, tracked, call >>
  BY DEF Execute, authority
<1>2. CASE ExecuteChange(c)
  BY <1>1, <1>2 DEF ExecuteChange, TypeOK, Wires
<1>3. CASE ExecuteCreate(c)
  <2>1. CASE \E z \in hosted : z.ref = CallerReference(c)
    BY <1>1, <1>3, <2>1 DEF ExecuteCreate, TypeOK, Wires
  <2>2. CASE ~(\E z \in hosted : z.ref = CallerReference(c))
    <3> DEFINE new == [ref |-> CallerReference(c), account |-> Acct(c),
                       idem |-> call[c].req.idem, listed |-> FALSE]
    <3>1. hosted' = hosted \cup {new} /\ wire' = [wire EXCEPT ![c] = "applied"]
      BY <1>3, <2>2 DEF ExecuteCreate
    <3>2. new \in hosted' /\ new.ref = CallerReference(c)
      BY <3>1
    <3> QED BY <1>1, <2>2, <3>1, <3>2 DEF Wires
  <2> QED BY <2>1, <2>2
<1>4. CASE ExecuteDelete(c)
  BY <1>1, <1>4 DEF ExecuteDelete, TypeOK, Wires
<1>5. CASE /\ \E w \in {"invalid", "throttled", "lost"} : wire' = [wire EXCEPT ![c] = w]
           /\ UNCHANGED << zone, recs, hosted, fresh >>
  BY <1>1, <1>5 DEF TypeOK, Wires
<1> QED BY <1>2, <1>3, <1>4, <1>5 DEF Execute

\* Somebody else's step leaves the calls and their mutations alone.
LEMMA OthersKeep ==
  ASSUME \/ ListZone
         \/ \E a \in Accounts : EditRecords(a) \/ EditAccount(a) \/ RotateKeys(a)
         \/ UNCHANGED vars
  PROVE  /\ UNCHANGED << wire, tracked, call >>
         /\ \/ hosted' = hosted
            \/ \E z \in hosted : hosted' = (hosted \ {z}) \cup {[z EXCEPT !.listed = TRUE]}
  BY DEF ListZone, EditRecords, EditAccount, RotateKeys, vars, provider, authority

-----------------------------------------------------------------------------
(***************************************************************************)
(* Types                                                                   *)
(***************************************************************************)

HostedZone == [ref: Accounts \X Nat, account: Accounts, idem: Nat, listed: BOOLEAN]

LEMMA AfterBatchType ==
  ASSUME TypeOK, NEW c \in Calls
  PROVE  AfterBatch(ChangeBatch(call[c].req.changes), Acct(c))
           \in [Keys -> Contents \cup {None}]
<1> DEFINE changes == call[c].req.changes
           batch == ChangeBatch(changes)
<1>1. changes \in Seq(Change) /\ Acct(c) \in Accounts
  BY CallType DEF CallRecord, Request
<1>2. \A i \in DOMAIN changes : changes[i] \in Change
  BY <1>1
<1>3. \A x \in batch : x.act # "DELETE" => x.content \in Contents \cup {None}
  <2> SUFFICES ASSUME NEW i \in DOMAIN changes, NEW x \in ProviderActions(changes[i]),
                      x.act # "DELETE"
               PROVE  x.content \in Contents \cup {None}
    BY DEF ChangeBatch
  <2> QED BY <1>2 DEF ProviderActions, Change
<1>4. recs[Acct(c)] \in [Keys -> Contents \cup {None}]
  BY <1>1 DEF TypeOK
<1> HIDE DEF batch
<1>5. ASSUME NEW k \in Keys, \E x \in batch : x.key = k /\ x.act # "DELETE"
      PROVE  (CHOOSE x \in batch : x.key = k /\ x.act # "DELETE").content
               \in Contents \cup {None}
  BY <1>3, <1>5
<1> QED BY <1>4, <1>5 DEF AfterBatch, batch

LEMMA TypeStep ==
  ASSUME IInv, [Next]_vars
  PROVE  TypeOK'
<1>0. TypeOK
  BY DEF IInv
<1>1. ASSUME NEW c \in Calls, NEW r \in Requests, Begin(c, r) PROVE TypeOK'
  BY <1>0, <1>1, BeginShape DEF TypeOK
<1>2. ASSUME NEW c \in Calls, CallStep(c) PROVE TypeOK'
  <2>1. call' \in [Calls -> CallRecord] /\ wire' \in [Calls -> Wires]
    BY <1>0, <1>2, CallStepOnly DEF Only, TypeOK, Wires
  <2> QED BY <1>0, <1>2, <2>1, CallStepKeeps DEF TypeOK
<1>3. ASSUME NEW c \in Calls, Execute(c) PROVE TypeOK'
  <2>1. wire' \in [Calls -> Wires]
    BY <1>0, <1>3, ExecuteShape DEF TypeOK
  <2>2. hosted' \subseteq HostedZone
    <3>1. call[c].req.idem \in Nat /\ Acct(c) \in Accounts
      BY <1>0, CallType DEF CallRecord, Request
    <3>2. [ref |-> CallerReference(c), account |-> Acct(c),
           idem |-> call[c].req.idem, listed |-> FALSE] \in HostedZone
      BY <3>1 DEF HostedZone, CallerReference
    <3>3. hosted \subseteq HostedZone
      BY <1>0 DEF TypeOK, HostedZone
    <3> QED BY <1>0, <1>3, <3>2, <3>3, ExecuteShape
  <2>3. /\ zone' \in [Accounts -> BOOLEAN] /\ fresh' \subseteq Calls
        /\ recs' \in [Accounts -> [Keys -> Contents \cup {None}]]
    <3>1. Acct(c) \in Accounts
      BY <1>0, CallType
    <3>2. CASE ExecuteChange(c)
      BY <1>0, <3>1, <3>2, AfterBatchType DEF ExecuteChange, TypeOK
    <3>3. CASE ExecuteCreate(c)
      BY <1>0, <3>3 DEF ExecuteCreate, TypeOK
    <3>4. CASE ExecuteDelete(c)
      BY <1>0, <3>1, <3>4 DEF ExecuteDelete, TypeOK
    <3>5. CASE UNCHANGED << zone, recs, hosted, fresh >>
      BY <1>0, <3>5 DEF TypeOK
    <3> QED BY <1>3, <3>2, <3>3, <3>4, <3>5 DEF Execute
  <2> QED BY <1>0, <1>3, <2>1, <2>2, <2>3, ExecuteShape DEF TypeOK, HostedZone
<1>4. ASSUME ListZone PROVE TypeOK'
  <2>1. PICK z \in hosted : hosted' = (hosted \ {z}) \cup {[z EXCEPT !.listed = TRUE]}
    BY <1>4 DEF ListZone
  <2>2. z \in HostedZone /\ hosted \subseteq HostedZone
    BY <1>0 DEF TypeOK, HostedZone
  <2>3. [z EXCEPT !.listed = TRUE] \in HostedZone
    BY <2>2 DEF HostedZone
  <2> QED BY <1>0, <1>4, <2>1, <2>2, <2>3 DEF ListZone, TypeOK, HostedZone, authority
<1>5. ASSUME NEW a \in Accounts, EditRecords(a) PROVE TypeOK'
  <2>1. edits' \in 0..MaxEdits
    BY <1>0, <1>5, ConfigAssumption DEF EditRecords, TypeOK
  <2>2. PICK k \in Keys, v \in Contents \cup {None} : recs' = [recs EXCEPT ![a][k] = v]
    BY <1>5 DEF EditRecords
  <2>3. recs' \in [Accounts -> [Keys -> Contents \cup {None}]]
    BY <1>0, <2>2 DEF TypeOK
  <2> QED BY <1>0, <1>5, <2>1, <2>3 DEF EditRecords, TypeOK
<1>6. ASSUME NEW a \in Accounts, EditAccount(a) PROVE TypeOK'
  <2>1. edits' \in 0..MaxEdits
    BY <1>0, <1>6, ConfigAssumption DEF EditAccount, TypeOK
  <2>2. PICK p \in Policies : account' = [account EXCEPT ![a] = [gen |-> @.gen + 1, policy |-> p]]
    BY <1>6 DEF EditAccount
  <2>3. account[a].gen \in Nat
    BY <1>0 DEF TypeOK, AccountRow
  <2>4. account' \in [Accounts -> AccountRow]
    BY <1>0, <2>2, <2>3 DEF TypeOK, AccountRow
  <2> QED BY <1>0, <1>6, <2>1, <2>4 DEF EditAccount, TypeOK, provider
<1>7. ASSUME NEW a \in Accounts, RotateKeys(a) PROVE TypeOK'
  <2>1. edits' \in 0..MaxEdits
    BY <1>0, <1>7, ConfigAssumption DEF RotateKeys, TypeOK
  <2> QED BY <1>0, <1>7, <2>1 DEF RotateKeys, TypeOK, provider
<1>8. ASSUME UNCHANGED vars PROVE TypeOK'
  BY <1>0, <1>8 DEF vars, TypeOK
<1> QED BY <1>1, <1>2, <1>3, <1>4, <1>5, <1>6, <1>7, <1>8 DEF Next

-----------------------------------------------------------------------------
(***************************************************************************)
(* What no step takes back                                                 *)
(***************************************************************************)

Grows ==
    /\ \A e \in Calls : call[e].pc # "idle" =>
          call'[e].req = call[e].req /\ call'[e].pc # "idle"
    /\ \A e \in Calls : call[e].pc = "done" => call'[e] = call[e]
    /\ \A e \in Calls : wire[e] = "applied" => wire'[e] = "applied"
    /\ \A z \in hosted : \E y \in hosted' : y.ref = z.ref

LEMMA GrowsStep ==
  ASSUME IInv, [Next]_vars
  PROVE  Grows
<1>0. TypeOK
  BY DEF IInv
<1>1. ASSUME NEW c \in Calls, NEW r \in Requests, Begin(c, r) PROVE Grows
  <2>1. call[c].pc = "idle" /\ \A d \in Calls \ {c} : call'[d] = call[d]
    BY <1>0, <1>1, BeginShape
  <2>2. UNCHANGED << hosted, wire >>
    BY <1>0, <1>1, BeginShape
  <2> QED BY <2>1, <2>2 DEF Grows
<1>2. ASSUME NEW c \in Calls, CallStep(c) PROVE Grows
  <2>1. /\ \A d \in Calls \ {c} : call'[d] = call[d]
        /\ call'[c].req = call[c].req /\ call'[c].pc # "idle" /\ call[c].pc # "done"
    BY <1>2, CallStepOnly DEF Only
  <2>2. \A e \in Calls : wire[e] = "applied" => wire'[e] = "applied"
    BY <1>0, <1>2, CallStepOnly DEF TypeOK
  <2>3. hosted' = hosted
    BY <1>2, CallStepKeeps
  <2> QED BY <2>1, <2>2, <2>3 DEF Grows
<1>3. ASSUME NEW c \in Calls, Execute(c) PROVE Grows
  <2>1. \A e \in Calls : wire[e] = "applied" => wire'[e] = "applied"
    BY <1>0, <1>3, ExecuteShape DEF TypeOK
  <2>2. call' = call /\ hosted \subseteq hosted'
    BY <1>0, <1>3, ExecuteShape
  <2> QED BY <2>1, <2>2 DEF Grows
<1>4. ASSUME \/ ListZone
             \/ \E a \in Accounts : EditRecords(a) \/ EditAccount(a) \/ RotateKeys(a)
             \/ UNCHANGED vars
      PROVE Grows
  <2>1. UNCHANGED << wire, call >>
    BY <1>4, OthersKeep
  <2>2. \A z \in hosted : \E y \in hosted' : y.ref = z.ref
    <3>1. CASE hosted' = hosted
      BY <3>1
    <3>2. ASSUME NEW x \in hosted, hosted' = (hosted \ {x}) \cup {[x EXCEPT !.listed = TRUE]}
          PROVE  \A z \in hosted : \E y \in hosted' : y.ref = z.ref
      <4>1. x \in HostedZone
        BY <1>0 DEF TypeOK, HostedZone
      <4>2. [x EXCEPT !.listed = TRUE].ref = x.ref
        BY <4>1 DEF HostedZone
      <4> QED BY <3>2, <4>2
    <3> QED BY <1>4, <3>1, <3>2, OthersKeep
  <2> QED BY <2>1, <2>2 DEF Grows
<1> QED BY <1>1, <1>2, <1>3, <1>4 DEF Next

\* So what a call has confirmed stays confirmed.
LEMMA ConfirmedStays ==
  ASSUME IInv, Grows, NEW c \in Calls, call[c].pc # "idle", Confirmed(c)
  PROVE  Confirmed(c)'
<1>1. call'[c].req = call[c].req
  BY DEF Grows
<1>2. ASSUME call[c].req.op = "get_change"
      PROVE  /\ wire'[call[c].req.receipt] = "applied"
             /\ call'[call[c].req.receipt].req.account = Acct(c)
  <2> DEFINE e == call[c].req.receipt
  <2>1. e \in Calls /\ call[e].result = "ok" /\ wire[e] = "applied"
        /\ call[e].req.account = Acct(c)
    BY <1>2 DEF IInv, ReceiptOK, Confirmed
  <2>2. call[e].pc # "idle"
    BY <2>1 DEF IInv, Truthful
  <2> QED BY <2>1, <2>2 DEF Grows
<1>3. (Acct(c))' = Acct(c) /\ (CallerReference(c))' = CallerReference(c)
  BY <1>1 DEF Acct, CallerReference
<1> QED BY <1>1, <1>2, <1>3 DEF Confirmed, Grows

-----------------------------------------------------------------------------
(***************************************************************************)
(* The calls                                                               *)
(***************************************************************************)

\* A call nothing has happened to but, perhaps, the execution of its mutation.
LEMMA TruthfulRest ==
  ASSUME IInv, Grows, NEW d \in Calls, call'[d] = call[d],
         wire'[d] = wire[d] \/ wire[d] = "inflight"
  PROVE  Placed(d)' /\ Truthful(d)'
<1>1. Placed(d) /\ Truthful(d)
  BY DEF IInv
<1>2. Placed(d)'
  BY <1>1 DEF Placed
<1>3. call[d].pc # "idle" /\ Confirmed(d) => Confirmed(d)'
  BY ConfirmedStays
<1>4. CASE wire'[d] = wire[d]
  BY <1>1, <1>2, <1>3, <1>4 DEF Truthful
<1>5. CASE wire[d] = "inflight"
  BY <1>1, <1>2, <1>3, <1>5 DEF Truthful
<1> QED BY <1>4, <1>5

LEMMA TruthfulStep ==
  ASSUME IInv, [Next]_vars
  PROVE  \A d \in Calls : Placed(d)' /\ Truthful(d)'
<1>0. TypeOK /\ Grows
  BY GrowsStep DEF IInv
<1>1. ASSUME NEW c \in Calls, NEW r \in Requests, Begin(c, r)
      PROVE  \A d \in Calls : Placed(d)' /\ Truthful(d)'
  <2>1. /\ call[c].pc = "idle" /\ \A d \in Calls \ {c} : call'[d] = call[d]
        /\ call'[c].dispatched = call[c].dispatched /\ wire' = wire
        /\ \/ call'[c].pc = "account" /\ call'[c].result = call[c].result
           \/ call'[c].pc = "done" /\ call'[c].result \in {"unavailable", "invalid"}
    BY <1>0, <1>1, BeginShape
  <2>2. wire[c] = "none" /\ ~call[c].dispatched /\ call[c].result = "none"
    BY <2>1 DEF IInv, Truthful, Early
  <2>3. Placed(c)'
    BY <2>1 DEF Placed, Places
  <2>4. "account" \in Early
    BY EarlySteps
  <2>5. Truthful(c)'
    BY <2>1, <2>2, <2>4 DEF Truthful
  <2>6. ASSUME NEW d \in Calls \ {c} PROVE Placed(d)' /\ Truthful(d)'
    BY <1>0, <2>1, TruthfulRest
  <2> QED BY <2>3, <2>5, <2>6
<1>2. ASSUME NEW c \in Calls, CallStep(c)
      PROVE  \A d \in Calls : Placed(d)' /\ Truthful(d)'
  <2>0. Placed(c) /\ Truthful(c)
    BY DEF IInv
  <2>1. ASSUME NEW d \in Calls \ {c} PROVE Placed(d)' /\ Truthful(d)'
    <3>1. call'[d] = call[d] /\ wire'[d] = wire[d]
      BY <1>0, <1>2, CallStepOnly DEF Only, TypeOK
    <3> QED BY <1>0, <3>1, TruthfulRest
  <2>2. call[c].pc # "idle" /\ Confirmed(c) => Confirmed(c)'
    BY <1>0, ConfirmedStays
  <2>3. CASE Advances(c)
    <3>1. PICK pc \in Early \ {"idle"} : Moves(c, pc) /\ pc \in Places(call[c].req.op)
      BY <2>3 DEF Advances
    <3>2. wire' = wire /\ call[c].pc \in Early
      BY <2>3 DEF Advances
    <3>3. Placed(c)'
      BY <3>1 DEF Placed, Moves, Only
    <3>4. call[c].pc \notin {"sent", "verify", "done"} /\ pc \notin {"sent", "verify", "done"}
      BY <2>3, <3>1, EarlySteps DEF Advances
    <3>5. Truthful(c)'
      BY <2>0, <3>1, <3>2, <3>4 DEF Truthful, Moves, Only
    <3> QED BY <2>1, <3>3, <3>5
  <2>4. CASE Refuses(c)
    <3>1. PICK r \in Definite \cup {"unknown"} :
            Ends(c, r) /\ (r = "unknown" \/ wire[c] \notin {"inflight", "applied"})
      BY <2>4 DEF Refuses
    <3>2. Placed(c)'
      BY <3>1 DEF Placed, Places, Ends
    <3>3. "done" \notin Early /\ r \notin {"none", "ok"} /\ "unknown" \notin Definite
      BY <3>1 DEF Early, Waiting, Working, Definite
    <3>4. Truthful(c)'
      BY <2>0, <2>4, <3>1, <3>3 DEF Truthful, Ends, Only, Refuses
    <3> QED BY <2>1, <3>2, <3>4
  <2>5. CASE Sends(c)
    <3>1. call[c].req.op \in {"change", "create_zone", "delete_zone"}
      <4>1. call[c].req.op \in Ops
        BY <1>0, CallType DEF CallRecord, Request
      <4> QED BY <2>0, <2>5, <4>1 DEF Sends, Placed, Places, Ops
    <3>2. Placed(c)'
      BY <2>5, <3>1 DEF Sends, Placed, Places, Only
    <3>3. "sent" \notin Early
      BY DEF Early, Waiting, Working
    <3>4. call[c].result = "none"
      BY <2>0, <2>5 DEF Truthful, Sends
    <3>5. Truthful(c)'
      BY <1>0, <2>5, <3>1, <3>3, <3>4 DEF Truthful, Sends, Only, TypeOK
    <3> QED BY <2>1, <3>2, <3>5
  <2>6. CASE Confirms(c)
    <3>1. Placed(c)'
      BY <2>6 DEF Placed, Places, Confirms, Moves
    <3>2. "verify" \notin Early
      BY DEF Early, Waiting, Working
    <3>3. Truthful(c)'
      BY <2>0, <2>2, <2>6, <3>2 DEF Truthful, Confirms, Moves, Only
    <3> QED BY <2>1, <3>1, <3>3
  <2>7. CASE Succeeds(c)
    <3>1. Placed(c)'
      BY <2>7 DEF Placed, Places, Succeeds, Ends
    <3>2. "done" \notin Early /\ "ok" \notin Definite
      BY DEF Early, Waiting, Working, Definite
    <3>3. Truthful(c)'
      BY <2>0, <2>2, <2>7, <3>2 DEF Truthful, Succeeds, Ends, Only
    <3> QED BY <2>1, <3>1, <3>3
  <2> QED BY <1>2, <2>3, <2>4, <2>5, <2>6, <2>7, CallStepShape
<1>3. ASSUME NEW c \in Calls, Execute(c)
      PROVE  \A d \in Calls : Placed(d)' /\ Truthful(d)'
  <2>1. call' = call /\ wire[c] = "inflight"
        /\ \A d \in Calls \ {c} : wire'[d] = wire[d]
    BY <1>0, <1>3, ExecuteShape DEF TypeOK
  <2> QED BY <1>0, <2>1, TruthfulRest
<1>4. ASSUME \/ ListZone
             \/ \E a \in Accounts : EditRecords(a) \/ EditAccount(a) \/ RotateKeys(a)
             \/ UNCHANGED vars
      PROVE  \A d \in Calls : Placed(d)' /\ Truthful(d)'
  BY <1>0, <1>4, OthersKeep, TruthfulRest
<1> QED BY <1>1, <1>2, <1>3, <1>4 DEF Next

LEMMA ReceiptStep ==
  ASSUME IInv, [Next]_vars
  PROVE  \A d \in Calls : ReceiptOK(d)'
<1>0. TypeOK /\ Grows
  BY GrowsStep DEF IInv
<1>1. ASSUME NEW e \in Calls, call[e].result = "ok" PROVE call'[e] = call[e]
  BY <1>0, <1>1 DEF IInv, Truthful, Grows
<1>2. ASSUME NEW d \in Calls, call'[d] = call[d] PROVE ReceiptOK(d)'
  <2>1. ReceiptOK(d)
    BY DEF IInv
  <2> QED BY <1>1, <1>2, <2>1 DEF ReceiptOK, Acct
<1>3. ASSUME NEW c \in Calls, NEW r \in Requests, Begin(c, r)
      PROVE  \A d \in Calls : ReceiptOK(d)'
  <2>1. /\ \A d \in Calls \ {c} : call'[d] = call[d]
        /\ call'[c].req = r /\ call'[c].pc \in {"account", "done"}
        /\ r.op = "get_change" => r.receipt \in Calls /\ call[r.receipt].result = "ok"
    BY <1>0, <1>3, BeginShape
  <2>2. ReceiptOK(c)'
    BY <1>1, <2>1 DEF ReceiptOK, Scoped
  <2> QED BY <1>2, <2>1, <2>2
<1>4. ASSUME NEW c \in Calls, CallStep(c) PROVE \A d \in Calls : ReceiptOK(d)'
  <2>0. ReceiptOK(c)
    BY DEF IInv
  <2>1. /\ \A d \in Calls \ {c} : call'[d] = call[d]
        /\ call'[c].req = call[c].req /\ call[c].pc # "idle"
    BY <1>4, CallStepOnly DEF Only
  <2>2. ASSUME call[c].req.op = "get_change", call'[c].pc \in Scoped
        PROVE  call[call[c].req.receipt].req.account = Acct(c)
    <3>1. CASE Advances(c)
      BY <2>0, <2>1, <2>2, <3>1 DEF Advances, Moves, ReceiptOK
    <3>2. CASE Refuses(c) \/ Succeeds(c)
      BY <2>2, <3>2 DEF Refuses, Succeeds, Ends, Scoped
    <3>3. CASE Sends(c)
      BY <2>2, <3>3 DEF Sends, Scoped
    <3>4. CASE Confirms(c)
      BY <2>2, <3>4 DEF Confirms, Confirmed
    <3> QED BY <1>4, <3>1, <3>2, <3>3, <3>4, CallStepShape
  <2>3. ASSUME call[c].req.op = "get_change"
        PROVE  /\ call[c].req.receipt \in Calls /\ call[call[c].req.receipt].result = "ok"
               /\ call'[call[c].req.receipt] = call[call[c].req.receipt]
    BY <1>1, <2>0, <2>1, <2>3 DEF ReceiptOK
  <2>4. ReceiptOK(c)'
    BY <2>1, <2>2, <2>3 DEF ReceiptOK, Acct
  <2> QED BY <1>2, <2>1, <2>4
<1>5. ASSUME NEW c \in Calls, Execute(c) PROVE \A d \in Calls : ReceiptOK(d)'
  BY <1>0, <1>2, <1>5, ExecuteShape
<1>6. ASSUME \/ ListZone
             \/ \E a \in Accounts : EditRecords(a) \/ EditAccount(a) \/ RotateKeys(a)
             \/ UNCHANGED vars
      PROVE  \A d \in Calls : ReceiptOK(d)'
  BY <1>2, <1>6, OthersKeep
<1> QED BY <1>3, <1>4, <1>5, <1>6 DEF Next

LEMMA SentStep ==
  ASSUME IInv, [Next]_vars
  PROVE  SentOK'
<1>0. TypeOK /\ SentOK
  BY DEF IInv
<1>1. ASSUME NEW c \in Calls, NEW r \in Requests, Begin(c, r) PROVE SentOK'
  <2>1. /\ \A d \in Calls \ {c} : call'[d] = call[d]
        /\ call[c].pc = "idle" /\ call'[c].req = r
        /\ ValidShape(r) \/ call'[c].pc = "done"
        /\ wire' = wire
    BY <1>0, <1>1, BeginShape
  <2>2. wire[c] = "none"
    BY <2>1 DEF IInv, Truthful, Early
  <2> QED BY <1>0, <2>1, <2>2 DEF SentOK
<1>2. ASSUME NEW c \in Calls, CallStep(c) PROVE SentOK'
  <2>1. /\ \A d \in Calls \ {c} : call'[d] = call[d] /\ wire'[d] = wire[d]
        /\ call'[c].req = call[c].req /\ call[c].pc \notin {"idle", "done"}
    BY <1>0, <1>2, CallStepOnly DEF Only, TypeOK
  <2> QED BY <1>0, <2>1 DEF SentOK
<1>3. ASSUME NEW c \in Calls, Execute(c) PROVE SentOK'
  <2>1. call' = call /\ wire[c] # "none" /\ \A d \in Calls \ {c} : wire'[d] = wire[d]
    BY <1>0, <1>3, ExecuteShape DEF TypeOK
  <2> QED BY <1>0, <2>1 DEF SentOK
<1>4. ASSUME \/ ListZone
             \/ \E a \in Accounts : EditRecords(a) \/ EditAccount(a) \/ RotateKeys(a)
             \/ UNCHANGED vars
      PROVE  SentOK'
  BY <1>0, <1>4, OthersKeep DEF SentOK
<1> QED BY <1>1, <1>2, <1>3, <1>4 DEF Next

LEMMA ZonesStep ==
  ASSUME IInv, [Next]_vars
  PROVE  ZonesOK'
<1>0. TypeOK /\ ZonesOK /\ Grows
  BY GrowsStep DEF IInv
<1>1. ASSUME hosted' = hosted,
             \A c \in Calls : wire'[c] = "applied" /\ call'[c].req.op = "create_zone" =>
                wire[c] = "applied" /\ call'[c].req = call[c].req
      PROVE  ZonesOK'
  BY <1>0, <1>1 DEF ZonesOK, CallerReference, Acct
<1>2. ASSUME NEW c \in Calls, NEW r \in Requests, Begin(c, r) PROVE ZonesOK'
  <2>1. /\ \A d \in Calls \ {c} : call'[d] = call[d]
        /\ call[c].pc = "idle" /\ UNCHANGED << wire, hosted >>
    BY <1>0, <1>2, BeginShape
  <2>2. wire[c] = "none"
    BY <2>1 DEF IInv, Truthful, Early
  <2> QED BY <1>1, <2>1, <2>2
<1>3. ASSUME NEW c \in Calls, CallStep(c) PROVE ZonesOK'
  <2>1. \A d \in Calls : call'[d].req = call[d].req
    BY <1>3, CallStepOnly DEF Only
  <2>2. \A d \in Calls : wire'[d] = "applied" => wire[d] = "applied"
    BY <1>0, <1>3, CallStepOnly DEF TypeOK
  <2> QED BY <1>1, <1>3, <2>1, <2>2, CallStepKeeps
<1>4. ASSUME NEW c \in Calls, Execute(c) PROVE ZonesOK'
  <2> DEFINE new == [ref |-> CallerReference(c), account |-> Acct(c),
                     idem |-> call[c].req.idem, listed |-> FALSE]
  <2>1. /\ call' = call /\ \A d \in Calls \ {c} : wire'[d] = wire[d]
        /\ wire'[c] = "applied" /\ call[c].req.op = "create_zone" =>
              \E z \in hosted' : z.ref = CallerReference(c)
    BY <1>0, <1>4, ExecuteShape DEF TypeOK
  <2>2. \/ hosted' = hosted
        \/ ~(\E z \in hosted : z.ref = CallerReference(c)) /\ hosted' = hosted \cup {new}
    BY <1>0, <1>4, ExecuteShape
  <2>3. new.ref = <<new.account, new.idem>> /\ new.ref = CallerReference(c)
    BY DEF CallerReference
  <2> HIDE DEF new
  <2>4. /\ \A z \in hosted' : z.ref = <<z.account, z.idem>>
        /\ \A y, z \in hosted' : y.ref = z.ref => y = z
    BY <1>0, <2>2, <2>3 DEF ZonesOK
  <2>5. \A d \in Calls : wire'[d] = "applied" /\ call[d].req.op = "create_zone" =>
          \E z \in hosted' : z.ref = CallerReference(d)
    BY <1>0, <2>1, <2>2 DEF ZonesOK
  <2> QED BY <2>1, <2>4, <2>5 DEF ZonesOK, CallerReference, Acct
<1>5. ASSUME \/ ListZone
             \/ \E a \in Accounts : EditRecords(a) \/ EditAccount(a) \/ RotateKeys(a)
             \/ UNCHANGED vars
      PROVE  ZonesOK'
  <2>1. UNCHANGED << wire, call >>
    BY <1>5, OthersKeep
  <2>2. CASE hosted' = hosted
    BY <1>1, <2>1, <2>2
  <2>3. ASSUME NEW x \in hosted, hosted' = (hosted \ {x}) \cup {[x EXCEPT !.listed = TRUE]}
        PROVE  ZonesOK'
    <3> DEFINE new == [x EXCEPT !.listed = TRUE]
    <3>1. x \in HostedZone
      BY <1>0 DEF TypeOK, HostedZone
    <3>2. new.ref = x.ref /\ new.account = x.account /\ new.idem = x.idem
      BY <3>1 DEF HostedZone
    <3> HIDE DEF new
    <3>3. hosted' = (hosted \ {x}) \cup {new}
      BY <2>3 DEF new
    <3>4. /\ \A z \in hosted' : z.ref = <<z.account, z.idem>>
          /\ \A y, z \in hosted' : y.ref = z.ref => y = z
      BY <1>0, <3>2, <3>3 DEF ZonesOK
    <3>5. \A d \in Calls : wire[d] = "applied" /\ call[d].req.op = "create_zone" =>
            \E z \in hosted' : z.ref = CallerReference(d)
      BY <1>0, <3>2, <3>3 DEF ZonesOK
    <3> QED BY <2>1, <3>4, <3>5 DEF ZonesOK, CallerReference, Acct
  <2> QED BY <1>5, <2>2, <2>3, OthersKeep
<1> QED BY <1>2, <1>3, <1>4, <1>5 DEF Next

-----------------------------------------------------------------------------
(***************************************************************************)
(* Theorems                                                                *)
(***************************************************************************)

LEMMA InitHolds ==
  ASSUME Init
  PROVE  IInv
<1> DEFINE idle == [pc |-> "idle", req |-> NoRequest, sem |-> None, snap |-> NoSnapshot,
                    view |-> NoView, pos |-> 0, dispatched |-> FALSE, result |-> "none"]
<1>1. NoRequest \in Request
  <2>1. (CHOOSE a \in Accounts : TRUE) \in Accounts
    BY ConfigAssumption
  <2>2. << >> \in Seq(Change)
    OBVIOUS
  <2> QED BY <2>1, <2>2 DEF NoRequest, Request, Ops
<1>2. idle \in CallRecord
  BY <1>1 DEF CallRecord, NoSnapshot, Snapshot, AccountRow, Policies, NoView, PCs, Results
<1>3. TypeOK
  <2>1. edits \in 0..MaxEdits
    BY ConfigAssumption DEF Init
  <2>2. call \in [Calls -> CallRecord]
    BY <1>2 DEF Init
  <2>3. recs \in [Accounts -> [Keys -> Contents \cup {None}]]
    BY ConfigAssumption DEF Init
  <2> QED BY <2>1, <2>2, <2>3 DEF Init, TypeOK, AccountRow, Policies, Wires
<1>4. \A c \in Calls : call[c] = idle /\ wire[c] = "none"
  BY DEF Init
<1>5. ASSUME NEW c \in Calls PROVE Placed(c) /\ Truthful(c) /\ ReceiptOK(c)
  <2>1. /\ call[c].pc = "idle" /\ call[c].result = "none" /\ ~call[c].dispatched
        /\ call[c].req.op = "change" /\ wire[c] = "none"
    <3>1. NoRequest.op = "change"
      BY DEF NoRequest
    <3>2. call[c].pc = "idle" /\ call[c].result = "none" /\ call[c].req = NoRequest
      BY <1>4
    <3>3. call[c].dispatched = FALSE
      BY <1>4
    <3> QED BY <1>4, <3>1, <3>2, <3>3
  <2>2. Placed(c) /\ ReceiptOK(c)
    BY <2>1 DEF Placed, Places, ReceiptOK
  <2> QED BY <2>1, <2>2 DEF Truthful
<1>6. ZonesOK /\ SentOK
  BY <1>4 DEF ZonesOK, SentOK, Init
<1> QED BY <1>3, <1>5, <1>6 DEF IInv

\* The invariant holds in every behaviour.
THEOREM Invariance == Spec => []IInv
<1>1. Init => IInv
  BY InitHolds
<1>2. IInv /\ [Next]_vars => IInv'
  BY TypeStep, TruthfulStep, ReceiptStep, ZonesStep, SentStep DEF IInv
<1> QED BY <1>1, <1>2, PTL DEF Spec

\* Type correctness of the calls, the provider's zones and the semaphores.
THEOREM TypeCorrect == Spec => []TypeOK
<1>1. IInv => TypeOK
  BY DEF IInv
<1> QED BY <1>1, Invariance, PTL

\* What a call answers is true of Route 53, now and later: a definite refusal
\* (an expired deadline before the dispatch, a failed fence, a rejected batch)
\* means that its mutation was not and will not be executed, and success that it
\* was, for every interleaving of calls, edits, rotations and lost responses.
THEOREM Outcomes == Spec => []OutcomeIsTruthful
<1>1. IInv => OutcomeIsTruthful
  <2> SUFFICES ASSUME IInv, NEW c \in Calls
               PROVE  /\ call[c].result \in Definite => wire[c] \notin {"inflight", "applied"}
                      /\ call[c].result = "ok" =>
                          CASE call[c].req.op \in {"change", "delete_zone"} -> wire[c] = "applied"
                            [] call[c].req.op = "create_zone" ->
                                  \E z \in hosted : z.ref = CallerReference(c)
                            [] call[c].req.op = "get_change" ->
                                  /\ wire[call[c].req.receipt] = "applied"
                                  /\ call[call[c].req.receipt].req.account = Acct(c)
    BY DEF OutcomeIsTruthful
  <2>1. Truthful(c) /\ call[c].req.op \in Ops
    BY CallType DEF IInv, CallRecord, Request
  <2>2. call[c].result \in Definite \cup {"ok"} => call[c].pc = "done"
    BY <2>1 DEF Truthful, Definite
  <2>3. call[c].result = "ok" => Confirmed(c)
    BY <2>1, <2>2 DEF Truthful
  <2>4. call[c].result \in Definite => wire[c] \notin {"inflight", "applied"}
    BY <2>1, <2>2 DEF Truthful
  <2> QED BY <2>1, <2>3, <2>4 DEF Confirmed, Ops
<1> QED BY <1>1, Invariance, PTL

\* However often a create is retried, an account and an idempotency key own at
\* most one hosted zone: the caller reference depends on nothing else.
THEOREM OneZone == Spec => []OneZonePerIdempotencyKey
<1>1. IInv => OneZonePerIdempotencyKey
  BY DEF IInv, ZonesOK, OneZonePerIdempotencyKey
<1> QED BY <1>1, Invariance, PTL

\* A mutation is executed by a step of the provider.
LEMMA AppliedBy ==
  ASSUME IInv, [Next]_vars, NEW c \in Calls, wire[c] = "inflight", wire'[c] = "applied",
         call[c].req.op = "change"
  PROVE  /\ ExecuteChange(c) /\ Accepts(ChangeBatch(call[c].req.changes), Acct(c))
         /\ call' = call
<1>0. TypeOK
  BY DEF IInv
<1>1. ASSUME NEW d \in Calls, NEW r \in Requests, Begin(d, r) PROVE FALSE
  BY <1>0, <1>1, BeginShape
<1>2. ASSUME NEW d \in Calls, CallStep(d) PROVE FALSE
  BY <1>0, <1>2, CallStepOnly DEF TypeOK
<1>3. ASSUME \/ ListZone
             \/ \E a \in Accounts : EditRecords(a) \/ EditAccount(a) \/ RotateKeys(a)
             \/ UNCHANGED vars
      PROVE  FALSE
  BY <1>3, OthersKeep
<1>4. PICK d \in Calls : Execute(d)
  BY <1>1, <1>2, <1>3 DEF Next
<1>5. d = c
  BY <1>0, <1>4, ExecuteShape DEF TypeOK
<1>6. ExecuteChange(c)
  BY <1>0, <1>4, <1>5 DEF Execute, ExecuteCreate, ExecuteDelete, TypeOK
<1>7. call' = call
  BY <1>4 DEF Execute
<1> QED BY <1>0, <1>6, <1>7 DEF ExecuteChange, TypeOK

\* A batch takes effect only on exactly the contents its guards named: an edit
\* made after the inventories were read makes Route 53 refuse the exact DELETEs
\* and the CREATEs of plan_change_batch.
THEOREM NoUpdateLost == Spec => NoLostUpdate
<1> DEFINE A(c) == wire[c] = "inflight" /\ wire'[c] = "applied" /\ call[c].req.op = "change" =>
            \A i \in DOMAIN call[c].req.changes :
                recs[Acct(c)][call[c].req.changes[i].key] = call[c].req.changes[i].guard
<1>1. ASSUME IInv, [Next]_vars, NEW c \in Calls PROVE A(c)
  <2> SUFFICES ASSUME wire[c] = "inflight", wire'[c] = "applied", call[c].req.op = "change",
                      NEW i \in DOMAIN call[c].req.changes
               PROVE  recs[Acct(c)][call[c].req.changes[i].key] = call[c].req.changes[i].guard
    OBVIOUS
  <2> DEFINE changes == call[c].req.changes
             ch == changes[i]
             batch == ChangeBatch(changes)
  <2>1. Accepts(batch, Acct(c))
    BY <1>1, AppliedBy
  <2>2. changes \in Seq(Change)
    BY <1>1, CallType DEF IInv, CallRecord, Request
  <2>3. ~HasDuplicates(changes)
    BY <1>1 DEF IInv, SentOK, ValidShape
  <2>4. \A j \in DOMAIN changes : changes[j] \in Change /\ ProviderActions(changes[j]) \subseteq batch
    BY <2>2 DEF ChangeBatch
  <2>5. CASE ch.guard # None
    <3>1. [act |-> "DELETE", key |-> ch.key, content |-> ch.guard] \in batch
      BY <2>4, <2>5 DEF ProviderActions
    <3> QED BY <2>1, <3>1 DEF Accepts
  <2>6. CASE ch.guard = None
    <3> DEFINE x == [act |-> "CREATE", key |-> ch.key, content |-> ch.desired]
    <3>1. ch.desired # None
      BY <2>4, <2>6 DEF Change
    <3>2. x \in batch
      BY <2>4, <3>1 DEF ProviderActions
    <3>3. \/ recs[Acct(c)][ch.key] = None
          \/ \E y \in batch : y.act = "DELETE" /\ y.key = ch.key
      BY <2>1, <3>2 DEF Accepts
    <3>4. ASSUME NEW y \in batch, y.act = "DELETE", y.key = ch.key PROVE FALSE
      <4>1. PICK j \in DOMAIN changes : y \in ProviderActions(changes[j])
        BY DEF ChangeBatch
      <4>2. changes[j].guard # None /\ y.key = changes[j].key
        BY <3>4, <4>1 DEF ProviderActions
      <4>3. j # i
        BY <2>6, <4>2
      <4> QED BY <2>3, <3>4, <4>2, <4>3 DEF HasDuplicates
    <3> QED BY <2>6, <3>3, <3>4
  <2> QED BY <2>5, <2>6
<1>2. IInv /\ [Next]_vars => [\A c \in Calls : A(c)]_vars
  BY <1>1
<1> QED BY <1>2, Invariance, PTL DEF Spec, NoLostUpdate

-----------------------------------------------------------------------------
(***************************************************************************)
(* The plan                                                                *)
(***************************************************************************)

\* A call whose zone has not changed since it began to plan has read what is
\* there, and what it is about to send or has sent passed the plan's checks.
PlanOK(c) ==
    c \in fresh =>
        /\ call[c].req.op = "change"
        /\ call[c].pc \in {"plan", "fence", "sent", "verify", "done"}
        /\ call[c].pc = "plan" =>
              \A i \in DOMAIN KeyOrder :
                  i <= call[c].pos => call[c].view[KeyOrder[i]] = recs[Acct(c)][KeyOrder[i]]
        /\ call[c].pc = "fence" \/ wire[c] = "inflight" =>
              ValidateResultant(call[c].req.changes, recs[Acct(c)])

PInv == IInv /\ \A c \in Calls : PlanOK(c)

\* A page adds its keys to what has been read; the last one completes it.
LEMMA PageReads ==
  ASSUME TypeOK, NEW c \in Calls,
         \A i \in DOMAIN KeyOrder :
            i <= call[c].pos => call[c].view[KeyOrder[i]] = recs[Acct(c)][KeyOrder[i]]
  PROVE  /\ \A i \in DOMAIN KeyOrder :
              i <= call[c].pos + PageSize => ReadPage(c)[KeyOrder[i]] = recs[Acct(c)][KeyOrder[i]]
         /\ LastPage(c) => ReadPage(c) = recs[Acct(c)]
<1>1. /\ KeyOrder \in Seq(Keys) /\ PageSize \in Nat
      /\ call[c].pos \in Nat /\ recs[Acct(c)] \in [Keys -> Contents \cup {None}]
  BY CallType, ConfigAssumption DEF CallRecord, TypeOK
<1>2. DOMAIN KeyOrder = 1..Len(KeyOrder) /\ Len(KeyOrder) \in Nat
      /\ \A i \in DOMAIN KeyOrder : KeyOrder[i] \in Keys
  BY <1>1
<1>3. ASSUME NEW i \in DOMAIN KeyOrder, i <= call[c].pos + PageSize
      PROVE  ReadPage(c)[KeyOrder[i]] = recs[Acct(c)][KeyOrder[i]]
  <2>1. CASE KeyOrder[i] \in PageKeys(call[c].pos)
    BY <1>2, <2>1 DEF ReadPage
  <2>2. CASE KeyOrder[i] \notin PageKeys(call[c].pos)
    <3>1. i \in Nat /\ ~(call[c].pos < i)
      BY <1>1, <1>2, <1>3, <2>2 DEF PageKeys
    <3>2. i <= call[c].pos
      BY <1>1, <3>1
    <3> QED BY <1>2, <2>2, <3>2 DEF ReadPage
  <2> QED BY <2>1, <2>2
<1>4. ASSUME LastPage(c) PROVE ReadPage(c) = recs[Acct(c)]
  <2>1. ReadPage(c) \in [Keys -> Contents \cup {None}]
    BY ReadPageType
  <2>2. ASSUME NEW k \in Keys PROVE ReadPage(c)[k] = recs[Acct(c)][k]
    <3>1. PICK i \in DOMAIN KeyOrder : k = KeyOrder[i]
      BY DEF Keys
    <3>2. i <= call[c].pos + PageSize
      BY <1>1, <1>2, <1>4 DEF LastPage
    <3> QED BY <1>3, <3>1, <3>2
  <2> QED BY <1>1, <2>1, <2>2
<1> QED BY <1>3, <1>4

\* Nothing that a plan depends on has changed.
LEMMA PlanRest ==
  ASSUME NEW d \in Calls, PlanOK(d), call'[d] = call[d], d \in fresh' => d \in fresh,
         d \in fresh' => recs'[Acct(d)] = recs[Acct(d)],
         wire'[d] = "inflight" => wire[d] = "inflight"
  PROVE  PlanOK(d)'
<1>1. (Acct(d))' = Acct(d)
  BY DEF Acct
<1> QED BY <1>1 DEF PlanOK

LEMMA PlanPageStep ==
  ASSUME PInv, NEW c \in Calls, PlanPage(c)
  PROVE  PlanOK(c)'
<1> DEFINE changes == call[c].req.changes
           a == Acct(c)
<1>0. /\ TypeOK /\ PlanOK(c) /\ Placed(c) /\ Truthful(c) /\ call[c] \in CallRecord
      /\ call[c].req.op \in Ops
  BY CallType DEF PInv, IInv, CallRecord, Request
<1>1. call[c].pc = "plan" /\ UNCHANGED << recs, wire >>
  BY DEF PlanPage
<1>2. call[c].req.op = "change" /\ wire[c] = "none"
  BY <1>0, <1>1, EarlySteps DEF Placed, Places, Ops, Truthful
<1>3. CASE c \notin fresh'
  BY <1>3 DEF PlanOK
<1>4. CASE c \in fresh'
  <2>1. \A i \in DOMAIN KeyOrder :
          i <= call[c].pos => call[c].view[KeyOrder[i]] = recs[a][KeyOrder[i]]
    <3>1. CASE c \in fresh
      BY <1>0, <1>1, <3>1 DEF PlanOK
    <3>2. CASE c \notin fresh
      <4>1. call[c].pos = 0
        BY <1>4, <3>2 DEF PlanPage
      <4>2. \A i \in DOMAIN KeyOrder : i \in Nat /\ i >= 1
        <5>1. KeyOrder \in Seq(Keys)
          BY ConfigAssumption
        <5> QED BY <5>1
      <4> QED BY <4>1, <4>2
    <3> QED BY <3>1, <3>2
  <2>2. /\ \A i \in DOMAIN KeyOrder :
              i <= call[c].pos + PageSize => ReadPage(c)[KeyOrder[i]] = recs[a][KeyOrder[i]]
        /\ LastPage(c) => ReadPage(c) = recs[a]
    BY <1>0, <2>1, PageReads
  <2>3. CASE \E r \in {"conflict", "invalid"} : Finish(c, r)
    <3>1. call'[c].pc = "done" /\ call'[c].req = call[c].req
      <4>1. PICK r \in {"conflict", "invalid"} : Finish(c, r)
        BY <2>3
      <4>2. Ends(c, r)
        BY <1>0, <4>1, FinishEnds DEF Results, Definite
      <4> QED BY <4>2 DEF Ends, Only
    <3> QED BY <1>1, <1>2, <3>1 DEF PlanOK
  <2>4. CASE call' = [call EXCEPT ![c].view = ReadPage(c), ![c].pos = @ + PageSize]
    <3>1. call'[c] = [call[c] EXCEPT !.view = ReadPage(c), !.pos = @ + PageSize]
      BY <1>0, <2>4 DEF TypeOK
    <3>2. /\ call'[c].pc = "plan" /\ call'[c].req = call[c].req
          /\ call'[c].view = ReadPage(c) /\ call'[c].pos = call[c].pos + PageSize
      BY <1>0, <1>1, <3>1 DEF CallRecord
    <3>3. (Acct(c))' = a
      BY <3>2 DEF Acct
    <3> QED BY <1>1, <1>2, <2>2, <3>2, <3>3 DEF PlanOK
  <2>5. CASE /\ call' = [call EXCEPT ![c].pc = "fence", ![c].view = NoView, ![c].pos = 0]
             /\ LastPage(c) /\ PlanError(changes, ReadPage(c)) = "none"
    <3>1. call'[c].pc = "fence" /\ call'[c].req = call[c].req
      BY <1>0, <2>5 DEF TypeOK, CallRecord
    <3>2. (Acct(c))' = a
      BY <3>1 DEF Acct
    <3>3. ValidateResultant(changes, recs[a])
      BY <2>2, <2>5 DEF PlanError
    <3> QED BY <1>1, <1>2, <3>1, <3>2, <3>3 DEF PlanOK
  <2>6. PlanError(changes, ReadPage(c)) \in {"conflict", "invalid", "none"}
    BY DEF PlanError
  <2> QED BY <2>3, <2>4, <2>5, <2>6 DEF PlanPage
<1> QED BY <1>3, <1>4

\* Past the plan, a call sends, confirms or returns.
LEMMA AfterPlan ==
  ASSUME TypeOK, NEW c \in Calls, CallStep(c), ~PlanPage(c),
         call[c].pc \in {"plan", "fence", "sent", "verify", "done"}
  PROVE  call'[c].pc \in {"sent", "verify", "done"} /\ fresh' = fresh
<1>1. call[c] \in CallRecord
  BY CallType
<1>2. ASSUME NEW r, Finish(c, r) PROVE call'[c].pc = "done"
  BY <1>1, <1>2 DEF Finish, TypeOK, CallRecord
<1>3. ASSUME Goto(c, "verify") PROVE call'[c].pc = "verify"
  BY <1>1, <1>3 DEF Goto, TypeOK, CallRecord
<1>4. CASE Dispatch(c)
  <2>1. CASE call' = [call EXCEPT ![c].pc = "sent", ![c].dispatched = TRUE]
    <3>1. call'[c].pc = "sent"
      BY <1>1, <2>1 DEF TypeOK, CallRecord
    <3> QED BY <1>4, <3>1 DEF Dispatch
  <2>2. CASE \E r : Finish(c, r)
    BY <1>2, <1>4, <2>2 DEF Dispatch
  <2> QED BY <1>4, <2>1, <2>2 DEF Dispatch
<1>5. CASE Response(c)
  BY <1>2, <1>3, <1>5 DEF Response, provider
<1>6. CASE Verify(c)
  BY <1>2, <1>6 DEF Verify, provider
<1>7. CASE Timeout(c)
  BY <1>2, <1>7 DEF Timeout, provider
<1>8. CASE ReadFault(c)
  BY <1>2, <1>8 DEF ReadFault, provider
<1>9. \/ Dispatch(c) \/ Response(c) \/ Verify(c) \/ Timeout(c) \/ ReadFault(c)
  BY DEF CallStep, AcquireAccount, AcquireGlobal, ReadAccount, ReadKeys, ObserveFence,
     ObserveZone, ScanPage, FindZone, DeleteGuard, GetChange
<1> QED BY <1>4, <1>5, <1>6, <1>7, <1>8, <1>9

LEMMA PlanStep ==
  ASSUME PInv, [Next]_vars
  PROVE  \A d \in Calls : PlanOK(d)'
<1>0. IInv /\ TypeOK /\ \A d \in Calls : PlanOK(d)
  BY DEF PInv, IInv
<1>1. ASSUME NEW c \in Calls, NEW r \in Requests, Begin(c, r)
      PROVE  \A d \in Calls : PlanOK(d)'
  <2>1. /\ \A d \in Calls \ {c} : call'[d] = call[d]
        /\ call[c].pc = "idle" /\ UNCHANGED << wire, recs, fresh >>
    BY <1>0, <1>1, BeginShape
  <2>2. c \notin fresh
    BY <1>0, <2>1 DEF PlanOK
  <2>3. PlanOK(c)'
    BY <2>1, <2>2 DEF PlanOK
  <2> QED BY <1>0, <2>1, <2>3, PlanRest
<1>2. ASSUME NEW c \in Calls, CallStep(c) PROVE \A d \in Calls : PlanOK(d)'
  <2>1. ASSUME NEW d \in Calls \ {c} PROVE PlanOK(d)'
    <3>1. call'[d] = call[d] /\ wire'[d] = wire[d]
      BY <1>0, <1>2, CallStepOnly DEF Only, TypeOK
    <3>2. recs' = recs /\ (d \in fresh' => d \in fresh)
      BY <1>2, CallStepKeeps
    <3> QED BY <1>0, <3>1, <3>2, PlanRest
  <2>2. CASE PlanPage(c)
    BY <2>1, <2>2, PlanPageStep
  <2>3. CASE ~PlanPage(c)
    <3>1. recs' = recs /\ call'[c].req = call[c].req
      BY <1>0, <1>2, CallStepKeeps, CallStepOnly DEF Only
    <3>2. (Acct(c))' = Acct(c)
      BY <3>1 DEF Acct
    <3>3. ASSUME c \in fresh PROVE PlanOK(c)'
      <4>1. /\ call[c].req.op = "change"
            /\ call[c].pc \in {"plan", "fence", "sent", "verify", "done"}
            /\ call[c].pc = "fence" \/ wire[c] = "inflight" =>
                 ValidateResultant(call[c].req.changes, recs[Acct(c)])
        BY <1>0, <3>3 DEF PlanOK
      <4>2. call'[c].pc \in {"sent", "verify", "done"}
        BY <1>0, <1>2, <2>3, <4>1, AfterPlan
      <4>3. wire'[c] = "inflight" => wire[c] = "inflight" \/ call[c].pc = "fence"
        BY <1>0, <1>2, CallStepShape DEF Advances, Refuses, Sends, Confirms, Succeeds
      <4> QED BY <3>1, <3>2, <4>1, <4>2, <4>3 DEF PlanOK
    <3>4. ASSUME c \notin fresh PROVE PlanOK(c)'
      <4>1. fresh' = fresh
        BY <1>2, <2>3 DEF CallStep, AcquireAccount, AcquireGlobal, ReadAccount, ReadKeys,
           ObserveFence, ObserveZone, ScanPage, FindZone, DeleteGuard, Dispatch, Response,
           Verify, GetChange, Timeout, ReadFault, provider
      <4> QED BY <3>4, <4>1 DEF PlanOK
    <3>5. PlanOK(c)'
      BY <3>3, <3>4
    <3> QED BY <2>1, <3>5
  <2> QED BY <2>2, <2>3
<1>3. ASSUME NEW c \in Calls, Execute(c) PROVE \A d \in Calls : PlanOK(d)'
  <2>1. call' = call /\ \A d \in Calls : wire'[d] = "inflight" => wire[d] = "inflight"
    BY <1>0, <1>3, ExecuteShape DEF TypeOK
  <2>2. \A d \in Calls : d \in fresh' => d \in fresh /\ recs'[Acct(d)] = recs[Acct(d)]
    <3>1. Acct(c) \in Accounts /\ \A d \in Calls : Acct(d) \in Accounts
      BY <1>0, CallType
    <3>2. CASE ExecuteChange(c)
      <4>1. CASE UNCHANGED << recs, fresh >>
        BY <4>1
      <4>2. CASE /\ recs' = [recs EXCEPT ![Acct(c)] =
                              AfterBatch(ChangeBatch(call[c].req.changes), Acct(c))]
                 /\ fresh' = fresh \ OthersOf(Acct(c))
        BY <1>0, <3>1, <4>2 DEF OthersOf, TypeOK
      <4> QED BY <3>2, <4>1, <4>2 DEF ExecuteChange
    <3>3. CASE ExecuteCreate(c)
      BY <3>3 DEF ExecuteCreate
    <3>4. CASE ExecuteDelete(c)
      BY <3>4 DEF ExecuteDelete
    <3> QED BY <1>3, <3>2, <3>3, <3>4 DEF Execute
  <2> QED BY <1>0, <2>1, <2>2, PlanRest
<1>4. ASSUME NEW a \in Accounts, EditRecords(a) PROVE \A d \in Calls : PlanOK(d)'
  <2>1. UNCHANGED << wire, call >> /\ fresh' = fresh \ OthersOf(a)
    BY <1>4 DEF EditRecords
  <2>2. \A d \in Calls : d \in fresh' => recs'[Acct(d)] = recs[Acct(d)]
    <3>1. \A d \in Calls : Acct(d) \in Accounts
      BY <1>0, CallType
    <3>2. PICK k \in Keys, v \in Contents \cup {None} : recs' = [recs EXCEPT ![a][k] = v]
      BY <1>4 DEF EditRecords
    <3> QED BY <1>0, <2>1, <3>1, <3>2 DEF OthersOf, TypeOK
  <2> QED BY <1>0, <2>1, <2>2, PlanRest
<1>5. ASSUME \/ ListZone
             \/ \E a \in Accounts : EditAccount(a) \/ RotateKeys(a)
             \/ UNCHANGED vars
      PROVE  \A d \in Calls : PlanOK(d)'
  <2>1. UNCHANGED << wire, call, recs, fresh >>
    BY <1>5 DEF ListZone, EditAccount, RotateKeys, vars, provider
  <2> QED BY <1>0, <2>1, PlanRest
<1> QED BY <1>1, <1>2, <1>3, <1>4, <1>5 DEF Next

\* A batch without duplicates leaves the inventory its plan expected.
LEMMA BatchResult ==
  ASSUME TypeOK, NEW c \in Calls, ~HasDuplicates(call[c].req.changes)
  PROVE  AfterBatch(ChangeBatch(call[c].req.changes), Acct(c))
           = Resultant(call[c].req.changes, recs[Acct(c)])
<1> DEFINE changes == call[c].req.changes
           batch == ChangeBatch(changes)
           view == recs[Acct(c)]
<1>1. changes \in Seq(Change)
  BY CallType DEF CallRecord, Request
<1>2. \A j \in DOMAIN changes : changes[j] \in Change /\ ProviderActions(changes[j]) \subseteq batch
  BY <1>1 DEF ChangeBatch
<1>3. ASSUME NEW k \in Keys
      PROVE  AfterBatch(batch, Acct(c))[k] = Resultant(changes, view)[k]
  <2>1. ASSUME NEW i \in DOMAIN changes, changes[i].key = k
        PROVE  AfterBatch(batch, Acct(c))[k] = Resultant(changes, view)[k]
    <3> DEFINE ch == changes[i]
    <3>1. \A j \in DOMAIN changes : changes[j].key = k => j = i
      BY <2>1 DEF HasDuplicates
    <3>2. Resultant(changes, view)[k] = ch.desired
      BY <2>1, <3>1 DEF Resultant
    <3>3. \A x \in batch : x.key = k => x \in ProviderActions(ch)
      <4> SUFFICES ASSUME NEW j \in DOMAIN changes, NEW x \in ProviderActions(changes[j]),
                          x.key = k
                   PROVE  x \in ProviderActions(ch)
        BY DEF ChangeBatch
      <4>1. changes[j].key = k
        BY DEF ProviderActions
      <4> QED BY <3>1, <4>1
    <3>4. CASE ch.desired # None
      <4> DEFINE new == [act |-> "CREATE", key |-> ch.key, content |-> ch.desired]
      <4>1. new \in batch /\ new.key = k /\ new.act # "DELETE"
        BY <1>2, <2>1, <3>4 DEF ProviderActions
      <4>2. \A x \in batch : x.key = k /\ x.act # "DELETE" => x.content = ch.desired
        BY <3>3 DEF ProviderActions
      <4> HIDE DEF batch
      <4>3. (CHOOSE x \in batch : x.key = k /\ x.act # "DELETE").content = ch.desired
        BY <4>1, <4>2
      <4> QED BY <3>2, <4>1, <4>3 DEF AfterBatch
    <3>5. CASE ch.desired = None
      <4>1. ch.guard # None
        BY <1>2, <3>5 DEF Change
      <4>2. [act |-> "DELETE", key |-> ch.key, content |-> ch.guard] \in batch
        BY <1>2, <4>1 DEF ProviderActions
      <4>3. ~(\E x \in batch : x.key = k /\ x.act # "DELETE")
        BY <3>3, <3>5 DEF ProviderActions
      <4>4. \E x \in batch : x.key = k
        BY <2>1, <4>2
      <4> HIDE DEF batch
      <4> QED BY <3>2, <3>5, <4>3, <4>4 DEF AfterBatch
    <3> QED BY <3>4, <3>5
  <2>2. ASSUME ~(\E i \in DOMAIN changes : changes[i].key = k)
        PROVE  AfterBatch(batch, Acct(c))[k] = Resultant(changes, view)[k]
    <3>1. ~(\E x \in batch : x.key = k)
      BY <2>2 DEF ChangeBatch, ProviderActions
    <3> HIDE DEF batch
    <3>2. AfterBatch(batch, Acct(c))[k] = view[k]
      BY <3>1 DEF AfterBatch
    <3> QED BY <2>2, <3>2 DEF Resultant
  <2> QED BY <2>1, <2>2
<1> HIDE DEF batch, changes, view
<1>4. /\ AfterBatch(batch, Acct(c)) = [k \in Keys |-> AfterBatch(batch, Acct(c))[k]]
      /\ Resultant(changes, view) = [k \in Keys |-> Resultant(changes, view)[k]]
  BY DEF AfterBatch, Resultant
<1> QED BY <1>3, <1>4 DEF batch, changes, view

\* An inventory consistent at the owners and groups a batch touches, and
\* consistent elsewhere before it, is consistent.
LEMMA ResultConsistent ==
  ASSUME NEW changes, NEW view, ConsistentAt(view, AllOwners, AllGroups),
         ValidateResultant(changes, view)
  PROVE  ConsistentAt(Resultant(changes, view), AllOwners, AllGroups)
<1> DEFINE new == Resultant(changes, view)
           owners == {Owner[changes[i].key] : i \in DOMAIN changes}
           groups == {KeyGroup(changes[i].key) : i \in DOMAIN changes}
<1>1. ConsistentAt(new, owners, groups)
  BY DEF ValidateResultant
<1>2. \A k \in Keys : Owner[k] \notin owners => new[k] = view[k]
  BY DEF Resultant
<1>3. \A k \in Keys : KeyGroup(k) \notin groups => new[k] = view[k]
  BY DEF Resultant
<1> HIDE DEF new, owners, groups
<1>4. ASSUME NEW owner \in AllOwners PROVE CnameAlone(new, owner)
  <2>1. CASE owner \in owners
    BY <1>1, <2>1 DEF ConsistentAt
  <2>2. CASE owner \notin owners
    <3>1. \A k \in Keys : Owner[k] = owner => new[k] = view[k]
      BY <1>2, <2>2
    <3>2. CnameAlone(view, owner)
      BY DEF ConsistentAt
    <3> QED BY <3>1, <3>2 DEF CnameAlone
  <2> QED BY <2>1, <2>2
<1>5. ASSUME NEW group \in AllGroups PROVE GroupConsistent(new, group)
  <2>1. CASE group \in groups
    BY <1>1, <2>1 DEF ConsistentAt
  <2>2. CASE group \notin groups
    <3>1. \A k \in Keys : KeyGroup(k) = group => new[k] = view[k]
      BY <1>3, <2>2
    <3>2. Members(new, group) = Members(view, group)
      BY <3>1 DEF Members
    <3>3. \A k \in Members(new, group) : new[k] = view[k]
      BY <3>1 DEF Members
    <3>4. GroupConsistent(view, group)
      BY DEF ConsistentAt
    <3> QED BY <3>2, <3>3, <3>4 DEF GroupConsistent
  <2> QED BY <2>1, <2>2
<1> QED BY <1>4, <1>5 DEF ConsistentAt, new

\* A batch executed on the zone its plan saw leaves a consistent zone consistent:
\* validate_resultant_inventory looks at every member of the owners and groups
\* the batch touches, and the paginated inventory it looks at is the zone.
THEOREM BatchConsistent == Spec => BatchKeepsZoneConsistent
<1> DEFINE A(c) == wire[c] = "inflight" /\ wire'[c] = "applied" /\ call[c].req.op = "change"
                     /\ Consistent(Acct(c)) => Consistent(Acct(c))'
<1>1. ASSUME PInv, [Next]_vars, NEW c \in fresh PROVE A(c)
  <2> SUFFICES ASSUME wire[c] = "inflight", wire'[c] = "applied", call[c].req.op = "change",
                      Consistent(Acct(c))
               PROVE  Consistent(Acct(c))'
    OBVIOUS
  <2> DEFINE changes == call[c].req.changes
  <2>0. TypeOK /\ IInv /\ c \in Calls /\ PlanOK(c)
    BY <1>1 DEF PInv, IInv, TypeOK
  <2>1. ExecuteChange(c) /\ Accepts(ChangeBatch(changes), Acct(c)) /\ call' = call
    BY <1>1, <2>0, AppliedBy
  <2>2. recs' = [recs EXCEPT ![Acct(c)] = AfterBatch(ChangeBatch(changes), Acct(c))]
    BY <2>1 DEF ExecuteChange
  <2>3. ~HasDuplicates(changes)
    BY <2>0 DEF IInv, SentOK, ValidShape
  <2>4. Acct(c) \in Accounts
    BY <2>0, CallType
  <2>5. recs'[Acct(c)] = Resultant(changes, recs[Acct(c)])
    BY <2>0, <2>2, <2>3, <2>4, BatchResult DEF TypeOK
  <2>6. ValidateResultant(changes, recs[Acct(c)])
    BY <1>1, <2>0 DEF PlanOK
  <2>7. ConsistentAt(recs'[Acct(c)], AllOwners, AllGroups)
    BY <2>5, <2>6, ResultConsistent DEF Consistent
  <2>8. (Acct(c))' = Acct(c)
    BY <2>1 DEF Acct
  <2> QED BY <2>7, <2>8 DEF Consistent
<1>2. Init => PInv
  <2>1. Init => fresh = {}
    BY DEF Init
  <2> QED BY <2>1, InitHolds DEF PInv, PlanOK
<1>3. PInv /\ [Next]_vars => PInv'
  BY PlanStep, TypeStep, TruthfulStep, ReceiptStep, ZonesStep, SentStep DEF PInv, IInv
<1>4. PInv /\ [Next]_vars => [\A c \in fresh : A(c)]_vars
  BY <1>1
<1> QED BY <1>2, <1>3, <1>4, PTL DEF Spec, BatchKeepsZoneConsistent

-----------------------------------------------------------------------------
(***************************************************************************)
(* The semaphores                                                          *)
(***************************************************************************)

Admitted == Waiting \cup Working

\* A call in progress has the semaphore its service tracks for its account, a
\* tracked semaphore is tracked for its creator's service and account, and no
\* semaphore has given out more permits than it has.
SemaphoresOK ==
    /\ \A c \in Calls : call[c].pc \in Admitted =>
          /\ call[c].sem \in Calls
          /\ tracked[Service(call[c].req)][Acct(c)] = call[c].sem
    /\ \A c \in Calls : call[c].pc \notin Admitted => call[c].sem = None
    /\ \A s \in Services, a \in Accounts, x \in Calls : tracked[s][a] = x =>
          call[x].pc # "idle" /\ Service(call[x].req) = s /\ Acct(x) = a
    /\ \A x \in Calls : Cardinality(AccountHolders(x)) <= PerAccount

SInv == IInv /\ SemaphoresOK

LEMMA FiniteHolders ==
  ASSUME NEW S \in SUBSET Calls
  PROVE  IsFiniteSet(S) /\ Cardinality(S) \in Nat
  BY ConfigAssumption, FS_Subset, FS_CardinalityType

LEMMA FewerHolders ==
  ASSUME SemaphoresOK, NEW x \in Calls, NEW S \in SUBSET AccountHolders(x)
  PROVE  Cardinality(S) <= PerAccount
<1>1. AccountHolders(x) \subseteq Calls /\ S \subseteq Calls
  BY DEF AccountHolders
<1>2. IsFiniteSet(AccountHolders(x)) /\ Cardinality(AccountHolders(x)) \in Nat
  BY <1>1, FiniteHolders
<1>3. Cardinality(S) <= Cardinality(AccountHolders(x)) /\ Cardinality(S) \in Nat
  BY <1>1, <1>2, FS_Subset, FiniteHolders
<1>4. Cardinality(AccountHolders(x)) <= PerAccount /\ PerAccount \in Nat
  BY ConfigAssumption DEF SemaphoresOK
<1> QED BY <1>2, <1>3, <1>4

\* How a step of a call treats its semaphore.
LEMMA CallStepSemaphore ==
  ASSUME SInv, NEW c \in Calls, CallStep(c)
  PROVE  /\ call[c].pc \in Admitted
         /\ \/ call'[c].pc \in Admitted /\ call'[c].sem = call[c].sem
            \/ call'[c].pc = "done" /\ call'[c].sem = None
         /\ call[c].pc = "account" => AcquireAccount(c) \/ call'[c].sem = None
<1>0. IInv /\ TypeOK /\ call[c] \in CallRecord
  BY CallType DEF SInv, IInv
<1>1. call[c].pc \in Admitted
  BY <1>0, CallStepOnly DEF CallRecord, PCs, Admitted
<1>2. \/ call'[c].pc \in Admitted /\ call'[c].sem = call[c].sem
      \/ call'[c].pc = "done" /\ call'[c].sem = None
  <2>1. \A pc \in Early \ {"idle"} : pc \in Admitted
    BY DEF Early, Admitted
  <2>2. "sent" \in Admitted /\ "verify" \in Admitted
    BY DEF Admitted, Working
  <2>3. CASE Advances(c)
    BY <2>1, <2>3 DEF Advances, Moves
  <2>4. CASE Refuses(c) \/ Succeeds(c)
    BY <2>4 DEF Refuses, Succeeds, Ends
  <2>5. CASE Sends(c) \/ Confirms(c)
    BY <2>2, <2>5 DEF Sends, Confirms, Moves
  <2> QED BY <1>0, <2>3, <2>4, <2>5, CallStepShape
<1>3. ASSUME call[c].pc = "account", ~AcquireAccount(c) PROVE call'[c].sem = None
  <2>1. Timeout(c)
    BY <1>3 DEF CallStep, AcquireGlobal, ReadAccount, ReadKeys, ObserveFence,
       ObserveZone, ScanPage, PlanPage, FindZone, DeleteGuard, Dispatch, Response, Verify,
       GetChange, ReadFault
  <2>2. TimeoutResult(c) \in Results
    BY DEF TimeoutResult, Results, Definite
  <2> QED BY <1>0, <2>1, <2>2, FinishEnds DEF Timeout, Ends
<1> QED BY <1>1, <1>2, <1>3

\* What account_semaphore returns: the semaphore it leaves in the map, with every
\* semaphore somebody holds still in its place.
LEMMA SemaphoreKept ==
  ASSUME TypeOK, NEW c \in Calls, NEW s \in Services, NEW a \in Accounts, None \notin Calls
  PROVE  LET got == AccountSemaphore(c, s, a) IN
         /\ got.sem # None => got.map[a] = got.sem
         /\ \A b \in Accounts : tracked[s][b] # None /\ Alive(tracked[s][b]) =>
               got.map[b] = tracked[s][b]
         /\ \A b \in Accounts, x \in Calls : got.map[b] = x =>
               tracked[s][b] = x \/ (b = a /\ x = c /\ got.sem = c)
<1> DEFINE old == tracked[s]
           live == {b \in Accounts : old[b] # None /\ Alive(old[b])}
           got == AccountSemaphore(c, s, a)
<1>1. CASE a \in live
  <2>1. got = [sem |-> old[a], map |-> old]
    BY <1>1 DEF AccountSemaphore
  <2> QED BY <2>1
<1>2. CASE a \notin live /\ Cardinality(live) >= MaxTracked
  <2>1. got = [sem |-> None, map |-> [b \in Accounts |-> IF b \in live THEN old[b] ELSE None]]
    BY <1>2 DEF AccountSemaphore
  <2> QED BY <2>1
<1>3. CASE a \notin live /\ ~(Cardinality(live) >= MaxTracked)
  <2>1. got = [sem |-> c,
               map |-> [b \in Accounts |-> IF b = a THEN c
                                           ELSE IF b \in live THEN old[b] ELSE None]]
    BY <1>3 DEF AccountSemaphore
  <2> QED BY <1>3, <2>1
<1> QED BY <1>1, <1>2, <1>3

\* How a beginning call gets its semaphore and what it leaves to the others.
LEMMA BeginSemaphore ==
  ASSUME SInv, NEW c \in Calls, NEW r \in Requests, Begin(c, r)
  PROVE  /\ \/ call'[c].pc = "done" /\ call'[c].sem = None
            \/ /\ call'[c].pc = "account" /\ call'[c].sem \in Calls
               /\ tracked'[Service(r)][r.account] = call'[c].sem
         /\ \A t \in Services, b \in Accounts :
               tracked[t][b] # None /\ Alive(tracked[t][b]) => tracked'[t][b] = tracked[t][b]
         /\ \A t \in Services, b \in Accounts, x \in Calls : tracked'[t][b] = x =>
               tracked[t][b] = x \/ (t = Service(r) /\ b = r.account /\ x = c)
<1> DEFINE s == Service(r)
           a == r.account
           got == AccountSemaphore(c, s, a)
           started == [call[c] EXCEPT !.req = r]
<1>1. TypeOK /\ SemaphoresOK /\ None \notin Calls
  BY ConfigAssumption DEF SInv, IInv
<1>2. a \in Accounts /\ s \in Services /\ call[c] \in CallRecord
  BY <1>1, CallType, ConfigAssumption DEF Request, Service, Services
<1>3. call[c].pc = "idle" /\ call[c].sem = None
  BY <1>1 DEF Begin, SemaphoresOK, Admitted, Waiting, Working
<1>4. /\ got.sem \in Calls \cup {None}
      /\ got.sem # None => got.map[a] = got.sem
      /\ \A b \in Accounts : tracked[s][b] # None /\ Alive(tracked[s][b]) =>
            got.map[b] = tracked[s][b]
      /\ \A b \in Accounts, x \in Calls : got.map[b] = x =>
            tracked[s][b] = x \/ (b = a /\ x = c)
  BY <1>1, <1>2, SemaphoreKept, SemaphoreType
<1>5. tracked \in [Services -> [Accounts -> Calls \cup {None}]] /\ call \in [Calls -> CallRecord]
  BY <1>1 DEF TypeOK
<1>6. CASE ~ValidShape(r)
  <2>1. /\ tracked' = tracked
        /\ call' = [call EXCEPT ![c] = [started EXCEPT !.pc = "done", !.result = "invalid"]]
    BY <1>6 DEF Begin
  <2>2. call'[c].pc = "done" /\ call'[c].sem = None
    BY <1>2, <1>3, <1>5, <2>1 DEF CallRecord
  <2> QED BY <2>1, <2>2
<1>7. CASE ValidShape(r)
  <2>1. /\ tracked' = [tracked EXCEPT ![s] = got.map]
        /\ call' = [call EXCEPT ![c] =
              IF got.sem = None
              THEN [started EXCEPT !.pc = "done", !.result = "unavailable"]
              ELSE [started EXCEPT !.pc = "account", !.sem = got.sem]]
    BY <1>7 DEF Begin
  <2> HIDE DEF got
  <2>2. \/ got.sem = None /\ call'[c].pc = "done" /\ call'[c].sem = None
        \/ got.sem # None /\ call'[c].pc = "account" /\ call'[c].sem = got.sem
    BY <1>2, <1>3, <1>5, <2>1 DEF CallRecord
  <2>3. tracked'[s] = got.map /\ \A t \in Services \ {s} : tracked'[t] = tracked[t]
    BY <1>2, <1>5, <2>1
  <2> HIDE DEF s, a
  <2>4. \/ call'[c].pc = "done" /\ call'[c].sem = None
        \/ /\ call'[c].pc = "account" /\ call'[c].sem \in Calls
           /\ tracked'[s][a] = call'[c].sem
    BY <1>4, <2>2, <2>3
  <2>5. \A t \in Services, b \in Accounts :
           tracked[t][b] # None /\ Alive(tracked[t][b]) => tracked'[t][b] = tracked[t][b]
    BY <1>4, <2>3
  <2>6. \A t \in Services, b \in Accounts, x \in Calls : tracked'[t][b] = x =>
           tracked[t][b] = x \/ (t = s /\ b = a /\ x = c)
    BY <1>4, <2>3
  <2> QED BY <2>4, <2>5, <2>6 DEF s, a
<1> QED BY <1>6, <1>7

LEMMA SemaphoreStep ==
  ASSUME SInv, [Next]_vars
  PROVE  SemaphoresOK'
<1>0. IInv /\ TypeOK /\ SemaphoresOK /\ None \notin Calls
  BY ConfigAssumption DEF SInv, IInv
<1>1. ASSUME NEW c \in Calls, CallStep(c) PROVE SemaphoresOK'
  <2>1. /\ \A d \in Calls \ {c} : call'[d] = call[d]
        /\ call'[c].req = call[c].req /\ call'[c].pc # "idle"
        /\ tracked' = tracked
    BY <1>0, <1>1, CallStepOnly, CallStepKeeps DEF Only
  <2>2. /\ call[c].pc \in Admitted
        /\ \/ call'[c].pc \in Admitted /\ call'[c].sem = call[c].sem
           \/ call'[c].pc = "done" /\ call'[c].sem = None
        /\ call[c].pc = "account" => AcquireAccount(c) \/ call'[c].sem = None
    BY <1>1, CallStepSemaphore
  <2>3. \A d \in Calls : (Acct(d))' = Acct(d) /\ call'[d].req = call[d].req
    BY <2>1 DEF Acct
  <2>4. "done" \notin Admitted
    BY DEF Admitted, Waiting, Working
  <2>5. /\ \A d \in Calls : call'[d].pc \in Admitted =>
              call'[d].sem \in Calls /\ tracked'[Service(call'[d].req)][(Acct(d))'] = call'[d].sem
        /\ \A d \in Calls : call'[d].pc \notin Admitted => call'[d].sem = None
    BY <1>0, <2>1, <2>2, <2>3, <2>4 DEF SemaphoresOK
  <2>6. \A s \in Services, a \in Accounts, x \in Calls : tracked'[s][a] = x =>
          call'[x].pc # "idle" /\ Service(call'[x].req) = s /\ (Acct(x))' = a
    BY <1>0, <2>1, <2>3 DEF SemaphoresOK
  <2>7. ASSUME NEW x \in Calls PROVE Cardinality((AccountHolders(x))') <= PerAccount
    <3>1. CASE call[c].pc = "account" /\ call[c].sem = x /\ AcquireAccount(c)
      <4>1. (AccountHolders(x))' \subseteq AccountHolders(x) \cup {c}
        BY <2>1 DEF AccountHolders
      <4>2. Cardinality(AccountHolders(x)) < PerAccount
        BY <3>1 DEF AcquireAccount
      <4>3. AccountHolders(x) \subseteq Calls /\ (AccountHolders(x))' \subseteq Calls
        BY DEF AccountHolders
      <4> DEFINE H == AccountHolders(x)
                 G == (AccountHolders(x))'
      <4> HIDE DEF H, G
      <4>4. H \subseteq Calls /\ G \subseteq H \cup {c} /\ Cardinality(H) < PerAccount
        BY <4>1, <4>2, <4>3 DEF H, G
      <4>5. IsFiniteSet(H) /\ Cardinality(H) \in Nat /\ IsFiniteSet(H \cup {c})
            /\ Cardinality(H \cup {c}) \in Nat
        BY <4>4, FiniteHolders
      <4>6. Cardinality(H \cup {c}) <= Cardinality(H) + 1
        BY <4>5, FS_AddElement
      <4>7. Cardinality(G) <= Cardinality(H \cup {c}) /\ Cardinality(G) \in Nat
        BY <4>4, <4>5, FS_Subset, FS_CardinalityType
      <4>8. Cardinality(G) <= PerAccount
        BY <4>4, <4>5, <4>6, <4>7, ConfigAssumption
      <4> QED BY <4>8 DEF G
    <3>2. CASE ~(call[c].pc = "account" /\ call[c].sem = x /\ AcquireAccount(c))
      <4>1. ASSUME NEW d \in Calls, call'[d].sem = x, call'[d].pc # "account"
            PROVE  call[d].sem = x /\ call[d].pc # "account"
        <5>1. CASE d = c
          BY <1>0, <2>2, <3>2, <4>1, <5>1
        <5>2. CASE d # c
          BY <2>1, <4>1, <5>2
        <5> QED BY <5>1, <5>2
      <4>2. (AccountHolders(x))' \subseteq AccountHolders(x)
        BY <4>1 DEF AccountHolders
      <4> QED BY <1>0, <4>2, FewerHolders
    <3> QED BY <3>1, <3>2
  <2> QED BY <2>5, <2>6, <2>7 DEF SemaphoresOK
<1>2. ASSUME UNCHANGED << call, tracked >> PROVE SemaphoresOK'
  BY <1>0, <1>2 DEF SemaphoresOK, Acct, AccountHolders
<1>3. ASSUME NEW c \in Calls, NEW r \in Requests, Begin(c, r) PROVE SemaphoresOK'
  <2>1. /\ \A d \in Calls \ {c} : call'[d] = call[d]
        /\ call[c].pc = "idle" /\ call'[c].req = r /\ call'[c].pc # "idle"
    BY <1>0, <1>3, BeginShape
  <2>2. /\ \/ call'[c].pc = "done" /\ call'[c].sem = None
           \/ /\ call'[c].pc = "account" /\ call'[c].sem \in Calls
              /\ tracked'[Service(r)][r.account] = call'[c].sem
        /\ \A t \in Services, b \in Accounts :
              tracked[t][b] # None /\ Alive(tracked[t][b]) => tracked'[t][b] = tracked[t][b]
        /\ \A t \in Services, b \in Accounts, x \in Calls : tracked'[t][b] = x =>
              tracked[t][b] = x \/ (t = Service(r) /\ b = r.account /\ x = c)
    BY <1>3, BeginSemaphore
  <2>3. "done" \notin Admitted /\ "account" \in Admitted /\ "idle" \notin Admitted
    BY DEF Admitted, Waiting, Working
  <2>4. \A d \in Calls \ {c} : (Acct(d))' = Acct(d)
    BY <2>1 DEF Acct
  <2>5. (Acct(c))' = r.account
    BY <2>1 DEF Acct
  <2>6. \A d \in Calls : Acct(d) \in Accounts /\ Service(call[d].req) \in Services
    BY <1>0, CallType DEF CallRecord, Request, Acct, Service, Services
  <2>7. ASSUME NEW d \in Calls, call'[d].pc \in Admitted
        PROVE  call'[d].sem \in Calls /\ tracked'[Service(call'[d].req)][(Acct(d))'] = call'[d].sem
    <3>1. CASE d = c
      BY <2>1, <2>2, <2>3, <2>5, <2>7, <3>1
    <3>2. CASE d # c
      <4>1. call[d].sem \in Calls /\ tracked[Service(call[d].req)][Acct(d)] = call[d].sem
        BY <1>0, <2>1, <2>7, <3>2 DEF SemaphoresOK
      <4>2. call[d].sem # None /\ Alive(call[d].sem)
        BY <1>0, <4>1 DEF Alive
      <4> QED BY <2>1, <2>2, <2>4, <2>6, <3>2, <4>1, <4>2
    <3> QED BY <3>1, <3>2
  <2>8. \A d \in Calls : call'[d].pc \notin Admitted => call'[d].sem = None
    BY <1>0, <2>1, <2>2, <2>3 DEF SemaphoresOK
  <2>9. ASSUME NEW s \in Services, NEW a \in Accounts, NEW x \in Calls, tracked'[s][a] = x
        PROVE  call'[x].pc # "idle" /\ Service(call'[x].req) = s /\ (Acct(x))' = a
    <3>1. CASE tracked[s][a] = x
      <4>1. call[x].pc # "idle" /\ Service(call[x].req) = s /\ Acct(x) = a
        BY <1>0, <3>1 DEF SemaphoresOK
      <4> QED BY <2>1, <2>4, <4>1
    <3>2. CASE s = Service(r) /\ a = r.account /\ x = c
      BY <2>1, <2>5, <3>2
    <3> QED BY <2>2, <2>9, <3>1, <3>2
  <2>10. ASSUME NEW x \in Calls PROVE Cardinality((AccountHolders(x))') <= PerAccount
    <3>1. (AccountHolders(x))' \subseteq AccountHolders(x)
      BY <1>0, <2>1, <2>2 DEF AccountHolders
    <3> QED BY <1>0, <3>1, FewerHolders
  <2> QED BY <2>7, <2>8, <2>9, <2>10 DEF SemaphoresOK
<1>4. ASSUME NEW c \in Calls, Execute(c) PROVE SemaphoresOK'
  BY <1>0, <1>2, <1>4, ExecuteShape
<1>5. ASSUME \/ ListZone
             \/ \E a \in Accounts : EditRecords(a) \/ EditAccount(a) \/ RotateKeys(a)
             \/ UNCHANGED vars
      PROVE  SemaphoresOK'
  BY <1>2, <1>5, OthersKeep
<1> QED BY <1>1, <1>3, <1>4, <1>5 DEF Next

\* Calls of one service on one account that are past admission never exceed
\* per_account_concurrency, although account_semaphore drops a semaphore with
\* its last user, forgets it and makes a new one for the next call.
THEOREM ConcurrencyBounded == Spec => []AccountConcurrencyBounded
<1>1. Init => SInv
  <2> SUFFICES ASSUME Init PROVE SInv
    OBVIOUS
  <2>1. IInv /\ None \notin Calls
    BY InitHolds, ConfigAssumption
  <2>2. \A c \in Calls : call[c].pc = "idle" /\ call[c].sem = None
    BY DEF Init
  <2>3. \A s \in Services, a \in Accounts : tracked[s][a] = None
    BY DEF Init
  <2>4. ASSUME NEW x \in Calls PROVE Cardinality(AccountHolders(x)) <= PerAccount
    <3>1. AccountHolders(x) = {}
      BY <2>1, <2>2 DEF AccountHolders
    <3> QED BY <3>1, FS_EmptySet, ConfigAssumption
  <2> QED BY <2>1, <2>2, <2>3, <2>4 DEF SInv, SemaphoresOK, Admitted, Waiting, Working
<1>2. SInv /\ [Next]_vars => SInv'
  BY SemaphoreStep, TypeStep, TruthfulStep, ReceiptStep, ZonesStep, SentStep DEF SInv, IInv
<1>3. SInv => AccountConcurrencyBounded
  <2> SUFFICES ASSUME SInv, NEW s \in Services, NEW a \in Accounts
               PROVE  Cardinality({c \in Calls : /\ call[c].pc \in Working
                                                 /\ Service(call[c].req) = s
                                                 /\ Acct(c) = a}) <= PerAccount
    BY DEF AccountConcurrencyBounded
  <2> DEFINE W == {c \in Calls : /\ call[c].pc \in Working
                                 /\ Service(call[c].req) = s
                                 /\ Acct(c) = a}
  <2>1. SemaphoresOK
    BY DEF SInv
  <2>2. CASE W = {}
    <3> HIDE DEF W
    <3>1. Cardinality(W) = 0
      BY <2>2, FS_EmptySet
    <3>2. Cardinality(W) <= PerAccount
      BY <3>1, ConfigAssumption
    <3> QED BY <3>2 DEF W
  <2>3. CASE W # {}
    <3>1. \A c \in W : call[c].sem \in Calls /\ call[c].sem = tracked[s][a]
                       /\ call[c].pc # "account"
      BY <2>1 DEF SemaphoresOK, Admitted, Working
    <3>2. tracked[s][a] \in Calls /\ W \subseteq AccountHolders(tracked[s][a])
      BY <2>3, <3>1 DEF AccountHolders
    <3> HIDE DEF W
    <3>3. Cardinality(W) <= PerAccount
      BY <2>1, <3>2, FewerHolders
    <3> QED BY <3>3 DEF W
  <2> QED BY <2>2, <2>3
<1> QED BY <1>1, <1>2, <1>3, PTL DEF Spec
=============================================================================
