--------------------- MODULE CapabilityDiscoveryProofs ---------------------
(***************************************************************************)
(* Proofs about CapabilityDiscovery, for any number of callers, processes, *)
(* authorities, tries and faults.                                          *)
(***************************************************************************)
EXTENDS CapabilityDiscovery, TLAPS

(***************************************************************************)
(* The inductive invariant                                                 *)
(***************************************************************************)

Early == {"idle", "get", "join"}

\* What a caller has established by the time it is at a place of its code.
CallOK(c) ==
    /\ pc[c] \in Joined => flight[c] \in Callers
    /\ pc[c] \in {"discover", "put", "putWrite", "winner"} => fence[c] \in Fence
    /\ pc[c] \in {"put", "putWrite"} =>
         \E r \in Reports :
           outcome[c] = Ok("refreshed", [fence |-> fence[c], report |-> r])
    /\ pc[c] \in {"publish", "unlist"} => outcome[c] \in Outcome

\* A write that nobody waits for was a request of its process.
LateOK(w) ==
    /\ auth[w.by] \in Authorities
    /\ w.kind /= "invWrite" => w.by \in Callers
    /\ w.kind = "putWrite" => w.snapshot \in Snapshot

CallsConsistent ==
    /\ \A p \in Processes : pc[p] /= "idle" => auth[p] \in Authorities
    /\ \A c \in Callers : CallOK(c)
    /\ \A w \in late : LateOK(w)

\* The resource as a write of s found it: under the fence of s, and without a
\* snapshot of that fence.
Fits(s) ==
    /\ resource.authority = s.fence
    /\ resource.snapshot = None \/ resource.snapshot.fence /= s.fence

\* A write for the current resourceVersion was made from the current resource,
\* and a resource that does not exist holds nothing.
WritesFit ==
    /\ resource.rv = 0 => resource.authority = None /\ resource.snapshot = None
    /\ \A p \in Processes : seen[p] <= resource.rv
    /\ \A c \in Callers :
         pc[c] = "putWrite" /\ seen[c] = resource.rv => Fits(outcome[c].snapshot)
    /\ \A w \in late : w.kind = "putWrite" => Fits(w.snapshot)

\* Neither the authority nor the snapshot is from before an invalidation.
PurgedIsOld ==
    \A a \in Authorities :
        /\ purged[a] <= resource.epoch
        /\ active_matches(a) => resource.authority.epoch > purged[a]
        /\ snapshot_matches(a) => resource.snapshot.fence.epoch > purged[a]

\* A flight without a result is listed, and no other live flight of its key is.
FlightsConsistent ==
    /\ \A f \in listed : pc[f] \notin Early
    /\ \A c \in Callers : pc[c] \in Joined =>
         /\ pc[flight[c]] \notin Early
         /\ SameKey(c, flight[c])
         /\ result[flight[c]] = None => flight[c] \in listed
         /\ pc[c] \in Performing => result[flight[c]] = None
         /\ pc[c] = "unlist" => result[flight[c]] /= None
    /\ \A c, d \in Callers :
         pc[c] \in Gated /\ pc[d] \in Gated /\ flight[c] = flight[d] => c = d
    /\ \A c, d \in Callers :
         /\ pc[c] \in Joined /\ pc[d] \in Joined
         /\ flight[c] \in listed /\ flight[d] \in listed
         /\ SameKey(c, d)
         => flight[c] = flight[d]

\* What is published or returned was committed under the caller's authority.
Authoritative(o, a) ==
    o \notin {None, Failed} =>
        o.snapshot \in committed /\ o.snapshot.fence.auth = a

\* A caller without a fence has not begun a discovery of its own, and what a
\* caller returns is not older than its own discovery.
OutcomeOK(c) ==
    /\ pc[c] \in Early => result[c] = None
    /\ pc[c] \in Early \cup {"gate", "permit", "begin", "create", "beginWrite"} =>
         fence[c] = None
    /\ fence[c] /= None => fence[c].auth = auth[c]
    /\ Authoritative(result[c], auth[c])
    /\ pc[c] \in {"publish", "unlist", "done"} =>
         /\ Authoritative(outcome[c], auth[c])
         /\ outcome[c] \notin {None, Failed} /\ fence[c] /= None =>
              outcome[c].snapshot.fence.epoch >= fence[c].epoch

OutcomesConsistent ==
    /\ resource.snapshot /= None => resource.snapshot \in committed
    /\ \A c \in Callers : OutcomeOK(c)

IInv ==
    /\ TypeOK
    /\ CallsConsistent
    /\ WritesFit
    /\ PurgedIsOld
    /\ FlightsConsistent
    /\ OutcomesConsistent

(***************************************************************************)
(* What the building blocks of the actions do                              *)
(***************************************************************************)

\* The request of a process is well-formed and names its sender.
LEMMA RequestType ==
    ASSUME TypeOK, CallsConsistent, NEW p \in Processes, pc[p] \in Writing
    PROVE  /\ Request(p) \in Write
           /\ Request(p).by = p
           /\ Request(p).kind = pc[p]
           /\ auth[p] \in Authorities
           /\ pc[p] /= "invWrite" => p \in Callers
           /\ pc[p] = "putWrite" =>
                /\ Request(p).snapshot = outcome[p].snapshot
                /\ outcome[p].snapshot \in Snapshot
                /\ outcome[p].snapshot.fence = fence[p]
<1>1. pc[p] /= "invWrite" => p \in Callers
  BY DEF TypeOK, Writing, InvalidatorPlaces, Processes
<1>2. pc[p] = "putWrite" =>
        /\ outcome[p].snapshot \in Snapshot
        /\ outcome[p].snapshot.fence = fence[p]
  <2> SUFFICES ASSUME pc[p] = "putWrite"
               PROVE  /\ outcome[p].snapshot \in Snapshot
                      /\ outcome[p].snapshot.fence = fence[p]
    OBVIOUS
  <2>1. p \in Callers /\ fence[p] \in Fence
    BY <1>1 DEF CallsConsistent, CallOK
  <2>2. PICK r \in Reports :
          outcome[p] = Ok("refreshed", [fence |-> fence[p], report |-> r])
    BY <2>1 DEF CallsConsistent, CallOK
  <2> QED
    BY <2>1, <2>2 DEF Ok, Snapshot
<1>3. auth[p] \in Authorities
  BY DEF CallsConsistent, Writing
<1> QED
  BY <1>1, <1>2, <1>3 DEF Request, Write

\* An invalidation takes away what matches, and nothing else.
LEMMA InvalidatedEffect ==
    ASSUME TypeOK, NEW a \in Authorities
    PROVE  /\ invalidated(a) \in [rv : Nat, epoch : Nat, authority : Fence \cup {None},
                                  snapshot : Snapshot \cup {None}]
           /\ invalidated(a).rv = resource.rv + 1
           /\ active_matches(a) =>
                /\ invalidated(a).epoch = resource.epoch + 1
                /\ invalidated(a).authority = None
           /\ ~active_matches(a) =>
                /\ invalidated(a).epoch = resource.epoch
                /\ invalidated(a).authority = resource.authority
           /\ invalidated(a).snapshot =
                IF snapshot_matches(a) THEN None ELSE resource.snapshot
<1> DEFINE Resources == [rv : Nat, epoch : Nat, authority : Fence \cup {None},
                         snapshot : Snapshot \cup {None}]
<1>1. resource \in Resources
  BY DEF TypeOK
<1>2. CASE active_matches(a)
  <2>1. invalidated(a) =
          [resource EXCEPT !.rv = @ + 1, !.epoch = @ + 1, !.authority = None,
             !.snapshot = IF snapshot_matches(a) THEN None ELSE @]
    BY <1>1, <1>2 DEF invalidated
  <2>2. invalidated(a) =
          [rv |-> resource.rv + 1, epoch |-> resource.epoch + 1, authority |-> None,
           snapshot |-> IF snapshot_matches(a) THEN None ELSE resource.snapshot]
    BY <1>1, <2>1
  <2> QED
    BY <1>1, <1>2, <2>2
<1>3. CASE ~active_matches(a)
  <2>1. invalidated(a) =
          [resource EXCEPT !.rv = @ + 1,
             !.snapshot = IF snapshot_matches(a) THEN None ELSE @]
    BY <1>1, <1>3 DEF invalidated
  <2>2. invalidated(a) =
          [rv |-> resource.rv + 1, epoch |-> resource.epoch,
           authority |-> resource.authority,
           snapshot |-> IF snapshot_matches(a) THEN None ELSE resource.snapshot]
    BY <1>1, <2>1
  <2> QED
    BY <1>1, <1>3, <2>2
<1> QED
  BY <1>2, <1>3

\* Executing a write changes the resource in one of four ways, under the next
\* resourceVersion, and leaves no write for the old one.
LEMMA ExecuteEffect ==
    ASSUME TypeOK, NEW w \in Write, auth[w.by] \in Authorities,
           w.kind /= "invWrite" => w.by \in Callers,
           Execute(w)
    PROVE  /\ resource' \in [rv : Nat, epoch : Nat, authority : Fence \cup {None},
                             snapshot : Snapshot \cup {None}]
           /\ resource'.rv = resource.rv + 1
           /\ late' = {}
           /\ committed' \subseteq Snapshot
           /\ committed \subseteq committed'
           /\ resource'.snapshot /= None => resource'.snapshot \in committed'
           /\ purged' \in [Authorities -> Nat]
           /\ w.kind = "create" =>
                /\ resource'.epoch = resource.epoch
                /\ resource'.authority = resource.authority
                /\ resource'.snapshot = resource.snapshot
                /\ purged' = purged
           /\ w.kind = "beginWrite" =>
                /\ resource'.epoch = resource.epoch + 1
                /\ resource'.authority = next_fence(w.by)
                /\ resource'.snapshot = resource.snapshot
                /\ purged' = purged
           /\ w.kind = "putWrite" =>
                /\ resource'.epoch = resource.epoch
                /\ resource'.authority = resource.authority
                /\ resource'.snapshot = w.snapshot
                /\ purged' = purged
           /\ w.kind = "invWrite" =>
                /\ resource' = invalidated(auth[w.by])
                /\ purged' = [purged EXCEPT ![auth[w.by]] = resource'.epoch]
<1> DEFINE Resources == [rv : Nat, epoch : Nat, authority : Fence \cup {None},
                         snapshot : Snapshot \cup {None}]
<1>1. resource' = written(w) /\ late' = {}
  BY DEF Execute
<1>2. resource \in Resources
  BY DEF TypeOK
<1>3. /\ resource' \in Resources
      /\ resource'.rv = resource.rv + 1
      /\ w.kind = "create" =>
           /\ resource'.epoch = resource.epoch
           /\ resource'.authority = resource.authority
           /\ resource'.snapshot = resource.snapshot
      /\ w.kind = "beginWrite" =>
           /\ resource'.epoch = resource.epoch + 1
           /\ resource'.authority = next_fence(w.by)
           /\ resource'.snapshot = resource.snapshot
      /\ w.kind = "putWrite" =>
           /\ resource'.epoch = resource.epoch
           /\ resource'.authority = resource.authority
           /\ resource'.snapshot = w.snapshot
      /\ w.kind = "invWrite" => resource' = invalidated(auth[w.by])
  <2>1. CASE w.kind = "create"
    <3>1. resource' = [resource EXCEPT !.rv = @ + 1]
      BY <1>1, <2>1 DEF written
    <3> QED
      BY <1>2, <2>1, <3>1
  <2>2. CASE w.kind = "beginWrite"
    <3>1. next_fence(w.by) \in Fence
      BY <1>2, <2>2 DEF next_fence, Fence
    <3>2. resource' = [resource EXCEPT !.rv = @ + 1, !.epoch = @ + 1,
                                       !.authority = next_fence(w.by)]
      BY <1>1, <2>2 DEF written
    <3>3. resource' = [rv |-> resource.rv + 1, epoch |-> resource.epoch + 1,
                       authority |-> next_fence(w.by), snapshot |-> resource.snapshot]
      BY <1>2, <3>2
    <3> QED
      BY <1>2, <2>2, <3>1, <3>3
  <2>3. CASE w.kind = "putWrite"
    <3>1. resource' = [resource EXCEPT !.rv = @ + 1, !.snapshot = w.snapshot]
      BY <1>1, <2>3 DEF written
    <3>2. w.snapshot \in Snapshot \cup {None}
      BY DEF Write
    <3>3. resource' = [rv |-> resource.rv + 1, epoch |-> resource.epoch,
                       authority |-> resource.authority, snapshot |-> w.snapshot]
      BY <1>2, <3>1
    <3> QED
      BY <1>2, <2>3, <3>2, <3>3
  <2>4. CASE w.kind = "invWrite"
    <3>1. resource' = invalidated(auth[w.by])
      BY <1>1, <2>4 DEF written
    <3>2. invalidated(auth[w.by]) \in Resources
          /\ invalidated(auth[w.by]).rv = resource.rv + 1
      BY <1>2, InvalidatedEffect
    <3> QED
      BY <2>4, <3>1, <3>2
  <2> QED
    BY <2>1, <2>2, <2>3, <2>4 DEF Write, Writing
<1>4. /\ committed' \subseteq Snapshot
      /\ committed \subseteq committed'
      /\ resource'.snapshot /= None => resource'.snapshot \in committed'
  <2>1. resource'.snapshot \in Snapshot \cup {None}
    BY <1>3
  <2>2. committed' = committed \cup ({resource'.snapshot} \ {None})
    BY DEF Execute
  <2> QED
    BY <2>1, <2>2 DEF TypeOK
<1>5. /\ w.kind /= "invWrite" => purged' = purged
      /\ w.kind = "invWrite" =>
           purged' = [purged EXCEPT ![auth[w.by]] = resource'.epoch]
      /\ purged' \in [Authorities -> Nat]
  <2>1. resource'.epoch \in Nat
    BY <1>3
  <2> QED
    BY <2>1 DEF Execute, TypeOK
<1> QED
  BY <1>1, <1>3, <1>4, <1>5

\* A write that nobody waits for any more was one of its process.
LEMMA AbandonEffect ==
    ASSUME TypeOK, CallsConsistent, NEW p \in Processes, Abandon(p)
    PROVE  /\ resource' = resource /\ committed' = committed /\ purged' = purged
           /\ late' \subseteq Write
           /\ \A w \in late' : w \in late \/
                /\ seen[p] = resource.rv
                /\ w.by = p /\ w.kind = pc[p] /\ auth[p] \in Authorities
                /\ w.kind /= "invWrite" => p \in Callers
                /\ w.kind = "putWrite" =>
                     /\ w.snapshot = outcome[p].snapshot
                     /\ w.snapshot \in Snapshot
<1>1. CASE pc[p] \in Writing /\ seen[p] = resource.rv
  BY <1>1, RequestType DEF Abandon, TypeOK
<1>2. CASE ~(pc[p] \in Writing /\ seen[p] = resource.rv)
  BY <1>2 DEF Abandon, TypeOK
<1> QED
  BY <1>1, <1>2

(***************************************************************************)
(* Types                                                                   *)
(***************************************************************************)

\* How the program counters of a call move.
LEMMA GotoType ==
    ASSUME TypeOK, NEW p \in Processes, NEW l, Goto(p, l),
           p \in Callers => l \in CallerPlaces,
           p \in Invalidators => l \in InvalidatorPlaces
    PROVE  /\ pc' \in [Processes -> CallerPlaces \cup InvalidatorPlaces]
           /\ \A c \in Callers : pc'[c] \in CallerPlaces
           /\ \A i \in Invalidators : pc'[i] \in InvalidatorPlaces
           /\ pc'[p] = l
           /\ \A q \in Processes \ {p} : pc'[q] = pc[q]
  BY DEF TypeOK, Goto, Processes

\* A loop that ends forgets what it read and has all its tries again.
LEMMA LoopTypes ==
    ASSUME TypeOK, NEW p \in Processes, EndLoop(p)
    PROVE  /\ seen' \in [Processes -> Nat] /\ tries' \in [Processes -> Nat \ {0}]
           /\ seen'[p] = 0
           /\ \A q \in Processes \ {p} : seen'[q] = seen[q]
  BY ConfigAssumption DEF TypeOK, EndLoop

\* A failed call publishes an error or returns.
LEMMA FailType ==
    ASSUME TypeOK, NEW p \in Processes, Fail(p)
    PROVE  /\ pc' \in [Processes -> CallerPlaces \cup InvalidatorPlaces]
           /\ \A c \in Callers : pc'[c] \in CallerPlaces
           /\ \A i \in Invalidators : pc'[i] \in InvalidatorPlaces
           /\ pc'[p] \in {"publish", "done"}
           /\ pc'[p] = "publish" => pc[p] /= "get"
           /\ \A q \in Processes \ {p} : pc'[q] = pc[q]
           /\ seen' \in [Processes -> Nat] /\ tries' \in [Processes -> Nat \ {0}]
           /\ seen'[p] = 0
           /\ \A q \in Processes \ {p} : seen'[q] = seen[q]
           /\ outcome' \in [Callers -> Outcome \cup {None}]
           /\ p \in Callers => outcome'[p] = Failed /\ Failed \in Outcome
           /\ \A c \in Callers \ {p} : outcome'[c] = outcome[c]
<1>1. EndLoop(p)
  BY DEF Fail
<1>2. Failed \in Outcome
  BY DEF Failed, Outcome
<1>3. CASE p \in Callers
  <2>1. PICK l \in {"publish", "done"} : Goto(p, l) /\ (l = "publish" => pc[p] /= "get")
    BY <1>3 DEF Fail
  <2>2. l \in CallerPlaces /\ p \notin Invalidators
    BY <1>3, ConfigAssumption DEF CallerPlaces, Joined, Gated, Performing
  <2>3. outcome' = [outcome EXCEPT ![p] = Failed]
    BY <1>3 DEF Fail
  <2>4. /\ outcome' \in [Callers -> Outcome \cup {None}]
        /\ outcome'[p] = Failed
        /\ \A c \in Callers \ {p} : outcome'[c] = outcome[c]
    BY <1>2, <1>3, <2>3 DEF TypeOK
  <2> QED
    BY <1>1, <1>2, <2>1, <2>2, <2>4, GotoType, LoopTypes
<1>4. CASE p \notin Callers
  <2>1. Goto(p, "done") /\ outcome' = outcome
    BY <1>4 DEF Fail
  <2>2. "done" \in InvalidatorPlaces /\ "done" \in CallerPlaces
    BY DEF InvalidatorPlaces, CallerPlaces
  <2> QED
    BY <1>1, <1>4, <2>1, <2>2, GotoType, LoopTypes DEF TypeOK
<1> QED
  BY <1>3, <1>4

\* Results that carry a snapshot are outcomes.
LEMMA OkType ==
    ASSUME NEW o \in Snapshot \cup {None},
           NEW k \in {"cached", "refreshed", "won_by_other"}
    PROVE  Ok(k, o) \in Outcome /\ Ok(k, o).snapshot = o
  BY DEF Ok, Outcome

\* A caller whose state is unchanged keeps what it has established.
LEMMA CallFrame ==
    ASSUME NEW c \in Callers, CallOK(c), pc'[c] = pc[c], flight'[c] = flight[c],
           fence'[c] = fence[c], outcome'[c] = outcome[c]
    PROVE  CallOK(c)'
  BY DEF CallOK

\* A call that fails keeps its flight.
LEMMA FailCalls ==
    ASSUME TypeOK, CallsConsistent, NEW p \in Processes, Fail(p),
           pc[p] \notin {"idle", "join", "done"}, UNCHANGED << auth, service, fence >>
    PROVE  /\ \A q \in Processes : pc'[q] /= "idle" => auth'[q] \in Authorities
           /\ \A c \in Callers : CallOK(c)'
<1>1. \A q \in Processes : pc'[q] /= "idle" => auth'[q] \in Authorities
  BY FailType DEF CallsConsistent
<1>2. ASSUME NEW c \in Callers PROVE CallOK(c)'
  <2>1. CASE c = p
    <3>1. pc'[p] = "publish" => pc[p] \in Joined
      BY <2>1, FailType DEF TypeOK, CallerPlaces
    <3>2. pc'[p] \in {"publish", "done"} /\ outcome'[p] \in Outcome
      BY <2>1, FailType
    <3>3. flight'[p] = flight[p] /\ CallOK(p)
      BY <2>1 DEF CallsConsistent, service
    <3> QED
      BY <2>1, <3>1, <3>2, <3>3 DEF CallOK, Joined, Gated, Performing, Permitted
  <2>2. CASE c /= p
    BY <2>2, FailType, CallFrame DEF CallsConsistent, service, Processes
  <2> QED
    BY <2>1, <2>2
<1> QED
  BY <1>1, <1>2

\* TypeOK and CallsConsistent are preserved together.
LEMMA TypePreserved ==
    TypeOK /\ CallsConsistent /\ [Next]_vars => TypeOK' /\ CallsConsistent'
<1> SUFFICES ASSUME TypeOK, CallsConsistent, [Next]_vars
             PROVE  TypeOK' /\ CallsConsistent'
  OBVIOUS
<1> USE ConfigAssumption DEF Processes
<1>1. ASSUME NEW c \in Callers, Call(c) PROVE TypeOK' /\ CallsConsistent'
  <2>1. TypeOK'
    BY <1>1 DEF TypeOK, CallsConsistent, CallOK, Call, Goto, store, service,
       CallerPlaces, InvalidatorPlaces, Joined, Gated, Performing, Permitted
  <2>2. CallsConsistent'
    BY <1>1 DEF TypeOK, CallsConsistent, CallOK, LateOK, Call, Goto, store, service,
       CallerPlaces, InvalidatorPlaces, Joined, Gated, Performing, Permitted
  <2> QED
    BY <2>1, <2>2
<1>2. ASSUME NEW c \in Callers, GetCached(c) PROVE TypeOK' /\ CallsConsistent'
  <2>1. /\ Ok("cached", resource.snapshot) \in Outcome
        /\ outcome' = [outcome EXCEPT ![c] = Ok("cached", resource.snapshot)]
    BY <1>2, OkType DEF GetCached, TypeOK
  <2>2. TypeOK'
    BY <1>2, <2>1 DEF TypeOK, GetCached, Goto, store, service, CallerPlaces
  <2>3. CallsConsistent'
    <3>1. /\ Goto(c, "done") /\ pc[c] = "get"
          /\ UNCHANGED << late, auth, flight, fence >>
      BY <1>2 DEF GetCached, store, service
    <3>2. CallOK(c)'
      BY <3>1 DEF CallOK, Goto, TypeOK, Joined, Gated, Performing, Permitted
    <3>3. ASSUME NEW d \in Callers, d /= c PROVE CallOK(d)'
      BY <2>1, <3>1, <3>3, CallFrame DEF CallsConsistent, Goto, TypeOK
    <3> QED
      BY <3>1, <3>2, <3>3 DEF CallsConsistent, LateOK, Goto, TypeOK
  <2> QED
    BY <2>2, <2>3
<1>3. ASSUME NEW c \in Callers, GetMissed(c) PROVE TypeOK' /\ CallsConsistent'
  <2>1. TypeOK'
    BY <1>3 DEF TypeOK, CallsConsistent, CallOK, GetMissed, Goto, store, service,
       CallerPlaces, InvalidatorPlaces, Joined, Gated, Performing, Permitted
  <2>2. CallsConsistent'
    BY <1>3 DEF TypeOK, CallsConsistent, CallOK, LateOK, GetMissed, Goto, store, service,
       CallerPlaces, InvalidatorPlaces, Joined, Gated, Performing, Permitted
  <2> QED
    BY <2>1, <2>2
<1>4. ASSUME NEW c \in Callers, Join(c) PROVE TypeOK' /\ CallsConsistent'
  <2>1. TypeOK'
    BY <1>4 DEF TypeOK, CallsConsistent, CallOK, Join, Goto, store, service,
       CallerPlaces, InvalidatorPlaces, Joined, Gated, Performing, Permitted
  <2>2. CallsConsistent'
    BY <1>4 DEF TypeOK, CallsConsistent, CallOK, LateOK, Join, Goto, store, service,
       CallerPlaces, InvalidatorPlaces, Joined, Gated, Performing, Permitted
  <2> QED
    BY <2>1, <2>2
<1>5. ASSUME NEW c \in Callers, Gate(c) PROVE TypeOK' /\ CallsConsistent'
  <2>1. flight[c] \in Callers /\ result[flight[c]] \in Outcome \cup {None}
    BY <1>5 DEF TypeOK, CallsConsistent, CallOK, Gate, Joined
  <2>2. outcome' \in [Callers -> Outcome \cup {None}]
    BY <1>5, <2>1 DEF Gate, TypeOK
  <2>3. TypeOK'
    BY <1>5, <2>2 DEF TypeOK, Gate, Goto, store, service, CallerPlaces, Joined, Gated,
       Performing
  <2>4. CallsConsistent'
    BY <1>5, <2>1 DEF TypeOK, CallsConsistent, CallOK, LateOK, Gate, Goto, store, service,
       Joined, Gated, Performing, Permitted
  <2> QED
    BY <2>3, <2>4
<1>6. ASSUME NEW c \in Callers, Acquire(c) PROVE TypeOK' /\ CallsConsistent'
  <2>1. TypeOK'
    BY <1>6 DEF TypeOK, CallsConsistent, CallOK, Acquire, Goto, store, service,
       CallerPlaces, InvalidatorPlaces, Joined, Gated, Performing, Permitted
  <2>2. CallsConsistent'
    BY <1>6 DEF TypeOK, CallsConsistent, CallOK, LateOK, Acquire, Goto, store, service,
       CallerPlaces, InvalidatorPlaces, Joined, Gated, Performing, Permitted
  <2> QED
    BY <2>1, <2>2
<1>7. ASSUME NEW c \in Callers, Begin(c) PROVE TypeOK' /\ CallsConsistent'
  <2>1. TypeOK'
    BY <1>7 DEF TypeOK, CallsConsistent, CallOK, Begin, Read, Goto, store, service,
       CallerPlaces, InvalidatorPlaces, Joined, Gated, Performing, Permitted
  <2>2. CallsConsistent'
    BY <1>7 DEF TypeOK, CallsConsistent, CallOK, LateOK, Begin, Read, Goto, store, service,
       CallerPlaces, InvalidatorPlaces, Joined, Gated, Performing, Permitted
  <2> QED
    BY <2>1, <2>2
<1>8. ASSUME NEW c \in Callers, Discover(c) PROVE TypeOK' /\ CallsConsistent'
  <2>1. PICK r \in Reports :
          outcome' = [outcome EXCEPT ![c] = Ok("refreshed", [fence |-> fence[c], report |-> r])]
    BY <1>8 DEF Discover
  <2>2. fence[c] \in Fence /\ [fence |-> fence[c], report |-> r] \in Snapshot
    BY <1>8 DEF CallsConsistent, CallOK, Discover, Snapshot
  <2>3. outcome' \in [Callers -> Outcome \cup {None}]
    BY <2>1, <2>2, OkType DEF TypeOK
  <2>4. TypeOK'
    BY <1>8, <2>3 DEF TypeOK, Discover, Goto, store, service, CallerPlaces, Joined, Gated,
       Performing, Permitted
  <2>5. CallsConsistent'
    BY <1>8, <2>1, <2>2 DEF TypeOK, CallsConsistent, CallOK, LateOK, Discover, Goto, store,
       service, Joined, Gated, Performing, Permitted
  <2> QED
    BY <2>4, <2>5
<1>9. ASSUME NEW c \in Callers, PutLost(c) PROVE TypeOK' /\ CallsConsistent'
  <2>1. TypeOK'
    BY <1>9 DEF TypeOK, CallsConsistent, CallOK, PutLost, EndLoop, Goto, store, service,
       CallerPlaces, InvalidatorPlaces, Joined, Gated, Performing, Permitted
  <2>2. CallsConsistent'
    BY <1>9 DEF TypeOK, CallsConsistent, CallOK, LateOK, PutLost, EndLoop, Goto, store,
       service,
       CallerPlaces, InvalidatorPlaces, Joined, Gated, Performing, Permitted
  <2> QED
    BY <2>1, <2>2
<1>10. ASSUME NEW c \in Callers, PutCurrent(c) PROVE TypeOK' /\ CallsConsistent'
  <2>1. TypeOK'
    BY <1>10, FailType DEF TypeOK, PutCurrent, Read, EndLoop, Goto, store, service,
       CallerPlaces, Joined, Gated, Performing, Permitted
  <2>2. CASE Fail(c) /\ UNCHANGED << auth, service >>
    <3>1. pc[c] = "put" /\ UNCHANGED << late, auth, service, fence >>
      BY <1>10, <2>2 DEF PutCurrent, store
    <3>2. /\ \A q \in Processes : pc'[q] /= "idle" => auth'[q] \in Authorities
          /\ \A d \in Callers : CallOK(d)'
      BY <2>2, <3>1, FailCalls
    <3> QED
      BY <2>1, <3>1, <3>2 DEF CallsConsistent, LateOK
  <2>3. CASE UNCHANGED << auth, service, outcome >> /\ \E l \in {"putWrite", "publish"} : Goto(c, l)
    <3>1. PICK r \in Reports :
            outcome[c] = Ok("refreshed", [fence |-> fence[c], report |-> r])
      BY <1>10 DEF CallsConsistent, CallOK, PutCurrent
    <3>2. fence[c] \in Fence
      BY <1>10 DEF CallsConsistent, CallOK, PutCurrent
    <3>3. outcome[c] \in Outcome
      BY <3>1, <3>2, OkType DEF Snapshot
    <3>4. CallOK(c)'
      BY <1>10, <2>3, <3>1, <3>2, <3>3 DEF CallsConsistent, CallOK, PutCurrent, Goto,
         TypeOK,
         service, Joined, Gated, Performing, Permitted
    <3>5. ASSUME NEW d \in Callers, d /= c PROVE CallOK(d)'
      BY <1>10, <2>3, <3>5, CallFrame DEF CallsConsistent, PutCurrent, Goto, TypeOK, service
    <3> QED
      <4>1. pc[c] = "put" /\ UNCHANGED << late, auth >>
        BY <1>10, <2>3 DEF PutCurrent, store
      <4>2. \A q \in Processes : pc'[q] /= "idle" => auth'[q] \in Authorities
        BY <2>3, <4>1 DEF CallsConsistent, Goto, TypeOK
      <4> QED
        BY <2>1, <3>4, <3>5, <4>1, <4>2 DEF CallsConsistent, LateOK
  <2>4. \/ Fail(c) /\ UNCHANGED << auth, service >>
        \/ UNCHANGED << auth, service, outcome >> /\ \E l \in {"putWrite", "publish"} : Goto(c, l)
    BY <1>10 DEF PutCurrent, Read
  <2> QED
    BY <2>1, <2>2, <2>3, <2>4
<1>11. ASSUME NEW c \in Callers, WinnerFound(c) PROVE TypeOK' /\ CallsConsistent'
  <2>1. /\ Ok("won_by_other", resource.snapshot) \in Outcome
        /\ outcome' = [outcome EXCEPT ![c] = Ok("won_by_other", resource.snapshot)]
    BY <1>11, OkType DEF WinnerFound, TypeOK
  <2>2. TypeOK'
    BY <1>11, <2>1 DEF TypeOK, WinnerFound, Goto, store, service, CallerPlaces, Joined,
       Gated,
       Performing
  <2>3. CallsConsistent'
    BY <1>11, <2>1 DEF TypeOK, CallsConsistent, CallOK, LateOK, WinnerFound, Goto,
       store, service,
       Joined, Gated, Performing, Permitted
  <2> QED
    BY <2>2, <2>3
<1>12. ASSUME NEW c \in Callers, WinnerTimeout(c) PROVE TypeOK' /\ CallsConsistent'
  <2>1. Fail(c) /\ pc[c] = "winner" /\ UNCHANGED << faults, store, auth, service, fence >>
    BY <1>12 DEF WinnerTimeout
  <2>2. TypeOK'
    BY <2>1, FailType DEF TypeOK, store, service
  <2>3. CallsConsistent'
    BY <2>1, FailCalls DEF CallsConsistent, LateOK, store
  <2> QED
    BY <2>2, <2>3
<1>13. ASSUME NEW c \in Callers, Publish(c) PROVE TypeOK' /\ CallsConsistent'
  <2>1. TypeOK'
    BY <1>13 DEF TypeOK, CallsConsistent, CallOK, Publish, Goto, store, service,
       CallerPlaces, InvalidatorPlaces, Joined, Gated, Performing, Permitted
  <2>2. CallsConsistent'
    BY <1>13 DEF TypeOK, CallsConsistent, CallOK, LateOK, Publish, Goto, store, service,
       CallerPlaces, InvalidatorPlaces, Joined, Gated, Performing, Permitted
  <2> QED
    BY <2>1, <2>2
<1>14. ASSUME NEW c \in Callers, Unlist(c) PROVE TypeOK' /\ CallsConsistent'
  <2>1. TypeOK'
    BY <1>14 DEF TypeOK, CallsConsistent, CallOK, Unlist, Goto, store, service,
       CallerPlaces, InvalidatorPlaces, Joined, Gated, Performing, Permitted
  <2>2. CallsConsistent'
    BY <1>14 DEF TypeOK, CallsConsistent, CallOK, LateOK, Unlist, Goto, store, service,
       CallerPlaces, InvalidatorPlaces, Joined, Gated, Performing, Permitted
  <2> QED
    BY <2>1, <2>2
<1>15. ASSUME NEW c \in Callers, Cancel(c) PROVE TypeOK' /\ CallsConsistent'
  <2>1. /\ Goto(c, "done") /\ EndLoop(c) /\ Fault /\ Abandon(c)
        /\ UNCHANGED << auth, service, fence >>
        /\ outcome' = [outcome EXCEPT ![c] = None]
        /\ pc[c] /= "idle"
    BY <1>15 DEF Cancel
  <2>2. "done" \in CallerPlaces
    BY DEF CallerPlaces
  <2>3. TypeOK'
    BY <2>1, <2>2, GotoType, LoopTypes, AbandonEffect DEF TypeOK, Fault, service
  <2>4. \A w \in late' : LateOK(w)'
    BY <2>1, AbandonEffect DEF CallsConsistent, LateOK
  <2>5. CallOK(c)'
    BY <2>1 DEF CallOK, Goto, TypeOK, Joined, Gated, Performing, Permitted
  <2>6. ASSUME NEW d \in Callers, d /= c PROVE CallOK(d)'
    BY <2>1, <2>6, CallFrame DEF CallsConsistent, Goto, TypeOK, service
  <2>7. CallsConsistent'
    BY <2>1, <2>4, <2>5, <2>6 DEF CallsConsistent, Goto, TypeOK
  <2> QED
    BY <2>3, <2>7
<1>16. ASSUME NEW p \in Processes, WriteAccepted(p) PROVE TypeOK' /\ CallsConsistent'
  <2>1. /\ pc[p] \in Writing /\ Execute(Request(p)) /\ Goto(p, After(pc[p]))
        /\ UNCHANGED << faults, auth, service, outcome >>
    BY <1>16 DEF WriteAccepted
  <2>2. /\ Request(p) \in Write /\ auth[Request(p).by] \in Authorities
        /\ Request(p).kind /= "invWrite" => Request(p).by \in Callers
    BY <2>1, RequestType
  <2>3. /\ p \in Callers => After(pc[p]) \in {"beginWrite", "discover", "publish"}
        /\ p \in Callers => After(pc[p]) \in CallerPlaces
        /\ p \in Callers /\ After(pc[p]) = "discover" => pc[p] = "beginWrite"
        /\ p \in Callers /\ After(pc[p]) = "publish" => pc[p] = "putWrite"
        /\ p \in Callers => pc[p] \in Joined
        /\ p \in Invalidators => After(pc[p]) \in InvalidatorPlaces
    BY <2>1 DEF Writing, After, TypeOK, CallerPlaces, InvalidatorPlaces, Joined, Gated,
       Performing, Permitted
  <2>4. seen' \in [Processes -> Nat] /\ tries' \in [Processes -> Nat \ {0}]
    <3>1. resource'.rv \in Nat
      BY <2>1, <2>2, ExecuteEffect
    <3> QED
      BY <1>16, <3>1, LoopTypes DEF WriteAccepted, TypeOK
  <2>5. /\ pc[p] = "beginWrite" => p \in Callers /\ next_fence(p) \in Fence
        /\ fence' = IF pc[p] = "beginWrite"
                      THEN [fence EXCEPT ![p] = next_fence(p)] ELSE fence
    BY <1>16, <2>1, RequestType DEF WriteAccepted, next_fence, Fence, TypeOK
  <2>6. TypeOK'
    BY <2>1, <2>2, <2>3, <2>4, <2>5, GotoType, ExecuteEffect DEF TypeOK, service
  <2>7. p \in Callers => CallOK(p)'
    <3> SUFFICES ASSUME p \in Callers PROVE CallOK(p)'
      OBVIOUS
    <3>1. pc[p] = "putWrite" => outcome[p] \in Outcome
      <4> SUFFICES ASSUME pc[p] = "putWrite" PROVE outcome[p] \in Outcome
        OBVIOUS
      <4>1. PICK r \in Reports :
              outcome[p] = Ok("refreshed", [fence |-> fence[p], report |-> r])
        BY DEF CallsConsistent, CallOK
      <4>2. fence[p] \in Fence
        BY DEF CallsConsistent, CallOK
      <4> QED
        BY <4>1, <4>2, OkType DEF Snapshot
    <3>2. CallOK(p) /\ flight'[p] = flight[p] /\ outcome'[p] = outcome[p]
      BY <2>1 DEF CallsConsistent, service
    <3>3. pc'[p] = After(pc[p])
      BY <2>1, <2>3, GotoType
    <3>4. pc[p] = "beginWrite" => fence'[p] \in Fence
      BY <2>5 DEF TypeOK
    <3> QED
      BY <2>3, <3>1, <3>2, <3>3, <3>4 DEF CallOK
  <2>8. ASSUME NEW d \in Callers, d /= p PROVE CallOK(d)'
    <3>1. fence'[d] = fence[d] /\ flight'[d] = flight[d] /\ outcome'[d] = outcome[d]
      BY <2>1, <2>5, <2>8 DEF TypeOK, service
    <3>2. pc'[d] = pc[d]
      BY <2>1, <2>3, <2>8, GotoType
    <3> QED
      BY <3>1, <3>2, CallFrame DEF CallsConsistent
  <2>9. CallsConsistent'
    <3>1. late' = {}
      BY <2>1, <2>2, ExecuteEffect
    <3>2. \A q \in Processes : pc'[q] /= "idle" => auth'[q] \in Authorities
      BY <2>1, <2>3, GotoType, RequestType DEF CallsConsistent
    <3> QED
      BY <2>7, <2>8, <3>1, <3>2 DEF CallsConsistent
  <2> QED
    BY <2>6, <2>9
<1>17. ASSUME NEW p \in Processes, WriteConflict(p) PROVE TypeOK' /\ CallsConsistent'
  <2>1. CASE tries[p] = 1
    <3>1. /\ Fail(p) /\ UNCHANGED << faults, store, auth, service, fence >>
          /\ pc[p] \notin {"idle", "join", "done"}
      BY <1>17, <2>1 DEF WriteConflict, Writing
    <3> QED
      BY <3>1, FailType, FailCalls DEF TypeOK, CallsConsistent, LateOK, store, service
  <2>2. CASE tries[p] /= 1
    <3>1. /\ tries' = [tries EXCEPT ![p] = @ - 1] /\ seen' = [seen EXCEPT ![p] = 0]
          /\ Goto(p, LoopStart(pc[p])) /\ UNCHANGED outcome
          /\ UNCHANGED << faults, store, auth, service, fence >>
      BY <1>17, <2>2 DEF WriteConflict
    <3>2. /\ p \in Callers => LoopStart(pc[p]) \in {"begin", "put"}
          /\ p \in Callers => LoopStart(pc[p]) \in CallerPlaces
          /\ p \in Callers /\ LoopStart(pc[p]) = "put" => pc[p] = "putWrite"
          /\ p \in Callers => pc[p] \in Joined
          /\ p \in Invalidators => LoopStart(pc[p]) \in InvalidatorPlaces
      BY <1>17 DEF WriteConflict, Writing, LoopStart, TypeOK, CallerPlaces,
         InvalidatorPlaces, Joined, Gated, Performing, Permitted
    <3>3. tries' \in [Processes -> Nat \ {0}] /\ seen' \in [Processes -> Nat]
      BY <2>2, <3>1 DEF TypeOK
    <3>4. TypeOK'
      BY <3>1, <3>2, <3>3, GotoType DEF TypeOK, store, service
    <3>5. p \in Callers => CallOK(p)'
      BY <3>1, <3>2, GotoType DEF CallsConsistent, CallOK, service
    <3>6. ASSUME NEW d \in Callers, d /= p PROVE CallOK(d)'
      BY <3>1, <3>2, <3>6, GotoType, CallFrame DEF CallsConsistent, service
    <3>7. pc[p] /= "idle"
      BY <1>17 DEF WriteConflict, Writing
    <3>8. CallsConsistent'
      BY <3>1, <3>2, <3>5, <3>6, <3>7, GotoType DEF CallsConsistent, LateOK, store
    <3> QED
      BY <3>4, <3>8
  <2> QED
    BY <2>1, <2>2
<1>18. ASSUME NEW p \in Processes, WriteUnanswered(p) PROVE TypeOK' /\ CallsConsistent'
  <2>1. /\ Fail(p) /\ Fault /\ Abandon(p) /\ UNCHANGED << auth, service, fence >>
        /\ pc[p] \notin {"idle", "join", "done"}
    BY <1>18 DEF WriteUnanswered, Writing
  <2>2. TypeOK'
    BY <2>1, FailType, AbandonEffect DEF TypeOK, Fault, service
  <2>3. \A w \in late' : LateOK(w)'
    BY <2>1, AbandonEffect DEF CallsConsistent, LateOK
  <2>4. CallsConsistent'
    BY <2>1, <2>3, FailCalls DEF CallsConsistent
  <2> QED
    BY <2>2, <2>4
<1>19. ASSUME NEW p \in Processes, ReadFailed(p) PROVE TypeOK' /\ CallsConsistent'
  <2>1. /\ Fail(p) /\ Fault /\ UNCHANGED << store, auth, service, fence >>
        /\ pc[p] \notin {"idle", "join", "done"}
    BY <1>19 DEF ReadFailed
  <2>2. TypeOK'
    BY <2>1, FailType DEF TypeOK, Fault, store, service
  <2>3. CallsConsistent'
    BY <2>1, FailCalls DEF CallsConsistent, LateOK, store
  <2> QED
    BY <2>2, <2>3
<1>20. ASSUME NEW i \in Invalidators, CallInvalidate(i) PROVE TypeOK' /\ CallsConsistent'
  <2>1. TypeOK'
    BY <1>20 DEF TypeOK, CallsConsistent, CallOK, CallInvalidate, Goto, store, service,
       CallerPlaces, InvalidatorPlaces, Joined, Gated, Performing, Permitted
  <2>2. CallsConsistent'
    BY <1>20 DEF TypeOK, CallsConsistent, CallOK, LateOK, CallInvalidate, Goto, store,
       service,
       CallerPlaces, InvalidatorPlaces, Joined, Gated, Performing, Permitted
  <2> QED
    BY <2>1, <2>2
<1>21. ASSUME NEW i \in Invalidators, InvalidateNothing(i) PROVE TypeOK' /\ CallsConsistent'
  <2>1. TypeOK'
    BY <1>21 DEF TypeOK, CallsConsistent, CallOK, InvalidateNothing, EndLoop, Goto,
       store, service,
       CallerPlaces, InvalidatorPlaces, Joined, Gated, Performing, Permitted
  <2>2. CallsConsistent'
    BY <1>21 DEF TypeOK, CallsConsistent, CallOK, LateOK, InvalidateNothing, EndLoop,
       Goto, store, service,
       CallerPlaces, InvalidatorPlaces, Joined, Gated, Performing, Permitted
  <2> QED
    BY <2>1, <2>2
<1>22. ASSUME NEW i \in Invalidators, InvalidateList(i) PROVE TypeOK' /\ CallsConsistent'
  <2>1. TypeOK'
    BY <1>22 DEF TypeOK, CallsConsistent, CallOK, InvalidateList, Goto, store, service,
       CallerPlaces, InvalidatorPlaces, Joined, Gated, Performing, Permitted
  <2>2. CallsConsistent'
    BY <1>22 DEF TypeOK, CallsConsistent, CallOK, LateOK, InvalidateList, Goto, store,
       service,
       CallerPlaces, InvalidatorPlaces, Joined, Gated, Performing, Permitted
  <2> QED
    BY <2>1, <2>2
<1>23. ASSUME NEW i \in Invalidators, InvalidateRead(i) PROVE TypeOK' /\ CallsConsistent'
  <2>1. TypeOK'
    BY <1>23 DEF TypeOK, CallsConsistent, CallOK, InvalidateRead, Read, Goto, store,
       service,
       CallerPlaces, InvalidatorPlaces, Joined, Gated, Performing, Permitted
  <2>2. CallsConsistent'
    BY <1>23 DEF TypeOK, CallsConsistent, CallOK, LateOK, InvalidateRead, Read, Goto,
       store, service,
       CallerPlaces, InvalidatorPlaces, Joined, Gated, Performing, Permitted
  <2> QED
    BY <2>1, <2>2
<1>24. ASSUME LateWrite PROVE TypeOK' /\ CallsConsistent'
  <2>1. PICK w \in late : Execute(w)
    BY <1>24 DEF LateWrite
  <2>2. w \in Write /\ auth[w.by] \in Authorities /\ (w.kind /= "invWrite" => w.by \in Callers)
    BY DEF TypeOK, CallsConsistent, LateOK
  <2>3. TypeOK'
    BY <1>24, <2>1, <2>2, ExecuteEffect DEF TypeOK, LateWrite, service
  <2>4. late' = {} /\ UNCHANGED << pc, auth, flight, fence, outcome >>
    BY <1>24, <2>1, <2>2, ExecuteEffect DEF LateWrite, service
  <2>5. CallsConsistent'
    BY <2>4 DEF CallsConsistent, CallOK
  <2> QED
    BY <2>3, <2>5
<1>25. ASSUME UNCHANGED vars PROVE TypeOK' /\ CallsConsistent'
  BY <1>25 DEF vars, TypeOK, CallsConsistent, CallOK, LateOK
<1> QED
  BY <1>1, <1>2, <1>3, <1>4, <1>5, <1>6, <1>7, <1>8, <1>9, <1>10, <1>11, <1>12, <1>13,
     <1>14, <1>15, <1>16, <1>17, <1>18, <1>19, <1>20, <1>21, <1>22, <1>23, <1>24, <1>25
     DEF Next, Handle, Perform, Loop, Invalidate, Terminated

(***************************************************************************)
(* The store                                                               *)
(***************************************************************************)

\* Only one process moves, and its own writes are made from the resource.
LEMMA WritesFrame ==
    ASSUME TypeOK, CallsConsistent, WritesFit, NEW p \in Processes,
           resource' = resource, late' = late \/ Abandon(p),
           \A q \in Processes \ {p} : pc'[q] = pc[q] /\ seen'[q] = seen[q],
           \A c \in Callers \ {p} : outcome'[c] = outcome[c],
           seen'[p] <= resource.rv,
           p \in Callers /\ pc'[p] = "putWrite" => Fits(outcome'[p].snapshot)
    PROVE  WritesFit'
<1>1. \A q \in Processes : seen'[q] <= resource'.rv
  BY DEF WritesFit
<1>2. \A t : Fits(t)' <=> Fits(t)
  BY DEF Fits
<1>3. ASSUME NEW c \in Callers, pc'[c] = "putWrite", seen'[c] = resource'.rv
      PROVE  Fits(outcome'[c].snapshot)
  BY <1>3 DEF WritesFit, Processes
<1>4. ASSUME NEW w \in late', w.kind = "putWrite" PROVE Fits(w.snapshot)
  <2>1. CASE w \in late
    BY <1>4, <2>1 DEF WritesFit
  <2>2. CASE w \notin late
    <3>1. Abandon(p)
      BY <2>2
    <3>2. /\ seen[p] = resource.rv /\ pc[p] = "putWrite" /\ p \in Callers
          /\ w.snapshot = outcome[p].snapshot
      BY <1>4, <2>2, <3>1, AbandonEffect
    <3> QED
      BY <3>2 DEF WritesFit
  <2> QED
    BY <2>1, <2>2
<1> QED
  BY <1>1, <1>2, <1>3, <1>4 DEF WritesFit, Fits

\* Executing a write leaves none that was made from the resource before.
LEMMA WritesExecuted ==
    ASSUME TypeOK, CallsConsistent, WritesFit, NEW w \in Write, NEW p \in Processes,
           auth[w.by] \in Authorities, w.kind /= "invWrite" => w.by \in Callers,
           Execute(w),
           \A q \in Processes \ {p} : pc'[q] = pc[q] /\ seen'[q] = seen[q],
           seen'[p] \in {seen[p], 0, resource'.rv},
           pc'[p] = "putWrite" => seen'[p] = seen[p]
    PROVE  WritesFit'
<1>1. resource'.rv = resource.rv + 1 /\ late' = {} /\ resource.rv \in Nat
  BY ExecuteEffect DEF TypeOK
<1>2. \A q \in Processes : seen[q] <= resource.rv /\ seen[q] \in Nat
  BY DEF WritesFit, TypeOK
<1>3. \A q \in Processes : seen'[q] <= resource'.rv
  BY <1>1, <1>2
<1>4. \A c \in Callers : ~ (pc'[c] = "putWrite" /\ seen'[c] = resource'.rv)
  BY <1>1, <1>2 DEF Processes
<1> QED
  BY <1>1, <1>3, <1>4 DEF WritesFit

\* Every write that can still be executed was made from the current resource.
LEMMA WritesPreserved ==
    TypeOK /\ CallsConsistent /\ WritesFit /\ [Next]_vars => WritesFit'
<1> SUFFICES ASSUME TypeOK, CallsConsistent, WritesFit, [Next]_vars
             PROVE  WritesFit'
  OBVIOUS
<1> USE ConfigAssumption DEF Processes
<1>0. \A p \in Processes : seen[p] <= resource.rv /\ seen[p] \in Nat /\ resource.rv \in Nat
  BY DEF WritesFit, TypeOK
<1>1. ASSUME NEW c \in Callers, Call(c) PROVE WritesFit'
  <2>1. /\ resource' = resource /\ late' = late
        /\ \A q \in Processes \ {c} : pc'[q] = pc[q] /\ seen'[q] = seen[q]
        /\ \A d \in Callers \ {c} : outcome'[d] = outcome[d]
        /\ seen'[c] = seen[c]
        /\ pc'[c] /= "putWrite"
    BY <1>1 DEF Call, Goto, TypeOK, store
  <2> QED
    BY <1>0, <2>1, WritesFrame
<1>2. ASSUME NEW c \in Callers, GetCached(c) PROVE WritesFit'
  <2>1. /\ resource' = resource /\ late' = late
        /\ \A q \in Processes \ {c} : pc'[q] = pc[q] /\ seen'[q] = seen[q]
        /\ \A d \in Callers \ {c} : outcome'[d] = outcome[d]
        /\ seen'[c] = seen[c]
        /\ pc'[c] /= "putWrite"
    BY <1>2 DEF GetCached, Goto, TypeOK, store
  <2> QED
    BY <1>0, <2>1, WritesFrame
<1>3. ASSUME NEW c \in Callers, GetMissed(c) PROVE WritesFit'
  <2>1. /\ resource' = resource /\ late' = late
        /\ \A q \in Processes \ {c} : pc'[q] = pc[q] /\ seen'[q] = seen[q]
        /\ \A d \in Callers \ {c} : outcome'[d] = outcome[d]
        /\ seen'[c] = seen[c]
        /\ pc'[c] /= "putWrite"
    BY <1>3 DEF GetMissed, Goto, TypeOK, store
  <2> QED
    BY <1>0, <2>1, WritesFrame
<1>4. ASSUME NEW c \in Callers, Join(c) PROVE WritesFit'
  <2>1. /\ resource' = resource /\ late' = late
        /\ \A q \in Processes \ {c} : pc'[q] = pc[q] /\ seen'[q] = seen[q]
        /\ \A d \in Callers \ {c} : outcome'[d] = outcome[d]
        /\ seen'[c] = seen[c]
        /\ pc'[c] /= "putWrite"
    BY <1>4 DEF Join, Goto, TypeOK, store
  <2> QED
    BY <1>0, <2>1, WritesFrame
<1>5. ASSUME NEW c \in Callers, Gate(c) PROVE WritesFit'
  <2>1. /\ resource' = resource /\ late' = late
        /\ \A q \in Processes \ {c} : pc'[q] = pc[q] /\ seen'[q] = seen[q]
        /\ \A d \in Callers \ {c} : outcome'[d] = outcome[d]
        /\ seen'[c] = seen[c]
        /\ pc'[c] /= "putWrite"
    BY <1>5 DEF Gate, Goto, TypeOK, store
  <2> QED
    BY <1>0, <2>1, WritesFrame
<1>6. ASSUME NEW c \in Callers, Publish(c) PROVE WritesFit'
  <2>1. /\ resource' = resource /\ late' = late
        /\ \A q \in Processes \ {c} : pc'[q] = pc[q] /\ seen'[q] = seen[q]
        /\ \A d \in Callers \ {c} : outcome'[d] = outcome[d]
        /\ seen'[c] = seen[c]
        /\ pc'[c] /= "putWrite"
    BY <1>6 DEF Publish, Goto, TypeOK, store
  <2> QED
    BY <1>0, <2>1, WritesFrame
<1>7. ASSUME NEW c \in Callers, Unlist(c) PROVE WritesFit'
  <2>1. /\ resource' = resource /\ late' = late
        /\ \A q \in Processes \ {c} : pc'[q] = pc[q] /\ seen'[q] = seen[q]
        /\ \A d \in Callers \ {c} : outcome'[d] = outcome[d]
        /\ seen'[c] = seen[c]
        /\ pc'[c] /= "putWrite"
    BY <1>7 DEF Unlist, Goto, TypeOK, store
  <2> QED
    BY <1>0, <2>1, WritesFrame
<1>8. ASSUME NEW c \in Callers, Acquire(c) PROVE WritesFit'
  <2>1. /\ resource' = resource /\ late' = late
        /\ \A q \in Processes \ {c} : pc'[q] = pc[q] /\ seen'[q] = seen[q]
        /\ \A d \in Callers \ {c} : outcome'[d] = outcome[d]
        /\ seen'[c] = seen[c]
        /\ pc'[c] /= "putWrite"
    BY <1>8 DEF Acquire, Goto, TypeOK, store
  <2> QED
    BY <1>0, <2>1, WritesFrame
<1>9. ASSUME NEW c \in Callers, Discover(c) PROVE WritesFit'
  <2>1. /\ resource' = resource /\ late' = late
        /\ \A q \in Processes \ {c} : pc'[q] = pc[q] /\ seen'[q] = seen[q]
        /\ \A d \in Callers \ {c} : outcome'[d] = outcome[d]
        /\ seen'[c] = seen[c]
        /\ pc'[c] /= "putWrite"
    BY <1>9 DEF Discover, Goto, TypeOK, store
  <2> QED
    BY <1>0, <2>1, WritesFrame
<1>10. ASSUME NEW c \in Callers, WinnerFound(c) PROVE WritesFit'
  <2>1. /\ resource' = resource /\ late' = late
        /\ \A q \in Processes \ {c} : pc'[q] = pc[q] /\ seen'[q] = seen[q]
        /\ \A d \in Callers \ {c} : outcome'[d] = outcome[d]
        /\ seen'[c] = seen[c]
        /\ pc'[c] /= "putWrite"
    BY <1>10 DEF WinnerFound, Goto, TypeOK, store
  <2> QED
    BY <1>0, <2>1, WritesFrame
<1>11. ASSUME NEW i \in Invalidators, CallInvalidate(i) PROVE WritesFit'
  <2>1. /\ resource' = resource /\ late' = late /\ outcome' = outcome
        /\ \A q \in Processes \ {i} : pc'[q] = pc[q] /\ seen'[q] = seen[q]
        /\ seen'[i] = seen[i]
    BY <1>11 DEF CallInvalidate, Goto, TypeOK, store
  <2> QED
    BY <1>0, <2>1, WritesFrame
<1>12. ASSUME NEW i \in Invalidators, InvalidateList(i) PROVE WritesFit'
  <2>1. /\ resource' = resource /\ late' = late /\ outcome' = outcome
        /\ \A q \in Processes \ {i} : pc'[q] = pc[q] /\ seen'[q] = seen[q]
        /\ seen'[i] = seen[i]
    BY <1>12 DEF InvalidateList, Goto, TypeOK, store
  <2> QED
    BY <1>0, <2>1, WritesFrame
<1>13. ASSUME NEW i \in Invalidators, InvalidateNothing(i) PROVE WritesFit'
  <2>1. /\ resource' = resource /\ late' = late /\ outcome' = outcome
        /\ \A q \in Processes \ {i} : pc'[q] = pc[q] /\ seen'[q] = seen[q]
        /\ seen'[i] \in {0, resource.rv}
    BY <1>13 DEF InvalidateNothing, EndLoop, Goto, TypeOK, store
  <2> QED
    BY <1>0, <2>1, WritesFrame
<1>14. ASSUME NEW i \in Invalidators, InvalidateRead(i) PROVE WritesFit'
  <2>1. /\ resource' = resource /\ late' = late /\ outcome' = outcome
        /\ \A q \in Processes \ {i} : pc'[q] = pc[q] /\ seen'[q] = seen[q]
        /\ seen'[i] \in {0, resource.rv}
    BY <1>14 DEF InvalidateRead, Read, Goto, TypeOK, store
  <2> QED
    BY <1>0, <2>1, WritesFrame
<1>15. ASSUME NEW c \in Callers, Begin(c) PROVE WritesFit'
  <2>1. /\ resource' = resource /\ late' = late /\ outcome' = outcome
        /\ \A q \in Processes \ {c} : pc'[q] = pc[q] /\ seen'[q] = seen[q]
        /\ seen'[c] \in {0, resource.rv}
        /\ pc'[c] /= "putWrite"
    BY <1>15 DEF Begin, Read, Goto, TypeOK, store
  <2> QED
    BY <1>0, <2>1, WritesFrame
<1>16. ASSUME NEW c \in Callers, PutLost(c) PROVE WritesFit'
  <2>1. /\ resource' = resource /\ late' = late /\ outcome' = outcome
        /\ \A q \in Processes \ {c} : pc'[q] = pc[q] /\ seen'[q] = seen[q]
        /\ seen'[c] \in {0, resource.rv}
        /\ pc'[c] /= "putWrite"
    BY <1>16 DEF PutLost, EndLoop, Goto, TypeOK, store
  <2> QED
    BY <1>0, <2>1, WritesFrame
<1>17. ASSUME NEW c \in Callers, PutCurrent(c) PROVE WritesFit'
  <2>1. resource' = resource /\ late' = late /\ pc[c] = "put" /\ resource.authority = fence[c]
    BY <1>17 DEF PutCurrent, store
  <2>2. CASE Fail(c)
    BY <1>0, <2>1, <2>2, FailType, WritesFrame
  <2>3. CASE Goto(c, "publish") /\ EndLoop(c) /\ UNCHANGED outcome
    <3>1. /\ \A q \in Processes \ {c} : pc'[q] = pc[q] /\ seen'[q] = seen[q]
          /\ seen'[c] = 0 /\ pc'[c] = "publish"
      BY <2>3 DEF Goto, EndLoop, TypeOK
    <3> QED
      BY <1>0, <2>1, <2>3, <3>1, WritesFrame
  <2>4. CASE /\ resource.snapshot = None \/ resource.snapshot.fence /= fence[c]
             /\ Read(c, "putWrite") /\ UNCHANGED outcome
    <3>1. /\ \A q \in Processes \ {c} : pc'[q] = pc[q] /\ seen'[q] = seen[q]
          /\ seen'[c] = resource.rv
      BY <2>4 DEF Read, Goto, TypeOK
    <3>2. outcome[c].snapshot.fence = fence[c]
      <4>1. PICK r \in Reports :
              outcome[c] = Ok("refreshed", [fence |-> fence[c], report |-> r])
        BY <2>1 DEF CallsConsistent, CallOK
      <4> QED
        BY <4>1 DEF Ok
    <3>3. Fits(outcome'[c].snapshot)
      BY <2>1, <2>4, <3>2 DEF Fits
    <3> QED
      BY <1>0, <2>1, <2>4, <3>1, <3>3, WritesFrame
  <2> QED
    BY <1>17, <2>2, <2>3, <2>4 DEF PutCurrent
<1>18. ASSUME NEW p \in Processes, Fail(p), resource' = resource,
             late' = late \/ Abandon(p)
      PROVE  WritesFit'
  BY <1>0, <1>18, FailType, WritesFrame
<1>19. ASSUME NEW c \in Callers, WinnerTimeout(c) PROVE WritesFit'
  BY <1>18, <1>19 DEF WinnerTimeout, store
<1>20. ASSUME NEW p \in Processes, WriteUnanswered(p) PROVE WritesFit'
  BY <1>18, <1>20 DEF WriteUnanswered, Abandon
<1>21. ASSUME NEW p \in Processes, ReadFailed(p) PROVE WritesFit'
  BY <1>18, <1>21 DEF ReadFailed, store
<1>22. ASSUME NEW p \in Processes, WriteConflict(p) PROVE WritesFit'
  <2>1. resource' = resource /\ late' = late /\ pc[p] \in Writing
    BY <1>22 DEF WriteConflict, store
  <2>2. CASE tries[p] = 1
    BY <1>18, <1>22, <2>1, <2>2 DEF WriteConflict
  <2>3. CASE tries[p] /= 1
    <3>1. /\ \A q \in Processes \ {p} : pc'[q] = pc[q] /\ seen'[q] = seen[q]
          /\ outcome' = outcome /\ seen'[p] = 0 /\ pc'[p] = LoopStart(pc[p])
      BY <1>22, <2>3 DEF WriteConflict, Goto, TypeOK
    <3>2. pc'[p] /= "putWrite"
      BY <2>1, <3>1 DEF Writing, LoopStart
    <3> QED
      BY <1>0, <2>1, <3>1, <3>2, WritesFrame
  <2> QED
    BY <2>2, <2>3
<1>23. ASSUME NEW c \in Callers, Cancel(c) PROVE WritesFit'
  <2>1. /\ \A q \in Processes \ {c} : pc'[q] = pc[q] /\ seen'[q] = seen[q]
        /\ \A d \in Callers \ {c} : outcome'[d] = outcome[d]
        /\ seen'[c] = 0 /\ pc'[c] = "done" /\ Abandon(c) /\ resource' = resource
    BY <1>23 DEF Cancel, Abandon, EndLoop, Goto, TypeOK
  <2> QED
    BY <1>0, <2>1, WritesFrame
<1>24. ASSUME NEW p \in Processes, WriteAccepted(p) PROVE WritesFit'
  <2>1. /\ pc[p] \in Writing /\ Execute(Request(p))
        /\ \A q \in Processes \ {p} : pc'[q] = pc[q] /\ seen'[q] = seen[q]
        /\ pc'[p] = After(pc[p])
        /\ seen'[p] \in {0, resource'.rv}
    BY <1>24 DEF WriteAccepted, EndLoop, Goto, TypeOK
  <2>2. pc'[p] /= "putWrite"
    BY <2>1 DEF After, Writing
  <2>3. /\ Request(p) \in Write /\ auth[Request(p).by] \in Authorities
        /\ Request(p).kind /= "invWrite" => Request(p).by \in Callers
    BY <2>1, RequestType
  <2> QED
    BY <2>1, <2>2, <2>3, WritesExecuted
<1>25. ASSUME LateWrite PROVE WritesFit'
  <2>1. PICK w \in late : Execute(w)
    BY <1>25 DEF LateWrite
  <2>2. w \in Write /\ auth[w.by] \in Authorities /\ (w.kind /= "invWrite" => w.by \in Callers)
    BY DEF TypeOK, CallsConsistent, LateOK
  <2>3. w.by \in Processes /\ pc' = pc /\ seen' = seen
    BY <1>25, <2>2 DEF LateWrite, Write
  <2> QED
    BY <2>1, <2>2, <2>3, WritesExecuted
<1>26. ASSUME UNCHANGED vars PROVE WritesFit'
  BY <1>26 DEF vars, WritesFit, Fits
<1> QED
  BY <1>1, <1>2, <1>3, <1>4, <1>5, <1>6, <1>7, <1>8, <1>9, <1>10, <1>11, <1>12, <1>13,
     <1>14, <1>15, <1>16, <1>17, <1>18, <1>19, <1>20, <1>21, <1>22, <1>23, <1>24, <1>25,
     <1>26
     DEF Next, Handle, Perform, Loop, Invalidate, Terminated

\* What a step does to the store: it executes a write that fits, or it leaves
\* the resource alone and at most records that an invalidation found nothing.
LEMMA StoreStep ==
    ASSUME TypeOK, CallsConsistent, WritesFit, [Next]_vars
    PROVE  \/ \E w \in Write :
                /\ Execute(w)
                /\ auth[w.by] \in Authorities
                /\ w.kind /= "invWrite" => w.by \in Callers
                /\ w.kind = "putWrite" => w.snapshot \in Snapshot /\ Fits(w.snapshot)
           \/ UNCHANGED << resource, committed, purged >>
           \/ \E a \in Authorities :
                /\ UNCHANGED << resource, committed >>
                /\ ~active_matches(a) /\ ~snapshot_matches(a)
                /\ purged' = [purged EXCEPT ![a] = resource.epoch]
<1> USE DEF Processes
<1>1. ASSUME NEW p \in Processes, WriteAccepted(p)
      PROVE  \E w \in Write :
                /\ Execute(w)
                /\ auth[w.by] \in Authorities
                /\ w.kind /= "invWrite" => w.by \in Callers
                /\ w.kind = "putWrite" => w.snapshot \in Snapshot /\ Fits(w.snapshot)
  <2>1. pc[p] \in Writing /\ Execute(Request(p)) /\ seen[p] = resource.rv
    BY <1>1 DEF WriteAccepted
  <2>2. /\ Request(p) \in Write /\ auth[Request(p).by] \in Authorities
        /\ Request(p).kind /= "invWrite" => Request(p).by \in Callers
        /\ Request(p).kind = "putWrite" =>
             Request(p).snapshot \in Snapshot /\ Fits(Request(p).snapshot)
    BY <2>1, RequestType DEF WritesFit
  <2> QED
    BY <2>1, <2>2
<1>2. ASSUME LateWrite
      PROVE  \E w \in Write :
                /\ Execute(w)
                /\ auth[w.by] \in Authorities
                /\ w.kind /= "invWrite" => w.by \in Callers
                /\ w.kind = "putWrite" => w.snapshot \in Snapshot /\ Fits(w.snapshot)
  BY <1>2 DEF LateWrite, TypeOK, CallsConsistent, LateOK, WritesFit
<1>3. ASSUME NEW i \in Invalidators, InvalidateNothing(i)
      PROVE  \E a \in Authorities :
                /\ UNCHANGED << resource, committed >>
                /\ ~active_matches(a) /\ ~snapshot_matches(a)
                /\ purged' = [purged EXCEPT ![a] = resource.epoch]
  <2>1. auth[i] \in Authorities
    BY <1>3 DEF InvalidateNothing, CallsConsistent
  <2>2. ~active_matches(auth[i]) /\ ~snapshot_matches(auth[i])
    BY <1>3 DEF InvalidateNothing, WritesFit, active_matches, snapshot_matches
  <2> QED
    BY <1>3, <2>1, <2>2 DEF InvalidateNothing
<1>4. ASSUME NEW c \in Callers,
             \/ Call(c) \/ GetCached(c) \/ GetMissed(c) \/ Join(c) \/ Gate(c)
             \/ Perform(c) \/ Publish(c) \/ Unlist(c) \/ Cancel(c)
      PROVE  UNCHANGED << resource, committed, purged >>
  BY <1>4 DEF Call, GetCached, GetMissed, Join, Gate, Perform, Publish, Unlist, Cancel,
     Acquire, Begin, Discover, PutLost, PutCurrent, WinnerFound, WinnerTimeout, Abandon, store
<1>5. ASSUME NEW i \in Invalidators,
             CallInvalidate(i) \/ InvalidateList(i) \/ InvalidateRead(i)
      PROVE  UNCHANGED << resource, committed, purged >>
  BY <1>5 DEF CallInvalidate, InvalidateList, InvalidateRead, store
<1>6. ASSUME NEW p \in Processes, WriteConflict(p) \/ WriteUnanswered(p) \/ ReadFailed(p)
      PROVE  UNCHANGED << resource, committed, purged >>
  BY <1>6 DEF WriteConflict, WriteUnanswered, ReadFailed, Abandon, store
<1>7. UNCHANGED vars => UNCHANGED << resource, committed, purged >>
  BY DEF vars
<1>8. \/ \E c \in Callers : \/ Call(c) \/ GetCached(c) \/ GetMissed(c) \/ Join(c) \/ Gate(c)
                            \/ Perform(c) \/ Publish(c) \/ Unlist(c) \/ Cancel(c)
      \/ \E i \in Invalidators :
           \/ CallInvalidate(i) \/ InvalidateList(i) \/ InvalidateRead(i)
           \/ InvalidateNothing(i)
      \/ \E p \in Processes :
           WriteAccepted(p) \/ WriteConflict(p) \/ WriteUnanswered(p) \/ ReadFailed(p)
      \/ LateWrite
      \/ UNCHANGED vars
  BY DEF Next, Handle, Loop, Invalidate, Terminated
<1> QED
  BY <1>1, <1>2, <1>3, <1>4, <1>5, <1>6, <1>7, <1>8

\* An invalidated authority comes back only with a later epoch.
LEMMA PurgedPreserved ==
    ASSUME TypeOK, CallsConsistent, WritesFit, PurgedIsOld, [Next]_vars
    PROVE  PurgedIsOld'
<1>1. /\ resource.epoch \in Nat /\ purged \in [Authorities -> Nat]
      /\ resource.authority \in Fence \cup {None}
      /\ resource.snapshot \in Snapshot \cup {None}
  BY DEF TypeOK
<1>2. ASSUME NEW w \in Write, Execute(w), auth[w.by] \in Authorities,
             w.kind /= "invWrite" => w.by \in Callers,
             w.kind = "putWrite" => w.snapshot \in Snapshot /\ Fits(w.snapshot)
      PROVE  PurgedIsOld'
  <2>1. CASE w.kind = "create"
    BY <1>2, <2>1, ExecuteEffect DEF PurgedIsOld, active_matches, snapshot_matches
  <2>2. CASE w.kind = "beginWrite"
    <3>1. /\ resource'.epoch = resource.epoch + 1 /\ purged' = purged
          /\ resource'.authority = next_fence(w.by)
          /\ resource'.snapshot = resource.snapshot
      BY <1>2, <2>2, ExecuteEffect
    <3>2. resource'.authority.epoch = resource.epoch + 1
      BY <3>1 DEF next_fence
    <3> QED
      BY <1>1, <3>1, <3>2 DEF PurgedIsOld, active_matches, snapshot_matches
  <2>3. CASE w.kind = "putWrite"
    <3>1. /\ resource'.epoch = resource.epoch /\ purged' = purged
          /\ resource'.authority = resource.authority
          /\ resource'.snapshot = w.snapshot
          /\ resource.authority = w.snapshot.fence
          /\ w.snapshot.fence \in Fence
      BY <1>2, <2>3, ExecuteEffect DEF Fits, Snapshot
    <3> QED
      BY <1>1, <3>1, NoneAssumption DEF PurgedIsOld, active_matches, snapshot_matches
  <2>4. CASE w.kind = "invWrite"
    <3> DEFINE a == auth[w.by]
    <3>1. /\ resource' = invalidated(a)
          /\ purged' = [purged EXCEPT ![a] = resource'.epoch]
      BY <1>2, <2>4, ExecuteEffect
    <3>2. /\ resource'.epoch \in Nat /\ resource'.epoch >= resource.epoch
          /\ resource'.authority = IF active_matches(a) THEN None ELSE resource.authority
          /\ resource'.snapshot = IF snapshot_matches(a) THEN None ELSE resource.snapshot
      BY <1>1, <1>2, <3>1, InvalidatedEffect
    <3>3. /\ resource'.authority /= None => resource'.authority.auth /= a
          /\ resource'.snapshot /= None => resource'.snapshot.fence.auth /= a
      BY <3>2 DEF active_matches, snapshot_matches
    <3>4. ASSUME NEW b \in Authorities
          PROVE  /\ purged'[b] <= resource'.epoch
                 /\ active_matches(b)' => resource'.authority.epoch > purged'[b]
                 /\ snapshot_matches(b)' => resource'.snapshot.fence.epoch > purged'[b]
      <4>1. CASE b = a
        BY <1>1, <1>2, <3>1, <3>2, <3>3, <4>1 DEF active_matches, snapshot_matches
      <4>2. CASE b /= a
        <5>1. purged'[b] = purged[b]
          BY <1>1, <3>1, <4>2
        <5> QED
          BY <1>1, <3>2, <5>1 DEF PurgedIsOld, active_matches, snapshot_matches
      <4> QED
        BY <4>1, <4>2
    <3> QED
      BY <3>4 DEF PurgedIsOld
  <2> QED
    BY <2>1, <2>2, <2>3, <2>4 DEF Write, Writing
<1>3. ASSUME UNCHANGED << resource, committed, purged >> PROVE PurgedIsOld'
  BY <1>3 DEF PurgedIsOld, active_matches, snapshot_matches
<1>4. ASSUME NEW a \in Authorities, UNCHANGED << resource, committed >>,
             ~active_matches(a), ~snapshot_matches(a),
             purged' = [purged EXCEPT ![a] = resource.epoch]
      PROVE  PurgedIsOld'
  BY <1>1, <1>4 DEF PurgedIsOld, active_matches, snapshot_matches
<1> QED
  BY <1>2, <1>3, <1>4, StoreStep

(***************************************************************************)
(* Flights                                                                 *)
(***************************************************************************)

\* No flight is joined, listed, published or left by a call that comes closer
\* to its end without them.
LEMMA FlightFrame ==
    ASSUME TypeOK, CallsConsistent, FlightsConsistent, NEW p \in Processes,
           UNCHANGED << flight, listed, result >>,
           \A c \in Callers : auth'[c] = auth[c],
           \A c \in Callers \ {p} : pc'[c] = pc[c],
           p \in Callers =>
             /\ pc'[p] \in Early => pc[p] \in Early
             /\ pc'[p] \in Joined => pc[p] \in Joined
             /\ pc'[p] \in Gated => pc[p] \in Gated
             /\ pc'[p] \in Performing => pc[p] \in Performing
             /\ pc'[p] = "unlist" => pc[p] = "unlist"
    PROVE  FlightsConsistent'
<1>1. ASSUME NEW c \in Callers
      PROVE  /\ pc'[c] \in Early => pc[c] \in Early
             /\ pc'[c] \in Joined => pc[c] \in Joined
             /\ pc'[c] \in Gated => pc[c] \in Gated
             /\ pc'[c] \in Performing => pc[c] \in Performing
             /\ pc'[c] = "unlist" => pc[c] = "unlist"
  BY <1>1
<1>2. \A c, d \in Callers : SameKey(c, d)' <=> SameKey(c, d)
  BY DEF SameKey
<1>3. listed \subseteq Callers /\ \A c \in Callers : pc[c] \in Joined => flight[c] \in Callers
  BY DEF TypeOK, CallsConsistent, CallOK
<1>4. \A f \in listed' : pc'[f] \notin Early
  BY <1>1, <1>3 DEF FlightsConsistent
<1>5. \A c \in Callers : pc'[c] \in Joined =>
        /\ pc'[flight'[c]] \notin Early
        /\ SameKey(c, flight[c])
        /\ result'[flight'[c]] = None => flight'[c] \in listed'
        /\ pc'[c] \in Performing => result'[flight'[c]] = None
        /\ pc'[c] = "unlist" => result'[flight'[c]] /= None
  BY <1>1, <1>3 DEF FlightsConsistent
<1>6. \A c \in Callers : pc'[c] \in Joined => SameKey(c, flight[c])'
  BY <1>1, <1>2, <1>3, <1>5 DEF SameKey
<1>7. \A c, d \in Callers :
        pc'[c] \in Gated /\ pc'[d] \in Gated /\ flight'[c] = flight'[d] => c = d
  BY <1>1 DEF FlightsConsistent
<1>8. \A c, d \in Callers :
        /\ pc'[c] \in Joined /\ pc'[d] \in Joined
        /\ flight'[c] \in listed' /\ flight'[d] \in listed'
        /\ SameKey(c, d)'
        => flight'[c] = flight'[d]
  BY <1>1, <1>2 DEF FlightsConsistent
<1> QED
  BY <1>4, <1>5, <1>6, <1>7, <1>8 DEF FlightsConsistent

\* A caller opens a flight only if the list has none of its key that somebody
\* is in, and otherwise joins that one.
LEMMA JoinFlights ==
    ASSUME TypeOK, CallsConsistent, FlightsConsistent, NEW c \in Callers, Join(c)
    PROVE  FlightsConsistent'
<1> DEFINE live == {f \in listed : ReplicaOf[f] = ReplicaOf[c] => Alive(f)}
           mine == {f \in live : SameKey(c, f)}
<1>1. /\ pc[c] = "join" /\ pc'[c] = "gate" /\ auth' = auth /\ result' = result
      /\ \A d \in Callers \ {c} : pc'[d] = pc[d] /\ flight'[d] = flight[d]
  BY DEF Join, Goto, TypeOK, Processes
<1>2. PICK f \in Callers :
        /\ flight'[c] = f
        /\ \/ mine = {} /\ f = c /\ listed' = live \cup {c}
           \/ f \in mine /\ listed' = live
  <2>1. CASE mine = {}
    BY <2>1 DEF Join, TypeOK
  <2>2. CASE mine /= {}
    <3>1. PICK f \in mine : flight' = [flight EXCEPT ![c] = f] /\ listed' = live
      BY <2>2 DEF Join
    <3> QED
      BY <3>1 DEF TypeOK
  <2> QED
    BY <2>1, <2>2
<1>3. /\ listed \subseteq Callers
      /\ \A d \in Callers : pc[d] \in Joined => flight[d] \in Callers
      /\ c \notin listed
      /\ \A d \in Callers : pc[d] \in Joined => flight[d] /= c /\ d /= c
  BY <1>1 DEF TypeOK, CallsConsistent, CallOK, FlightsConsistent, Early, Joined, Gated,
     Performing, Permitted
<1>4. \A d, e \in Callers : SameKey(d, e)' <=> SameKey(d, e)
  BY <1>1 DEF SameKey
<1>5. \A d \in Callers : pc[d] \in Joined /\ flight[d] \in listed => flight[d] \in live
  BY DEF Alive
<1>6. \A d \in Callers : pc'[d] \in Joined => d = c \/ (pc[d] \in Joined /\ flight'[d] = flight[d])
  BY <1>1
<1>7. \A e \in listed' : pc'[e] \notin Early
  BY <1>1, <1>2, <1>3 DEF FlightsConsistent, Early
<1>8. f \in listed' /\ SameKey(c, f) /\ pc'[f] \notin Early
  BY <1>2, <1>7 DEF SameKey
<1>9. ASSUME NEW d \in Callers, pc'[d] \in Joined
      PROVE  /\ pc'[flight'[d]] \notin Early
             /\ SameKey(d, flight[d])'
             /\ result'[flight'[d]] = None => flight'[d] \in listed'
             /\ pc'[d] \in Performing => result'[flight'[d]] = None
             /\ pc'[d] = "unlist" => result'[flight'[d]] /= None
  <2>1. CASE d = c
    BY <1>1, <1>2, <1>4, <1>8, <2>1 DEF SameKey, Performing, Permitted
  <2>2. CASE d /= c
    <3>1. /\ pc[d] \in Joined /\ pc'[d] = pc[d] /\ flight'[d] = flight[d]
          /\ flight[d] \in Callers /\ flight[d] /= c
      BY <1>1, <1>3, <1>9, <2>2
    <3>2. /\ pc'[flight[d]] = pc[flight[d]]
          /\ SameKey(d, flight[d])
      BY <1>1, <3>1 DEF FlightsConsistent
    <3>3. flight[d] \in listed => flight[d] \in listed'
      BY <1>2, <1>5, <3>1
    <3> QED
      BY <1>1, <3>1, <3>2, <3>3 DEF FlightsConsistent, SameKey
  <2> QED
    BY <2>1, <2>2
<1>10. ASSUME NEW d \in Callers, NEW e \in Callers, pc'[d] \in Gated, pc'[e] \in Gated,
              flight'[d] = flight'[e]
       PROVE  d = e
  <2>1. d /= c /\ e /= c
    BY <1>1, <1>10 DEF Gated, Performing, Permitted
  <2> QED
    BY <1>1, <1>10, <2>1 DEF FlightsConsistent
<1>11. ASSUME NEW d \in Callers, d /= c, pc'[d] \in Joined, flight'[d] \in listed',
              SameKey(c, d)
       PROVE  flight'[d] = f
  <2>1. /\ pc[d] \in Joined /\ flight'[d] = flight[d] /\ flight[d] \in Callers
        /\ flight[d] /= c /\ SameKey(d, flight[d])
    BY <1>1, <1>3, <1>11 DEF FlightsConsistent
  <2>2. flight[d] \in mine
    BY <1>2, <1>11, <2>1 DEF SameKey
  <2>3. f \in mine
    BY <1>2, <2>2
  <2>4. PICK e \in Callers : flight[e] = f /\ pc[e] \in Joined
    BY <2>3 DEF Alive, SameKey
  <2>5. SameKey(e, d)
    BY <1>11, <2>3, <2>4 DEF FlightsConsistent, SameKey
  <2> QED
    BY <2>1, <2>2, <2>3, <2>4, <2>5 DEF FlightsConsistent
<1>12. ASSUME NEW d \in Callers, NEW e \in Callers, pc'[d] \in Joined, pc'[e] \in Joined,
              flight'[d] \in listed', flight'[e] \in listed', SameKey(d, e)'
       PROVE  flight'[d] = flight'[e]
  <2>1. SameKey(d, e) /\ SameKey(e, d)
    BY <1>4, <1>12 DEF SameKey
  <2>2. CASE d = c \/ e = c
    BY <1>2, <1>11, <1>12, <2>1, <2>2
  <2>3. CASE d /= c /\ e /= c
    <3>1. /\ pc[d] \in Joined /\ flight'[d] = flight[d]
          /\ pc[e] \in Joined /\ flight'[e] = flight[e]
      BY <1>1, <1>12, <2>3
    <3>2. flight[d] \in listed /\ flight[e] \in listed
      BY <1>2, <1>3, <1>12, <3>1
    <3> QED
      BY <2>1, <3>1, <3>2 DEF FlightsConsistent
  <2> QED
    BY <2>2, <2>3
<1> QED
  BY <1>7, <1>9, <1>10, <1>12 DEF FlightsConsistent

\* The caller that has the gate is the only one that may publish a result.
LEMMA PublishFlights ==
    ASSUME TypeOK, CallsConsistent, FlightsConsistent, NEW c \in Callers, Publish(c)
    PROVE  FlightsConsistent'
<1>1. /\ pc[c] = "publish" /\ pc'[c] = "unlist" /\ auth' = auth
      /\ flight' = flight /\ listed' = listed
      /\ \A d \in Callers \ {c} : pc'[d] = pc[d]
  BY DEF Publish, Goto, TypeOK, Processes
<1>2. /\ pc[c] \in Gated /\ pc[c] \in Joined /\ flight[c] \in Callers
      /\ outcome[c] /= None
  BY <1>1, NoneAssumption DEF CallsConsistent, CallOK, Joined, Gated, Performing
<1>3. /\ result'[flight[c]] /= None
      /\ \A f \in Callers \ {flight[c]} : result'[f] = result[f]
  BY <1>2 DEF Publish, TypeOK
<1>4. \A d, e \in Callers : SameKey(d, e)' <=> SameKey(d, e)
  BY <1>1 DEF SameKey
<1>5. \A d \in Callers : /\ pc'[d] \in Joined => pc[d] \in Joined
                         /\ pc'[d] \in Gated => pc[d] \in Gated
                         /\ pc'[d] \in Early => pc[d] \in Early
                         /\ pc'[d] \in Performing => d /= c /\ pc[d] \in Gated
  BY <1>1, <1>2 DEF Early, Joined, Gated, Performing, Permitted
<1>6. listed \subseteq Callers /\ \A d \in Callers : pc[d] \in Joined => flight[d] \in Callers
  BY DEF TypeOK, CallsConsistent, CallOK
<1>7. \A f \in listed' : pc'[f] \notin Early
  BY <1>1, <1>5, <1>6 DEF FlightsConsistent
<1>8. ASSUME NEW d \in Callers, pc'[d] \in Joined
      PROVE  /\ pc'[flight'[d]] \notin Early
             /\ SameKey(d, flight[d])'
             /\ result'[flight'[d]] = None => flight'[d] \in listed'
             /\ pc'[d] \in Performing => result'[flight'[d]] = None
             /\ pc'[d] = "unlist" => result'[flight'[d]] /= None
  <2>1. /\ pc[d] \in Joined /\ flight'[d] = flight[d] /\ flight[d] \in Callers
        /\ SameKey(d, flight[d]) /\ pc'[flight[d]] \notin Early
    BY <1>1, <1>5, <1>6, <1>8 DEF FlightsConsistent
  <2>2. CASE d = c
    BY <1>1, <1>3, <2>1, <2>2 DEF SameKey, Performing, Permitted
  <2>3. CASE d /= c /\ flight[d] = flight[c]
    <3>1. pc[d] \notin Gated
      BY <1>2, <2>3 DEF FlightsConsistent
    <3>2. pc'[d] \notin Performing /\ pc'[d] /= "unlist"
      BY <1>1, <2>3, <3>1 DEF Gated
    <3> QED
      BY <1>1, <1>3, <2>1, <2>3, <3>2 DEF SameKey
  <2>4. CASE d /= c /\ flight[d] /= flight[c]
    BY <1>1, <1>3, <2>1, <2>4 DEF FlightsConsistent, SameKey
  <2> QED
    BY <2>2, <2>3, <2>4
<1>9. \A d, e \in Callers :
        pc'[d] \in Gated /\ pc'[e] \in Gated /\ flight'[d] = flight'[e] => d = e
  BY <1>1, <1>5 DEF FlightsConsistent
<1>10. \A d, e \in Callers :
        /\ pc'[d] \in Joined /\ pc'[e] \in Joined
        /\ flight'[d] \in listed' /\ flight'[e] \in listed'
        /\ SameKey(d, e)'
        => flight'[d] = flight'[e]
  BY <1>1, <1>4, <1>5 DEF FlightsConsistent
<1> QED
  BY <1>7, <1>8, <1>9, <1>10 DEF FlightsConsistent

\* A flight leaves the list only after its result is there.
LEMMA UnlistFlights ==
    ASSUME TypeOK, CallsConsistent, FlightsConsistent, NEW c \in Callers, Unlist(c)
    PROVE  FlightsConsistent'
<1>1. /\ pc[c] = "unlist" /\ pc'[c] = "done" /\ auth' = auth
      /\ flight' = flight /\ result' = result /\ listed' = listed \ {flight[c]}
      /\ \A d \in Callers \ {c} : pc'[d] = pc[d]
  BY DEF Unlist, Goto, TypeOK, Processes
<1>2. result[flight[c]] /= None
  BY <1>1 DEF FlightsConsistent, Joined, Gated
<1>3. \A d \in Callers : /\ pc'[d] \in Joined => pc'[d] = pc[d]
                         /\ pc'[d] \in Gated => pc'[d] = pc[d]
                         /\ pc'[d] \in Early => pc'[d] = pc[d]
  BY <1>1 DEF Early, Joined, Gated, Performing, Permitted
<1>4. listed \subseteq Callers /\ \A d \in Callers : pc[d] \in Joined => flight[d] \in Callers
  BY DEF TypeOK, CallsConsistent, CallOK
<1>5. \A d, e \in Callers : SameKey(d, e)' <=> SameKey(d, e)
  BY <1>1 DEF SameKey
<1>6. \A f \in listed' : pc'[f] \notin Early
  BY <1>1, <1>3, <1>4 DEF FlightsConsistent
<1>7. ASSUME NEW d \in Callers, pc'[d] \in Joined
      PROVE  /\ pc'[flight'[d]] \notin Early
             /\ SameKey(d, flight[d])'
             /\ result'[flight'[d]] = None => flight'[d] \in listed'
             /\ pc'[d] \in Performing => result'[flight'[d]] = None
             /\ pc'[d] = "unlist" => result'[flight'[d]] /= None
  <2>1. pc'[d] = pc[d] /\ flight[d] \in Callers /\ pc[d] \in Joined
    BY <1>3, <1>4, <1>7
  <2> QED
    BY <1>1, <1>2, <1>3, <2>1 DEF FlightsConsistent, SameKey
<1>8. \A d, e \in Callers :
        pc'[d] \in Gated /\ pc'[e] \in Gated /\ flight'[d] = flight'[e] => d = e
  BY <1>1, <1>3 DEF FlightsConsistent
<1>9. \A d, e \in Callers :
        /\ pc'[d] \in Joined /\ pc'[e] \in Joined
        /\ flight'[d] \in listed' /\ flight'[e] \in listed'
        /\ SameKey(d, e)'
        => flight'[d] = flight'[e]
  BY <1>1, <1>3, <1>5 DEF FlightsConsistent
<1> QED
  BY <1>6, <1>7, <1>8, <1>9 DEF FlightsConsistent

\* The gate admits one caller at a time to a flight without a result.
LEMMA GateFlights ==
    ASSUME TypeOK, CallsConsistent, FlightsConsistent, NEW c \in Callers, Gate(c)
    PROVE  FlightsConsistent'
<1>1. /\ pc[c] = "gate" /\ auth' = auth /\ UNCHANGED << flight, listed, result >>
      /\ \A d \in Callers \ {c} : pc'[d] = pc[d]
      /\ pc[c] \in Joined
  BY DEF Gate, Goto, TypeOK, Processes, service, Joined
<1>2. CASE pc'[c] = "done"
  BY <1>1, <1>2, FlightFrame DEF Processes, Early, Joined, Gated, Performing, Permitted
<1>3. CASE pc'[c] = "permit" /\ result[flight[c]] = None
  <2>1. \A d \in Callers : /\ pc'[d] \in Joined => pc[d] \in Joined
                           /\ pc'[d] \in Early => pc[d] \in Early
                           /\ d /= c => pc'[d] = pc[d]
    BY <1>1, <1>3 DEF Early
  <2>2. \A d \in Callers : flight[d] = flight[c] => pc[d] \notin Gated
    BY DEF Gate, GateFree
  <2>3. listed \subseteq Callers /\ \A d \in Callers : pc[d] \in Joined => flight[d] \in Callers
    BY DEF TypeOK, CallsConsistent, CallOK
  <2>4. \A d, e \in Callers : SameKey(d, e)' <=> SameKey(d, e)
    BY <1>1 DEF SameKey
  <2>5. \A f \in listed' : pc'[f] \notin Early
    BY <1>1, <2>1, <2>3 DEF FlightsConsistent
  <2>6. ASSUME NEW d \in Callers, pc'[d] \in Joined
        PROVE  /\ pc'[flight'[d]] \notin Early
               /\ SameKey(d, flight[d])'
               /\ result'[flight'[d]] = None => flight'[d] \in listed'
               /\ pc'[d] \in Performing => result'[flight'[d]] = None
               /\ pc'[d] = "unlist" => result'[flight'[d]] /= None
    BY <1>1, <1>3, <2>1, <2>3, <2>6 DEF FlightsConsistent, SameKey
  <2>7. ASSUME NEW d \in Callers, NEW e \in Callers, pc'[d] \in Gated, pc'[e] \in Gated,
               flight'[d] = flight'[e]
        PROVE  d = e
    BY <1>1, <2>1, <2>2, <2>7 DEF FlightsConsistent
  <2>8. \A d, e \in Callers :
          /\ pc'[d] \in Joined /\ pc'[e] \in Joined
          /\ flight'[d] \in listed' /\ flight'[e] \in listed'
          /\ SameKey(d, e)'
          => flight'[d] = flight'[e]
    BY <1>1, <2>1, <2>4 DEF FlightsConsistent
  <2> QED
    BY <2>5, <2>6, <2>7, <2>8 DEF FlightsConsistent
<1> QED
  BY <1>2, <1>3 DEF Gate, Goto, TypeOK, Processes

\* Nobody knows a caller that has not joined a flight yet.
LEMMA CallFlights ==
    ASSUME TypeOK, CallsConsistent, FlightsConsistent, NEW c \in Callers, Call(c)
    PROVE  FlightsConsistent'
<1>1. /\ pc[c] = "idle" /\ pc'[c] \in {"get", "join"}
      /\ UNCHANGED << flight, listed, result >>
      /\ \A d \in Callers \ {c} : pc'[d] = pc[d] /\ auth'[d] = auth[d]
  BY DEF Call, Goto, TypeOK, Processes, service
<1>2. \A d \in Callers : /\ pc'[d] \in Joined => d /= c /\ pc[d] \in Joined
                         /\ pc'[d] \in Gated => d /= c
                         /\ d /= c => pc'[d] = pc[d]
  BY <1>1 DEF Joined, Gated, Performing, Permitted
<1>3. /\ c \notin listed /\ listed \subseteq Callers
      /\ \A d \in Callers : pc[d] \in Joined => flight[d] \in Callers \ {c}
  BY <1>1 DEF TypeOK, CallsConsistent, CallOK, FlightsConsistent, Early
<1>4. \A d, e \in Callers \ {c} : SameKey(d, e)' <=> SameKey(d, e)
  BY <1>1 DEF SameKey
<1>5. \A f \in listed' : pc'[f] \notin Early
  BY <1>1, <1>2, <1>3 DEF FlightsConsistent
<1>6. ASSUME NEW d \in Callers, pc'[d] \in Joined
      PROVE  /\ pc'[flight'[d]] \notin Early
             /\ SameKey(d, flight[d])'
             /\ result'[flight'[d]] = None => flight'[d] \in listed'
             /\ pc'[d] \in Performing => result'[flight'[d]] = None
             /\ pc'[d] = "unlist" => result'[flight'[d]] /= None
  <2>1. d /= c /\ pc'[d] = pc[d] /\ pc[d] \in Joined /\ flight[d] \in Callers \ {c}
    BY <1>2, <1>3, <1>6
  <2> QED
    BY <1>1, <2>1 DEF FlightsConsistent, SameKey
<1>7. \A d, e \in Callers :
        pc'[d] \in Gated /\ pc'[e] \in Gated /\ flight'[d] = flight'[e] => d = e
  BY <1>1, <1>2 DEF FlightsConsistent
<1>8. \A d, e \in Callers :
        /\ pc'[d] \in Joined /\ pc'[e] \in Joined
        /\ flight'[d] \in listed' /\ flight'[e] \in listed'
        /\ SameKey(d, e)'
        => flight'[d] = flight'[e]
  BY <1>1, <1>2, <1>4 DEF FlightsConsistent
<1> QED
  BY <1>5, <1>6, <1>7, <1>8 DEF FlightsConsistent

\* A failing call does not touch its flight.
LEMMA FailFlights ==
    ASSUME TypeOK, CallsConsistent, FlightsConsistent, NEW p \in Processes, Fail(p),
           pc[p] \notin {"idle", "join", "gate", "unlist", "done"},
           UNCHANGED << auth, service >>
    PROVE  FlightsConsistent'
<1>1. /\ pc'[p] \in {"publish", "done"} /\ (pc'[p] = "publish" => pc[p] /= "get")
      /\ \A c \in Callers \ {p} : pc'[c] = pc[c]
  BY FailType DEF Processes
<1>2. p \in Callers /\ pc'[p] = "publish" => pc[p] \in Performing
  BY <1>1 DEF TypeOK, CallerPlaces, Joined, Gated
<1> QED
  BY <1>1, <1>2, FlightFrame DEF service, Early, Joined, Gated, Performing, Permitted

\* Every flight without a result is listed, and it is the only one of its key.
LEMMA FlightsPreserved ==
    ASSUME TypeOK, CallsConsistent, FlightsConsistent, [Next]_vars
    PROVE  FlightsConsistent'
<1> USE DEF Processes
<1>1. ASSUME NEW c \in Callers, Call(c) PROVE FlightsConsistent'
  BY <1>1, CallFlights
<1>2. ASSUME NEW c \in Callers, Join(c) PROVE FlightsConsistent'
  BY <1>2, JoinFlights
<1>3. ASSUME NEW c \in Callers, Gate(c) PROVE FlightsConsistent'
  BY <1>3, GateFlights
<1>4. ASSUME NEW c \in Callers, Publish(c) PROVE FlightsConsistent'
  BY <1>4, PublishFlights
<1>5. ASSUME NEW c \in Callers, Unlist(c) PROVE FlightsConsistent'
  BY <1>5, UnlistFlights
<1>6. ASSUME NEW c \in Callers, GetCached(c) PROVE FlightsConsistent'
  <2>1. /\ UNCHANGED << auth, flight, listed, result >>
        /\ \A d \in Callers \ {c} : pc'[d] = pc[d]
    BY <1>6 DEF GetCached, Goto, TypeOK, service
  <2>2. /\ pc'[c] \in Early => pc[c] \in Early
        /\ pc'[c] \in Joined => pc[c] \in Joined
        /\ pc'[c] \in Gated => pc[c] \in Gated
        /\ pc'[c] \in Performing => pc[c] \in Performing
        /\ pc'[c] /= "unlist"
    BY <1>6 DEF GetCached, Goto, TypeOK, Early, Joined, Gated, Performing,
       Permitted
  <2> QED
    BY <2>1, <2>2, FlightFrame
<1>7. ASSUME NEW c \in Callers, GetMissed(c) PROVE FlightsConsistent'
  <2>1. /\ UNCHANGED << auth, flight, listed, result >>
        /\ \A d \in Callers \ {c} : pc'[d] = pc[d]
    BY <1>7 DEF GetMissed, Goto, TypeOK, service
  <2>2. /\ pc'[c] \in Early => pc[c] \in Early
        /\ pc'[c] \in Joined => pc[c] \in Joined
        /\ pc'[c] \in Gated => pc[c] \in Gated
        /\ pc'[c] \in Performing => pc[c] \in Performing
        /\ pc'[c] /= "unlist"
    BY <1>7 DEF GetMissed, Goto, TypeOK, Early, Joined, Gated, Performing,
       Permitted
  <2> QED
    BY <2>1, <2>2, FlightFrame
<1>8. ASSUME NEW c \in Callers, Acquire(c) PROVE FlightsConsistent'
  <2>1. /\ UNCHANGED << auth, flight, listed, result >>
        /\ \A d \in Callers \ {c} : pc'[d] = pc[d]
    BY <1>8 DEF Acquire, Goto, TypeOK, service
  <2>2. /\ pc'[c] \in Early => pc[c] \in Early
        /\ pc'[c] \in Joined => pc[c] \in Joined
        /\ pc'[c] \in Gated => pc[c] \in Gated
        /\ pc'[c] \in Performing => pc[c] \in Performing
        /\ pc'[c] /= "unlist"
    BY <1>8 DEF Acquire, Goto, TypeOK, Early, Joined, Gated, Performing,
       Permitted
  <2> QED
    BY <2>1, <2>2, FlightFrame
<1>9. ASSUME NEW c \in Callers, Begin(c) PROVE FlightsConsistent'
  <2>1. /\ UNCHANGED << auth, flight, listed, result >>
        /\ \A d \in Callers \ {c} : pc'[d] = pc[d]
    BY <1>9 DEF Begin, Read, Goto, TypeOK, service
  <2>2. /\ pc'[c] \in Early => pc[c] \in Early
        /\ pc'[c] \in Joined => pc[c] \in Joined
        /\ pc'[c] \in Gated => pc[c] \in Gated
        /\ pc'[c] \in Performing => pc[c] \in Performing
        /\ pc'[c] /= "unlist"
    BY <1>9 DEF Begin, Read, Goto, TypeOK, Early, Joined, Gated, Performing,
       Permitted
  <2> QED
    BY <2>1, <2>2, FlightFrame
<1>10. ASSUME NEW c \in Callers, Discover(c) PROVE FlightsConsistent'
  <2>1. /\ UNCHANGED << auth, flight, listed, result >>
        /\ \A d \in Callers \ {c} : pc'[d] = pc[d]
    BY <1>10 DEF Discover, Goto, TypeOK, service
  <2>2. /\ pc'[c] \in Early => pc[c] \in Early
        /\ pc'[c] \in Joined => pc[c] \in Joined
        /\ pc'[c] \in Gated => pc[c] \in Gated
        /\ pc'[c] \in Performing => pc[c] \in Performing
        /\ pc'[c] /= "unlist"
    BY <1>10 DEF Discover, Goto, TypeOK, Early, Joined, Gated, Performing,
       Permitted
  <2> QED
    BY <2>1, <2>2, FlightFrame
<1>11. ASSUME NEW c \in Callers, PutLost(c) PROVE FlightsConsistent'
  <2>1. /\ UNCHANGED << auth, flight, listed, result >>
        /\ \A d \in Callers \ {c} : pc'[d] = pc[d]
    BY <1>11 DEF PutLost, Goto, TypeOK, service
  <2>2. /\ pc'[c] \in Early => pc[c] \in Early
        /\ pc'[c] \in Joined => pc[c] \in Joined
        /\ pc'[c] \in Gated => pc[c] \in Gated
        /\ pc'[c] \in Performing => pc[c] \in Performing
        /\ pc'[c] /= "unlist"
    BY <1>11 DEF PutLost, Goto, TypeOK, Early, Joined, Gated, Performing,
       Permitted
  <2> QED
    BY <2>1, <2>2, FlightFrame
<1>12. ASSUME NEW c \in Callers, WinnerFound(c) PROVE FlightsConsistent'
  <2>1. /\ UNCHANGED << auth, flight, listed, result >>
        /\ \A d \in Callers \ {c} : pc'[d] = pc[d]
    BY <1>12 DEF WinnerFound, Goto, TypeOK, service
  <2>2. /\ pc'[c] \in Early => pc[c] \in Early
        /\ pc'[c] \in Joined => pc[c] \in Joined
        /\ pc'[c] \in Gated => pc[c] \in Gated
        /\ pc'[c] \in Performing => pc[c] \in Performing
        /\ pc'[c] /= "unlist"
    BY <1>12 DEF WinnerFound, Goto, TypeOK, Early, Joined, Gated, Performing,
       Permitted
  <2> QED
    BY <2>1, <2>2, FlightFrame
<1>13. ASSUME NEW c \in Callers, Cancel(c) PROVE FlightsConsistent'
  <2>1. /\ UNCHANGED << auth, flight, listed, result >>
        /\ \A d \in Callers \ {c} : pc'[d] = pc[d]
    BY <1>13 DEF Cancel, Goto, TypeOK, service
  <2>2. /\ pc'[c] \in Early => pc[c] \in Early
        /\ pc'[c] \in Joined => pc[c] \in Joined
        /\ pc'[c] \in Gated => pc[c] \in Gated
        /\ pc'[c] \in Performing => pc[c] \in Performing
        /\ pc'[c] /= "unlist"
    BY <1>13 DEF Cancel, Goto, TypeOK, Early, Joined, Gated, Performing,
       Permitted
  <2> QED
    BY <2>1, <2>2, FlightFrame
<1>14. ASSUME NEW c \in Callers, PutCurrent(c) PROVE FlightsConsistent'
  <2>1. UNCHANGED << auth, service >> /\ pc[c] = "put"
    BY <1>14 DEF PutCurrent, Read
  <2>2. CASE Fail(c)
    BY <2>1, <2>2, FailFlights
  <2>3. CASE \E l \in {"putWrite", "publish"} : Goto(c, l)
    <3>1. pc'[c] \in {"putWrite", "publish"} /\ \A d \in Callers \ {c} : pc'[d] = pc[d]
      BY <2>3 DEF Goto, TypeOK
    <3> QED
      BY <2>1, <3>1, FlightFrame DEF service, Early, Joined, Gated, Performing, Permitted
  <2> QED
    BY <1>14, <2>2, <2>3 DEF PutCurrent, Read
<1>15. ASSUME NEW c \in Callers, WinnerTimeout(c) PROVE FlightsConsistent'
  <2>1. /\ Fail(c) /\ UNCHANGED << auth, service >>
        /\ pc[c] \notin {"idle", "join", "gate", "unlist", "done"}
    BY <1>15 DEF WinnerTimeout, Writing
  <2> QED
    BY <2>1, FailFlights
<1>16. ASSUME NEW p \in Processes, WriteUnanswered(p) PROVE FlightsConsistent'
  <2>1. /\ Fail(p) /\ UNCHANGED << auth, service >>
        /\ pc[p] \notin {"idle", "join", "gate", "unlist", "done"}
    BY <1>16 DEF WriteUnanswered, Writing
  <2> QED
    BY <2>1, FailFlights
<1>17. ASSUME NEW p \in Processes, ReadFailed(p) PROVE FlightsConsistent'
  <2>1. /\ Fail(p) /\ UNCHANGED << auth, service >>
        /\ pc[p] \notin {"idle", "join", "gate", "unlist", "done"}
    BY <1>17 DEF ReadFailed, Writing
  <2> QED
    BY <2>1, FailFlights
<1>18. ASSUME NEW p \in Processes, WriteAccepted(p) PROVE FlightsConsistent'
  <2>1. /\ UNCHANGED << auth, service >> /\ pc[p] \in Writing /\ pc'[p] = After(pc[p])
        /\ \A c \in Callers \ {p} : pc'[c] = pc[c]
    BY <1>18 DEF WriteAccepted, Goto, TypeOK
  <2>2. p \in Callers => pc[p] \in Performing /\ pc'[p] \in {"beginWrite", "discover", "publish"}
    BY <2>1 DEF TypeOK, Writing, After, CallerPlaces, Joined, Gated, Performing, Permitted
  <2> QED
    BY <2>1, <2>2, FlightFrame DEF service, Early, Joined, Gated
<1>19. ASSUME NEW p \in Processes, WriteConflict(p) PROVE FlightsConsistent'
  <2>1. UNCHANGED << auth, service >> /\ pc[p] \in Writing
    BY <1>19 DEF WriteConflict
  <2>2. CASE Fail(p)
    BY <2>1, <2>2, FailFlights DEF Writing
  <2>3. CASE Goto(p, LoopStart(pc[p]))
    <3>1. /\ pc'[p] = LoopStart(pc[p])
          /\ \A c \in Callers \ {p} : pc'[c] = pc[c]
      BY <2>3 DEF Goto, TypeOK
    <3>2. p \in Callers => pc[p] \in Performing /\ pc'[p] \in {"begin", "put"}
      BY <2>1, <3>1 DEF TypeOK, Writing, LoopStart, CallerPlaces, Joined, Gated, Performing,
         Permitted
    <3> QED
      BY <2>1, <3>1, <3>2, FlightFrame DEF service, Early, Joined, Gated
  <2> QED
    BY <1>19, <2>2, <2>3 DEF WriteConflict
<1>20. ASSUME NEW i \in Invalidators, CallInvalidate(i) PROVE FlightsConsistent'
  <2>1. /\ i \notin Callers /\ UNCHANGED << flight, listed, result >>
        /\ \A c \in Callers : pc'[c] = pc[c] /\ auth'[c] = auth[c]
    BY <1>20, ConfigAssumption DEF CallInvalidate, Goto, TypeOK, service
  <2> QED
    BY <2>1, FlightFrame
<1>21. ASSUME NEW i \in Invalidators, InvalidateNothing(i) PROVE FlightsConsistent'
  <2>1. /\ i \notin Callers /\ UNCHANGED << flight, listed, result >>
        /\ \A c \in Callers : pc'[c] = pc[c] /\ auth'[c] = auth[c]
    BY <1>21, ConfigAssumption DEF InvalidateNothing, Goto, TypeOK, service
  <2> QED
    BY <2>1, FlightFrame
<1>22. ASSUME NEW i \in Invalidators, InvalidateList(i) PROVE FlightsConsistent'
  <2>1. /\ i \notin Callers /\ UNCHANGED << flight, listed, result >>
        /\ \A c \in Callers : pc'[c] = pc[c] /\ auth'[c] = auth[c]
    BY <1>22, ConfigAssumption DEF InvalidateList, Goto, TypeOK, service
  <2> QED
    BY <2>1, FlightFrame
<1>23. ASSUME NEW i \in Invalidators, InvalidateRead(i) PROVE FlightsConsistent'
  <2>1. /\ i \notin Callers /\ UNCHANGED << flight, listed, result >>
        /\ \A c \in Callers : pc'[c] = pc[c] /\ auth'[c] = auth[c]
    BY <1>23, ConfigAssumption DEF InvalidateRead, Read, Goto, TypeOK, service
  <2> QED
    BY <2>1, FlightFrame
<1>24. ASSUME UNCHANGED << pc, auth, service >> PROVE FlightsConsistent'
  BY <1>24 DEF service, FlightsConsistent, SameKey
<1>25. LateWrite \/ UNCHANGED vars => UNCHANGED << pc, auth, service >>
  BY DEF LateWrite, vars, service
<1> QED
  BY <1>1, <1>2, <1>3, <1>4, <1>5, <1>6, <1>7, <1>8, <1>9, <1>10, <1>11, <1>12, <1>13,
     <1>14, <1>15, <1>16, <1>17, <1>18, <1>19, <1>20, <1>21, <1>22, <1>23, <1>24, <1>25
     DEF Next, Handle, Perform, Loop, Invalidate, Terminated

(***************************************************************************)
(* Outcomes                                                                *)
(***************************************************************************)

\* What was committed stays committed.
LEMMA CommittedGrows ==
    ASSUME TypeOK, CallsConsistent, WritesFit, [Next]_vars,
           resource.snapshot /= None => resource.snapshot \in committed
    PROVE  /\ committed \subseteq committed'
           /\ resource'.snapshot /= None => resource'.snapshot \in committed'
<1>1. ASSUME NEW w \in Write, Execute(w), auth[w.by] \in Authorities,
             w.kind /= "invWrite" => w.by \in Callers
      PROVE  /\ committed \subseteq committed'
             /\ resource'.snapshot /= None => resource'.snapshot \in committed'
  BY <1>1, ExecuteEffect
<1> QED
  BY <1>1, StoreStep

\* A caller whose state is unchanged keeps an authoritative outcome.
LEMMA OutcomeFrame ==
    ASSUME NEW c \in Callers, OutcomeOK(c), committed \subseteq committed',
           pc'[c] = pc[c], auth'[c] = auth[c], fence'[c] = fence[c],
           outcome'[c] = outcome[c], result'[c] = result[c]
    PROVE  OutcomeOK(c)'
  BY DEF OutcomeOK, Authoritative

\* A caller that is on its way keeps what it has, or fails.
LEMMA OutcomeMoves ==
    ASSUME NEW c \in Callers, OutcomeOK(c), committed \subseteq committed',
           auth'[c] = auth[c], result'[c] = result[c], fence'[c] = fence[c],
           pc'[c] \in Early => pc[c] \in Early,
           pc'[c] \in {"gate", "permit", "begin", "create", "beginWrite"} =>
             pc[c] \in Early \cup {"gate", "permit", "begin", "create", "beginWrite"},
           pc'[c] \in {"publish", "unlist", "done"} =>
             \/ outcome'[c] \in {None, Failed}
             \/ outcome'[c] = outcome[c] /\ pc[c] \in {"publish", "unlist", "done"}
    PROVE  OutcomeOK(c)'
<1>1. \A x : Authoritative(x, auth[c]) => Authoritative(x, auth[c])'
  BY DEF Authoritative
<1> QED
  BY <1>1 DEF OutcomeOK, Authoritative

\* An error is no snapshot.
LEMMA FailOutcome ==
    ASSUME TypeOK, OutcomesConsistent, NEW p \in Processes, Fail(p),
           committed \subseteq committed', UNCHANGED << auth, service, fence >>,
           resource'.snapshot /= None => resource'.snapshot \in committed'
    PROVE  OutcomesConsistent'
<1>1. ASSUME NEW c \in Callers PROVE OutcomeOK(c)'
  <2>1. CASE c = p
    <3>1. pc'[c] \in {"publish", "done"} /\ outcome'[c] = Failed
      BY <2>1, FailType
    <3> QED
      BY <3>1, OutcomeMoves DEF OutcomesConsistent, service, Early
  <2>2. CASE c /= p
    BY <2>2, FailType, OutcomeFrame DEF OutcomesConsistent, service, Processes
  <2> QED
    BY <2>1, <2>2
<1> QED
  BY <1>1 DEF OutcomesConsistent

\* What is published and returned is authoritative.
LEMMA OutcomesPreserved ==
    ASSUME TypeOK, CallsConsistent, WritesFit, FlightsConsistent, OutcomesConsistent,
           [Next]_vars
    PROVE  OutcomesConsistent'
<1> USE DEF Processes
<1>0. /\ committed \subseteq committed'
      /\ resource'.snapshot /= None => resource'.snapshot \in committed'
      /\ \A c \in Callers : OutcomeOK(c)
  BY CommittedGrows DEF OutcomesConsistent
<1>1. SUFFICES \/ \E p \in Processes : Fail(p) /\ UNCHANGED << auth, service, fence >>
               \/ \A c \in Callers : OutcomeOK(c)'
  BY <1>0, FailOutcome DEF OutcomesConsistent
<1>2. ASSUME NEW c \in Callers, Call(c) PROVE \A d \in Callers : OutcomeOK(d)'
  <2>1. ASSUME NEW d \in Callers \ {c} PROVE OutcomeOK(d)'
    <3>1. /\ pc'[d] = pc[d] /\ auth'[d] = auth[d] /\ fence'[d] = fence[d]
          /\ outcome'[d] = outcome[d] /\ result'[d] = result[d]
      BY <1>2, <2>1 DEF Call, Goto, TypeOK, service
    <3> QED
      BY <1>0, <3>1, OutcomeFrame
  <2>2. /\ pc[c] \in Early /\ pc'[c] \in {"get", "join"}
        /\ result' = result /\ fence' = fence
    BY <1>2 DEF Call, Goto, TypeOK, service, Early
  <2>3. result[c] = None /\ fence[c] = None
    BY <1>0, <2>2 DEF OutcomeOK
  <2>4. OutcomeOK(c)'
    BY <2>2, <2>3 DEF OutcomeOK, Authoritative
  <2> QED
    BY <2>1, <2>4
<1>3. ASSUME NEW c \in Callers, GetMissed(c) PROVE \A d \in Callers : OutcomeOK(d)'
  <2>1. ASSUME NEW d \in Callers \ {c} PROVE OutcomeOK(d)'
    <3>1. /\ pc'[d] = pc[d] /\ auth'[d] = auth[d] /\ fence'[d] = fence[d]
          /\ outcome'[d] = outcome[d] /\ result'[d] = result[d]
      BY <1>3, <2>1 DEF GetMissed, Goto, TypeOK, service
    <3> QED
      BY <1>0, <3>1, OutcomeFrame
  <2>2. /\ auth' = auth /\ result' = result /\ fence' = fence
        /\ pc'[c] \in Early => pc[c] \in Early
        /\ pc'[c] \in {"gate", "permit", "begin", "create", "beginWrite"} =>
             pc[c] \in Early \cup {"gate", "permit", "begin", "create", "beginWrite"}
        /\ pc'[c] \in {"publish", "unlist", "done"} =>
             \/ outcome'[c] \in {None, Failed}
             \/ outcome'[c] = outcome[c] /\ pc[c] \in {"publish", "unlist", "done"}
    BY <1>3 DEF GetMissed, Goto, TypeOK, service, Early
  <2> QED
    BY <1>0, <2>1, <2>2, OutcomeMoves
<1>4. ASSUME NEW c \in Callers, Join(c) PROVE \A d \in Callers : OutcomeOK(d)'
  <2>1. ASSUME NEW d \in Callers \ {c} PROVE OutcomeOK(d)'
    <3>1. /\ pc'[d] = pc[d] /\ auth'[d] = auth[d] /\ fence'[d] = fence[d]
          /\ outcome'[d] = outcome[d] /\ result'[d] = result[d]
      BY <1>4, <2>1 DEF Join, Goto, TypeOK, service
    <3> QED
      BY <1>0, <3>1, OutcomeFrame
  <2>2. /\ auth' = auth /\ result' = result /\ fence' = fence
        /\ pc'[c] \in Early => pc[c] \in Early
        /\ pc'[c] \in {"gate", "permit", "begin", "create", "beginWrite"} =>
             pc[c] \in Early \cup {"gate", "permit", "begin", "create", "beginWrite"}
        /\ pc'[c] \in {"publish", "unlist", "done"} =>
             \/ outcome'[c] \in {None, Failed}
             \/ outcome'[c] = outcome[c] /\ pc[c] \in {"publish", "unlist", "done"}
    BY <1>4 DEF Join, Goto, TypeOK, service, Early
  <2> QED
    BY <1>0, <2>1, <2>2, OutcomeMoves
<1>5. ASSUME NEW c \in Callers, Acquire(c) PROVE \A d \in Callers : OutcomeOK(d)'
  <2>1. ASSUME NEW d \in Callers \ {c} PROVE OutcomeOK(d)'
    <3>1. /\ pc'[d] = pc[d] /\ auth'[d] = auth[d] /\ fence'[d] = fence[d]
          /\ outcome'[d] = outcome[d] /\ result'[d] = result[d]
      BY <1>5, <2>1 DEF Acquire, Goto, TypeOK, service
    <3> QED
      BY <1>0, <3>1, OutcomeFrame
  <2>2. /\ auth' = auth /\ result' = result /\ fence' = fence
        /\ pc'[c] \in Early => pc[c] \in Early
        /\ pc'[c] \in {"gate", "permit", "begin", "create", "beginWrite"} =>
             pc[c] \in Early \cup {"gate", "permit", "begin", "create", "beginWrite"}
        /\ pc'[c] \in {"publish", "unlist", "done"} =>
             \/ outcome'[c] \in {None, Failed}
             \/ outcome'[c] = outcome[c] /\ pc[c] \in {"publish", "unlist", "done"}
    BY <1>5 DEF Acquire, Goto, TypeOK, service, Early
  <2> QED
    BY <1>0, <2>1, <2>2, OutcomeMoves
<1>6. ASSUME NEW c \in Callers, Begin(c) PROVE \A d \in Callers : OutcomeOK(d)'
  <2>1. ASSUME NEW d \in Callers \ {c} PROVE OutcomeOK(d)'
    <3>1. /\ pc'[d] = pc[d] /\ auth'[d] = auth[d] /\ fence'[d] = fence[d]
          /\ outcome'[d] = outcome[d] /\ result'[d] = result[d]
      BY <1>6, <2>1 DEF Begin, Read, Goto, TypeOK, service
    <3> QED
      BY <1>0, <3>1, OutcomeFrame
  <2>2. /\ auth' = auth /\ result' = result /\ fence' = fence
        /\ pc'[c] \in Early => pc[c] \in Early
        /\ pc'[c] \in {"gate", "permit", "begin", "create", "beginWrite"} =>
             pc[c] \in Early \cup {"gate", "permit", "begin", "create", "beginWrite"}
        /\ pc'[c] \in {"publish", "unlist", "done"} =>
             \/ outcome'[c] \in {None, Failed}
             \/ outcome'[c] = outcome[c] /\ pc[c] \in {"publish", "unlist", "done"}
    BY <1>6 DEF Begin, Read, Goto, TypeOK, service, Early
  <2> QED
    BY <1>0, <2>1, <2>2, OutcomeMoves
<1>7. ASSUME NEW c \in Callers, Discover(c) PROVE \A d \in Callers : OutcomeOK(d)'
  <2>1. ASSUME NEW d \in Callers \ {c} PROVE OutcomeOK(d)'
    <3>1. /\ pc'[d] = pc[d] /\ auth'[d] = auth[d] /\ fence'[d] = fence[d]
          /\ outcome'[d] = outcome[d] /\ result'[d] = result[d]
      BY <1>7, <2>1 DEF Discover, Goto, TypeOK, service
    <3> QED
      BY <1>0, <3>1, OutcomeFrame
  <2>2. /\ auth' = auth /\ result' = result /\ fence' = fence
        /\ pc'[c] \in Early => pc[c] \in Early
        /\ pc'[c] \in {"gate", "permit", "begin", "create", "beginWrite"} =>
             pc[c] \in Early \cup {"gate", "permit", "begin", "create", "beginWrite"}
        /\ pc'[c] \in {"publish", "unlist", "done"} =>
             \/ outcome'[c] \in {None, Failed}
             \/ outcome'[c] = outcome[c] /\ pc[c] \in {"publish", "unlist", "done"}
    BY <1>7 DEF Discover, Goto, TypeOK, service, Early
  <2> QED
    BY <1>0, <2>1, <2>2, OutcomeMoves
<1>8. ASSUME NEW c \in Callers, PutLost(c) PROVE \A d \in Callers : OutcomeOK(d)'
  <2>1. ASSUME NEW d \in Callers \ {c} PROVE OutcomeOK(d)'
    <3>1. /\ pc'[d] = pc[d] /\ auth'[d] = auth[d] /\ fence'[d] = fence[d]
          /\ outcome'[d] = outcome[d] /\ result'[d] = result[d]
      BY <1>8, <2>1 DEF PutLost, Goto, TypeOK, service
    <3> QED
      BY <1>0, <3>1, OutcomeFrame
  <2>2. /\ auth' = auth /\ result' = result /\ fence' = fence
        /\ pc'[c] \in Early => pc[c] \in Early
        /\ pc'[c] \in {"gate", "permit", "begin", "create", "beginWrite"} =>
             pc[c] \in Early \cup {"gate", "permit", "begin", "create", "beginWrite"}
        /\ pc'[c] \in {"publish", "unlist", "done"} =>
             \/ outcome'[c] \in {None, Failed}
             \/ outcome'[c] = outcome[c] /\ pc[c] \in {"publish", "unlist", "done"}
    BY <1>8 DEF PutLost, Goto, TypeOK, service, Early
  <2> QED
    BY <1>0, <2>1, <2>2, OutcomeMoves
<1>9. ASSUME NEW c \in Callers, Unlist(c) PROVE \A d \in Callers : OutcomeOK(d)'
  <2>1. ASSUME NEW d \in Callers \ {c} PROVE OutcomeOK(d)'
    <3>1. /\ pc'[d] = pc[d] /\ auth'[d] = auth[d] /\ fence'[d] = fence[d]
          /\ outcome'[d] = outcome[d] /\ result'[d] = result[d]
      BY <1>9, <2>1 DEF Unlist, Goto, TypeOK, service
    <3> QED
      BY <1>0, <3>1, OutcomeFrame
  <2>2. /\ auth' = auth /\ result' = result /\ fence' = fence
        /\ pc'[c] \in Early => pc[c] \in Early
        /\ pc'[c] \in {"gate", "permit", "begin", "create", "beginWrite"} =>
             pc[c] \in Early \cup {"gate", "permit", "begin", "create", "beginWrite"}
        /\ pc'[c] \in {"publish", "unlist", "done"} =>
             \/ outcome'[c] \in {None, Failed}
             \/ outcome'[c] = outcome[c] /\ pc[c] \in {"publish", "unlist", "done"}
    BY <1>9 DEF Unlist, Goto, TypeOK, service, Early
  <2> QED
    BY <1>0, <2>1, <2>2, OutcomeMoves
<1>10. ASSUME NEW c \in Callers, Cancel(c) PROVE \A d \in Callers : OutcomeOK(d)'
  <2>1. ASSUME NEW d \in Callers \ {c} PROVE OutcomeOK(d)'
    <3>1. /\ pc'[d] = pc[d] /\ auth'[d] = auth[d] /\ fence'[d] = fence[d]
          /\ outcome'[d] = outcome[d] /\ result'[d] = result[d]
      BY <1>10, <2>1 DEF Cancel, Goto, TypeOK, service
    <3> QED
      BY <1>0, <3>1, OutcomeFrame
  <2>2. /\ auth' = auth /\ result' = result /\ fence' = fence
        /\ pc'[c] \in Early => pc[c] \in Early
        /\ pc'[c] \in {"gate", "permit", "begin", "create", "beginWrite"} =>
             pc[c] \in Early \cup {"gate", "permit", "begin", "create", "beginWrite"}
        /\ pc'[c] \in {"publish", "unlist", "done"} =>
             \/ outcome'[c] \in {None, Failed}
             \/ outcome'[c] = outcome[c] /\ pc[c] \in {"publish", "unlist", "done"}
    BY <1>10 DEF Cancel, Goto, TypeOK, service, Early
  <2> QED
    BY <1>0, <2>1, <2>2, OutcomeMoves
<1>11. ASSUME NEW c \in Callers, GetCached(c) PROVE \A d \in Callers : OutcomeOK(d)'
  <2>1. ASSUME NEW d \in Callers \ {c} PROVE OutcomeOK(d)'
    <3>1. /\ pc'[d] = pc[d] /\ auth'[d] = auth[d] /\ fence'[d] = fence[d]
          /\ outcome'[d] = outcome[d] /\ result'[d] = result[d]
      BY <1>11, <2>1 DEF GetCached, Goto, TypeOK, service
    <3> QED
      BY <1>0, <3>1, OutcomeFrame
  <2>2. /\ pc[c] = "get" /\ pc'[c] = "done" /\ UNCHANGED << auth, result, fence >>
        /\ outcome'[c] = Ok("cached", resource.snapshot)
        /\ resource.snapshot /= None /\ resource.snapshot.fence.auth = auth[c]
    BY <1>11 DEF GetCached, Goto, TypeOK, service, is_reusable, snapshot_matches
  <2>3. resource.snapshot \in committed /\ outcome'[c].snapshot = resource.snapshot
    BY <2>2 DEF OutcomesConsistent, Ok
  <2>4. fence[c] = None
    BY <1>0, <2>2 DEF OutcomeOK, Early
  <2>5. OutcomeOK(c)'
    BY <1>0, <2>2, <2>3, <2>4 DEF OutcomeOK, Authoritative, Early
  <2> QED
    BY <2>1, <2>5
<1>12. ASSUME NEW c \in Callers, Gate(c) PROVE \A d \in Callers : OutcomeOK(d)'
  <2>1. ASSUME NEW d \in Callers \ {c} PROVE OutcomeOK(d)'
    <3>1. /\ pc'[d] = pc[d] /\ auth'[d] = auth[d] /\ fence'[d] = fence[d]
          /\ outcome'[d] = outcome[d] /\ result'[d] = result[d]
      BY <1>12, <2>1 DEF Gate, Goto, TypeOK, service
    <3> QED
      BY <1>0, <3>1, OutcomeFrame
  <2>2. /\ pc[c] = "gate" /\ UNCHANGED << auth, result, fence >>
        /\ \/ pc'[c] = "permit"
           \/ pc'[c] = "done" /\ outcome'[c] = result[flight[c]]
    BY <1>12 DEF Gate, Goto, TypeOK, service
  <2>3. fence[c] = None
    BY <1>0, <2>2 DEF OutcomeOK
  <2>4. /\ flight[c] \in Callers /\ auth[flight[c]] = auth[c]
    BY <2>2 DEF CallsConsistent, CallOK, FlightsConsistent, SameKey, Joined
  <2>5. Authoritative(result[flight[c]], auth[c])
    BY <1>0, <2>4 DEF OutcomeOK
  <2>6. OutcomeOK(c)'
    BY <1>0, <2>2, <2>3, <2>5 DEF OutcomeOK, Authoritative, Early
  <2> QED
    BY <2>1, <2>6
<1>13. ASSUME NEW c \in Callers, Publish(c) PROVE \A d \in Callers : OutcomeOK(d)'
  <2>1. /\ pc[c] = "publish" /\ pc'[c] = "unlist" /\ UNCHANGED << auth, fence, outcome >>
        /\ \A d \in Callers \ {c} : pc'[d] = pc[d]
    BY <1>13 DEF Publish, Goto, TypeOK
  <2>2. /\ flight[c] \in Callers /\ auth[flight[c]] = auth[c] /\ pc[flight[c]] \notin Early
    BY <2>1 DEF CallsConsistent, CallOK, FlightsConsistent, SameKey, Joined, Gated,
       Performing
  <2>3. /\ result'[flight[c]] = outcome[c]
        /\ \A f \in Callers \ {flight[c]} : result'[f] = result[f]
    BY <1>13, <2>2 DEF Publish, TypeOK
  <2>4. Authoritative(outcome[c], auth[c])
    BY <1>0, <2>1 DEF OutcomeOK
  <2>5. ASSUME NEW d \in Callers
        PROVE  /\ Authoritative(result[d], auth[d])'
               /\ pc'[d] \in Early => pc[d] \in Early /\ result'[d] = result[d]
               /\ pc'[d] \in {"publish", "unlist", "done"} =>
                    pc[d] \in {"publish", "unlist", "done"}
    BY <1>0, <2>1, <2>2, <2>3, <2>4 DEF OutcomeOK, Authoritative, Early
  <2> QED
    BY <1>0, <2>1, <2>5 DEF OutcomeOK, Authoritative, Early
<1>14. ASSUME NEW c \in Callers, WinnerFound(c) PROVE \A d \in Callers : OutcomeOK(d)'
  <2>1. ASSUME NEW d \in Callers \ {c} PROVE OutcomeOK(d)'
    <3>1. /\ pc'[d] = pc[d] /\ auth'[d] = auth[d] /\ fence'[d] = fence[d]
          /\ outcome'[d] = outcome[d] /\ result'[d] = result[d]
      BY <1>14, <2>1 DEF WinnerFound, Goto, TypeOK, service
    <3> QED
      BY <1>0, <3>1, OutcomeFrame
  <2>2. /\ pc[c] = "winner" /\ pc'[c] = "publish" /\ UNCHANGED << auth, result, fence >>
        /\ outcome'[c] = Ok("won_by_other", resource.snapshot)
        /\ resource.snapshot /= None /\ resource.snapshot.fence.auth = auth[c]
        /\ resource.snapshot.fence.epoch > fence[c].epoch
    BY <1>14 DEF WinnerFound, Goto, TypeOK, service, validate_winner
  <2>3. resource.snapshot \in committed /\ outcome'[c].snapshot = resource.snapshot
    BY <2>2 DEF OutcomesConsistent, Ok
  <2>4. fence[c].epoch \in Nat /\ resource.snapshot.fence.epoch \in Nat
    BY <2>2 DEF CallsConsistent, CallOK, TypeOK, Fence, Snapshot
  <2>5. OutcomeOK(c)'
    BY <1>0, <2>2, <2>3, <2>4 DEF OutcomeOK, Authoritative, Early
  <2> QED
    BY <2>1, <2>5
<1>15. ASSUME NEW c \in Callers, PutCurrent(c), ~Fail(c)
      PROVE  \A d \in Callers : OutcomeOK(d)'
  <2>1. /\ pc[c] = "put" /\ UNCHANGED << auth, result, fence, outcome >>
        /\ \A d \in Callers \ {c} : pc'[d] = pc[d]
        /\ \/ pc'[c] = "putWrite"
           \/ pc'[c] = "publish" /\ resource.snapshot = outcome[c].snapshot
                                /\ resource.snapshot /= None
    BY <1>15 DEF PutCurrent, Read, Goto, TypeOK, service
  <2>2. PICK r \in Reports :
          outcome[c] = Ok("refreshed", [fence |-> fence[c], report |-> r])
    BY <2>1 DEF CallsConsistent, CallOK
  <2>3. fence[c] \in Fence /\ outcome[c].snapshot.fence = fence[c]
    BY <2>1, <2>2 DEF CallsConsistent, CallOK, Ok
  <2>4. /\ fence[c] /= None /\ fence[c].epoch \in Nat /\ fence[c].auth = auth[c]
    BY <1>0, <2>3, NoneAssumption DEF OutcomeOK, Fence
  <2>5. resource.snapshot /= None => resource.snapshot \in committed
    BY DEF OutcomesConsistent
  <2>6. OutcomeOK(c)'
    BY <1>0, <2>1, <2>3, <2>4, <2>5 DEF OutcomeOK, Authoritative, Early
  <2>7. ASSUME NEW d \in Callers \ {c} PROVE OutcomeOK(d)'
    BY <1>0, <2>1, OutcomeFrame
  <2> QED
    BY <2>6, <2>7
<1>16. ASSUME NEW c \in Callers, WriteAccepted(c) PROVE \A d \in Callers : OutcomeOK(d)'
  <2>1. /\ pc[c] \in Writing /\ pc'[c] = After(pc[c]) /\ Execute(Request(c))
        /\ UNCHANGED << auth, result, outcome >>
        /\ \A d \in Callers \ {c} : pc'[d] = pc[d] /\ fence'[d] = fence[d]
        /\ fence'[c] = IF pc[c] = "beginWrite" THEN next_fence(c) ELSE fence[c]
    BY <1>16 DEF WriteAccepted, Goto, TypeOK, service
  <2>2. ASSUME NEW d \in Callers \ {c} PROVE OutcomeOK(d)'
    BY <1>0, <2>1, OutcomeFrame
  <2>3. CASE pc[c] = "create"
    BY <1>0, <2>1, <2>3, OutcomeMoves DEF After, Early
  <2>4. CASE pc[c] = "beginWrite"
    <3>1. fence'[c].auth = auth[c] /\ pc'[c] = "discover"
      BY <2>1, <2>4 DEF next_fence, After
    <3>2. Authoritative(result[c], auth[c])'
      BY <1>0, <2>1 DEF OutcomeOK, Authoritative
    <3> QED
      BY <2>1, <2>2, <3>1, <3>2 DEF OutcomeOK, Early
  <2>5. CASE pc[c] = "putWrite"
    <3>1. pc'[c] = "publish" /\ fence'[c] = fence[c]
      BY <2>1, <2>5 DEF After
    <3>2. /\ Request(c) \in Write /\ Request(c).by = c /\ Request(c).kind = "putWrite"
          /\ auth[c] \in Authorities
          /\ Request(c).snapshot = outcome[c].snapshot
          /\ outcome[c].snapshot \in Snapshot /\ outcome[c].snapshot.fence = fence[c]
      BY <2>1, <2>5, RequestType
    <3>3. resource'.snapshot = outcome[c].snapshot
      BY <2>1, <3>2, ExecuteEffect
    <3>4. /\ outcome[c].snapshot \in committed'
          /\ fence[c] /= None /\ fence[c].epoch \in Nat
      BY <1>0, <3>2, <3>3, NoneAssumption DEF Snapshot, Fence
    <3>5. fence[c].auth = auth[c]
      BY <1>0, <3>4 DEF OutcomeOK
    <3> QED
      BY <1>0, <2>1, <3>1, <3>2, <3>4, <3>5 DEF OutcomeOK, Authoritative, Early
  <2>6. pc[c] /= "invWrite"
    BY DEF TypeOK, CallerPlaces, Joined, Gated, Performing, Permitted
  <2>7. OutcomeOK(c)'
    BY <2>1, <2>3, <2>4, <2>5, <2>6 DEF Writing
  <2> QED
    BY <2>2, <2>7
<1>17. ASSUME NEW c \in Callers, WriteConflict(c), ~Fail(c)
      PROVE  \A d \in Callers : OutcomeOK(d)'
  <2>1. /\ pc[c] \in Writing /\ pc'[c] = LoopStart(pc[c])
        /\ UNCHANGED << auth, result, fence, outcome >>
        /\ \A d \in Callers \ {c} : pc'[d] = pc[d]
    BY <1>17 DEF WriteConflict, Goto, TypeOK, service
  <2>2. /\ pc'[c] \in {"begin", "put"}
        /\ pc'[c] = "begin" => pc[c] \in {"create", "beginWrite"}
    BY <2>1 DEF Writing, LoopStart, TypeOK, CallerPlaces, Joined, Gated, Performing,
       Permitted
  <2>3. OutcomeOK(c)'
    BY <1>0, <2>1, <2>2, OutcomeMoves DEF Early
  <2>4. ASSUME NEW d \in Callers \ {c} PROVE OutcomeOK(d)'
    BY <1>0, <2>1, OutcomeFrame
  <2> QED
    BY <2>3, <2>4
<1>18. ASSUME NEW p \in Invalidators,
             \/ CallInvalidate(p) \/ Invalidate(p) \/ WriteAccepted(p)
             \/ WriteConflict(p) /\ ~Fail(p)
      PROVE  \A d \in Callers : OutcomeOK(d)'
  <2>1. p \notin Callers
    BY ConfigAssumption
  <2>2. ASSUME NEW d \in Callers
        PROVE  /\ pc'[d] = pc[d] /\ auth'[d] = auth[d] /\ fence'[d] = fence[d]
               /\ outcome'[d] = outcome[d] /\ result'[d] = result[d]
    <3>1. CASE CallInvalidate(p)
      BY <2>1, <3>1 DEF CallInvalidate, Goto, TypeOK, service
    <3>2. CASE Invalidate(p)
      BY <2>1, <3>2 DEF Invalidate, InvalidateNothing, InvalidateList, InvalidateRead, Read,
         Goto, TypeOK, service
    <3>3. CASE WriteAccepted(p)
      BY <2>1, <3>3 DEF WriteAccepted, Goto, TypeOK, service
    <3>4. CASE WriteConflict(p) /\ ~Fail(p)
      BY <2>1, <3>4 DEF WriteConflict, Goto, TypeOK, service
    <3> QED
      BY <1>18, <3>1, <3>2, <3>3, <3>4
  <2> QED
    BY <1>0, <2>2, OutcomeFrame
<1>19. ASSUME UNCHANGED << pc, auth, fence, outcome, result >>
      PROVE  \A d \in Callers : OutcomeOK(d)'
  BY <1>0, <1>19, OutcomeFrame
<1>20. LateWrite \/ UNCHANGED vars => UNCHANGED << pc, auth, fence, outcome, result >>
  BY DEF LateWrite, vars, service
<1>21. ASSUME NEW p \in Processes,
             \/ WriteUnanswered(p) \/ ReadFailed(p)
             \/ p \in Callers /\ WinnerTimeout(p)
             \/ WriteConflict(p) /\ Fail(p)
             \/ p \in Callers /\ PutCurrent(p) /\ Fail(p)
      PROVE  Fail(p) /\ UNCHANGED << auth, service, fence >>
  BY <1>21 DEF WriteUnanswered, ReadFailed, WinnerTimeout, WriteConflict, PutCurrent, Read
<1>22. \/ \E c \in Callers :
            \/ Call(c) \/ GetCached(c) \/ GetMissed(c) \/ Join(c) \/ Gate(c)
            \/ Acquire(c) \/ Begin(c) \/ Discover(c) \/ PutLost(c) \/ PutCurrent(c)
            \/ WinnerFound(c) \/ WinnerTimeout(c) \/ Publish(c) \/ Unlist(c) \/ Cancel(c)
       \/ \E i \in Invalidators : CallInvalidate(i) \/ Invalidate(i)
       \/ \E p \in Processes :
            WriteAccepted(p) \/ WriteConflict(p) \/ WriteUnanswered(p) \/ ReadFailed(p)
       \/ LateWrite \/ UNCHANGED vars
  <2>1. CASE \E c \in Callers : Call(c) \/ Handle(c) \/ Cancel(c)
    BY <2>1 DEF Handle, Perform, Loop
  <2>2. CASE \E i \in Invalidators : CallInvalidate(i) \/ Invalidate(i) \/ Loop(i)
    BY <2>2 DEF Loop
  <2> QED
    BY <2>1, <2>2 DEF Next, Terminated
<1> QED
  BY <1>2, <1>3, <1>4, <1>5, <1>6, <1>7, <1>8, <1>9, <1>10, <1>11, <1>12, <1>13, <1>14,
     <1>15, <1>16, <1>17, <1>18, <1>19, <1>20, <1>21, <1>22

(***************************************************************************)
(* The theorems                                                            *)
(***************************************************************************)

\* Nothing has been written, called or published yet.
LEMMA InitIInv == Init => IInv
<1> SUFFICES ASSUME Init PROVE IInv
  OBVIOUS
<1> USE ConfigAssumption, NoneAssumption DEF Init, Processes
<1>1. TypeOK
  <2>1. resource \in [rv : Nat, epoch : Nat, authority : Fence \cup {None},
                      snapshot : Snapshot \cup {None}]
    OBVIOUS
  <2> QED
    BY <2>1 DEF TypeOK, CallerPlaces, InvalidatorPlaces
<1>2. CallsConsistent
  BY DEF CallsConsistent, CallOK, LateOK, Joined, Gated, Performing, Permitted
<1>3. WritesFit
  BY DEF WritesFit
<1>4. PurgedIsOld
  BY DEF PurgedIsOld, active_matches, snapshot_matches
<1>5. FlightsConsistent
  BY DEF FlightsConsistent, Joined, Gated, Performing, Permitted
<1>6. OutcomesConsistent
  BY DEF OutcomesConsistent, OutcomeOK, Authoritative
<1> QED
  BY <1>1, <1>2, <1>3, <1>4, <1>5, <1>6 DEF IInv

\* The inductive invariant holds in every reachable state.
LEMMA Invariance == Spec => []IInv
<1>1. IInv /\ [Next]_vars => IInv'
  BY TypePreserved, WritesPreserved, PurgedPreserved, FlightsPreserved, OutcomesPreserved
     DEF IInv
<1> QED
  BY InitIInv, <1>1, PTL DEF Spec

\* The resource, every call and every flight keep their type, and a conflict
\* loop that goes on has a try left.
THEOREM TypeCorrect == Spec => []TypeOK
<1>1. IInv => TypeOK
  BY DEF IInv
<1> QED
  BY Invariance, <1>1, PTL

\* capability_discovery.rs refresh: the callers of a process that ask for one
\* authority cause one discovery at a time, although the one in charge may be
\* dropped and its flight may leave the list.
THEOREM DiscoveriesAreCoalesced == Spec => []OneDiscoveryPerAuthority
<1>1. IInv => OneDiscoveryPerAuthority
  <2> SUFFICES ASSUME IInv, NEW c \in Callers, NEW d \in Callers,
                      pc[c] \in Performing, pc[d] \in Performing, SameKey(c, d)
               PROVE  c = d
    BY DEF OneDiscoveryPerAuthority
  <2>1. /\ pc[c] \in Joined /\ pc[c] \in Gated
        /\ pc[d] \in Joined /\ pc[d] \in Gated
    BY DEF Joined, Gated
  <2>2. flight[c] \in listed /\ flight[d] \in listed
    BY <2>1 DEF IInv, FlightsConsistent
  <2> QED
    BY <2>1, <2>2 DEF IInv, FlightsConsistent
<1> QED
  BY Invariance, <1>1, PTL

\* capability_discovery.rs get_or_refresh and refresh: whatever a call returns
\* was committed, for the authority it asked for, and not before the discovery
\* that it began itself.
THEOREM OutcomesAreAuthoritative == Spec => []OutcomeIsAuthoritative
<1>1. IInv => OutcomeIsAuthoritative
  BY DEF IInv, OutcomesConsistent, OutcomeOK, Authoritative, OutcomeIsAuthoritative
<1> QED
  BY Invariance, <1>1, PTL

\* capability_discovery.rs invalidate_stale_revision: a discovery that was in
\* flight cannot bring an invalidated authority back, not even with a write
\* that is executed late.
THEOREM InvalidationIsFinal == Spec => []InvalidatedStaysOut
<1>1. IInv => InvalidatedStaysOut
  BY DEF IInv, PurgedIsOld, InvalidatedStaysOut
<1> QED
  BY Invariance, <1>1, PTL

\* A write that fits is one operation of the abstract store, or none.
LEMMA ExecuteImplements ==
    ASSUME TypeOK, NEW w \in Write, Execute(w), auth[w.by] \in Authorities,
           w.kind /= "invWrite" => w.by \in Callers,
           w.kind = "putWrite" => w.snapshot \in Snapshot /\ Fits(w.snapshot)
    PROVE  [Promise!Next]_<< resource.epoch, resource.authority, resource.snapshot >>
<1>1. CASE w.kind = "create"
  BY <1>1, ExecuteEffect
<1>2. CASE w.kind = "beginWrite"
  <2>1. /\ resource'.epoch = resource.epoch + 1
        /\ resource'.authority = next_fence(w.by)
        /\ resource'.snapshot = resource.snapshot /\ w.by \in Callers
    BY <1>2, ExecuteEffect
  <2>2. Promise!begin_discovery(auth[w.by], w.by)
    BY <2>1 DEF Promise!begin_discovery, next_fence
  <2> QED
    BY <2>1, <2>2 DEF Promise!Next
<1>3. CASE w.kind = "putWrite"
  <2>1. /\ resource'.epoch = resource.epoch
        /\ resource'.authority = resource.authority
        /\ resource'.snapshot = w.snapshot
    BY <1>3, ExecuteEffect
  <2>2. /\ w.snapshot.report \in Reports /\ w.snapshot.fence \in Fence
        /\ w.snapshot = [fence |-> resource.authority, report |-> w.snapshot.report]
        /\ resource.snapshot = None \/ resource.snapshot.fence /= resource.authority
    BY <1>3 DEF Snapshot, Fits
  <2>3. resource.authority /= None
    BY <1>3, <2>2, NoneAssumption DEF Fits
  <2>4. Promise!put_if_current(w.snapshot.report)
    BY <2>1, <2>2, <2>3 DEF Promise!put_if_current
  <2> QED
    BY <2>2, <2>4 DEF Promise!Next
<1>4. CASE w.kind = "invWrite"
  <2>1. resource' = invalidated(auth[w.by])
    BY <1>4, ExecuteEffect
  <2>2. Promise!invalidate_account_revision(auth[w.by])
    BY <2>1, InvalidatedEffect
       DEF Promise!invalidate_account_revision, active_matches, snapshot_matches
  <2> QED
    BY <2>2 DEF Promise!Next
<1> QED
  BY <1>1, <1>2, <1>3, <1>4 DEF Write, Writing

\* cloud_capability_store.rs: the read and conditional write loops over the CRD
\* are the atomic operations of the SQL store, although requests may be lost,
\* executed late or executed after their caller is gone.
THEOREM LoopsImplementSnapshotStore == Spec => ImplementsSnapshotStore
<1>1. Init => Promise!Init
  BY DEF Init, Promise!Init
<1>2. IInv /\ [Next]_vars =>
        [Promise!Next]_<< resource.epoch, resource.authority, resource.snapshot >>
  <2> SUFFICES ASSUME IInv, [Next]_vars
               PROVE  [Promise!Next]_<< resource.epoch, resource.authority, resource.snapshot >>
    OBVIOUS
  <2>1. TypeOK /\ CallsConsistent /\ WritesFit
    BY DEF IInv
  <2>2. CASE resource' = resource
    BY <2>2
  <2> QED
    BY <2>1, <2>2, StoreStep, ExecuteImplements
<1> QED
  BY <1>1, <1>2, Invariance, PTL DEF Spec, ImplementsSnapshotStore, Promise!Spec
=============================================================================
