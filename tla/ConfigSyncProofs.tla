-------------------------- MODULE ConfigSyncProofs --------------------------
(***************************************************************************)
(* The watch cache is an exact past state of the controller, its override  *)
(* rows follow it, and what a document write and a reload read off it is   *)
(* true, for every set of documents and edits, every capacity and any      *)
(* number of sessions, rebuilds, faults and messages in flight.            *)
(*                                                                         *)
(* The invariant follows the line of messages a session has still to apply *)
(* (Line): each is sound, and each batch of events starts where the reader *)
(* will be when it comes to it, unless the reader will refuse it (Chained).*)
(***************************************************************************)
EXTENDS ConfigSync, WellFoundedInduction, TLAPS

\* The controller's documents change one at a time, and a document's version is
\* the number of the change that made it.
Aged ==
    /\ Now >= 1
    /\ \A n \in DOMAIN hist : \A k \in Keys : hist[n][k].rv < n
    /\ \A n \in 2..Now : \E k \in Keys :
          /\ hist[n][k] # hist[n - 1][k]
          /\ \A j \in Keys \ {k} : hist[n][j] = hist[n - 1][j]
    /\ \A m, n \in DOMAIN hist : m <= n =>
          \A k \in Keys : \/ hist[n][k] = hist[m][k]
                          \/ hist[n][k] = NoDoc
                          \/ hist[n][k].rv >= m

Based == Server >= 1 /\ \A i \in DOMAIN base : base[i] < Now

\* The state of the controller a message brings its reader to, and the one its
\* events start from.
Carries(m) == m.type \in {"list", "events"}
End(m) == m.version + 1 + base[m.server]
Start(m) == End(m) - Len(m.events)

Sound(m) ==
    Carries(m) =>
        /\ m.server \in 1..Server /\ End(m) \in 1..Now
        /\ m.type = "list" => m.state = hist[End(m)]
        /\ m.type = "events" =>
              /\ Start(m) >= 1
              /\ \A i \in DOMAIN m.events : m.events[i] = EventAt(Start(m) + i)

\* The messages a session has still to apply: the one it holds and its stream.
Held(s) == IF sess[s].pc = "apply" THEN 1 ELSE 0
Size(s) == Held(s) + Len(stream[s])
At(s, i) == IF i <= Held(s) THEN sess[s].msg ELSE stream[s][i - Held(s)]

Line(s) ==
    /\ \A i \in 1..Size(s) : Sound(At(s, i)) /\ At(s, i).rid <= sess[s].rid
    /\ \A i, j \in 1..Size(s) : i < j =>
          /\ At(s, i).rid <= At(s, j).rid
          /\ Carries(At(s, i)) /\ Carries(At(s, j)) =>
                End(At(s, i)) <= End(At(s, j)) /\ At(s, i).server <= At(s, j).server

Active == {"run", "apply", "publish", "backoff", "ending"}

Placed(s) ==
    /\ sess[s].pc = "idle" => sess[s] = NoSession /\ stream[s] = << >> /\ current # s
    /\ sess[s].pc = "opening" => stream[s] = << >>
    /\ sess[s].pc = "offline" => current # s
    /\ watch[s].on =>
          /\ current = s /\ sess[s].pc \in Active /\ watch[s].rid = sess[s].rid
          /\ ~watch[s].pending => watch[s].server \in 1..Server /\ watch[s].at \in 1..Now

CacheEnd == cache.version + 1 + base[cache.server]

Cached ==
    ~late =>
        /\ cache.server = 0 => cache.data = Empty /\ cache.version = 0
        /\ cache.server # 0 => CacheEnd \in 1..Now /\ cache.data = hist[CacheEnd]

\* The current session goes on where the cache is.
Feeds(s) ==
    ~late /\ current = s /\ sess[s].pc \in Active =>
        /\ sess[s].server = cache.server
        /\ \A i \in 1..Size(s) : Carries(At(s, i)) =>
              /\ cache.server <= At(s, i).server
              /\ cache.server # 0 => CacheEnd <= End(At(s, i))

\* What the reader has when it comes to the message after the i-th.
Fresh(s, i) == i = 0 \/ At(s, i).rid # sess[s].rid
Known(s, i) == Fresh(s, i) \/ Carries(At(s, i))
KnownServer(s, i) == IF Fresh(s, i) THEN cache.server ELSE At(s, i).server
KnownEnd(s, i) == IF Fresh(s, i) THEN CacheEnd ELSE End(At(s, i))

Chained(s) ==
    ~late /\ current = s /\ sess[s].pc \in {"run", "apply", "publish"} /\ ~sess[s].terminated =>
        /\ \A i \in 1..Size(s) :
              At(s, i).rid = sess[s].rid /\ At(s, i).type = "events" /\ Known(s, i - 1) =>
                /\ KnownServer(s, i - 1) # 0
                /\ At(s, i).server = KnownServer(s, i - 1) =>
                      Start(At(s, i)) = KnownEnd(s, i - 1)
        /\ watch[s].on /\ ~watch[s].pending /\ Known(s, Size(s)) =>
              /\ KnownServer(s, Size(s)) # 0
              /\ KnownServer(s, Size(s)) <= watch[s].server
              /\ watch[s].server = KnownServer(s, Size(s)) => watch[s].at = KnownEnd(s, Size(s))
        /\ watch[s].on /\ watch[s].pending =>
              /\ \A i \in 1..Size(s) : At(s, i).rid # sess[s].rid
              /\ watch[s].from \in {0, cache.version}

\* The four parts of the invariant that are about one session.
Follows(s) == Line(s) /\ Placed(s) /\ Feeds(s) /\ Chained(s)

Published(rows, batch) == IF batch.full THEN FullSet(batch) ELSE PartialUpdate(rows, batch)

Mirrored ==
    ~late =>
        \/ \E s \in Sessions : sess[s].pc = "publish" /\ s # current
        \/ /\ \A s \in Sessions : sess[s].pc # "publish"
           /\ \A k \in Keys \ astray : store[k] = RowOf(cache.data[k])
        \/ /\ current # 0 /\ sess[current].pc = "publish"
           /\ \A k \in Keys \ astray :
                 Published(store, sess[current].batch)[k] = RowOf(cache.data[k])

\* Sessions open in their order; the registry's is the latest, and the latest one
\* is the registry's until it ends.
Attending == {"opening"} \cup Active

Seated ==
    /\ \A s, t \in Sessions : s < t /\ sess[t].pc # "idle" => sess[s].pc # "idle"
    /\ \A s \in Sessions : current = s => Latest(s)
    /\ \A s \in Sessions : Latest(s) /\ sess[s].pc \in Attending => current = s

Written ==
    /\ wr.put = "applied" =>
          /\ wr.rv + 1 \in DOMAIN hist /\ wr.rv >= 1
          /\ hist[wr.rv][wr.key] # NoDoc /\ hist[wr.rv][wr.key].rv = wr.pre
          /\ hist[wr.rv + 1][wr.key] = [rv |-> wr.rv, kind |-> "on"]
    /\ wr.pc = "poll" => wr.put = "applied"
    /\ wr.pc # "done" => wr.result = "none"
    /\ wr.pc \in {"idle", "fetch"} => wr.put = "none"
    /\ ~late /\ wr.pc \in {"sent", "poll"} /\ ~wr.via => cache.server # 0 /\ wr.pre < CacheEnd

Reloading ==
    /\ rl.pc # "done" => rl.result = "none"
    /\ ~late /\ rl.pc \in {"sent", "poll"} => rl.baseline <= cache.server

IInv ==
    /\ TypeOK /\ Aged /\ Based /\ Cached
    /\ \A s \in Sessions : Follows(s)
    /\ Mirrored /\ Seated /\ FreshIsFed /\ Written /\ Reloading
-----------------------------------------------------------------------------
(***************************************************************************)
(* Least and greatest numbers                                              *)
(***************************************************************************)

LEMMA LeastNat ==
  ASSUME NEW T, T \subseteq Nat, T # {}
  PROVE  \E x \in T : \A y \in T : x <= y
<1> DEFINE R == OpToRel(<, Nat)
<1>1. IsWellFoundedOn(R, Nat)
  BY NatLessThanWellFounded
<1>2. \A x, y \in Nat : y < x => <<y, x>> \in R
  BY DEF OpToRel
<1> HIDE DEF R
<1>3. PICK x \in T : \A y \in T : ~(<<y, x>> \in R)
  BY <1>1, WFMin
<1>4. ASSUME NEW y \in T PROVE x <= y
  <2>1. x \in Nat /\ y \in Nat
    OBVIOUS
  <2>2. ~(y < x)
    BY <1>2, <1>3, <2>1, Zenon
  <2> QED BY <2>1, <2>2
<1> QED BY <1>4

LEMMA GreatestNat ==
  ASSUME NEW n \in Nat, NEW T, T \subseteq 1..n, T # {}
  PROVE  \E x \in T : \A y \in T : y <= x
<1> DEFINE U == {n - i : i \in T}
<1>1. U \subseteq Nat /\ U # {}
  <2>1. \A i \in T : n - i \in Nat
    OBVIOUS
  <2>2. PICK i \in T : TRUE
    OBVIOUS
  <2>3. n - i \in U
    OBVIOUS
  <2> QED BY <2>1, <2>3
<1>2. PICK u \in U : \A y \in U : u <= y
  BY <1>1, LeastNat
<1>3. PICK x \in T : u = n - x
  OBVIOUS
<1>4. ASSUME NEW y \in T PROVE y <= x
  <2>1. n - x <= n - y
    BY <1>2, <1>3
  <2>2. x \in Int /\ y \in Int
    OBVIOUS
  <2> QED BY <2>1, <2>2
<1> QED BY <1>4

-----------------------------------------------------------------------------
(***************************************************************************)
(* Events and the states they lead to                                      *)
(***************************************************************************)

LEMMA HistType ==
  ASSUME TypeOK, NEW n \in DOMAIN hist
  PROVE  hist[n] \in State /\ \A k \in Keys : hist[n][k] \in Doc \cup {NoDoc}
<1>1. hist[n] \in State
  BY DEF TypeOK
<1> QED BY <1>1 DEF State

\* The event of a change names the one document that changed.
LEMMA EventIs ==
  ASSUME TypeOK, Aged, NEW n \in 2..Now
  PROVE  /\ EventAt(n) \in Events
         /\ EventAt(n).doc = hist[n][EventAt(n).key]
         /\ EventAt(n).type = "delete" <=> EventAt(n).doc = NoDoc
         /\ \A j \in Keys : j # EventAt(n).key => hist[n][j] = hist[n - 1][j]
<1> DEFINE k == CHOOSE j \in Keys : hist[n][j] # hist[n - 1][j]
<1>1. PICK j \in Keys : /\ hist[n][j] # hist[n - 1][j]
                        /\ \A l \in Keys \ {j} : hist[n][l] = hist[n - 1][l]
  BY DEF Aged
<1>2. k \in Keys /\ hist[n][k] # hist[n - 1][k]
  BY <1>1
<1> HIDE DEF k
<1>3. k = j
  BY <1>1, <1>2
<1>4. EventAt(n) = [key |-> k, doc |-> hist[n][k],
                    type |-> IF hist[n][k] = NoDoc THEN "delete"
                             ELSE IF hist[n - 1][k] = NoDoc THEN "add" ELSE "update"]
  BY DEF EventAt, k
<1>5. n \in DOMAIN hist
  BY DEF Now, TypeOK
<1>6. hist[n][k] \in Doc \cup {NoDoc}
  BY <1>2, <1>5, HistType
<1>7. /\ EventAt(n).key = k /\ EventAt(n).doc = hist[n][k]
      /\ EventAt(n).type = "delete" <=> hist[n][k] = NoDoc
      /\ EventAt(n).type \in {"add", "update", "delete"}
  BY <1>4
<1>8. EventAt(n) \in Events
  BY <1>2, <1>4, <1>6 DEF Events
<1> QED BY <1>1, <1>3, <1>7, <1>8

\* A document no event is about stays.
LEMMA Untouched ==
  ASSUME TypeOK, Aged, NEW m \in DOMAIN hist, NEW n \in DOMAIN hist, m <= n,
         NEW k \in Keys, \A j \in (m + 1)..n : EventAt(j).key # k
  PROVE  hist[n][k] = hist[m][k]
<1> SUFFICES ASSUME hist[n][k] # hist[m][k] PROVE FALSE
  OBVIOUS
<1> DEFINE T == {j \in m..n : hist[j][k] # hist[m][k]}
<1>0. m \in Nat /\ n \in Nat /\ m >= 1 /\ n <= Now /\ Now \in Nat
  BY DEF Now, TypeOK
<1>1. T \subseteq Nat /\ n \in T
  BY <1>0
<1>2. PICK j \in T : \A i \in T : j <= i
  BY <1>1, LeastNat
<1>3. j \in m..n /\ hist[j][k] # hist[m][k]
  OBVIOUS
<1>4. j - 1 \in m..n /\ j \in (m + 1)..n /\ j \in 2..Now /\ ~(j <= j - 1)
  <2>1. j # m
    BY <1>3
  <2> QED BY <1>0, <1>3, <2>1
<1>5. j - 1 \notin T
  BY <1>2, <1>4
<1>6. hist[j - 1][k] = hist[m][k]
  BY <1>4, <1>5
<1>7. hist[j][k] = hist[j - 1][k]
  BY <1>4, EventIs
<1> QED BY <1>3, <1>6, <1>7

\* The last event of a key exists.
LEMMA LastIs ==
  ASSUME NEW events \in Seq(Events), NEW at, at \subseteq DOMAIN events,
         NEW k, k \in Touched(events, at)
  PROVE  \E i \in at : /\ events[i].key = k /\ LastOf(events, at, k) = events[i]
                       /\ \A j \in at : events[j].key = k => j <= i
<1> DEFINE T == {i \in at : events[i].key = k}
           Last(i) == events[i].key = k /\ \A j \in at : events[j].key = k => j <= i
<1>0. PICK n \in Nat : DOMAIN events = 1..n
  OBVIOUS
<1>1. T \subseteq 1..n /\ T # {}
  BY <1>0 DEF Touched
<1>2. PICK x \in T : \A y \in T : y <= x
  BY <1>1, GreatestNat
<1>3. x \in at /\ Last(x)
  BY <1>2
<1>4. LastOf(events, at, k) = events[CHOOSE i \in at : Last(i)]
  BY DEF LastOf
<1> HIDE DEF Last
<1>5. (CHOOSE i \in at : Last(i)) \in at /\ Last(CHOOSE i \in at : Last(i))
  BY <1>3
<1> QED BY <1>4, <1>5 DEF Last

LEMMA AfterType ==
  ASSUME NEW data \in State, NEW events \in Seq(Events), NEW at, at \subseteq DOMAIN events
  PROVE  AfterEvents(data, events, at) \in State
<1>2. ASSUME NEW k \in Keys, k \in Touched(events, at)
      PROVE  LastOf(events, at, k).doc \in Doc \cup {NoDoc}
  <2>1. PICK i \in at : LastOf(events, at, k) = events[i]
    BY <1>2, LastIs
  <2>2. events[i] \in Events
    OBVIOUS
  <2> QED BY <2>1, <2>2 DEF Events
<1> QED BY <1>2 DEF AfterEvents, State

\* The events between two states lead from the one to the other.
LEMMA Replay ==
  ASSUME TypeOK, Aged, NEW a \in DOMAIN hist, NEW b \in DOMAIN hist,
         NEW events \in Seq(Events), b = a + Len(events),
         \A i \in DOMAIN events : events[i] = EventAt(a + i)
  PROVE  AfterEvents(hist[a], events, DOMAIN events) = hist[b]
<1> DEFINE D == DOMAIN events
           n == Len(events)
<1>0. /\ n \in Nat /\ D = 1..n /\ a \in Nat /\ a >= 1 /\ b \in Nat /\ b <= Now
      /\ Now \in Nat
  BY DEF TypeOK, Now
<1>1. ASSUME NEW k \in Keys, k \in Touched(events, D)
      PROVE  LastOf(events, D, k).doc = hist[b][k]
  <2>1. PICK i \in D : /\ events[i].key = k /\ LastOf(events, D, k) = events[i]
                       /\ \A j \in D : events[j].key = k => j <= i
    BY <1>0, <1>1, LastIs
  <2>2. a + i \in 2..Now /\ a + i \in DOMAIN hist /\ a + i <= b
    BY <1>0 DEF Now, TypeOK
  <2>3. events[i] = EventAt(a + i)
    OBVIOUS
  <2>4. events[i].doc = hist[a + i][k]
    BY <2>1, <2>2, <2>3, EventIs
  <2>5. ASSUME NEW j \in (a + i + 1)..b PROVE EventAt(j).key # k
    <3>1. j - a \in D /\ a + (j - a) = j /\ ~(j - a <= i)
      BY <1>0, <2>2
    <3>2. events[j - a] = EventAt(j)
      BY <3>1
    <3> QED BY <2>1, <3>1, <3>2
  <2>6. hist[b][k] = hist[a + i][k]
    BY <2>2, <2>5, Untouched
  <2> QED BY <2>1, <2>4, <2>6
<1>2. ASSUME NEW k \in Keys, k \notin Touched(events, D)
      PROVE  hist[a][k] = hist[b][k]
  <2>1. ASSUME NEW j \in (a + 1)..b PROVE EventAt(j).key # k
    <3>1. j - a \in D /\ a + (j - a) = j
      BY <1>0
    <3>2. events[j - a] = EventAt(j)
      BY <3>1
    <3> QED BY <1>2, <3>1, <3>2 DEF Touched
  <2>2. a <= b
    BY <1>0
  <2> QED BY <2>1, <2>2, Untouched
<1>3. hist[b] \in State
  BY HistType
<1>4. hist[b] = [k \in Keys |-> hist[b][k]]
  BY <1>3 DEF State
<1>5. AfterEvents(hist[a], events, D) = [k \in Keys |-> hist[b][k]]
  BY <1>1, <1>2 DEF AfterEvents
<1> QED BY <1>4, <1>5

-----------------------------------------------------------------------------
(***************************************************************************)
(* The controller only adds to its history                                 *)
(***************************************************************************)

Grown ==
    /\ hist' \in Seq(State) /\ Len(hist') >= Len(hist)
    /\ \A n \in DOMAIN hist : n \in DOMAIN hist' /\ hist'[n] = hist[n]
    /\ base' \in Seq(Nat) /\ Len(base') >= Len(base)
    /\ \A i \in DOMAIN base : i \in DOMAIN base' /\ base'[i] = base[i]

LEMMA SameGrown ==
  ASSUME TypeOK, UNCHANGED << hist, base >>
  PROVE  Grown
  BY DEF TypeOK, Grown

LEMMA NowType ==
  ASSUME TypeOK, Aged, Based
  PROVE  /\ Now \in Nat /\ Now >= 1 /\ Now \in DOMAIN hist /\ DOMAIN hist = 1..Now
         /\ Server \in Nat /\ Server >= 1 /\ Server \in DOMAIN base /\ DOMAIN base = 1..Server
         /\ hist \in Seq(State) /\ base \in Seq(Nat)
  BY DEF TypeOK, Aged, Based, Now, Server

\* One document changes.
LEMMA ChangeAged ==
  ASSUME TypeOK, Aged, NEW k \in Keys, NEW doc \in Doc \cup {NoDoc},
         doc # hist[Now][k], doc = NoDoc \/ doc.rv = Now,
         hist' = Append(hist, [hist[Now] EXCEPT ![k] = doc])
  PROVE  /\ Aged' /\ hist' \in Seq(State) /\ Len(hist') = Len(hist) + 1
         /\ \A n \in DOMAIN hist : n \in DOMAIN hist' /\ hist'[n] = hist[n]
         /\ hist'[Now + 1][k] = doc
<1> DEFINE new == [hist[Now] EXCEPT ![k] = doc]
<1>0. /\ Now \in Nat /\ Now >= 1 /\ Now \in DOMAIN hist /\ DOMAIN hist = 1..Now
      /\ hist \in Seq(State)
  BY DEF TypeOK, Aged, Now
<1>1. hist[Now] \in State
  BY <1>0, HistType
<1>2. /\ new \in State /\ new[k] = doc
      /\ \A j \in Keys : j # k => new[j] = hist[Now][j]
  BY <1>1 DEF State
<1>3. hist' = Append(hist, new)
  OBVIOUS
<1> HIDE DEF new
<1>4. /\ hist' \in Seq(State) /\ Len(hist') = Now + 1 /\ hist'[Now + 1] = new
      /\ DOMAIN hist' = 1..(Now + 1)
      /\ \A n \in DOMAIN hist : n \in DOMAIN hist' /\ hist'[n] = hist[n]
  BY <1>0, <1>2, <1>3 DEF Now
<1>5. Now' = Now + 1
  BY <1>4 DEF Now
<1>6. NoDoc.rv = 0
  BY DEF NoDoc
<1>7. \A n \in DOMAIN hist' : \A j \in Keys : hist'[n][j].rv < n
  <2>1. ASSUME NEW j \in Keys PROVE new[j].rv < Now + 1
    <3>1. hist[Now][j].rv < Now /\ hist[Now][j] \in Doc \cup {NoDoc}
      BY <1>0, HistType DEF Aged
    <3>2. hist[Now][j].rv \in Nat
      BY <1>6, <3>1 DEF Doc
    <3>3. doc.rv < Now + 1
      BY <1>0, <1>6
    <3> QED BY <1>0, <1>2, <3>1, <3>2, <3>3
  <2>2. \A n \in DOMAIN hist' : n \in DOMAIN hist \/ n = Now + 1
    BY <1>0, <1>4
  <2> QED BY <1>4, <2>1, <2>2 DEF Aged
<1>8. \A n \in 2..(Now + 1) : \E j \in Keys :
        /\ hist'[n][j] # hist'[n - 1][j]
        /\ \A l \in Keys \ {j} : hist'[n][l] = hist'[n - 1][l]
  <2> SUFFICES ASSUME NEW n \in 2..(Now + 1)
               PROVE  \E j \in Keys : /\ hist'[n][j] # hist'[n - 1][j]
                                      /\ \A l \in Keys \ {j} : hist'[n][l] = hist'[n - 1][l]
    OBVIOUS
  <2>1. CASE n = Now + 1
    <3>1. n - 1 = Now /\ hist'[n - 1] = hist[Now] /\ hist'[n] = new
      BY <1>0, <1>4, <2>1
    <3> QED BY <1>2, <3>1
  <2>2. CASE n # Now + 1
    <3>1. n \in 2..Now /\ n \in DOMAIN hist /\ n - 1 \in DOMAIN hist
      BY <1>0, <2>2
    <3>2. hist'[n] = hist[n] /\ hist'[n - 1] = hist[n - 1]
      BY <1>4, <3>1
    <3> QED BY <3>1, <3>2 DEF Aged
  <2> QED BY <2>1, <2>2
<1>9. \A m, n \in DOMAIN hist' : m <= n =>
        \A j \in Keys : \/ hist'[n][j] = hist'[m][j]
                        \/ hist'[n][j] = NoDoc
                        \/ hist'[n][j].rv >= m
  <2> SUFFICES ASSUME NEW m \in DOMAIN hist', NEW n \in DOMAIN hist', m <= n, NEW j \in Keys
               PROVE  \/ hist'[n][j] = hist'[m][j]
                      \/ hist'[n][j] = NoDoc
                      \/ hist'[n][j].rv >= m
    OBVIOUS
  <2>1. CASE n \in DOMAIN hist
    <3>1. m \in DOMAIN hist
      BY <1>0, <1>4, <2>1
    <3>2. hist'[n] = hist[n] /\ hist'[m] = hist[m]
      BY <1>4, <2>1, <3>1
    <3> QED BY <2>1, <3>1, <3>2 DEF Aged
  <2>2. CASE n = Now + 1 /\ m = Now + 1
    BY <2>2
  <2>3. CASE n = Now + 1 /\ m # Now + 1
    <3>1. m \in DOMAIN hist /\ m <= Now /\ hist'[m] = hist[m] /\ hist'[n] = new
      BY <1>0, <1>4, <2>3
    <3>2. CASE j = k
      <4>1. doc = NoDoc \/ doc.rv >= m
        BY <1>0, <3>1
      <4> QED BY <1>2, <3>1, <3>2, <4>1
    <3>3. CASE j # k
      <4>1. new[j] = hist[Now][j]
        BY <1>2, <3>3
      <4>2. \/ hist[Now][j] = hist[m][j] \/ hist[Now][j] = NoDoc \/ hist[Now][j].rv >= m
        BY <1>0, <3>1 DEF Aged
      <4> QED BY <3>1, <4>1, <4>2
    <3> QED BY <3>2, <3>3
  <2>4. n \in DOMAIN hist \/ n = Now + 1
    BY <1>0, <1>4
  <2> QED BY <2>1, <2>2, <2>3, <2>4
<1>10. Aged'
  <2>1. Now' >= 1
    BY <1>0, <1>5
  <2>2. \A n \in 2..Now' : \E j \in Keys :
          /\ hist'[n][j] # hist'[n - 1][j]
          /\ \A l \in Keys \ {j} : hist'[n][l] = hist'[n - 1][l]
    BY <1>5, <1>8
  <2> QED BY <1>7, <1>9, <2>1, <2>2, Zenon DEF Aged
<1> QED BY <1>2, <1>4, <1>10 DEF Now

LEMMA EventSame ==
  ASSUME TypeOK, Grown, NEW n \in 2..Now
  PROVE  EventAt(n)' = EventAt(n)
<1>1. n \in DOMAIN hist /\ n - 1 \in DOMAIN hist
  BY DEF TypeOK, Now
<1>2. hist'[n] = hist[n] /\ hist'[n - 1] = hist[n - 1]
  BY <1>1 DEF Grown
<1> QED BY <1>2 DEF EventAt

LEMMA GrownNow ==
  ASSUME TypeOK, Aged, Based, Grown
  PROVE  /\ Now' \in Nat /\ Now' >= Now /\ 1..Now \subseteq 1..Now'
         /\ Server' \in Nat /\ Server' >= Server /\ 1..Server \subseteq 1..Server'
  BY NowType DEF Grown, Now, Server

LEMMA EndSame ==
  ASSUME TypeOK, Grown, NEW m, m.server \in DOMAIN base
  PROVE  End(m)' = End(m)
  BY DEF Grown, End

LEMMA EndType ==
  ASSUME TypeOK, Aged, Based, NEW m \in Messages, Sound(m), Carries(m)
  PROVE  /\ m.server \in DOMAIN base /\ m.server \in Nat /\ m.server >= 1
         /\ m.server <= Server /\ End(m) \in Nat
         /\ End(m) \in DOMAIN hist /\ End(m) <= Now /\ End(m) >= 1
  BY NowType DEF Sound

\* A sound message stays sound.
LEMMA SoundKept ==
  ASSUME TypeOK, Aged, Based, Grown, NEW m \in Messages, Sound(m)
  PROVE  Sound(m)' /\ (Carries(m) => End(m)' = End(m))
<1>0. Carries(m)' <=> Carries(m)
  BY DEF Carries
<1> SUFFICES ASSUME Carries(m) PROVE Sound(m)' /\ End(m)' = End(m)
  BY <1>0 DEF Sound
<1>1. /\ m.server \in DOMAIN base /\ End(m) \in DOMAIN hist /\ End(m) \in Nat
      /\ m.server \in 1..Server /\ End(m) \in 1..Now
  BY EndType, NowType DEF Sound
<1>2. End(m)' = End(m)
  BY <1>1, EndSame
<1>3. Start(m)' = Start(m)
  BY <1>2 DEF Start
<1>4. m.server \in 1..Server' /\ End(m) \in 1..Now'
  BY <1>1, GrownNow
<1>5. m.type = "list" => m.state = hist'[End(m)]
  BY <1>1 DEF Sound, Grown
<1>6. ASSUME m.type = "events", NEW i \in DOMAIN m.events
      PROVE  m.events[i] = EventAt(Start(m) + i)'
  <2>1. m.events \in Seq(Events)
    BY DEF Messages
  <2>2. PICK n : n = Start(m) + i
    OBVIOUS
  <2>3. n \in 2..Now
    <3>1. Len(m.events) \in Nat /\ i \in Nat /\ i >= 1 /\ i <= Len(m.events)
      BY <2>1
    <3>2. End(m) \in Nat /\ End(m) <= Now /\ Now \in Nat /\ Start(m) >= 1
      BY <1>1, <1>6, NowType DEF Sound
    <3> QED BY <2>2, <3>1, <3>2 DEF Start
  <2>4. EventAt(n)' = EventAt(n)
    BY <2>3, EventSame
  <2>5. m.events[i] = EventAt(n)
    BY <1>6, <2>2 DEF Sound
  <2>6. EventAt(Start(m) + i)' = EventAt(n)'
    BY <1>3, <2>2 DEF EventAt
  <2> QED BY <2>4, <2>5, <2>6
<1>7. m.type = "events" => Start(m) >= 1
  BY DEF Sound
<1>8. Sound(m)'
  BY <1>2, <1>3, <1>4, <1>5, <1>6, <1>7 DEF Sound
<1> QED BY <1>2, <1>8

-----------------------------------------------------------------------------
(***************************************************************************)
(* The line of messages of a session                                       *)
(***************************************************************************)

\* The line is as before, or without its first message.
LineMoves(s, off) ==
    /\ off \in {0, 1} /\ off <= Size(s)
    /\ Size(s)' = Size(s) - off
    /\ \A i \in 1..(Size(s) - off) : At(s, i)' = At(s, i + off)

LEMMA LineType ==
  ASSUME TypeOK, NEW s \in Sessions
  PROVE  /\ Size(s) \in Nat
         /\ \A i \in 1..Size(s) : At(s, i) \in Messages
<1>1. stream[s] \in Seq(Messages) /\ Len(stream[s]) \in Nat /\ sess[s] \in SessionRecord
  BY DEF TypeOK
<1>2. sess[s].msg \in Messages
  BY <1>1 DEF SessionRecord
<1>3. Held(s) \in {0, 1}
  BY DEF Held
<1>4. Size(s) = Held(s) + Len(stream[s])
  BY DEF Size
<1>5. ASSUME NEW i \in 1..Size(s) PROVE At(s, i) \in Messages
  <2>1. CASE i <= Held(s)
    BY <1>2, <2>1 DEF At
  <2>2. CASE ~(i <= Held(s))
    <3>1. i - Held(s) \in 1..Len(stream[s])
      BY <1>1, <1>3, <1>4, <2>2
    <3>2. stream[s][i - Held(s)] \in Messages
      BY <1>1, <3>1
    <3> QED BY <2>2, <3>2 DEF At
  <2> QED BY <2>1, <2>2
<1> QED BY <1>1, <1>3, <1>4, <1>5

LEMMA MessageType ==
  ASSUME NEW m \in Messages
  PROVE  /\ m.rid \in Nat /\ m.server \in Nat /\ m.version \in Nat /\ m.state \in State
         /\ m.events \in Seq(Events) /\ Len(m.events) \in Nat /\ m.type \in Types
<1>1. m.events \in Seq(Events)
  BY DEF Messages
<1>2. m.rid \in Nat /\ m.server \in Nat /\ m.version \in Nat
  BY DEF Messages
<1>3. m.state \in State /\ m.type \in Types
  BY DEF Messages
<1> QED BY <1>1, <1>2, <1>3

\* What the messages of a line say while the controller moves on.
LEMMA LineSame ==
  ASSUME TypeOK, Aged, Based, Grown, NEW s \in Sessions, Line(s),
         NEW off, LineMoves(s, off), NEW i \in 1..Size(s)'
  PROVE  /\ i \in Nat /\ off \in {0, 1} /\ Size(s) \in Nat /\ i + off \in 1..Size(s)
         /\ At(s, i)' = At(s, i + off) /\ At(s, i + off) \in Messages
         /\ Sound(At(s, i))' /\ Sound(At(s, i + off))
         /\ Carries(At(s, i))' <=> Carries(At(s, i + off))
         /\ Carries(At(s, i + off)) =>
               /\ End(At(s, i))' = End(At(s, i + off))
               /\ Start(At(s, i))' = Start(At(s, i + off))
<1>1. /\ i \in Nat /\ off \in {0, 1} /\ Size(s) \in Nat /\ i + off \in 1..Size(s)
      /\ i \in 1..(Size(s) - off)
  BY LineType DEF LineMoves
<1>2. At(s, i)' = At(s, i + off)
  BY <1>1 DEF LineMoves
<1>3. PICK m : m = At(s, i + off)
  OBVIOUS
<1>4. m \in Messages
  BY <1>1, <1>3, LineType
<1>5. Sound(m)
  BY <1>1, <1>3 DEF Line
<1>6. Sound(m)' /\ (Carries(m) => End(m)' = End(m))
  BY <1>4, <1>5, SoundKept
<1>7. At(s, i)' = m
  BY <1>2, <1>3
<1>8. /\ Sound(At(s, i))' <=> Sound(m)'
      /\ Carries(At(s, i))' <=> Carries(m)
      /\ End(At(s, i))' = End(m)'
      /\ Start(At(s, i))' = Start(m)'
  <2>1. Carries(At(s, i))' <=> Carries(m)
    BY <1>7 DEF Carries
  <2>2. End(At(s, i))' = End(m)'
    BY <1>7 DEF End
  <2>3. Start(At(s, i))' = Start(m)'
    BY <1>7, <2>2 DEF Start
  <2>4. Sound(At(s, i))' <=> Sound(m)'
    BY <1>7 DEF Sound, Carries, End, Start
  <2> QED BY <2>1, <2>2, <2>3, <2>4
<1>9. Carries(m) => Start(m)' = Start(m)
  BY <1>6 DEF Start
<1> QED BY <1>1, <1>2, <1>3, <1>4, <1>5, <1>6, <1>8, <1>9

LEMMA LinePasses ==
  ASSUME TypeOK, Aged, Based, Grown, NEW s \in Sessions, Line(s),
         NEW off, LineMoves(s, off), sess'[s].rid \in Nat, sess'[s].rid >= sess[s].rid
  PROVE  Line(s)'
<1>0. sess[s].rid \in Nat
  BY DEF TypeOK, SessionRecord
<1>1. ASSUME NEW i \in 1..Size(s)'
      PROVE  Sound(At(s, i))' /\ At(s, i)'.rid <= sess'[s].rid
  <2>1. /\ i + off \in 1..Size(s) /\ At(s, i)' = At(s, i + off) /\ At(s, i + off) \in Messages
        /\ Sound(At(s, i))'
    BY LineSame
  <2>2. At(s, i + off).rid <= sess[s].rid
    BY <2>1 DEF Line
  <2>3. At(s, i + off).rid \in Nat
    BY <2>1, MessageType
  <2> QED BY <1>0, <2>1, <2>2, <2>3
<1>2. ASSUME NEW i \in 1..Size(s)', NEW j \in 1..Size(s)', i < j
      PROVE  /\ At(s, i)'.rid <= At(s, j)'.rid
             /\ Carries(At(s, i))' /\ Carries(At(s, j))' =>
                   /\ End(At(s, i))' <= End(At(s, j))'
                   /\ At(s, i)'.server <= At(s, j)'.server
  <2>1. /\ i \in Nat /\ off \in {0, 1} /\ i + off \in 1..Size(s)
        /\ At(s, i)' = At(s, i + off)
        /\ Carries(At(s, i))' <=> Carries(At(s, i + off))
        /\ Carries(At(s, i + off)) => End(At(s, i))' = End(At(s, i + off))
    BY LineSame
  <2>2. /\ j \in Nat /\ j + off \in 1..Size(s)
        /\ At(s, j)' = At(s, j + off)
        /\ Carries(At(s, j))' <=> Carries(At(s, j + off))
        /\ Carries(At(s, j + off)) => End(At(s, j))' = End(At(s, j + off))
    BY LineSame
  <2>3. i + off < j + off
    BY <1>2, <2>1, <2>2
  <2>4. /\ At(s, i + off).rid <= At(s, j + off).rid
        /\ Carries(At(s, i + off)) /\ Carries(At(s, j + off)) =>
              /\ End(At(s, i + off)) <= End(At(s, j + off))
              /\ At(s, i + off).server <= At(s, j + off).server
    BY <2>1, <2>2, <2>3 DEF Line
  <2> QED BY <2>1, <2>2, <2>4
<1> QED BY <1>1, <1>2 DEF Line

\* Where the session is the one that feeds the cache, it was before, and the
\* cache is where it was.
SameReader(s) ==
    ~late' /\ current' = s =>
        /\ ~late /\ current = s
        /\ cache'.server = cache.server /\ cache'.version = cache.version

Reading == {"run", "apply", "publish"}

\* A session that has gone on without a new request.
Passes(s, off) ==
    /\ LineMoves(s, off) /\ SameReader(s)
    /\ sess'[s].rid = sess[s].rid /\ sess'[s].server = sess[s].server
    /\ sess[s].terminated => sess'[s].terminated
    /\ sess'[s].pc \in Active => sess[s].pc \in Active
    /\ sess'[s].pc \in Reading => sess[s].pc \in Reading
    /\ off = 1 /\ sess'[s].pc \in Reading /\ ~sess'[s].terminated => Fresh(s, 1)
    /\ watch'[s] \in {watch[s], NoWatch}

LEMMA CacheEndSame ==
  ASSUME TypeOK, Aged, Based, Grown, cache'.server = cache.server,
         cache'.version = cache.version, cache.server # 0
  PROVE  CacheEnd' = CacheEnd
<1>1. cache.server \in DOMAIN base
  BY NowType DEF TypeOK, Cache
<1> QED BY <1>1 DEF CacheEnd, Grown

LEMMA FeedsPasses ==
  ASSUME TypeOK, Aged, Based, Grown, NEW s \in Sessions, Line(s), Feeds(s),
         NEW off, LineMoves(s, off), SameReader(s),
         sess'[s].server = sess[s].server,
         sess'[s].pc \in Active => sess[s].pc \in Active
  PROVE  Feeds(s)'
<1> SUFFICES ASSUME ~late', current' = s, sess'[s].pc \in Active
             PROVE  /\ sess'[s].server = cache'.server
                    /\ \A i \in 1..Size(s)' : Carries(At(s, i))' =>
                          /\ cache'.server <= At(s, i)'.server
                          /\ cache'.server # 0 => CacheEnd' <= End(At(s, i))'
  BY DEF Feeds
<1>1. /\ ~late /\ current = s
      /\ cache'.server = cache.server /\ cache'.version = cache.version
  BY DEF SameReader
<1>2. cache.server # 0 => CacheEnd' = CacheEnd
  BY <1>1, CacheEndSame
<1>3. /\ sess[s].server = cache.server
      /\ \A i \in 1..Size(s) : Carries(At(s, i)) =>
            /\ cache.server <= At(s, i).server
            /\ cache.server # 0 => CacheEnd <= End(At(s, i))
  BY <1>1 DEF Feeds
<1>4. ASSUME NEW i \in 1..Size(s)', Carries(At(s, i))'
      PROVE  /\ cache'.server <= At(s, i)'.server
             /\ cache'.server # 0 => CacheEnd' <= End(At(s, i))'
  <2>1. /\ i + off \in 1..Size(s)
        /\ At(s, i)' = At(s, i + off)
        /\ Carries(At(s, i + off))
        /\ End(At(s, i))' = End(At(s, i + off))
    BY <1>4, LineSame
  <2> QED BY <1>1, <1>2, <1>3, <2>1
<1> QED BY <1>1, <1>3, <1>4

\* What the reader has when it comes to a message, before and after.
LEMMA KnownSame ==
  ASSUME TypeOK, Aged, Based, Grown, NEW s \in Sessions, Line(s),
         NEW off, LineMoves(s, off), off = 1 => Fresh(s, 1),
         sess'[s].rid = sess[s].rid,
         cache'.server = cache.server, cache'.version = cache.version,
         NEW i \in 0..Size(s)'
  PROVE  /\ Known(s, i)' <=> Known(s, i + off)
         /\ Known(s, i) ' =>
              /\ KnownServer(s, i)' = KnownServer(s, i + off)
              /\ KnownServer(s, i + off) # 0 => KnownEnd(s, i)' = KnownEnd(s, i + off)
<1>0. off \in {0, 1} /\ Size(s) \in Nat /\ Size(s)' = Size(s) - off /\ off <= Size(s)
  BY LineType DEF LineMoves
<1>1. CASE i = 0
  <2>1. i + off = off
    BY <1>0, <1>1
  <2>2. Fresh(s, i)' /\ Fresh(s, off)
    BY <1>0, <1>1 DEF Fresh
  <2>3. /\ KnownServer(s, i)' = cache'.server /\ KnownServer(s, off) = cache.server
        /\ KnownEnd(s, i)' = CacheEnd' /\ KnownEnd(s, off) = CacheEnd
    BY <2>2 DEF KnownServer, KnownEnd
  <2>4. Known(s, i)' /\ Known(s, off)
    BY <2>2 DEF Known
  <2>5. cache.server # 0 => CacheEnd' = CacheEnd
    BY CacheEndSame
  <2> QED BY <2>1, <2>3, <2>4, <2>5
<1>2. CASE i # 0
  <2>1. i \in 1..Size(s)'
    BY <1>0, <1>2
  <2>2. /\ At(s, i)' = At(s, i + off)
        /\ Carries(At(s, i))' <=> Carries(At(s, i + off))
        /\ Carries(At(s, i + off)) => End(At(s, i))' = End(At(s, i + off))
    BY <2>1, LineSame
  <2>3. i + off # 0
    BY <1>0, <1>2
  <2>4. Fresh(s, i)' <=> Fresh(s, i + off)
    BY <1>2, <2>2, <2>3 DEF Fresh
  <2>5. Known(s, i)' <=> Known(s, i + off)
    BY <2>2, <2>4 DEF Known
  <2>6. KnownServer(s, i)' = KnownServer(s, i + off)
    BY <2>2, <2>4 DEF KnownServer
  <2>7. CASE Fresh(s, i + off)
    <3>1. /\ KnownServer(s, i + off) = cache.server
          /\ KnownEnd(s, i)' = CacheEnd' /\ KnownEnd(s, i + off) = CacheEnd
      BY <2>4, <2>7 DEF KnownServer, KnownEnd
    <3>2. cache.server # 0 => CacheEnd' = CacheEnd
      BY CacheEndSame
    <3> QED BY <2>5, <2>6, <3>1, <3>2
  <2>8. CASE ~Fresh(s, i + off)
    <3>1. Known(s, i + off) => Carries(At(s, i + off))
      BY <2>8 DEF Known
    <3>2. Known(s, i + off) => KnownEnd(s, i)' = KnownEnd(s, i + off)
      BY <2>2, <2>4, <2>8, <3>1 DEF KnownEnd
    <3> QED BY <2>5, <2>6, <3>2
  <2> QED BY <2>7, <2>8
<1> QED BY <1>1, <1>2

LEMMA ChainedPasses ==
  ASSUME TypeOK, Aged, Based, Grown, NEW s \in Sessions, Line(s), Chained(s),
         NEW off, Passes(s, off)
  PROVE  Chained(s)'
<1> SUFFICES ASSUME ~late', current' = s, sess'[s].pc \in Reading, ~sess'[s].terminated
             PROVE  Chained(s)'
  BY DEF Chained, Reading
<1>0. /\ LineMoves(s, off) /\ off \in {0, 1} /\ Size(s) \in Nat /\ Size(s)' = Size(s) - off
      /\ off <= Size(s)
  BY LineType DEF Passes, LineMoves
<1>1. /\ ~late /\ current = s /\ sess'[s].rid = sess[s].rid
      /\ cache'.server = cache.server /\ cache'.version = cache.version
  BY DEF Passes, SameReader
<1>2. sess[s].pc \in Reading /\ ~sess[s].terminated
  BY DEF Passes
<1>3. off = 1 => Fresh(s, 1)
  BY DEF Passes
<1>4. /\ \A i \in 1..Size(s) :
              At(s, i).rid = sess[s].rid /\ At(s, i).type = "events" /\ Known(s, i - 1) =>
                /\ KnownServer(s, i - 1) # 0
                /\ At(s, i).server = KnownServer(s, i - 1) =>
                      Start(At(s, i)) = KnownEnd(s, i - 1)
      /\ watch[s].on /\ ~watch[s].pending /\ Known(s, Size(s)) =>
              /\ KnownServer(s, Size(s)) # 0
              /\ KnownServer(s, Size(s)) <= watch[s].server
              /\ watch[s].server = KnownServer(s, Size(s)) => watch[s].at = KnownEnd(s, Size(s))
      /\ watch[s].on /\ watch[s].pending =>
              /\ \A i \in 1..Size(s) : At(s, i).rid # sess[s].rid
              /\ watch[s].from \in {0, cache.version}
  BY <1>1, <1>2 DEF Chained, Reading
<1>5. ASSUME NEW i \in 1..Size(s)', At(s, i)'.rid = sess'[s].rid, At(s, i)'.type = "events",
             Known(s, i - 1)'
      PROVE  /\ KnownServer(s, i - 1)' # 0
             /\ At(s, i)'.server = KnownServer(s, i - 1)' =>
                   Start(At(s, i))' = KnownEnd(s, i - 1)'
  <2>1. /\ i + off \in 1..Size(s) /\ i \in Nat
        /\ At(s, i)' = At(s, i + off)
        /\ Carries(At(s, i + off)) => Start(At(s, i))' = Start(At(s, i + off))
    BY <1>0, LineSame
  <2>2. Carries(At(s, i + off))
    BY <1>5, <2>1 DEF Carries
  <2>3. PICK j : j = i - 1
    OBVIOUS
  <2>4. j \in 0..Size(s)' /\ j + off = i + off - 1
    BY <1>0, <2>1, <2>3
  <2>5. Known(s, j)'
    BY <1>5, <2>3
  <2>6. /\ Known(s, j + off)
        /\ KnownServer(s, j)' = KnownServer(s, j + off)
        /\ KnownServer(s, j + off) # 0 => KnownEnd(s, j)' = KnownEnd(s, j + off)
    BY <1>0, <1>1, <1>3, <2>4, <2>5, KnownSame
  <2>7. /\ KnownServer(s, j + off) # 0
        /\ At(s, i + off).server = KnownServer(s, j + off) =>
              Start(At(s, i + off)) = KnownEnd(s, j + off)
    <3>1. PICK n \in 1..Size(s) : n = i + off
      BY <2>1
    <3>2. n - 1 = j + off
      BY <1>0, <2>1, <2>4, <3>1
    <3>3. At(s, n).rid = sess[s].rid /\ At(s, n).type = "events" /\ Known(s, n - 1)
      BY <1>1, <1>5, <2>1, <2>6, <3>1, <3>2
    <3>4. /\ KnownServer(s, n - 1) # 0
          /\ At(s, n).server = KnownServer(s, n - 1) => Start(At(s, n)) = KnownEnd(s, n - 1)
      BY <1>4, <3>3
    <3> QED BY <3>1, <3>2, <3>4
  <2>8. /\ KnownServer(s, i - 1)' = KnownServer(s, j + off)
        /\ KnownEnd(s, i - 1)' = KnownEnd(s, j + off)
    BY <2>3, <2>6, <2>7
  <2> QED BY <2>1, <2>2, <2>7, <2>8
<1>6. NoWatch.on = FALSE
  BY DEF NoWatch
<1>7. watch'[s].on => watch'[s] = watch[s]
  BY <1>6 DEF Passes
<1>8. ASSUME watch'[s].on, ~watch'[s].pending, Known(s, Size(s))'
      PROVE  /\ KnownServer(s, Size(s))' # 0
             /\ KnownServer(s, Size(s))' <= watch'[s].server
             /\ watch'[s].server = KnownServer(s, Size(s))' =>
                   watch'[s].at = KnownEnd(s, Size(s))'
  <2>1. PICK j : j = Size(s)'
    OBVIOUS
  <2>2. j \in 0..Size(s)' /\ j + off = Size(s)
    BY <1>0, <2>1
  <2>3. /\ Known(s, j)' <=> Known(s, Size(s))'
        /\ KnownServer(s, j)' = KnownServer(s, Size(s))'
        /\ KnownEnd(s, j)' = KnownEnd(s, Size(s))'
    BY <2>1
  <2>4. /\ Known(s, Size(s))
        /\ KnownServer(s, j)' = KnownServer(s, Size(s))
        /\ KnownServer(s, Size(s)) # 0 => KnownEnd(s, j)' = KnownEnd(s, Size(s))
    BY <1>0, <1>1, <1>3, <1>8, <2>2, <2>3, KnownSame
  <2> QED BY <1>4, <1>7, <1>8, <2>3, <2>4
<1>9. ASSUME watch'[s].on, watch'[s].pending
      PROVE  /\ \A i \in 1..Size(s)' : At(s, i)'.rid # sess'[s].rid
             /\ watch'[s].from \in {0, cache'.version}
  <2>1. ASSUME NEW i \in 1..Size(s)' PROVE At(s, i)'.rid # sess'[s].rid
    <3>1. i + off \in 1..Size(s) /\ At(s, i)' = At(s, i + off)
      BY <1>0, LineSame
    <3> QED BY <1>1, <1>4, <1>7, <1>9, <3>1
  <2> QED BY <1>1, <1>4, <1>7, <1>9, <2>1
<1> QED BY <1>5, <1>8, <1>9 DEF Chained

LEMMA Passed ==
  ASSUME TypeOK, Aged, Based, Grown, NEW s \in Sessions, Follows(s), TypeOK',
         NEW off, Passes(s, off), Placed(s)'
  PROVE  Follows(s)'
<1>1. sess'[s].rid \in Nat
  BY DEF TypeOK, SessionRecord
<1>2. Line(s)'
  BY <1>1, LinePasses DEF Passes, Follows
<1>3. Feeds(s)'
  BY FeedsPasses DEF Passes, Follows
<1>4. Chained(s)'
  BY ChainedPasses DEF Follows
<1> QED BY <1>2, <1>3, <1>4 DEF Follows

\* A session another actor's step does not touch.
Untroubled(s) ==
    /\ sess'[s] = sess[s] /\ stream'[s] = stream[s] /\ watch'[s] \in {watch[s], NoWatch}
    /\ SameReader(s) /\ (current' = s => current = s)
    /\ watch'[s].on => current' = current

LEMMA SameLine ==
  ASSUME TypeOK, NEW s \in Sessions, sess'[s].pc = sess[s].pc, sess'[s].msg = sess[s].msg,
         stream'[s] = stream[s]
  PROVE  LineMoves(s, 0)
<1>1. Held(s)' = Held(s)
  BY DEF Held
<1>2. Size(s)' = Size(s)
  BY <1>1 DEF Size
<1>3. \A i : At(s, i)' = At(s, i)
  BY <1>1 DEF At
<1>4. Size(s) \in Nat
  BY LineType
<1>5. \A i \in 1..Size(s) : i + 0 = i
  OBVIOUS
<1> QED BY <1>2, <1>3, <1>4, <1>5 DEF LineMoves

LEMMA PlacedSame ==
  ASSUME TypeOK, Aged, Based, Grown, NEW s \in Sessions, Placed(s), Untroubled(s)
  PROVE  Placed(s)'
<1>1. NoWatch.on = FALSE
  BY DEF NoWatch
<1>2. watch'[s].on => watch'[s] = watch[s] /\ current' = current
  BY <1>1 DEF Untroubled
<1>3. 1..Now \subseteq 1..Now' /\ 1..Server \subseteq 1..Server'
  BY GrownNow
<1>4. ASSUME watch'[s].on, ~watch'[s].pending
      PROVE  watch'[s].server \in 1..Server' /\ watch'[s].at \in 1..Now'
  BY <1>2, <1>3, <1>4 DEF Placed
<1>5. watch'[s].on => /\ current' = s /\ sess'[s].pc \in Active
                      /\ watch'[s].rid = sess'[s].rid
  BY <1>2 DEF Placed, Untroubled
<1>6. /\ sess'[s].pc = "idle" => sess'[s] = NoSession /\ stream'[s] = << >> /\ current' # s
      /\ sess'[s].pc = "opening" => stream'[s] = << >>
      /\ sess'[s].pc = "offline" => current' # s
  BY DEF Placed, Untroubled
<1> QED BY <1>4, <1>5, <1>6 DEF Placed

LEMMA Bystander ==
  ASSUME TypeOK, Aged, Based, Grown, NEW s \in Sessions, Follows(s), TypeOK', Untroubled(s)
  PROVE  Follows(s)'
<1>1. Placed(s)'
  BY PlacedSame DEF Follows
<1>2. LineMoves(s, 0)
  BY SameLine DEF Untroubled
<1>3. Passes(s, 0)
  BY <1>2 DEF Passes, Untroubled
<1> QED BY <1>1, <1>3, Passed

-----------------------------------------------------------------------------
(***************************************************************************)
(* A session that watches again, one that ends, one that begins            *)
(***************************************************************************)

LEMMA Rewatched ==
  ASSUME TypeOK, Aged, Based, Grown, NEW s \in Sessions, Follows(s), TypeOK',
         NEW off, LineMoves(s, off), SameReader(s), sess[s].pc \in Active,
         sess'[s].pc = "run", sess'[s].rid = sess[s].rid + 1,
         sess'[s].server = sess[s].server, current' = current,
         watch'[s] = IF watch[s].on THEN Asked(sess[s].rid + 1, 0) ELSE NoWatch
  PROVE  Follows(s)'
<1>0. sess[s].rid \in Nat /\ sess'[s].rid \in Nat
  BY DEF TypeOK, SessionRecord
<1>1. Line(s)'
  BY <1>0, LinePasses DEF Follows
<1>2. Feeds(s)'
  <2>1. sess'[s].pc \in Active => sess[s].pc \in Active
    OBVIOUS
  <2> QED BY <2>1, FeedsPasses DEF Follows
<1>3. /\ watch'[s].on => /\ watch[s].on /\ watch'[s].pending /\ watch'[s].rid = sess'[s].rid
                         /\ watch'[s].from = 0
  BY DEF Asked, NoWatch
<1>4. Placed(s)'
  BY <1>3 DEF Follows, Placed, Active
<1>5. \A i \in 1..Size(s)' : At(s, i)'.rid # sess'[s].rid
  <2> SUFFICES ASSUME NEW i \in 1..Size(s)' PROVE At(s, i)'.rid # sess'[s].rid
    OBVIOUS
  <2>1. /\ i + off \in 1..Size(s) /\ At(s, i)' = At(s, i + off) /\ At(s, i + off) \in Messages
    BY LineSame DEF Follows
  <2>2. At(s, i + off).rid <= sess[s].rid
    BY <2>1 DEF Line, Follows
  <2>3. At(s, i + off).rid \in Nat
    BY <2>1, MessageType
  <2> QED BY <1>0, <2>1, <2>2, <2>3
<1>6. Chained(s)'
  <2>1. watch'[s].on => watch'[s].pending /\ watch'[s].from \in {0, cache'.version}
    BY <1>3
  <2> QED BY <1>5, <2>1 DEF Chained
<1> QED BY <1>1, <1>2, <1>4, <1>6 DEF Follows

LEMMA EmptyLine ==
  ASSUME NEW s \in Sessions, sess'[s].pc # "apply", stream'[s] = << >>
  PROVE  Size(s)' = 0 /\ Line(s)'
<1>1. Size(s)' = 0
  BY DEF Size, Held
<1>2. 1..Size(s)' = {}
  BY <1>1
<1> QED BY <1>1, <1>2 DEF Line

LEMMA Ended ==
  ASSUME NEW s \in Sessions, sess'[s].pc \in {"done", "offline", "gone"}, stream'[s] = << >>,
         watch'[s] = NoWatch, sess'[s].pc = "offline" => current' # s
  PROVE  Follows(s)'
<1>1. Line(s)'
  BY EmptyLine
<1>2. ~watch'[s].on
  BY DEF NoWatch
<1>3. Placed(s)'
  BY <1>2 DEF Placed
<1>4. Feeds(s)' /\ Chained(s)'
  BY DEF Feeds, Chained, Active
<1> QED BY <1>1, <1>3, <1>4 DEF Follows

LEMMA Opening ==
  ASSUME NEW s \in Sessions, sess'[s].pc = "opening", stream'[s] = << >>,
         watch'[s] = NoWatch
  PROVE  Follows(s)'
<1>1. Line(s)'
  BY EmptyLine
<1>2. ~watch'[s].on
  BY DEF NoWatch
<1>3. Placed(s)'
  BY <1>2 DEF Placed
<1>4. Feeds(s)' /\ Chained(s)'
  BY DEF Feeds, Chained, Active
<1> QED BY <1>1, <1>3, <1>4 DEF Follows

LEMMA Begun ==
  ASSUME NEW s \in Sessions, sess'[s].pc = "run", stream'[s] = << >>, sess'[s].rid = 1,
         sess'[s].server = cache.server, cache' = cache, current' = current,
         watch'[s] = IF current = s THEN Asked(1, cache.version) ELSE NoWatch
  PROVE  Follows(s)'
<1>1. Size(s)' = 0 /\ Line(s)'
  BY EmptyLine
<1>2. /\ watch'[s].on => current = s /\ watch'[s].pending
      /\ watch'[s].on => watch'[s].rid = 1 /\ watch'[s].from = cache.version
  BY DEF Asked, NoWatch
<1>3. Placed(s)'
  BY <1>2 DEF Placed, Active
<1>4. \A i \in 1..Size(s)' : FALSE
  BY <1>1
<1>5. Feeds(s)'
  BY <1>4 DEF Feeds
<1>6. Chained(s)'
  BY <1>2, <1>4 DEF Chained
<1> QED BY <1>1, <1>3, <1>5, <1>6 DEF Follows

-----------------------------------------------------------------------------
(***************************************************************************)
(* A session that brings the cache to where the message it holds leads     *)
(***************************************************************************)

LEMMA Stored ==
  ASSUME TypeOK, Aged, Based, NEW s \in Sessions, Follows(s), TypeOK',
         UNCHANGED << hist, base, watch, current >>,
         LineMoves(s, 1), sess[s].pc = "apply", sess'[s].pc = "publish",
         NEW m, m = At(s, 1), Carries(m), m.rid = sess[s].rid, ~sess[s].terminated,
         cache'.server = m.server, cache'.version = m.version, sess'[s].server = m.server,
         sess'[s].rid = sess[s].rid, ~late' => ~late
  PROVE  Follows(s)' /\ CacheEnd' = End(m)
<1>0. Grown
  BY SameGrown
<1>1. sess'[s].rid \in Nat /\ sess[s].rid \in Nat
  BY DEF TypeOK, SessionRecord
<1>2. Line(s)'
  BY <1>0, <1>1, LinePasses DEF Follows
<1>3. Placed(s)'
  BY DEF Placed, Follows, Active, Now, Server
<1>4. /\ Size(s) \in Nat /\ Size(s)' = Size(s) - 1 /\ 1 <= Size(s) /\ 1 \in 1..Size(s)
  BY LineType DEF LineMoves
<1>5. m \in Messages /\ m.server \in Nat /\ Sound(m)
  BY <1>4, LineType, MessageType DEF Follows, Line
<1>6. CacheEnd' = End(m)
  BY DEF CacheEnd, End
<1>7. End(m) \in Nat /\ m.server >= 1
  BY <1>5, EndType
<1>8. ASSUME NEW i \in 1..Size(s)'
      PROVE  /\ i \in Nat /\ i + 1 \in 1..Size(s) /\ At(s, i)' = At(s, i + 1)
             /\ At(s, i)'.rid = sess[s].rid
             /\ Carries(At(s, i))' <=> Carries(At(s, i + 1))
             /\ Carries(At(s, i + 1)) =>
                  /\ End(At(s, i))' = End(At(s, i + 1))
                  /\ Start(At(s, i))' = Start(At(s, i + 1))
                  /\ End(m) <= End(At(s, i + 1)) /\ m.server <= At(s, i + 1).server
  <2>1. /\ i \in Nat /\ i + 1 \in 1..Size(s) /\ At(s, i)' = At(s, i + 1)
        /\ At(s, i + 1) \in Messages
        /\ Carries(At(s, i))' <=> Carries(At(s, i + 1))
        /\ Carries(At(s, i + 1)) =>
              /\ End(At(s, i))' = End(At(s, i + 1))
              /\ Start(At(s, i))' = Start(At(s, i + 1))
    BY <1>0, LineSame DEF Follows
  <2>2. 1 < i + 1
    BY <2>1, <1>8, <1>4
  <2>3. /\ m.rid <= At(s, i + 1).rid /\ At(s, i + 1).rid <= sess[s].rid
        /\ Carries(At(s, i + 1)) =>
              End(m) <= End(At(s, i + 1)) /\ m.server <= At(s, i + 1).server
    BY <1>4, <2>1, <2>2 DEF Follows, Line
  <2>4. At(s, i + 1).rid \in Nat
    BY <2>1, MessageType
  <2>5. At(s, i + 1).rid = sess[s].rid
    BY <1>1, <2>3, <2>4
  <2> QED BY <2>1, <2>3, <2>5
<1>9. Feeds(s)'
  <2>1. ASSUME NEW i \in 1..Size(s)', Carries(At(s, i))'
        PROVE  cache'.server <= At(s, i)'.server /\ CacheEnd' <= End(At(s, i))'
    BY <1>6, <1>8, <2>1
  <2> QED BY <2>1 DEF Feeds
<1>10. ASSUME NEW i \in 0..Size(s)'
       PROVE  /\ Known(s, i)' <=> Known(s, i + 1)
              /\ Known(s, i)' =>
                   /\ KnownServer(s, i)' = KnownServer(s, i + 1)
                   /\ KnownEnd(s, i)' = KnownEnd(s, i + 1)
  <2>1. CASE i = 0
    <3>1. Fresh(s, i)' /\ i + 1 = 1
      BY <2>1 DEF Fresh
    <3>2. ~Fresh(s, 1)
      BY DEF Fresh
    <3>3. Known(s, i)' /\ Known(s, 1)
      BY <3>1 DEF Known
    <3>4. KnownServer(s, i)' = m.server /\ KnownServer(s, 1) = m.server
      BY <3>1, <3>2 DEF KnownServer
    <3>5. KnownEnd(s, i)' = End(m) /\ KnownEnd(s, 1) = End(m)
      BY <1>6, <3>1, <3>2 DEF KnownEnd
    <3> QED BY <3>1, <3>3, <3>4, <3>5
  <2>2. CASE i # 0
    <3>1. i \in 1..Size(s)' /\ i + 1 # 0
      BY <1>4, <2>2
    <3>2. /\ At(s, i)' = At(s, i + 1) /\ At(s, i)'.rid = sess[s].rid
          /\ Carries(At(s, i))' <=> Carries(At(s, i + 1))
          /\ Carries(At(s, i + 1)) => End(At(s, i))' = End(At(s, i + 1))
      BY <1>8, <3>1
    <3>3. ~Fresh(s, i)' /\ ~Fresh(s, i + 1)
      BY <2>2, <3>1, <3>2 DEF Fresh
    <3>4. Known(s, i)' <=> Known(s, i + 1)
      BY <3>2, <3>3 DEF Known
    <3>5. KnownServer(s, i)' = KnownServer(s, i + 1)
      BY <3>2, <3>3 DEF KnownServer
    <3>6. Known(s, i + 1) => KnownEnd(s, i)' = KnownEnd(s, i + 1)
      BY <3>2, <3>3 DEF KnownEnd, Known
    <3> QED BY <3>4, <3>5, <3>6
  <2> QED BY <2>1, <2>2
<1>11. Chained(s)'
  <2> SUFFICES ASSUME ~late', current' = s PROVE Chained(s)'
    BY DEF Chained
  <2>1. /\ \A i \in 1..Size(s) :
              At(s, i).rid = sess[s].rid /\ At(s, i).type = "events" /\ Known(s, i - 1) =>
                /\ KnownServer(s, i - 1) # 0
                /\ At(s, i).server = KnownServer(s, i - 1) =>
                      Start(At(s, i)) = KnownEnd(s, i - 1)
        /\ watch[s].on /\ ~watch[s].pending /\ Known(s, Size(s)) =>
              /\ KnownServer(s, Size(s)) # 0
              /\ KnownServer(s, Size(s)) <= watch[s].server
              /\ watch[s].server = KnownServer(s, Size(s)) => watch[s].at = KnownEnd(s, Size(s))
        /\ watch[s].on /\ watch[s].pending =>
              \A i \in 1..Size(s) : At(s, i).rid # sess[s].rid
    BY DEF Chained, Follows
  <2>2. ~(watch'[s].on /\ watch'[s].pending)
    BY <1>4, <2>1
  <2>3. ASSUME NEW i \in 1..Size(s)', At(s, i)'.rid = sess'[s].rid, At(s, i)'.type = "events",
               Known(s, i - 1)'
        PROVE  /\ KnownServer(s, i - 1)' # 0
               /\ At(s, i)'.server = KnownServer(s, i - 1)' =>
                     Start(At(s, i))' = KnownEnd(s, i - 1)'
    <3>1. PICK j : j = i - 1
      OBVIOUS
    <3>2. i \in Nat /\ j \in 0..Size(s)' /\ j + 1 = i
      BY <1>4, <1>8, <3>1
    <3>3. PICK n \in 1..Size(s) : n = i + 1
      BY <1>8
    <3>4. n - 1 = j + 1
      BY <3>2, <3>3
    <3>5. Known(s, j)'
      BY <2>3, <3>1
    <3>6. /\ Known(s, n - 1)
          /\ KnownServer(s, j)' = KnownServer(s, n - 1)
          /\ KnownEnd(s, j)' = KnownEnd(s, n - 1)
      BY <1>10, <3>2, <3>4, <3>5
    <3>7. At(s, i)' = At(s, n) /\ At(s, n).rid = sess[s].rid /\ At(s, n).type = "events"
      BY <1>8, <2>3, <3>3
    <3>8. Start(At(s, i))' = Start(At(s, n))
      BY <1>8, <3>3, <3>7 DEF Carries
    <3>9. /\ KnownServer(s, n - 1) # 0
          /\ At(s, n).server = KnownServer(s, n - 1) => Start(At(s, n)) = KnownEnd(s, n - 1)
      BY <2>1, <3>6, <3>7
    <3> QED BY <3>1, <3>6, <3>7, <3>8, <3>9
  <2>4. ASSUME watch'[s].on, ~watch'[s].pending, Known(s, Size(s))'
        PROVE  /\ KnownServer(s, Size(s))' # 0
               /\ KnownServer(s, Size(s))' <= watch'[s].server
               /\ watch'[s].server = KnownServer(s, Size(s))' =>
                     watch'[s].at = KnownEnd(s, Size(s))'
    <3>1. PICK j : j = Size(s)'
      OBVIOUS
    <3>2. j \in 0..Size(s)' /\ j + 1 = Size(s)
      BY <1>4, <3>1
    <3>3. /\ Known(s, j)' <=> Known(s, Size(s))'
          /\ KnownServer(s, j)' = KnownServer(s, Size(s))'
          /\ KnownEnd(s, j)' = KnownEnd(s, Size(s))'
      BY <3>1
    <3>4. /\ Known(s, Size(s))
          /\ KnownServer(s, j)' = KnownServer(s, Size(s))
          /\ KnownEnd(s, j)' = KnownEnd(s, Size(s))
      BY <1>10, <2>4, <3>2, <3>3
    <3> QED BY <2>1, <2>4, <3>3, <3>4
  <2> QED BY <2>2, <2>3, <2>4 DEF Chained
<1> QED BY <1>2, <1>3, <1>6, <1>9, <1>11 DEF Follows

-----------------------------------------------------------------------------
(***************************************************************************)
(* The controller sends a message, or resumes a watch                      *)
(***************************************************************************)


LEMMA Appended ==
  ASSUME TypeOK, NEW s \in Sessions, NEW m, sess' = sess,
         stream' = [stream EXCEPT ![s] = Append(@, m)]
  PROVE  /\ Size(s)' = Size(s) + 1
         /\ \A i \in 1..Size(s) : At(s, i)' = At(s, i)
         /\ \A i : i = Size(s) + 1 => At(s, i)' = m
         /\ \A t \in Sessions : t # s => stream'[t] = stream[t]
<1>1. stream[s] \in Seq(Messages) /\ Len(stream[s]) \in Nat /\ stream'[s] = Append(stream[s], m)
  BY DEF TypeOK
<1>2. Held(s)' = Held(s) /\ Held(s) \in {0, 1}
  BY DEF Held
<1>3. /\ Len(stream'[s]) = Len(stream[s]) + 1
      /\ \A i \in 1..Len(stream[s]) : stream'[s][i] = stream[s][i]
      /\ stream'[s][Len(stream[s]) + 1] = m
  BY <1>1
<1>4. Size(s) = Held(s) + Len(stream[s]) /\ Size(s)' = Held(s) + Len(stream[s]) + 1
  BY <1>1, <1>2, <1>3 DEF Size
<1>5. ASSUME NEW i \in 1..Size(s) PROVE At(s, i)' = At(s, i)
  <2>1. CASE i <= Held(s)
    BY <1>2, <2>1 DEF At
  <2>2. CASE ~(i <= Held(s))
    <3>1. i - Held(s) \in 1..Len(stream[s])
      BY <1>1, <1>2, <1>4, <2>2
    <3> QED BY <1>2, <1>3, <2>2, <3>1 DEF At
  <2> QED BY <2>1, <2>2
<1>6. ASSUME NEW i, i = Size(s) + 1 PROVE At(s, i)' = m
  <2>1. ~(i <= Held(s)) /\ i - Held(s) = Len(stream[s]) + 1
    BY <1>1, <1>2, <1>4, <1>6
  <2> QED BY <1>2, <1>3, <2>1 DEF At
<1>7. \A t \in Sessions : t # s => stream'[t] = stream[t]
  BY DEF TypeOK
<1> QED BY <1>1, <1>2, <1>4, <1>5, <1>6, <1>7

\* What the controller sends is its present state, or says nothing of it.
LEMMA Sent ==
  ASSUME TypeOK, Aged, Based, Cached, NEW s \in Sessions, Follows(s), TypeOK',
         UNCHANGED << hist, base, current, cache, sess, late >>,
         watch[s].on, NEW m \in Messages, m.rid = watch[s].rid, Sound(m),
         Carries(m) => m.server = Server /\ End(m) = Now,
         m.type = "events" =>
            /\ ~watch[s].pending
            /\ watch[s].server = Server => Start(m) = watch[s].at,
         stream' = [stream EXCEPT ![s] = Append(@, m)],
         watch'[s].on, watch'[s].rid = watch[s].rid, ~watch'[s].pending,
         watch'[s].server = Server, watch'[s].at = Now
  PROVE  Follows(s)'
<1>0. Grown
  BY SameGrown
<1>1. /\ Size(s) \in Nat /\ Size(s)' = Size(s) + 1
      /\ \A i \in 1..Size(s) : At(s, i)' = At(s, i)
      /\ \A i : i = Size(s) + 1 => At(s, i)' = m
  BY Appended, LineType
<1>2. /\ current = s /\ sess[s].pc \in Active /\ m.rid = sess[s].rid /\ sess[s].rid \in Nat
  BY DEF Follows, Placed, TypeOK, SessionRecord
<1>3. Now' = Now /\ Server' = Server
  BY DEF Now, Server
<1>4. /\ Now \in Nat /\ Now >= 1 /\ Server \in Nat /\ Server >= 1
  BY NowType
<1>5. Sound(m)' /\ End(m)' = End(m) /\ (Carries(m)' <=> Carries(m)) /\ Start(m)' = Start(m)
  BY <1>0, SoundKept DEF Carries, End, Start
<1>6. ASSUME NEW i \in 1..Size(s)'
      PROVE  i \in 1..Size(s) \/ i = Size(s) + 1
  BY <1>1
<1>7. ASSUME NEW i \in 1..Size(s)
      PROVE  /\ i \in 1..Size(s)' /\ At(s, i)' = At(s, i)
             /\ At(s, i) \in Messages /\ At(s, i).rid \in Nat /\ At(s, i).server \in Nat
             /\ Sound(At(s, i)) /\ Sound(At(s, i))'
             /\ Carries(At(s, i))' <=> Carries(At(s, i))
             /\ End(At(s, i))' = End(At(s, i)) /\ Start(At(s, i))' = Start(At(s, i))
             /\ Carries(At(s, i)) => End(At(s, i)) <= Now /\ At(s, i).server <= Server
             /\ At(s, i).rid <= sess[s].rid
  <2>1. At(s, i)' = At(s, i) /\ i \in 1..Size(s)'
    BY <1>1
  <2>2. At(s, i) \in Messages
    BY LineType
  <2>3. At(s, i).rid \in Nat /\ At(s, i).server \in Nat
    BY <2>2, MessageType
  <2>4. Sound(At(s, i)) /\ At(s, i).rid <= sess[s].rid
    BY DEF Follows, Line
  <2>5. PICK x : x = At(s, i)
    OBVIOUS
  <2>6. At(s, i)' = x
    BY <2>1, <2>5
  <2>7. Sound(x)'
    BY <1>0, <2>2, <2>4, <2>5, SoundKept
  <2>8. Sound(At(s, i))' <=> Sound(x)'
    BY <2>6 DEF Sound, Carries, End, Start
  <2>9. /\ Carries(At(s, i))' <=> Carries(At(s, i))
        /\ End(At(s, i))' = End(At(s, i)) /\ Start(At(s, i))' = Start(At(s, i))
    BY <2>1 DEF Carries, End, Start
  <2>10. Carries(At(s, i)) => End(At(s, i)) <= Now /\ At(s, i).server <= Server
    BY <2>2, <2>4, EndType
  <2> QED BY <2>1, <2>2, <2>3, <2>4, <2>7, <2>8, <2>9, <2>10
<1>8. ASSUME NEW i, i = Size(s) + 1
      PROVE  /\ At(s, i)' = m /\ Sound(At(s, i))'
             /\ Carries(At(s, i))' <=> Carries(m)
             /\ End(At(s, i))' = End(m) /\ Start(At(s, i))' = Start(m)
  <2>1. At(s, i)' = m
    BY <1>1, <1>8
  <2>2. Carries(At(s, i))' <=> Carries(m)
    BY <2>1 DEF Carries
  <2>3. End(At(s, i))' = End(m)'
    BY <2>1 DEF End
  <2>4. Start(At(s, i))' = Start(m)'
    BY <2>1 DEF Start, End
  <2>5. Sound(At(s, i))' <=> Sound(m)'
    BY <2>1 DEF Sound, Carries, End, Start
  <2> QED BY <1>5, <2>1, <2>2, <2>3, <2>4, <2>5
<1>9. Line(s)'
  <2>1. ASSUME NEW i \in 1..Size(s)'
        PROVE  Sound(At(s, i))' /\ At(s, i)'.rid <= sess'[s].rid
    <3>1. CASE i \in 1..Size(s)
      BY <1>7, <3>1
    <3>2. CASE i = Size(s) + 1
      BY <1>2, <1>8, <3>2
    <3> QED BY <1>6, <3>1, <3>2
  <2>2. ASSUME NEW i \in 1..Size(s)', NEW j \in 1..Size(s)', i < j
        PROVE  /\ At(s, i)'.rid <= At(s, j)'.rid
               /\ Carries(At(s, i))' /\ Carries(At(s, j))' =>
                     /\ End(At(s, i))' <= End(At(s, j))'
                     /\ At(s, i)'.server <= At(s, j)'.server
    <3>1. i \in 1..Size(s)
      BY <1>1, <2>2
    <3>2. CASE j \in 1..Size(s)
      <4>1. /\ At(s, i).rid <= At(s, j).rid
            /\ Carries(At(s, i)) /\ Carries(At(s, j)) =>
                  End(At(s, i)) <= End(At(s, j)) /\ At(s, i).server <= At(s, j).server
        BY <2>2, <3>1, <3>2 DEF Follows, Line
      <4>2. /\ At(s, i)' = At(s, i) /\ (Carries(At(s, i))' <=> Carries(At(s, i)))
            /\ End(At(s, i))' = End(At(s, i))
        BY <1>7, <3>1
      <4>3. /\ At(s, j)' = At(s, j) /\ (Carries(At(s, j))' <=> Carries(At(s, j)))
            /\ End(At(s, j))' = End(At(s, j))
        BY <1>7, <3>2
      <4> QED BY <4>1, <4>2, <4>3
    <3>3. CASE j = Size(s) + 1
      <4>1. /\ At(s, i)' = At(s, i) /\ (Carries(At(s, i))' <=> Carries(At(s, i)))
            /\ End(At(s, i))' = End(At(s, i)) /\ At(s, i).rid <= sess[s].rid
            /\ Carries(At(s, i)) => End(At(s, i)) <= Now /\ At(s, i).server <= Server
        BY <1>7, <3>1
      <4>2. At(s, j)' = m /\ (Carries(At(s, j))' <=> Carries(m)) /\ End(At(s, j))' = End(m)
        BY <1>8, <3>3
      <4> QED BY <1>2, <4>1, <4>2
    <3> QED BY <1>6, <3>2, <3>3
  <2> QED BY <2>1, <2>2 DEF Line
<1>10. Placed(s)'
  <2>1. Server \in 1..Server /\ Now \in 1..Now
    BY <1>4
  <2>2. sess'[s].pc \notin {"idle", "opening", "offline"}
    BY <1>2 DEF Active
  <2>3. current' = s /\ sess'[s].pc \in Active /\ watch'[s].rid = sess'[s].rid
    BY <1>2
  <2>4. watch'[s].server \in 1..Server' /\ watch'[s].at \in 1..Now'
    BY <1>3, <2>1
  <2> QED BY <2>2, <2>3, <2>4 DEF Placed
<1>11. Feeds(s)'
  <2> SUFFICES ASSUME ~late
               PROVE  /\ sess[s].server = cache.server
                      /\ \A i \in 1..Size(s)' : Carries(At(s, i))' =>
                            /\ cache.server <= At(s, i)'.server
                            /\ cache.server # 0 => CacheEnd' <= End(At(s, i))'
    BY DEF Feeds
  <2>1. /\ sess[s].server = cache.server
        /\ \A i \in 1..Size(s) : Carries(At(s, i)) =>
              /\ cache.server <= At(s, i).server
              /\ cache.server # 0 => CacheEnd <= End(At(s, i))
    BY <1>2 DEF Follows, Feeds
  <2>2. CacheEnd' = CacheEnd
    BY DEF CacheEnd
  <2>3. cache.server <= Server /\ (cache.server # 0 => CacheEnd <= Now)
    BY DEF TypeOK, Cached
  <2>4. ASSUME NEW i \in 1..Size(s)', Carries(At(s, i))'
        PROVE  /\ cache.server <= At(s, i)'.server
               /\ cache.server # 0 => CacheEnd' <= End(At(s, i))'
    <3>1. CASE i \in 1..Size(s)
      <4>1. /\ At(s, i)' = At(s, i) /\ Carries(At(s, i)) /\ End(At(s, i))' = End(At(s, i))
        BY <1>7, <2>4, <3>1
      <4> QED BY <2>1, <2>2, <3>1, <4>1
    <3>2. CASE i = Size(s) + 1
      <4>1. At(s, i)' = m /\ Carries(m) /\ End(At(s, i))' = End(m)
        BY <1>8, <2>4, <3>2
      <4> QED BY <2>2, <2>3, <4>1
    <3> QED BY <1>6, <3>1, <3>2
  <2> QED BY <2>1, <2>4
<1>12. ASSUME NEW i \in 0..Size(s)
       PROVE  /\ Known(s, i)' <=> Known(s, i)
              /\ KnownServer(s, i)' = KnownServer(s, i)
              /\ KnownEnd(s, i)' = KnownEnd(s, i)
  <2>1. CacheEnd' = CacheEnd
    BY DEF CacheEnd
  <2>2. CASE i = 0
    <3>1. Fresh(s, i) /\ Fresh(s, i)'
      BY <2>2 DEF Fresh
    <3> QED BY <2>1, <3>1 DEF Known, KnownServer, KnownEnd
  <2>3. CASE i # 0
    <3>1. i \in 1..Size(s)
      BY <1>1, <2>3
    <3>2. /\ At(s, i)' = At(s, i) /\ (Carries(At(s, i))' <=> Carries(At(s, i)))
          /\ End(At(s, i))' = End(At(s, i))
      BY <1>7, <3>1
    <3>3. Fresh(s, i)' <=> Fresh(s, i)
      BY <3>2 DEF Fresh
    <3> QED BY <2>1, <3>2, <3>3 DEF Known, KnownServer, KnownEnd
  <2> QED BY <2>2, <2>3
<1>13. Chained(s)'
  <2> SUFFICES ASSUME ~late, sess[s].pc \in {"run", "apply", "publish"}, ~sess[s].terminated
               PROVE  Chained(s)'
    BY DEF Chained
  <2>1. /\ \A i \in 1..Size(s) :
              At(s, i).rid = sess[s].rid /\ At(s, i).type = "events" /\ Known(s, i - 1) =>
                /\ KnownServer(s, i - 1) # 0
                /\ At(s, i).server = KnownServer(s, i - 1) =>
                      Start(At(s, i)) = KnownEnd(s, i - 1)
        /\ ~watch[s].pending /\ Known(s, Size(s)) =>
              /\ KnownServer(s, Size(s)) # 0
              /\ KnownServer(s, Size(s)) <= watch[s].server
              /\ watch[s].server = KnownServer(s, Size(s)) => watch[s].at = KnownEnd(s, Size(s))
    BY <1>2 DEF Chained, Follows
  <2>2. ASSUME NEW i \in 1..Size(s)', At(s, i)'.rid = sess'[s].rid, At(s, i)'.type = "events",
               Known(s, i - 1)'
        PROVE  /\ KnownServer(s, i - 1)' # 0
               /\ At(s, i)'.server = KnownServer(s, i - 1)' =>
                     Start(At(s, i))' = KnownEnd(s, i - 1)'
    <3>1. PICK j : j = i - 1
      OBVIOUS
    <3>2. j \in 0..Size(s) /\ i = j + 1
      BY <1>1, <3>1
    <3>3. /\ Known(s, j) /\ KnownServer(s, i - 1)' = KnownServer(s, j)
          /\ KnownEnd(s, i - 1)' = KnownEnd(s, j)
      BY <1>12, <2>2, <3>1, <3>2
    <3>4. CASE i \in 1..Size(s)
      <4>1. At(s, i)' = At(s, i) /\ Start(At(s, i))' = Start(At(s, i))
        BY <1>7, <3>4
      <4>2. Known(s, i - 1)
        BY <3>1, <3>3
      <4>3. /\ KnownServer(s, i - 1) # 0
            /\ At(s, i).server = KnownServer(s, i - 1) => Start(At(s, i)) = KnownEnd(s, i - 1)
        BY <2>1, <2>2, <3>4, <4>1, <4>2
      <4> QED BY <3>1, <3>3, <4>1, <4>3
    <3>5. CASE i = Size(s) + 1
      <4>1. At(s, i)' = m /\ Start(At(s, i))' = Start(m)
        BY <1>8, <3>5
      <4>2. j = Size(s) /\ m.type = "events" /\ m.server = Server
        BY <1>1, <2>2, <3>1, <3>5, <4>1 DEF Carries
      <4>3. /\ KnownServer(s, j) # 0 /\ KnownServer(s, j) <= watch[s].server
            /\ watch[s].server = KnownServer(s, j) => watch[s].at = KnownEnd(s, j)
        BY <2>1, <3>3, <4>2
      <4>4. watch[s].server \in Nat /\ watch[s].server <= Server
        BY <1>4, <4>2 DEF Follows, Placed
      <4>5. Server = KnownServer(s, j) => Start(m) = KnownEnd(s, j)
        BY <1>4, <4>2, <4>3, <4>4
      <4> QED BY <3>3, <4>1, <4>2, <4>3, <4>5
    <3> QED BY <1>6, <3>4, <3>5
  <2>3. ASSUME Known(s, Size(s))'
        PROVE  /\ KnownServer(s, Size(s))' # 0
               /\ KnownServer(s, Size(s))' <= watch'[s].server
               /\ watch'[s].server = KnownServer(s, Size(s))' =>
                     watch'[s].at = KnownEnd(s, Size(s))'
    <3>1. PICK j : j = Size(s) + 1
      OBVIOUS
    <3>2. Size(s)' = j /\ j # 0
      BY <1>1, <3>1
    <3>3. At(s, j)' = m /\ (Carries(At(s, j))' <=> Carries(m)) /\ End(At(s, j))' = End(m)
      BY <1>8, <3>1
    <3>4. ~Fresh(s, j)'
      BY <1>2, <3>2, <3>3 DEF Fresh
    <3>5. Known(s, j)'
      BY <2>3, <3>2
    <3>6. Carries(m)
      BY <3>3, <3>4, <3>5 DEF Known
    <3>7. KnownServer(s, j)' = Server
      BY <3>3, <3>4, <3>6 DEF KnownServer
    <3>8. KnownEnd(s, j)' = Now
      BY <3>3, <3>4, <3>6 DEF KnownEnd
    <3> QED BY <1>4, <3>2, <3>7, <3>8
  <2> QED BY <2>2, <2>3 DEF Chained
<1> QED BY <1>9, <1>10, <1>11, <1>13 DEF Follows

LEMMA Resumed ==
  ASSUME TypeOK, Aged, Based, Cached, NEW s \in Sessions, Follows(s), TypeOK',
         UNCHANGED << hist, base, current, cache, sess, late, stream >>,
         watch[s].on, watch[s].pending, watch[s].from \in 1..VersionAt(Now),
         watch'[s].on, watch'[s].rid = watch[s].rid, ~watch'[s].pending,
         watch'[s].server = Server, watch'[s].at = watch[s].from + 1 + base[Server]
  PROVE  Follows(s)'
<1>0. Grown
  BY SameGrown
<1>1. LineMoves(s, 0)
  BY SameLine
<1>2. Line(s)'
  <2>1. sess[s].rid \in Nat
    BY DEF TypeOK, SessionRecord
  <2> QED BY <1>0, <1>1, <2>1, LinePasses DEF Follows
<1>3. Feeds(s)'
  BY <1>0, <1>1, FeedsPasses DEF Follows, SameReader
<1>4. /\ Now \in Nat /\ Now >= 1 /\ Server \in Nat /\ Server >= 1 /\ base[Server] \in Nat
  BY NowType
<1>5. Now' = Now /\ Server' = Server
  BY DEF Now, Server
<1>6. watch'[s].at \in 1..Now
  BY <1>4 DEF VersionAt
<1>7. current = s /\ sess[s].pc \in Active /\ watch[s].rid = sess[s].rid
  BY DEF Follows, Placed
<1>8. Placed(s)'
  <2>1. Server \in 1..Server
    BY <1>4
  <2>2. sess[s].pc \notin {"idle", "opening", "offline"}
    BY <1>7 DEF Active
  <2> QED BY <1>5, <1>6, <1>7, <2>1, <2>2 DEF Placed
<1>9. Chained(s)'
  <2> SUFFICES ASSUME ~late, sess[s].pc \in {"run", "apply", "publish"}, ~sess[s].terminated
               PROVE  Chained(s)'
    BY DEF Chained
  <2>1. /\ \A i \in 1..Size(s) : At(s, i).rid # sess[s].rid
        /\ watch[s].from \in {0, cache.version}
    BY <1>7 DEF Chained, Follows
  <2>2. Size(s) \in Nat /\ Size(s)' = Size(s) /\ \A i \in 1..Size(s) : At(s, i)' = At(s, i)
    <3>1. \A i \in 1..Size(s) : i + 0 = i
      OBVIOUS
    <3> QED BY <1>1, <3>1, LineType DEF LineMoves
  <2>3. \A i \in 1..Size(s)' : At(s, i)'.rid # sess'[s].rid
    BY <2>1, <2>2
  <2>4. Fresh(s, Size(s))'
    BY <2>2, <2>3 DEF Fresh
  <2>5. KnownServer(s, Size(s))' = cache.server /\ KnownEnd(s, Size(s))' = CacheEnd
    BY <2>4 DEF KnownServer, KnownEnd, CacheEnd
  <2>6. watch[s].from \in Nat /\ watch[s].from = cache.version /\ cache.version # 0
    <3>1. base[Server] \in Nat /\ VersionAt(Now) \in Int
      BY <1>4 DEF VersionAt
    <3> QED BY <2>1, <3>1
  <2>7. cache.server # 0
    BY <2>6 DEF Cached
  <2>8. cache.server <= Server
    BY DEF TypeOK
  <2>9. cache.server = Server => watch'[s].at = CacheEnd
    BY <2>6 DEF CacheEnd
  <2> QED BY <2>3, <2>5, <2>7, <2>8, <2>9 DEF Chained
<1> QED BY <1>2, <1>3, <1>8, <1>9 DEF Follows

-----------------------------------------------------------------------------
(***************************************************************************)
(* What the steps write                                                    *)
(***************************************************************************)

LEMMA Constants ==
  /\ Empty \in State /\ NoMessage \in Messages /\ NoBatch \in Batches
  /\ NoSession \in SessionRecord /\ NoWatch \in Watches
<1>1. Empty \in State
  BY DEF Empty, State
<1>2. NoMessage \in Messages
  <2>1. << >> \in Seq(Events)
    OBVIOUS
  <2> QED BY <1>1, <2>1 DEF NoMessage, Messages, Types
<1>3. NoBatch \in Batches
  BY <1>1 DEF NoBatch, Batches
<1>4. NoSession \in SessionRecord
  BY <1>2, <1>3 DEF NoSession, SessionRecord, SessPCs
<1>5. NoWatch \in Watches
  BY DEF NoWatch, Watches
<1> QED BY <1>1, <1>2, <1>3, <1>4, <1>5

LEMMA SessionType ==
  ASSUME TypeOK, NEW s \in Sessions
  PROVE  /\ sess[s] \in SessionRecord
         /\ sess[s].pc \in SessPCs /\ sess[s].rid \in Nat /\ sess[s].server \in Nat
         /\ sess[s].terminated \in BOOLEAN /\ sess[s].msg \in Messages
         /\ sess[s].batch \in Batches
<1>1. sess[s] \in SessionRecord
  BY DEF TypeOK
<1>2. sess[s].pc \in SessPCs /\ sess[s].rid \in Nat /\ sess[s].server \in Nat
  BY <1>1 DEF SessionRecord
<1>3. sess[s].terminated \in BOOLEAN /\ sess[s].msg \in Messages /\ sess[s].batch \in Batches
  BY <1>1 DEF SessionRecord
<1> QED BY <1>1, <1>2, <1>3

\* Only this session's record changes.
OnlySession(s) ==
    /\ sess' \in [Sessions -> SessionRecord]
    /\ \A t \in Sessions : t # s => sess'[t] = sess[t]

LEMMA SessionPut ==
  ASSUME TypeOK, NEW s \in Sessions, NEW new \in SessionRecord,
         sess' = [sess EXCEPT ![s] = new]
  PROVE  OnlySession(s) /\ sess'[s] = new
  BY DEF TypeOK, OnlySession

LEMMA GotoSets ==
  ASSUME TypeOK, NEW s \in Sessions, NEW pc \in SessPCs, Goto(s, pc)
  PROVE  /\ OnlySession(s)
         /\ sess'[s].pc = pc /\ sess'[s].rid = sess[s].rid
         /\ sess'[s].server = sess[s].server
         /\ sess'[s].terminated = sess[s].terminated
         /\ sess'[s].msg = NoMessage /\ sess'[s].batch = NoBatch
<1> DEFINE new == [sess[s] EXCEPT !.pc = pc, !.msg = NoMessage, !.batch = NoBatch]
<1>1. sess[s] \in SessionRecord
  BY SessionType
<1>2. sess' = [sess EXCEPT ![s] = new]
  BY DEF Goto, TypeOK
<1>3. new \in SessionRecord
  BY <1>1, Constants DEF SessionRecord
<1>4. OnlySession(s) /\ sess'[s] = new
  BY <1>2, <1>3, SessionPut
<1>5. new.pc = pc /\ new.rid = sess[s].rid /\ new.server = sess[s].server
  BY <1>1 DEF SessionRecord
<1>6. /\ new.terminated = sess[s].terminated /\ new.msg = NoMessage
      /\ new.batch = NoBatch
  BY <1>1 DEF SessionRecord
<1> QED BY <1>4, <1>5, <1>6

LEMMA ReceiveSets ==
  ASSUME TypeOK, NEW s \in Sessions, NEW m \in Messages,
         sess' = [sess EXCEPT ![s].pc = "apply", ![s].msg = m]
  PROVE  /\ OnlySession(s)
         /\ sess'[s].pc = "apply" /\ sess'[s].rid = sess[s].rid
         /\ sess'[s].server = sess[s].server
         /\ sess'[s].terminated = sess[s].terminated
         /\ sess'[s].msg = m
<1> DEFINE new == [sess[s] EXCEPT !.pc = "apply", !.msg = m]
<1>1. sess[s] \in SessionRecord /\ "apply" \in SessPCs
  BY SessionType DEF SessPCs
<1>2. sess' = [sess EXCEPT ![s] = new]
  BY DEF TypeOK
<1>3. new \in SessionRecord
  BY <1>1 DEF SessionRecord
<1>4. OnlySession(s) /\ sess'[s] = new
  BY <1>2, <1>3, SessionPut
<1>5. new.pc = "apply" /\ new.rid = sess[s].rid /\ new.server = sess[s].server
  BY <1>1 DEF SessionRecord
<1>6. new.terminated = sess[s].terminated /\ new.msg = m
  BY <1>1 DEF SessionRecord
<1> QED BY <1>4, <1>5, <1>6

LEMMA OpenSets ==
  ASSUME TypeOK, NEW s \in Sessions, sess' = [sess EXCEPT ![s].pc = "opening"]
  PROVE  /\ OnlySession(s)
         /\ sess'[s].pc = "opening" /\ sess'[s].terminated = sess[s].terminated
<1> DEFINE new == [sess[s] EXCEPT !.pc = "opening"]
<1>1. sess[s] \in SessionRecord /\ "opening" \in SessPCs
  BY SessionType DEF SessPCs
<1>2. sess' = [sess EXCEPT ![s] = new]
  BY DEF TypeOK
<1>3. new \in SessionRecord
  BY <1>1 DEF SessionRecord
<1>4. OnlySession(s) /\ sess'[s] = new
  BY <1>2, <1>3, SessionPut
<1>5. new.pc = "opening" /\ new.terminated = sess[s].terminated
  BY <1>1 DEF SessionRecord
<1> QED BY <1>4, <1>5

LEMMA BeginSets ==
  ASSUME TypeOK, NEW s \in Sessions,
         sess' = [sess EXCEPT ![s].pc = "run", ![s].rid = 1, ![s].server = cache.server]
  PROVE  /\ OnlySession(s)
         /\ sess'[s].pc = "run" /\ sess'[s].rid = 1
         /\ sess'[s].server = cache.server
         /\ sess'[s].terminated = sess[s].terminated
<1> DEFINE new == [sess[s] EXCEPT !.pc = "run", !.rid = 1, !.server = cache.server]
<1>1. sess[s] \in SessionRecord /\ "run" \in SessPCs /\ cache.server \in Nat
  BY SessionType DEF SessPCs, TypeOK, Cache
<1>2. sess' = [sess EXCEPT ![s] = new]
  BY DEF TypeOK
<1>3. new \in SessionRecord
  BY <1>1 DEF SessionRecord
<1>4. OnlySession(s) /\ sess'[s] = new
  BY <1>2, <1>3, SessionPut
<1>5. new.pc = "run" /\ new.rid = 1 /\ new.server = cache.server
  BY <1>1 DEF SessionRecord
<1>6. new.terminated = sess[s].terminated
  BY <1>1 DEF SessionRecord
<1> QED BY <1>4, <1>5, <1>6

LEMMA LeaveSets ==
  ASSUME TypeOK, NEW s \in Sessions, NEW pc \in SessPCs, Leave(s, pc)
  PROVE  /\ OnlySession(s)
         /\ sess'[s].pc = pc /\ ~sess'[s].terminated
         /\ stream' \in [Sessions -> Seq(Messages)] /\ watch' \in [Sessions -> Watches]
         /\ stream'[s] = << >> /\ watch'[s] = NoWatch
         /\ \A t \in Sessions : t # s => stream'[t] = stream[t] /\ watch'[t] = watch[t]
<1> DEFINE new == [NoSession EXCEPT !.pc = pc]
<1>1. NoSession \in SessionRecord /\ NoWatch \in Watches /\ << >> \in Seq(Messages)
  BY Constants
<1>2. sess' = [sess EXCEPT ![s] = new]
  BY DEF Leave
<1>3. new \in SessionRecord
  BY <1>1 DEF SessionRecord
<1>4. OnlySession(s) /\ sess'[s] = new
  BY <1>2, <1>3, SessionPut
<1>5. new.pc = pc /\ new.terminated = FALSE
  BY <1>1 DEF SessionRecord, NoSession
<1>6. /\ watch' \in [Sessions -> Watches] /\ watch'[s] = NoWatch
      /\ \A t \in Sessions : t # s => watch'[t] = watch[t]
  BY <1>1 DEF Leave, TypeOK
<1>7. /\ stream' \in [Sessions -> Seq(Messages)] /\ stream'[s] = << >>
      /\ \A t \in Sessions : t # s => stream'[t] = stream[t]
  BY <1>1 DEF Leave, TypeOK
<1> QED BY <1>4, <1>5, <1>6, <1>7

\* The watch asked for again, and what becomes of the message that led to it.
LEMMA AgainSets ==
  ASSUME TypeOK, NEW s \in Sessions,
         \/ sess' = [sess EXCEPT ![s].pc = "run", ![s].rid = @ + 1]
         \/ sess' = [sess EXCEPT ![s].pc = "run", ![s].msg = NoMessage, ![s].rid = @ + 1],
         Request(s, sess[s].rid + 1, 0)
  PROVE  /\ OnlySession(s)
         /\ sess'[s].pc = "run" /\ sess'[s].rid = sess[s].rid + 1
         /\ sess'[s].server = sess[s].server
         /\ sess'[s].terminated = sess[s].terminated
         /\ watch' \in [Sessions -> Watches]
         /\ \A t \in Sessions : t # s => watch'[t] = watch[t]
         /\ watch'[s] = IF watch[s].on THEN Asked(sess[s].rid + 1, 0) ELSE NoWatch
<1> DEFINE new1 == [sess[s] EXCEPT !.pc = "run", !.rid = sess[s].rid + 1]
           new2 == [sess[s] EXCEPT !.pc = "run", !.msg = NoMessage, !.rid = sess[s].rid + 1]
<1>1. sess[s] \in SessionRecord /\ "run" \in SessPCs /\ NoMessage \in Messages
  BY SessionType, Constants DEF SessPCs
<1>2. sess[s].rid + 1 \in Nat
  BY SessionType
<1>3. \/ sess' = [sess EXCEPT ![s] = new1]
      \/ sess' = [sess EXCEPT ![s] = new2]
  BY DEF TypeOK
<1>4. /\ new1 \in SessionRecord /\ new1.pc = "run" /\ new1.rid = sess[s].rid + 1
      /\ new1.server = sess[s].server /\ new1.terminated = sess[s].terminated
  BY <1>1, <1>2 DEF SessionRecord
<1>5. /\ new2 \in SessionRecord /\ new2.pc = "run" /\ new2.rid = sess[s].rid + 1
      /\ new2.server = sess[s].server /\ new2.terminated = sess[s].terminated
  BY <1>1, <1>2 DEF SessionRecord
<1> HIDE DEF new1, new2
<1>6. OnlySession(s) /\ sess'[s] \in {new1, new2}
  BY <1>3, <1>4, <1>5, SessionPut
<1>7. Asked(sess[s].rid + 1, 0) \in Watches /\ NoWatch \in Watches
  BY <1>2 DEF Asked, NoWatch, Watches
<1>8. watch' = [watch EXCEPT ![s] = IF watch[s].on THEN Asked(sess[s].rid + 1, 0) ELSE NoWatch]
  BY DEF Request
<1>9. /\ watch' \in [Sessions -> Watches]
      /\ \A t \in Sessions : t # s => watch'[t] = watch[t]
      /\ watch'[s] = IF watch[s].on THEN Asked(sess[s].rid + 1, 0) ELSE NoWatch
  BY <1>7, <1>8 DEF TypeOK
<1> QED BY <1>4, <1>5, <1>6, <1>9

LEMMA TerminateSets ==
  ASSUME TypeOK, NEW s \in Sessions,
         sess' = [sess EXCEPT ![s].pc = "run", ![s].msg = NoMessage, ![s].terminated = TRUE]
  PROVE  /\ OnlySession(s)
         /\ sess'[s].pc = "run" /\ sess'[s].rid = sess[s].rid
         /\ sess'[s].server = sess[s].server /\ sess'[s].terminated
<1> DEFINE new == [sess[s] EXCEPT !.pc = "run", !.msg = NoMessage, !.terminated = TRUE]
<1>1. sess[s] \in SessionRecord /\ "run" \in SessPCs /\ NoMessage \in Messages
  BY SessionType, Constants DEF SessPCs
<1>2. sess' = [sess EXCEPT ![s] = new]
  BY DEF TypeOK
<1>3. new \in SessionRecord
  BY <1>1 DEF SessionRecord
<1>4. OnlySession(s) /\ sess'[s] = new
  BY <1>2, <1>3, SessionPut
<1>5. new.pc = "run" /\ new.rid = sess[s].rid /\ new.server = sess[s].server
  BY <1>1 DEF SessionRecord
<1>6. new.terminated = TRUE
  BY <1>1 DEF SessionRecord
<1> QED BY <1>4, <1>5, <1>6

LEMMA StoreSets ==
  ASSUME TypeOK, NEW s \in Sessions, NEW data \in State, NEW batch \in Batches,
         Store(s, data, batch)
  PROVE  /\ OnlySession(s)
         /\ sess'[s].pc = "publish" /\ sess'[s].rid = sess[s].rid
         /\ sess'[s].server = sess[s].msg.server
         /\ sess'[s].terminated = sess[s].terminated
         /\ sess'[s].batch = batch
         /\ cache' \in Cache /\ cache'.data = data /\ cache'.stale = FALSE
         /\ cache'.server = sess[s].msg.server /\ cache'.version = sess[s].msg.version
<1> DEFINE new == [sess[s] EXCEPT !.pc = "publish", !.msg = NoMessage, !.batch = batch,
                                  !.server = sess[s].msg.server]
<1>1. sess[s] \in SessionRecord /\ "publish" \in SessPCs /\ NoMessage \in Messages
  BY SessionType, Constants DEF SessPCs
<1>2. sess' = [sess EXCEPT ![s] = new]
  BY DEF TypeOK, Store
<1>3. sess[s].msg.server \in Nat /\ sess[s].msg.version \in Nat
  BY SessionType, MessageType
<1>4. new \in SessionRecord
  BY <1>1, <1>3 DEF SessionRecord
<1>5. OnlySession(s) /\ sess'[s] = new
  BY <1>2, <1>4, SessionPut
<1>6. new.pc = "publish" /\ new.rid = sess[s].rid /\ new.server = sess[s].msg.server
  BY <1>1 DEF SessionRecord
<1>7. new.terminated = sess[s].terminated /\ new.batch = batch
  BY <1>1 DEF SessionRecord
<1>8. cache' = [data |-> data, version |-> sess[s].msg.version, server |-> sess[s].msg.server,
                stale |-> FALSE]
  BY DEF Store
<1>9. cache' \in Cache
  BY <1>3, <1>8 DEF Cache
<1> QED BY <1>5, <1>6, <1>7, <1>8, <1>9

-----------------------------------------------------------------------------
(***************************************************************************)
(* Parts of the invariant that a step leaves alone                         *)
(***************************************************************************)

SameCache ==
    /\ cache'.data = cache.data /\ cache'.version = cache.version
    /\ cache'.server = cache.server

LEMMA SamePast ==
  ASSUME UNCHANGED << hist, base >>, Aged, Based
  PROVE  Aged' /\ Based' /\ Now' = Now /\ Server' = Server
<1>1. Aged'
  BY DEF Aged, Now
<1>2. Based'
  BY DEF Based, Now, Server
<1> QED BY <1>1, <1>2 DEF Now, Server

LEMMA SameCached ==
  ASSUME TypeOK, UNCHANGED << hist, base, late >>, SameCache, Cached
  PROVE  Cached' /\ CacheEnd' = CacheEnd
<1>1. CacheEnd' = CacheEnd
  BY DEF CacheEnd, SameCache
<1>2. Cached'
  BY <1>1 DEF Cached, SameCache, Now
<1> QED BY <1>1, <1>2

LEMMA SameOps ==
  ASSUME TypeOK, UNCHANGED << hist, base, late, wr, rl >>, SameCache, Cached, Written,
         Reloading
  PROVE  Written' /\ Reloading'
<1>1. CacheEnd' = CacheEnd
  BY SameCached
<1>2. Written'
  BY <1>1 DEF Written, SameCache
<1>3. Reloading'
  BY DEF Reloading, SameCache
<1> QED BY <1>2, <1>3

\* No handler call begins or ends.
LEMMA SameMirror ==
  ASSUME TypeOK, UNCHANGED << store, late, astray >>, SameCache, Mirrored,
         \A t \in Sessions :
            /\ sess'[t].pc = "publish" <=> sess[t].pc = "publish"
            /\ sess[t].pc = "publish" => sess'[t].batch = sess[t].batch,
         current' # current => current' = 0 \/ sess[current'].pc # "publish"
  PROVE  Mirrored'
<1> SUFFICES ASSUME ~late PROVE Mirrored'
  BY DEF Mirrored
<1>0. 0 \notin Sessions /\ (current # 0 => current \in Sessions)
  BY DEF Sessions, TypeOK
<1>1. ASSUME NEW t \in Sessions, sess[t].pc = "publish", t # current' PROVE Mirrored'
  BY <1>1 DEF Mirrored
<1>2. CASE \A t \in Sessions : sess[t].pc # "publish"
  <2>1. \A k \in Keys \ astray : store[k] = RowOf(cache.data[k])
    BY <1>0, <1>2 DEF Mirrored
  <2>2. \A t \in Sessions : sess'[t].pc # "publish"
    BY <1>2
  <2>3. \A k \in Keys \ astray' : store'[k] = RowOf(cache'.data[k])
    BY <2>1 DEF SameCache
  <2> QED BY <2>2, <2>3 DEF Mirrored
<1>3. CASE \E t \in Sessions : sess[t].pc = "publish" /\ t = current'
  <2>1. current' \in Sessions /\ current' # 0 /\ sess[current'].pc = "publish"
    BY <1>0, <1>3
  <2>2. current' = current
    BY <2>1
  <2>3. CASE \E t \in Sessions : sess[t].pc = "publish" /\ t # current
    BY <1>1, <2>2, <2>3
  <2>4. CASE ~\E t \in Sessions : sess[t].pc = "publish" /\ t # current
    <3>1. \A k \in Keys \ astray :
             Published(store, sess[current].batch)[k] = RowOf(cache.data[k])
      BY <2>1, <2>2, <2>4 DEF Mirrored
    <3>2. sess'[current'].batch = sess[current].batch /\ sess'[current'].pc = "publish"
      BY <2>1, <2>2
    <3>3. \A k \in Keys \ astray' :
             Published(store', sess'[current'].batch)[k] = RowOf(cache'.data[k])
      BY <3>1, <3>2 DEF SameCache
    <3> QED BY <2>1, <3>2, <3>3 DEF Mirrored, Published, FullSet, PartialUpdate, Upsert
  <2> QED BY <2>3, <2>4
<1> QED BY <1>1, <1>2, <1>3

\* A session that neither opens nor comes back.
Goes(t) ==
    /\ sess'[t].pc = "idle" <=> sess[t].pc = "idle"
    /\ sess'[t].pc \in Attending => sess[t].pc \in Attending

LEMMA SameSeated ==
  ASSUME TypeOK, Seated, \A t \in Sessions : Goes(t),
         \/ current' = current
         \/ current # 0 /\ current' = 0 /\ sess'[current].pc \notin Attending
  PROVE  Seated' /\ \A t \in Sessions : Latest(t)' <=> Latest(t)
<1>0. 0 \notin Sessions /\ (current # 0 => current \in Sessions)
  BY DEF Sessions, TypeOK
<1>1. \A t \in Sessions : Latest(t)' <=> Latest(t)
  BY DEF Latest, Goes
<1>2. \A s, t \in Sessions : s < t /\ sess'[t].pc # "idle" => sess'[s].pc # "idle"
  BY DEF Seated, Goes
<1>3. ASSUME NEW s \in Sessions, current' = s PROVE Latest(s)'
  <2>1. current = s
    BY <1>0, <1>3
  <2> QED BY <1>1, <2>1 DEF Seated
<1>4. ASSUME NEW s \in Sessions, Latest(s)', sess'[s].pc \in Attending PROVE current' = s
  <2>1. Latest(s) /\ sess[s].pc \in Attending
    BY <1>1, <1>4 DEF Goes
  <2>2. current = s
    BY <2>1 DEF Seated
  <2> QED BY <1>4, <2>2
<1> QED BY <1>1, <1>2, <1>3, <1>4 DEF Seated

LEMMA SameFed ==
  ASSUME TypeOK, late' = late, cache'.server = cache.server, cache'.stale = cache.stale,
         Seated, FreshIsFed,
         \A t \in Sessions :
            /\ Goes(t)
            /\ sess'[t].terminated => sess[t].terminated
            /\ sess[t].pc = "offline" => sess'[t].pc = "offline"
            /\ sess'[t].pc = "done" =>
                  sess[t].pc = "done" \/ (current # t /\ sess[t].pc \in Attending),
         \/ current' = current
         \/ current # 0 /\ current' = 0 /\ sess'[current].pc \notin Attending
  PROVE  Seated' /\ FreshIsFed'
<1>1. Seated' /\ \A t \in Sessions : Latest(t)' <=> Latest(t)
  <2>1. \A t \in Sessions : Goes(t)
    OBVIOUS
  <2> QED BY <2>1, SameSeated
<1>2. FreshIsFed'
  <2> SUFFICES ASSUME ~late, cache.server # 0, ~cache.stale
               PROVE  \E s \in Sessions :
                        \/ sess'[s].pc = "offline"
                        \/ Latest(s)' /\ sess'[s].pc # "done" /\ ~sess'[s].terminated
    BY DEF FreshIsFed
  <2>1. PICK s \in Sessions :
           \/ sess[s].pc = "offline"
           \/ Latest(s) /\ sess[s].pc # "done" /\ ~sess[s].terminated
    BY DEF FreshIsFed
  <2>2. CASE sess[s].pc = "offline"
    BY <2>2
  <2>3. CASE Latest(s) /\ sess[s].pc # "done" /\ ~sess[s].terminated
    <3>1. Latest(s)' /\ ~sess'[s].terminated
      BY <1>1, <2>3
    <3>2. sess'[s].pc # "done"
      BY <2>3 DEF Seated
    <3> QED BY <3>1, <3>2
  <2> QED BY <2>1, <2>2, <2>3
<1> QED BY <1>1, <1>2

\* A step that leaves the cache, the rows and the operations alone.
LEMMA Still ==
  ASSUME IInv, TypeOK', UNCHANGED << hist, base, cache, store, late, astray, wr, rl >>,
         \A t \in Sessions : Follows(t)',
         \A t \in Sessions :
            /\ sess'[t].pc = "publish" <=> sess[t].pc = "publish"
            /\ sess[t].pc = "publish" => sess'[t].batch = sess[t].batch,
         current' # current => current' = 0 \/ sess[current'].pc # "publish",
         Seated', FreshIsFed'
  PROVE  IInv'
<1>1. SameCache
  BY DEF SameCache
<1>2. Aged' /\ Based'
  BY SamePast DEF IInv
<1>3. Cached' /\ Written' /\ Reloading'
  BY <1>1, SameCached, SameOps DEF IInv
<1>4. Mirrored'
  BY <1>1, SameMirror DEF IInv
<1> QED BY <1>2, <1>3, <1>4 DEF IInv

\* Such a step of one session.
LEMMA Quiet ==
  ASSUME IInv, TypeOK', UNCHANGED << hist, base, cache, store, late, astray, wr, rl >>,
         \A t \in Sessions : Follows(t)',
         \A t \in Sessions :
            /\ sess'[t].pc = "publish" <=> sess[t].pc = "publish"
            /\ sess[t].pc = "publish" => sess'[t].batch = sess[t].batch,
         \A t \in Sessions :
            /\ Goes(t)
            /\ sess'[t].terminated => sess[t].terminated
            /\ sess[t].pc = "offline" => sess'[t].pc = "offline"
            /\ sess'[t].pc = "done" =>
                  sess[t].pc = "done" \/ (current # t /\ sess[t].pc \in Attending),
         \/ current' = current
         \/ current # 0 /\ current' = 0 /\ sess'[current].pc \notin Attending
  PROVE  IInv'
<1>1. Seated' /\ FreshIsFed'
  BY SameFed DEF IInv
<1>2. current' # current => current' = 0 \/ sess[current'].pc # "publish"
  OBVIOUS
<1> QED BY <1>1, <1>2, Still

LEMMA Others ==
  ASSUME IInv, TypeOK', Grown, NEW s \in Sessions, OnlySession(s), Follows(s)',
         \A t \in Sessions : t # s => stream'[t] = stream[t] /\ watch'[t] = watch[t],
         \/ SameCache /\ late' = late
         \/ ~late' => current = s,
         current' = current \/ (current = s /\ current' = 0)
  PROVE  \A t \in Sessions : Follows(t)'
<1> SUFFICES ASSUME NEW t \in Sessions, t # s PROVE Follows(t)'
  OBVIOUS
<1>0. 0 \notin Sessions
  BY DEF Sessions
<1>1. Follows(t) /\ TypeOK /\ Aged /\ Based
  BY DEF IInv
<1>2. SameReader(t)
  BY <1>0 DEF SameReader, SameCache
<1>3. watch[t].on => current = t
  BY <1>1 DEF Follows, Placed
<1>4. Untroubled(t)
  BY <1>0, <1>2, <1>3 DEF Untroubled, OnlySession
<1> QED BY <1>1, <1>4, Bystander

-----------------------------------------------------------------------------
(***************************************************************************)
(* The steps of a session                                                  *)
(***************************************************************************)

LEMMA OpenStep ==
  ASSUME IInv, NEW s \in Sessions, Open(s)
  PROVE  IInv'
<1>0. 0 \notin Sessions
  BY DEF Sessions
<1>1. TypeOK /\ Aged /\ Based /\ Follows(s) /\ \A t \in Sessions : Follows(t)
  BY DEF IInv
<1>2. /\ OnlySession(s) /\ sess'[s].pc = "opening"
      /\ sess'[s].terminated = sess[s].terminated
  BY <1>1, OpenSets DEF Open
<1>3. Grown
  BY <1>1, SameGrown DEF Open, controller
<1>4. sess[s].pc = "idle" /\ sess[s] = NoSession /\ stream[s] = << >>
  BY <1>1 DEF Open, Follows, Placed
<1>5. ~sess[s].terminated
  BY <1>4 DEF NoSession
<1>6. watch' \in [Sessions -> Watches] /\ \A t \in Sessions : watch'[t] = NoWatch
  BY Constants DEF Open
<1>7. current' = s /\ s \in 0..MaxSessions /\ cancelled' \in BOOLEAN
  <2>1. cancelled' = FALSE
    BY DEF Open
  <2>2. current' = s /\ s \in 0..MaxSessions
    BY DEF Open, Sessions
  <2> QED BY <2>1, <2>2
<1>8. TypeOK'
  BY <1>1, <1>2, <1>6, <1>7 DEF TypeOK, Open, controller, ops, OnlySession, Server
<1>9. Follows(s)'
  BY <1>2, <1>4, <1>6, Opening DEF Open
<1>10. \A t \in Sessions : Follows(t)'
  <2> SUFFICES ASSUME NEW t \in Sessions, t # s PROVE Follows(t)'
    BY <1>9
  <2>1. ~watch'[t].on
    BY <1>6 DEF NoWatch
  <2>2. SameReader(t) /\ current' # t
    BY <1>7 DEF SameReader
  <2>3. Untroubled(t)
    BY <1>2, <1>6, <2>1, <2>2 DEF Untroubled, OnlySession, Open
  <2> QED BY <1>1, <1>3, <1>8, <2>3, Bystander
<1>11. UNCHANGED << hist, base, cache, store, late, astray, wr, rl >>
  BY DEF Open, controller, ops
<1>12. \A t \in Sessions :
          /\ sess'[t].pc = "publish" <=> sess[t].pc = "publish"
          /\ sess[t].pc = "publish" => sess'[t].batch = sess[t].batch
  BY <1>2, <1>4 DEF OnlySession
<1>13. current' # current => current' = 0 \/ sess[current'].pc # "publish"
  BY <1>4, <1>7
<1>14. /\ \A t \in Sessions : t > s => sess[t].pc = "idle"
       /\ \A t \in Sessions : t < s => sess[t].pc # "idle"
  BY <1>4 DEF IInv, Seated, Open
<1>15. Latest(s)' /\ \A t \in Sessions : Latest(t)' => t = s
  <2>1. \A t \in Sessions : t \in Nat
    BY DEF Sessions
  <2>2. \A t \in Sessions : t > s => sess'[t].pc = "idle"
    BY <1>2, <1>14, <2>1 DEF OnlySession
  <2> QED BY <1>2, <2>1, <2>2 DEF Latest
<1>16. Seated'
  <2>1. \A t, u \in Sessions : t < u /\ sess'[u].pc # "idle" => sess'[t].pc # "idle"
    BY <1>2, <1>14 DEF OnlySession, IInv, Seated
  <2> QED BY <1>7, <1>15, <2>1 DEF Seated
<1>17. FreshIsFed'
  BY <1>2, <1>5, <1>15 DEF FreshIsFed
<1> QED BY <1>8, <1>10, <1>11, <1>12, <1>13, <1>16, <1>17, Still

LEMMA BeginStep ==
  ASSUME IInv, NEW s \in Sessions, Begin(s)
  PROVE  IInv'
<1>1. TypeOK /\ Aged /\ Based /\ Follows(s)
  BY DEF IInv
<1>2. UNCHANGED << hist, base, faults, stream, current, cancelled, cache, store, late,
                   astray, wr, rl >>
  BY DEF Begin, controller, registry, ops
<1>3. sess[s].pc = "opening" /\ stream[s] = << >>
  BY <1>1 DEF Begin, Follows, Placed
<1>4. /\ OnlySession(s) /\ sess'[s].pc = "run" /\ sess'[s].rid = 1
      /\ sess'[s].server = cache.server /\ sess'[s].terminated = sess[s].terminated
  BY <1>1, BeginSets DEF Begin
<1>5. /\ watch' \in [Sessions -> Watches]
      /\ watch'[s] = IF current = s THEN Asked(1, cache.version) ELSE NoWatch
      /\ \A t \in Sessions : t # s => watch'[t] = watch[t]
  <2>1. NoWatch \in Watches /\ cache.version \in Nat
    BY <1>1, Constants DEF TypeOK, Cache
  <2>2. Asked(1, cache.version) \in Watches
    BY <2>1 DEF Asked, Watches, NoWatch
  <2> QED BY <1>1, <2>1, <2>2 DEF Begin, TypeOK
<1>6. TypeOK'
  BY <1>1, <1>2, <1>4, <1>5 DEF TypeOK, OnlySession, Server
<1>7. Grown
  BY <1>1, <1>2, SameGrown
<1>8. Follows(s)'
  BY <1>2, <1>3, <1>4, <1>5, Begun
<1>9. \A t \in Sessions : Follows(t)'
  BY <1>2, <1>4, <1>5, <1>6, <1>7, <1>8, Others DEF SameCache
<1>10. \A t \in Sessions :
          /\ sess'[t].pc = "publish" <=> sess[t].pc = "publish"
          /\ sess[t].pc = "publish" => sess'[t].batch = sess[t].batch
          /\ Goes(t)
          /\ sess'[t].terminated => sess[t].terminated
          /\ sess[t].pc = "offline" => sess'[t].pc = "offline"
          /\ sess'[t].pc = "done" =>
                sess[t].pc = "done" \/ (current # t /\ sess[t].pc \in Attending)
  BY <1>3, <1>4 DEF OnlySession, Goes, Attending, Active
<1> QED BY <1>2, <1>6, <1>9, <1>10, Quiet

\* The loop of a session ends.
LEMMA LeaveStep ==
  ASSUME IInv, NEW s \in Sessions, NEW pc \in {"done", "offline", "gone"}, Leave(s, pc),
         UNCHANGED << hist, base, faults, cache, store, late, astray, wr, rl >>,
         cancelled' \in BOOLEAN, sess[s].pc \in {"opening", "run", "backoff", "ending"},
         \/ current' = current /\ pc = "gone"
         \/ current' = current /\ current # s /\ pc = "done"
         \/ current = s /\ current' = 0 /\ pc \in {"offline", "gone"}
  PROVE  IInv'
<1>0. 0 \notin Sessions /\ pc \in SessPCs
  BY DEF Sessions, SessPCs
<1>1. TypeOK
  BY DEF IInv
<1>2. /\ OnlySession(s)
      /\ sess'[s].pc = pc /\ ~sess'[s].terminated
      /\ stream' \in [Sessions -> Seq(Messages)] /\ watch' \in [Sessions -> Watches]
      /\ stream'[s] = << >> /\ watch'[s] = NoWatch
      /\ \A t \in Sessions : t # s => stream'[t] = stream[t] /\ watch'[t] = watch[t]
  BY <1>0, <1>1, LeaveSets
<1>3. Grown
  BY <1>1, SameGrown
<1>4. current' \in 0..MaxSessions
  BY <1>1, BoundsAssumption DEF TypeOK
<1>5. TypeOK'
  BY <1>1, <1>2, <1>4 DEF TypeOK, OnlySession, Server
<1>6. Follows(s)'
  BY <1>0, <1>2, Ended
<1>7. \A t \in Sessions : Follows(t)'
  BY <1>2, <1>3, <1>5, <1>6, Others DEF SameCache
<1>8. \A t \in Sessions :
          /\ sess'[t].pc = "publish" <=> sess[t].pc = "publish"
          /\ sess[t].pc = "publish" => sess'[t].batch = sess[t].batch
          /\ Goes(t)
          /\ sess'[t].terminated => sess[t].terminated
          /\ sess[t].pc = "offline" => sess'[t].pc = "offline"
          /\ sess'[t].pc = "done" =>
                sess[t].pc = "done" \/ (current # t /\ sess[t].pc \in Attending)
  BY <1>2 DEF OnlySession, Goes, Attending, Active
<1>9. \/ current' = current
      \/ current # 0 /\ current' = 0 /\ sess'[current].pc \notin Attending
  BY <1>0, <1>2 DEF Attending, Active
<1> QED BY <1>5, <1>7, <1>8, <1>9, Quiet

LEMMA OfflineSets ==
  ASSUME TypeOK, NEW s \in Sessions, MarkOffline(s)
  PROVE  /\ cancelled' \in BOOLEAN
         /\ current = s => current' = 0
         /\ current # s => current' = current
  BY DEF MarkOffline, registry, TypeOK

LEMMA DisconnectStep ==
  ASSUME IInv, NEW s \in Sessions, Disconnect(s)
  PROVE  IInv'
<1>0. TypeOK
  BY DEF IInv
<1>1. UNCHANGED << hist, base, faults, cache, store, late, astray, wr, rl >>
  BY DEF Disconnect, controller, ops
<1>2. sess[s].pc \in {"opening", "run", "backoff", "ending"}
  BY DEF Disconnect
<1>3. /\ cancelled' \in BOOLEAN
      /\ current = s => current' = 0
      /\ current # s => current' = current
  BY <1>0, OfflineSets DEF Disconnect
<1>4. CASE current = s
  BY <1>1, <1>2, <1>3, <1>4, LeaveStep DEF Disconnect
<1>5. CASE current # s
  BY <1>1, <1>2, <1>3, <1>5, LeaveStep DEF Disconnect
<1> QED BY <1>4, <1>5

LEMMA AbandonStep ==
  ASSUME IInv, NEW s \in Sessions, Abandon(s)
  PROVE  IInv'
<1>0. TypeOK
  BY DEF IInv
<1>1. UNCHANGED << hist, base, faults, cache, store, late, astray, wr, rl >>
  BY DEF Abandon, controller, ops
<1>2. sess[s].pc \in {"opening", "run", "backoff", "ending"} /\ Leave(s, "gone")
  BY DEF Abandon
<1>3. /\ cancelled' \in BOOLEAN
      /\ current' = current \/ (current = s /\ current' = 0)
  BY <1>0, OfflineSets DEF Abandon, registry, TypeOK
<1> QED BY <1>1, <1>2, <1>3, LeaveStep

LEMMA GoneStep ==
  ASSUME IInv, NEW s \in Sessions, Superseded(s) \/ BackoffStops(s)
  PROVE  IInv'
<1>0. TypeOK
  BY DEF IInv
<1>1. UNCHANGED << hist, base, faults, current, cancelled, cache, store, late, astray, wr, rl >>
  BY DEF Superseded, BackoffStops, controller, registry, ops
<1>2. sess[s].pc \in {"opening", "run", "backoff", "ending"} /\ Leave(s, "gone")
  BY DEF Superseded, BackoffStops
<1>3. cancelled' \in BOOLEAN
  BY <1>0, <1>1 DEF TypeOK
<1> QED BY <1>1, <1>2, <1>3, LeaveStep

\* The message at the head of the stream is the one the session then holds.
LEMMA Taken ==
  ASSUME TypeOK, NEW s \in Sessions, sess[s].pc = "run", stream[s] # << >>,
         sess'[s].pc = "apply", sess'[s].msg = Head(stream[s]),
         stream'[s] = Tail(stream[s])
  PROVE  LineMoves(s, 0)
<1>1. stream[s] \in Seq(Messages) /\ Len(stream[s]) \in Nat /\ Len(stream[s]) >= 1
  BY DEF TypeOK
<1>2. /\ Len(stream'[s]) = Len(stream[s]) - 1 /\ Head(stream[s]) = stream[s][1]
      /\ \A i \in 1..(Len(stream[s]) - 1) : stream'[s][i] = stream[s][i + 1]
  BY <1>1
<1>3. Held(s) = 0 /\ Held(s)' = 1
  BY DEF Held
<1>4. Size(s) = Len(stream[s]) /\ Size(s)' = Len(stream[s])
  BY <1>1, <1>2, <1>3 DEF Size
<1>5. ASSUME NEW i \in 1..Size(s) PROVE At(s, i)' = At(s, i)
  <2>1. ~(i <= Held(s)) /\ i - Held(s) = i
    BY <1>3, <1>4
  <2>2. At(s, i) = stream[s][i]
    BY <2>1 DEF At
  <2>3. CASE i = 1
    BY <1>2, <1>3, <2>2, <2>3 DEF At
  <2>4. CASE i # 1
    <3>1. ~(i <= 1) /\ i - 1 \in 1..(Len(stream[s]) - 1) /\ (i - 1) + 1 = i
      BY <1>1, <1>4, <2>4
    <3>2. At(s, i)' = stream'[s][i - 1]
      BY <1>3, <3>1 DEF At
    <3> QED BY <1>2, <2>2, <3>1, <3>2
  <2> QED BY <2>3, <2>4
<1>6. \A i \in 1..Size(s) : i + 0 = i
  OBVIOUS
<1> QED BY <1>1, <1>4, <1>5, <1>6 DEF LineMoves

\* The message a session held is gone.
LEMMA Dropped ==
  ASSUME TypeOK, NEW s \in Sessions, sess[s].pc = "apply", sess'[s].pc # "apply",
         stream'[s] = stream[s]
  PROVE  LineMoves(s, 1) /\ At(s, 1) = sess[s].msg /\ Size(s) >= 1
<1>1. Len(stream[s]) \in Nat
  BY DEF TypeOK
<1>2. Held(s) = 1 /\ Held(s)' = 0
  BY DEF Held
<1>3. Size(s) = Len(stream[s]) + 1 /\ Size(s)' = Len(stream[s])
  BY <1>1, <1>2 DEF Size
<1>4. ASSUME NEW i \in 1..(Size(s) - 1) PROVE At(s, i)' = At(s, i + 1)
  <2>1. ~(i <= 0) /\ ~(i + 1 <= 1) /\ i - 0 = i /\ (i + 1) - 1 = i
    BY <1>1, <1>3
  <2> QED BY <1>2, <2>1 DEF At
<1>5. At(s, 1) = sess[s].msg
  BY <1>2 DEF At
<1> QED BY <1>1, <1>3, <1>4, <1>5 DEF LineMoves

LEMMA ReceiveStep ==
  ASSUME IInv, NEW s \in Sessions, Receive(s)
  PROVE  IInv'
<1>1. TypeOK /\ Aged /\ Based /\ Follows(s)
  BY DEF IInv
<1>2. UNCHANGED << hist, base, faults, cache, store, late, astray, wr, rl, current, cancelled >>
  BY DEF Receive, controller, registry, ops
<1>3. sess[s].pc = "run" /\ stream[s] # << >>
  BY DEF Receive
<1>4. /\ sess' = [sess EXCEPT ![s].pc = "apply", ![s].msg = Head(stream[s])]
      /\ stream' = [stream EXCEPT ![s] = Tail(@)] /\ watch' = watch
  BY DEF Receive
<1>5. /\ stream[s] \in Seq(Messages) /\ Head(stream[s]) \in Messages
      /\ Tail(stream[s]) \in Seq(Messages)
  BY <1>1, <1>3 DEF TypeOK
<1>6. /\ OnlySession(s)
      /\ sess'[s].pc = "apply" /\ sess'[s].rid = sess[s].rid
      /\ sess'[s].server = sess[s].server
      /\ sess'[s].terminated = sess[s].terminated
      /\ sess'[s].msg = Head(stream[s])
  BY <1>1, <1>4, <1>5, ReceiveSets
<1>7. /\ stream' \in [Sessions -> Seq(Messages)] /\ stream'[s] = Tail(stream[s])
      /\ \A t \in Sessions : t # s => stream'[t] = stream[t]
  BY <1>1, <1>4, <1>5 DEF TypeOK
<1>8. TypeOK'
  BY <1>1, <1>2, <1>4, <1>6, <1>7 DEF TypeOK, OnlySession, Server
<1>9. Grown
  BY <1>1, <1>2, SameGrown
<1>10. LineMoves(s, 0)
  BY <1>1, <1>3, <1>6, <1>7, Taken
<1>11. Passes(s, 0)
  BY <1>2, <1>3, <1>4, <1>6, <1>10 DEF Passes, SameReader, Active, Reading
<1>12. Placed(s)'
  BY <1>1, <1>2, <1>3, <1>4, <1>6 DEF Follows, Placed, Active, Now, Server
<1>13. Follows(s)'
  BY <1>1, <1>8, <1>9, <1>11, <1>12, Passed
<1>14. \A t \in Sessions : Follows(t)'
  BY <1>2, <1>4, <1>6, <1>7, <1>8, <1>9, <1>13, Others DEF SameCache
<1>15. \A t \in Sessions :
        /\ sess'[t].pc = "publish" <=> sess[t].pc = "publish"
        /\ sess[t].pc = "publish" => sess'[t].batch = sess[t].batch
        /\ Goes(t)
        /\ sess'[t].terminated => sess[t].terminated
        /\ sess[t].pc = "offline" => sess'[t].pc = "offline"
        /\ sess'[t].pc = "done" =>
              sess[t].pc = "done" \/ (current # t /\ sess[t].pc \in Attending)
  BY <1>3, <1>6 DEF OnlySession, Goes, Attending, Active
<1> QED BY <1>2, <1>8, <1>14, <1>15, Quiet

\* A session drops the message it holds and goes on, or backs off.
LEMMA DropStep ==
  ASSUME IInv, NEW s \in Sessions, sess[s].pc = "apply", NEW pc \in {"run", "backoff", "ending"},
         Goto(s, pc), UNCHANGED << hist, base, faults, watch, stream, current, cancelled, cache,
                                   store, late, astray, wr, rl >>,
         pc = "run" => Skipped(s)
  PROVE  IInv'
<1>0. pc \in SessPCs
  BY DEF SessPCs
<1>1. TypeOK /\ Aged /\ Based /\ Follows(s)
  BY DEF IInv
<1>2. /\ OnlySession(s)
      /\ sess'[s].pc = pc /\ sess'[s].rid = sess[s].rid
      /\ sess'[s].server = sess[s].server
      /\ sess'[s].terminated = sess[s].terminated
  BY <1>0, <1>1, GotoSets
<1>3. TypeOK'
  BY <1>1, <1>2 DEF TypeOK, OnlySession, Server
<1>4. Grown
  BY <1>1, SameGrown
<1>5. LineMoves(s, 1) /\ At(s, 1) = sess[s].msg
  BY <1>1, <1>2, Dropped
<1>6. pc = "run" /\ ~sess'[s].terminated => Fresh(s, 1)
  BY <1>2, <1>5 DEF Skipped, Fresh
<1>7. Passes(s, 1)
  BY <1>2, <1>5, <1>6 DEF Passes, SameReader, Active, Reading
<1>8. Placed(s)'
  BY <1>1, <1>2 DEF Follows, Placed, Active, Now, Server
<1>9. Follows(s)'
  BY <1>1, <1>3, <1>4, <1>7, <1>8, Passed
<1>10. \A t \in Sessions : Follows(t)'
  BY <1>2, <1>3, <1>4, <1>9, Others DEF SameCache
<1>11. \A t \in Sessions :
          /\ sess'[t].pc = "publish" <=> sess[t].pc = "publish"
          /\ sess[t].pc = "publish" => sess'[t].batch = sess[t].batch
          /\ Goes(t)
          /\ sess'[t].terminated => sess[t].terminated
          /\ sess[t].pc = "offline" => sess'[t].pc = "offline"
          /\ sess'[t].pc = "done" =>
                sess[t].pc = "done" \/ (current # t /\ sess[t].pc \in Attending)
  BY <1>2 DEF OnlySession, Goes, Attending, Active
<1> QED BY <1>3, <1>10, <1>11, Quiet

LEMMA ApplySkippedStep ==
  ASSUME IInv, NEW s \in Sessions, ApplySkipped(s)
  PROVE  IInv'
  BY DropStep DEF ApplySkipped, controller, registry, ops

LEMMA RecheckStep ==
  ASSUME IInv, NEW s \in Sessions, Recheck(s)
  PROVE  IInv'
  BY DropStep DEF Recheck, controller, registry, ops

LEMMA ApplyBackoffStep ==
  ASSUME IInv, NEW s \in Sessions, ApplyBackoff(s)
  PROVE  IInv'
  BY DropStep DEF ApplyBackoff, controller, registry, ops

\* The watch is asked for again.
LEMMA AgainStep ==
  ASSUME IInv, NEW s \in Sessions, NEW off, LineMoves(s, off),
         sess[s].pc \in {"apply", "backoff"},
         \/ sess' = [sess EXCEPT ![s].pc = "run", ![s].rid = @ + 1]
         \/ sess' = [sess EXCEPT ![s].pc = "run", ![s].msg = NoMessage, ![s].rid = @ + 1],
         Request(s, sess[s].rid + 1, 0),
         UNCHANGED << hist, base, faults, stream, current, cancelled, cache, store, late,
                      astray, wr, rl >>
  PROVE  IInv'
<1>1. TypeOK /\ Aged /\ Based /\ Follows(s)
  BY DEF IInv
<1>2. /\ OnlySession(s)
      /\ sess'[s].pc = "run" /\ sess'[s].rid = sess[s].rid + 1
      /\ sess'[s].server = sess[s].server
      /\ sess'[s].terminated = sess[s].terminated
      /\ watch' \in [Sessions -> Watches]
      /\ \A t \in Sessions : t # s => watch'[t] = watch[t]
      /\ watch'[s] = IF watch[s].on THEN Asked(sess[s].rid + 1, 0) ELSE NoWatch
  BY <1>1, AgainSets
<1>3. TypeOK'
  BY <1>1, <1>2 DEF TypeOK, OnlySession, Server
<1>4. Grown
  BY <1>1, SameGrown
<1>5. Follows(s)'
  <2>1. SameReader(s) /\ sess[s].pc \in Active
    BY DEF SameReader, Active
  <2> QED BY <1>1, <1>2, <1>3, <1>4, <2>1, Rewatched
<1>6. \A t \in Sessions : Follows(t)'
  BY <1>2, <1>3, <1>4, <1>5, Others DEF SameCache
<1>7. \A t \in Sessions :
          /\ sess'[t].pc = "publish" <=> sess[t].pc = "publish"
          /\ sess[t].pc = "publish" => sess'[t].batch = sess[t].batch
          /\ Goes(t)
          /\ sess'[t].terminated => sess[t].terminated
          /\ sess[t].pc = "offline" => sess'[t].pc = "offline"
          /\ sess'[t].pc = "done" =>
                sess[t].pc = "done" \/ (current # t /\ sess[t].pc \in Attending)
  BY <1>2 DEF OnlySession, Goes, Attending, Active
<1> QED BY <1>3, <1>6, <1>7, Quiet

LEMMA ApplyReWatchStep ==
  ASSUME IInv, NEW s \in Sessions, ApplyReWatch(s)
  PROVE  IInv'
<1>1. TypeOK
  BY DEF IInv
<1>2. /\ sess' = [sess EXCEPT ![s].pc = "run", ![s].msg = NoMessage, ![s].rid = @ + 1]
      /\ sess[s].pc = "apply" /\ Request(s, sess[s].rid + 1, 0)
      /\ UNCHANGED << hist, base, faults, stream, current, cancelled, cache, store, late,
                      astray, wr, rl >>
  BY DEF ApplyReWatch, controller, registry, ops
<1>3. sess'[s].pc = "run"
  BY <1>1, <1>2, AgainSets
<1>4. LineMoves(s, 1)
  BY <1>1, <1>2, <1>3, Dropped
<1> QED BY <1>2, <1>4, AgainStep

LEMMA BackoffEndsStep ==
  ASSUME IInv, NEW s \in Sessions, BackoffEnds(s)
  PROVE  IInv'
<1>1. TypeOK
  BY DEF IInv
<1>2. /\ sess' = [sess EXCEPT ![s].pc = "run", ![s].rid = @ + 1]
      /\ sess[s].pc = "backoff" /\ Request(s, sess[s].rid + 1, 0)
      /\ UNCHANGED << hist, base, faults, stream, current, cancelled, cache, store, late,
                      astray, wr, rl >>
  BY DEF BackoffEnds, controller, registry, ops
<1>3. sess'[s].pc = "run"
  BY <1>1, <1>2, AgainSets
<1>4. LineMoves(s, 0)
  <2>1. Held(s) = 0 /\ Held(s)' = 0
    BY <1>2, <1>3 DEF Held
  <2>2. Len(stream[s]) \in Nat
    BY <1>1 DEF TypeOK
  <2>3. Size(s)' = Size(s) /\ Size(s) = Len(stream[s])
    BY <1>2, <2>1, <2>2 DEF Size
  <2>4. ASSUME NEW i \in 1..Size(s) PROVE At(s, i)' = At(s, i) /\ i + 0 = i
    <3>1. ~(i <= 0)
      BY <2>2, <2>3
    <3> QED BY <1>2, <2>1, <3>1 DEF At
  <2> QED BY <2>2, <2>3, <2>4 DEF LineMoves
<1> QED BY <1>2, <1>4, AgainStep

-----------------------------------------------------------------------------
(***************************************************************************)
(* Steps that mark the cache stale                                         *)
(***************************************************************************)

LEMMA StaleCache ==
  ASSUME TypeOK, cache' = [cache EXCEPT !.stale = TRUE]
  PROVE  SameCache /\ cache' \in Cache /\ cache'.stale
<1>1. cache \in Cache
  BY DEF TypeOK
<1>2. cache' \in Cache
  BY <1>1 DEF Cache
<1>3. cache'.stale = TRUE
  BY <1>1 DEF Cache
<1>4. SameCache
  BY <1>1 DEF SameCache, Cache
<1> QED BY <1>2, <1>3, <1>4

LEMMA StaleStep ==
  ASSUME IInv, TypeOK', SameCache, cache'.stale,
         UNCHANGED << hist, base, current, store, late, astray, wr, rl >>,
         \A t \in Sessions : Follows(t)',
         \A t \in Sessions :
            /\ sess'[t].pc = "publish" <=> sess[t].pc = "publish"
            /\ sess[t].pc = "publish" => sess'[t].batch = sess[t].batch,
         \A t \in Sessions : Goes(t)
  PROVE  IInv'
<1>1. Aged' /\ Based'
  BY SamePast DEF IInv
<1>2. Cached' /\ Written' /\ Reloading'
  BY SameCached, SameOps DEF IInv
<1>3. Mirrored'
  BY SameMirror DEF IInv
<1>4. Seated' /\ FreshIsFed'
  BY SameSeated DEF FreshIsFed, IInv
<1> QED BY <1>1, <1>2, <1>3, <1>4 DEF IInv

LEMMA SetStaleStep ==
  ASSUME IInv, NEW s \in Sessions, SetStale(s)
  PROVE  IInv'
<1>0. "done" \in SessPCs
  BY DEF SessPCs
<1>1. TypeOK /\ Aged /\ Based /\ Follows(s)
  BY DEF IInv
<1>2. UNCHANGED << hist, base, faults, watch, stream, current, cancelled, store, late, astray,
                   wr, rl >>
  BY DEF SetStale, controller, registry, ops
<1>3. sess[s].pc = "offline" /\ Goto(s, "done") /\ cache' = [cache EXCEPT !.stale = TRUE]
  BY DEF SetStale
<1>4. OnlySession(s) /\ sess'[s].pc = "done" /\ sess'[s].rid = sess[s].rid
      /\ sess'[s].server = sess[s].server /\ sess'[s].terminated = sess[s].terminated
  BY <1>0, <1>1, <1>3, GotoSets
<1>5. SameCache /\ cache' \in Cache /\ cache'.stale
  BY <1>1, <1>3, StaleCache
<1>6. TypeOK'
  BY <1>1, <1>2, <1>4, <1>5 DEF TypeOK, OnlySession, Server, SameCache
<1>7. Grown
  BY <1>1, <1>2, SameGrown
<1>8. LineMoves(s, 0)
  <2>1. Held(s) = 0 /\ Held(s)' = 0
    BY <1>3, <1>4 DEF Held
  <2>2. Len(stream[s]) \in Nat
    BY <1>1 DEF TypeOK
  <2>3. Size(s)' = Size(s) /\ Size(s) = Len(stream[s])
    BY <1>2, <2>1, <2>2 DEF Size
  <2>4. ASSUME NEW i \in 1..Size(s) PROVE At(s, i)' = At(s, i) /\ i + 0 = i
    <3>1. ~(i <= 0)
      BY <2>2, <2>3
    <3> QED BY <1>2, <2>1, <3>1 DEF At
  <2> QED BY <2>2, <2>3, <2>4 DEF LineMoves
<1>9. Passes(s, 0)
  BY <1>2, <1>4, <1>5, <1>8 DEF Passes, SameReader, Active, Reading, SameCache
<1>10. Placed(s)'
  BY <1>1, <1>2, <1>3, <1>4 DEF Follows, Placed, Active
<1>11. Follows(s)'
  BY <1>1, <1>6, <1>7, <1>9, <1>10, Passed
<1>12. \A t \in Sessions : Follows(t)'
  BY <1>2, <1>4, <1>5, <1>6, <1>7, <1>11, Others
<1>13. \A t \in Sessions :
            /\ sess'[t].pc = "publish" <=> sess[t].pc = "publish"
            /\ sess[t].pc = "publish" => sess'[t].batch = sess[t].batch
  BY <1>3, <1>4 DEF OnlySession
<1>14. \A t \in Sessions : Goes(t)
  BY <1>3, <1>4 DEF OnlySession, Goes, Attending, Active
<1> QED BY <1>2, <1>5, <1>6, <1>12, <1>13, <1>14, StaleStep

\* The watch ends for good: a batch beyond the capacity, or a refusal.
LEMMA TerminateStep ==
  ASSUME IInv, NEW s \in Sessions, sess[s].pc = "apply",
         sess' = [sess EXCEPT ![s].pc = "run", ![s].msg = NoMessage, ![s].terminated = TRUE],
         cache' = [cache EXCEPT !.stale = TRUE],
         UNCHANGED << hist, base, faults, watch, stream, current, cancelled, store, late,
                      astray, wr, rl >>
  PROVE  IInv'
<1>1. TypeOK /\ Aged /\ Based /\ Follows(s)
  BY DEF IInv
<1>2. /\ OnlySession(s) /\ sess'[s].pc = "run" /\ sess'[s].rid = sess[s].rid
      /\ sess'[s].server = sess[s].server /\ sess'[s].terminated
  BY <1>1, TerminateSets
<1>3. SameCache /\ cache' \in Cache /\ cache'.stale
  BY <1>1, StaleCache
<1>4. TypeOK'
  BY <1>1, <1>2, <1>3 DEF TypeOK, OnlySession, Server, SameCache
<1>5. Grown
  BY <1>1, SameGrown
<1>6. LineMoves(s, 1)
  BY <1>1, <1>2, Dropped
<1>7. Passes(s, 1)
  BY <1>2, <1>3, <1>6 DEF Passes, SameReader, Active, Reading, SameCache
<1>8. Placed(s)'
  BY <1>1, <1>2 DEF Follows, Placed, Active, Now, Server
<1>9. Follows(s)'
  BY <1>1, <1>4, <1>5, <1>7, <1>8, Passed
<1>10. \A t \in Sessions : Follows(t)'
  BY <1>2, <1>3, <1>4, <1>5, <1>9, Others
<1>11. \A t \in Sessions :
            /\ sess'[t].pc = "publish" <=> sess[t].pc = "publish"
            /\ sess[t].pc = "publish" => sess'[t].batch = sess[t].batch
  BY <1>2 DEF OnlySession
<1>12. \A t \in Sessions : Goes(t)
  BY <1>2 DEF OnlySession, Goes, Attending, Active
<1> QED BY <1>3, <1>4, <1>10, <1>11, <1>12, StaleStep

LEMMA ApplyForbiddenStep ==
  ASSUME IInv, NEW s \in Sessions, ApplyForbidden(s)
  PROVE  IInv'
  BY TerminateStep DEF ApplyForbidden, controller, registry, ops

LEMMA OverflowStep ==
  ASSUME IInv, NEW s \in Sessions, sess[s].pc = "apply", Overflow(s),
         UNCHANGED << hist, base, faults, watch, stream, current, cancelled, store, late,
                      astray, wr, rl >>
  PROVE  IInv'
  BY TerminateStep DEF Overflow

-----------------------------------------------------------------------------
(***************************************************************************)
(* The override rows                                                       *)
(***************************************************************************)

LEMMA RowType ==
  ASSUME NEW doc \in Doc \cup {NoDoc}
  PROVE  RowOf(doc) \in Doc \cup {NoDoc} /\ RowOf(NoDoc) = NoDoc
  BY DEF RowOf, NoDoc, Overrides

LEMMA UpsertType ==
  ASSUME NEW rows \in State, NEW docs \in State
  PROVE  /\ Upsert(rows, docs) \in State
         /\ \A k \in Keys :
               Upsert(rows, docs)[k] = IF docs[k] # NoDoc THEN RowOf(docs[k]) ELSE rows[k]
  BY RowType DEF Upsert, State

LEMMA PublishedType ==
  ASSUME NEW rows \in State, NEW batch \in Batches
  PROVE  Published(rows, batch) \in State
<1>1. batch.add \in State /\ batch.update \in State
  BY DEF Batches
<1>2. [k \in Keys |-> IF k \in batch.remove THEN NoDoc ELSE rows[k]] \in State
  BY DEF State
<1>3. PartialUpdate(rows, batch) \in State
  <2>1. PICK r \in State : r = [k \in Keys |-> IF k \in batch.remove THEN NoDoc ELSE rows[k]]
    BY <1>2
  <2>2. PICK q \in State : q = Upsert(r, batch.add)
    BY <1>1, UpsertType
  <2>3. Upsert(q, batch.update) \in State
    BY <1>1, UpsertType
  <2> QED BY <2>1, <2>2, <2>3 DEF PartialUpdate
<1>4. FullSet(batch) \in State
  BY <1>1, UpsertType, Constants DEF FullSet
<1> QED BY <1>3, <1>4 DEF Published

\* One row of a partial update.
LEMMA PartialRow ==
  ASSUME NEW rows \in State, NEW batch \in Batches, NEW k \in Keys
  PROVE  PartialUpdate(rows, batch)[k] =
            IF batch.update[k] # NoDoc THEN RowOf(batch.update[k])
            ELSE IF batch.add[k] # NoDoc THEN RowOf(batch.add[k])
            ELSE IF k \in batch.remove THEN NoDoc ELSE rows[k]
<1>1. batch.add \in State /\ batch.update \in State
  BY DEF Batches
<1>2. PICK r \in State : r = [j \in Keys |-> IF j \in batch.remove THEN NoDoc ELSE rows[j]]
  BY DEF State
<1>3. PICK q \in State : q = Upsert(r, batch.add)
  BY <1>1, UpsertType
<1>4. PartialUpdate(rows, batch) = Upsert(q, batch.update)
  BY <1>2, <1>3 DEF PartialUpdate
<1>5. q[k] = IF batch.add[k] # NoDoc THEN RowOf(batch.add[k]) ELSE r[k]
  BY <1>1, <1>3, UpsertType
<1>6. Upsert(q, batch.update)[k] =
         IF batch.update[k] # NoDoc THEN RowOf(batch.update[k]) ELSE q[k]
  BY <1>1, UpsertType
<1>7. r[k] = IF k \in batch.remove THEN NoDoc ELSE rows[k]
  BY <1>2
<1> QED BY <1>4, <1>5, <1>6, <1>7

\* A list replaces every row.
LEMMA FullRows ==
  ASSUME NEW rows, NEW batch \in Batches, batch.full = TRUE, NEW k \in Keys
  PROVE  Published(rows, batch)[k] = RowOf(batch.add[k])
<1>0. PICK state \in State : state = batch.add
  BY DEF Batches
<1>1. Published(rows, batch) = Upsert(Empty, state)
  BY <1>0 DEF Published, FullSet
<1>2. Upsert(Empty, state)[k] = IF state[k] # NoDoc THEN RowOf(state[k]) ELSE Empty[k]
  BY UpsertType, Constants
<1>3. Empty[k] = NoDoc /\ RowOf(NoDoc) = NoDoc
  BY RowType DEF Empty
<1> QED BY <1>0, <1>1, <1>2, <1>3

\* The only event of a key among some.
Alone(events, k, i) ==
    /\ i \in DOMAIN events /\ events[i].key = k
    /\ \A j \in DOMAIN events : events[j].key = k => j = i

LEMMA AfterAt ==
  ASSUME NEW data, NEW events \in Seq(Events), NEW at, at \subseteq DOMAIN events,
         NEW k \in Keys, NEW i, Alone(events, k, i)
  PROVE  /\ k \in Touched(events, at) <=> i \in at
         /\ AfterEvents(data, events, at)[k] = IF i \in at THEN events[i].doc ELSE data[k]
<1>1. k \in Touched(events, at) <=> i \in at
  BY DEF Touched, Alone
<1>2. CASE i \in at
  <2>1. k \in Touched(events, at)
    BY <1>1, <1>2
  <2>2. PICK j \in at : /\ events[j].key = k /\ LastOf(events, at, k) = events[j]
                        /\ \A l \in at : events[l].key = k => l <= j
    BY <2>1, LastIs
  <2>3. j = i
    BY <2>2 DEF Alone
  <2> QED BY <1>2, <2>1, <2>2, <2>3 DEF AfterEvents
<1>3. CASE i \notin at
  BY <1>1, <1>3 DEF AfterEvents
<1> QED BY <1>1, <1>2, <1>3

\* A batch of events, for a key it touches at most once.
LEMMA PartialRows ==
  ASSUME NEW rows \in State, NEW data \in State, NEW events \in Seq(Events),
         \A i \in DOMAIN events : events[i].type = "delete" <=> events[i].doc = NoDoc,
         NEW k \in Keys, k \in Touched(events, DOMAIN events) \/ rows[k] = RowOf(data[k]),
         \A i, j \in DOMAIN events : events[i].key = k /\ events[j].key = k => i = j
  PROVE  /\ BatchOf(events) \in Batches
         /\ Published(rows, BatchOf(events))[k]
               = RowOf(AfterEvents(data, events, DOMAIN events)[k])
<1> DEFINE n == Len(events)
           b == BatchOf(events)
<1>0. n \in Nat /\ DOMAIN events = 1..n
  OBVIOUS
<1>1. \A type : OfType(events, type) \subseteq DOMAIN events
  BY DEF OfType
<1>2. /\ AfterEvents(Empty, events, OfType(events, "add")) \in State
      /\ AfterEvents(Empty, events, OfType(events, "update")) \in State
  BY <1>1, AfterType, Constants
<1>3. Touched(events, OfType(events, "delete")) \subseteq Keys
  <2>1. \A i \in DOMAIN events : events[i] \in Events
    BY <1>0
  <2>2. \A i \in DOMAIN events : events[i].key \in Keys
    BY <2>1 DEF Events
  <2> QED BY <1>1, <2>2 DEF Touched
<1>4. /\ b.add = AfterEvents(Empty, events, OfType(events, "add"))
      /\ b.update = AfterEvents(Empty, events, OfType(events, "update"))
      /\ b.remove = Touched(events, OfType(events, "delete"))
      /\ b.full = FALSE
  BY DEF BatchOf
<1>5. b \in Batches
  BY <1>2, <1>3 DEF Batches, BatchOf
<1> HIDE DEF b
<1>6. Published(rows, b)[k] =
            IF b.update[k] # NoDoc THEN RowOf(b.update[k])
            ELSE IF b.add[k] # NoDoc THEN RowOf(b.add[k])
            ELSE IF k \in b.remove THEN NoDoc ELSE rows[k]
  BY <1>4, <1>5, PartialRow DEF Published
<1>7. Empty[k] = NoDoc /\ RowOf(NoDoc) = NoDoc
  BY RowType DEF Empty
<1>8. CASE \A i \in DOMAIN events : events[i].key # k
  <2>1. \A type : k \notin Touched(events, OfType(events, type))
    BY <1>1, <1>8 DEF Touched
  <2>2. k \notin Touched(events, DOMAIN events)
    BY <1>8 DEF Touched
  <2>3. b.update[k] = NoDoc /\ b.add[k] = NoDoc /\ k \notin b.remove
    BY <1>4, <1>7, <2>1 DEF AfterEvents
  <2>4. AfterEvents(data, events, DOMAIN events)[k] = data[k]
    BY <2>2 DEF AfterEvents
  <2> QED BY <1>5, <1>6, <2>2, <2>3, <2>4 DEF b
<1>9. ASSUME NEW i \in DOMAIN events, events[i].key = k
      PROVE  Published(rows, b)[k] = RowOf(AfterEvents(data, events, DOMAIN events)[k])
  <2>1. Alone(events, k, i)
    BY <1>9 DEF Alone
  <2>2. AfterEvents(data, events, DOMAIN events)[k] = events[i].doc
    <3>1. PICK at : at = DOMAIN events
      OBVIOUS
    <3>2. at \subseteq DOMAIN events /\ i \in at
      BY <3>1
    <3>3. AfterEvents(data, events, at)[k] = IF i \in at THEN events[i].doc ELSE data[k]
      <4>1. at \subseteq DOMAIN events
        BY <3>2
      <4> QED BY <2>1, <4>1, AfterAt, Zenon
    <3> QED BY <3>1, <3>2, <3>3
  <2>3. ASSUME NEW type
        PROVE  /\ k \in Touched(events, OfType(events, type)) <=> events[i].type = type
               /\ AfterEvents(Empty, events, OfType(events, type))[k]
                     = IF events[i].type = type THEN events[i].doc ELSE NoDoc
    <3>1. PICK at : at = OfType(events, type)
      OBVIOUS
    <3>2. at \subseteq DOMAIN events /\ (i \in at <=> events[i].type = type)
      BY <1>0, <1>1, <3>1 DEF OfType
    <3>3. /\ k \in Touched(events, at) <=> i \in at
          /\ AfterEvents(Empty, events, at)[k] = IF i \in at THEN events[i].doc ELSE Empty[k]
      <4>1. PICK e : e = Empty
        OBVIOUS
      <4>2. at \subseteq DOMAIN events
        BY <3>2
      <4>3. /\ k \in Touched(events, at) <=> i \in at
            /\ AfterEvents(e, events, at)[k] = IF i \in at THEN events[i].doc ELSE e[k]
        BY <2>1, <4>2, AfterAt, Zenon
      <4> QED BY <4>1, <4>3
    <3> QED BY <1>7, <3>1, <3>2, <3>3
  <2>4. events[i] \in Events
    BY <1>0
  <2>5. events[i].type \in {"add", "update", "delete"}
    BY <2>4 DEF Events
  <2>6. /\ b.update[k] = IF events[i].type = "update" THEN events[i].doc ELSE NoDoc
        /\ b.add[k] = IF events[i].type = "add" THEN events[i].doc ELSE NoDoc
        /\ k \in b.remove <=> events[i].type = "delete"
    BY <1>4, <2>3
  <2> QED BY <1>6, <1>7, <2>2, <2>5, <2>6
<1> QED BY <1>5, <1>8, <1>9 DEF b

-----------------------------------------------------------------------------
(***************************************************************************)
(* The handler's call, and the two steps that fill the cache               *)
(***************************************************************************)

LEMMA PublishStep ==
  ASSUME IInv, NEW s \in Sessions, Publish(s)
  PROVE  IInv'
<1>0. "run" \in SessPCs
  BY DEF SessPCs
<1>1. TypeOK /\ Aged /\ Based /\ Follows(s)
  BY DEF IInv
<1>2. UNCHANGED << hist, base, faults, watch, stream, current, cancelled, cache, astray,
                   wr, rl >>
  BY DEF Publish, controller, registry, ops
<1>3. /\ sess[s].pc = "publish" /\ Goto(s, "run") /\ late' = (late \/ current # s)
      /\ store' = Published(store, sess[s].batch)
  BY DEF Publish, Published
<1>4. /\ OnlySession(s) /\ sess'[s].pc = "run" /\ sess'[s].rid = sess[s].rid
      /\ sess'[s].server = sess[s].server /\ sess'[s].terminated = sess[s].terminated
  BY <1>0, <1>1, <1>3, GotoSets
<1>5. store' \in State
  <2>1. sess[s].batch \in Batches /\ store \in State
    BY <1>1, SessionType DEF TypeOK
  <2> QED BY <1>3, <2>1, PublishedType
<1>6. late' \in BOOLEAN
  BY <1>3
<1>7. TypeOK'
  BY <1>1, <1>2, <1>4, <1>5, <1>6 DEF TypeOK, OnlySession, Server
<1>8. Grown /\ SameCache
  BY <1>1, <1>2, SameGrown DEF SameCache
<1>9. LineMoves(s, 0)
  <2>1. Held(s) = 0 /\ Held(s)' = 0
    BY <1>3, <1>4 DEF Held
  <2>2. Len(stream[s]) \in Nat
    BY <1>1 DEF TypeOK
  <2>3. Size(s)' = Size(s) /\ Size(s) = Len(stream[s])
    BY <1>2, <2>1, <2>2 DEF Size
  <2>4. ASSUME NEW i \in 1..Size(s) PROVE At(s, i)' = At(s, i) /\ i + 0 = i
    <3>1. ~(i <= 0)
      BY <2>2, <2>3
    <3> QED BY <1>2, <2>1, <3>1 DEF At
  <2> QED BY <2>2, <2>3, <2>4 DEF LineMoves
<1>10. ~late' => ~late /\ current = s
  BY <1>3
<1>11. Passes(s, 0)
  BY <1>2, <1>3, <1>4, <1>9, <1>10 DEF Passes, SameReader, Active, Reading
<1>12. Placed(s)'
  BY <1>1, <1>2, <1>3, <1>4 DEF Follows, Placed, Active, Now, Server
<1>13. Follows(s)'
  BY <1>1, <1>7, <1>8, <1>11, <1>12, Passed
<1>14. \A t \in Sessions : Follows(t)'
  BY <1>2, <1>4, <1>7, <1>8, <1>10, <1>13, Others
<1>15. Aged' /\ Based'
  BY <1>2, SamePast DEF IInv
<1>16. CacheEnd' = CacheEnd /\ Now' = Now
  BY <1>2 DEF CacheEnd, Now
<1>17. Cached' /\ Written' /\ Reloading'
  <2>1. Cached'
    BY <1>2, <1>10, <1>16 DEF IInv, Cached
  <2>2. Written'
    BY <1>2, <1>10, <1>16 DEF IInv, Written
  <2>3. Reloading'
    BY <1>2, <1>10, <1>16 DEF IInv, Reloading
  <2> QED BY <2>1, <2>2, <2>3
<1>18. Mirrored'
  <2> SUFFICES ASSUME ~late' PROVE Mirrored'
    BY DEF Mirrored
  <2>1. CASE \E t \in Sessions : t # s /\ sess[t].pc = "publish"
    BY <1>2, <1>4, <1>10, <2>1 DEF Mirrored, OnlySession
  <2>2. CASE ~\E t \in Sessions : t # s /\ sess[t].pc = "publish"
    <3>1. \A k \in Keys \ astray :
             Published(store, sess[s].batch)[k] = RowOf(cache.data[k])
      BY <1>3, <1>10, <2>2 DEF IInv, Mirrored
    <3>2. \A t \in Sessions : sess'[t].pc # "publish"
      BY <1>4, <2>2 DEF OnlySession
    <3>3. \A k \in Keys \ astray' : store'[k] = RowOf(cache'.data[k])
      BY <1>2, <1>3, <3>1
    <3> QED BY <3>2, <3>3 DEF Mirrored
  <2> QED BY <2>1, <2>2
<1>19. \A t \in Sessions : Goes(t)
  BY <1>3, <1>4 DEF OnlySession, Goes, Attending, Active
<1>20. Seated' /\ \A t \in Sessions : Latest(t)' <=> Latest(t)
  BY <1>1, <1>2, <1>19, SameSeated DEF IInv
<1>21. FreshIsFed'
  <2>1. \A t \in Sessions : /\ sess'[t].terminated = sess[t].terminated
                            /\ sess[t].pc = "offline" => sess'[t].pc = "offline"
                            /\ sess[t].pc # "done" => sess'[t].pc # "done"
    BY <1>3, <1>4 DEF OnlySession
  <2>2. FreshIsFed
    BY DEF IInv
  <2> QED BY <1>2, <1>10, <1>20, <2>1, <2>2 DEF FreshIsFed
<1> QED BY <1>7, <1>14, <1>15, <1>17, <1>18, <1>20, <1>21 DEF IInv

\* The cache is filled from the message the session holds.
LEMMA StoreStep ==
  ASSUME IInv, NEW s \in Sessions, sess[s].pc = "apply", ~Skipped(s),
         NEW m, m = sess[s].msg, Carries(m), NEW data \in State, NEW batch \in Batches,
         Store(s, data, batch), late' = (late \/ current # s),
         UNCHANGED << hist, base, faults, watch, stream, current, cancelled, store, wr, rl >>,
         astray' \subseteq Keys,
         ~late /\ current = s => data = hist[End(m)],
         ~late /\ current = s /\ (\A t \in Sessions : sess[t].pc # "publish") =>
            \A k \in Keys \ astray' : Published(store, batch)[k] = RowOf(data[k])
  PROVE  IInv'
<1>0. 0 \notin Sessions
  BY DEF Sessions
<1>1. TypeOK /\ Aged /\ Based /\ Follows(s)
  BY DEF IInv
<1>2. /\ OnlySession(s)
      /\ sess'[s].pc = "publish" /\ sess'[s].rid = sess[s].rid
      /\ sess'[s].server = m.server
      /\ sess'[s].terminated = sess[s].terminated
      /\ sess'[s].batch = batch
      /\ cache' \in Cache /\ cache'.data = data /\ cache'.stale = FALSE
      /\ cache'.server = m.server /\ cache'.version = m.version
  BY <1>1, StoreSets
<1>3. LineMoves(s, 1) /\ At(s, 1) = m /\ Size(s) >= 1
  BY <1>1, <1>2, Dropped
<1>4. 1 \in 1..Size(s)
  BY <1>1, <1>3, LineType
<1>5. m \in Messages /\ Sound(m)
  BY <1>1, <1>3, <1>4, LineType DEF Follows, Line
<1>6. /\ m.server \in Nat /\ m.server >= 1 /\ m.server <= Server /\ End(m) \in Nat
      /\ End(m) \in 1..Now
  BY <1>1, <1>5, EndType DEF Sound
<1>7. TypeOK'
  <2>1. late' \in BOOLEAN
    OBVIOUS
  <2>2. cache' \in Cache /\ cache'.server <= Server'
    BY <1>2, <1>6 DEF Server
  <2> QED BY <1>1, <1>2, <2>1, <2>2 DEF TypeOK, OnlySession, Server
<1>8. Grown
  BY <1>1, SameGrown
<1>9. ~late' => ~late /\ current = s
  OBVIOUS
<1>10. m.rid = sess[s].rid /\ ~sess[s].terminated
  BY DEF Skipped
<1>11. Follows(s)' /\ CacheEnd' = End(m)
  BY <1>1, <1>2, <1>3, <1>7, <1>9, <1>10, Stored
<1>12. \A t \in Sessions : Follows(t)'
  BY <1>2, <1>7, <1>8, <1>9, <1>11, Others
<1>13. Aged' /\ Based' /\ Now' = Now
  BY <1>1, SamePast
<1>14. ~late' => /\ cache.server <= m.server
                 /\ cache.server # 0 => CacheEnd <= End(m)
  BY <1>1, <1>3, <1>4, <1>9 DEF Follows, Feeds, Active
<1>15. Cached'
  BY <1>2, <1>6, <1>9, <1>11, <1>13 DEF Cached
<1>16. Written'
  <2>1. /\ wr'.put = "applied" =>
              /\ wr'.rv + 1 \in DOMAIN hist' /\ wr'.rv >= 1
              /\ hist'[wr'.rv][wr'.key] # NoDoc /\ hist'[wr'.rv][wr'.key].rv = wr'.pre
              /\ hist'[wr'.rv + 1][wr'.key] = [rv |-> wr'.rv, kind |-> "on"]
        /\ wr'.pc = "poll" => wr'.put = "applied"
        /\ wr'.pc # "done" => wr'.result = "none"
        /\ wr'.pc \in {"idle", "fetch"} => wr'.put = "none"
    BY DEF IInv, Written
  <2>2. ASSUME ~late', wr.pc \in {"sent", "poll"}, ~wr.via
        PROVE  cache'.server # 0 /\ wr.pre < CacheEnd'
    <3>1. cache.server # 0 /\ wr.pre < CacheEnd
      BY <1>9, <2>2 DEF IInv, Written
    <3>2. CacheEnd <= End(m)
      BY <1>14, <2>2, <3>1
    <3>3. CacheEnd \in Nat
      BY <1>9, <2>2, <3>1 DEF IInv, Cached
    <3>4. wr.pre \in Nat
      BY <1>1 DEF TypeOK, WriteRecord
    <3> QED BY <1>2, <1>6, <1>11, <3>1, <3>2, <3>3, <3>4
  <2> QED BY <2>1, <2>2 DEF Written
<1>17. Reloading'
  <2> SUFFICES ASSUME ~late', rl.pc \in {"sent", "poll"} PROVE rl.baseline <= m.server
    BY <1>2 DEF Reloading, IInv
  <2>1. rl.baseline <= cache.server /\ cache.server <= m.server
    BY <1>9, <1>14 DEF IInv, Reloading
  <2>2. rl.baseline \in Nat /\ cache.server \in Nat
    BY <1>1 DEF TypeOK, ReloadRecord, Cache
  <2> QED BY <1>6, <2>1, <2>2
<1>18. Seated' /\ FreshIsFed'
  <2>1. \A t \in Sessions : Goes(t)
    BY <1>2 DEF OnlySession, Goes, Attending, Active
  <2>2. Seated' /\ \A t \in Sessions : Latest(t)' <=> Latest(t)
    BY <1>1, <2>1, SameSeated DEF IInv
  <2>3. ~late' => Latest(s)
    BY <1>0, <1>9 DEF IInv, Seated
  <2>4. ~late' => Latest(s)' /\ sess'[s].pc # "done" /\ ~sess'[s].terminated
    BY <1>2, <1>10, <2>2, <2>3
  <2> QED BY <2>2, <2>4 DEF FreshIsFed
<1>19. Mirrored'
  <2> SUFFICES ASSUME ~late' PROVE Mirrored'
    BY DEF Mirrored
  <2>1. CASE \E t \in Sessions : t # s /\ sess[t].pc = "publish"
    BY <1>2, <1>9, <2>1 DEF Mirrored, OnlySession
  <2>2. CASE ~\E t \in Sessions : t # s /\ sess[t].pc = "publish"
    <3>1. \A k \in Keys \ astray' : Published(store, batch)[k] = RowOf(data[k])
      BY <1>9, <2>2
    <3>2. \A k \in Keys \ astray' :
             Published(store', sess'[current'].batch)[k] = RowOf(cache'.data[k])
      BY <1>2, <1>9, <3>1
    <3>3. current' # 0 /\ sess'[current'].pc = "publish"
      BY <1>0, <1>2, <1>9
    <3> QED BY <3>2, <3>3 DEF Mirrored, Published, FullSet, PartialUpdate, Upsert
  <2> QED BY <2>1, <2>2
<1> QED BY <1>7, <1>12, <1>13, <1>15, <1>16, <1>17, <1>18, <1>19 DEF IInv

LEMMA ApplyListStep ==
  ASSUME IInv, NEW s \in Sessions, ApplyList(s)
  PROVE  IInv'
<1>1. TypeOK /\ Aged /\ Based /\ Follows(s)
  BY DEF IInv
<1>2. UNCHANGED << hist, base, faults, watch, stream, current, cancelled, store, wr, rl >>
  BY DEF ApplyList, controller, registry, ops
<1>3. sess[s].pc = "apply" /\ ~Skipped(s) /\ sess[s].msg.type = "list"
  BY DEF ApplyList
<1>4. PICK m : m = sess[s].msg
  OBVIOUS
<1>5. m \in Messages /\ m.state \in State
  BY <1>1, <1>4, SessionType, MessageType
<1>6. CASE Overflow(s) /\ UNCHANGED << late, astray >>
  BY <1>2, <1>3, <1>6, OverflowStep
<1>7. CASE /\ Store(s, m.state, [NoBatch EXCEPT !.add = m.state, !.full = TRUE])
           /\ late' = (late \/ current # s) /\ astray' = {}
  <2>1. PICK batch : batch = [NoBatch EXCEPT !.add = m.state, !.full = TRUE]
    OBVIOUS
  <2>2. batch \in Batches /\ batch.add = m.state /\ batch.full = TRUE
    BY <1>5, <2>1, Constants DEF Batches, NoBatch
  <2>3. Carries(m)
    BY <1>3, <1>4 DEF Carries
  <2>4. m.state = hist[End(m)]
    <3>1. Sound(m)
      <4>1. At(s, 1) = m /\ 1 \in 1..Size(s)
        <5>1. Held(s) = 1 /\ Len(stream[s]) \in Nat
          BY <1>1, <1>3 DEF Held, TypeOK
        <5> QED BY <1>4, <5>1 DEF At, Size
      <4> QED BY <1>1, <4>1 DEF Follows, Line
    <3> QED BY <1>3, <1>4, <2>3, <3>1 DEF Sound
  <2>5. \A k \in Keys : Published(store, batch)[k] = RowOf(m.state[k])
    <3>1. PICK rows : rows = store
      OBVIOUS
    <3>2. ASSUME NEW k \in Keys PROVE Published(rows, batch)[k] = RowOf(batch.add[k])
      BY <2>2, FullRows
    <3> QED BY <2>2, <3>1, <3>2
  <2>6. astray' \subseteq Keys
    BY <1>7
  <2>7. Store(s, m.state, batch)
    BY <1>7, <2>1
  <2> QED BY <1>2, <1>3, <1>4, <1>5, <1>7, <2>2, <2>3, <2>4, <2>5, <2>6, <2>7, StoreStep
<1> QED BY <1>4, <1>6, <1>7 DEF ApplyList

LEMMA ApplyEventsStep ==
  ASSUME IInv, NEW s \in Sessions, ApplyEvents(s)
  PROVE  IInv'
<1>1. TypeOK /\ Aged /\ Based /\ Follows(s) /\ Cached
  BY DEF IInv
<1>2. UNCHANGED << hist, base, faults, watch, stream, current, cancelled, store, wr, rl >>
  BY DEF ApplyEvents, controller, registry, ops
<1>3. /\ sess[s].pc = "apply" /\ ~Skipped(s) /\ sess[s].msg.type = "events"
      /\ ~ServerChanged(s)
  BY DEF ApplyEvents
<1>4. PICK m : m = sess[s].msg
  OBVIOUS
<1>5. m \in Messages /\ m.events \in Seq(Events) /\ Len(m.events) \in Nat
  BY <1>1, <1>4, SessionType, MessageType
<1>6. PICK events \in Seq(Events) : events = m.events
  BY <1>5
<1>7. PICK data : data = AfterEvents(cache.data, events, DOMAIN events)
  OBVIOUS
<1>8. CASE Overflow(s) /\ UNCHANGED << late, astray >>
  BY <1>2, <1>3, <1>8, OverflowStep
<1>9. CASE /\ Store(s, data, BatchOf(events))
           /\ late' = (late \/ current # s)
           /\ astray' = (astray \ Touched(events, DOMAIN events)) \cup Repeated(events)
  <2>1. Carries(m)
    BY <1>3, <1>4 DEF Carries
  <2>2. At(s, 1) = m /\ 1 \in 1..Size(s)
    <3>1. Held(s) = 1 /\ Len(stream[s]) \in Nat
      BY <1>1, <1>3 DEF Held, TypeOK
    <3> QED BY <1>4, <3>1 DEF At, Size
  <2>3. Sound(m)
    BY <1>1, <2>2 DEF Follows, Line
  <2>4. /\ End(m) \in DOMAIN hist /\ End(m) \in Nat /\ End(m) <= Now
        /\ Start(m) >= 1
        /\ \A i \in DOMAIN events : events[i] = EventAt(Start(m) + i)
    BY <1>1, <1>3, <1>4, <1>5, <1>6, <2>1, <2>3, EndType DEF Sound
  <2>5. ASSUME NEW i \in DOMAIN events
        PROVE  events[i].type = "delete" <=> events[i].doc = NoDoc
    <3>1. PICK n : n = Start(m) + i
      OBVIOUS
    <3>2. i \in Nat /\ i >= 1 /\ i <= Len(m.events)
      BY <1>6
    <3>3. n \in 2..Now
      BY <1>1, <1>5, <2>4, <3>1, <3>2, NowType DEF Start
    <3>4. EventAt(n).type = "delete" <=> EventAt(n).doc = NoDoc
      BY <1>1, <3>3, EventIs
    <3> QED BY <2>4, <3>1, <3>4
  <2>6. cache.data \in State /\ store \in State
    BY <1>1 DEF TypeOK, Cache
  <2>7. data \in State
    BY <1>7, <2>6, AfterType
  <2>8. BatchOf(events) \in Batches
    <3>1. /\ OfType(events, "add") \subseteq DOMAIN events
          /\ OfType(events, "update") \subseteq DOMAIN events
          /\ OfType(events, "delete") \subseteq DOMAIN events
      BY DEF OfType
    <3>2. /\ AfterEvents(Empty, events, OfType(events, "add")) \in State
          /\ AfterEvents(Empty, events, OfType(events, "update")) \in State
      BY <3>1, AfterType, Constants
    <3>3. \A i \in DOMAIN events : events[i] \in Events
      OBVIOUS
    <3>4. \A i \in DOMAIN events : events[i].key \in Keys
      BY <3>3 DEF Events
    <3>5. Touched(events, OfType(events, "delete")) \subseteq Keys
      BY <3>1, <3>4 DEF Touched
    <3> QED BY <3>2, <3>5 DEF Batches, BatchOf
  <2>9. ASSUME ~late, current = s PROVE data = hist[End(m)]
    <3>1. sess[s].server = cache.server
      BY <1>1, <1>3, <2>9 DEF Follows, Feeds, Active
    <3>2. ~sess[s].terminated /\ m.rid = sess[s].rid /\ m.type = "events"
      BY <1>3, <1>4 DEF Skipped
    <3>3. /\ KnownServer(s, 0) # 0
          /\ m.server = KnownServer(s, 0) => Start(m) = KnownEnd(s, 0)
      <4>1. Fresh(s, 0)
        BY DEF Fresh
      <4>2. Known(s, 1 - 1)
        BY <4>1 DEF Known
      <4>3. \A i \in 1..Size(s) :
              At(s, i).rid = sess[s].rid /\ At(s, i).type = "events" /\ Known(s, i - 1) =>
                /\ KnownServer(s, i - 1) # 0
                /\ At(s, i).server = KnownServer(s, i - 1) =>
                      Start(At(s, i)) = KnownEnd(s, i - 1)
        BY <1>1, <1>3, <2>9, <3>2 DEF Follows, Chained
      <4>4. 1 - 1 = 0
        OBVIOUS
      <4>5. /\ KnownServer(s, 1 - 1) # 0
            /\ m.server = KnownServer(s, 1 - 1) => Start(m) = KnownEnd(s, 1 - 1)
        BY <2>2, <3>2, <4>2, <4>3
      <4> QED BY <4>4, <4>5
    <3>4. KnownServer(s, 0) = cache.server /\ KnownEnd(s, 0) = CacheEnd
      BY DEF KnownServer, KnownEnd, Fresh
    <3>5. cache.server # 0 /\ m.server = cache.server
      BY <1>3, <1>4, <3>1, <3>3, <3>4 DEF ServerChanged
    <3>6. Start(m) = CacheEnd
      BY <3>3, <3>4, <3>5
    <3>7. CacheEnd \in DOMAIN hist /\ CacheEnd \in Nat /\ cache.data = hist[CacheEnd]
      BY <1>1, <2>9, <3>5, NowType DEF Cached
    <3>8. End(m) = CacheEnd + Len(events)
      BY <1>5, <1>6, <2>4, <3>6, <3>7 DEF Start
    <3>9. PICK a \in DOMAIN hist : a = CacheEnd
      BY <3>7
    <3>10. PICK b \in DOMAIN hist : b = End(m)
      BY <2>4
    <3>11. b = a + Len(events) /\ \A i \in DOMAIN events : events[i] = EventAt(a + i)
      BY <2>4, <3>6, <3>8, <3>9, <3>10
    <3>12. AfterEvents(hist[a], events, DOMAIN events) = hist[b]
      BY <1>1, <3>11, Replay
    <3> QED BY <1>7, <3>7, <3>9, <3>10, <3>12
  <2>10. ASSUME ~late, current = s, \A t \in Sessions : sess[t].pc # "publish",
                NEW k \in Keys \ astray'
         PROVE  Published(store, BatchOf(events))[k] = RowOf(data[k])
    <3>1. k \in Touched(events, DOMAIN events) \/ store[k] = RowOf(cache.data[k])
      <4>1. s # 0 /\ (k \in Touched(events, DOMAIN events) \/ k \in Keys \ astray)
        BY <1>9 DEF Sessions
      <4> QED BY <2>10, <4>1 DEF IInv, Mirrored
    <3>2. \A i, j \in DOMAIN events : events[i].key = k /\ events[j].key = k => i = j
      BY <1>9 DEF Repeated
    <3>3. PICK d \in State : d = cache.data
      BY <2>6
    <3>4. PICK r \in State : r = store
      BY <2>6
    <3>5. Published(r, BatchOf(events))[k] = RowOf(AfterEvents(d, events, DOMAIN events)[k])
      BY <2>5, <3>1, <3>2, <3>3, <3>4, PartialRows
    <3> QED BY <1>7, <3>3, <3>4, <3>5
  <2>11. astray' \subseteq Keys
    BY <1>1, <1>9 DEF TypeOK, Repeated
  <2>12. PICK batch \in Batches : batch = BatchOf(events)
    BY <2>8
  <2>13. Store(s, data, batch) /\ late' = (late \/ current # s)
    BY <1>9, <2>12
  <2>14. ~late /\ current = s /\ (\A t \in Sessions : sess[t].pc # "publish") =>
            \A k \in Keys \ astray' : Published(store, batch)[k] = RowOf(data[k])
    BY <2>10, <2>12
  <2> QED BY <1>2, <1>3, <1>4, <2>1, <2>7, <2>9, <2>11, <2>13, <2>14, StoreStep
<1> QED BY <1>4, <1>6, <1>7, <1>8, <1>9 DEF ApplyEvents

-----------------------------------------------------------------------------
(***************************************************************************)
(* The controller serves a watch                                           *)
(***************************************************************************)

LEMMA WatchType ==
  ASSUME TypeOK, NEW s \in Sessions
  PROVE  /\ watch[s] \in Watches /\ watch[s].rid \in Nat /\ watch[s].from \in Nat
         /\ watch[s].at \in Nat /\ watch[s].server \in Nat
<1>1. watch[s] \in Watches
  BY DEF TypeOK
<1> QED BY <1>1 DEF Watches

LEMMA AnswerSets ==
  ASSUME TypeOK, Aged, Based, NEW s \in Sessions, NEW at \in Nat,
         watch[s].on,
         \/ watch' = [watch EXCEPT ![s].pending = FALSE, ![s].from = 0, ![s].at = at,
                                   ![s].server = Server]
         \/ /\ ~watch[s].pending
            /\ watch' = [watch EXCEPT ![s].at = at, ![s].server = Server]
         \/ /\ ~watch[s].pending /\ watch[s].server = Server
            /\ watch' = [watch EXCEPT ![s].at = at]
  PROVE  /\ watch' \in [Sessions -> Watches]
         /\ \A t \in Sessions : t # s => watch'[t] = watch[t]
         /\ watch'[s].on /\ watch'[s].rid = watch[s].rid /\ ~watch'[s].pending
         /\ watch'[s].server = Server /\ watch'[s].at = at
<1> DEFINE new1 == [watch[s] EXCEPT !.pending = FALSE, !.from = 0, !.at = at, !.server = Server]
           new2 == [watch[s] EXCEPT !.at = at, !.server = Server]
           new3 == [watch[s] EXCEPT !.at = at]
<1>0. watch \in [Sessions -> Watches]
  BY DEF TypeOK
<1>1. watch[s] \in Watches /\ Server \in Nat
  BY NowType, WatchType
<1>2. /\ new1 \in Watches /\ new1.on = watch[s].on /\ new1.rid = watch[s].rid
      /\ new1.pending = FALSE /\ new1.server = Server /\ new1.at = at
  BY <1>1 DEF Watches
<1>3. /\ new2 \in Watches /\ new2.on = watch[s].on /\ new2.rid = watch[s].rid
      /\ new2.pending = watch[s].pending /\ new2.server = Server /\ new2.at = at
  BY <1>1 DEF Watches
<1>4. /\ new3 \in Watches /\ new3.on = watch[s].on /\ new3.rid = watch[s].rid
      /\ new3.pending = watch[s].pending /\ new3.server = watch[s].server /\ new3.at = at
  BY <1>1 DEF Watches
<1>5. \/ watch' = [watch EXCEPT ![s] = new1]
      \/ ~watch[s].pending /\ watch' = [watch EXCEPT ![s] = new2]
      \/ ~watch[s].pending /\ watch[s].server = Server /\ watch' = [watch EXCEPT ![s] = new3]
  BY <1>0
<1> HIDE DEF new1, new2, new3
<1>6. CASE watch' = [watch EXCEPT ![s] = new1]
  <2>1. /\ watch' \in [Sessions -> Watches] /\ watch'[s] = new1
        /\ \A t \in Sessions : t # s => watch'[t] = watch[t]
    BY <1>0, <1>2, <1>6
  <2> QED BY <1>2, <2>1
<1>7. CASE ~watch[s].pending /\ watch' = [watch EXCEPT ![s] = new2]
  <2>1. /\ watch' \in [Sessions -> Watches] /\ watch'[s] = new2
        /\ \A t \in Sessions : t # s => watch'[t] = watch[t]
    BY <1>0, <1>3, <1>7
  <2> QED BY <1>3, <1>7, <2>1
<1>8. CASE ~watch[s].pending /\ watch[s].server = Server /\ watch' = [watch EXCEPT ![s] = new3]
  <2>1. /\ watch' \in [Sessions -> Watches] /\ watch'[s] = new3
        /\ \A t \in Sessions : t # s => watch'[t] = watch[t]
    BY <1>0, <1>4, <1>8
  <2> QED BY <1>4, <1>8, <2>1
<1> QED BY <1>5, <1>6, <1>7, <1>8

\* What is common to the messages the controller sends.
LEMMA MessageIs ==
  ASSUME TypeOK, Aged, Based, NEW s \in Sessions, NEW type \in Types
  PROVE  /\ Message(s, type) = [type |-> type, rid |-> watch[s].rid, server |-> Server,
                                version |-> VersionAt(Now), state |-> Empty, events |-> << >>]
         /\ Message(s, type) \in Messages
         /\ VersionAt(Now) \in Nat /\ VersionAt(Now) + 1 + base[Server] = Now
<1>1. base[Server] \in Nat /\ base[Server] < Now /\ Now \in Nat /\ Server \in Nat
  BY NowType DEF Based
<1>2. VersionAt(Now) \in Nat /\ VersionAt(Now) + 1 + base[Server] = Now
  BY <1>1 DEF VersionAt
<1>3. watch[s].rid \in Nat /\ NoMessage \in Messages
  BY WatchType, Constants
<1>4. PICK m : m = Message(s, type)
  OBVIOUS
<1>5. m = [NoMessage EXCEPT !.type = type, !.rid = watch[s].rid, !.server = Server,
                            !.version = VersionAt(Now)]
  BY <1>4 DEF Message
<1>6. m \in Messages
  BY <1>1, <1>2, <1>3, <1>5 DEF Messages
<1>7. /\ m.type = type /\ m.rid = watch[s].rid /\ m.server = Server
      /\ m.version = VersionAt(Now)
  BY <1>3, <1>5 DEF Messages
<1>8. m.state = Empty /\ m.events = << >>
  <2>1. m.state = NoMessage.state /\ m.events = NoMessage.events
    BY <1>3, <1>5 DEF Messages
  <2> QED BY <2>1 DEF NoMessage
<1>9. m = [type |-> m.type, rid |-> m.rid, server |-> m.server, version |-> m.version,
           state |-> m.state, events |-> m.events]
  BY <1>6 DEF Messages
<1> QED BY <1>2, <1>4, <1>6, <1>7, <1>8, <1>9

LEMMA SendStep ==
  ASSUME IInv, NEW s \in Sessions, watch[s].on, NEW m \in Messages, m.rid = watch[s].rid,
         Sound(m), Carries(m) => m.server = Server /\ End(m) = Now,
         m.type = "events" =>
            /\ ~watch[s].pending
            /\ watch[s].server = Server => Start(m) = watch[s].at,
         Send(s, m), faults' \in 0..MaxFaults,
         \/ watch' = [watch EXCEPT ![s].pending = FALSE, ![s].from = 0, ![s].at = Now,
                                   ![s].server = Server]
         \/ /\ ~watch[s].pending
            /\ watch' = [watch EXCEPT ![s].at = Now, ![s].server = Server]
         \/ /\ ~watch[s].pending /\ watch[s].server = Server
            /\ watch' = [watch EXCEPT ![s].at = Now],
         UNCHANGED << hist, base, current, cancelled, cache, store, sess, late, astray, wr, rl >>
  PROVE  IInv'
<1>1. TypeOK /\ Aged /\ Based /\ Cached /\ Follows(s)
  BY DEF IInv
<1>2. stream' = [stream EXCEPT ![s] = Append(@, m)]
  BY DEF Send
<1>3. PICK now \in Nat : now = Now
  BY <1>1, NowType
<1>4. /\ watch' \in [Sessions -> Watches]
      /\ \A t \in Sessions : t # s => watch'[t] = watch[t]
      /\ watch'[s].on /\ watch'[s].rid = watch[s].rid /\ ~watch'[s].pending
      /\ watch'[s].server = Server /\ watch'[s].at = Now
  BY <1>1, <1>3, AnswerSets
<1>5. /\ stream' \in [Sessions -> Seq(Messages)]
      /\ \A t \in Sessions : t # s => stream'[t] = stream[t]
  <2>1. stream \in [Sessions -> Seq(Messages)] /\ stream[s] \in Seq(Messages)
    BY <1>1 DEF TypeOK
  <2>2. Append(stream[s], m) \in Seq(Messages)
    BY <2>1
  <2> QED BY <1>2, <2>1, <2>2
<1>6. TypeOK'
  BY <1>1, <1>4, <1>5 DEF TypeOK, Server
<1>7. Follows(s)'
  BY <1>1, <1>2, <1>4, <1>6, Sent
<1>8. OnlySession(s) /\ SameCache /\ Grown
  BY <1>1, SameGrown DEF OnlySession, SameCache, TypeOK
<1>9. \A t \in Sessions : Follows(t)'
  BY <1>4, <1>5, <1>6, <1>7, <1>8, Others
<1>10. \A t \in Sessions : Goes(t)
  BY DEF Goes
<1> QED BY <1>6, <1>9, <1>10, Quiet

LEMMA ServeListStep ==
  ASSUME IInv, NEW s \in Sessions, ServeList(s)
  PROVE  IInv'
<1>1. TypeOK /\ Aged /\ Based
  BY DEF IInv
<1>2. PICK m : m = [Message(s, "list") EXCEPT !.state = hist[Now]]
  OBVIOUS
<1>3. "list" \in Types
  BY DEF Types
<1>4. m = [type |-> "list", rid |-> watch[s].rid, server |-> Server,
           version |-> VersionAt(Now), state |-> hist[Now], events |-> << >>]
  BY <1>1, <1>2, <1>3, MessageIs
<1>5. VersionAt(Now) \in Nat /\ VersionAt(Now) + 1 + base[Server] = Now
  BY <1>1, <1>3, MessageIs
<1>6. /\ watch[s].rid \in Nat /\ Server \in Nat /\ hist[Now] \in State
      /\ << >> \in Seq(Events) /\ Now \in Nat /\ Now >= 1 /\ Server >= 1
  BY <1>1, NowType, WatchType, HistType
<1>7. m \in Messages
  BY <1>3, <1>4, <1>5, <1>6 DEF Messages
<1>8. /\ m.rid = watch[s].rid /\ m.server = Server /\ m.type = "list" /\ m.state = hist[Now]
      /\ m.version = VersionAt(Now)
  BY <1>4
<1>9. End(m) = Now
  BY <1>5, <1>8 DEF End
<1>10. Sound(m)
  BY <1>6, <1>8, <1>9 DEF Sound
<1>11. Send(s, m) /\ watch[s].on
  BY <1>2 DEF ServeList
<1>12. faults' \in 0..MaxFaults
  BY <1>1 DEF TypeOK, ServeList, controller
<1> QED BY <1>7, <1>8, <1>9, <1>10, <1>11, <1>12, SendStep
       DEF ServeList, controller, registry, ops

LEMMA ServeEventsStep ==
  ASSUME IInv, NEW s \in Sessions, ServeEvents(s)
  PROVE  IInv'
<1>1. TypeOK /\ Aged /\ Based /\ Follows(s)
  BY DEF IInv
<1>2. PICK m : m = [Message(s, "events") EXCEPT !.events = EventsBetween(watch[s].at, Now)]
  OBVIOUS
<1>3. "events" \in Types
  BY DEF Types
<1>4. m = [type |-> "events", rid |-> watch[s].rid, server |-> Server,
           version |-> VersionAt(Now), state |-> Empty,
           events |-> EventsBetween(watch[s].at, Now)]
  BY <1>1, <1>2, <1>3, MessageIs
<1>5. VersionAt(Now) \in Nat /\ VersionAt(Now) + 1 + base[Server] = Now
  BY <1>1, <1>3, MessageIs
<1>6. /\ watch[s].rid \in Nat /\ Server \in Nat /\ Empty \in State
      /\ Now \in Nat /\ Now >= 1 /\ Server >= 1
  BY <1>1, NowType, WatchType, Constants
<1>7. /\ watch[s].on /\ ~watch[s].pending /\ watch[s].server = Server /\ watch[s].at < Now
      /\ watch[s].at \in 1..Now
  BY <1>1 DEF ServeEvents, Follows, Placed
<1>8. /\ Now - watch[s].at \in Nat
      /\ \A i \in 1..(Now - watch[s].at) : watch[s].at + i \in 2..Now
  BY <1>6, <1>7
<1>9. /\ EventsBetween(watch[s].at, Now) \in Seq(Events)
      /\ Len(EventsBetween(watch[s].at, Now)) = Now - watch[s].at
      /\ \A i \in DOMAIN EventsBetween(watch[s].at, Now) :
            EventsBetween(watch[s].at, Now)[i] = EventAt(watch[s].at + i)
  <2>1. \A i \in 1..(Now - watch[s].at) : EventAt(watch[s].at + i) \in Events
    BY <1>1, <1>8, EventIs
  <2>2. EventsBetween(watch[s].at, Now)
          = [i \in 1..(Now - watch[s].at) |-> EventAt(watch[s].at + i)]
    BY DEF EventsBetween
  <2>3. EventsBetween(watch[s].at, Now) \in [1..(Now - watch[s].at) -> Events]
    BY <2>1, <2>2
  <2>4. EventsBetween(watch[s].at, Now) \in Seq(Events)
    BY <1>8, <2>3
  <2> QED BY <1>8, <2>2, <2>4
<1>10. m \in Messages
  BY <1>3, <1>4, <1>5, <1>6, <1>9 DEF Messages
<1>11. /\ m.rid = watch[s].rid /\ m.server = Server /\ m.type = "events"
       /\ m.version = VersionAt(Now) /\ m.events = EventsBetween(watch[s].at, Now)
  BY <1>4
<1>12. End(m) = Now
  BY <1>5, <1>11 DEF End
<1>13. Start(m) = watch[s].at
  BY <1>6, <1>7, <1>9, <1>11, <1>12 DEF Start
<1>14. Sound(m)
  <2>1. \A i \in DOMAIN m.events : m.events[i] = EventAt(Start(m) + i)
    BY <1>9, <1>11, <1>13
  <2> QED BY <1>6, <1>7, <1>11, <1>12, <1>13, <2>1 DEF Sound
<1>15. Send(s, m)
  BY <1>2 DEF ServeEvents
<1>16. faults' \in 0..MaxFaults
  BY <1>1 DEF TypeOK, ServeEvents, controller
<1>17. /\ watch' = [watch EXCEPT ![s].at = Now]
       /\ UNCHANGED << hist, base, current, cancelled, cache, store, sess, late, astray, wr,
                       rl >>
  BY DEF ServeEvents, controller, registry, ops
<1> QED BY <1>7, <1>10, <1>11, <1>12, <1>13, <1>14, <1>15, <1>16, <1>17, SendStep

LEMMA BlankVersion ==
  ASSUME NEW r \in Messages
  PROVE  [r EXCEPT !.version = 0] \in Messages
  BY DEF Messages

\* A message that carries nothing: an error, a refusal, a garbled one.
LEMMA EmptyMessage ==
  ASSUME TypeOK, Aged, Based, NEW s \in Sessions,
         NEW type \in {"error", "forbidden", "badlist", "badevents"},
         NEW m, m = [Message(s, type) EXCEPT !.version = 0]
  PROVE  m \in Messages /\ m.rid = watch[s].rid /\ ~Carries(m) /\ Sound(m) /\ m.type # "events"
<1>1. type \in Types
  BY DEF Types
<1>2. m = [type |-> type, rid |-> watch[s].rid, server |-> Server, version |-> 0,
           state |-> Empty, events |-> << >>]
  BY <1>1, MessageIs
<1>4. m \in Messages
  <2>1. PICK r \in Messages : r = Message(s, type)
    BY <1>1, MessageIs
  <2>2. m = [r EXCEPT !.version = 0]
    BY <2>1
  <2> QED BY <2>2, BlankVersion
<1>5. m.rid = watch[s].rid /\ m.type = type
  BY <1>2
<1> QED BY <1>4, <1>5 DEF Carries, Sound

LEMMA ServeRebuiltStep ==
  ASSUME IInv, NEW s \in Sessions, ServeRebuilt(s)
  PROVE  IInv'
<1>1. TypeOK /\ Aged /\ Based
  BY DEF IInv
<1>2. /\ watch[s].on /\ ~watch[s].pending /\ watch[s].server # Server
      /\ watch' = [watch EXCEPT ![s].at = Now, ![s].server = Server]
      /\ UNCHANGED << hist, base, current, cancelled, cache, store, sess, late, astray, wr, rl >>
  BY DEF ServeRebuilt, controller, registry, ops
<1>3. faults' \in 0..MaxFaults
  BY <1>1 DEF TypeOK, ServeRebuilt, controller
<1>4. CASE Send(s, [Message(s, "error") EXCEPT !.version = 0])
  <2>1. PICK m : m = [Message(s, "error") EXCEPT !.version = 0]
    OBVIOUS
  <2>2. /\ m \in Messages /\ m.rid = watch[s].rid /\ ~Carries(m) /\ Sound(m)
        /\ m.type # "events"
    BY <1>1, <2>1, EmptyMessage
  <2>3. Send(s, m)
    BY <1>4, <2>1
  <2> QED BY <1>2, <1>3, <2>2, <2>3, SendStep
<1>5. CASE Now > 1 /\ Send(s, [Message(s, "events") EXCEPT !.events = << EventAt(Now) >>])
  <2>1. PICK m : m = [Message(s, "events") EXCEPT !.events = << EventAt(Now) >>]
    OBVIOUS
  <2>2. "events" \in Types
    BY DEF Types
  <2>3. m = [type |-> "events", rid |-> watch[s].rid, server |-> Server,
             version |-> VersionAt(Now), state |-> Empty, events |-> << EventAt(Now) >>]
    BY <1>1, <2>1, <2>2, MessageIs
  <2>4. VersionAt(Now) \in Nat /\ VersionAt(Now) + 1 + base[Server] = Now
    BY <1>1, <2>2, MessageIs
  <2>5. /\ watch[s].rid \in Nat /\ Server \in Nat /\ Empty \in State
        /\ Now \in Nat /\ Now >= 2 /\ Server >= 1
    BY <1>1, <1>5, NowType, WatchType, Constants
  <2>6. EventAt(Now) \in Events
    <3>1. PICK n : n = Now
      OBVIOUS
    <3>2. n \in 2..Now
      BY <2>5, <3>1
    <3>3. EventAt(n) \in Events
      BY <1>1, <3>2, EventIs
    <3> QED BY <3>1, <3>3
  <2>7. << EventAt(Now) >> \in Seq(Events)
    BY <2>6
  <2>8. m \in Messages
    BY <2>2, <2>3, <2>4, <2>5, <2>7 DEF Messages
  <2>9. /\ m.rid = watch[s].rid /\ m.server = Server /\ m.type = "events"
        /\ m.version = VersionAt(Now) /\ m.events = << EventAt(Now) >>
    BY <2>3
  <2>10. End(m) = Now
    BY <2>4, <2>9 DEF End
  <2>11. Start(m) = Now - 1
    <3>1. Len(m.events) = 1
      BY <2>9
    <3> QED BY <2>10, <3>1 DEF Start
  <2>12. Sound(m)
    <3>1. ASSUME NEW i \in DOMAIN m.events PROVE m.events[i] = EventAt(Start(m) + i)
      <4>1. i = 1 /\ m.events[i] = EventAt(Now)
        BY <2>9
      <4>2. Start(m) + i = Now
        BY <2>5, <2>11, <4>1
      <4> QED BY <4>1, <4>2
    <3> QED BY <2>5, <2>9, <2>10, <2>11, <3>1 DEF Sound
  <2>13. Send(s, m)
    BY <1>5, <2>1
  <2> QED BY <1>2, <1>3, <2>8, <2>9, <2>10, <2>12, <2>13, SendStep
<1> QED BY <1>4, <1>5 DEF ServeRebuilt

LEMMA FaultStep ==
  ASSUME IInv, NEW s \in Sessions, Fault(s)
  PROVE  IInv'
<1>1. TypeOK /\ Aged /\ Based
  BY DEF IInv
<1>2. PICK type \in IF watch[s].pending THEN {"forbidden", "badlist"} ELSE {"badevents"} :
         Send(s, [Message(s, type) EXCEPT !.version = 0])
  BY DEF Fault
<1>3. type \in {"error", "forbidden", "badlist", "badevents"}
  BY <1>2
<1>4. PICK m : m = [Message(s, type) EXCEPT !.version = 0]
  OBVIOUS
<1>5. /\ m \in Messages /\ m.rid = watch[s].rid /\ ~Carries(m) /\ Sound(m)
      /\ m.type # "events"
  BY <1>1, <1>3, <1>4, EmptyMessage
<1>6. Send(s, m)
  BY <1>2, <1>4
<1>7. faults' \in 0..MaxFaults
  BY <1>1, BoundsAssumption DEF TypeOK, Fault
<1>8. /\ watch[s].on
      /\ watch' = [watch EXCEPT ![s].pending = FALSE, ![s].from = 0, ![s].at = Now,
                                ![s].server = Server]
      /\ UNCHANGED << hist, base, current, cancelled, cache, store, sess, late, astray, wr, rl >>
  BY DEF Fault, registry, ops
<1> QED BY <1>5, <1>6, <1>7, <1>8, SendStep

LEMMA ServeResumeStep ==
  ASSUME IInv, NEW s \in Sessions, ServeResume(s)
  PROVE  IInv'
<1>1. TypeOK /\ Aged /\ Based /\ Cached /\ Follows(s)
  BY DEF IInv
<1>2. /\ watch[s].on /\ watch[s].pending /\ watch[s].from \in 1..VersionAt(Now)
      /\ UNCHANGED << hist, base, faults, stream, current, cancelled, cache, store, sess,
                      late, astray, wr, rl >>
  BY DEF ServeResume, controller, registry, ops
<1>3. watch[s].from + 1 + base[Server] \in Nat
  <2>1. watch[s].from \in Nat /\ base[Server] \in Nat
    BY <1>1, WatchType, NowType
  <2> QED BY <2>1
<1>4. PICK at \in Nat : at = watch[s].from + 1 + base[Server]
  BY <1>3
<1>5. watch' = [watch EXCEPT ![s].pending = FALSE, ![s].from = 0, ![s].at = at,
                             ![s].server = Server]
  BY <1>4 DEF ServeResume
<1>6. /\ watch' \in [Sessions -> Watches]
      /\ \A t \in Sessions : t # s => watch'[t] = watch[t]
      /\ watch'[s].on /\ watch'[s].rid = watch[s].rid /\ ~watch'[s].pending
      /\ watch'[s].server = Server /\ watch'[s].at = at
  BY <1>1, <1>2, <1>5, AnswerSets
<1>7. TypeOK'
  BY <1>1, <1>2, <1>6 DEF TypeOK, Server
<1>8. Follows(s)'
  BY <1>1, <1>2, <1>4, <1>6, <1>7, Resumed
<1>9. OnlySession(s) /\ SameCache /\ Grown
  BY <1>1, <1>2, SameGrown DEF OnlySession, SameCache, TypeOK
<1>10. \A t \in Sessions : Follows(t)'
  BY <1>2, <1>6, <1>7, <1>8, <1>9, Others
<1>11. \A t \in Sessions : Goes(t)
  BY <1>2 DEF Goes
<1> QED BY <1>2, <1>7, <1>10, <1>11, Quiet

-----------------------------------------------------------------------------
(***************************************************************************)
(* Steps that touch no session                                             *)
(***************************************************************************)

LEMMA Bystanders ==
  ASSUME IInv, TypeOK', Grown, UNCHANGED << watch, stream, current, cache, sess, late >>
  PROVE  \A t \in Sessions : Follows(t)'
<1> SUFFICES ASSUME NEW t \in Sessions PROVE Follows(t)'
  OBVIOUS
<1>1. Follows(t) /\ TypeOK /\ Aged /\ Based
  BY DEF IInv
<1>2. Untroubled(t)
  BY DEF Untroubled, SameReader
<1> QED BY <1>1, <1>2, Bystander

\* The controller goes on; what is cached stays what it was.
LEMMA GrownCached ==
  ASSUME TypeOK, Aged, Based, Grown, Cached, UNCHANGED << cache, late >>
  PROVE  Cached' /\ (cache.server # 0 => CacheEnd' = CacheEnd)
<1>1. cache.server # 0 => CacheEnd' = CacheEnd
  BY CacheEndSame
<1>2. 1..Now \subseteq 1..Now' /\ DOMAIN hist = 1..Now
  BY GrownNow, NowType
<1>3. Cached'
  BY <1>1, <1>2 DEF Cached, Grown
<1> QED BY <1>1, <1>3

LEMMA GrownStep ==
  ASSUME IInv, TypeOK', Aged', Based', Grown, Written',
         UNCHANGED << watch, stream, current, cache, store, sess, late, astray, rl >>
  PROVE  IInv'
<1>1. \A t \in Sessions : Follows(t)'
  BY Bystanders
<1>2. Cached'
  BY GrownCached DEF IInv
<1>3. Mirrored'
  BY SameMirror DEF IInv, SameCache
<1>4. Seated' /\ FreshIsFed'
  BY DEF IInv, Seated, Latest, FreshIsFed
<1>5. Reloading'
  BY DEF IInv, Reloading
<1> QED BY <1>1, <1>2, <1>3, <1>4, <1>5 DEF IInv

\* What is known of a write stays true.
LEMMA GrownWritten ==
  ASSUME TypeOK, Aged, Based, Grown, Written, UNCHANGED << cache, late, wr >>
  PROVE  Written'
<1>1. cache.server # 0 => CacheEnd' = CacheEnd
  BY CacheEndSame
<1>2. ASSUME wr.put = "applied"
      PROVE  /\ wr.rv + 1 \in DOMAIN hist' /\ wr.rv >= 1
             /\ hist'[wr.rv][wr.key] # NoDoc /\ hist'[wr.rv][wr.key].rv = wr.pre
             /\ hist'[wr.rv + 1][wr.key] = [rv |-> wr.rv, kind |-> "on"]
  <2>1. /\ wr.rv + 1 \in DOMAIN hist /\ wr.rv >= 1
        /\ hist[wr.rv][wr.key] # NoDoc /\ hist[wr.rv][wr.key].rv = wr.pre
        /\ hist[wr.rv + 1][wr.key] = [rv |-> wr.rv, kind |-> "on"]
    BY <1>2 DEF Written
  <2>2. wr.rv \in Nat
    BY DEF TypeOK, WriteRecord
  <2>3. wr.rv \in DOMAIN hist
    BY <2>1, <2>2, NowType
  <2>4. /\ wr.rv + 1 \in DOMAIN hist' /\ hist'[wr.rv + 1] = hist[wr.rv + 1]
        /\ hist'[wr.rv] = hist[wr.rv]
    BY <2>1, <2>3 DEF Grown
  <2> QED BY <2>1, <2>4
<1> QED BY <1>1, <1>2 DEF Written

LEMMA ChangeStep ==
  ASSUME IInv, NEW e \in Edits, Change(e)
  PROVE  IInv'
<1>1. TypeOK /\ Aged /\ Based /\ Written
  BY DEF IInv
<1>2. UNCHANGED << base, faults, watch, stream, current, cancelled, cache, store, sess, late,
                   astray, wr, rl >>
  BY DEF Change, registry, ops
<1>3. e \in [key: Keys, kind: Kinds \cup {"none"}]
  BY BoundsAssumption
<1>4. e.key \in Keys /\ e.kind \in Kinds \cup {"none"}
  BY <1>3
<1>5. /\ Now \in Nat /\ Now >= 1 /\ Now \in DOMAIN hist
  BY <1>1, NowType
<1>6. PICK doc : doc = IF e.kind = "none" THEN NoDoc ELSE [rv |-> Now, kind |-> e.kind]
  OBVIOUS
<1>7. doc \in Doc \cup {NoDoc} /\ (doc = NoDoc \/ doc.rv = Now)
  BY <1>4, <1>5, <1>6 DEF Doc
<1>8. doc # hist[Now][e.key]
  <2>1. CASE e.kind = "none"
    BY <1>6, <2>1 DEF Change
  <2>2. CASE e.kind # "none"
    <3>1. doc.rv = Now
      BY <1>6, <2>2
    <3>2. hist[Now][e.key].rv < Now
      BY <1>1, <1>4, <1>5 DEF Aged
    <3> QED BY <1>5, <3>1, <3>2
  <2> QED BY <2>1, <2>2
<1>9. hist' = Append(hist, [hist[Now] EXCEPT ![e.key] = doc])
  BY <1>6 DEF Change
<1>10. /\ Aged' /\ hist' \in Seq(State) /\ Len(hist') = Len(hist) + 1
       /\ \A n \in DOMAIN hist : n \in DOMAIN hist' /\ hist'[n] = hist[n]
  BY <1>1, <1>4, <1>7, <1>8, <1>9, ChangeAged
<1>11. Grown
  BY <1>1, <1>2, <1>10 DEF Grown, TypeOK
<1>12. Based'
  <2>1. Now' = Now + 1
    BY <1>10 DEF Now
  <2>2. \A i \in DOMAIN base : base[i] \in Nat
    BY <1>1 DEF TypeOK
  <2> QED BY <1>1, <1>2, <1>5, <2>1, <2>2 DEF Based, Server
<1>13. TypeOK'
  BY <1>1, <1>2, <1>10 DEF TypeOK, Server
<1>14. Written'
  BY <1>1, <1>2, <1>11, GrownWritten
<1> QED BY <1>2, <1>10, <1>11, <1>12, <1>13, <1>14, GrownStep

LEMMA RebuildStep ==
  ASSUME IInv, Rebuild
  PROVE  IInv'
<1>1. TypeOK /\ Aged /\ Based /\ Written
  BY DEF IInv
<1>2. /\ UNCHANGED << hist, watch, stream, current, cancelled, cache, store, sess, late,
                      astray, wr, rl >>
      /\ base' = Append(base, Now - 1) /\ faults' = faults + 1 /\ faults < MaxFaults
  BY DEF Rebuild, registry, ops
<1>3. /\ Now \in Nat /\ Now >= 1 /\ base \in Seq(Nat) /\ Now - 1 \in Nat /\ Len(base) \in Nat
      /\ hist \in Seq(State) /\ Server >= 1
  BY <1>1, NowType
<1>4. /\ base' \in Seq(Nat) /\ Len(base') = Len(base) + 1
      /\ base'[Len(base) + 1] = Now - 1
      /\ \A i \in DOMAIN base : i \in DOMAIN base' /\ base'[i] = base[i]
  BY <1>2, <1>3
<1>5. Grown
  BY <1>2, <1>3, <1>4 DEF Grown
<1>6. Aged' /\ Now' = Now
  BY <1>1, <1>2 DEF Aged, Now
<1>7. Based'
  <2>1. \A i \in DOMAIN base' : i \in DOMAIN base \/ i = Len(base) + 1
    BY <1>3, <1>4
  <2>2. \A i \in DOMAIN base' : base'[i] < Now
    BY <1>1, <1>3, <1>4, <2>1 DEF Based
  <2>3. Server' >= 1
    BY <1>3, <1>4 DEF Server
  <2> QED BY <1>6, <2>2, <2>3 DEF Based
<1>8. faults' \in 0..MaxFaults
  BY <1>1, <1>2, BoundsAssumption DEF TypeOK
<1>9. cache'.server <= Server'
  <2>1. cache.server <= Server /\ cache.server \in Nat /\ Server \in Nat
    BY <1>1, NowType DEF TypeOK, Cache
  <2> QED BY <1>2, <1>4, <2>1 DEF Server
<1>10. TypeOK'
  BY <1>1, <1>2, <1>4, <1>8, <1>9 DEF TypeOK
<1>11. Written'
  BY <1>1, <1>2, <1>5, GrownWritten
<1> QED BY <1>2, <1>5, <1>6, <1>7, <1>10, <1>11, GrownStep

-----------------------------------------------------------------------------
(***************************************************************************)
(* The document write and the reload                                       *)
(***************************************************************************)

LEMMA OperationStep ==
  ASSUME IInv, wr' \in WriteRecord, rl' \in ReloadRecord, Written', Reloading',
         UNCHANGED << hist, base, faults, watch, stream, current, cancelled, cache, store,
                      sess, late, astray >>
  PROVE  IInv'
<1>1. TypeOK /\ Aged /\ Based
  BY DEF IInv
<1>2. TypeOK'
  BY <1>1 DEF TypeOK, Server
<1>3. Grown
  BY <1>1, SameGrown
<1>4. \A t \in Sessions : Follows(t)'
  BY <1>2, <1>3, Bystanders
<1>5. Aged' /\ Based'
  BY <1>1, SamePast
<1>6. Cached'
  BY <1>1, SameCached DEF IInv, SameCache
<1>7. Mirrored'
  BY <1>1, SameMirror DEF IInv, SameCache
<1>8. Seated' /\ FreshIsFed'
  BY DEF IInv, Seated, Latest, FreshIsFed
<1> QED BY <1>2, <1>4, <1>5, <1>6, <1>7, <1>8 DEF IInv

(***************************************************************************)
(* Cancellations and sweeps                                                *)
(***************************************************************************)

LEMMA CancelStep ==
  ASSUME IInv, Cancel
  PROVE  IInv'
<1>1. TypeOK /\ Aged /\ Based
  BY DEF IInv
<1>2. UNCHANGED << hist, base, watch, stream, current, cache, store, sess, late, astray,
                   wr, rl >>
  BY DEF Cancel, ops
<1>3. cancelled' \in BOOLEAN
  BY DEF Cancel
<1>4. faults' \in 0..MaxFaults
  BY <1>1, BoundsAssumption DEF Cancel, TypeOK
<1>5. TypeOK'
  BY <1>1, <1>2, <1>3, <1>4 DEF TypeOK, Server
<1>6. Grown
  BY <1>1, <1>2, SameGrown
<1>7. Aged' /\ Based'
  BY <1>1, <1>2, SamePast
<1>8. Written'
  BY <1>1, <1>2, <1>6, GrownWritten DEF IInv
<1> QED BY <1>2, <1>5, <1>6, <1>7, <1>8, GrownStep

\* What a handler call makes of a row depends on that row alone.
LEMMA RowWise ==
  ASSUME NEW rows \in State, NEW pruned \in State, NEW batch \in Batches, NEW k \in Keys,
         pruned[k] = rows[k]
  PROVE  Published(pruned, batch)[k] = Published(rows, batch)[k]
<1>1. CASE batch.full
  BY <1>1 DEF Published
<1>2. CASE ~batch.full
  BY <1>2, PartialRow DEF Published
<1> QED BY <1>1, <1>2

LEMMA RetainStep ==
  ASSUME IInv, NEW K \in SUBSET Keys, Retain(K)
  PROVE  IInv'
<1>1. TypeOK /\ Aged /\ Based
  BY DEF IInv
<1>2. /\ UNCHANGED << hist, base, watch, stream, current, cancelled, cache, sess, late, wr, rl >>
      /\ astray' = astray \cup K
  BY DEF Retain, registry, ops
<1>3. store' \in State /\ \A k \in Keys \ K : store'[k] = store[k]
  BY <1>1 DEF Retain, TypeOK, State
<1>4. faults' \in 0..MaxFaults
  BY <1>1, BoundsAssumption DEF Retain, TypeOK
<1>5. astray' \subseteq Keys
  BY <1>1, <1>2 DEF TypeOK
<1>6. TypeOK'
  BY <1>1, <1>2, <1>3, <1>4, <1>5 DEF TypeOK, Server
<1>7. Grown
  BY <1>1, <1>2, SameGrown
<1>8. \A t \in Sessions : Follows(t)'
  BY <1>2, <1>6, <1>7, Bystanders
<1>9. Aged' /\ Based'
  BY <1>1, <1>2, SamePast
<1>10. Cached' /\ Written' /\ Reloading'
  BY <1>1, <1>2, SameCached, SameOps DEF IInv, SameCache
<1>11. Seated' /\ FreshIsFed'
  BY <1>2 DEF IInv, Seated, Latest, FreshIsFed
<1>12. Mirrored'
  <2> SUFFICES ASSUME ~late PROVE Mirrored'
    BY <1>2 DEF Mirrored
  <2>1. CASE \E s \in Sessions : sess[s].pc = "publish" /\ s # current
    BY <1>2, <2>1 DEF Mirrored
  <2>2. CASE /\ \A s \in Sessions : sess[s].pc # "publish"
             /\ \A k \in Keys \ astray : store[k] = RowOf(cache.data[k])
    BY <1>2, <1>3, <2>2 DEF Mirrored
  <2>3. CASE /\ current # 0 /\ sess[current].pc = "publish"
             /\ \A k \in Keys \ astray :
                   Published(store, sess[current].batch)[k] = RowOf(cache.data[k])
    <3>1. current \in Sessions
      BY <1>1, <2>3, BoundsAssumption DEF TypeOK, Sessions
    <3>2. PICK batch \in Batches : batch = sess[current].batch
      BY <1>1, <3>1, SessionType
    <3>3. PICK rows \in State : rows = store
      BY <1>1 DEF TypeOK
    <3>4. PICK pruned \in State : pruned = store'
      BY <1>3
    <3>5. ASSUME NEW k \in Keys \ astray' PROVE Published(pruned, batch)[k] = RowOf(cache.data[k])
      <4>1. k \in Keys /\ k \notin astray /\ pruned[k] = rows[k]
        BY <1>2, <1>3, <3>3, <3>4
      <4>2. Published(pruned, batch)[k] = Published(rows, batch)[k]
        BY <4>1, RowWise
      <4> QED BY <2>3, <3>2, <3>3, <4>1, <4>2
    <3>6. \A k \in Keys \ astray' :
             Published(store', sess'[current'].batch)[k] = RowOf(cache'.data[k])
      BY <1>2, <3>2, <3>4, <3>5
    <3>7. current' # 0 /\ sess'[current'].pc = "publish"
      BY <1>2, <2>3
    <3> QED BY <3>6, <3>7 DEF Mirrored, Published, FullSet, PartialUpdate, Upsert
  <2> QED BY <2>1, <2>2, <2>3 DEF IInv, Mirrored
<1> QED BY <1>6, <1>8, <1>9, <1>10, <1>11, <1>12 DEF IInv

LEMMA WriteType ==
  ASSUME TypeOK
  PROVE  /\ wr \in WriteRecord /\ wr.key \in Keys /\ wr.pre \in Nat /\ wr.rv \in Nat
         /\ NoWrite \in WriteRecord
<1>1. wr \in WriteRecord
  BY DEF TypeOK
<1>2. wr.key \in Keys /\ wr.pre \in Nat /\ wr.rv \in Nat
  BY <1>1 DEF WriteRecord
<1>3. (CHOOSE k \in Keys : TRUE) \in Keys
  BY BoundsAssumption
<1>4. PICK k \in Keys : k = CHOOSE j \in Keys : TRUE
  BY <1>3
<1>5. NoWrite = [pc |-> "idle", key |-> k, pre |-> 0, via |-> FALSE, put |-> "none", rv |-> 0,
                 result |-> "none"]
  BY <1>4, Zenon DEF NoWrite
<1>6. NoWrite \in WriteRecord
  BY <1>5 DEF WriteRecord, Results
<1> QED BY <1>1, <1>2, <1>6

LEMMA EndSets ==
  ASSUME TypeOK, NEW result \in Results, EndWrite(result)
  PROVE  /\ wr' \in WriteRecord /\ wr'.pc = "done" /\ wr'.result = result
         /\ wr'.put = "applied" =>
               /\ wr.put = "applied" /\ wr'.rv = wr.rv /\ wr'.key = wr.key
               /\ wr'.pre = wr.pre
<1>1. PICK r : r = IF result = "failed" THEN wr ELSE NoWrite
  OBVIOUS
<1>2. r \in WriteRecord
  BY <1>1, WriteType
<1>3. wr' = [r EXCEPT !.pc = "done", !.via = FALSE, !.result = result]
  BY <1>1 DEF EndWrite
<1>4. wr' \in WriteRecord
  BY <1>2, <1>3 DEF WriteRecord
<1>5. wr'.pc = "done" /\ wr'.result = result
  BY <1>2, <1>3 DEF WriteRecord
<1>6. wr'.put = r.put /\ wr'.rv = r.rv /\ wr'.key = r.key /\ wr'.pre = r.pre
  BY <1>2, <1>3 DEF WriteRecord
<1>7. NoWrite.put = "none"
  BY DEF NoWrite
<1> QED BY <1>1, <1>4, <1>5, <1>6, <1>7

LEMMA EndWritten ==
  ASSUME TypeOK, Written, NEW result \in Results, EndWrite(result), UNCHANGED hist
  PROVE  Written' /\ wr' \in WriteRecord /\ wr'.pc = "done" /\ wr'.result = result
<1>1. /\ wr' \in WriteRecord /\ wr'.pc = "done" /\ wr'.result = result
      /\ wr'.put = "applied" =>
               /\ wr.put = "applied" /\ wr'.rv = wr.rv /\ wr'.key = wr.key
               /\ wr'.pre = wr.pre
  BY EndSets
<1>2. wr'.put = "applied" =>
          /\ wr'.rv + 1 \in DOMAIN hist' /\ wr'.rv >= 1
          /\ hist'[wr'.rv][wr'.key] # NoDoc /\ hist'[wr'.rv][wr'.key].rv = wr'.pre
          /\ hist'[wr'.rv + 1][wr'.key] = [rv |-> wr'.rv, kind |-> "on"]
  BY <1>1 DEF Written
<1> QED BY <1>1, <1>2 DEF Written

\* A document is judged: the operation ends, or the PUT is sent.
LEMMA JudgeSets ==
  ASSUME TypeOK, Written, NEW k \in Keys, NEW doc \in Doc, NEW via \in BOOLEAN,
         Judge(k, doc, via), wr.result = "none", UNCHANGED << hist, base, late, cache >>,
         ~late /\ ~via => cache.server # 0 /\ doc.rv < CacheEnd
  PROVE  Written' /\ wr' \in WriteRecord /\ wr'.pc \in {"sent", "done"}
<1>1. doc.rv \in Nat /\ doc.kind \in {"off", "on", "other"}
  BY DEF Doc, Kinds
<1>2. CASE doc.kind = "on"
  BY <1>2, EndWritten DEF Judge, Results
<1>3. CASE doc.kind = "other"
  BY <1>3, EndWritten DEF Judge, Results
<1>4. CASE doc.kind = "off"
  <2>1. wr' = [wr EXCEPT !.pc = "sent", !.key = k, !.via = via, !.pre = doc.rv,
                         !.put = "inflight"]
    BY <1>4 DEF Judge
  <2>2. wr \in WriteRecord
    BY WriteType
  <2>3. wr' \in WriteRecord
    BY <1>1, <2>1, <2>2 DEF WriteRecord
  <2>4. /\ wr'.pc = "sent" /\ wr'.via = via /\ wr'.pre = doc.rv
        /\ wr'.put = "inflight" /\ wr'.result = wr.result
    BY <2>1, <2>2 DEF WriteRecord
  <2>5. CacheEnd' = CacheEnd
    BY DEF CacheEnd
  <2>6. Written'
    BY <2>4, <2>5 DEF Written
  <2> QED BY <2>3, <2>4, <2>6
<1> QED BY <1>1, <1>2, <1>3, <1>4

LEMMA SameReload ==
  ASSUME IInv, UNCHANGED << cache, late, rl >>
  PROVE  rl' \in ReloadRecord /\ Reloading'
  BY DEF IInv, TypeOK, Reloading

LEMMA WriteReadsStep ==
  ASSUME IInv, NEW k \in Keys, WriteReads(k)
  PROVE  IInv'
<1>1. TypeOK /\ Aged /\ Based /\ Cached /\ Written
  BY DEF IInv
<1>2. UNCHANGED << hist, base, faults, watch, stream, current, cancelled, cache, store, sess,
                   late, astray, rl >>
  BY DEF WriteReads, controller, registry
<1>3. wr.pc = "idle" /\ wr.result = "none"
  BY <1>1 DEF WriteReads, Written
<1>4. Written' /\ wr' \in WriteRecord
  <2>1. CASE cache.data[k] # NoDoc
    <3>1. PICK doc : doc = cache.data[k]
      OBVIOUS
    <3>2. doc \in Doc
      <4>1. cache.data \in State
        BY <1>1 DEF TypeOK, Cache
      <4> QED BY <2>1, <3>1, <4>1 DEF State
    <3>3. Judge(k, doc, FALSE)
      BY <2>1, <3>1 DEF WriteReads
    <3>4. ~late => cache.server # 0 /\ doc.rv < CacheEnd
      <4>1. Empty[k] = NoDoc
        BY DEF Empty
      <4>2. ~late => /\ cache.server # 0 /\ CacheEnd \in DOMAIN hist
                     /\ cache.data = hist[CacheEnd]
        BY <1>1, <2>1, <4>1, NowType DEF Cached
      <4> QED BY <1>1, <3>1, <4>2 DEF Aged
    <3> QED BY <1>1, <1>2, <1>3, <3>2, <3>3, <3>4, JudgeSets
  <2>2. CASE cache.data[k] = NoDoc /\ Dispatchable
    <3>1. EndWrite("failed") /\ "failed" \in Results
      BY <2>2 DEF WriteReads, Results
    <3> QED BY <1>1, <1>2, <3>1, EndWritten
  <2>3. CASE cache.data[k] = NoDoc /\ ~Dispatchable
    <3>1. wr' = [wr EXCEPT !.pc = "fetch", !.key = k]
      BY <2>3 DEF WriteReads
    <3>2. wr \in WriteRecord
      BY <1>1, WriteType
    <3>3. wr' \in WriteRecord
      BY <3>1, <3>2 DEF WriteRecord
    <3>4. wr'.pc = "fetch" /\ wr'.put = wr.put /\ wr'.result = wr.result
      BY <3>1, <3>2 DEF WriteRecord
    <3>5. wr.put = "none"
      BY <1>1, <1>3 DEF Written
    <3> QED BY <1>3, <3>3, <3>4, <3>5 DEF Written
  <2> QED BY <2>1, <2>2, <2>3
<1> QED BY <1>2, <1>4, OperationStep, SameReload

LEMMA WriteFetchesStep ==
  ASSUME IInv, WriteFetches
  PROVE  IInv'
<1>1. TypeOK /\ Aged /\ Based /\ Cached /\ Written
  BY DEF IInv
<1>2. UNCHANGED << hist, base, faults, watch, stream, current, cancelled, cache, store, sess,
                   late, astray, rl >>
  BY DEF WriteFetches, controller, registry
<1>3. wr.pc = "fetch" /\ wr.result = "none"
  BY <1>1 DEF WriteFetches, Written
<1>4. Written' /\ wr' \in WriteRecord
  <2>1. CASE EndWrite("failed")
    <3>1. "failed" \in Results
      BY DEF Results
    <3> QED BY <1>1, <1>2, <2>1, <3>1, EndWritten
  <2>2. CASE hist[Now][wr.key] # NoDoc /\ Judge(wr.key, hist[Now][wr.key], TRUE)
    <3>1. PICK doc : doc = hist[Now][wr.key]
      OBVIOUS
    <3>2. PICK k \in Keys : k = wr.key
      BY <1>1, WriteType
    <3>3. doc \in Doc
      <4>1. hist[Now] \in State /\ hist[Now][k] \in Doc \cup {NoDoc}
        BY <1>1, NowType, HistType
      <4> QED BY <2>2, <3>1, <3>2, <4>1
    <3>4. Judge(k, doc, TRUE)
      BY <2>2, <3>1, <3>2
    <3> QED BY <1>1, <1>2, <1>3, <3>3, <3>4, JudgeSets
  <2> QED BY <2>1, <2>2 DEF WriteFetches
<1> QED BY <1>2, <1>4, OperationStep, SameReload

LEMMA PutStep ==
  ASSUME IInv, Put
  PROVE  IInv'
<1>1. TypeOK /\ Aged /\ Based /\ Cached /\ Written
  BY DEF IInv
<1>2. UNCHANGED << base, faults, watch, stream, current, cancelled, cache, store, sess, late,
                   astray, rl >>
  BY DEF Put, registry
<1>3. wr.put = "inflight" /\ wr.pc # "poll" /\ wr.pc \notin {"idle", "fetch"}
  BY <1>1 DEF Put, Written
<1>4. wr \in WriteRecord /\ wr.key \in Keys
  BY <1>1, WriteType
<1>5. /\ Now \in Nat /\ Now >= 1 /\ Now \in DOMAIN hist /\ hist \in Seq(State)
  BY <1>1, NowType
<1>6. CASE wr' = [wr EXCEPT !.put = "conflict"] /\ UNCHANGED hist
  <2>1. wr' \in WriteRecord
    BY <1>4, <1>6 DEF WriteRecord
  <2>2. /\ wr'.put = "conflict" /\ wr'.pc = wr.pc /\ wr'.result = wr.result
        /\ wr'.via = wr.via /\ wr'.pre = wr.pre
    BY <1>4, <1>6 DEF WriteRecord
  <2>3. CacheEnd' = CacheEnd
    BY <1>2 DEF CacheEnd
  <2>4. Written'
    BY <1>1, <1>2, <1>3, <2>2, <2>3 DEF Written
  <2> QED BY <1>2, <1>6, <2>1, <2>4, OperationStep, SameReload
<1>7. CASE /\ hist[Now][wr.key] # NoDoc /\ hist[Now][wr.key].rv = wr.pre
           /\ hist' = Append(hist, [hist[Now] EXCEPT ![wr.key] = [rv |-> Now, kind |-> "on"]])
           /\ wr' = [wr EXCEPT !.put = "applied", !.rv = Now]
  <2>1. PICK doc : doc = [rv |-> Now, kind |-> "on"]
    OBVIOUS
  <2>2. PICK k \in Keys : k = wr.key
    BY <1>4
  <2>3. doc \in Doc \cup {NoDoc} /\ doc.rv = Now
    BY <1>5, <2>1 DEF Doc, Kinds
  <2>4. doc # hist[Now][k]
    <3>1. hist[Now][k].rv < Now
      BY <1>1, <1>5 DEF Aged
    <3> QED BY <1>5, <2>3, <3>1
  <2>5. hist' = Append(hist, [hist[Now] EXCEPT ![k] = doc])
    BY <1>7, <2>1, <2>2
  <2>6. /\ Aged' /\ hist' \in Seq(State) /\ Len(hist') = Len(hist) + 1
        /\ \A n \in DOMAIN hist : n \in DOMAIN hist' /\ hist'[n] = hist[n]
        /\ hist'[Now + 1][k] = doc
    BY <1>1, <2>3, <2>4, <2>5, ChangeAged
  <2>7. Grown
    BY <1>1, <1>2, <2>6 DEF Grown, TypeOK
  <2>8. Based'
    <3>1. Now' = Now + 1
      BY <2>6 DEF Now
    <3>2. \A i \in DOMAIN base : base[i] \in Nat
      BY <1>1 DEF TypeOK
    <3> QED BY <1>1, <1>2, <1>5, <3>1, <3>2 DEF Based, Server
  <2>9. wr' \in WriteRecord
    BY <1>4, <1>5, <1>7 DEF WriteRecord
  <2>10. /\ wr'.put = "applied" /\ wr'.rv = Now /\ wr'.key = k /\ wr'.pre = wr.pre
         /\ wr'.pc = wr.pc /\ wr'.result = wr.result /\ wr'.via = wr.via
    BY <1>4, <1>7, <2>2 DEF WriteRecord
  <2>11. TypeOK'
    BY <1>1, <1>2, <2>6, <2>9 DEF TypeOK, Server
  <2>12. /\ wr'.rv + 1 \in DOMAIN hist' /\ wr'.rv >= 1
         /\ hist'[wr'.rv][wr'.key] # NoDoc /\ hist'[wr'.rv][wr'.key].rv = wr'.pre
         /\ hist'[wr'.rv + 1][wr'.key] = [rv |-> wr'.rv, kind |-> "on"]
    <3>1. Now + 1 \in DOMAIN hist' /\ hist'[Now] = hist[Now]
      BY <1>5, <2>6 DEF Now
    <3> QED BY <1>5, <1>7, <2>1, <2>2, <2>6, <2>10, <3>1
  <2>13. cache.server # 0 => CacheEnd' = CacheEnd
    BY <1>1, <1>2, <2>7, CacheEndSame
  <2>14. Written'
    BY <1>1, <1>2, <1>3, <2>10, <2>12, <2>13 DEF Written
  <2> QED BY <1>2, <2>6, <2>7, <2>8, <2>11, <2>14, GrownStep
<1> QED BY <1>6, <1>7 DEF Put

LEMMA WriteAnsweredStep ==
  ASSUME IInv, WriteAnswered
  PROVE  IInv'
<1>1. TypeOK /\ Aged /\ Based /\ Cached /\ Written
  BY DEF IInv
<1>2. UNCHANGED << hist, base, faults, watch, stream, current, cancelled, cache, store, sess,
                   late, astray, rl >>
  BY DEF WriteAnswered, controller, registry
<1>3. AfterPut \in Results \cup {"poll"} /\ "accepted" \in Results
  BY DEF AfterPut, Results
<1>4. CASE EndWrite(AfterPut) /\ AfterPut # "poll"
  BY <1>1, <1>2, <1>3, <1>4, EndWritten, OperationStep, SameReload
<1>5. CASE EndWrite("accepted")
  BY <1>1, <1>2, <1>3, <1>5, EndWritten, OperationStep, SameReload
<1>6. CASE wr' = [wr EXCEPT !.pc = "poll"] /\ AfterPut = "poll"
  <2>1. wr \in WriteRecord
    BY <1>1, WriteType
  <2>2. wr' \in WriteRecord
    BY <1>6, <2>1 DEF WriteRecord
  <2>3. /\ wr'.pc = "poll" /\ wr'.put = wr.put /\ wr'.rv = wr.rv /\ wr'.key = wr.key
        /\ wr'.pre = wr.pre /\ wr'.result = wr.result /\ wr'.via = wr.via
    BY <1>6, <2>1 DEF WriteRecord
  <2>4. wr.put = "applied" /\ wr.pc = "sent"
    BY <1>6 DEF AfterPut, WriteAnswered
  <2>5. CacheEnd' = CacheEnd
    BY <1>2 DEF CacheEnd
  <2>6. Written'
    BY <1>1, <1>2, <2>3, <2>4, <2>5 DEF Written
  <2> QED BY <1>2, <2>2, <2>6, OperationStep, SameReload
<1> QED BY <1>4, <1>5, <1>6 DEF WriteAnswered

LEMMA WriteUnansweredStep ==
  ASSUME IInv, WriteUnanswered
  PROVE  IInv'
<1>1. TypeOK /\ Written /\ "failed" \in Results
  BY DEF IInv, Results
<1>2. UNCHANGED << hist, base, faults, watch, stream, current, cancelled, cache, store, sess,
                   late, astray, rl >>
  BY DEF WriteUnanswered, controller, registry
<1>3. EndWrite("failed")
  BY DEF WriteUnanswered
<1> QED BY <1>1, <1>2, <1>3, EndWritten, OperationStep, SameReload

LEMMA WritePollsStep ==
  ASSUME IInv, WritePolls
  PROVE  IInv'
<1>1. TypeOK /\ Written
  BY DEF IInv
<1>2. UNCHANGED << hist, base, faults, watch, stream, current, cancelled, cache, store, sess,
                   late, astray, rl >>
  BY DEF WritePolls, controller, registry
<1>3. PICK result \in {"converged", "superseded", "unknown"} : EndWrite(result)
  BY DEF WritePolls
<1>4. result \in Results
  BY DEF Results
<1> QED BY <1>1, <1>2, <1>3, <1>4, EndWritten, OperationStep, SameReload

\* A step of the reload.
LEMMA ReloadStep ==
  ASSUME IInv, rl' \in ReloadRecord, Reloading', UNCHANGED wr,
         UNCHANGED << hist, base, faults, watch, stream, current, cancelled, cache, store,
                      sess, late, astray >>
  PROVE  IInv'
<1>1. wr' \in WriteRecord
  BY DEF IInv, TypeOK
<1>2. CacheEnd' = CacheEnd
  BY DEF CacheEnd
<1>3. Written'
  BY <1>2 DEF IInv, Written
<1> QED BY <1>1, <1>3, OperationStep

LEMMA EndReloadSets ==
  ASSUME NEW result \in Results, EndReload(result)
  PROVE  rl' \in ReloadRecord /\ Reloading'
<1>1. rl' = [pc |-> "done", baseline |-> 0, result |-> result]
  BY DEF EndReload
<1>2. rl' \in ReloadRecord /\ rl'.pc = "done"
  BY <1>1 DEF ReloadRecord
<1> QED BY <1>2 DEF Reloading

LEMMA ReloadSteps ==
  ASSUME IInv, Reload
  PROVE  IInv'
<1>0. rl \in ReloadRecord /\ cache.server \in Nat /\ Reloading
  BY DEF IInv, TypeOK, Cache
<1>1. CASE ReloadBegins
  <2>1. UNCHANGED << hist, base, faults, watch, stream, current, cancelled, cache, store,
                     sess, late, astray, wr >>
    BY <1>1 DEF ReloadBegins, controller, registry
  <2>2. rl.pc = "idle" /\ rl' = [rl EXCEPT !.pc = "sent", !.baseline = cache.server]
    BY <1>1 DEF ReloadBegins
  <2>3. rl' \in ReloadRecord
    BY <1>0, <2>2 DEF ReloadRecord
  <2>4. rl'.pc = "sent" /\ rl'.baseline = cache.server /\ rl'.result = rl.result
    BY <1>0, <2>2 DEF ReloadRecord
  <2>5. Reloading'
    BY <1>0, <2>1, <2>2, <2>4 DEF Reloading
  <2> QED BY <2>1, <2>3, <2>5, ReloadStep
<1>2. CASE ReloadAnswered
  <2>1. UNCHANGED << hist, base, faults, watch, stream, current, cancelled, cache, store,
                     sess, late, astray, wr >>
    BY <1>2 DEF ReloadAnswered, controller, registry
  <2>2. CASE EndReload("refused")
    BY <2>1, <2>2, EndReloadSets, ReloadStep DEF Results
  <2>3. CASE EndReload("accepted")
    BY <2>1, <2>3, EndReloadSets, ReloadStep DEF Results
  <2>4. CASE rl' = [rl EXCEPT !.pc = "poll"]
    <3>1. rl.pc = "sent"
      BY <1>2 DEF ReloadAnswered
    <3>2. rl' \in ReloadRecord
      BY <1>0, <2>4 DEF ReloadRecord
    <3>3. rl'.pc = "poll" /\ rl'.baseline = rl.baseline /\ rl'.result = rl.result
      BY <1>0, <2>4 DEF ReloadRecord
    <3>4. Reloading'
      BY <1>0, <2>1, <3>1, <3>3 DEF Reloading
    <3> QED BY <2>1, <3>2, <3>4, ReloadStep
  <2> QED BY <1>2, <2>2, <2>3, <2>4 DEF ReloadAnswered
<1>3. CASE ReloadPolls
  <2>1. UNCHANGED << hist, base, faults, watch, stream, current, cancelled, cache, store,
                     sess, late, astray, wr >>
    BY <1>3 DEF ReloadPolls, controller, registry
  <2>2. PICK result \in {"converged", "unknown"} : EndReload(result)
    BY <1>3 DEF ReloadPolls
  <2>3. result \in Results
    BY DEF Results
  <2> QED BY <2>1, <2>2, <2>3, EndReloadSets, ReloadStep
<1> QED BY <1>1, <1>2, <1>3 DEF Reload

-----------------------------------------------------------------------------
(***************************************************************************)
(* The theorems                                                            *)
(***************************************************************************)

LEMMA Initially ==
  ASSUME Init
  PROVE  IInv
<1>1. PICK first : first = [k \in Keys |-> IF Initial[k] = "none" THEN NoDoc
                                           ELSE [rv |-> 0, kind |-> Initial[k]]]
  OBVIOUS
<1>2. hist = << first >> /\ base = << 0 >>
  BY <1>1 DEF Init
<1>3. first \in State /\ \A k \in Keys : first[k].rv = 0
  BY <1>1, BoundsAssumption DEF State, Doc, NoDoc
<1>4. hist \in Seq(State) /\ Len(hist) = 1 /\ DOMAIN hist = {1} /\ hist[1] = first
  BY <1>2, <1>3
<1>5. base \in Seq(Nat) /\ Len(base) = 1 /\ DOMAIN base = {1} /\ base[1] = 0
  BY <1>2
<1>6. Now = 1 /\ Server = 1
  BY <1>4, <1>5 DEF Now, Server
<1>7. TypeOK
  <2>1. /\ watch \in [Sessions -> Watches] /\ stream \in [Sessions -> Seq(Messages)]
        /\ sess \in [Sessions -> SessionRecord]
    BY Constants DEF Init
  <2>2. cache \in Cache /\ cache.server <= Server /\ store \in State
    BY <1>6, Constants DEF Init, Cache
  <2>3. wr \in WriteRecord
    <3>1. (CHOOSE k \in Keys : TRUE) \in Keys
      BY BoundsAssumption
    <3>2. PICK k \in Keys : k = CHOOSE j \in Keys : TRUE
      BY <3>1
    <3>3. NoWrite = [pc |-> "idle", key |-> k, pre |-> 0, via |-> FALSE, put |-> "none",
                     rv |-> 0, result |-> "none"]
      BY <3>2, Zenon DEF NoWrite
    <3>4. NoWrite \in WriteRecord
      BY <3>3 DEF WriteRecord, Results
    <3> QED BY <3>4 DEF Init
  <2>4. rl \in ReloadRecord
    BY DEF Init, ReloadRecord, Results
  <2>5. /\ faults \in 0..MaxFaults /\ current \in 0..MaxSessions /\ late \in BOOLEAN
        /\ astray \subseteq Keys /\ cancelled \in BOOLEAN
    <3>1. faults = 0 /\ current = 0 /\ late = FALSE /\ astray = {} /\ cancelled = FALSE
      BY Zenon DEF Init
    <3>2. 0 \in 0..MaxFaults /\ 0 \in 0..MaxSessions
      BY BoundsAssumption
    <3> QED BY <3>1, <3>2
  <2> QED BY <1>4, <1>5, <2>1, <2>2, <2>3, <2>4, <2>5 DEF TypeOK
<1>8. Aged
  <2>1. \A n \in DOMAIN hist : \A k \in Keys : hist[n][k].rv < n
    BY <1>3, <1>4
  <2>2. 2..Now = {}
    BY <1>6
  <2>3. \A m, n \in DOMAIN hist : hist[m] = hist[n]
    BY <1>4
  <2> QED BY <1>6, <2>1, <2>2, <2>3 DEF Aged
<1>9. Based
  BY <1>5, <1>6 DEF Based
<1>10. Cached /\ FreshIsFed /\ Reloading
  BY DEF Init, Cached, FreshIsFed, Reloading
<1>11. Written
  <2>1. wr.pc = "idle" /\ wr.put = "none" /\ wr.result = "none"
    BY DEF Init, NoWrite
  <2> QED BY <2>1 DEF Written
<1>12. ASSUME NEW s \in Sessions PROVE Follows(s)
  <2>1. /\ sess[s] = NoSession /\ stream[s] = << >> /\ watch[s] = NoWatch /\ current = 0
        /\ s # 0
    BY DEF Init, Sessions
  <2>2. sess[s].pc = "idle" /\ ~watch[s].on
    BY <2>1 DEF NoSession, NoWatch
  <2>3. Size(s) = 0
    BY <2>1, <2>2 DEF Size, Held
  <2>4. 1..Size(s) = {}
    BY <2>3
  <2>5. Line(s)
    BY <2>4 DEF Line
  <2>6. Placed(s)
    BY <2>1, <2>2 DEF Placed
  <2>7. Feeds(s) /\ Chained(s)
    BY <2>1 DEF Feeds, Chained
  <2> QED BY <2>5, <2>6, <2>7 DEF Follows
<1>13. Mirrored
  <2>1. \A s \in Sessions : sess[s].pc # "publish"
    BY DEF Init, NoSession
  <2>2. \A k \in Keys : store[k] = RowOf(cache.data[k])
    <3>1. store = Empty /\ cache.data = Empty /\ \A k \in Keys : Empty[k] = NoDoc
      BY DEF Init, Empty
    <3> QED BY <3>1 DEF RowOf, NoDoc, Overrides
  <2> QED BY <2>1, <2>2 DEF Mirrored
<1>14. Seated
  <2>1. current = 0 /\ \A s \in Sessions : sess[s].pc = "idle"
    BY DEF Init, NoSession
  <2>2. \A s \in Sessions : ~Latest(s) /\ current # s
    BY <2>1 DEF Latest, Sessions
  <2> QED BY <2>1, <2>2 DEF Seated
<1> QED BY <1>7, <1>8, <1>9, <1>10, <1>11, <1>12, <1>13, <1>14 DEF IInv

LEMMA Preserved ==
  ASSUME IInv, [Next]_vars
  PROVE  IInv'
<1>1. ASSUME NEW s \in Sessions, Session(s) PROVE IInv'
  <2>1. CASE Open(s)
    BY <2>1, OpenStep
  <2>2. CASE Receive(s)
    BY <2>2, ReceiveStep
  <2>3. CASE Disconnect(s)
    BY <2>3, DisconnectStep
  <2>4. CASE SetStale(s)
    BY <2>4, SetStaleStep
  <2>5. CASE BackoffEnds(s)
    BY <2>5, BackoffEndsStep
  <2>6. CASE BackoffStops(s) \/ Superseded(s)
    BY <2>6, GoneStep
  <2>7. CASE Apply(s)
    BY <2>7, ApplySkippedStep, ApplyListStep, ApplyReWatchStep, ApplyEventsStep,
       ApplyBackoffStep, ApplyForbiddenStep DEF Apply
  <2>8. CASE Publish(s)
    BY <2>8, PublishStep
  <2>9. CASE Begin(s)
    BY <2>9, BeginStep
  <2>10. CASE Abandon(s)
    BY <2>10, AbandonStep
  <2>11. CASE Recheck(s)
    BY <2>11, RecheckStep
  <2> QED BY <1>1, <2>1, <2>2, <2>3, <2>4, <2>5, <2>6, <2>7, <2>8, <2>9, <2>10, <2>11
          DEF Session
<1>2. ASSUME NEW s \in Sessions, Serve(s) PROVE IInv'
  BY <1>2, ServeListStep, ServeResumeStep, ServeEventsStep, ServeRebuiltStep, FaultStep
     DEF Serve
<1>3. CASE Write
  BY <1>3, WriteReadsStep, WriteFetchesStep, PutStep, WriteAnsweredStep, WriteUnansweredStep,
     WritePollsStep DEF Write
<1>4. CASE Reload
  BY <1>4, ReloadSteps
<1>5. ASSUME NEW e \in Edits, Change(e) PROVE IInv'
  BY <1>5, ChangeStep
<1>6. CASE Rebuild
  BY <1>6, RebuildStep
<1>7. CASE UNCHANGED vars
  <2>1. UNCHANGED << hist, base, faults, watch, stream, current, cancelled, cache, store,
                     sess, late, astray, wr, rl >>
    BY <1>7 DEF vars
  <2>2. Reloading' /\ rl' \in ReloadRecord
    BY <2>1, SameReload
  <2> QED BY <2>1, <2>2, ReloadStep
<1>8. CASE Cancel
  BY <1>8, CancelStep
<1>9. ASSUME NEW K \in SUBSET Keys, Retain(K) PROVE IInv'
  BY <1>9, RetainStep
<1> QED BY <1>1, <1>2, <1>3, <1>4, <1>5, <1>6, <1>7, <1>8, <1>9 DEF Next

\* The line of messages, the cache, its rows and the operations keep to IInv in
\* every reachable state.
THEOREM Inductive == Spec => []IInv
  BY Initially, Preserved, PTL DEF Spec

\* Every variable has its type.
THEOREM TypeCorrect == Spec => []TypeOK
<1>1. IInv => TypeOK
  BY DEF IInv
<1> QED BY <1>1, Inductive, PTL

\* apply_watch_list and apply_watch_event: as long as only the current session
\* writes, the cache is the state its server id and sync version name.
THEOREM Snapshots == Spec => []CacheIsSnapshot
<1>1. IInv => CacheIsSnapshot
  <2> SUFFICES ASSUME IInv, ~late PROVE CacheIsSnapshot
    BY DEF CacheIsSnapshot
  <2>1. DOMAIN hist = 1..Now
    BY NowType DEF IInv
  <2>2. Cached
    BY DEF IInv
  <2> QED BY <2>1, <2>2 DEF Cached, CacheIsSnapshot, CacheEnd, Snapshot
<1> QED BY <1>1, Inductive, PTL

\* full_set, partial_update and retain_controllers: outside a handler call the
\* override rows are those of the cached documents, but for the keys pruned or
\* touched twice since a list or a batch last put their row right.
THEOREM MirrorKept == Spec => []StoreMirrorsCache
<1>1. IInv => StoreMirrorsCache
  <2> SUFFICES ASSUME IInv, ~late, \A s \in Sessions : sess[s].pc # "publish"
               PROVE  \A k \in Keys \ astray : store[k] = RowOf(cache.data[k])
    BY DEF StoreMirrorsCache
  <2>1. Mirrored /\ TypeOK
    BY DEF IInv
  <2>2. current # 0 => current \in Sessions
    BY <2>1, BoundsAssumption DEF TypeOK, Sessions
  <2> QED BY <2>1, <2>2 DEF Mirrored
<1> QED BY <1>1, Inductive, PTL

\* mark_offline, Overflow and Forbidden: a cache that is not stale is being fed by
\* the latest session, or about to be marked, or that session is gone by one of the
\* ways out that skip the cleanup.
THEOREM FreshFed == Spec => []FreshIsFed
<1>1. IInv => FreshIsFed
  BY DEF IInv
<1> QED BY <1>1, Inductive, PTL

\* The poll of a write sees its own change or a later one.
LEMMA PollSeesOwn ==
  ASSUME IInv, wr.pc = "poll", ~late, ~wr.via, VersionMoved(cache.data[wr.key])
  PROVE  /\ wr.put = "applied"
         /\ cache.data[wr.key].rv >= wr.rv
         /\ cache.data[wr.key].kind # "on" => cache.data[wr.key].rv > wr.rv
<1>1. TypeOK /\ Aged /\ Based /\ Cached /\ Written
  BY DEF IInv
<1>2. PICK k \in Keys : k = wr.key
  BY <1>1 DEF TypeOK, WriteRecord
<1>3. PICK v \in Nat : v = wr.rv
  BY <1>1 DEF TypeOK, WriteRecord
<1>4. PICK p \in Nat : p = wr.pre
  BY <1>1 DEF TypeOK, WriteRecord
<1>5. /\ wr.put = "applied" /\ v + 1 \in DOMAIN hist /\ v >= 1
      /\ hist[v][k] # NoDoc /\ hist[v][k].rv = p
      /\ hist[v + 1][k] = [rv |-> v, kind |-> "on"]
      /\ cache.server # 0 /\ p < CacheEnd
  BY <1>1, <1>2, <1>3, <1>4 DEF Written
<1>6. DOMAIN hist = 1..Now /\ Now \in Nat /\ hist \in Seq(State)
  BY <1>1, NowType
<1>7. CacheEnd \in 1..Now /\ cache.data = hist[CacheEnd]
  BY <1>1, <1>5 DEF Cached
<1>8. PICK c \in 1..Now : c = CacheEnd
  BY <1>7
<1>9. cache.data[wr.key] = hist[c][k] /\ p < c
  BY <1>2, <1>5, <1>7, <1>8
<1>10. hist[c][k] # NoDoc /\ hist[c][k].rv # p
  BY <1>4, <1>9 DEF VersionMoved
<1>11. \A m, n \in DOMAIN hist : m <= n =>
          \/ hist[n][k] = hist[m][k]
          \/ hist[n][k] = NoDoc
          \/ hist[n][k].rv >= m
  BY <1>1 DEF Aged
<1>12. v \in DOMAIN hist /\ c \in DOMAIN hist /\ v \in 1..Now
  BY <1>5, <1>6, <1>8
<1>13. ~(c <= v)
  BY <1>5, <1>9, <1>10, <1>11, <1>12
<1>14. v + 1 <= c
  BY <1>12, <1>13
<1>15. \/ hist[c][k] = [rv |-> v, kind |-> "on"]
       \/ hist[c][k].rv >= v + 1
  BY <1>5, <1>10, <1>11, <1>12, <1>14
<1>16. hist[c][k].rv \in Nat
  BY <1>6, <1>12, <1>10 DEF State, Doc
<1> QED BY <1>3, <1>5, <1>9, <1>15, <1>16

\* write_config_data and reload_controller report what happened.
THEOREM OutcomesTrue == Spec => OutcomesAreTruthful
<1>1. IInv /\ [Next]_vars =>
      [/\ wr.pc = "sent" /\ wr'.pc = "done" =>
            /\ wr'.result = "conflict" => wr.put = "conflict"
            /\ wr'.result = "accepted" => wr.put = "applied"
       /\ wr.pc = "poll" /\ wr'.result \in {"converged", "superseded"} /\ ~late /\ ~wr.via =>
            /\ wr.put = "applied"
            /\ cache.data[wr.key].rv >= wr.rv
            /\ wr'.result = "superseded" => cache.data[wr.key].rv > wr.rv
       /\ rl.pc = "poll" /\ rl'.result = "converged" /\ ~late => cache.server > rl.baseline]_vars
  <2> SUFFICES ASSUME IInv, Next
               PROVE
       /\ wr.pc = "sent" /\ wr'.pc = "done" =>
            /\ wr'.result = "conflict" => wr.put = "conflict"
            /\ wr'.result = "accepted" => wr.put = "applied"
       /\ wr.pc = "poll" /\ wr'.result \in {"converged", "superseded"} /\ ~late /\ ~wr.via =>
            /\ wr.put = "applied"
            /\ cache.data[wr.key].rv >= wr.rv
            /\ wr'.result = "superseded" => cache.data[wr.key].rv > wr.rv
       /\ rl.pc = "poll" /\ rl'.result = "converged" /\ ~late => cache.server > rl.baseline
    OBVIOUS
  <2>1. TypeOK /\ Written /\ Reloading
    BY DEF IInv
  <2>2. /\ wr.pc = "sent" \/ wr.pc = "poll" => wr.result = "none"
        /\ rl.pc = "poll" => rl.result = "none"
    BY <2>1 DEF Written, Reloading
  <2>3. CASE UNCHANGED << wr, rl >>
    BY <2>2, <2>3
  <2>4. CASE Write
    <3>1. UNCHANGED rl
      BY <2>4 DEF Write, WriteReads, WriteFetches, Put, WriteAnswered, WriteUnanswered,
                  WritePolls
    <3>2. CASE wr.pc \notin {"sent", "poll"}
      BY <2>2, <3>1, <3>2
    <3>3. CASE Put
      <4>1. \/ wr' = [wr EXCEPT !.put = "applied", !.rv = Now]
            \/ wr' = [wr EXCEPT !.put = "conflict"]
        BY <3>3 DEF Put
      <4>2. wr'.pc = wr.pc /\ wr'.result = wr.result
        BY <2>1, <4>1 DEF TypeOK, WriteRecord
      <4> QED BY <2>2, <3>1, <4>2
    <3>4. CASE WriteAnswered
      <4>1. wr.pc = "sent" /\ wr.put \in {"applied", "conflict"}
        BY <3>4 DEF WriteAnswered
      <4>2. CASE wr.put = "conflict"
        <5>1. EndWrite("conflict") /\ "conflict" \in Results
          BY <3>4, <4>2 DEF WriteAnswered, AfterPut, Results
        <5>2. wr'.result = "conflict"
          BY <2>1, <5>1, EndSets
        <5> QED BY <2>2, <3>1, <4>1, <4>2, <5>2
      <4>3. CASE wr.put = "applied"
        <5>1. \/ wr' = [wr EXCEPT !.pc = "poll"]
              \/ EndWrite("accepted") /\ "accepted" \in Results
          BY <3>4, <4>3 DEF WriteAnswered, AfterPut, Results
        <5>2. wr'.pc # "done" \/ wr'.result = "accepted"
          BY <2>1, <5>1, EndSets DEF TypeOK, WriteRecord
        <5> QED BY <2>2, <3>1, <4>1, <4>3, <5>2
      <4> QED BY <4>1, <4>2, <4>3
    <3>5. CASE WriteUnanswered
      <4>1. wr.pc = "sent" /\ EndWrite("failed") /\ "failed" \in Results
        BY <3>5 DEF WriteUnanswered, Results
      <4>2. wr'.result = "failed"
        BY <2>1, <4>1, EndSets
      <4> QED BY <2>2, <3>1, <4>1, <4>2
    <3>6. CASE WritePolls
      <4>1. wr.pc = "poll"
        BY <3>6 DEF WritePolls
      <4>2. CASE VersionMoved(cache.data[wr.key])
        <5>1. PICK r \in {"converged", "superseded"} :
                 /\ r = IF cache.data[wr.key].kind = "on" THEN "converged" ELSE "superseded"
                 /\ EndWrite(r)
          BY <3>6, <4>2 DEF WritePolls
        <5>2. r \in Results
          BY DEF Results
        <5>3. wr'.result = r
          BY <2>1, <5>1, <5>2, EndSets
        <5>4. wr'.result = "superseded" => cache.data[wr.key].kind # "on"
          BY <5>1, <5>3
        <5>5. ~late /\ ~wr.via =>
                 /\ wr.put = "applied"
                 /\ cache.data[wr.key].rv >= wr.rv
                 /\ cache.data[wr.key].kind # "on" => cache.data[wr.key].rv > wr.rv
          BY <4>1, <4>2, PollSeesOwn
        <5> QED BY <2>2, <3>1, <4>1, <5>4, <5>5
      <4>3. CASE ~VersionMoved(cache.data[wr.key])
        <5>1. EndWrite("unknown") /\ "unknown" \in Results
          BY <3>6, <4>3 DEF WritePolls, Results
        <5>2. wr'.result = "unknown"
          BY <2>1, <5>1, EndSets
        <5> QED BY <2>2, <3>1, <4>1, <5>2
      <4> QED BY <4>2, <4>3
    <3> QED BY <2>4, <3>2, <3>3, <3>4, <3>5, <3>6 DEF Write, WriteReads, WriteFetches
  <2>5. CASE Reload
    <3>1. UNCHANGED wr
      BY <2>5 DEF Reload, ReloadBegins, ReloadAnswered, ReloadPolls
    <3>2. CASE rl.pc # "poll"
      BY <2>2, <3>1, <3>2
    <3>3. CASE ReloadPolls
      <4>1. rl.pc = "poll" /\ rl' = [pc |-> "done", baseline |-> 0,
                result |-> IF ServerIdMoved THEN "converged" ELSE "unknown"]
        BY <3>3 DEF ReloadPolls, EndReload
      <4>2. rl'.result = "converged" => ServerIdMoved
        BY <4>1
      <4>3. cache.server \in Nat /\ rl.baseline \in Nat
        BY <2>1 DEF TypeOK, Cache, ReloadRecord
      <4>4. ~late => rl.baseline <= cache.server
        BY <2>1, <4>1 DEF Reloading
      <4>5. rl'.result = "converged" /\ ~late => cache.server > rl.baseline
        BY <4>2, <4>3, <4>4 DEF ServerIdMoved
      <4> QED BY <2>2, <3>1, <4>5
    <3> QED BY <2>5, <3>2, <3>3 DEF Reload, ReloadBegins, ReloadAnswered
  <2>6. ASSUME NEW s \in Sessions, Session(s) PROVE UNCHANGED << wr, rl >>
    BY <2>6 DEF Session, Open, Begin, Abandon, Receive, Recheck, Superseded, Disconnect,
                SetStale, BackoffEnds, BackoffStops, Apply,
                ApplySkipped, ApplyList, ApplyReWatch, ApplyEvents, ApplyBackoff,
                ApplyForbidden, Publish, ops
  <2>7. ASSUME NEW s \in Sessions, Serve(s) PROVE UNCHANGED << wr, rl >>
    BY <2>7 DEF Serve, ServeList, ServeResume, ServeEvents, ServeRebuilt, Fault, ops
  <2>8. ASSUME NEW e \in Edits, Change(e) PROVE UNCHANGED << wr, rl >>
    BY <2>8 DEF Change, registry, ops
  <2>9. Rebuild => UNCHANGED << wr, rl >>
    BY DEF Rebuild, registry, ops
  <2>10. Cancel => UNCHANGED << wr, rl >>
    BY DEF Cancel, ops
  <2>11. ASSUME NEW K \in SUBSET Keys, Retain(K) PROVE UNCHANGED << wr, rl >>
    BY <2>11 DEF Retain, ops
  <2> QED BY <2>3, <2>4, <2>5, <2>6, <2>7, <2>8, <2>9, <2>10, <2>11 DEF Next
<1> QED BY <1>1, Inductive, PTL DEF Spec, OutcomesAreTruthful
=============================================================================
