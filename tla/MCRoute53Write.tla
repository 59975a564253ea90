--------------------------- MODULE MCRoute53Write ---------------------------
(* A small instance of Route53Write: one owner with two A record sets (two *)
(* set identifiers) and a CNAME, and one request of every kind.  w1 and w2 *)
(* are weighted, of which a group may have one; beside eu60 us300 may not  *)
(* stand for its TTL, euAlias for its region, primary for its family, and  *)
(* usAlias may.  An edit by somebody else brings any of them into a zone.  *)
EXTENDS Route53Write

CONSTANTS c1, c2, a1, a2, kA, kB, kC, w1, w2, eu60, us300, euAlias, usAlias, primary

MCCalls == {c1, c2}
MCAccounts == {a1, a2}
MCKeyOrder == <<kA, kB, kC>>
MCContents == {w1, w2, eu60, us300, euAlias, usAlias, primary}
MCOwner == [k \in {kA, kB, kC} |-> "www"]
MCRecordType == [k \in {kA, kB, kC} |-> IF k = kC THEN "CNAME" ELSE "A"]
MCFamily == [v \in MCContents |-> CASE v \in {w1, w2} -> "weighted"
                                    [] v = primary -> "failover"
                                    [] OTHER -> "latency"]
MCBacking ==
    [v \in MCContents |-> IF v \in {euAlias, usAlias, primary} THEN "alias" ELSE "values"]
MCSelector == [v \in MCContents |-> CASE v \in {w1, w2} -> None
                                      [] v \in {eu60, euAlias} -> "eu"
                                      [] v \in {us300, usAlias} -> "us"
                                      [] v = primary -> "primary"]
MCTtl == [v \in MCContents |-> CASE v \in {w1, w2, eu60} -> 60
                                 [] v = us300 -> 300
                                 [] v \in {euAlias, usAlias, primary} -> None]

Ch(k, g, d) == [key |-> k, guard |-> g, desired |-> d]
Req(op, a, changes, receipt) ==
    [op |-> op, account |-> a, changes |-> changes, idem |-> 1, expect |-> 0, receipt |-> receipt]

MCRequests ==
    { Req("change", a1, <<Ch(kA, w1, w2)>>, None),
      Req("change", a1, <<Ch(kA, w1, None), Ch(kC, None, w1)>>, None),
      Req("change", a1, <<Ch(kB, None, eu60)>>, None),
      Req("change", a1, <<Ch(kA, w1, w2), Ch(kA, w1, None)>>, None),
      Req("change", a2, <<Ch(kA, None, w1)>>, None),
      Req("get_change", a1, << >>, c1),
      Req("create_zone", a1, << >>, None),
      Req("delete_zone", a1, << >>, None) }

Empty == [k \in {kA, kB, kC} |-> None]
MCInitialRecords ==
    {[a \in MCAccounts |-> IF a = a1 THEN r ELSE Empty] :
        r \in {Empty, [Empty EXCEPT ![kA] = w1], [Empty EXCEPT ![kC] = w1]}}
=============================================================================
