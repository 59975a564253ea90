---------------------------- MODULE MCConfigSync ----------------------------
(* A small instance of ConfigSync: two documents, of which the cache holds *)
(* one at the start and both only if its capacity allows.                  *)
EXTENDS ConfigSync

CONSTANTS a, b

MCKeys == {a, b}
MCInitial == [k \in MCKeys |-> IF k = a THEN "off" ELSE "none"]
MCEdits == {[key |-> a, kind |-> "off"], [key |-> a, kind |-> "none"],
            [key |-> b, kind |-> "other"]}

(* What happens after a late write is not pursued.                         *)
NotLate == ~late
=============================================================================
