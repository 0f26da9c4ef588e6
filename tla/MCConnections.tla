--------------------------- MODULE MCConnections ---------------------------
(* Instances of Connections for TLC: node "a" makes every call but the last. *)
EXTENDS Connections

AllButLast == [k \in Calls |-> IF \E j \in Calls : j > k THEN "a" ELSE "b"]
=============================================================================
