------------------------------ MODULE MCGroups ------------------------------
(* Instances of Groups for TLC. *)
EXTENDS Groups

\* "a" sends every text but the last, which is an answer of "b".
AllButLast == [m \in Texts |-> IF \E l \in Texts : l > m THEN "a" ELSE "b"]
=============================================================================
