----------------------------- MODULE MCDelivery -----------------------------
(* Small instances of Delivery for TLC: every recall withdraws message 1. *)
EXTENDS Delivery

OneTarget == [r \in Recalls |-> 1]
=============================================================================
