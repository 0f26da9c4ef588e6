------------------------------ MODULE Mailbox -------------------------------
(***************************************************************************)
(* What message delivery promises, free of connections, queues, clocks and *)
(* acknowledgements: a message is offered by a send call, is stored by the *)
(* receiver at most once and never without having been offered, and is     *)
(* confirmed to the sender only after it was stored.  No phase is ever     *)
(* left backwards, by whatever crash, loss or repetition.  The promise is  *)
(* one of order and not of progress: an offered message may never arrive.  *)
(***************************************************************************)
CONSTANT Ids

VARIABLE phase

Phases == {"new", "offered", "stored", "confirmed"}

Init == phase = [m \in Ids |-> "new"]

Advance(m, from, to) ==
    /\ phase[m] = from
    /\ phase' = [phase EXCEPT ![m] = to]

Offer(m)   == Advance(m, "new", "offered")
Store(m)   == Advance(m, "offered", "stored")
Confirm(m) == Advance(m, "stored", "confirmed")

Next == \E m \in Ids : Offer(m) \/ Store(m) \/ Confirm(m)

Spec == Init /\ [][Next]_phase
=============================================================================
