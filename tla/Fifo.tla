-------------------------------- MODULE Fifo --------------------------------
(***************************************************************************)
(* What an established connection promises in each direction: messages     *)
(* arrive whole, in the order in which they were accepted and once, and    *)
(* all of them unless the connection is cut or one is larger than Limit,   *)
(* with which the stream ends.  A message is known by its size.            *)
(***************************************************************************)
EXTENDS Naturals, Sequences

CONSTANTS Sizes, Limit

VARIABLES accepted, delivered, cut, ended

vars == <<accepted, delivered, cut, ended>>

Init == accepted = <<>> /\ delivered = <<>> /\ cut = FALSE /\ ended = FALSE

Next1 == accepted[Len(delivered) + 1]
Waiting == Len(delivered) < Len(accepted)

Put(size) == accepted' = Append(accepted, size) /\ UNCHANGED <<delivered, cut, ended>>

Take ==
    /\ ~ended /\ Waiting /\ Next1 <= Limit
    /\ delivered' = Append(delivered, Next1)
    /\ UNCHANGED <<accepted, cut, ended>>

Cut ==
    /\ ~cut /\ cut' = TRUE
    /\ ended' \in {ended, TRUE}
    /\ UNCHANGED <<accepted, delivered>>

End ==
    /\ ~ended
    /\ cut \/ (Waiting /\ Next1 > Limit)
    /\ ended' = TRUE
    /\ UNCHANGED <<accepted, delivered, cut>>

Next == (\E size \in Sizes : Put(size)) \/ Take \/ Cut \/ End

\* What never happens, and with it what does.
Safety == Init /\ [][Next]_vars
Spec == Safety /\ WF_vars(Take \/ End)

=============================================================================
