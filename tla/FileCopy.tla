------------------------------ MODULE FileCopy ------------------------------
(***************************************************************************)
(* What a user expects of the directory that receives files: a file        *)
(* appears all at once and complete, and what is there is never touched.   *)
(***************************************************************************)
EXTENDS Naturals, Sequences

CONSTANT Whole  \* the contents a file may have, for each name

VARIABLE copies  \* the content of each file, empty if there is none

Init == copies = [p \in DOMAIN Whole |-> <<>>]

Arrive ==
    \E p \in DOMAIN Whole :
        /\ copies[p] = <<>>
        /\ \E c \in Whole[p] : copies' = [copies EXCEPT ![p] = c]

Spec == Init /\ [][Arrive]_copies
=============================================================================
