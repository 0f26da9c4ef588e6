----------------------------- MODULE MCTransfer -----------------------------
(* Instances of Transfer for TLC. *)
EXTENDS Transfer

OneFile == [t \in Tokens |-> <<"f">>]
\* Transfer 1 is the file f alone, which its receiver saves in the directory d,
\* transfer 2 the directory d with f in it.
Tree == [t \in Tokens |-> IF t = 1 THEN <<"f">> ELSE <<"d", "f">>]
Two == [f \in Files |-> 2]
=============================================================================
