----------------------------- MODULE MCSendJobs -----------------------------
(* Instances of SendJobs for TLC. *)
EXTENDS SendJobs

\* A file for one peer.
OneFile == {{"f"}}
=============================================================================
