---------------------------- MODULE MCDirectory ----------------------------
(* Instances of Directory for TLC: fewer teams in a batch than pending. *)
EXTENDS Directory

=============================================================================
