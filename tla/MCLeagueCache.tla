---------------------------- MODULE MCLeagueCache ----------------------------
(* Instances of LeagueCache for TLC. *)
EXTENDS LeagueCache

MCFormat == [t \in Teams |-> t]

=============================================================================
