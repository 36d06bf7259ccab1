---------------------------- MODULE MCMigrations ----------------------------
(* An instance of Migrations for TLC: an old copy, and two of a newer      *)
(* release of which one is flaky.                                          *)
EXTENDS Migrations, TLC

CONSTANTS old, new, flaky

MCShips == (old :> 1) @@ (new :> 3) @@ (flaky :> 3)

=============================================================================
