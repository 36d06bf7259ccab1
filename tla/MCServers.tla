----------------------------- MODULE MCServers -----------------------------
(* Instances of ScrimServers for TLC.  A unit of time is 15 minutes, so    *)
(* that a credit is 4, an extension 2 and the grace 1, as in config.py.    *)
EXTENDS ScrimServers, TLC

CONSTANTS t1, t2

(* The first team can extend once what it attached; the second cannot. *)
MCOpening == (t1 :> 2) @@ (t2 :> 1)

(* One credit each: a server one team attaches, the other may extend. *)
MCOneEach == (t1 :> 1) @@ (t2 :> 1)

(* One team's leader is known; servers of the other's scrims are managed   *)
(* by their owner.                                                         *)
MCLed == {t1}

=============================================================================
