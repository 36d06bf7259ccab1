------------------------------ MODULE MCPages ------------------------------
(* Instances of Pages for TLC: each team's captain pays for it.  A unit of *)
(* time is 15 minutes, so that a credit is 4, an extension 2 and the grace *)
(* 1, as in config.py.                                                     *)
EXTENDS Pages, TLC

CONSTANTS t1, t2, t3, u1, u2

(* The first team can extend once what it attached; the second cannot. *)
MCOpening == (t1 :> 2) @@ (t2 :> 1) @@ (t3 :> 0)

(* The first captain is known as a leader; servers of the other team's     *)
(* scrims are managed by their owner.                                      *)
MCLed == {t1}

MCAccount == (u1 :> t1) @@ (u2 :> t2)

=============================================================================
