----------------------------- MODULE MCCredits -----------------------------
(* Instances of Credits for TLC: two accounts, one with a single credit,   *)
(* one with none and a payment on its way.                                 *)
EXTENDS Credits, TLC

CONSTANTS rich, poor, p1, p2

MCPayer == p1 :> poor @@ p2 :> rich
MCWorth == p1 :> 2 @@ p2 :> 1
MCOpening == rich :> 1 @@ poor :> 0

(* Enough for two servers. *)
MCOpeningTwo == rich :> 2 @@ poor :> 0

=============================================================================
