----------------------------- MODULE MCPayments -----------------------------
(* Instances of Payments for TLC.  Alice sends o1, with enough keys in it, *)
(* and o2, without; bob sends o3.                                          *)
EXTENDS Payments, TLC

CONSTANTS alice, bob, o1, o2, o3

MCSender == [o \in Offers |-> IF o = o3 THEN bob ELSE alice]

MCEnough == Offers \ {o2}

Symmetric == Permutations(Requests) \cup Permutations(Pollers)

=============================================================================
