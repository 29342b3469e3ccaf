-------------------------- MODULE MCCouponTransfer --------------------------
(* Three agents, one above the other: the top one buys, the others ask. *)
EXTENDS CouponTransfer, TLC

CONSTANTS top, middle, low, c1, c2

Mamas   == {top, middle, low}
Top     == {top}
Line    == middle :> top @@ low :> middle
Two     == {c1, c2}

AnyTwo  == Permutations(Two)
=============================================================================
