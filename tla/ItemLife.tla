------------------------------ MODULE ItemLife ------------------------------
(***************************************************************************)
(* What the warehouse promises about every packed item of an order         *)
(* (PackageSkuItem.assign_status): goods are set aside and may be taken    *)
(* back, but an item that has left or has been cancelled stays so, and     *)
(* only goods that were set aside, here or at the supplier, leave.         *)
(***************************************************************************)
CONSTANT Item

VARIABLE life

Stage == {"none", "waiting", "assigned", "virtual", "sent", "cancelled"}

CanBecome(s, t) ==
    \/ s = "none"     /\ t \in {"waiting", "assigned"}
    \/ s = "waiting"  /\ t \in {"assigned", "virtual", "cancelled"}
    \/ s = "assigned" /\ t \in {"waiting", "sent", "cancelled"}
    \/ s = "virtual"  /\ t \in {"sent", "cancelled"}

(* A package leaves, or a purchase is booked, with several items at once.  *)
Move(S, t) ==
    /\ S # {}
    /\ \A i \in S : CanBecome(life[i], t)
    /\ life' = [i \in Item |-> IF i \in S THEN t ELSE life[i]]

(* The rest of a refunded order is ordered again as an item of its own.    *)
Replace(old, new, t) ==
    /\ CanBecome(life[old], "cancelled") /\ life[new] = "none" /\ CanBecome("none", t)
    /\ life' = [life EXCEPT ![old] = "cancelled", ![new] = t]

Init == life = [i \in Item |-> "none"]

Next ==
    \/ \E S \in SUBSET Item, t \in Stage : Move(S, t)
    \/ \E old, new \in Item, t \in Stage : Replace(old, new, t)

Spec == Init /\ [][Next]_life
=============================================================================
