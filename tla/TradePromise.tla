---------------------------- MODULE TradePromise ----------------------------
(***************************************************************************)
(* What the payment of orders promises, whatever requests, notifications,  *)
(* timeouts and crashes there are: an order is paid or closed, once and    *)
(* for good, and the coupon several open orders may name is spent by at    *)
(* most one of them, in the step that pays it.                             *)
(***************************************************************************)
CONSTANTS Trade, WithCoupon

VARIABLES status, coupon

Place(t) ==
    /\ status[t] = "NONE"
    /\ status' = [status EXCEPT ![t] = "WAIT"]
    /\ UNCHANGED coupon

Pay(t) ==
    /\ status[t] = "WAIT"
    /\ status' = [status EXCEPT ![t] = "PAID"]
    /\ IF t \in WithCoupon THEN coupon = "UNUSED" /\ coupon' = t
       ELSE UNCHANGED coupon

Close(t) ==
    /\ status[t] = "WAIT"
    /\ status' = [status EXCEPT ![t] = "CLOSED"]
    /\ UNCHANGED coupon

Expire ==
    /\ coupon = "UNUSED" /\ coupon' = "PAST"
    /\ UNCHANGED status

Init == status = [t \in Trade |-> "NONE"] /\ coupon = "UNUSED"

Next == Expire \/ \E t \in Trade : Place(t) \/ Pay(t) \/ Close(t)

Spec == Init /\ [][Next]_<<status, coupon>>
=============================================================================
