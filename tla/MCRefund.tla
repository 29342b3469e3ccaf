------------------------------ MODULE MCRefund ------------------------------
(* One order of two pieces, so that a refund may be of part of it.         *)
EXTENDS Refund

Two == <<2>>
=============================================================================
