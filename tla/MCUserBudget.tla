---------------------------- MODULE MCUserBudget ----------------------------
(* Small instances of UserBudget for TLC. *)
EXTENDS UserBudget

CONSTANTS w1, w2

OneWorker  == {w1}
TwoWorkers == {w1, w2}
TwoLogs    == 1..2
ThreeLogs  == 1..3
Flows      == {1, 2}
OneFlow    == {1}

\* Every record a caller of BudgetLog.create asks for.
AllCreates == {<<"refund", "CONFIRMED">>, <<"carry", "PENDING">>,
               <<"carry", "CONFIRMED">>, <<"consum", "CONFIRMED">>,
               <<"consum", "PENDING">>, <<"cashout", "PENDING">>}

\* The creations that assign the balance, which are all but the pending income.
MovingCreates == AllCreates \ {<<"carry", "PENDING">>}
NoEdits       == {}

\* The back office rejects any record but purchases, whose orders may still be
\* paid.
AllEdits    == Edit
ApproveOnly == {"approve"}
NotPurchases == Kind \ {"consum"}
NoRejects   == {}
=============================================================================
