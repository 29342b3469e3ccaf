---------------------------- MODULE BudgetRules ----------------------------
(***************************************************************************)
(* The arithmetic of the wallet (UserBudget) and of its log records        *)
(* (BudgetLog): which counters of the wallet row creating, confirming or   *)
(* cancelling a record moves and by how much, and what the daily audit of  *)
(* the wallet expects of them.  Pure operators, shared by every module in  *)
(* which wallet money moves.                                               *)
(***************************************************************************)
EXTENDS Integers

\* BudgetLog.budget_type and BudgetLog.status.
BudgetType == {"IN", "OUT"}
LogStatus  == {"CONFIRMED", "CANCELED", "PENDING"}

\* The counters of UserBudget: amount, total_income, total_expense.
Counter == {"amount", "income", "expense"}

(***************************************************************************)
(* A move is a function whose domain is the set of counters a branch of    *)
(* the code assigns, giving what it adds to each.  A negative f takes the  *)
(* move back.                                                              *)
(***************************************************************************)
NoMove     == [c \in {} |-> 0]
Income(f)  == [c \in {"amount", "income"} |-> f]
Expense(f) == [c \in {"amount", "expense"} |-> IF c = "amount" THEN -f ELSE f]

Delta(move, c) == IF c \in DOMAIN move THEN move[c] ELSE 0

(***************************************************************************)
(* The branches of BudgetLog.create, confirm_budget_log and                *)
(* cancel_budget_log.                                                      *)
(***************************************************************************)
CreateMove(type, status, f) ==
    IF type = "OUT" THEN Expense(f)
    ELSE IF status = "CONFIRMED" THEN Income(f) ELSE NoMove

\* Mutant: confirming a cancelled expense takes nothing from the balance.
ConfirmMove_NoRetake(type, from, f) ==
    IF type = "IN" /\ from \in {"PENDING", "CANCELED"} THEN Income(f) ELSE NoMove

ConfirmMove(type, from, f) ==
    IF type = "IN" /\ from \in {"PENDING", "CANCELED"} THEN Income(f)
    ELSE IF type = "OUT" /\ from = "CANCELED" THEN Expense(f)
    ELSE NoMove

\* Mutant: cancelling a pending expense gives nothing back.
CancelMove_KeepPending(type, from, f) ==
    IF type = "IN" /\ from = "CONFIRMED" THEN Income(-f)
    ELSE IF type = "OUT" /\ from = "CONFIRMED" THEN Expense(-f)
    ELSE NoMove

CancelMove(type, from, f) ==
    IF type = "IN" /\ from = "CONFIRMED" THEN Income(-f)
    ELSE IF type = "OUT" /\ from \in {"CONFIRMED", "PENDING"} THEN Expense(-f)
    ELSE NoMove

(***************************************************************************)
(* What the audit counts of a record: confirmed incomes, and the expenses  *)
(* that are not cancelled.                                                 *)
(***************************************************************************)
Effect(type, status, f) ==
    IF type = "IN"
    THEN IF status = "CONFIRMED" THEN Income(f) ELSE NoMove
    ELSE IF status = "CANCELED" THEN NoMove ELSE Expense(f)

(***************************************************************************)
(* Django writes a row back whole.  A counter assigned as F(c) + d is      *)
(* added to what the table holds when the UPDATE runs; a counter that was  *)
(* not assigned is overwritten with the value the object was loaded with.  *)
(***************************************************************************)
\* Mutant: the new value is computed from the loaded object, without F().
SaveRow_NoF(current, loaded, move) ==
    [c \in Counter |-> loaded[c] + Delta(move, c)]

SaveRow(current, loaded, move) ==
    [c \in Counter |-> IF c \in DOMAIN move THEN current[c] + move[c] ELSE loaded[c]]
=============================================================================
