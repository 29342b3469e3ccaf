----------------------------- MODULE UserBudget -----------------------------
(***************************************************************************)
(* The wallet of one customer: its row in UserBudget, its BudgetLog        *)
(* records and the double-entry books (AccountEntry) kept beside them,     *)
(* under web and celery workers that serve requests at the same time.      *)
(*                                                                         *)
(* The code loads a BudgetLog, tests the status of the loaded copy, loads  *)
(* the wallet row, and only then opens the transaction that writes both.   *)
(* A worker is therefore a small process: it loads, it reads the wallet    *)
(* row, it commits.  The transaction itself is one step.  All requests     *)
(* fall on one business day, and all purchases are for one order.          *)
(***************************************************************************)
EXTENDS BudgetRules, FiniteSets, FiniteSetsExt

CONSTANTS
    Worker,       \* web and celery workers
    LogId,        \* ids of the BudgetLog table, used in ascending order
    Flow,         \* amounts a request may carry, in cents
    StartAmount,  \* balance of the wallet when the day begins
    DailyTries,   \* CashOutPolicyView.DAILY_CASHOUT_TRIES
    Creates,      \* <<kind, status>> of the records requests create
    Edits,        \* requests on an existing record: a subset of Edit
    Rejects       \* kinds of record the back office may reject

Kind    == {"refund", "carry", "consum", "cashout"}
Edit    == {"approve", "pay", "close", "repend"}
Subject == {"wallet", "pending", "paidout", "other"}

ASSUME UserBudgetAssumption ==
    /\ IsFiniteSet(LogId) /\ LogId \subseteq Nat \ {0}
    /\ Flow \subseteq Nat \ {0}
    /\ StartAmount \in Nat
    /\ DailyTries \in Nat
    /\ Creates \subseteq Kind \X {"CONFIRMED", "PENDING"}
    /\ Edits \subseteq Edit /\ Rejects \subseteq Kind

VARIABLES
    row,    \* the UserBudget row: a value for each counter
    log,    \* the BudgetLog table; status "NONE" marks an unused id
    books,  \* AccountEntry: the balance of each subject
    order,  \* status of the order the purchases pay for
    job     \* what each worker is in the middle of

vars == <<row, log, books, order, job>>

TypeOf(kind) == IF kind \in {"refund", "carry"} THEN "IN" ELSE "OUT"

LogRecord ==
    [kind : Kind, status : LogStatus \cup {"NONE"}, flow : Nat, key : Nat]

NoRecord == [kind |-> "refund", status |-> "NONE", flow |-> 0, key |-> 0]

(***************************************************************************)
(* A job holds the worker's in-memory copies: rec of the log record (the   *)
(* one to be created, or the one loaded), loaded of the wallet row.        *)
(***************************************************************************)
Job == [phase : {"idle", "count", "read", "write"},
        op : {"create", "confirm", "cancel"},
        id : LogId \cup {0}, rec : LogRecord, loaded : [Counter -> Int]]

Idle == [phase |-> "idle", op |-> "create", id |-> 0, rec |-> NoRecord,
         loaded |-> [c \in Counter |-> 0]]

Used     == {l \in LogId : log[l].status # "NONE"}
OfKind(k) == {l \in Used : log[l].kind = k}

\* BudgetLog.is_cashout_limited counts the day's cashouts not cancelled.
ActiveCashouts == {l \in OfKind("cashout") : log[l].status # "CANCELED"}

(***************************************************************************)
(* Bookkeeping: AccountEntry.create(customer, debit, lender, amount).      *)
(***************************************************************************)
Post(b, debit, lender, f) == [b EXCEPT ![debit] = @ - f, ![lender] = @ + f]

CreateBooks(b, kind, status, f) ==
    CASE kind = "refund"                          -> Post(b, "other", "wallet", f)
      [] kind = "carry" /\ status = "CONFIRMED"   -> Post(b, "other", "wallet", f)
      [] kind = "consum"                          -> Post(b, "wallet", "other", f)
      [] kind = "cashout" /\ status = "PENDING"   -> Post(b, "wallet", "pending", f)
      [] kind = "cashout" /\ status = "CONFIRMED" -> Post(b, "wallet", "paidout", f)
      [] OTHER                                    -> b

ConfirmBooks(b, kind, from, f) ==
    CASE kind = "carry"                          -> Post(b, "other", "wallet", f)
      [] kind = "cashout" /\ from = "PENDING"    -> Post(b, "pending", "paidout", f)
      [] kind = "cashout" /\ from = "CANCELED"   -> Post(b, "wallet", "paidout", f)
      [] OTHER                                   -> b

\* Mutant: a cancelled cashout always leaves the pending subject.
CancelBooks_OnePath(b, kind, from, f) ==
    CASE kind = "carry" /\ from = "CONFIRMED" -> Post(b, "wallet", "other", f)
      [] kind = "cashout"                     -> Post(b, "pending", "wallet", f)
      [] OTHER                                -> b

CancelBooks(b, kind, from, f) ==
    CASE kind = "carry" /\ from = "CONFIRMED"    -> Post(b, "wallet", "other", f)
      [] kind = "cashout" /\ from = "PENDING"    -> Post(b, "pending", "wallet", f)
      [] kind = "cashout" /\ from = "CONFIRMED"  -> Post(b, "paidout", "wallet", f)
      [] OTHER                                   -> b

Init ==
    /\ row = [c \in Counter |-> IF c = "expense" THEN 0 ELSE StartAmount]
    /\ log = [l \in LogId |-> NoRecord]
    /\ books = [s \in Subject |-> 0]
    /\ order = "WAIT"
    /\ job = [w \in Worker |-> Idle]

(***************************************************************************)
(* Creating a record.                                                      *)
(***************************************************************************)

\* action_budget_cashout compares the amount with the loaded wallet and asks
\* for the day's count; every other caller of BudgetLog.create goes ahead.
\* Mutants: the balance is not compared; one try too many is allowed.
MayRequest_AnyAmount(kind, f) ==
    kind = "cashout" => Cardinality(ActiveCashouts) < DailyTries

MayRequest(kind, f) ==
    kind = "cashout" => /\ f <= row["amount"]
                        /\ Cardinality(ActiveCashouts) < DailyTries

RequestCreate(w) ==
    /\ job[w].phase = "idle"
    /\ \E c \in Creates, f \in Flow :
         /\ MayRequest(c[1], f)
         /\ job' = [job EXCEPT ![w] =
              [Idle EXCEPT !.phase = "count", !.op = "create",
                 !.rec = [kind |-> c[1], status |-> c[2], flow |-> f, key |-> 0]]]
    /\ UNCHANGED <<row, log, books, order>>

\* gen_uni_key numbers the record by a count of the kind's records; a purchase
\* carries the key of its order instead, here the number 0.
GenKey(w) ==
    /\ job[w].phase = "count"
    /\ LET k == job[w].rec.kind IN
       job' = [job EXCEPT ![w] =
         [@ EXCEPT !.phase = "read",
                   !.rec.key = IF k = "consum" THEN 0 ELSE Cardinality(OfKind(k)) + 1]]
    /\ UNCHANGED <<row, log, books, order>>

(***************************************************************************)
(* Purchases select the wallet row FOR UPDATE and hold it until they       *)
(* commit, so that no other transaction writes the row meanwhile.          *)
(***************************************************************************)
Purchase(w) == job[w].op = "create" /\ job[w].rec.kind = "consum"
HoldsRow(w) == job[w].phase = "write" /\ Purchase(w)
RowFree(w)  == \A v \in Worker \ {w} : ~HoldsRow(v)

\* Every other request loads the row without a lock, through get_or_create or
\* the user_budget property.
ReadRow(w) ==
    /\ job[w].phase = "read" /\ ~Purchase(w)
    /\ job' = [job EXCEPT ![w] = [@ EXCEPT !.phase = "write", !.loaded = row]]
    /\ UNCHANGED <<row, log, books, order>>

\* budget_charge selects only a row that covers the payment; the balance share
\* of a mixed payment (charge_pending) is not compared with the balance.
LockRow(w) ==
    /\ job[w].phase = "read" /\ Purchase(w) /\ RowFree(w)
    /\ job' = [job EXCEPT ![w] =
         IF job[w].rec.status = "CONFIRMED" /\ row["amount"] < job[w].rec.flow THEN Idle
         ELSE [@ EXCEPT !.phase = "write", !.loaded = row]]
    /\ UNCHANGED <<row, log, books, order>>

KeyTaken(rec) == \E l \in OfKind(rec.kind) : log[l].key = rec.key

\* uni_key is unique: a second record with the key is an IntegrityError that
\* rolls the whole transaction back, the wallet row included.
CommitCreate(w) ==
    /\ job[w].phase = "write" /\ RowFree(w) /\ job[w].op = "create"
    /\ job' = [job EXCEPT ![w] = Idle]
    /\ UNCHANGED order
    /\ LET r == job[w].rec IN
       \/ /\ KeyTaken(r)
          /\ UNCHANGED <<row, log, books>>
       \/ /\ ~KeyTaken(r)
          /\ \E l \in LogId \ Used :
               /\ \A m \in LogId \ Used : l <= m
               /\ log' = [log EXCEPT ![l] = r]
          /\ row' = SaveRow(row, job[w].loaded, CreateMove(TypeOf(r.kind), r.status, r.flow))
          /\ books' = CreateBooks(books, r.kind, r.status, r.flow)

(***************************************************************************)
(* Confirming and cancelling a record.                                     *)
(***************************************************************************)
StartEdit(w, l, op, rec) ==
    job' = [job EXCEPT ![w] = [Idle EXCEPT !.phase = "read", !.op = op,
                                           !.id = l, !.rec = rec]]

\* BudgetLogAdmin.approve and reject call confirm_budget_log and
\* cancel_budget_log, which do nothing when the loaded copy is there already.
Approve(w, l) ==
    /\ "approve" \in Edits
    /\ job[w].phase = "idle" /\ l \in Used
    /\ log[l].status # "CONFIRMED"
    /\ StartEdit(w, l, "confirm", log[l])
    /\ UNCHANGED <<row, log, books, order>>

Reject(w, l) ==
    /\ job[w].phase = "idle" /\ l \in Used
    /\ log[l].kind \in Rejects /\ log[l].status # "CANCELED"
    /\ StartEdit(w, l, "cancel", log[l])
    /\ UNCHANGED <<row, log, books, order>>

\* Mutant: closing writes TRADE_FINISHED.
Close_Finished(w, l) ==
    /\ "close" \in Edits
    /\ job[w].phase = "idle" /\ l \in OfKind("consum")
    /\ order = "WAIT" /\ order' = "FINISHED"
    /\ StartEdit(w, l, "cancel", log[l])
    /\ UNCHANGED <<row, log, books>>

\* UserBudget.charge_confirm and charge_cancel run under the lock on the
\* order, whose status they change with them: of pay and close one happens,
\* once.  charge_confirm turns a cancelled copy into a pending one first.
Pay(w, l) ==
    /\ "pay" \in Edits
    /\ job[w].phase = "idle" /\ l \in OfKind("consum")
    /\ order = "WAIT" /\ order' = "PAID"
    /\ IF log[l].status = "CONFIRMED" THEN UNCHANGED job
       ELSE StartEdit(w, l, "confirm", [log[l] EXCEPT !.status = "PENDING"])
    /\ UNCHANGED <<row, log, books>>

Close(w, l) ==
    /\ "close" \in Edits
    /\ job[w].phase = "idle" /\ l \in OfKind("consum")
    /\ order = "WAIT" /\ order' = "CLOSED"
    /\ IF log[l].status = "CANCELED" THEN UNCHANGED job
       ELSE StartEdit(w, l, "cancel", log[l])
    /\ UNCHANGED <<row, log, books>>

CommitConfirm(w) ==
    /\ job[w].phase = "write" /\ RowFree(w) /\ job[w].op = "confirm"
    /\ job' = [job EXCEPT ![w] = Idle]
    /\ LET r == job[w].rec IN
       /\ row' = SaveRow(row, job[w].loaded, ConfirmMove(TypeOf(r.kind), r.status, r.flow))
       /\ books' = ConfirmBooks(books, r.kind, r.status, r.flow)
       /\ log' = [log EXCEPT ![job[w].id] = [r EXCEPT !.status = "CONFIRMED"]]
    /\ UNCHANGED order

CommitCancel(w) ==
    /\ job[w].phase = "write" /\ RowFree(w) /\ job[w].op = "cancel"
    /\ job' = [job EXCEPT ![w] = Idle]
    /\ LET r == job[w].rec IN
       /\ row' = SaveRow(row, job[w].loaded, CancelMove(TypeOf(r.kind), r.status, r.flow))
       /\ books' = CancelBooks(books, r.kind, r.status, r.flow)
       /\ log' = [log EXCEPT ![job[w].id] = [r EXCEPT !.status = "CANCELED"]]
    /\ UNCHANGED order

\* changePendingCarryAmount locks the record, loads it and saves the new
\* amount in one transaction; the wallet row is not touched.
Repend(l) ==
    /\ "repend" \in Edits
    /\ l \in OfKind("carry") /\ log[l].status = "PENDING"
    /\ \E f \in Flow : log' = [log EXCEPT ![l].flow = f]
    /\ UNCHANGED <<row, books, order, job>>

Next ==
    \/ \E w \in Worker : RequestCreate(w) \/ GenKey(w) \/ ReadRow(w) \/ LockRow(w)
    \/ \E w \in Worker : CommitCreate(w) \/ CommitConfirm(w) \/ CommitCancel(w)
    \/ \E w \in Worker, l \in LogId : Approve(w, l) \/ Reject(w, l)
    \/ \E w \in Worker, l \in LogId : Pay(w, l) \/ Close(w, l)
    \/ \E l \in LogId : Repend(l)

Spec == Init /\ [][Next]_vars

-----------------------------------------------------------------------------
(***************************************************************************)
(* Properties.                                                             *)
(***************************************************************************)

TypeOK ==
    /\ row \in [Counter -> Int]
    /\ log \in [LogId -> LogRecord]
    /\ books \in [Subject -> Int]
    /\ order \in {"WAIT", "PAID", "CLOSED"}
    /\ job \in [Worker -> Job]

LogEffect(l, c) ==
    IF log[l].status = "NONE" THEN 0
    ELSE Delta(Effect(TypeOf(log[l].kind), log[l].status, log[l].flow), c)

Audited(c) ==
    row[c] = (IF c = "expense" THEN 0 ELSE StartAmount)
             + SumFunctionOnSet([l \in LogId |-> LogEffect(l, c)], LogId)

\* The balance is what the records add up to: the test
\* task_schedule_check_user_budget makes of every wallet, every day.
AmountMatchesLogs == Audited("amount")

\* The same of all three counters, as task_budgetlog_update_userbudget
\* recomputes them.
RowMatchesLogs == \A c \in Counter : Audited(c)

\* The books show as pending and as paid out exactly the cashouts that are:
\* no path of confirmations and cancellations posts an entry twice, misses one
\* or takes it from the wrong subject.
BooksMatchCashouts ==
    LET Total(s) == SumFunctionOnSet([l \in LogId |-> log[l].flow],
                                     {l \in OfKind("cashout") : log[l].status = s})
    IN /\ books["pending"] = Total("PENDING")
       /\ books["paidout"] = Total("CONFIRMED")

\* Every change of the balance is the change of what one record counts for:
\* no request moves money without its record, or for a record it left alone.
OneRecordMoves(c) ==
    \E l \in LogId \cup {0} :
      /\ \A m \in LogId \ {l} : LogEffect(m, c)' = LogEffect(m, c)
      /\ row'[c] - row[c] = IF l = 0 THEN 0 ELSE LogEffect(l, c)' - LogEffect(l, c)

AmountFollowsLogs == [][OneRecordMoves("amount")]_vars

NewCashout == {l \in LogId : /\ log[l].status = "NONE"
                             /\ log'[l].status # "NONE"
                             /\ log'[l].kind = "cashout"}

(***************************************************************************)
(* Why AmountFollowsLogs holds when there is one worker: the copies a job  *)
(* holds are still what the tables say, but for the amount of a pending    *)
(* income, which counts for nothing until it is confirmed.                 *)
(***************************************************************************)
Editing(w) == job[w].phase # "idle" /\ job[w].op # "create"

Fresh(w) ==
    /\ job[w].phase = "write" => job[w].loaded = row
    /\ job[w].phase # "idle" /\ job[w].op = "create"
         => job[w].rec.status \in {"CONFIRMED", "PENDING"}
    /\ Editing(w) =>
         /\ job[w].id \in Used
         /\ job[w].rec.kind = log[job[w].id].kind
         /\ job[w].rec.status = log[job[w].id].status
         /\ \/ job[w].rec.flow = log[job[w].id].flow
            \/ TypeOf(job[w].rec.kind) = "IN" /\ job[w].rec.status = "PENDING"

CopiesFresh == \A w \in Worker : Fresh(w)

\* While the order is open no purchase is cancelled, nor about to be.
OpenPurchasesStand ==
    "pay" \in Edits /\ order = "WAIT" =>
      \A l \in OfKind("consum") :
        /\ log[l].status # "CANCELED"
        /\ \A w \in Worker : Editing(w) /\ job[w].op = "cancel" => job[w].id # l

SerialInv == TypeOK /\ CopiesFresh /\ OpenPurchasesStand

\* A cashout is taken from a balance that covers it.
CashoutWithinBalance == [][NewCashout # {} => row'["amount"] >= 0]_vars

=============================================================================
