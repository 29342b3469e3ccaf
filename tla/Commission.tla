----------------------------- MODULE Commission -----------------------------
(***************************************************************************)
(* The commission agents earn with one order.  Saving the order triggers a *)
(* task that writes the OrderCarry of the agent; saving that sends copies  *)
(* of the row to two more tasks, one for the OrderCarry of the agent's     *)
(* referrer, one for the CarryRecord and its record in the wallet.  Celery *)
(* may run these tasks late, twice or in another order; a periodic check   *)
(* repairs what it finds among young orders.                               *)
(***************************************************************************)
EXTENDS BudgetRules, Sequences, SequencesExt

CONSTANTS
    CarryNum,  \* the commission of level 1, the agent, and 2, the referrer
    MaxSaves   \* bound: how often the order is saved

Level == {1, 2}

ASSUME CommissionAssumption ==
    CarryNum \in [Level -> Nat \ {0}] /\ MaxSaves \in Nat

VARIABLES
    order,    \* SaleOrder: its status and that of its refund
    saves,    \* how often the order was saved
    trigger,  \* task_saleorder_post_update_send_signal is queued
    carry,    \* OrderCarry.status of each level
    copies,   \* copies for task_ordercarry_update_carryrecord
    second,   \* copies for task_update_second_level_ordercarry
    record,   \* CarryRecord.status of each level
    wallet,   \* the counters of each agent's UserBudget
    young,    \* the order was created within the days the check looks back
    in_order  \* no copy has been overtaken so far

vars == <<order, saves, trigger, carry, copies, second, record, wallet, young, in_order>>

OrderRow     == [status : {"WAIT_PAY", "SEND", "CONFIRM", "CLOSED"},
                 refund : {"none", "AGREE", "REFUSED", "SUCCESS"}]
CarryStatus  == {"STAGING", "ESTIMATE", "CONFIRM", "CANCEL"}
RecordStatus == {"PENDING", "CONFIRMED", "CANCEL"}

TypeOK ==
    /\ order \in OrderRow /\ saves \in 0 .. MaxSaves
    /\ trigger \in BOOLEAN /\ young \in BOOLEAN /\ in_order \in BOOLEAN
    /\ carry \in [Level -> CarryStatus \cup {"none"}]
    /\ copies \in [Level -> Seq(CarryStatus)] /\ second \in Seq(CarryStatus)
    /\ record \in [Level -> RecordStatus \cup {"none"}]
    /\ wallet \in [Level -> [Counter -> Int]]

Init ==
    /\ order = [status |-> "WAIT_PAY", refund |-> "none"]
    /\ saves = 0 /\ trigger = TRUE /\ young = TRUE /\ in_order = TRUE
    /\ carry = [l \in Level |-> "none"] /\ record = [l \in Level |-> "none"]
    /\ copies = [l \in Level |-> <<>>] /\ second = <<>>
    /\ wallet = [l \in Level |-> [c \in Counter |-> 0]]

-----------------------------------------------------------------------------
(* The order's life, as TradePayment and Refund tell it.                   *)
OrderSteps ==
    {<<"WAIT_PAY", "none", "SEND", "none">>, <<"WAIT_PAY", "none", "CLOSED", "none">>}
        \cup {<<"SEND", refund, "CONFIRM", refund>> : refund \in {"none", "AGREE", "REFUSED"}}
        \cup {<<status, asked[1], status, asked[2]>> :
                status \in {"SEND", "CONFIRM"},
                asked \in {<<"none", "AGREE">>, <<"REFUSED", "AGREE">>, <<"AGREE", "REFUSED">>}}
        \cup {<<status, "AGREE", "CLOSED", "SUCCESS">> : status \in {"SEND", "CONFIRM"}}

SaveOrder ==
    /\ saves < MaxSaves /\ saves' = saves + 1
    /\ \E step \in OrderSteps :
         /\ order = [status |-> step[1], refund |-> step[2]]
         /\ order' = [status |-> step[3], refund |-> step[4]]
    /\ trigger' = TRUE
    /\ UNCHANGED <<carry, copies, second, record, wallet, young, in_order>>

\* Mutant: a refund that was paid no longer cancels.
StatusOf_Agree(row) ==
    IF row.refund = "AGREE" THEN "CANCEL"
    ELSE IF row.status = "SEND" THEN "ESTIMATE"
    ELSE IF row.status = "CONFIRM" THEN "CONFIRM"
    ELSE "STAGING"

(* need_send, is_confirmed, is_canceled: a refund under way cancels.       *)
StatusOf(row) ==
    IF row.status = "CLOSED" \/ row.refund \in {"AGREE", "SUCCESS"} THEN "CANCEL"
    ELSE IF row.status = "SEND" THEN "ESTIMATE"
    ELSE IF row.status = "CONFIRM" THEN "CONFIRM"
    ELSE "STAGING"

-----------------------------------------------------------------------------
(* Saving an OrderCarry queues a copy of it, and one of the agent's for    *)
(* the referrer.                                                           *)
Announce(l, status) ==
    /\ copies' = [copies EXCEPT ![l] = Append(@, status)]
    /\ second' = IF l = 1 THEN Append(second, status) ELSE second

\* Mutant: a row that is only updated is not announced.
WriteCarry_Silent(l, status) ==
    /\ carry' = [carry EXCEPT ![l] = status]
    /\ IF carry[l] = "none" THEN Announce(l, status) ELSE UNCHANGED <<copies, second>>

(* The row is made, or given a new status; nothing is saved if it has it.  *)
WriteCarry(l, status) ==
    IF carry[l] = status THEN UNCHANGED <<carry, copies, second>>
    ELSE carry' = [carry EXCEPT ![l] = status] /\ Announce(l, status)

(* task_update_ordercarry, with the order as it is when the task runs.     *)
OrderTrigger ==
    /\ trigger
    /\ trigger' \in BOOLEAN
    /\ WriteCarry(1, StatusOf(order))
    /\ UNCHANGED <<order, saves, record, wallet, young, in_order>>

(* What is left when a copy at any place of a queue has been processed: it *)
(* is gone, or, as CELERY_TASK_ACKS_LATE has it, will be delivered again.  *)
After(queue, i) == {queue, RemoveAt(queue, i)}

SecondLevel(i) ==
    /\ in_order' = (in_order /\ i = 1)
    /\ carry' = [carry EXCEPT ![2] = second[i]]
    /\ copies' = IF carry[2] = second[i] THEN copies
                 ELSE [copies EXCEPT ![2] = Append(@, second[i])]
    /\ second' \in After(second, i)
    /\ UNCHANGED <<order, saves, trigger, record, wallet, young>>

-----------------------------------------------------------------------------
\* Mutant: the order's status is written as it is.
RecordOf_Same(status) == status

RecordOf(status) ==
    CASE status \in {"STAGING", "ESTIMATE"} -> "PENDING"
      [] status = "CONFIRM" -> "CONFIRMED"
      [] status = "CANCEL" -> "CANCEL"

Gain(l, move) == wallet' = [wallet EXCEPT ![l] = SaveRow(@, @, move)]

(* CarryRecord.create makes no record that is cancelled from the start.    *)
CreateRecord(l, status) ==
    IF status = "CANCEL" THEN UNCHANGED <<record, wallet>>
    ELSE /\ record' = [record EXCEPT ![l] = status]
         /\ Gain(l, CreateMove("IN", status, CarryNum[l]))

Confirm(l) ==
    IF record[l] # "PENDING" THEN UNCHANGED <<record, wallet>>
    ELSE /\ record' = [record EXCEPT ![l] = "CONFIRMED"]
         /\ Gain(l, ConfirmMove("IN", "PENDING", CarryNum[l]))

\* Mutant: what was still pending is taken back without having been paid.
Cancel_NoConfirm(l) ==
    IF record[l] = "CANCEL" THEN UNCHANGED <<record, wallet>>
    ELSE /\ record' = [record EXCEPT ![l] = "CANCEL"]
         /\ Gain(l, CreateMove("OUT", "CONFIRMED", CarryNum[l]))

(* CarryRecord.cancel confirms the wallet's record if it is still pending, *)
(* and takes the amount back with a record of its own.                     *)
Cancel(l) ==
    IF record[l] = "CANCEL" THEN UNCHANGED <<record, wallet>>
    ELSE LET confirmed == SaveRow(wallet[l], wallet[l],
                                  ConfirmMove("IN", record[l], CarryNum[l]))
         IN /\ record' = [record EXCEPT ![l] = "CANCEL"]
            /\ wallet' = [wallet EXCEPT ![l] =
                            SaveRow(confirmed, confirmed, CreateMove("OUT", "CONFIRMED", CarryNum[l]))]

MoveRecord(l, status) ==
    CASE status = "PENDING"   -> UNCHANGED <<record, wallet>>
      [] status = "CONFIRMED" -> Confirm(l)
      [] status = "CANCEL"    -> Cancel(l)

UpdateRecord(l, i) ==
    /\ in_order' = (in_order /\ i = 1)
    /\ LET status == RecordOf(copies[l][i])
       IN IF record[l] = "none" THEN CreateRecord(l, status) ELSE MoveRecord(l, status)
    /\ \E rest \in After(copies[l], i) : copies' = [copies EXCEPT ![l] = rest]
    /\ UNCHANGED <<order, saves, trigger, carry, second, young>>

-----------------------------------------------------------------------------
(* task_check_order_carry_record: OrderCarry rows follow the order; then   *)
(* records follow their OrderCarry, which is saved again if it has none.   *)
Wrong(status) == {l \in Level : carry[l] \notin {"none", status}}

CheckCarry ==
    /\ young /\ order.status # "WAIT_PAY"
    /\ IF carry[1] = "none" THEN WriteCarry(1, StatusOf(order))
       ELSE LET status == StatusOf(order)
            IN /\ carry' = [l \in Level |-> IF l \in Wrong(status) THEN status ELSE carry[l]]
               /\ copies' = [l \in Level |-> IF l \in Wrong(status) THEN Append(copies[l], status)
                                            ELSE copies[l]]
               /\ second' = IF 1 \in Wrong(status) THEN Append(second, status) ELSE second
    /\ UNCHANGED <<order, saves, trigger, record, wallet, young, in_order>>

CheckRecord(l) ==
    /\ young /\ carry[l] # "none"
    /\ IF record[l] = "none"
       THEN Announce(l, carry[l]) /\ UNCHANGED <<record, wallet>>
       ELSE MoveRecord(l, RecordOf(carry[l])) /\ UNCHANGED <<copies, second>>
    /\ UNCHANGED <<order, saves, trigger, carry, young, in_order>>

GrowOld ==
    /\ young /\ young' = FALSE
    /\ UNCHANGED <<order, saves, trigger, carry, copies, second, record, wallet, in_order>>

-----------------------------------------------------------------------------
Next ==
    \/ SaveOrder \/ OrderTrigger \/ CheckCarry \/ GrowOld
    \/ \E i \in 1 .. Len(second) : SecondLevel(i)
    \/ \E l \in Level :
         \/ \E i \in 1 .. Len(copies[l]) : UpdateRecord(l, i)
         \/ CheckRecord(l)

Spec == Init /\ [][Next]_vars

-----------------------------------------------------------------------------
(* However copies are repeated and reordered, an agent's wallet holds the  *)
(* commission exactly while the record of it is confirmed.                 *)
WalletFollowsRecord ==
    \A l \in Level :
        wallet[l]["amount"] = IF record[l] = "CONFIRMED" THEN CarryNum[l] ELSE 0

(* When no copy overtook another and all are processed, nobody holds the   *)
(* commission of a closed order, and if no refund was ever asked for, both *)
(* agents hold that of an order that arrived.                              *)
CommissionSettles ==
    (in_order /\ ~trigger /\ second = <<>> /\ copies = [l \in Level |-> <<>>]) =>
        \A l \in Level :
            /\ order.status = "CLOSED" => record[l] \in {"none", "CANCEL"}
            /\ (order.status = "CONFIRM" /\ order.refund = "none") => record[l] = "CONFIRMED"
=============================================================================
