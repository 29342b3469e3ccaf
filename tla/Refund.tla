------------------------------- MODULE Refund -------------------------------
(***************************************************************************)
(* After-sales of one trade: its SaleOrder rows (a refund of part of an    *)
(* order puts the rest into a new row), the SaleRefund rows asked for by   *)
(* the customer, by customer service and for goods out of stock, what the  *)
(* wallet has paid for each, and the tasks, staff and warehouse that work  *)
(* on them at the same time.  The packed item of an order moves as         *)
(* ItemLife promises.  Prices: one unit of goods costs one unit of money.  *)
(***************************************************************************)
EXTENDS Naturals, FiniteSetsExt

CONSTANTS
    Num,       \* number of goods in each order that was paid
    MaxOrder,  \* bound: orders of the trade, those put up again included
    MaxRefund, \* bound: refunds of the trade
    MaxRuns    \* runs of pushTradeRefundTask, its retries included

Order  == 1 .. MaxOrder
Refund == 1 .. MaxRefund
Bought == DOMAIN Num

ASSUME RefundAssumption ==
    /\ MaxOrder \in Nat /\ MaxRefund \in Nat /\ MaxRuns \in Nat \ {0}
    /\ Bought \subseteq Order /\ Bought # {} /\ Num \in [Bought -> Nat \ {0}]

VARIABLES
    order,     \* SaleOrder: status, num, refund_status, and the row it continues
    trade,     \* SaleTrade.status
    item,      \* PackageSkuItem.assign_status of each order
    booked,    \* orders whose item is in a purchase order (is_booked)
    refund,    \* SaleRefund rows, numbered as they are made
    log,       \* money the wallet got for each refund (BudgetLog.BG_REFUND)
    goods,     \* orders bought whose returned goods reached the warehouse
    queued,    \* runs pushTradeRefundTask has left for each refund
    approving  \* the copy of a refund each approver has tested and will pay

vars == <<order, trade, item, booked, refund, log, goods, queued, approving>>

Life == INSTANCE ItemLife WITH Item <- Order, life <- item

Approver == {"task", "staff"}
\* Mutant: an order not yet sent stays open when it is refunded.
Live_Received == {"CONFIRM", "SIGNED"}

Live     == {"SEND", "CONFIRM", "SIGNED"}
Unsent   == {"NOT_RECEIVED", "OUT_STOCK"}
Waiting  == {"AGREE", "RETURN", "GOODS"}

OrderRow  == [status : Live \cup {"none", "FINISHED", "CLOSED"}, num : Nat, root : Bought,
              refund_status : Waiting \cup {"none", "CLOSED", "REFUSED", "SUCCESS"}]
RefundRow == [order : Order, num : Nat, good : Unsent \cup {"RECEIVED", "RETURNED"},
              sid : BOOLEAN, status : Waiting \cup {"CLOSED", "REFUSED", "SUCCESS"}]
NoRow     == [order |-> 0]
Copy      == [id : Refund, row : RefundRow, post : {"sent", "unsent", "unread"}]
Idle      == [id |-> 0]

TypeOK ==
    /\ order \in [Order -> OrderRow]
    /\ trade \in Live \cup {"FINISHED", "CLOSED"}
    /\ item \in [Order -> Life!Stage] /\ booked \in SUBSET Order
    /\ refund \in [Refund -> RefundRow \cup {NoRow}]
    /\ log \in [Refund -> Nat] /\ goods \in SUBSET Bought
    /\ queued \in [Refund -> 0 .. MaxRuns]
    /\ approving \in [Approver -> Copy \cup {Idle}]

Init ==
    /\ order = [o \in Order |->
                  [status |-> IF o \in Bought THEN "SEND" ELSE "none",
                   num |-> IF o \in Bought THEN Num[o] ELSE 0,
                   root |-> IF o \in Bought THEN o ELSE Min(Bought), refund_status |-> "none"]]
    /\ trade = "SEND"
    /\ item \in [Order -> {"none", "waiting", "assigned"}]
    /\ \A o \in Order : item[o] = "none" <=> o \notin Bought
    /\ booked = {} /\ goods = {}
    /\ refund = [r \in Refund |-> NoRow]
    /\ log = [r \in Refund |-> 0] /\ queued = [r \in Refund |-> 0]
    /\ approving = [a \in Approver |-> Idle]

-----------------------------------------------------------------------------
Made(r)      == refund[r].order # 0
RefundsOf(S) == {r \in Refund : refund[r].order \in S}
OrdersOf(b)  == {o \in Order : order[o].status # "none" /\ order[o].root = b}

(* SaleOrder.refund and refund_id name the first refund made, 0 if none.   *)
FirstOf(S) == IF RefundsOf(S) = {} THEN 0 ELSE Min(RefundsOf(S))

Post(o)     == item[o] = "sent"
NeedSend(o) == order[o].status = "SEND" /\ order[o].refund_status \in {"none", "CLOSED", "REFUSED"}

(* tasks_update_sale_trade_status, run whenever an order has been saved.   *)
\* Mutant: an order that is closed decides for the whole trade.
Ladder_Closed == <<"CLOSED", "SEND", "CONFIRM", "SIGNED", "FINISHED">>

Ladder == <<"SEND", "CONFIRM", "SIGNED", "CLOSED", "FINISHED">>

TradeStatus(os) == Ladder[Min({k \in 1 .. 5 : \E o \in Order : os[o].status = Ladder[k]})]

Save(os) == order' = os /\ trade' = TradeStatus(os)

(* sync_sale_refund_status, run whenever a refund has been saved.          *)
Synced(os, row) ==
    LET ends == row.num = os[row.order].num
    IN [os EXCEPT ![row.order].refund_status = row.status,
                  ![row.order].status = IF ends /\ row.status = "SUCCESS" THEN "CLOSED"
                                        ELSE IF ends /\ row.status = "CLOSED" THEN "FINISHED"
                                        ELSE @]

-----------------------------------------------------------------------------
(* Goods move between the warehouse and the customer.  Goods leave the     *)
(* warehouse only for an order that needs them (checkerr); a supplier      *)
(* sends what was booked with it.                                          *)
Warehouse(o, stage) ==
    /\ item[o] # "none" /\ Life!CanBecome(item[o], stage) /\ stage # "cancelled"
    /\ (stage = "sent" /\ item[o] = "assigned") => NeedSend(o)
    /\ item' = [item EXCEPT ![o] = stage]
    /\ booked' = IF stage = "virtual" THEN booked \cup {o} ELSE booked
    /\ IF stage = "sent" /\ order[o].status = "SEND"
       THEN Save([order EXCEPT ![o].status = "CONFIRM"])
       ELSE UNCHANGED <<order, trade>>
    /\ UNCHANGED <<refund, log, goods, queued, approving>>

Book(o) ==
    /\ item[o] = "waiting" /\ o \notin booked
    /\ booked' = booked \cup {o}
    /\ UNCHANGED <<order, trade, item, refund, log, goods, queued, approving>>

ConfirmSign(o) ==
    /\ order[o].status = "CONFIRM"
    /\ Save([order EXCEPT ![o].status = "SIGNED"])
    /\ UNCHANGED <<item, booked, refund, log, goods, queued, approving>>

(* task_Push_SaleTrade_Finished: time is up, and no refund is under way.   *)
Finish(o) ==
    /\ order[o].status \in {"CONFIRM", "SIGNED"}
    /\ order[o].refund_status \in {"none", "CLOSED", "REFUSED"}
    /\ order' = [order EXCEPT ![o].status = "FINISHED"]
    /\ trade' = IF \A q \in Order : order'[q].status \in {"none", "CLOSED", "FINISHED"}
                THEN "FINISHED" ELSE TradeStatus(order')
    /\ UNCHANGED <<item, booked, refund, log, goods, queued, approving>>

-----------------------------------------------------------------------------
(* A refund is made, the first that is not; pushTradeRefundTask is queued. *)
Make(r, row) ==
    /\ ~Made(r) /\ \A q \in 1 .. (r - 1) : Made(q)
    /\ refund' = [refund EXCEPT ![r] = row]
    /\ queued' = [queued EXCEPT ![r] = MaxRuns]
    /\ Save(Synced(order, row))

NewRow(o, k, good) ==
    [order |-> o, num |-> k, good |-> good, sid |-> FALSE, status |-> "AGREE"]

(* refund_Handler: the customer asks, and is at once told to return goods  *)
(* that were received.                                                     *)
Apply(r, o, k) ==
    /\ FirstOf({o}) = 0 /\ k <= order[o].num
    /\ \/ /\ order[o].status = "SEND" /\ o \notin booked /\ ~Post(o)
          /\ Make(r, NewRow(o, k, "NOT_RECEIVED"))
       \/ /\ order[o].status = "SIGNED"
          /\ Make(r, [NewRow(o, k, "RECEIVED") EXCEPT !.status = "RETURN"])
    /\ UNCHANGED <<item, booked, log, goods, approving>>

(* SaleOrderDoRefund: customer service refunds an order, whatever has been *)
(* asked for it.                                                           *)
DoRefund(r, o, out_stock) ==
    /\ order[o].status \in Live
    /\ Make(r, NewRow(o, order[o].num, IF out_stock THEN "OUT_STOCK"
                                       ELSE IF order[o].status = "SEND" THEN "NOT_RECEIVED"
                                       ELSE "RECEIVED"))
    /\ UNCHANGED <<item, booked, log, goods, approving>>

(* modify_logistic_refund: the customer enters how the goods come back.    *)
ModifyLogistic(o) ==
    /\ FirstOf({o}) # 0 /\ order[o].status \in {"SEND", "SIGNED"}
    /\ LET r == FirstOf({o})
       IN /\ refund[r].status \notin {"SUCCESS", "CLOSED"}
          /\ refund' = [refund EXCEPT ![r].status = "GOODS", ![r].good = "RETURNED", ![r].sid = TRUE]
    /\ Save([order EXCEPT ![o].refund_status = "GOODS"])
    /\ UNCHANGED <<item, booked, log, goods, queued, approving>>

RefundRefuse(r) ==
    /\ Made(r) /\ refund[r].status \in Waiting
    /\ refund' = [refund EXCEPT ![r].status = "REFUSED"]
    /\ Save(Synced(order, refund'[r]))
    /\ UNCHANGED <<item, booked, log, goods, queued, approving>>

-----------------------------------------------------------------------------
(* refund_confirm with the copy row of refund r and the orders os: nothing *)
(* once the refund is a success; else the copy is saved as a success, what *)
(* is not refunded is ordered again, the order is closed and, if its goods *)
(* have not been sent, its item is cancelled.  That raises when the item   *)
(* has left or is cancelled already, and undoes all of it.                 *)
\* Mutant: an item that has left may still be cancelled.
CanConfirm_Sent(r, row) ==
    refund[r].status = "SUCCESS" \/ row.good \notin Unsent \/ item[row.order] # "cancelled"

CanConfirm(r, row) ==
    refund[r].status = "SUCCESS" \/ row.good \notin Unsent
        \/ item[row.order] \notin {"sent", "cancelled"}

\* Mutant: the rest is looked for once the order has been closed.
Rest_Closed(row, os) ==
    IF os[row.order].status = "CLOSED" THEN os[row.order].num - row.num ELSE 0

Rest(row, os) ==
    IF os[row.order].status = "SEND" THEN os[row.order].num - row.num ELSE 0

RefundConfirm(r, row, os) ==
    /\ CanConfirm(r, row)
    /\ IF refund[r].status = "SUCCESS"
       THEN refund' = [refund EXCEPT ![r].good = row.good] /\ Save(os) /\ UNCHANGED item
       ELSE LET o      == row.order
                saved  == [row EXCEPT !.status = "SUCCESS"]
                synced == Synced(os, saved)
                rest   == Rest(row, synced)
                closed == [synced EXCEPT ![o].status = IF @ \in Live THEN "CLOSED" ELSE @]
                items  == IF row.good \in Unsent THEN [item EXCEPT ![o] = "cancelled"] ELSE item
            IN /\ refund' = [refund EXCEPT ![r] = saved]
               /\ \/ rest = 0 /\ Save(closed) /\ item' = items
                  \/ /\ rest > 0
                     /\ \E new \in Order, stage \in {"waiting", "assigned"} :
                          /\ order[new].status = "none" /\ \A q \in 1 .. (new - 1) : order[q].status # "none"
                          /\ Save([closed EXCEPT ![new] =
                                     [status |-> "SEND", num |-> rest, root |-> order[o].root,
                                      refund_status |-> "none"]])
                          /\ item' = [items EXCEPT ![new] = stage]

(* refund_payment_2_budget tests what the refund got so far, outside its   *)
(* transaction.  refund_fast_approve has looked before whether the goods   *)
(* were sent, and asks for them back; the admin page has not.              *)
FitsPayment(r) == log[r] + refund[r].num <= order[refund[r].order].num

HasReturned(r) == Post(refund[r].order) => order[refund[r].order].root \in goods

Loaded(r, fast) ==
    [id |-> r, row |-> refund[r],
     post |-> IF ~fast THEN "unread" ELSE IF Post(refund[r].order) THEN "sent" ELSE "unsent"]

BeginApprove(a, r, fast) ==
    /\ approving[a] = Idle
    /\ FitsPayment(r) /\ (fast => HasReturned(r))
    /\ approving' = [approving EXCEPT ![a] = Loaded(r, fast)]

\* Mutant: whatever is refunded counts as received.
Stamped_Received(copy) == [copy.row EXCEPT !.good = "RECEIVED"]

(* The copy as update_good_status saves it.                                *)
Stamped(copy) ==
    LET sent == IF copy.post = "unread" THEN Post(copy.row.order) ELSE copy.post = "sent"
    IN [copy.row EXCEPT !.good = IF ~sent THEN @ ELSE IF copy.row.sid THEN "RETURNED" ELSE "RECEIVED"]

(* Its transaction: good_status, the wallet's log, refund_confirm.         *)
Pay(r, copy) ==
    LET row == Stamped(copy)
    IN /\ RefundConfirm(r, row, Synced(order, row))
       /\ log' = [log EXCEPT ![r] = @ + row.num]

Commit(a, r) ==
    /\ approving[a].id = r
    /\ approving' = [approving EXCEPT ![a] = Idle]
    /\ LET copy == approving[a]
       IN \/ /\ Pay(r, copy)
             /\ \/ queued' = IF a = "task" THEN [queued EXCEPT ![r] = 0] ELSE queued
                \* the message or the coupon's return failed: retried
                \/ a = "task" /\ queued' = [queued EXCEPT ![r] = @ - 1]
          \/ /\ ~CanConfirm(r, Stamped(copy))
             /\ queued' = IF a = "task" THEN [queued EXCEPT ![r] = @ - 1] ELSE queued
             /\ UNCHANGED <<order, trade, item, refund, log>>
    /\ UNCHANGED <<booked, goods>>

(* pushTradeRefundTask leaves goods received and goods booked to staff.    *)
ForStaff(r) == refund[r].good \notin Unsent \/ refund[r].order \in booked

Attempt(r) ==
    /\ approving["task"] = Idle
    /\ \/ ForStaff(r) /\ queued' = [queued EXCEPT ![r] = 0] /\ UNCHANGED approving
       \/ /\ ~ForStaff(r)
          /\ \/ BeginApprove("task", r, TRUE) /\ UNCHANGED queued
             \/ /\ ~(FitsPayment(r) /\ HasReturned(r))
                /\ queued' = [queued EXCEPT ![r] = @ - 1] /\ UNCHANGED approving
    /\ UNCHANGED <<order, trade, item, booked, refund, log, goods>>

\* Mutant: the task runs without having been queued.
RunTask_Unasked(r) == Made(r) /\ Attempt(r)

RunTask(r) == queued[r] > 0 /\ Attempt(r)

AdminApprove(r) ==
    /\ Made(r) /\ refund[r].status \in Waiting
    /\ BeginApprove("staff", r, FALSE)
    /\ UNCHANGED <<order, trade, item, booked, refund, log, goods, queued>>

(* The page of goods that stay out of stock: a refund is made, or the one  *)
(* there is taken, and approved at once.                                   *)
RefundLack(r, o, k) ==
    /\ approving["staff"] = Idle
    /\ order[o].status \in {"SEND", "SIGNED"} /\ k <= order[o].num
    /\ IF FirstOf({o}) = 0
       THEN LET row == NewRow(o, k, "OUT_STOCK")
            IN /\ Make(r, row)
               /\ approving' = IF Post(o) /\ order[o].root \notin goods THEN approving
                               ELSE [approving EXCEPT !["staff"] =
                                       [id |-> r, row |-> row, post |-> IF Post(o) THEN "sent" ELSE "unsent"]]
       ELSE /\ r = FirstOf({o}) /\ refund[r].status # "SUCCESS"
            /\ BeginApprove("staff", r, TRUE)
            /\ UNCHANGED <<order, trade, refund, queued>>
    /\ UNCHANGED <<item, booked, log, goods>>

(* Returned goods are unpacked; if they are what the first refund of the   *)
(* goods announced, it is paid in the same transaction.                    *)
UnpackReturn(b, conform) ==
    /\ \E o \in OrdersOf(b) : Post(o)
    /\ goods' = goods \cup {b}
    /\ LET r    == FirstOf(OrdersOf(b))
           pays == /\ conform /\ r # 0 /\ refund[r].sid
                   /\ refund[r].status = "GOODS" /\ refund[r].good = "RETURNED"
                   /\ FitsPayment(r)
       IN IF pays THEN Pay(r, Loaded(r, TRUE)) ELSE UNCHANGED <<order, trade, item, refund, log>>
    /\ UNCHANGED <<booked, queued, approving>>

(* The outside warehouse reports returned goods: as announced, the refund  *)
(* is confirmed; otherwise it is refused.                                  *)
WarehouseNotice(r, conform) ==
    /\ Made(r) /\ refund[r].sid /\ Post(refund[r].order)
    /\ IF conform THEN RefundConfirm(r, refund[r], order)
       ELSE /\ refund[r].status \in Waiting
            /\ refund' = [refund EXCEPT ![r].status = "REFUSED"]
            /\ Save(Synced(order, refund'[r])) /\ UNCHANGED item
    /\ UNCHANGED <<booked, log, goods, queued, approving>>

-----------------------------------------------------------------------------
(* task_close_refund: old refunds of orders that were received, or that    *)
(* have been sent and only wait for their return, are closed.              *)
CloseRefund(r) ==
    /\ Made(r)
    /\ LET status == order[refund[r].order].status
       IN \/ refund[r].status \in {"AGREE", "RETURN", "REFUSED"} /\ status \in {"SIGNED", "FINISHED"}
          \/ refund[r].status = "RETURN" /\ status = "CONFIRM"
    /\ refund' = [refund EXCEPT ![r].status = "CLOSED"]
    /\ Save(Synced(order, refund'[r]))
    /\ UNCHANGED <<item, booked, log, goods, queued, approving>>

-----------------------------------------------------------------------------
OrderStep(o) ==
    \/ \E stage \in Life!Stage : Warehouse(o, stage)
    \/ Book(o) \/ ConfirmSign(o) \/ Finish(o) \/ ModifyLogistic(o)

RequestStep(r, o) ==
    \/ \E k \in 1 .. order[o].num : Apply(r, o, k) \/ RefundLack(r, o, k)
    \/ \E out_stock \in BOOLEAN : DoRefund(r, o, out_stock)

RefundStep(r) ==
    \/ RefundRefuse(r) \/ AdminApprove(r) \/ RunTask(r) \/ \E a \in Approver : Commit(a, r)
    \/ \E conform \in BOOLEAN : WarehouseNotice(r, conform)
    \/ CloseRefund(r)

Next ==
    \/ \E o \in Order : OrderStep(o) \/ \E r \in Refund : RequestStep(r, o)
    \/ \E r \in Refund : RefundStep(r)
    \/ \E b \in Bought, conform \in BOOLEAN : UnpackReturn(b, conform)

Spec == Init /\ [][Next]_vars

-----------------------------------------------------------------------------
Returned(r) == Made(r) /\ (log[r] > 0 \/ refund[r].status = "SUCCESS")

(* Once money went back for an order whose goods nobody has announced to   *)
(* send back, its goods have left or its item is cancelled, whatever copies *)
(* the approvers held: the warehouse does not pack them any more.          *)
UnsentIsCancelled ==
    \A r \in Refund :
        Returned(r) /\ ~refund[r].sid => item[refund[r].order] \in {"sent", "cancelled"}

(* Once money went back for an order, it is not to be sent any more; the   *)
(* trade of several orders is to be sent exactly while one of them is.     *)
ReturnedIsNotSent ==
    /\ \A r \in Refund : Returned(r) => order[refund[r].order].status # "SEND"
    /\ (trade = "SEND") = \E o \in Order : order[o].status = "SEND"

(* Units of goods that an order can still get, or has got.                 *)
Goods(b) ==
    LET left == {o \in OrdersOf(b) : order[o].status # "CLOSED" \/ Post(o)}
    IN SumFunction([o \in left |-> order[o].num])

(* Units of goods whose money went back.                                   *)
Refunded(b) ==
    LET done == {r \in RefundsOf(OrdersOf(b)) : Returned(r)}
    IN SumFunction([r \in done |-> refund[r].num])

(* Nothing bought gets lost: what is not refunded is sent, was sent or is  *)
(* ordered again.                                                          *)
NothingIsLost == \A b \in Bought : Goods(b) + Refunded(b) >= Num[b]

(* Items are cancelled by refunds only as ItemLife allows.                 *)
LifeKept == [][Life!Next]_item

=============================================================================
