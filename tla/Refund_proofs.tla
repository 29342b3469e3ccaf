--------------------------- MODULE Refund_proofs ---------------------------
(***************************************************************************)
(* Proofs about after-sales for any number of orders, goods and refunds:   *)
(* what is refunded is not packed or sent any more, whatever copies the    *)
(* approvers hold, items move as the warehouse promises, and nothing that  *)
(* was bought gets lost when parts of an order are refunded.               *)
(***************************************************************************)
EXTENDS Refund, Accounting_proofs

(***************************************************************************)
(* The inductive invariant.  What a copy may still write is constrained    *)
(* like the row it was read from.                                          *)
(***************************************************************************)
\* The status of goods in a refund says why its order needs no cancelling:
\* received goods were sent; returned goods were announced, or had left.
Justified(row, items) ==
    /\ row.good = "RECEIVED" => items[row.order] = "sent"
    /\ row.good = "RETURNED" => row.sid \/ items[row.order] \in {"sent", "cancelled"}

\* Orders exist together with their items; what counts as shipped was sent.
OrdersFit ==
    /\ \A o \in Order : /\ order[o].status = "none" <=> item[o] = "none"
                        /\ order[o].status \in {"CONFIRM", "SIGNED"} => item[o] = "sent"
    /\ \E o \in Order : order[o].status # "none"
    /\ (trade = "SEND") = \E o \in Order : order[o].status = "SEND"

\* Money went back with the success of a refund only, which leaves an order
\* closed and nothing to pack.
RefundFits(r) ==
    IF Made(r)
    THEN /\ order[refund[r].order].status # "none"
         /\ Justified(refund[r], item)
         /\ log[r] > 0 => refund[r].status = "SUCCESS"
         /\ refund[r].status = "SUCCESS" =>
              /\ order[refund[r].order].status # "SEND"
              /\ refund[r].sid \/ item[refund[r].order] \in {"sent", "cancelled"}
    ELSE log[r] = 0 /\ queued[r] = 0

\* A copy is of a refund that exists; the task's run is still to be counted.
CopyFits(a) ==
    approving[a] # Idle =>
        /\ Made(approving[a].id)
        /\ approving[a].row.order = refund[approving[a].id].order
        /\ Justified(approving[a].row, item)
        /\ approving[a].post = "sent" => Post(approving[a].row.order)
        /\ a = "task" => queued[approving[a].id] > 0

RefundInv ==
    /\ TypeOK
    /\ OrdersFit
    /\ \A r \in Refund : RefundFits(r)
    /\ \A a \in Approver : CopyFits(a)

-----------------------------------------------------------------------------
(* Operators of the model.                                                 *)

\* The refund an order names has been made for it.
LEMMA FirstIsMade ==
    ASSUME TypeOK, NEW S, FirstOf(S) # 0
    PROVE  FirstOf(S) \in Refund /\ refund[FirstOf(S)].order \in S
<1>1. RefundsOf(S) # {} /\ RefundsOf(S) \in SUBSET Nat /\ FirstOf(S) = Min(RefundsOf(S))
  BY DEF FirstOf, RefundsOf, Refund
<1>2. FirstOf(S) \in RefundsOf(S)
  BY <1>1, MinIsLeast
<1> QED BY <1>2 DEF RefundsOf

\* The trade is to be sent exactly while one of its orders is.
LEMMA TradeFollows ==
    ASSUME NEW os \in [Order -> OrderRow], \E o \in Order : os[o].status # "none"
    PROVE  /\ TradeStatus(os) \in Live \cup {"FINISHED", "CLOSED"}
           /\ (TradeStatus(os) = "SEND") = \E o \in Order : os[o].status = "SEND"
<1> DEFINE S == {k \in 1 .. 5 : \E o \in Order : os[o].status = Ladder[k]}
<1>1. /\ Ladder[1] = "SEND" /\ Ladder[2] = "CONFIRM" /\ Ladder[3] = "SIGNED"
      /\ Ladder[4] = "CLOSED" /\ Ladder[5] = "FINISHED"
  BY DEF Ladder
<1>2. S # {}
  <2>1. PICK o \in Order : os[o].status # "none"
    OBVIOUS
  <2>2. os[o].status \in {"SEND", "CONFIRM", "SIGNED", "FINISHED", "CLOSED"}
    BY <2>1 DEF OrderRow, Live
  <2>3. \E k \in 1 .. 5 : os[o].status = Ladder[k]
    BY <1>1, <2>2
  <2> QED BY <2>3
<1>3. Min(S) \in S /\ \A k \in S : Min(S) <= k
  <2>1. S \in SUBSET Nat
    OBVIOUS
  <2> HIDE DEF S
  <2> QED BY <1>2, <2>1, MinIsLeast
<1>4. 1 \in S <=> \E o \in Order : os[o].status = "SEND"
  BY <1>1
<1>5. Min(S) = 1 <=> 1 \in S
  BY <1>3
<1>6. TradeStatus(os) = Ladder[Min(S)]
  BY DEF TradeStatus
<1> HIDE DEF S
<1>7. Min(S) \in 1 .. 5
  BY <1>3 DEF S
<1>8. (Ladder[Min(S)] = "SEND") <=> Min(S) = 1
  BY <1>1, <1>7
<1>9. Ladder[Min(S)] \in Live \cup {"FINISHED", "CLOSED"}
  BY <1>1, <1>7 DEF Live
<1> QED BY <1>4, <1>5, <1>6, <1>8, <1>9

Ended == {"CLOSED", "FINISHED"}

\* Saving a refund can only end its order.
LEMMA SyncedEnds ==
    ASSUME NEW os \in [Order -> OrderRow], NEW row \in RefundRow,
           os[row.order].status # "none"
    PROVE  /\ Synced(os, row) \in [Order -> OrderRow]
           /\ \A o \in Order : /\ Synced(os, row)[o].num = os[o].num
                               /\ \/ Synced(os, row)[o].status = os[o].status
                                  \/ os[o].status # "none" /\ Synced(os, row)[o].status \in Ended
<1> DEFINE o == row.order
           st == IF row.num = os[o].num /\ row.status = "SUCCESS" THEN "CLOSED"
                 ELSE IF row.num = os[o].num /\ row.status = "CLOSED" THEN "FINISHED"
                 ELSE os[o].status
           new == [os[o] EXCEPT !.refund_status = row.status, !.status = st]
<1>1. o \in Order /\ os[o] \in OrderRow
  BY DEF RefundRow
<1>2. Synced(os, row) = [os EXCEPT ![o] = new]
  BY <1>1 DEF Synced, OrderRow
<1>3. row.status \in Waiting \cup {"CLOSED", "REFUSED", "SUCCESS"}
  BY DEF RefundRow
<1>4. st \in Live \cup {"none", "FINISHED", "CLOSED"} /\ (st = os[o].status \/ st \in Ended)
  BY <1>1 DEF OrderRow, Ended
<1> HIDE DEF st
<1>5. new \in OrderRow /\ new.num = os[o].num /\ new.status = st
  BY <1>1, <1>3, <1>4 DEF OrderRow
<1> HIDE DEF new
<1> QED BY <1>1, <1>2, <1>4, <1>5

-----------------------------------------------------------------------------
(* What a step may do to the rows.                                         *)

\* An item moves as the warehouse promises, and its order with it.
Moves(o) ==
    /\ item'[o] = item[o] \/ Life!CanBecome(item[o], item'[o])
    /\ \/ order'[o].status = order[o].status /\ (item'[o] = "none" <=> item[o] = "none")
       \/ order[o].status # "none" /\ order'[o].status \in Ended
       \/ /\ order[o].status \in {"SEND", "CONFIRM"} /\ order'[o].status \in {"CONFIRM", "SIGNED"}
          /\ item'[o] = "sent"
       \/ order[o].status = "none" /\ order'[o].status = "SEND" /\ item'[o] # "none"

TradeMoves == (trade' = "SEND") = \E o \in Order : order'[o].status = "SEND"

OrdersMove == TradeMoves /\ \A o \in Order : Moves(o)

\* Whatever has left or is cancelled stays so.
LEMMA ItemsStay ==
    ASSUME NEW o \in Order, Moves(o)
    PROVE  /\ item[o] = "sent" => item'[o] = "sent"
           /\ item[o] = "cancelled" => item'[o] = "cancelled"
           /\ item[o] # "none" => item'[o] # "none"
BY DEF Moves, Life!CanBecome

LEMMA OrdersStay ==
    ASSUME OrdersFit, NEW o \in Order, Moves(o), order[o].status # "none"
    PROVE  /\ order'[o].status # "none"
           /\ order[o].status # "SEND" => order'[o].status # "SEND"
BY DEF Moves, Ended, OrdersFit

LEMMA OrdersKept == ASSUME OrdersFit, OrdersMove PROVE OrdersFit'
<1>1. ASSUME NEW o \in Order
      PROVE  /\ order'[o].status = "none" <=> item'[o] = "none"
             /\ order'[o].status \in {"CONFIRM", "SIGNED"} => item'[o] = "sent"
  <2>1. Moves(o) /\ (order[o].status = "none" <=> item[o] = "none")
        /\ (order[o].status \in {"CONFIRM", "SIGNED"} => item[o] = "sent")
    BY DEF OrdersMove, OrdersFit
  <2> QED BY <2>1, ItemsStay DEF Moves, Ended
<1>2. \E o \in Order : order'[o].status # "none"
  <2>1. PICK o \in Order : order[o].status # "none"
    BY DEF OrdersFit
  <2> QED BY <2>1, OrdersStay DEF OrdersMove
<1> QED BY <1>1, <1>2 DEF OrdersFit, OrdersMove, TradeMoves

LEMMA JustifiedStays ==
    ASSUME OrdersMove, NEW row, row.order \in Order, Justified(row, item)
    PROVE  Justified(row, item')
<1>1. Moves(row.order)
  BY DEF OrdersMove
<1>2. /\ item[row.order] = "sent" => item'[row.order] = "sent"
      /\ item[row.order] = "cancelled" => item'[row.order] = "cancelled"
  BY <1>1, ItemsStay
<1> QED BY <1>2 DEF Justified

LEMMA RefundKept ==
    ASSUME RefundInv, OrdersMove, NEW r \in Refund,
           refund'[r] = refund[r], log'[r] = log[r], Made(r) \/ queued'[r] = queued[r]
    PROVE  RefundFits(r)'
<1>1. RefundFits(r) /\ (Made(r)' <=> Made(r))
  BY DEF RefundInv, Made
<1>2. CASE Made(r)
  <2> DEFINE o == refund[r].order
  <2>1. o \in Order
    BY <1>2 DEF Made, RefundInv, TypeOK, RefundRow, NoRow
  <2>2. order'[o].status # "none" /\ (order[o].status # "SEND" => order'[o].status # "SEND")
    BY <1>1, <1>2, <2>1, OrdersStay DEF RefundFits, RefundInv, OrdersMove
  <2>3. Justified(refund[r], item')
    BY <1>1, <1>2, <2>1, JustifiedStays DEF RefundFits
  <2>4. item[o] \in {"sent", "cancelled"} => item'[o] \in {"sent", "cancelled"}
    BY <2>1, ItemsStay DEF OrdersMove
  <2> QED BY <1>1, <1>2, <2>2, <2>3, <2>4 DEF RefundFits
<1>3. CASE ~Made(r)
  BY <1>1, <1>3 DEF RefundFits
<1> QED BY <1>2, <1>3

LEMMA CopyKept ==
    ASSUME RefundInv, OrdersMove, NEW a \in Approver, approving'[a] = approving[a],
           \A r \in Refund : Made(r) => Made(r)' /\ refund'[r].order = refund[r].order,
           a = "task" /\ approving[a] # Idle => queued'[approving[a].id] > 0
    PROVE  CopyFits(a)'
<1> SUFFICES ASSUME approving[a] # Idle PROVE CopyFits(a)'
  BY DEF CopyFits
<1> DEFINE copy == approving[a]
<1>1. /\ copy.id \in Refund /\ copy.row.order \in Order
      /\ Made(copy.id) /\ copy.row.order = refund[copy.id].order
      /\ Justified(copy.row, item) /\ (copy.post = "sent" => Post(copy.row.order))
  BY DEF RefundInv, TypeOK, CopyFits, Copy, RefundRow
<1>2. Justified(copy.row, item')
  BY <1>1, JustifiedStays
<1>3. Post(copy.row.order) => item'[copy.row.order] = "sent"
  BY <1>1, ItemsStay DEF Post, OrdersMove
<1>4. Made(copy.id)' /\ refund'[copy.id].order = refund[copy.id].order
  BY <1>1
<1> QED BY <1>1, <1>2, <1>3, <1>4 DEF CopyFits, Post, Made

-----------------------------------------------------------------------------
(* refund_confirm.                                                         *)

\* Orders as a caller hands them to refund_confirm: some may have ended.
Handed(os) ==
    /\ os \in [Order -> OrderRow]
    /\ \A o \in Order : \/ os[o].status = order[o].status
                        \/ order[o].status # "none" /\ os[o].status \in Ended

LEMMA HandedSynced ==
    ASSUME NEW os, Handed(os), NEW row \in RefundRow, order[row.order].status # "none"
    PROVE  Handed(Synced(os, row))
<1>1. row.order \in Order /\ os[row.order].status # "none"
  BY DEF RefundRow, Handed, Ended
<1> QED BY <1>1, SyncedEnds DEF Handed, Ended

\* What refund_confirm leaves behind.
Confirmed(r) ==
    /\ order' \in [Order -> OrderRow] /\ trade' \in Live \cup {"FINISHED", "CLOSED"}
    /\ item' \in [Order -> Life!Stage] /\ refund' \in [Refund -> RefundRow \cup {NoRow}]
    /\ OrdersMove
    /\ \A q \in Refund \ {r} : refund'[q] = refund[q]
    /\ refund'[r] \in RefundRow /\ refund'[r].order = refund[r].order
    /\ refund'[r].status = "SUCCESS" /\ Justified(refund'[r], item')
    /\ order'[refund[r].order].status # "SEND"
    /\ refund'[r].sid \/ item'[refund[r].order] \in {"sent", "cancelled"}

\* A refund that was a success before.
LEMMA ConfirmAgain ==
    ASSUME RefundInv, NEW r \in Refund, Made(r), NEW row \in RefundRow,
           row.order = refund[r].order, Justified(row, item), NEW os, Handed(os),
           refund[r].status = "SUCCESS", RefundConfirm(r, row, os)
    PROVE  Confirmed(r)
<1> DEFINE o == refund[r].order
<1>1. refund' = [refund EXCEPT ![r].good = row.good] /\ order' = os /\ trade' = TradeStatus(os)
      /\ item' = item
  BY DEF RefundConfirm, Save
<1>2. refund[r] \in RefundRow /\ o \in Order /\ refund \in [Refund -> RefundRow \cup {NoRow}]
  BY DEF RefundInv, TypeOK, Made, NoRow, RefundRow
<1>3. /\ refund'[r] = [refund[r] EXCEPT !.good = row.good] /\ refund'[r] \in RefundRow
      /\ refund'[r].order = o /\ refund'[r].status = "SUCCESS" /\ refund'[r].good = row.good
      /\ refund'[r].sid = refund[r].sid
  <2>1. refund'[r] = [refund[r] EXCEPT !.good = row.good]
    BY <1>1, <1>2
  <2> QED BY <1>2, <2>1 DEF RefundRow
<1>4. \A q \in Refund \ {r} : refund'[q] = refund[q]
  BY <1>1, <1>2
<1>5. refund' \in [Refund -> RefundRow \cup {NoRow}]
  BY <1>1, <1>2, <1>3
<1>6. order' \in [Order -> OrderRow] /\ \A x \in Order : Moves(x)
  BY <1>1 DEF Handed, Moves
<1>7. \E x \in Order : os[x].status # "none"
  BY DEF Handed, RefundInv, OrdersFit, Ended
<1>8. OrdersMove /\ trade' \in Live \cup {"FINISHED", "CLOSED"}
  BY <1>1, <1>6, <1>7, TradeFollows DEF OrdersMove, TradeMoves
<1>9. /\ order[o].status # "none" /\ order[o].status # "SEND"
      /\ refund[r].sid \/ item[o] \in {"sent", "cancelled"}
  BY DEF RefundInv, RefundFits
<1>10. order'[o].status # "SEND"
  BY <1>1, <1>2, <1>9 DEF Handed, Ended
<1>11. Justified(refund'[r], item')
  BY <1>1, <1>3, <1>9 DEF Justified
<1> QED
  BY <1>1, <1>2, <1>3, <1>4, <1>5, <1>6, <1>8, <1>9, <1>10, <1>11 DEF Confirmed, RefundInv, TypeOK

\* A refund that becomes a success.
LEMMA ConfirmFirst ==
    ASSUME RefundInv, NEW r \in Refund, Made(r), NEW row \in RefundRow,
           row.order = refund[r].order, Justified(row, item), NEW os, Handed(os),
           refund[r].status # "SUCCESS", RefundConfirm(r, row, os)
    PROVE  Confirmed(r)
<1> DEFINE o      == row.order
           saved  == [row EXCEPT !.status = "SUCCESS"]
           synced == Synced(os, saved)
           rest   == Rest(row, synced)
           closed == [synced EXCEPT ![o].status = IF @ \in Live THEN "CLOSED" ELSE @]
           items  == IF row.good \in Unsent THEN [item EXCEPT ![o] = "cancelled"] ELSE item
<1>1. /\ row.good \in Unsent => item[o] \notin {"sent", "cancelled"}
      /\ refund' = [refund EXCEPT ![r] = saved]
      /\ \/ rest = 0 /\ Save(closed) /\ item' = items
         \/ /\ rest > 0
            /\ \E new \in Order, stage \in {"waiting", "assigned"} :
                 /\ order[new].status = "none"
                 /\ Save([closed EXCEPT ![new] =
                            [status |-> "SEND", num |-> rest, root |-> order[o].root,
                             refund_status |-> "none"]])
                 /\ item' = [items EXCEPT ![new] = stage]
  BY DEF RefundConfirm, CanConfirm
<1>2. saved \in RefundRow /\ saved.order = o /\ saved.status = "SUCCESS" /\ saved.good = row.good
      /\ saved.sid = row.sid
  BY DEF RefundRow
<1>3. o \in Order /\ order[o].status # "none" /\ item[o] # "none" /\ order[o] \in OrderRow
      /\ item \in [Order -> Life!Stage]
  <2>1. o \in Order
    BY DEF RefundRow
  <2>2. order[o].status # "none"
    BY DEF RefundInv, RefundFits
  <2> QED BY <2>1, <2>2 DEF RefundInv, OrdersFit, TypeOK
<1> HIDE DEF saved
<1>4. Handed(synced) /\ synced \in [Order -> OrderRow]
  BY <1>2, <1>3, HandedSynced DEF Handed
<1>5. /\ closed \in [Order -> OrderRow] /\ closed[o].status \in Ended
      /\ \A x \in Order \ {o} : closed[x] = synced[x]
  <2>1. synced[o] \in OrderRow /\ synced[o].status # "none"
    BY <1>3, <1>4 DEF Handed, Ended
  <2> DEFINE st == IF synced[o].status \in Live THEN "CLOSED" ELSE synced[o].status
  <2>2. st \in Ended
    BY <2>1 DEF OrderRow, Ended
  <2>3. [synced[o] EXCEPT !.status = st] \in OrderRow
        /\ [synced[o] EXCEPT !.status = st].status = st
    BY <2>1, <2>2 DEF OrderRow, Ended
  <2>4. closed = [synced EXCEPT ![o] = [synced[o] EXCEPT !.status = st]]
    BY <1>3, <1>4
  <2> HIDE DEF st, synced
  <2> QED BY <1>3, <1>4, <2>2, <2>3, <2>4
<1>6. /\ items \in [Order -> Life!Stage]
      /\ items[o] = item[o] \/ Life!CanBecome(item[o], items[o])
      /\ items[o] # "none"
      /\ row.good \in Unsent => items[o] = "cancelled"
      /\ row.good \notin Unsent => items = item
      /\ \A x \in Order \ {o} : items[x] = item[x]
  BY <1>1, <1>3 DEF Life!CanBecome, Life!Stage
<1>7. rest \in Int
  <2>1. synced[o] \in OrderRow /\ row.num \in Nat
    BY <1>3, <1>4 DEF RefundRow
  <2>2. synced[o].num \in Nat
    BY <2>1 DEF OrderRow
  <2> QED BY <2>1, <2>2 DEF Rest
<1> HIDE DEF synced, rest, closed, items
<1> DEFINE Done == /\ order' \in [Order -> OrderRow] /\ item' \in [Order -> Life!Stage]
                   /\ order'[o].status \in Ended /\ item'[o] = items[o]
                   /\ trade' = TradeStatus(order')
                   /\ \A x \in Order : Moves(x)
<1>8. Done
  <2>1. CASE Save(closed) /\ item' = items
    <3>1. order' = closed /\ trade' = TradeStatus(order')
      BY <2>1 DEF Save
    <3>2. ASSUME NEW x \in Order PROVE Moves(x)
      <4>1. CASE x = o
        BY <1>3, <1>5, <1>6, <2>1, <3>1, <4>1 DEF Moves
      <4>2. CASE x # o
        BY <1>4, <1>5, <1>6, <2>1, <3>1, <4>2 DEF Moves, Handed
      <4> QED BY <4>1, <4>2
    <3> QED BY <1>5, <1>6, <2>1, <3>1, <3>2
  <2>2. ASSUME rest > 0, NEW new \in Order, NEW stage \in {"waiting", "assigned"},
               order[new].status = "none",
               Save([closed EXCEPT ![new] =
                       [status |-> "SEND", num |-> rest, root |-> order[o].root,
                        refund_status |-> "none"]]),
               item' = [items EXCEPT ![new] = stage]
        PROVE  Done
    <3> DEFINE added == [status |-> "SEND", num |-> rest, root |-> order[o].root,
                         refund_status |-> "none"]
    <3>1. new # o /\ item[new] = "none"
      BY <1>3, <2>2 DEF RefundInv, OrdersFit
    <3>2. added \in OrderRow /\ added.status = "SEND"
      BY <1>3, <1>7, <2>2 DEF OrderRow, Live
    <3> HIDE DEF added
    <3>3. order' = [closed EXCEPT ![new] = added] /\ trade' = TradeStatus(order')
      BY <2>2 DEF Save, added
    <3>4. order' \in [Order -> OrderRow] /\ order'[new] = added
          /\ \A x \in Order \ {new} : order'[x] = closed[x]
      BY <1>5, <3>2, <3>3
    <3>5. item' \in [Order -> Life!Stage] /\ item'[new] = stage
          /\ \A x \in Order \ {new} : item'[x] = items[x]
      BY <1>6, <2>2 DEF Life!Stage
    <3>6. ASSUME NEW x \in Order PROVE Moves(x)
      <4>1. CASE x = o
        BY <1>3, <1>5, <1>6, <3>1, <3>4, <3>5, <4>1 DEF Moves
      <4>2. CASE x = new
        BY <2>2, <3>1, <3>2, <3>4, <3>5, <4>2 DEF Moves, Life!CanBecome
      <4>3. CASE x # o /\ x # new
        BY <1>4, <1>5, <1>6, <3>4, <3>5, <4>3 DEF Moves, Handed
      <4> QED BY <4>1, <4>2, <4>3
    <3> QED BY <1>3, <1>5, <3>1, <3>3, <3>4, <3>5, <3>6
  <2> QED BY <1>1, <2>1, <2>2
<1>9. OrdersMove /\ trade' \in Live \cup {"FINISHED", "CLOSED"}
  <2>1. \E x \in Order : order'[x].status # "none"
    BY <1>3, <1>8 DEF Ended
  <2> QED BY <1>8, <2>1, TradeFollows DEF OrdersMove, TradeMoves
<1>10. /\ refund' \in [Refund -> RefundRow \cup {NoRow}] /\ refund'[r] = saved
       /\ \A q \in Refund \ {r} : refund'[q] = refund[q]
  BY <1>1, <1>2 DEF RefundInv, TypeOK
<1>11. Justified(row, item')
  BY <1>3, <1>9, JustifiedStays
<1>12. Justified(refund'[r], item')
  BY <1>2, <1>10, <1>11 DEF Justified
<1>13. row.sid \/ item'[o] \in {"sent", "cancelled"}
  BY <1>6, <1>8, <1>11 DEF Justified, RefundRow, Unsent
<1> QED BY <1>2, <1>8, <1>9, <1>10, <1>12, <1>13 DEF Confirmed, Ended

-----------------------------------------------------------------------------
(* The other writes of a row.                                              *)

OrderTypes == order' \in [Order -> OrderRow] /\ trade' \in Live \cup {"FINISHED", "CLOSED"}

LEMMA HandedSaved ==
    ASSUME RefundInv, NEW os, Handed(os), Save(os), item' = item
    PROVE  OrderTypes /\ OrdersMove
<1>1. \E x \in Order : os[x].status # "none"
  BY DEF Handed, RefundInv, OrdersFit, Ended
<1>2. \A x \in Order : Moves(x)
  BY DEF Save, Handed, Moves
<1>3. order' = os /\ os \in [Order -> OrderRow] /\ trade' = TradeStatus(os)
  BY DEF Save, Handed
<1> QED BY <1>1, <1>2, <1>3, TradeFollows DEF OrdersMove, TradeMoves, OrderTypes

LEMMA OrderIsHanded == ASSUME RefundInv PROVE Handed(order)
BY DEF RefundInv, TypeOK, Handed

\* A refund is made or changed, and is no success.
LEMMA RowWritten ==
    ASSUME RefundInv, OrdersMove, NEW r \in Refund, NEW row \in RefundRow,
           refund' = [refund EXCEPT ![r] = row], log' = log,
           order[row.order].status # "none", row.status # "SUCCESS", Justified(row, item),
           Made(r) => refund[r].status # "SUCCESS" /\ row.order = refund[r].order,
           \A q \in Refund \ {r} : queued'[q] = queued[q]
    PROVE  /\ refund' \in [Refund -> RefundRow \cup {NoRow}]
           /\ \A q \in Refund : RefundFits(q)'
           /\ \A q \in Refund : Made(q) => Made(q)' /\ refund'[q].order = refund[q].order
<1>1. refund \in [Refund -> RefundRow \cup {NoRow}] /\ row.order \in Order /\ row.order # 0
  BY DEF RefundInv, TypeOK, RefundRow, Order
<1>2. refund'[r] = row /\ \A q \in Refund \ {r} : refund'[q] = refund[q]
  BY <1>1
<1>3. refund' \in [Refund -> RefundRow \cup {NoRow}]
  BY <1>1
<1>4. log[r] = 0
  BY DEF RefundInv, RefundFits, TypeOK
<1>5. order'[row.order].status # "none" /\ Justified(row, item')
  BY <1>1, OrdersStay, JustifiedStays DEF OrdersMove, RefundInv
<1>6. RefundFits(r)'
  BY <1>1, <1>2, <1>4, <1>5 DEF RefundFits, Made
<1>7. \A q \in Refund \ {r} : RefundFits(q)'
  BY <1>2, RefundKept
<1> QED BY <1>1, <1>2, <1>3, <1>6, <1>7 DEF Made

\* Copies nobody touches.
LEMMA CopiesKept ==
    ASSUME RefundInv, OrdersMove, approving' = approving,
           \A r \in Refund : Made(r) => /\ Made(r)' /\ refund'[r].order = refund[r].order
                                        /\ queued'[r] = queued[r]
    PROVE  \A a \in Approver : CopyFits(a)'
<1> SUFFICES ASSUME NEW a \in Approver PROVE CopyFits(a)'
  OBVIOUS
<1>1. approving[a] # Idle =>
        approving[a].id \in Refund /\ Made(approving[a].id)
        /\ (a = "task" => queued[approving[a].id] > 0)
  BY DEF RefundInv, CopyFits, TypeOK, Copy
<1> QED BY <1>1, CopyKept

\* A refund is made.
LEMMA MakeKeeps ==
    ASSUME RefundInv, NEW r \in Refund, NEW row \in RefundRow, Make(r, row),
           order[row.order].status # "none", row.status # "SUCCESS", Justified(row, item),
           item' = item, log' = log
    PROVE  /\ OrderTypes /\ OrdersMove
           /\ refund' \in [Refund -> RefundRow \cup {NoRow}]
           /\ queued' \in [Refund -> 0 .. MaxRuns]
           /\ \A q \in Refund : RefundFits(q)'
           /\ \A q \in Refund : Made(q) => /\ Made(q)' /\ refund'[q].order = refund[q].order
                                           /\ queued'[q] = queued[q]
<1>1. ~Made(r) /\ refund' = [refund EXCEPT ![r] = row] /\ queued' = [queued EXCEPT ![r] = MaxRuns]
      /\ Save(Synced(order, row))
  BY DEF Make
<1>2. OrderTypes /\ OrdersMove
  BY <1>1, OrderIsHanded, HandedSynced, HandedSaved
<1>3. queued' \in [Refund -> 0 .. MaxRuns] /\ \A q \in Refund \ {r} : queued'[q] = queued[q]
  BY <1>1, RefundAssumption DEF RefundInv, TypeOK
<1> QED BY <1>1, <1>2, <1>3, RowWritten

\* A refund that is no success changes its status, and is none after.
LEMMA RestatusKeeps ==
    ASSUME RefundInv, NEW r \in Refund, Made(r), refund[r].status # "SUCCESS",
           NEW st \in {"REFUSED", "CLOSED"},
           refund' = [refund EXCEPT ![r].status = st], Save(Synced(order, refund'[r])),
           UNCHANGED <<item, booked, log, goods, queued, approving>>
    PROVE  RefundInv'
<1> DEFINE row == [refund[r] EXCEPT !.status = st]
<1>1. refund[r] \in RefundRow /\ refund \in [Refund -> RefundRow \cup {NoRow}]
  BY DEF RefundInv, TypeOK, Made, NoRow
<1>2. row \in RefundRow /\ row.order = refund[r].order /\ row.status = st
      /\ row.good = refund[r].good /\ row.sid = refund[r].sid
  BY <1>1 DEF RefundRow
<1>3. refund' = [refund EXCEPT ![r] = row] /\ refund'[r] = row
  BY <1>1
<1> HIDE DEF row
<1>4. order[row.order].status # "none" /\ Justified(row, item)
  BY <1>2 DEF RefundInv, RefundFits, Justified
<1>5. Save(Synced(order, row))
  BY <1>3
<1>6. OrderTypes /\ OrdersMove
  BY <1>2, <1>4, <1>5, OrderIsHanded, HandedSynced, HandedSaved
<1>7. /\ refund' \in [Refund -> RefundRow \cup {NoRow}]
      /\ \A q \in Refund : RefundFits(q)'
      /\ \A q \in Refund : Made(q) => Made(q)' /\ refund'[q].order = refund[q].order
  BY <1>2, <1>3, <1>4, <1>6, RowWritten
<1>8. OrdersFit' /\ \A a \in Approver : CopyFits(a)'
  BY <1>6, <1>7, OrdersKept, CopiesKept DEF RefundInv
<1>9. TypeOK'
  BY <1>6, <1>7 DEF RefundInv, TypeOK, OrderTypes
<1> QED BY <1>7, <1>8, <1>9 DEF RefundInv

-----------------------------------------------------------------------------
(* Paying and confirming.                                                  *)

\* The rows after refund_confirm, whatever was paid.
LEMMA ConfirmedKeeps ==
    ASSUME RefundInv, NEW r \in Refund, Made(r), Confirmed(r),
           \A q \in Refund \ {r} : log'[q] = log[q] /\ (Made(q) \/ queued'[q] = queued[q])
    PROVE  /\ \A q \in Refund : RefundFits(q)'
           /\ \A q \in Refund : Made(q) => Made(q)' /\ refund'[q].order = refund[q].order
<1> DEFINE o == refund[r].order
<1>1. o \in Order /\ o # 0 /\ order[o].status # "none"
  BY DEF RefundInv, RefundFits, TypeOK, Made, NoRow, RefundRow
<1>2. order'[o].status # "none"
  BY <1>1, OrdersStay DEF RefundInv, Confirmed, OrdersMove
<1>3. RefundFits(r)' /\ Made(r)'
  BY <1>1, <1>2 DEF Confirmed, RefundFits, Made
<1>4. ASSUME NEW q \in Refund \ {r}
      PROVE  RefundFits(q)' /\ (Made(q) => Made(q)')
  <2>1. refund'[q] = refund[q] /\ OrdersMove
    BY DEF Confirmed
  <2> QED BY <2>1, RefundKept DEF Made
<1> QED BY <1>3, <1>4 DEF Confirmed

\* A copy of a refund that fits may be saved as it is.
CopyOf(c, r) == /\ c \in Copy /\ c.row.order = refund[r].order /\ Justified(c.row, item)
                /\ c.post = "sent" => Post(c.row.order)

LEMMA StampedFits ==
    ASSUME RefundInv, NEW r \in Refund, NEW c, CopyOf(c, r)
    PROVE  /\ Stamped(c) \in RefundRow /\ Stamped(c).order = refund[r].order
           /\ Justified(Stamped(c), item)
<1> DEFINE sent == IF c.post = "unread" THEN Post(c.row.order) ELSE c.post = "sent"
           good == IF ~sent THEN c.row.good ELSE IF c.row.sid THEN "RETURNED" ELSE "RECEIVED"
<1>1. c.row \in RefundRow /\ c.row.order = refund[r].order /\ Justified(c.row, item)
      /\ (sent => item[c.row.order] = "sent")
  BY DEF CopyOf, Copy, Post
<1>2. Stamped(c) = [c.row EXCEPT !.good = good]
  BY <1>1 DEF Stamped, RefundRow
<1>3. good \in Unsent \cup {"RECEIVED", "RETURNED"}
      /\ (good = "RECEIVED" => item[c.row.order] = "sent")
      /\ (good = "RETURNED" => c.row.sid \/ item[c.row.order] \in {"sent", "cancelled"})
  BY <1>1 DEF RefundRow, Justified
<1> HIDE DEF good, sent
<1> QED BY <1>1, <1>2, <1>3 DEF RefundRow, Justified

LEMMA ConfirmKeeps ==
    ASSUME RefundInv, NEW r \in Refund, Made(r), NEW row \in RefundRow,
           row.order = refund[r].order, Justified(row, item), NEW os, Handed(os),
           RefundConfirm(r, row, os)
    PROVE  Confirmed(r)
BY ConfirmAgain, ConfirmFirst

LEMMA PayKeeps ==
    ASSUME RefundInv, NEW r \in Refund, Made(r), NEW c, CopyOf(c, r), Pay(r, c)
    PROVE  /\ Confirmed(r) /\ log' \in [Refund -> Nat]
           /\ \A q \in Refund \ {r} : log'[q] = log[q]
<1> DEFINE row == Stamped(c)
<1>1. RefundConfirm(r, row, Synced(order, row)) /\ log' = [log EXCEPT ![r] = @ + row.num]
  BY DEF Pay
<1>2. row \in RefundRow /\ row.order = refund[r].order /\ Justified(row, item)
  BY StampedFits
<1> HIDE DEF row
<1>3. order[row.order].status # "none"
  BY <1>2 DEF RefundInv, RefundFits
<1>4. Handed(Synced(order, row))
  BY <1>2, <1>3, OrderIsHanded, HandedSynced
<1>5. Confirmed(r)
  BY <1>1, <1>2, <1>4, ConfirmKeeps
<1>6. row.num \in Nat
  BY <1>2 DEF RefundRow
<1> QED BY <1>1, <1>5, <1>6 DEF RefundInv, TypeOK

\* What an approver loads is such a copy.
LEMMA LoadedFits ==
    ASSUME RefundInv, NEW r \in Refund, Made(r), NEW fast \in BOOLEAN
    PROVE  CopyOf(Loaded(r, fast), r) /\ Loaded(r, fast).id = r /\ Loaded(r, fast) # Idle
<1>1. refund[r] \in RefundRow /\ Justified(refund[r], item)
  BY DEF RefundInv, RefundFits, TypeOK, Made, NoRow
<1>2. Loaded(r, fast) \in Copy /\ Loaded(r, fast).row = refund[r] /\ Loaded(r, fast).id = r
      /\ (Loaded(r, fast).post = "sent" => Post(refund[r].order))
  BY <1>1 DEF Loaded, Copy
<1>3. r # 0
  BY DEF Refund
<1> QED BY <1>1, <1>2, <1>3 DEF CopyOf, Idle

\* An approver that begins holds a copy that fits; nobody else's changes.
LEMMA BeginKeeps ==
    ASSUME RefundInv, NEW a \in Approver, NEW r \in Refund, Made(r), NEW fast \in BOOLEAN,
           BeginApprove(a, r, fast), a = "task" => queued[r] > 0,
           UNCHANGED <<order, trade, item, booked, refund, log, goods, queued>>
    PROVE  RefundInv'
<1> DEFINE c == Loaded(r, fast)
<1>1. approving' = [approving EXCEPT ![a] = c] /\ CopyOf(c, r) /\ c.id = r
  BY LoadedFits DEF BeginApprove
<1> HIDE DEF c
<1>2. TypeOK' /\ approving'[a] = c /\ \A b \in Approver \ {a} : approving'[b] = approving[b]
  BY <1>1 DEF RefundInv, TypeOK, CopyOf
<1>3. CopyFits(a)'
  BY <1>1, <1>2 DEF CopyOf, CopyFits, Made, Post
<1>4. \A b \in Approver \ {a} : CopyFits(b)'
  BY <1>2 DEF RefundInv, CopyFits, Made, Post
<1>5. OrdersFit' /\ \A q \in Refund : RefundFits(q)'
  BY DEF RefundInv, OrdersFit, RefundFits, Made
<1> QED BY <1>2, <1>3, <1>4, <1>5 DEF RefundInv

-----------------------------------------------------------------------------
(* One lemma per operation.                                                *)

\* A step of the orders that leaves refunds and copies alone.
LEMMA OrdersOnly ==
    ASSUME RefundInv, OrdersMove, OrderTypes, item' \in [Order -> Life!Stage],
           booked' \in SUBSET Order, UNCHANGED <<refund, log, goods, queued, approving>>
    PROVE  RefundInv'
<1>1. \A q \in Refund : RefundFits(q)'
  BY RefundKept
<1>2. \A a \in Approver : CopyFits(a)'
  BY CopiesKept DEF Made
<1>3. TypeOK'
  BY DEF RefundInv, TypeOK, OrderTypes
<1> QED BY <1>1, <1>2, <1>3, OrdersKept DEF RefundInv

\* One order changes its status, and its item with it.
LEMMA StatusMoves ==
    ASSUME RefundInv, NEW o \in Order, NEW st \in {"CONFIRM", "SIGNED", "FINISHED"},
           order' = [order EXCEPT ![o].status = st],
           NEW stage \in Life!Stage, item' = [item EXCEPT ![o] = stage],
           stage = item[o] \/ Life!CanBecome(item[o], stage),
           order[o].status # "none",
           st # "FINISHED" => order[o].status \in {"SEND", "CONFIRM"} /\ stage = "sent"
    PROVE  order' \in [Order -> OrderRow] /\ \A x \in Order : Moves(x)
<1>1. order \in [Order -> OrderRow] /\ order[o] \in OrderRow /\ item \in [Order -> Life!Stage]
  BY DEF RefundInv, TypeOK
<1> DEFINE row == [order[o] EXCEPT !.status = st]
<1>2. row \in OrderRow /\ row.status = st
  BY <1>1 DEF OrderRow, Live
<1>3. order' = [order EXCEPT ![o] = row]
  BY <1>1
<1> HIDE DEF row
<1>4. ASSUME NEW x \in Order PROVE Moves(x)
  <2>1. CASE x = o
    BY <1>1, <1>2, <1>3, <2>1 DEF Moves, Ended
  <2>2. CASE x # o
    BY <1>1, <1>3, <2>2 DEF Moves
  <2> QED BY <2>1, <2>2
<1> QED BY <1>1, <1>2, <1>3, <1>4

LEMMA SomeOrder == ASSUME RefundInv, \A x \in Order : Moves(x)
                   PROVE  \E x \in Order : order'[x].status # "none"
BY OrdersStay DEF RefundInv, OrdersFit

LEMMA WarehouseKeeps ==
    ASSUME RefundInv, NEW o \in Order, NEW stage \in Life!Stage, Warehouse(o, stage)
    PROVE  RefundInv'
<1>1. /\ item[o] # "none" /\ Life!CanBecome(item[o], stage)
      /\ item' = [item EXCEPT ![o] = stage]
      /\ UNCHANGED <<refund, log, goods, queued, approving>>
      /\ booked' \in SUBSET Order
  BY DEF Warehouse, RefundInv, TypeOK
<1>2. item' \in [Order -> Life!Stage] /\ order[o].status # "none" /\ stage # "none"
  BY <1>1 DEF RefundInv, TypeOK, OrdersFit, Life!CanBecome
<1>3. CASE stage = "sent" /\ order[o].status = "SEND"
  <2>1. Save([order EXCEPT ![o].status = "CONFIRM"])
    BY <1>3 DEF Warehouse
  <2>2. order' \in [Order -> OrderRow] /\ \A x \in Order : Moves(x)
    BY <1>1, <1>3, <2>1, StatusMoves DEF Save
  <2>3. OrdersMove /\ OrderTypes
    BY <2>1, <2>2, SomeOrder, TradeFollows DEF Save, OrdersMove, TradeMoves, OrderTypes
  <2> QED BY <1>1, <1>2, <2>3, OrdersOnly
<1>4. CASE ~(stage = "sent" /\ order[o].status = "SEND")
  <2>1. UNCHANGED <<order, trade>>
    BY <1>4 DEF Warehouse
  <2>2. ASSUME NEW x \in Order PROVE Moves(x)
    <3>1. item'[x] = IF x = o THEN stage ELSE item[x]
      BY <1>1 DEF RefundInv, TypeOK
    <3> QED BY <1>1, <1>2, <2>1, <3>1 DEF Moves
  <2>3. OrdersMove /\ OrderTypes
    BY <2>1, <2>2 DEF OrdersMove, TradeMoves, OrderTypes, RefundInv, OrdersFit, TypeOK
  <2> QED BY <1>1, <1>2, <2>3, OrdersOnly
<1> QED BY <1>3, <1>4

LEMMA BookKeeps == ASSUME RefundInv, NEW o \in Order, Book(o) PROVE RefundInv'
<1>1. UNCHANGED <<order, trade, item, refund, log, goods, queued, approving>>
      /\ booked' \in SUBSET Order
  BY DEF Book, RefundInv, TypeOK
<1>2. OrdersMove /\ OrderTypes /\ item' \in [Order -> Life!Stage]
  BY <1>1 DEF OrdersMove, Moves, TradeMoves, OrderTypes, RefundInv, OrdersFit, TypeOK
<1> QED BY <1>1, <1>2, OrdersOnly

LEMMA SignKeeps == ASSUME RefundInv, NEW o \in Order, ConfirmSign(o) PROVE RefundInv'
<1>1. /\ order[o].status = "CONFIRM" /\ Save([order EXCEPT ![o].status = "SIGNED"])
      /\ UNCHANGED <<item, booked, refund, log, goods, queued, approving>>
  BY DEF ConfirmSign
<1>2. item[o] = "sent" /\ item' = [item EXCEPT ![o] = item[o]] /\ item[o] \in Life!Stage
      /\ booked' \in SUBSET Order /\ item' \in [Order -> Life!Stage]
  BY <1>1 DEF RefundInv, OrdersFit, TypeOK
<1>3. order' \in [Order -> OrderRow] /\ \A x \in Order : Moves(x)
  BY <1>1, <1>2, StatusMoves DEF Save
<1>4. OrdersMove /\ OrderTypes
  BY <1>1, <1>3, SomeOrder, TradeFollows DEF Save, OrdersMove, TradeMoves, OrderTypes
<1> QED BY <1>1, <1>2, <1>4, OrdersOnly

LEMMA FinishKeeps == ASSUME RefundInv, NEW o \in Order, Finish(o) PROVE RefundInv'
<1>1. /\ order[o].status \in {"CONFIRM", "SIGNED"}
      /\ order' = [order EXCEPT ![o].status = "FINISHED"]
      /\ trade' = IF \A q \in Order : order'[q].status \in {"none", "CLOSED", "FINISHED"}
                  THEN "FINISHED" ELSE TradeStatus(order')
      /\ UNCHANGED <<item, booked, refund, log, goods, queued, approving>>
  BY DEF Finish
<1>2. item' = [item EXCEPT ![o] = item[o]] /\ item[o] \in Life!Stage
      /\ booked' \in SUBSET Order /\ item' \in [Order -> Life!Stage]
  BY <1>1 DEF RefundInv, TypeOK
<1>3. order' \in [Order -> OrderRow] /\ \A x \in Order : Moves(x)
  BY <1>1, <1>2, StatusMoves
<1>4. \E x \in Order : order'[x].status # "none"
  BY <1>3, SomeOrder
<1>5. OrdersMove /\ OrderTypes
  <2>1. CASE \A q \in Order : order'[q].status \in {"none", "CLOSED", "FINISHED"}
    <3>1. trade' = "FINISHED" /\ ~ \E q \in Order : order'[q].status = "SEND"
      BY <1>1, <2>1
    <3> QED BY <1>3, <3>1 DEF OrdersMove, TradeMoves, OrderTypes
  <2>2. CASE ~ \A q \in Order : order'[q].status \in {"none", "CLOSED", "FINISHED"}
    <3>1. trade' = TradeStatus(order')
      BY <1>1, <2>2
    <3> QED BY <1>3, <1>4, <3>1, TradeFollows DEF OrdersMove, TradeMoves, OrderTypes
  <2> QED BY <2>1, <2>2
<1> QED BY <1>1, <1>2, <1>5, OrdersOnly

LEMMA LogisticKeeps == ASSUME RefundInv, NEW o \in Order, ModifyLogistic(o) PROVE RefundInv'
<1> DEFINE r   == FirstOf({o})
           row == [refund[r] EXCEPT !.status = "GOODS", !.good = "RETURNED", !.sid = TRUE]
           os  == [order EXCEPT ![o].refund_status = "GOODS"]
<1>1. /\ r # 0 /\ refund[r].status \notin {"SUCCESS", "CLOSED"}
      /\ refund' = [refund EXCEPT ![r].status = "GOODS", ![r].good = "RETURNED", ![r].sid = TRUE]
      /\ Save(os) /\ UNCHANGED <<item, booked, log, goods, queued, approving>>
  BY DEF ModifyLogistic
<1>2. r \in Refund /\ refund[r].order = o
  BY <1>1, FirstIsMade DEF RefundInv
<1> HIDE DEF r
<1>3. /\ refund[r] \in RefundRow /\ refund \in [Refund -> RefundRow \cup {NoRow}] /\ Made(r)
      /\ order[o].status # "none" /\ order \in [Order -> OrderRow]
  BY <1>2 DEF RefundInv, RefundFits, TypeOK, Made, NoRow, Order
<1>4. row \in RefundRow /\ row.order = o /\ row.status = "GOODS" /\ row.good = "RETURNED" /\ row.sid
  BY <1>2, <1>3 DEF RefundRow, Waiting
<1>5. refund' = [refund EXCEPT ![r] = row]
  <2>1. refund' = [[[refund EXCEPT ![r].status = "GOODS"] EXCEPT ![r].good = "RETURNED"]
                     EXCEPT ![r].sid = TRUE]
    BY <1>1
  <2> QED BY <1>2, <1>3, <2>1
<1>6. Handed(os)
  <2>1. [order[o] EXCEPT !.refund_status = "GOODS"] \in OrderRow
        /\ [order[o] EXCEPT !.refund_status = "GOODS"].status = order[o].status
    BY <1>3 DEF OrderRow, Waiting
  <2> QED BY <1>3, <2>1 DEF Handed
<1> HIDE DEF row, os
<1>7. OrderTypes /\ OrdersMove
  BY <1>1, <1>6, HandedSaved
<1>8. Justified(row, item)
  BY <1>4 DEF Justified
<1>9. /\ refund' \in [Refund -> RefundRow \cup {NoRow}]
      /\ \A q \in Refund : RefundFits(q)'
      /\ \A q \in Refund : Made(q) => Made(q)' /\ refund'[q].order = refund[q].order
  <2>1. log' = log /\ order[row.order].status # "none" /\ row.status # "SUCCESS"
        /\ refund[r].status # "SUCCESS" /\ row.order = refund[r].order
        /\ \A q \in Refund \ {r} : queued'[q] = queued[q]
    BY <1>1, <1>2, <1>3, <1>4
  <2> QED BY <1>2, <1>4, <1>5, <1>7, <1>8, <2>1, RowWritten
<1>10. OrdersFit' /\ \A a \in Approver : CopyFits(a)'
  BY <1>1, <1>7, <1>9, OrdersKept, CopiesKept DEF RefundInv
<1>11. TypeOK'
  BY <1>1, <1>7, <1>9 DEF RefundInv, TypeOK, OrderTypes
<1> QED BY <1>9, <1>10, <1>11 DEF RefundInv

\* A new row of an order whose goods are where it says.
LEMMA NewRowFits ==
    ASSUME RefundInv, NEW o \in Order, NEW k \in Nat, NEW good \in Unsent \cup {"RECEIVED"},
           good = "RECEIVED" => item[o] = "sent"
    PROVE  /\ NewRow(o, k, good) \in RefundRow /\ NewRow(o, k, good).order = o
           /\ NewRow(o, k, good).status = "AGREE" /\ Justified(NewRow(o, k, good), item)
BY DEF NewRow, RefundRow, Justified, Waiting, Unsent

\* A refund is made and nobody approves it yet.
LEMMA MadeKeeps ==
    ASSUME RefundInv, NEW r \in Refund, NEW row \in RefundRow, Make(r, row),
           order[row.order].status # "none", row.status # "SUCCESS", Justified(row, item),
           UNCHANGED <<item, booked, log, goods, approving>>
    PROVE  RefundInv'
<1>1. /\ OrderTypes /\ OrdersMove
      /\ refund' \in [Refund -> RefundRow \cup {NoRow}]
      /\ queued' \in [Refund -> 0 .. MaxRuns]
      /\ \A q \in Refund : RefundFits(q)'
      /\ \A q \in Refund : Made(q) => /\ Made(q)' /\ refund'[q].order = refund[q].order
                                      /\ queued'[q] = queued[q]
  BY MakeKeeps
<1>2. OrdersFit' /\ \A a \in Approver : CopyFits(a)'
  BY <1>1, OrdersKept, CopiesKept DEF RefundInv
<1>3. TypeOK'
  BY <1>1 DEF RefundInv, TypeOK, OrderTypes
<1> QED BY <1>1, <1>2, <1>3 DEF RefundInv

LEMMA ApplyKeeps ==
    ASSUME RefundInv, NEW r \in Refund, NEW o \in Order, NEW k \in Nat, Apply(r, o, k)
    PROVE  RefundInv'
<1>1. UNCHANGED <<item, booked, log, goods, approving>>
  BY DEF Apply
<1>2. CASE order[o].status = "SEND" /\ Make(r, NewRow(o, k, "NOT_RECEIVED"))
  BY <1>1, <1>2, NewRowFits, MadeKeeps DEF Unsent
<1>3. CASE order[o].status = "SIGNED"
             /\ Make(r, [NewRow(o, k, "RECEIVED") EXCEPT !.status = "RETURN"])
  <2> DEFINE new == NewRow(o, k, "RECEIVED")
             row == [new EXCEPT !.status = "RETURN"]
  <2>1. item[o] = "sent" /\ order[o].status # "none"
    BY <1>3 DEF RefundInv, OrdersFit
  <2>2. new \in RefundRow /\ new.order = o /\ Justified(new, item)
    BY <2>1, NewRowFits
  <2> HIDE DEF new
  <2>3. row \in RefundRow /\ row.order = o /\ row.status = "RETURN" /\ Justified(row, item)
    BY <2>2 DEF RefundRow, Waiting, Justified
  <2>4. Make(r, row)
    BY <1>3 DEF new
  <2> HIDE DEF row
  <2> QED BY <1>1, <2>1, <2>3, <2>4, MadeKeeps
<1> QED BY <1>2, <1>3 DEF Apply

LEMMA DoRefundKeeps ==
    ASSUME RefundInv, NEW r \in Refund, NEW o \in Order, NEW out_stock \in BOOLEAN,
           DoRefund(r, o, out_stock)
    PROVE  RefundInv'
<1> DEFINE good == IF out_stock THEN "OUT_STOCK"
                   ELSE IF order[o].status = "SEND" THEN "NOT_RECEIVED" ELSE "RECEIVED"
<1>1. /\ order[o].status \in Live /\ Make(r, NewRow(o, order[o].num, good))
      /\ UNCHANGED <<item, booked, log, goods, approving>>
  BY DEF DoRefund
<1>2. good \in Unsent \cup {"RECEIVED"} /\ (good = "RECEIVED" => item[o] = "sent")
      /\ order[o].num \in Nat /\ order[o].status # "none"
  BY <1>1 DEF Unsent, Live, RefundInv, OrdersFit, TypeOK, OrderRow
<1> DEFINE row == NewRow(o, order[o].num, good)
<1> HIDE DEF good
<1>3. row \in RefundRow /\ row.order = o /\ row.status = "AGREE" /\ Justified(row, item)
  BY <1>2, NewRowFits
<1>4. Make(r, row)
  BY <1>1
<1> HIDE DEF row
<1> QED BY <1>1, <1>2, <1>3, <1>4, MadeKeeps

LEMMA LackKeeps ==
    ASSUME RefundInv, NEW r \in Refund, NEW o \in Order, NEW k \in Nat, RefundLack(r, o, k)
    PROVE  RefundInv'
<1>1. CASE FirstOf({o}) = 0
  <2> DEFINE row == NewRow(o, k, "OUT_STOCK")
             c   == [id |-> r, row |-> row, post |-> IF Post(o) THEN "sent" ELSE "unsent"]
  <2>1. /\ order[o].status # "none" /\ Make(r, row) /\ UNCHANGED <<item, booked, log, goods>>
        /\ approving' = approving \/ approving' = [approving EXCEPT !["staff"] = c]
    BY <1>1 DEF RefundLack
  <2>2. row \in RefundRow /\ row.order = o /\ row.status = "AGREE" /\ Justified(row, item)
    <3>1. "OUT_STOCK" \in Unsent \cup {"RECEIVED"} /\ "OUT_STOCK" # "RECEIVED"
      BY DEF Unsent
    <3> QED BY <3>1, NewRowFits
  <2>3. refund' = [refund EXCEPT ![r] = row]
    BY <2>1 DEF Make
  <2> HIDE DEF row
  <2>4. CASE approving' = approving
    BY <2>1, <2>2, <2>4, MadeKeeps
  <2>5. CASE approving' = [approving EXCEPT !["staff"] = c]
    <3>1. /\ OrderTypes /\ OrdersMove
          /\ refund' \in [Refund -> RefundRow \cup {NoRow}]
          /\ queued' \in [Refund -> 0 .. MaxRuns]
          /\ \A q \in Refund : RefundFits(q)'
          /\ \A q \in Refund : Made(q) => /\ Made(q)' /\ refund'[q].order = refund[q].order
                                          /\ queued'[q] = queued[q]
      BY <2>1, <2>2, MakeKeeps
    <3>2. c \in Copy /\ c.id = r /\ c.row = row /\ (c.post = "sent" => Post(o))
      BY <2>2 DEF Copy
    <3> HIDE DEF c
    <3>3. TypeOK' /\ approving'["staff"] = c /\ approving'["task"] = approving["task"]
      BY <2>1, <2>5, <3>1, <3>2 DEF RefundInv, TypeOK, OrderTypes, Approver
    <3>4. refund'[r] = row /\ Made(r)'
      BY <2>2, <2>3 DEF RefundInv, TypeOK, Made, RefundRow, Order
    <3>5. CopyFits("staff")'
      BY <2>1, <2>2, <3>2, <3>3, <3>4, JustifiedStays, <3>1 DEF CopyFits, Made, Post
    <3>6. CopyFits("task")'
      <4>1. approving["task"] # Idle =>
              approving["task"].id \in Refund /\ Made(approving["task"].id)
              /\ queued[approving["task"].id] > 0
        BY DEF RefundInv, CopyFits, TypeOK, Copy, Approver
      <4> QED BY <3>1, <3>3, <4>1, CopyKept DEF Approver
    <3> QED BY <3>1, <3>3, <3>5, <3>6, OrdersKept DEF RefundInv, Approver
  <2> QED BY <2>1, <2>4, <2>5
<1>2. CASE FirstOf({o}) # 0
  <2>1. /\ r = FirstOf({o}) /\ BeginApprove("staff", r, TRUE)
        /\ UNCHANGED <<order, trade, item, booked, refund, log, goods, queued>>
    BY <1>2 DEF RefundLack
  <2>2. Made(r)
    BY <1>2, <2>1, FirstIsMade DEF Made, RefundInv, Order
  <2> QED BY <2>1, <2>2, BeginKeeps DEF Approver
<1> QED BY <1>1, <1>2

LEMMA AdminKeeps == ASSUME RefundInv, NEW r \in Refund, AdminApprove(r) PROVE RefundInv'
BY BeginKeeps DEF AdminApprove, Approver

LEMMA RunKeeps == ASSUME RefundInv, NEW r \in Refund, RunTask(r) PROVE RefundInv'
<1>1. /\ queued[r] > 0 /\ approving["task"] = Idle
      /\ UNCHANGED <<order, trade, item, booked, refund, log, goods>>
  BY DEF RunTask, Attempt
<1>2. Made(r)
  BY <1>1 DEF RefundInv, RefundFits
<1>3. CASE BeginApprove("task", r, TRUE) /\ UNCHANGED queued
  BY <1>1, <1>2, <1>3, BeginKeeps DEF Approver
<1>4. ASSUME NEW n \in 0 .. MaxRuns, queued' = [queued EXCEPT ![r] = n], UNCHANGED approving
      PROVE  RefundInv'
  <2>1. TypeOK' /\ \A q \in Refund \ {r} : queued'[q] = queued[q]
    BY <1>1, <1>4 DEF RefundInv, TypeOK
  <2>2. \A q \in Refund : RefundFits(q)'
    BY <1>1, <1>2, <2>1 DEF RefundInv, RefundFits, Made
  <2>3. \A a \in Approver : CopyFits(a)'
    BY <1>1, <1>4 DEF RefundInv, CopyFits, Made, Post, Approver
  <2>4. OrdersFit'
    BY <1>1 DEF RefundInv, OrdersFit
  <2> QED BY <2>1, <2>2, <2>3, <2>4 DEF RefundInv
<1>5. queued[r] - 1 \in 0 .. MaxRuns /\ 0 \in 0 .. MaxRuns
  BY <1>1, RefundAssumption DEF RefundInv, TypeOK
<1> QED BY <1>3, <1>4, <1>5 DEF RunTask, Attempt

LEMMA CommitKeeps ==
    ASSUME RefundInv, NEW a \in Approver, NEW r \in Refund, Commit(a, r)
    PROVE  RefundInv'
<1> DEFINE c == approving[a]
<1>1. /\ c.id = r /\ approving' = [approving EXCEPT ![a] = Idle] /\ UNCHANGED <<booked, goods>>
      /\ \/ queued' = queued
         \/ a = "task" /\ queued' = [queued EXCEPT ![r] = 0]
         \/ a = "task" /\ queued' = [queued EXCEPT ![r] = @ - 1]
      /\ Pay(r, c) \/ UNCHANGED <<order, trade, item, refund, log>>
  BY DEF Commit
<1>2. c # Idle /\ Made(r) /\ CopyOf(c, r) /\ (a = "task" => queued[r] > 0)
  BY <1>1 DEF RefundInv, CopyFits, CopyOf, TypeOK, Idle, Refund
<1>3. /\ approving' \in [Approver -> Copy \cup {Idle}] /\ approving'[a] = Idle
      /\ \A b \in Approver \ {a} : approving'[b] = approving[b]
  BY <1>1 DEF RefundInv, TypeOK
<1>4. /\ queued' \in [Refund -> 0 .. MaxRuns]
      /\ \A q \in Refund \ {r} : queued'[q] = queued[q]
      /\ a = "staff" => queued' = queued
  BY <1>1, <1>2, RefundAssumption DEF RefundInv, TypeOK
<1> HIDE DEF c
<1>5. /\ OrdersMove /\ TypeOK'
      /\ \A q \in Refund : RefundFits(q)'
      /\ \A q \in Refund : Made(q) => Made(q)' /\ refund'[q].order = refund[q].order
  <2>1. CASE Pay(r, c)
    <3>1. /\ Confirmed(r) /\ log' \in [Refund -> Nat]
          /\ \A q \in Refund \ {r} : log'[q] = log[q]
      BY <1>2, <2>1, PayKeeps
    <3>2. /\ \A q \in Refund : RefundFits(q)'
          /\ \A q \in Refund : Made(q) => Made(q)' /\ refund'[q].order = refund[q].order
      BY <1>2, <1>4, <3>1, ConfirmedKeeps
    <3> QED BY <1>1, <1>3, <1>4, <3>1, <3>2 DEF Confirmed, RefundInv, TypeOK
  <2>2. CASE UNCHANGED <<order, trade, item, refund, log>>
    <3>1. OrdersMove
      BY <2>2 DEF OrdersMove, Moves, TradeMoves, RefundInv, OrdersFit
    <3>2. \A q \in Refund : RefundFits(q)'
      BY <1>2, <1>4, <2>2, <3>1, RefundKept
    <3>3. TypeOK'
      BY <1>1, <1>3, <1>4, <2>2 DEF RefundInv, TypeOK
    <3> QED BY <2>2, <3>1, <3>2, <3>3 DEF Made
  <2> QED BY <1>1, <2>1, <2>2
<1>6. CopyFits(a)'
  BY <1>3 DEF CopyFits
<1>7. ASSUME NEW b \in Approver \ {a} PROVE CopyFits(b)'
  <2>1. b = "task" => queued' = queued
    BY <1>4 DEF Approver
  <2>2. b = "task" /\ approving[b] # Idle => queued'[approving[b].id] > 0
    BY <2>1 DEF RefundInv, CopyFits
  <2> QED BY <1>3, <1>5, <2>2, CopyKept
<1> QED BY <1>5, <1>6, <1>7, OrdersKept DEF RefundInv

LEMMA UnpackKeeps ==
    ASSUME RefundInv, NEW b \in Bought, NEW conform \in BOOLEAN, UnpackReturn(b, conform)
    PROVE  RefundInv'
<1> DEFINE r == FirstOf(OrdersOf(b))
<1>1. /\ UNCHANGED <<booked, queued, approving>> /\ goods' = goods \cup {b}
      /\ \/ r # 0 /\ Pay(r, Loaded(r, TRUE))
         \/ UNCHANGED <<order, trade, item, refund, log>>
  BY DEF UnpackReturn
<1>2. goods' \in SUBSET Bought
  BY <1>1 DEF RefundInv, TypeOK
<1>3. /\ OrdersMove /\ TypeOK'
      /\ \A q \in Refund : RefundFits(q)'
      /\ \A q \in Refund : Made(q) => Made(q)' /\ refund'[q].order = refund[q].order
  <2>1. CASE r # 0 /\ Pay(r, Loaded(r, TRUE))
    <3>1. r \in Refund /\ Made(r)
      <4>1. r \in Refund /\ refund[r].order \in OrdersOf(b)
        BY <2>1, FirstIsMade DEF RefundInv
      <4> QED BY <4>1 DEF OrdersOf, Order, Made
    <3> DEFINE c == Loaded(r, TRUE)
    <3>2. CopyOf(c, r) /\ Pay(r, c)
      BY <2>1, <3>1, LoadedFits
    <3> HIDE DEF c, r
    <3>3. /\ Confirmed(r) /\ log' \in [Refund -> Nat]
          /\ \A q \in Refund \ {r} : log'[q] = log[q]
      BY <3>1, <3>2, PayKeeps
    <3>4. /\ \A q \in Refund : RefundFits(q)'
          /\ \A q \in Refund : Made(q) => Made(q)' /\ refund'[q].order = refund[q].order
      BY <1>1, <3>1, <3>3, ConfirmedKeeps
    <3> QED BY <1>1, <1>2, <3>3, <3>4 DEF Confirmed, RefundInv, TypeOK
  <2>2. CASE UNCHANGED <<order, trade, item, refund, log>>
    <3>1. OrdersMove
      BY <2>2 DEF OrdersMove, Moves, TradeMoves, RefundInv, OrdersFit
    <3> QED BY <1>1, <1>2, <2>2, <3>1 DEF RefundInv, RefundFits, TypeOK, Made
  <2> QED BY <1>1, <2>1, <2>2
<1>4. \A a \in Approver : CopyFits(a)'
  BY <1>1, <1>3, CopiesKept
<1> QED BY <1>3, <1>4, OrdersKept DEF RefundInv

LEMMA RefuseKeeps == ASSUME RefundInv, NEW r \in Refund, RefundRefuse(r) PROVE RefundInv'
BY RestatusKeeps DEF RefundRefuse, Waiting

LEMMA CloseKeeps == ASSUME RefundInv, NEW r \in Refund, CloseRefund(r) PROVE RefundInv'
<1>1. refund[r].status # "SUCCESS"
  BY DEF CloseRefund
<1> QED BY <1>1, RestatusKeeps DEF CloseRefund

LEMMA NoticeKeeps ==
    ASSUME RefundInv, NEW r \in Refund, NEW conform \in BOOLEAN, WarehouseNotice(r, conform)
    PROVE  RefundInv'
<1>1. CASE ~conform
  BY <1>1, RestatusKeeps DEF WarehouseNotice, Waiting
<1>2. CASE conform
  <2>1. /\ Made(r) /\ RefundConfirm(r, refund[r], order)
        /\ UNCHANGED <<booked, log, goods, queued, approving>>
    BY <1>2 DEF WarehouseNotice
  <2>2. refund[r] \in RefundRow /\ Justified(refund[r], item)
    BY <2>1 DEF RefundInv, RefundFits, TypeOK, Made, NoRow
  <2>3. Confirmed(r)
    BY <2>1, <2>2, OrderIsHanded, ConfirmKeeps
  <2>4. /\ \A q \in Refund : RefundFits(q)'
        /\ \A q \in Refund : Made(q) => Made(q)' /\ refund'[q].order = refund[q].order
    BY <2>1, <2>3, ConfirmedKeeps
  <2>5. OrdersFit' /\ TypeOK' /\ \A a \in Approver : CopyFits(a)'
    <3>1. TypeOK'
      BY <2>1, <2>3 DEF Confirmed, RefundInv, TypeOK
    <3> QED BY <2>1, <2>3, <2>4, <3>1, OrdersKept, CopiesKept DEF Confirmed, RefundInv
  <2> QED BY <2>4, <2>5 DEF RefundInv
<1> QED BY <1>1, <1>2

-----------------------------------------------------------------------------
(* The theorems.                                                           *)

LEMMA InitRefund == Init => RefundInv
<1> SUFFICES ASSUME Init PROVE RefundInv
  OBVIOUS
<1>0. Bought \subseteq Order /\ Bought # {} /\ Num \in [Bought -> Nat \ {0}] /\ Min(Bought) \in Bought
  <2>1. Bought \in SUBSET Nat
    BY RefundAssumption DEF Order
  <2> QED BY <2>1, MinIsLeast, RefundAssumption
<1>1. order \in [Order -> OrderRow]
  <2>1. ASSUME NEW o \in Order
        PROVE  [status |-> IF o \in Bought THEN "SEND" ELSE "none",
                num |-> IF o \in Bought THEN Num[o] ELSE 0,
                root |-> IF o \in Bought THEN o ELSE Min(Bought), refund_status |-> "none"] \in OrderRow
    BY <1>0 DEF OrderRow, Live
  <2> QED BY <2>1 DEF Init
<1>2. \A o \in Order : order[o].status = IF o \in Bought THEN "SEND" ELSE "none"
  BY DEF Init
<1>3. OrdersFit
  BY <1>0, <1>2 DEF Init, OrdersFit
<1>4. TypeOK
  BY <1>1, RefundAssumption DEF Init, TypeOK, Live, Life!Stage
<1>5. \A r \in Refund : RefundFits(r)
  BY DEF Init, RefundFits, Made, NoRow
<1>6. \A a \in Approver : CopyFits(a)
  BY DEF Init, CopyFits
<1> QED BY <1>3, <1>4, <1>5, <1>6 DEF RefundInv

LEMMA StutterKeeps == ASSUME RefundInv, UNCHANGED vars PROVE RefundInv'
BY DEF RefundInv, TypeOK, OrdersFit, RefundFits, CopyFits, Made, Post, vars

LEMMA RefundStepKeeps == RefundInv /\ [Next]_vars => RefundInv'
<1> SUFFICES ASSUME RefundInv, [Next]_vars PROVE RefundInv'
  OBVIOUS
<1>1. ASSUME NEW o \in Order, OrderStep(o) PROVE RefundInv'
  BY <1>1, WarehouseKeeps, BookKeeps, SignKeeps, FinishKeeps, LogisticKeeps DEF OrderStep
<1>2. ASSUME NEW r \in Refund, NEW o \in Order, RequestStep(r, o) PROVE RefundInv'
  <2>1. \A k \in 1 .. order[o].num : k \in Nat
    OBVIOUS
  <2> QED BY <1>2, <2>1, ApplyKeeps, LackKeeps, DoRefundKeeps DEF RequestStep
<1>3. ASSUME NEW r \in Refund, RefundStep(r) PROVE RefundInv'
  BY <1>3, RefuseKeeps, AdminKeeps, RunKeeps, CommitKeeps, NoticeKeeps, CloseKeeps DEF RefundStep
<1>4. ASSUME NEW b \in Bought, NEW conform \in BOOLEAN, UnpackReturn(b, conform) PROVE RefundInv'
  BY <1>4, UnpackKeeps
<1> QED BY <1>1, <1>2, <1>3, <1>4, StutterKeeps DEF Next

(* Orders, refunds and copies keep their types and fit each other, however *)
(* staff, task, customers and warehouse interleave (SaleRefund, SaleOrder). *)
THEOREM RefundTypes == Spec => []TypeOK
<1>1. RefundInv => TypeOK
  BY DEF RefundInv
<1> QED BY <1>1, InitRefund, RefundStepKeeps, PTL DEF Spec

(* Money that went back has its goods gone or its item cancelled, whatever *)
(* an approver read before (update_good_status, refund_confirm).           *)
THEOREM UnsentCancelled == Spec => []UnsentIsCancelled
<1>1. RefundInv => UnsentIsCancelled
  <2> SUFFICES ASSUME RefundInv, NEW r \in Refund, Returned(r), ~refund[r].sid
               PROVE  item[refund[r].order] \in {"sent", "cancelled"}
    BY DEF UnsentIsCancelled
  <2>1. RefundFits(r) /\ log[r] \in Nat
    BY DEF RefundInv, TypeOK
  <2> QED BY <2>1 DEF RefundFits, Returned
<1> QED BY <1>1, InitRefund, RefundStepKeeps, PTL DEF Spec

(* An order whose money went back is not to be sent any more, and the      *)
(* trade knows whether one of its orders is (refund_confirm,               *)
(* tasks_update_sale_trade_status).                                        *)
THEOREM ReturnedNotSent == Spec => []ReturnedIsNotSent
<1>1. RefundInv => ReturnedIsNotSent
  <2> SUFFICES ASSUME RefundInv PROVE ReturnedIsNotSent
    OBVIOUS
  <2>1. ASSUME NEW r \in Refund, Returned(r) PROVE order[refund[r].order].status # "SEND"
    BY <2>1 DEF RefundInv, RefundFits, Returned
  <2> QED BY <2>1 DEF ReturnedIsNotSent, RefundInv, OrdersFit
<1> QED BY <1>1, InitRefund, RefundStepKeeps, PTL DEF Spec

-----------------------------------------------------------------------------
(* Items move as ItemLife promises.                                        *)

\* One item moves alone.
LEMMA MovesAlone ==
    ASSUME TypeOK, NEW o \in Order, NEW stage \in Life!Stage, Life!CanBecome(item[o], stage),
           item' = [item EXCEPT ![o] = stage]
    PROVE  Life!Next
<1>1. item' = [i \in Order |-> IF i \in {o} THEN stage ELSE item[i]]
  BY DEF TypeOK
<1>2. Life!Move({o}, stage)
  BY <1>1 DEF Life!Move
<1> QED BY <1>2 DEF Life!Next

LEMMA ConfirmLife ==
    ASSUME RefundInv, NEW r \in Refund, Made(r), NEW row \in RefundRow,
           row.order = refund[r].order, NEW os, RefundConfirm(r, row, os)
    PROVE  item' = item \/ Life!Next
<1> DEFINE o     == row.order
           items == IF row.good \in Unsent THEN [item EXCEPT ![o] = "cancelled"] ELSE item
<1>1. o \in Order /\ item[o] # "none" /\ item \in [Order -> Life!Stage] /\ TypeOK
  BY DEF RefundRow, RefundInv, RefundFits, OrdersFit, TypeOK
<1>2. \/ item' = item
      \/ (row.good \in Unsent => item[o] \notin {"sent", "cancelled"}) /\ item' = items
      \/ /\ row.good \in Unsent => item[o] \notin {"sent", "cancelled"}
         /\ \E new \in Order, stage \in {"waiting", "assigned"} :
              order[new].status = "none" /\ item' = [items EXCEPT ![new] = stage]
  BY DEF RefundConfirm, CanConfirm
<1>3. row.good \in Unsent /\ item[o] \notin {"sent", "cancelled"}
        => Life!CanBecome(item[o], "cancelled")
  BY <1>1 DEF Life!CanBecome, Life!Stage
<1>4. "cancelled" \in Life!Stage
  BY DEF Life!Stage
<1>5. ASSUME row.good \in Unsent => item[o] \notin {"sent", "cancelled"}, item' = items
      PROVE  item' = item \/ Life!Next
  BY <1>1, <1>3, <1>4, <1>5, MovesAlone
<1>6. ASSUME row.good \in Unsent => item[o] \notin {"sent", "cancelled"},
             NEW new \in Order, NEW stage \in {"waiting", "assigned"},
             order[new].status = "none", item' = [items EXCEPT ![new] = stage]
      PROVE  Life!Next
  <2>1. item[new] = "none" /\ stage \in Life!Stage /\ Life!CanBecome("none", stage)
    BY <1>6 DEF RefundInv, OrdersFit, Life!CanBecome, Life!Stage
  <2>2. CASE row.good \in Unsent
    <3>1. item' = [item EXCEPT ![o] = "cancelled", ![new] = stage]
      BY <1>6, <2>2
    <3>2. Life!Replace(o, new, stage)
      BY <1>3, <1>6, <2>1, <2>2, <3>1 DEF Life!Replace
    <3> QED BY <1>1, <2>1, <3>2 DEF Life!Next
  <2>3. CASE row.good \notin Unsent
    BY <1>1, <1>6, <2>1, <2>3, MovesAlone
  <2> QED BY <2>2, <2>3
<1> QED BY <1>2, <1>5, <1>6

LEMMA PayLife ==
    ASSUME RefundInv, NEW r \in Refund, Made(r), NEW c, CopyOf(c, r), Pay(r, c)
    PROVE  item' = item \/ Life!Next
<1> DEFINE row == Stamped(c)
<1>1. RefundConfirm(r, row, Synced(order, row))
  BY DEF Pay
<1>2. row \in RefundRow /\ row.order = refund[r].order
  BY StampedFits
<1> HIDE DEF row
<1> QED BY <1>1, <1>2, ConfirmLife

LEMMA LifeStep == ASSUME RefundInv, [Next]_vars PROVE item' = item \/ Life!Next
<1>1. ASSUME NEW o \in Order, OrderStep(o) PROVE item' = item \/ Life!Next
  <2>1. CASE \E stage \in Life!Stage : Warehouse(o, stage)
    BY <2>1, MovesAlone DEF Warehouse, RefundInv
  <2>2. CASE Book(o) \/ ConfirmSign(o) \/ Finish(o) \/ ModifyLogistic(o)
    BY <2>2 DEF Book, ConfirmSign, Finish, ModifyLogistic
  <2> QED BY <1>1, <2>1, <2>2 DEF OrderStep
<1>2. ASSUME NEW r \in Refund, NEW o \in Order, RequestStep(r, o) PROVE item' = item
  BY <1>2 DEF RequestStep, Apply, RefundLack, DoRefund
<1>3. ASSUME NEW r \in Refund, RefundStep(r) PROVE item' = item \/ Life!Next
  <2>1. CASE RefundRefuse(r) \/ AdminApprove(r) \/ RunTask(r) \/ CloseRefund(r)
    BY <2>1 DEF RefundRefuse, AdminApprove, RunTask, Attempt, CloseRefund
  <2>2. ASSUME NEW a \in Approver, Commit(a, r) PROVE item' = item \/ Life!Next
    <3> DEFINE c == approving[a]
    <3>1. c.id = r /\ (Pay(r, c) \/ item' = item)
      BY <2>2 DEF Commit
    <3>2. Made(r) /\ CopyOf(c, r)
      BY <3>1 DEF RefundInv, CopyFits, CopyOf, TypeOK, Idle, Refund
    <3> HIDE DEF c
    <3> QED BY <3>1, <3>2, PayLife
  <2>3. ASSUME NEW conform \in BOOLEAN, WarehouseNotice(r, conform)
        PROVE  item' = item \/ Life!Next
    <3>1. Made(r) /\ (RefundConfirm(r, refund[r], order) \/ item' = item)
      BY <2>3 DEF WarehouseNotice
    <3>2. refund[r] \in RefundRow
      BY <3>1 DEF RefundInv, TypeOK, Made, NoRow
    <3> QED BY <3>1, <3>2, ConfirmLife
  <2> QED BY <1>3, <2>1, <2>2, <2>3 DEF RefundStep
<1>4. ASSUME NEW b \in Bought, NEW conform \in BOOLEAN, UnpackReturn(b, conform)
      PROVE  item' = item \/ Life!Next
  <2> DEFINE r == FirstOf(OrdersOf(b))
             c == Loaded(r, TRUE)
  <2>1. item' = item \/ (r # 0 /\ Pay(r, c))
    BY <1>4 DEF UnpackReturn
  <2>2. r # 0 => r \in Refund /\ Made(r)
    <3>1. r # 0 => r \in Refund /\ refund[r].order \in OrdersOf(b)
      BY FirstIsMade DEF RefundInv
    <3> QED BY <3>1 DEF OrdersOf, Order, Made
  <2>3. r # 0 => CopyOf(c, r)
    BY <2>2, LoadedFits
  <2> HIDE DEF r, c
  <2> QED BY <2>1, <2>2, <2>3, PayLife
<1> QED BY <1>1, <1>2, <1>3, <1>4 DEF Next, vars

(* Refunds cancel and replace items only as the warehouse allows           *)
(* (set_status_cancel raises on what has left, and undoes the refund).     *)
THEOREM RefundLife == Spec => LifeKept
<1>1. RefundInv /\ [Next]_vars => [Life!Next]_item
  BY LifeStep
<1> QED BY <1>1, InitRefund, RefundStepKeeps, PTL DEF Spec, LifeKept

-----------------------------------------------------------------------------
(* Nothing bought gets lost: units are counted over all rows, an order's   *)
(* until a refund of it succeeds before its goods have left.               *)
Success(r) == Made(r) /\ refund[r].status = "SUCCESS"
Settled(o) == \E r \in Refund : Success(r) /\ refund[r].order = o

\* An order that is not to be sent any more was sent, or refunded.
EndedFits == \A o \in Order : order[o].status \notin {"none", "SEND"} => Post(o) \/ Settled(o)

CopyNum ==
    \A a \in Approver :
        approving[a] # Idle => approving[a].row.num = refund[approving[a].id].num

Kept(b) ==
    [o \in Order |-> IF order[o].status # "none" /\ order[o].root = b /\ (~Settled(o) \/ Post(o))
                     THEN order[o].num ELSE 0]

Back(b) ==
    [r \in Refund |-> IF Success(r) /\ order[refund[r].order].root = b THEN refund[r].num ELSE 0]

Sums ==
    \A b \in Bought :
        SumFunctionOnSet(Kept(b), Order) + SumFunctionOnSet(Back(b), Refund) >= Num[b]

LossInv == RefundInv /\ EndedFits /\ CopyNum /\ Sums

\* What every step leaves of the rows there are.
RowsLast ==
    /\ \A o \in Order : order[o].status # "none" =>
          order'[o].status # "none" /\ order'[o].num = order[o].num /\ order'[o].root = order[o].root
    /\ \A o \in Order : Post(o) => Post(o)'
    /\ \A r \in Refund : Made(r) =>
          /\ Made(r)' /\ refund'[r].order = refund[r].order /\ refund'[r].num = refund[r].num
          /\ Success(r) => Success(r)'

EndsFor ==
    \A o \in Order :
        order[o].status \in {"none", "SEND"} /\ order'[o].status \notin {"none", "SEND"}
            => Post(o)' \/ Settled(o)'

OnlyOf(r) == \A q \in Refund \ {r} : Success(q)' => Success(q)

\* A refund becomes a success: its order is paid back in full, or what is
\* left of it is ordered again.
BecomesSuccess(r) ==
    LET o == refund[r].order
    IN /\ Made(r) /\ ~Success(r) /\ Success(r)' /\ OnlyOf(r)
       /\ order[o].status = "SEND" =>
             \/ order[o].num = refund[r].num
             \/ \E new \in Order : /\ order[new].status = "none" /\ order'[new].status # "none"
                                   /\ order'[new].root = order[o].root
                                   /\ order'[new].num = order[o].num - refund[r].num

LEMMA RowsFinite == IsFiniteSet(Order) /\ IsFiniteSet(Refund)
BY RefundAssumption, FS_Interval DEF Order, Refund

LEMMA RowTypes ==
    ASSUME RefundInv
    PROVE  /\ \A o \in Order : order[o].num \in Nat
           /\ \A r \in Refund : Made(r) => /\ refund[r] \in RefundRow /\ refund[r].num \in Nat
                                           /\ refund[r].order \in Order
                                           /\ order[refund[r].order].status # "none"
<1>1. \A r \in Refund : Made(r) => refund[r] \in RefundRow
  BY DEF RefundInv, TypeOK, Made, NoRow
<1> QED
  BY <1>1 DEF RefundInv, RefundFits, TypeOK, OrderRow, RefundRow

TermsOK ==
    \A b : (\A o \in Order : Kept(b)[o] \in Nat) /\ (\A r \in Refund : Back(b)[r] \in Nat)

LEMMA TermTypes == RefundInv => TermsOK
BY RowTypes DEF TermsOK, Kept, Back, Success

LEMMA TermTypesNext == RefundInv' => TermsOK'
BY TermTypes, PTL

LEMMA EndsKept == ASSUME EndedFits, RefundInv, RowsLast, EndsFor PROVE EndedFits'
<1> SUFFICES ASSUME NEW o \in Order, order'[o].status \notin {"none", "SEND"}
             PROVE  Post(o)' \/ Settled(o)'
  BY DEF EndedFits
<1>1. Settled(o) => Settled(o)'
  BY DEF Settled, RowsLast, Success
<1>2. Post(o) => Post(o)'
  BY DEF RowsLast
<1> QED
  BY <1>1, <1>2 DEF EndedFits, EndsFor

\* Terms that do not fall.
LEMMA TermsStay ==
    ASSUME RefundInv, RefundInv', RowsLast, NEW b, NEW o \in Order,
           Settled(o)' => Settled(o) \/ Post(o)
    PROVE  Kept(b)[o] <= Kept(b)'[o]
<1>1. order[o].num \in Nat /\ Kept(b)'[o] \in Nat
  BY RowTypes, TermTypesNext DEF TermsOK
<1>2. CASE order[o].status # "none" /\ order[o].root = b /\ (~Settled(o) \/ Post(o))
  <2>1. order'[o].status # "none" /\ order'[o].num = order[o].num /\ order'[o].root = b
        /\ (~Settled(o)' \/ Post(o)')
    BY <1>2 DEF RowsLast
  <2> QED
    BY <1>1, <1>2, <2>1 DEF Kept
<1>3. CASE ~(order[o].status # "none" /\ order[o].root = b /\ (~Settled(o) \/ Post(o)))
  BY <1>1, <1>3 DEF Kept
<1> QED
  BY <1>2, <1>3

\* An order is settled by the refund that succeeds, and by no other.
LEMMA SettledBefore ==
    ASSUME RefundInv, RowsLast, NEW r \in Refund, OnlyOf(r), Success(r)' => Made(r),
           NEW o \in Order, Settled(o)', Success(r)' => Success(r) \/ o # refund[r].order
    PROVE  Settled(o)
<1>1. PICK q \in Refund : Success(q)' /\ refund'[q].order = o
  BY DEF Settled
<1>2. Success(q) \/ q = r
  BY <1>1 DEF OnlyOf
<1>3. Success(q) /\ Made(q)
  BY <1>1, <1>2 DEF RowsLast, Success
<1>4. refund[q].order = o
  BY <1>1, <1>3 DEF RowsLast
<1> QED
  BY <1>3, <1>4 DEF Settled

LEMMA BacksStay ==
    ASSUME RefundInv, RefundInv', RowsLast, NEW b, NEW q \in Refund
    PROVE  Back(b)[q] <= Back(b)'[q]
<1>1. Back(b)[q] \in Nat /\ Back(b)'[q] \in Nat
  BY TermTypes, TermTypesNext DEF TermsOK
<1>2. CASE Success(q) /\ order[refund[q].order].root = b
  <2>1. Success(q)' /\ refund'[q].order = refund[q].order /\ refund'[q].num = refund[q].num
    BY <1>2 DEF RowsLast, Success
  <2>2. order'[refund[q].order].root = b
    BY <1>2, RowTypes DEF RowsLast, Success
  <2>3. Back(b)'[q] = refund[q].num /\ Back(b)[q] = refund[q].num
    BY <1>2, <2>1, <2>2 DEF Back
  <2> QED
    BY <1>1, <2>3
<1>3. CASE ~(Success(q) /\ order[refund[q].order].root = b)
  BY <1>1, <1>3 DEF Back
<1> QED
  BY <1>2, <1>3

\* Steps by which no refund succeeds.
LEMMA QuietSums ==
    ASSUME RefundInv, RefundInv', RowsLast, Sums, \A r \in Refund : Success(r)' => Success(r)
    PROVE  Sums'
<1> SUFFICES ASSUME NEW b \in Bought
             PROVE  SumFunctionOnSet(Kept(b)', Order) + SumFunctionOnSet(Back(b)', Refund) >= Num[b]
  BY DEF Sums
<1> DEFINE f == Kept(b)
           g == Kept(b)'
           u == Back(b)
           v == Back(b)'
<1>1. \A o \in Order : f[o] \in Int /\ g[o] \in Int /\ f[o] <= g[o]
  <2> SUFFICES ASSUME NEW o \in Order PROVE f[o] \in Int /\ g[o] \in Int /\ f[o] <= g[o]
    OBVIOUS
  <2>1. Settled(o)' => Settled(o)
    BY DEF Settled, RowsLast, Success
  <2> QED
    BY <2>1, TermsStay, TermTypes, TermTypesNext DEF TermsOK
<1>2. \A q \in Refund : u[q] \in Int /\ v[q] \in Int /\ u[q] <= v[q]
  BY BacksStay, TermTypes, TermTypesNext DEF TermsOK
<1>3. SumFunctionOnSet(f, Order) + SumFunctionOnSet(u, Refund) >= Num[b] /\ Num[b] \in Nat
  BY RefundAssumption DEF Sums
<1> HIDE DEF f, g, u, v
<1>4. SumFunctionOnSet(f, Order) <= SumFunctionOnSet(g, Order)
      /\ SumFunctionOnSet(f, Order) \in Int /\ SumFunctionOnSet(g, Order) \in Int
  BY <1>1, RowsFinite, SumMonotonic, SumType
<1>5. SumFunctionOnSet(u, Refund) <= SumFunctionOnSet(v, Refund)
      /\ SumFunctionOnSet(u, Refund) \in Int /\ SumFunctionOnSet(v, Refund) \in Int
  BY <1>2, RowsFinite, SumMonotonic, SumType
<1>6. SumFunctionOnSet(g, Order) + SumFunctionOnSet(v, Refund) >= Num[b]
  BY <1>3, <1>4, <1>5
<1> QED
  BY <1>6 DEF g, v

\* The step by which refund r succeeds.
LEMMA SuccessSums ==
    ASSUME RefundInv, RefundInv', RowsLast, EndedFits, Sums, NEW r \in Refund, BecomesSuccess(r)
    PROVE  Sums'
<1> SUFFICES ASSUME NEW b \in Bought
             PROVE  SumFunctionOnSet(Kept(b)', Order) + SumFunctionOnSet(Back(b)', Refund) >= Num[b]
  BY DEF Sums
<1> DEFINE f == Kept(b)
           g == Kept(b)'
           u == Back(b)
           v == Back(b)'
           o == refund[r].order
           n == order[o].num
           k == refund[r].num
           F == SumFunctionOnSet(f, Order)
           G == SumFunctionOnSet(g, Order)
           U == SumFunctionOnSet(u, Refund)
           V == SumFunctionOnSet(v, Refund)
<1>1. /\ o \in Order /\ n \in Nat /\ k \in Nat /\ order[o].status # "none"
      /\ Made(r) /\ ~Success(r) /\ Success(r)' /\ OnlyOf(r)
      /\ refund'[r].order = o /\ refund'[r].num = k /\ order'[o].root = order[o].root
  BY RowTypes DEF BecomesSuccess, RowsLast
<1>2. \A x \in Order : f[x] \in Nat /\ g[x] \in Nat
  BY TermTypes, TermTypesNext DEF TermsOK
<1>3. \A q \in Refund : u[q] \in Nat /\ v[q] \in Nat /\ u[q] <= v[q]
  BY BacksStay, TermTypes, TermTypesNext DEF TermsOK
<1>4. \A x \in Order \ {o} : (Settled(x)' => Settled(x)) /\ f[x] <= g[x]
  <2> SUFFICES ASSUME NEW x \in Order \ {o} PROVE (Settled(x)' => Settled(x)) /\ f[x] <= g[x]
    OBVIOUS
  <2>1. Settled(x)' => Settled(x)
    BY <1>1, SettledBefore
  <2> QED
    BY <2>1, TermsStay
<1>5. u[r] = 0 /\ v[r] = IF order[o].root = b THEN k ELSE 0
  BY <1>1 DEF Back
<1>6. F + U >= Num[b] /\ Num[b] \in Nat
  BY RefundAssumption DEF Sums
<1>7. F \in Int /\ G \in Int /\ U \in Int /\ V \in Int
  <2> HIDE DEF f, g, u, v
  <2> QED
    BY <1>2, <1>3, RowsFinite, SumType
<1>8. U + v[r] <= V
  <2>1. v[r] \in Nat /\ v[r] - u[r] = v[r]
    BY <1>3, <1>5
  <2>2. (\A q \in Refund : u[q] \in Int /\ v[q] \in Int) /\ \A q \in Refund \ {r} : u[q] <= v[q]
    BY <1>3
  <2> HIDE DEF f, g, u, v
  <2>3. U + (v[r] - u[r]) <= V
    BY <2>2, RowsFinite, SumAtLeast
  <2> QED
    BY <2>1, <2>3
<1>9. CASE f[o] <= g[o]
  <2>1. \A x \in Order : f[x] \in Int /\ g[x] \in Int /\ f[x] <= g[x]
    BY <1>2, <1>4, <1>9
  <2>2. v[r] \in Nat
    BY <1>3
  <2> HIDE DEF f, g, u, v
  <2>3. F <= G
    BY <2>1, RowsFinite, SumMonotonic
  <2> HIDE DEF F, G, U, V
  <2>4. G + V >= Num[b]
    BY <1>6, <1>7, <1>8, <2>2, <2>3
  <2> QED
    BY <2>4 DEF g, v, G, V
<1>10. CASE ~(f[o] <= g[o])
  <2>1. f[o] = n /\ order[o].root = b /\ (~Settled(o) \/ Post(o)) /\ g[o] # n
    <3>1. f[o] # 0 /\ f[o] # g[o]
      BY <1>1, <1>2, <1>10
    <3> QED
      BY <1>1, <3>1 DEF Kept
  <2>2. ~Post(o)
    <3> SUFFICES ASSUME Post(o) PROVE g[o] = n
      BY <2>1
    <3> QED
      BY <1>1, <2>1 DEF RowsLast, Kept
  <2>3. order[o].status = "SEND" /\ v[r] = k
    BY <1>1, <1>5, <2>1, <2>2 DEF EndedFits
  <2>4. CASE n = k
    <3>1. (\A x \in Order : f[x] \in Int /\ g[x] \in Int) /\ (\A x \in Order \ {o} : f[x] <= g[x])
          /\ o \in Order /\ g[o] \in Nat
      BY <1>1, <1>2, <1>4
    <3> HIDE DEF f, g, u, v, o, n, k
    <3>2. F + (g[o] - f[o]) <= G
      BY <3>1, RowsFinite, SumAtLeast
    <3> HIDE DEF F, G, U, V
    <3>3. G + V >= Num[b]
      BY <1>1, <1>6, <1>7, <1>8, <2>1, <2>3, <2>4, <3>1, <3>2
    <3> QED
      BY <3>3 DEF g, v, G, V
  <2>5. ASSUME NEW new \in Order, order[new].status = "none", order'[new].status # "none",
               order'[new].root = order[o].root, order'[new].num = n - k
        PROVE  G + V >= Num[b]
    <3>1. new # o /\ ~Settled(new)
      <4>1. new # o
        BY <1>1, <2>5
      <4>2. ~Settled(new)
        BY <2>5, RowTypes DEF Settled, Success
      <4> QED
        BY <4>1, <4>2
    <3>2. ~Settled(new)'
      BY <1>4, <3>1
    <3>3. f[new] = 0 /\ g[new] = n - k
      BY <2>1, <2>5, <3>2 DEF Kept
    <3>4. /\ \A x \in Order : f[x] \in Int /\ g[x] \in Int
          /\ \A x \in Order \ {o, new} : f[x] <= g[x]
          /\ o \in Order /\ g[o] \in Nat /\ new \in Order \ {o}
      BY <1>1, <1>2, <1>4, <3>1
    <3> HIDE DEF f, g, u, v, o, n, k
    <3>5. F + (g[o] - f[o]) + (g[new] - f[new]) <= G
      BY <3>4, RowsFinite, SumAtLeastTwo
    <3> HIDE DEF F, G, U, V
    <3> QED
      BY <1>1, <1>6, <1>7, <1>8, <2>1, <2>3, <3>3, <3>4, <3>5
  <2>6. n = k \/ \E new \in Order : /\ order[new].status = "none" /\ order'[new].status # "none"
                                    /\ order'[new].root = order[o].root
                                    /\ order'[new].num = n - k
    BY <2>3 DEF BecomesSuccess
  <2> QED
    BY <2>4, <2>5, <2>6
<1> QED
  BY <1>9, <1>10

-----------------------------------------------------------------------------
(* What each step does to the rows.                                        *)
OrdersLast ==
    \A o \in Order : order[o].status # "none" =>
        order'[o].status # "none" /\ order'[o].num = order[o].num /\ order'[o].root = order[o].root

RefundsLast ==
    \A r \in Refund : Made(r) =>
        /\ Made(r)' /\ refund'[r].order = refund[r].order /\ refund'[r].num = refund[r].num
        /\ Success(r) => Success(r)'

Quiet == \A r \in Refund : Success(r)' => Success(r)

Gentle == OrdersLast /\ RefundsLast /\ EndsFor /\ CopyNum'

\* Saving a refund changes the status of its order at most.
LEMMA SyncedRows ==
    ASSUME NEW os \in [Order -> OrderRow], NEW row \in RefundRow, NEW x \in Order
    PROVE  /\ Synced(os, row)[x].num = os[x].num /\ Synced(os, row)[x].root = os[x].root
           /\ \/ Synced(os, row)[x].status = os[x].status
              \/ /\ x = row.order /\ row.num = os[x].num
                 /\ \/ row.status = "SUCCESS" /\ Synced(os, row)[x].status = "CLOSED"
                    \/ row.status = "CLOSED" /\ Synced(os, row)[x].status = "FINISHED"
<1> DEFINE o == row.order
           st == IF row.num = os[o].num /\ row.status = "SUCCESS" THEN "CLOSED"
                 ELSE IF row.num = os[o].num /\ row.status = "CLOSED" THEN "FINISHED"
                 ELSE os[o].status
           new == [os[o] EXCEPT !.refund_status = row.status, !.status = st]
<1>1. o \in Order /\ os[o] \in OrderRow
  BY DEF RefundRow
<1>2. Synced(os, row) = [os EXCEPT ![o] = new]
  BY <1>1 DEF Synced, OrderRow
<1>3. new.num = os[o].num /\ new.root = os[o].root /\ new.status = st
  BY <1>1 DEF OrderRow
<1> HIDE DEF new
<1> QED
  BY <1>1, <1>2, <1>3

\* A saved refund that ends its order is a success or closed.
LEMMA SyncedEnding ==
    ASSUME NEW os \in [Order -> OrderRow], NEW row \in RefundRow,
           row.num = os[row.order].num, row.status = "SUCCESS"
    PROVE  Synced(os, row)[row.order].status = "CLOSED"
<1>1. row.order \in Order
  BY DEF RefundRow
<1> QED
  BY <1>1 DEF Synced, OrderRow

LEMMA CopiesLast ==
    ASSUME RefundInv, CopyNum, RefundsLast, NEW a \in Approver, approving'[a] = approving[a],
           approving[a] # Idle
    PROVE  approving'[a].row.num = refund'[approving'[a].id].num
<1>1. Made(approving[a].id) /\ approving[a].id \in Refund
  BY DEF RefundInv, CopyFits, TypeOK, Copy
<1> QED
  BY <1>1 DEF CopyNum, RefundsLast

LEMMA CopiesGentle ==
    ASSUME RefundInv, CopyNum, RefundsLast,
           \A a \in Approver : approving'[a] = approving[a] \/ approving'[a] = Idle
    PROVE  CopyNum'
BY CopiesLast DEF CopyNum

\* Steps of the orders alone.
LEMMA StatusGentle ==
    ASSUME RefundInv, CopyNum, NEW o \in Order, NEW st, st # "none", order[o].status # "none",
           order' = order \/ order' = [order EXCEPT ![o].status = st],
           order[o].status = "SEND" /\ order' # order => item'[o] = "sent",
           refund' = refund, approving' = approving
    PROVE  Gentle /\ Quiet
<1>1. \A x \in Order : /\ order'[x].num = order[x].num /\ order'[x].root = order[x].root
                       /\ order'[x].status = order[x].status
                            \/ (x = o /\ order'[x].status = st /\ order' # order)
  BY DEF RefundInv, TypeOK, OrderRow
<1>2. OrdersLast
  BY <1>1 DEF OrdersLast
<1>3. RefundsLast /\ Quiet
  BY DEF RefundsLast, Quiet, Success, Made
<1>4. EndsFor
  BY <1>1 DEF EndsFor, Post
<1> QED
  BY <1>2, <1>3, <1>4, CopiesGentle DEF Gentle

LEMMA SameGentle ==
    ASSUME RefundInv, CopyNum, UNCHANGED <<order, refund, approving>>
    PROVE  Gentle /\ Quiet
<1>1. PICK o \in Order : order[o].status # "none"
  BY DEF RefundInv, OrdersFit
<1> QED
  BY <1>1, StatusGentle

\* A refund row is made or gets a status other than success.
LEMMA RowWrites ==
    ASSUME RefundInv, NEW r \in Refund, NEW row \in RefundRow,
           refund' = [refund EXCEPT ![r] = row], row.status # "SUCCESS",
           Made(r) => refund[r].status # "SUCCESS" /\ row.order = refund[r].order /\ row.num = refund[r].num,
           order' = Synced(order, row) \/ \A x \in Order : /\ order'[x].num = order[x].num
                                                           /\ order'[x].root = order[x].root
                                                           /\ order'[x].status = order[x].status,
           row.status = "CLOSED" => order[row.order].status \notin {"none", "SEND"}
    PROVE  OrdersLast /\ RefundsLast /\ EndsFor /\ Quiet
<1>1. order \in [Order -> OrderRow] /\ row.order \in Order /\ row.order # 0
  BY DEF RefundInv, TypeOK, RefundRow, Order
<1>2. refund'[r] = row /\ \A q \in Refund \ {r} : refund'[q] = refund[q]
  BY DEF RefundInv, TypeOK
<1>3. RefundsLast /\ Quiet
  BY <1>1, <1>2 DEF RefundsLast, Quiet, Success, Made
<1>4. \A x \in Order : /\ order'[x].num = order[x].num /\ order'[x].root = order[x].root
                       /\ \/ order'[x].status = order[x].status
                          \/ order[x].status \notin {"none", "SEND"} /\ order'[x].status = "FINISHED"
  BY <1>1, SyncedRows
<1>5. OrdersLast /\ EndsFor
  BY <1>4 DEF OrdersLast, EndsFor
<1> QED
  BY <1>3, <1>5

LEMMA RowGentle ==
    ASSUME RefundInv, CopyNum, NEW r \in Refund, NEW row \in RefundRow,
           refund' = [refund EXCEPT ![r] = row], row.status # "SUCCESS",
           Made(r) => refund[r].status # "SUCCESS" /\ row.order = refund[r].order /\ row.num = refund[r].num,
           order' = Synced(order, row) \/ \A x \in Order : /\ order'[x].num = order[x].num
                                                           /\ order'[x].root = order[x].root
                                                           /\ order'[x].status = order[x].status,
           row.status = "CLOSED" => order[row.order].status \notin {"none", "SEND"},
           approving' = approving
    PROVE  Gentle /\ Quiet
BY RowWrites, CopiesGentle DEF Gentle

\* Confirming a refund again changes rows as saving it does.
LEMMA AgainGentle ==
    ASSUME RefundInv, CopyNum, NEW r \in Refund, Made(r), NEW row \in RefundRow,
           row.order = refund[r].order, NEW os, os = order \/ os = Synced(order, row),
           refund[r].status = "SUCCESS", RefundConfirm(r, row, os),
           \A a \in Approver : approving'[a] = approving[a] \/ approving'[a] = Idle
    PROVE  Gentle /\ Quiet
<1> DEFINE o == refund[r].order
<1>1. refund' = [refund EXCEPT ![r].good = row.good] /\ order' = os
  BY DEF RefundConfirm, Save
<1>2. order \in [Order -> OrderRow] /\ refund[r] \in RefundRow /\ o \in Order
      /\ order[o].status # "none"
  BY RowTypes DEF RefundInv, TypeOK
<1>3. \A q \in Refund : /\ Made(q) <=> Made(q)'
                        /\ Made(q) => /\ refund'[q].order = refund[q].order
                                      /\ refund'[q].num = refund[q].num
                                      /\ refund'[q].status = refund[q].status
  <2>1. refund'[r] = [refund[r] EXCEPT !.good = row.good]
        /\ \A q \in Refund \ {r} : refund'[q] = refund[q]
    BY <1>1 DEF RefundInv, TypeOK
  <2>2. refund'[r].order = refund[r].order /\ refund'[r].num = refund[r].num
        /\ refund'[r].status = refund[r].status
    BY <1>2, <2>1 DEF RefundRow
  <2> QED
    BY <2>1, <2>2 DEF Made
<1>4. RefundsLast /\ Quiet
  BY <1>3 DEF RefundsLast, Quiet, Success
<1>5. \A x \in Order : /\ order'[x].num = order[x].num /\ order'[x].root = order[x].root
                       /\ \/ order'[x].status = order[x].status
                          \/ x = o /\ order'[x].status \in {"CLOSED", "FINISHED"}
  BY <1>1, <1>2, SyncedRows
<1>6. \A x \in Order : x = o => Settled(x)'
  BY <1>3 DEF Settled, Success
<1>7. OrdersLast
  BY <1>2, <1>5 DEF OrdersLast
<1>8. EndsFor
  <2> HIDE DEF o
  <2> QED
    BY <1>5, <1>6 DEF EndsFor
<1> QED
  BY <1>4, <1>7, <1>8, CopiesGentle DEF Gentle

\* Confirming a refund closes its order and orders the rest again.
LEMMA FirstGentle ==
    ASSUME RefundInv, CopyNum, NEW r \in Refund, Made(r), NEW row \in RefundRow,
           row.order = refund[r].order, row.num = refund[r].num,
           NEW os, os = order \/ os = Synced(order, row),
           refund[r].status # "SUCCESS", RefundConfirm(r, row, os),
           \A a \in Approver : approving'[a] = approving[a] \/ approving'[a] = Idle
    PROVE  Gentle /\ BecomesSuccess(r)
<1> DEFINE o      == row.order
           saved  == [row EXCEPT !.status = "SUCCESS"]
           synced == Synced(os, saved)
           rest   == Rest(row, synced)
           closed == [synced EXCEPT ![o].status = IF @ \in Live THEN "CLOSED" ELSE @]
           n      == order[o].num
           k      == refund[r].num
           Added(new) == /\ order[new].status = "none" /\ order' = [closed EXCEPT ![new] =
                              [status |-> "SEND", num |-> rest, root |-> order[o].root,
                               refund_status |-> "none"]]
<1>1. /\ refund' = [refund EXCEPT ![r] = saved]
      /\ \/ rest = 0 /\ order' = closed
         \/ rest > 0 /\ \E new \in Order : Added(new)
  BY DEF RefundConfirm, Save
<1>2. /\ order \in [Order -> OrderRow] /\ o \in Order /\ n \in Nat /\ k \in Nat
      /\ order[o].status # "none" /\ order[o].status \in Live \cup {"FINISHED", "CLOSED"}
  BY RowTypes DEF RefundInv, TypeOK, OrderRow
<1>3. saved \in RefundRow /\ saved.order = o /\ saved.num = k /\ saved.status = "SUCCESS"
  BY DEF RefundRow
<1>4. /\ os \in [Order -> OrderRow]
      /\ \A x \in Order : /\ os[x].num = order[x].num /\ os[x].root = order[x].root
                          /\ x # o \/ n # k => os[x].status = order[x].status
  <2>1. CASE os = order
    BY <1>2, <2>1
  <2>2. CASE os = Synced(order, row)
    BY <1>2, <2>2, SyncedRows, SyncedEnds
  <2> QED
    BY <2>1, <2>2
<1> HIDE DEF saved
<1>5. \A x \in Order : /\ synced[x].num = order[x].num /\ synced[x].root = order[x].root
                       /\ x # o \/ n # k => synced[x].status = order[x].status
  BY <1>3, <1>4, SyncedRows
<1>6. n = k => synced[o].status = "CLOSED"
  <2> SUFFICES ASSUME n = k PROVE synced[o].status = "CLOSED"
    OBVIOUS
  <2>1. saved.num = os[saved.order].num
    BY <1>2, <1>3, <1>4
  <2>2. synced[saved.order].status = "CLOSED"
    BY <1>3, <1>4, <2>1, SyncedEnding
  <2> QED
    BY <1>3, <2>2
<1>7. synced \in [Order -> OrderRow]
  <2>1. os[saved.order].status # "none"
    <3>1. CASE os = order
      BY <1>2, <1>3, <3>1
    <3>2. CASE os = Synced(order, row)
      BY <1>2, <1>3, <3>2, SyncedEnds DEF Ended
    <3> QED
      BY <3>1, <3>2
  <2> QED
    BY <1>3, <1>4, <2>1, SyncedEnds
<1>8. rest = IF n # k /\ order[o].status = "SEND" THEN n - k ELSE 0
  BY <1>2, <1>5, <1>6 DEF Rest
<1> HIDE DEF synced, rest
<1>9. /\ \A x \in Order : closed[x].num = order[x].num /\ closed[x].root = order[x].root
      /\ \A x \in Order \ {o} : closed[x].status = order[x].status
      /\ closed[o].status # "none"
  <2> DEFINE st == IF synced[o].status \in Live THEN "CLOSED" ELSE synced[o].status
  <2>1. closed = [synced EXCEPT ![o] = [synced[o] EXCEPT !.status = st]]
    BY <1>2, <1>7
  <2>2. synced[o].status # "none"
    BY <1>2, <1>5, <1>6
  <2>3. st # "none"
    BY <2>2
  <2>4. synced[o] \in OrderRow
    BY <1>2, <1>7
  <2>5. [synced[o] EXCEPT !.status = st].num = synced[o].num
        /\ [synced[o] EXCEPT !.status = st].root = synced[o].root
        /\ [synced[o] EXCEPT !.status = st].status = st
    BY <2>4 DEF OrderRow
  <2> HIDE DEF st
  <2>6. closed[o] = [synced[o] EXCEPT !.status = st] /\ \A x \in Order \ {o} : closed[x] = synced[x]
    BY <1>2, <1>7, <2>1
  <2> DEFINE row2 == [synced[o] EXCEPT !.status = st]
  <2>7. row2.num = order[o].num /\ row2.root = order[o].root /\ row2.status # "none"
    BY <1>2, <1>5, <2>3, <2>5
  <2>8. closed[o] = row2
    BY <2>6
  <2> HIDE DEF closed, row2
  <2>9. ASSUME NEW x \in Order \ {o}
        PROVE  /\ closed[x].num = order[x].num /\ closed[x].root = order[x].root
               /\ closed[x].status = order[x].status
    BY <1>5, <2>6
  <2>10. closed[o].num = order[o].num /\ closed[o].root = order[o].root
         /\ closed[o].status # "none"
    BY <2>7, <2>8
  <2> QED
    BY <2>9, <2>10
<1>10. DOMAIN closed = Order
  BY <1>7
<1> HIDE DEF closed
<1>11. ASSUME NEW new \in Order, Added(new)
       PROVE  /\ new # o /\ order'[new].status = "SEND" /\ order'[new].num = rest
              /\ order'[new].root = order[o].root
              /\ \A x \in Order \ {new} : order'[x] = closed[x]
  BY <1>2, <1>10, <1>11
<1>12. refund'[r] = saved /\ \A q \in Refund \ {r} : refund'[q] = refund[q]
  BY <1>1 DEF RefundInv, TypeOK
<1>13. Success(r)' /\ refund'[r].order = o /\ refund'[r].num = k /\ o # 0
  BY <1>2, <1>3, <1>12 DEF Success, Made, Order
<1>14. RefundsLast /\ OnlyOf(r)
  BY <1>12, <1>13 DEF RefundsLast, OnlyOf, Success, Made
<1>15. Settled(o)'
  BY <1>13 DEF Settled
<1>16. OrdersLast /\ EndsFor
  <2>1. CASE order' = closed
    BY <1>2, <1>9, <1>15, <2>1 DEF OrdersLast, EndsFor
  <2>2. ASSUME NEW new \in Order, Added(new) PROVE OrdersLast /\ EndsFor
    <3>1. \A x \in Order \ {new} : order'[x] = closed[x]
      BY <1>11, <2>2
    <3>2. order'[new].status = "SEND" /\ order[new].status = "none" /\ new # o
      BY <1>11, <2>2
    <3> QED
      BY <1>2, <1>9, <1>15, <3>1, <3>2 DEF OrdersLast, EndsFor
  <2> QED
    BY <1>1, <2>1, <2>2
<1>17. order[o].status = "SEND" =>
          \/ n = k
          \/ \E new \in Order : /\ order[new].status = "none" /\ order'[new].status # "none"
                                /\ order'[new].root = order[o].root /\ order'[new].num = n - k
  <2> SUFFICES ASSUME order[o].status = "SEND", n # k
               PROVE  \E new \in Order : /\ order[new].status = "none" /\ order'[new].status # "none"
                                /\ order'[new].root = order[o].root /\ order'[new].num = n - k
    OBVIOUS
  <2>1. rest = n - k /\ rest # 0
    BY <1>2, <1>8
  <2>2. PICK new \in Order : Added(new)
    BY <1>1, <2>1
  <2>3. order[new].status = "none" /\ order'[new].status = "SEND" /\ order'[new].num = rest
        /\ order'[new].root = order[o].root
    BY <1>11, <2>2
  <2> QED
    BY <2>1, <2>3
<1>18. BecomesSuccess(r)
  BY <1>13, <1>14, <1>17 DEF BecomesSuccess, Success
<1> QED
  BY <1>14, <1>16, <1>18, CopiesGentle DEF Gentle

LEMMA ConfirmGentle ==
    ASSUME RefundInv, CopyNum, NEW r \in Refund, Made(r), NEW row \in RefundRow,
           row.order = refund[r].order, row.num = refund[r].num,
           NEW os, os = order \/ os = Synced(order, row), RefundConfirm(r, row, os),
           \A a \in Approver : approving'[a] = approving[a] \/ approving'[a] = Idle
    PROVE  Gentle /\ (Quiet \/ \E q \in Refund : BecomesSuccess(q))
<1>1. CASE refund[r].status = "SUCCESS"
  BY <1>1, AgainGentle
<1>2. CASE refund[r].status # "SUCCESS"
  BY <1>2, FirstGentle
<1> QED
  BY <1>1, <1>2

LEMMA PayGentle ==
    ASSUME RefundInv, CopyNum, NEW r \in Refund, Made(r), NEW c, CopyOf(c, r),
           c.row.num = refund[r].num, Pay(r, c),
           \A a \in Approver : approving'[a] = approving[a] \/ approving'[a] = Idle
    PROVE  Gentle /\ (Quiet \/ \E q \in Refund : BecomesSuccess(q))
<1> DEFINE row == Stamped(c)
<1>1. RefundConfirm(r, row, Synced(order, row))
  BY DEF Pay
<1>2. row \in RefundRow /\ row.order = refund[r].order
  BY StampedFits
<1>3. row.num = refund[r].num
  BY DEF Stamped, CopyOf, Copy, RefundRow
<1> HIDE DEF row
<1> QED
  BY <1>1, <1>2, <1>3, ConfirmGentle

LEMMA OrderStepGentle ==
    ASSUME RefundInv, CopyNum, NEW o \in Order, OrderStep(o)
    PROVE  Gentle /\ Quiet
<1>1. order \in [Order -> OrderRow] /\ item \in [Order -> Life!Stage]
      /\ (order[o].status = "none" <=> item[o] = "none")
  BY DEF RefundInv, TypeOK, OrdersFit
<1>2. ASSUME NEW stage \in Life!Stage, Warehouse(o, stage) PROVE Gentle /\ Quiet
  <2>1. order[o].status # "none" /\ item'[o] = stage /\ refund' = refund /\ approving' = approving
    BY <1>1, <1>2 DEF Warehouse
  <2>2. order' = order \/ (stage = "sent" /\ order' = [order EXCEPT ![o].status = "CONFIRM"])
    BY <1>2 DEF Warehouse, Save
  <2> QED
    BY <2>1, <2>2, StatusGentle
<1>3. CASE Book(o)
  BY <1>3, SameGentle DEF Book
<1>4. CASE ConfirmSign(o)
  <2>1. order' = [order EXCEPT ![o].status = "SIGNED"] /\ order[o].status = "CONFIRM"
        /\ refund' = refund /\ approving' = approving
    BY <1>4 DEF ConfirmSign, Save
  <2> QED
    BY <2>1, StatusGentle
<1>5. CASE Finish(o)
  <2>1. order' = [order EXCEPT ![o].status = "FINISHED"] /\ order[o].status \in {"CONFIRM", "SIGNED"}
        /\ refund' = refund /\ approving' = approving
    BY <1>5 DEF Finish
  <2> QED
    BY <2>1, StatusGentle
<1>6. CASE ModifyLogistic(o)
  <2> DEFINE r   == FirstOf({o})
             row == [refund[r] EXCEPT !.status = "GOODS", !.good = "RETURNED", !.sid = TRUE]
  <2>1. /\ r # 0 /\ refund[r].status \notin {"SUCCESS", "CLOSED"}
        /\ refund' = [refund EXCEPT ![r].status = "GOODS", ![r].good = "RETURNED", ![r].sid = TRUE]
        /\ order' = [order EXCEPT ![o].refund_status = "GOODS"] /\ approving' = approving
    BY <1>6 DEF ModifyLogistic, Save
  <2>2. r \in Refund /\ Made(r) /\ refund[r] \in RefundRow
    <3>1. r \in Refund /\ refund[r].order = o
      BY <2>1, FirstIsMade DEF RefundInv
    <3>2. Made(r)
      BY <3>1 DEF Made, Order
    <3> QED
      BY <3>1, <3>2, RowTypes
  <2>3. row \in RefundRow /\ row.status = "GOODS" /\ row.order = refund[r].order
        /\ row.num = refund[r].num
    BY <2>2 DEF RefundRow, Waiting, Unsent
  <2>4. refund' = [refund EXCEPT ![r] = row]
    BY <2>1, <2>2 DEF RefundInv, TypeOK
  <2>5. \A x \in Order : /\ order'[x].num = order[x].num /\ order'[x].root = order[x].root
                         /\ order'[x].status = order[x].status
    BY <1>1, <2>1 DEF OrderRow
  <2> HIDE DEF row, r
  <2> QED
    BY <2>1, <2>2, <2>3, <2>4, <2>5, RowGentle
<1> QED
  BY <1>2, <1>3, <1>4, <1>5, <1>6 DEF OrderStep

\* A refund that is made is no success and takes nothing from its order.
LEMMA MakeGentle ==
    ASSUME RefundInv, CopyNum, NEW r \in Refund, NEW row \in RefundRow, Make(r, row),
           row.status \notin {"SUCCESS", "CLOSED"}, approving' = approving
    PROVE  Gentle /\ Quiet
<1>1. refund' = [refund EXCEPT ![r] = row] /\ order' = Synced(order, row) /\ ~Made(r)
  BY DEF Make, Save
<1> QED
  BY <1>1, RowGentle

\* A refund is refused or closed.
LEMMA RestatusGentle ==
    ASSUME RefundInv, CopyNum, NEW r \in Refund, Made(r), NEW st \in {"REFUSED", "CLOSED"},
           refund[r].status # "SUCCESS", refund' = [refund EXCEPT ![r].status = st],
           Save(Synced(order, refund'[r])), approving' = approving,
           st = "CLOSED" => order[refund[r].order].status \notin {"none", "SEND"}
    PROVE  Gentle /\ Quiet
<1> DEFINE row == [refund[r] EXCEPT !.status = st]
<1>1. refund[r] \in RefundRow
  BY RowTypes
<1>2. row \in RefundRow /\ row.status = st /\ row.order = refund[r].order /\ row.num = refund[r].num
  BY <1>1 DEF RefundRow
<1>3. refund' = [refund EXCEPT ![r] = row] /\ refund'[r] = row
  BY DEF RefundInv, TypeOK
<1>4. order' = Synced(order, row)
  BY <1>3 DEF Save
<1> HIDE DEF row
<1> QED
  BY <1>2, <1>3, <1>4, RowGentle

\* An approver takes a fresh copy, or gives its copy up.
LEMMA LoadGentle ==
    ASSUME RefundInv, CopyNum, UNCHANGED <<order, refund>>, NEW a \in Approver,
           NEW r \in Refund, NEW fast \in BOOLEAN,
           approving' = [approving EXCEPT ![a] = Loaded(r, fast)]
    PROVE  Gentle /\ Quiet
<1>1. OrdersLast /\ RefundsLast /\ EndsFor /\ Quiet
  BY DEF OrdersLast, RefundsLast, EndsFor, Quiet, Success, Made
<1>2. ASSUME NEW b \in Approver, approving'[b] # Idle
      PROVE  approving'[b].row.num = refund'[approving'[b].id].num
  <2>1. CASE b = a
    <3>1. approving'[b] = Loaded(r, fast)
      BY <2>1 DEF RefundInv, TypeOK
    <3> QED
      BY <3>1 DEF Loaded
  <2>2. CASE b # a
    BY <1>1, <1>2, <2>2, CopiesLast DEF RefundInv, TypeOK
  <2> QED
    BY <2>1, <2>2
<1> QED
  BY <1>1, <1>2 DEF Gentle, CopyNum

LEMMA RestGentle ==
    ASSUME RefundInv, CopyNum, UNCHANGED <<order, refund>>,
           \A a \in Approver : approving'[a] = approving[a] \/ approving'[a] = Idle
    PROVE  Gentle /\ Quiet
<1>1. OrdersLast /\ RefundsLast /\ EndsFor /\ Quiet
  BY DEF OrdersLast, RefundsLast, EndsFor, Quiet, Success, Made
<1> QED
  BY <1>1, CopiesGentle DEF Gentle

\* What has left stays away.
LEMMA SentStays ==
    ASSUME TypeOK, item' = item \/ Life!Next, NEW o \in Order, item[o] = "sent"
    PROVE  item'[o] = "sent"
<1>1. item \in [Order -> Life!Stage]
  BY DEF TypeOK
<1>2. ASSUME NEW S \in SUBSET Order, NEW t \in Life!Stage, Life!Move(S, t)
      PROVE  item'[o] = "sent"
  <2>1. o \notin S
    BY <1>2 DEF Life!Move, Life!CanBecome
  <2> QED
    BY <1>2, <2>1 DEF Life!Move
<1>3. ASSUME NEW old \in Order, NEW new \in Order, NEW t \in Life!Stage, Life!Replace(old, new, t)
      PROVE  item'[o] = "sent"
  <2>1. o # old /\ o # new
    BY <1>3 DEF Life!Replace, Life!CanBecome
  <2> QED
    BY <1>1, <1>3, <2>1 DEF Life!Replace
<1> QED
  BY <1>2, <1>3 DEF Life!Next

LEMMA RequestGentle ==
    ASSUME RefundInv, CopyNum, NEW r \in Refund, NEW o \in Order, RequestStep(r, o)
    PROVE  Gentle /\ Quiet
<1>1. order[o].num \in Nat /\ \A k \in 1 .. order[o].num : k \in Nat
  BY RowTypes
<1>2. ASSUME NEW k \in Nat, Apply(r, o, k) PROVE Gentle /\ Quiet
  <2>1. CASE order[o].status = "SEND" /\ Make(r, NewRow(o, k, "NOT_RECEIVED"))
    <3>1. /\ NewRow(o, k, "NOT_RECEIVED") \in RefundRow
          /\ NewRow(o, k, "NOT_RECEIVED").status = "AGREE"
      BY NewRowFits DEF Unsent
    <3> QED
      BY <1>2, <2>1, <3>1, MakeGentle DEF Apply
  <2>2. CASE Make(r, [NewRow(o, k, "RECEIVED") EXCEPT !.status = "RETURN"])
    <3> DEFINE row == [NewRow(o, k, "RECEIVED") EXCEPT !.status = "RETURN"]
    <3>1. row \in RefundRow /\ row.status = "RETURN"
      BY DEF NewRow, RefundRow, Waiting
    <3> HIDE DEF row
    <3>2. Make(r, row)
      BY <2>2 DEF row
    <3> QED
      BY <1>2, <3>1, <3>2, MakeGentle DEF Apply
  <2> QED
    BY <1>2, <2>1, <2>2 DEF Apply
<1>3. ASSUME NEW out_stock \in BOOLEAN, DoRefund(r, o, out_stock) PROVE Gentle /\ Quiet
  <2> DEFINE good == IF out_stock THEN "OUT_STOCK"
                     ELSE IF order[o].status = "SEND" THEN "NOT_RECEIVED" ELSE "RECEIVED"
             row  == NewRow(o, order[o].num, good)
  <2>1. Make(r, row) /\ approving' = approving
    BY <1>3 DEF DoRefund
  <2>2. row \in RefundRow /\ row.status = "AGREE"
    BY <1>1 DEF NewRow, RefundRow, Unsent, Waiting
  <2> HIDE DEF row
  <2> QED
    BY <2>1, <2>2, MakeGentle
<1>4. ASSUME NEW k \in Nat, RefundLack(r, o, k) PROVE Gentle /\ Quiet
  <2>1. CASE FirstOf({o}) = 0
    <3> DEFINE row  == NewRow(o, k, "OUT_STOCK")
               copy == [id |-> r, row |-> row, post |-> IF Post(o) THEN "sent" ELSE "unsent"]
    <3>1. /\ Make(r, row) /\ approving["staff"] = Idle
          /\ approving' = approving \/ approving' = [approving EXCEPT !["staff"] = copy]
      BY <1>4, <2>1 DEF RefundLack
    <3>2. row \in RefundRow /\ row.status = "AGREE"
      BY NewRowFits DEF Unsent
    <3> HIDE DEF row
    <3>3. refund' = [refund EXCEPT ![r] = row] /\ order' = Synced(order, row) /\ ~Made(r)
          /\ refund'[r] = row
      BY <3>1 DEF Make, Save, RefundInv, TypeOK
    <3>4. OrdersLast /\ RefundsLast /\ EndsFor /\ Quiet
      BY <3>2, <3>3, RowWrites
    <3>5. ASSUME NEW a \in Approver, approving'[a] # Idle
          PROVE  approving'[a].row.num = refund'[approving'[a].id].num
      <4>1. CASE approving'[a] = approving[a]
        BY <3>4, <3>5, <4>1, CopiesLast
      <4>2. CASE approving'[a] = copy
        BY <3>3, <4>2
      <4> QED
        BY <3>1, <4>1, <4>2 DEF RefundInv, TypeOK, Approver
    <3> QED
      BY <3>4, <3>5 DEF Gentle, CopyNum
  <2>2. CASE FirstOf({o}) # 0
    <3>1. /\ r = FirstOf({o}) /\ UNCHANGED <<order, refund>>
          /\ approving' = [approving EXCEPT !["staff"] = Loaded(r, TRUE)]
      BY <1>4, <2>2 DEF RefundLack, BeginApprove
    <3> QED
      BY <3>1, LoadGentle DEF Approver
  <2> QED
    BY <2>1, <2>2
<1> QED
  BY <1>1, <1>2, <1>3, <1>4 DEF RequestStep

LEMMA RefundStepGentle ==
    ASSUME RefundInv, CopyNum, NEW r \in Refund, RefundStep(r)
    PROVE  Gentle /\ (Quiet \/ \E q \in Refund : BecomesSuccess(q))
<1>1. CASE RefundRefuse(r)
  BY <1>1, RestatusGentle DEF RefundRefuse, Waiting
<1>2. CASE AdminApprove(r)
  BY <1>2, LoadGentle DEF AdminApprove, BeginApprove, Approver
<1>3. CASE RunTask(r)
  <2>1. UNCHANGED <<order, refund>> /\ (approving' = approving \/ BeginApprove("task", r, TRUE))
    BY <1>3 DEF RunTask, Attempt
  <2> QED
    BY <2>1, SameGentle, LoadGentle DEF BeginApprove, Approver
<1>4. ASSUME NEW a \in Approver, Commit(a, r)
      PROVE  Gentle /\ (Quiet \/ \E q \in Refund : BecomesSuccess(q))
  <2> DEFINE c == approving[a]
  <2>1. /\ c.id = r /\ approving' = [approving EXCEPT ![a] = Idle]
        /\ Pay(r, c) \/ UNCHANGED <<order, refund>>
    BY <1>4 DEF Commit
  <2>2. Made(r) /\ CopyOf(c, r) /\ c # Idle
    BY <2>1 DEF RefundInv, CopyFits, CopyOf, TypeOK, Idle, Refund
  <2>3. c.row.num = refund[r].num
    BY <2>1, <2>2 DEF CopyNum
  <2>4. \A b \in Approver : approving'[b] = approving[b] \/ approving'[b] = Idle
    BY <2>1 DEF RefundInv, TypeOK
  <2>5. CASE UNCHANGED <<order, refund>>
    BY <2>4, <2>5, RestGentle
  <2> HIDE DEF c
  <2> QED
    BY <2>1, <2>2, <2>3, <2>4, <2>5, PayGentle
<1>5. ASSUME NEW conform \in BOOLEAN, WarehouseNotice(r, conform)
      PROVE  Gentle /\ (Quiet \/ \E q \in Refund : BecomesSuccess(q))
  <2>1. Made(r) /\ approving' = approving /\ refund[r] \in RefundRow
    BY <1>5, RowTypes DEF WarehouseNotice
  <2>2. CASE conform
    BY <1>5, <2>1, <2>2, ConfirmGentle DEF WarehouseNotice
  <2>3. CASE ~conform
    BY <1>5, <2>1, <2>3, RestatusGentle DEF WarehouseNotice, Waiting
  <2> QED
    BY <2>2, <2>3
<1>6. CASE CloseRefund(r)
  <2>1. order[refund[r].order].status \notin {"none", "SEND"} /\ refund[r].status # "SUCCESS"
    BY <1>6 DEF CloseRefund
  <2> QED
    BY <1>6, <2>1, RestatusGentle DEF CloseRefund
<1> QED
  BY <1>1, <1>2, <1>3, <1>4, <1>5, <1>6 DEF RefundStep

LEMMA UnpackGentle ==
    ASSUME RefundInv, CopyNum, NEW b \in Bought, NEW conform \in BOOLEAN, UnpackReturn(b, conform)
    PROVE  Gentle /\ (Quiet \/ \E q \in Refund : BecomesSuccess(q))
<1> DEFINE r == FirstOf(OrdersOf(b))
           c == Loaded(r, TRUE)
<1>1. /\ approving' = approving
      /\ UNCHANGED <<order, refund>> \/ (r # 0 /\ Pay(r, c))
  BY DEF UnpackReturn
<1>2. CASE UNCHANGED <<order, refund>>
  BY <1>1, <1>2, SameGentle
<1>3. CASE r # 0 /\ Pay(r, c)
  <2>1. r \in Refund /\ Made(r)
    <3>1. r \in Refund /\ refund[r].order \in OrdersOf(b)
      BY <1>3, FirstIsMade DEF RefundInv
    <3> QED
      BY <3>1 DEF OrdersOf, Order, Made
  <2>2. CopyOf(c, r) /\ c.row.num = refund[r].num
    BY <2>1, LoadedFits DEF Loaded
  <2> HIDE DEF r, c
  <2> QED
    BY <1>1, <1>3, <2>1, <2>2, PayGentle
<1> QED
  BY <1>1, <1>2, <1>3

\* Every step is one of these.
LEMMA StepGentle ==
    ASSUME RefundInv, CopyNum, [Next]_vars
    PROVE  Gentle /\ (Quiet \/ \E q \in Refund : BecomesSuccess(q))
<1>1. CASE UNCHANGED vars
  BY <1>1, SameGentle DEF vars
<1> QED
  BY <1>1, OrderStepGentle, RequestGentle, RefundStepGentle, UnpackGentle DEF Next

LEMMA LossStep == LossInv /\ [Next]_vars => LossInv'
<1> SUFFICES ASSUME LossInv, [Next]_vars PROVE LossInv'
  OBVIOUS
<1>1. RefundInv /\ RefundInv'
  BY RefundStepKeeps DEF LossInv
<1>2. Gentle /\ (Quiet \/ \E q \in Refund : BecomesSuccess(q))
  BY StepGentle DEF LossInv
<1>3. \A o \in Order : Post(o) => Post(o)'
  <2>1. item' = item \/ Life!Next
    BY <1>1, LifeStep
  <2> QED
    BY <1>1, <2>1, SentStays DEF Post, RefundInv
<1>4. RowsLast
  BY <1>2, <1>3 DEF RowsLast, Gentle, OrdersLast, RefundsLast
<1>5. EndedFits'
  BY <1>1, <1>2, <1>4, EndsKept DEF LossInv, Gentle
<1>6. Sums'
  BY <1>1, <1>2, <1>4, QuietSums, SuccessSums DEF LossInv, Quiet
<1> QED
  BY <1>1, <1>2, <1>5, <1>6 DEF LossInv, Gentle

LEMMA InitLoss == Init => LossInv
<1> SUFFICES ASSUME Init PROVE LossInv
  OBVIOUS
<1>1. RefundInv
  BY InitRefund
<1>2. EndedFits /\ CopyNum
  BY DEF Init, EndedFits, CopyNum
<1>3. ASSUME NEW b \in Bought
      PROVE  SumFunctionOnSet(Kept(b), Order) + SumFunctionOnSet(Back(b), Refund) >= Num[b]
  <2> DEFINE f == Kept(b)
             u == Back(b)
  <2>1. (\A o \in Order : f[o] \in Nat) /\ (\A r \in Refund : u[r] \in Nat)
    BY <1>1, TermTypes DEF TermsOK
  <2>2. b \in Order /\ f[b] = Num[b] /\ Num[b] \in Nat
    BY RefundAssumption DEF Kept, Init, Settled, Success, Made, NoRow
  <2> HIDE DEF f, u
  <2>3. SumFunctionOnSet(f, Order) = f[b] + SumFunctionOnSet(f, Order \ {b})
        /\ SumFunctionOnSet(f, Order \ {b}) \in Nat /\ SumFunctionOnSet(u, Refund) \in Nat
    BY <2>1, <2>2, RowsFinite, SumRemove, SumPart
  <2>4. SumFunctionOnSet(f, Order) + SumFunctionOnSet(u, Refund) >= Num[b]
    BY <2>2, <2>3
  <2> QED
    BY <2>4 DEF f, u
<1> QED
  BY <1>1, <1>2, <1>3 DEF LossInv, Sums

\* What the invariant counts is what the property counts.
LEMMA CountsAgree ==
    ASSUME LossInv, NEW b \in Bought
    PROVE  Goods(b) + Refunded(b) >= Num[b]
<1> DEFINE left == {o \in OrdersOf(b) : order[o].status # "CLOSED" \/ Post(o)}
           done == {r \in RefundsOf(OrdersOf(b)) : Returned(r)}
           f == Kept(b)
           u == Back(b)
           num == [o \in left |-> order[o].num]
           got == [r \in done |-> refund[r].num]
           g == [o \in Order |-> IF o \in left THEN num[o] ELSE 0]
           v == [r \in Refund |-> IF r \in done THEN got[r] ELSE 0]
<1>1. RefundInv /\ TermsOK
  BY TermTypes DEF LossInv
<1>2. \A r \in Refund : Returned(r) <=> Success(r)
  BY <1>1 DEF RefundInv, RefundFits, TypeOK, Returned, Success
<1>3. left \in SUBSET Order /\ done \in SUBSET Refund
  BY DEF OrdersOf, RefundsOf
<1>4. \A o \in left : num[o] \in Int
  BY <1>1, RowTypes DEF OrdersOf
<1>5. \A r \in done : got[r] \in Int
  BY <1>1, <1>2, <1>3, RowTypes DEF Success
<1>6. \A o \in Order : f[o] \in Int /\ g[o] \in Int /\ f[o] <= g[o]
  <2> SUFFICES ASSUME NEW o \in Order PROVE f[o] \in Int /\ g[o] \in Int /\ f[o] <= g[o]
    OBVIOUS
  <2>1. f[o] \in Nat /\ order[o].num \in Nat
    BY <1>1, RowTypes DEF TermsOK
  <2>2. f[o] # 0 => o \in left /\ f[o] = order[o].num
    <3> SUFFICES ASSUME f[o] # 0 PROVE o \in left /\ f[o] = order[o].num
      OBVIOUS
    <3>1. order[o].status # "none" /\ order[o].root = b /\ (~Settled(o) \/ Post(o))
          /\ f[o] = order[o].num
      BY DEF Kept
    <3>2. order[o].status = "CLOSED" => Post(o)
      BY <3>1 DEF LossInv, EndedFits
    <3> QED
      BY <3>1, <3>2 DEF OrdersOf
  <2>3. g[o] \in Nat /\ (o \in left => g[o] = order[o].num)
    BY <2>1
  <2> QED
    BY <2>1, <2>2, <2>3
<1>7. \A r \in Refund : u[r] \in Int /\ v[r] \in Int /\ u[r] <= v[r]
  <2> SUFFICES ASSUME NEW r \in Refund PROVE u[r] \in Int /\ v[r] \in Int /\ u[r] <= v[r]
    OBVIOUS
  <2>1. u[r] \in Nat /\ (r \in done => refund[r].num \in Nat)
    BY <1>1, <1>2, RowTypes DEF TermsOK, Success
  <2>2. u[r] # 0 => r \in done /\ u[r] = refund[r].num
    BY <1>1, <1>2, RowTypes DEF Back, OrdersOf, RefundsOf, Success
  <2>3. v[r] \in Nat /\ (r \in done => v[r] = refund[r].num)
    BY <2>1
  <2> QED
    BY <2>1, <2>2, <2>3
<1>8. DOMAIN num = left /\ DOMAIN got = done
  OBVIOUS
<1>9. Goods(b) = SumFunctionOnSet(num, left) /\ Refunded(b) = SumFunctionOnSet(got, done)
  BY <1>8 DEF Goods, Refunded, SumFunction
<1>10. SumFunctionOnSet(f, Order) + SumFunctionOnSet(u, Refund) >= Num[b] /\ Num[b] \in Nat
  BY RefundAssumption DEF LossInv, Sums
<1>11. \A o \in Order : g[o] = IF o \in left THEN num[o] ELSE 0
  OBVIOUS
<1>12. \A r \in Refund : v[r] = IF r \in done THEN got[r] ELSE 0
  OBVIOUS
<1> HIDE DEF f, u, g, v, num, got, left, done
<1>13. SumFunctionOnSet(num, left) = SumFunctionOnSet(g, Order)
  BY <1>3, <1>4, <1>11, RowsFinite, SumSubset
<1>14. SumFunctionOnSet(got, done) = SumFunctionOnSet(v, Refund)
  BY <1>3, <1>5, <1>12, RowsFinite, SumSubset
<1>15. SumFunctionOnSet(f, Order) <= SumFunctionOnSet(g, Order)
       /\ SumFunctionOnSet(f, Order) \in Int /\ SumFunctionOnSet(g, Order) \in Int
  BY <1>6, RowsFinite, SumMonotonic, SumType
<1>16. SumFunctionOnSet(u, Refund) <= SumFunctionOnSet(v, Refund)
       /\ SumFunctionOnSet(u, Refund) \in Int /\ SumFunctionOnSet(v, Refund) \in Int
  BY <1>7, RowsFinite, SumMonotonic, SumType
<1> QED
  BY <1>9, <1>10, <1>13, <1>14, <1>15, <1>16

(* Nothing bought gets lost, however refunds of parts follow each other:   *)
(* what is not paid back was sent, is to be sent or is ordered again       *)
(* (refund_confirm, which orders the rest before it closes the order).     *)
THEOREM GoodsKept == Spec => []NothingIsLost
<1>1. LossInv => NothingIsLost
  BY CountsAgree DEF NothingIsLost
<1> QED BY <1>1, InitLoss, LossStep, PTL DEF Spec
=============================================================================
