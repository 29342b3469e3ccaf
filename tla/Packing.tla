------------------------------ MODULE Packing -------------------------------
(***************************************************************************)
(* The warehouse's side of one SKU and one delivery address: the SkuStock  *)
(* row, the PackageSkuItem and PurchaseArrangement rows of every order     *)
(* paid for, and the numbered PackageOrder rows the items are packed into. *)
(* Web requests, goods arriving, the celery tasks that book purchases and  *)
(* merge packages, warehouse staff and refunds interleave; each handler is *)
(* one step.                                                               *)
(***************************************************************************)
EXTENDS Naturals, Integers, FiniteSetsExt

CONSTANTS
    NItem,      \* items are numbered in the order of their pay_time
    Num,        \* PackageSkuItem.num of each item
    NPackage,   \* bound: packages of the address, -1, -2 ... in their ids
    NPurchase,  \* bound: purchase orders of the supplier, open one included
    Arrivals,   \* how many goods a movement of the stock may bring
    Losses,     \* how many goods a StockAdjust may write off
    MaxMoves,   \* bound: movements of the stock
    MaxReverts, \* bound: packages put back by staff
    MaxQueue    \* bound: queued tasks of one PurchaseArrangement

Item     == 1 .. NItem
Package  == 1 .. NPackage
Purchase == 1 .. NPurchase

ASSUME PackingAssumption ==
    /\ NItem \in Nat /\ NPackage \in Nat \ {0} /\ NPurchase \in Nat \ {0}
    /\ Num \in [Item -> Nat \ {0}]
    /\ Arrivals \subseteq Nat \ {0} /\ Losses \subseteq Nat \ {0}
    /\ MaxMoves \in Nat /\ MaxReverts \in Nat /\ MaxQueue \in Nat \ {0}

VARIABLES
    psi,    \* PackageSkuItem: status, assign_status, package, purchase order
    pa,     \* PurchaseArrangement: its row and its queued tasks
    po,     \* the supplier's open PurchaseOrder; earlier ones are booked
    stock,  \* SkuStock: goods received less goods lost, and its counters
    pkg,    \* PackageOrder: sys_status and what has been printed
    scan,   \* history: items at the last scan, and a revert since
    held,   \* items whose order has a refund under way
    moves,  \* movements of the stock so far
    reverts \* packages reverted so far

vars == <<psi, pa, po, stock, pkg, scan, held, moves, reverts>>

PsiStatus == {"none", "paid", "prepare_book", "booked", "assigned", "merged", "sent",
              "finish", "cancel"}
Assign    == {"none", "waiting", "assigned", "virtual", "sent", "cancelled"}
OpenStatus == {"PREPARE", "CHECK", "WEIGH"}
Gone       == {"RECEIVE", "FINISHED"}
SysStatus  == {"absent", "NEW"} \cup OpenStatus \cup Gone

TypeOK ==
    /\ psi \in [Item -> [status : PsiStatus, assign : Assign,
                         pack : {0} \cup Package, po : {0} \cup Purchase]]
    /\ pa \in [Item -> [status : {"none", "EFFECT", "CANCEL"}, po : Purchase,
                        initial_book : BOOLEAN, gen_order : BOOLEAN, queued : 0 .. MaxQueue]]
    /\ po \in Purchase
    /\ stock \in [quantity : Int, sold_num : Int, assign_num : Int, post_num : Int]
    /\ pkg \in [Package -> [sys : SysStatus, picking : BOOLEAN, express : BOOLEAN]]
    /\ scan \in [Package -> [items : SUBSET Item, reverted : BOOLEAN]]
    /\ held \in SUBSET Item
    /\ moves \in 0 .. MaxMoves /\ reverts \in 0 .. MaxReverts

NoRow  == [status |-> "none", assign |-> "none", pack |-> 0, po |-> 0]
NoPa   == [status |-> "none", po |-> 1, initial_book |-> FALSE, gen_order |-> FALSE, queued |-> 0]
NoScan == [items |-> {}, reverted |-> FALSE]
Blank  == [sys |-> "NEW", picking |-> FALSE, express |-> FALSE]

Init ==
    /\ psi = [i \in Item |-> NoRow]
    /\ pa = [i \in Item |-> NoPa]
    /\ po = 1
    /\ stock = [quantity |-> 0, sold_num |-> 0, assign_num |-> 0, post_num |-> 0]
    /\ pkg = [p \in Package |-> [Blank EXCEPT !.sys = "absent"]]
    /\ scan = [p \in Package |-> NoScan]
    /\ held = {}
    /\ moves = 0 /\ reverts = 0

-----------------------------------------------------------------------------
(* Sums over items, and the counters SkuStock.restat recomputes from them. *)

NumOf(S) == SumFunctionOnSet(Num, S)

With(items, assigns) == {i \in Item : items[i].assign \in assigns}

SoldNum(items)   == NumOf(With(items, {"waiting", "assigned", "virtual", "sent"}))
AssignNum(items) == NumOf(With(items, {"assigned"}))
PostNum(items)   == NumOf(With(items, {"sent"}))

RealtimeQuantity(s) == s.quantity - s.post_num
\* Mutant: goods set aside for other items count as free.
FreeNum_Realtime(s) == RealtimeQuantity(s)

FreeNum(s)          == RealtimeQuantity(s) - s.assign_num

-----------------------------------------------------------------------------
(* PurchaseArrangement.                                                    *)

(* Saving a row whose gen_order is off queues a task that generates the    *)
(* order; MaxQueue of them are kept.                                       *)
SavePa(r) ==
    IF r.gen_order THEN r
    ELSE [r EXCEPT !.queued = IF @ < MaxQueue THEN @ + 1 ELSE @]

NewPa == SavePa([status |-> "EFFECT", po |-> po, initial_book |-> FALSE,
                 gen_order |-> FALSE, queued |-> 0])

\* Mutant: the purchase of an item that got its goods goes on.
CancelPa_Keep(r) == r

CancelPa(r) ==
    IF r.status = "none" \/ r.initial_book THEN r
    ELSE SavePa([r EXCEPT !.status = "CANCEL"])

(* The PurchaseDetail of an earlier purchase order is not open any more.   *)
IsOpen(r) == r.po = po

(* Give an item back to purchasing after its goods were taken away.        *)
RebookedPa(r) ==
    CASE r.status = "none" -> NewPa
      [] r.status = "CANCEL" /\ ~r.initial_book ->
            [SavePa([r EXCEPT !.status = "EFFECT"]) EXCEPT !.po = po, !.gen_order = TRUE]
      [] OTHER -> r

-----------------------------------------------------------------------------
(* PackageOrder.                                                           *)

Sent(p) == pkg[p].sys \in Gone

(* gen_new_package_id: the first number whose package has not been sent.   *)
IsCurrent(p) == ~Sent(p) /\ \A q \in Package : q < p => Sent(q)

(* set_redo_sign: what is printed and past preparing is checked again.     *)
\* Mutants: a changed package may be weighed without another scan; a package
\* taken into use again stays invisible to staff.
SetRedoSign_Weigh(r) == [r EXCEPT !.sys = IF @ = "NEW" THEN "PREPARE" ELSE @]

SetRedoSign(r) ==
    [r EXCEPT !.sys = IF @ = "WEIGH" /\ r.picking THEN "CHECK"
                      ELSE IF @ = "NEW" THEN "PREPARE" ELSE @]

(* set_logistics_company: another carrier needs another express sheet.     *)
SetLogistics(r, other) == [r EXCEPT !.express = @ /\ ~other]

Contents(items, p) == {i \in Item : items[i].pack = p}
ToShip(p)          == {i \in Contents(psi, p) : psi[i].assign = "assigned"}

(* Package p after an item has left it, items being the rows then: checked *)
(* again if goods remain in it, otherwise as new.                          *)
\* Mutant: whatever is left in it, the package becomes new.
Released_Reset(p, items, other) ==
    IF p = 0 \/ Sent(p) THEN pkg ELSE [pkg EXCEPT ![p] = Blank]

Released(p, items, other) ==
    IF p = 0 \/ Sent(p) THEN pkg
    ELSE [pkg EXCEPT ![p] =
            IF \E i \in Contents(items, p) : items[i].assign = "assigned"
            THEN SetLogistics(SetRedoSign(@), other) ELSE Blank]

-----------------------------------------------------------------------------
(* SkuStock.assign and relase_assign.                                      *)

(* The items a walk in the order of the ids sets aside, skipping those too *)
(* big for what is left.                                                   *)
FirstFit(avail, S) ==
    CHOOSE T \in SUBSET S :
        \A i \in S : (i \in T) <=> NumOf({j \in T : j < i}) + Num[i] <= avail

(* A walk in the order of pay_time that stops at the first too big.        *)
InOrder(avail, S) == {i \in S : NumOf({j \in S : j <= i}) <= avail}

Waiting == With(psi, {"waiting"})

(* The goods of a purchase order go to the items booked with it first; 0   *)
(* stands for goods that come without one.                                 *)
Chosen(avail, order) ==
    LET own  == IF order = 0 THEN {} ELSE {i \in Waiting : psi[i].po = order}
        mine == own \cap FirstFit(avail, own)
    IN mine \cup InOrder(avail - NumOf(mine), Waiting \ mine)

SetAssigned(S, s) ==
    /\ psi' = [i \in Item |-> IF i \in S
                 THEN [psi[i] EXCEPT !.status = "assigned", !.assign = "assigned"] ELSE psi[i]]
    /\ pa' = [i \in Item |-> IF i \in S THEN CancelPa(pa[i]) ELSE pa[i]]
    /\ stock' = [s EXCEPT !.assign_num = @ + NumOf(S)]
    /\ UNCHANGED pkg

\* Mutant: the released goods stay in assign_num.
SetNotAssigned_NoStat(i, s) ==
    LET back  == pa[i].status = "CANCEL" /\ ~pa[i].initial_book
        items == [psi EXCEPT ![i].status = IF back THEN "prepare_book" ELSE "paid",
                             ![i].assign = "waiting", ![i].pack = 0]
    IN /\ psi' = items
       /\ pa' = [pa EXCEPT ![i] = RebookedPa(@)]
       /\ stock' = s
       /\ pkg' = Released(psi[i].pack, items, FALSE)

SetNotAssigned(i, s) ==
    LET was   == psi[i].pack
        back  == pa[i].status = "CANCEL" /\ ~pa[i].initial_book
        items == [psi EXCEPT ![i].status = IF back THEN "prepare_book" ELSE "paid",
                             ![i].assign = "waiting", ![i].pack = 0]
    IN /\ psi' = items
       /\ pa' = [pa EXCEPT ![i] = RebookedPa(@)]
       /\ stock' = [s EXCEPT !.assign_num = AssignNum(items)]
       /\ pkg' = Released(was, items, FALSE)

(* Of the items holding goods, the one paid last gives them back, also     *)
(* when exactly none are left over.  Without one the code only recounts    *)
(* assign_num.                                                             *)
RelaseAssign(s) ==
    LET S    == With(psi, {"assigned"})
        keep == s.assign_num <= 0 \/ FreeNum(s) > 0 \/ S = {}
    IN \/ /\ keep
          /\ stock' = s
          /\ UNCHANGED <<psi, pa, pkg>>
       \/ /\ ~keep
          /\ \E i \in S : (\A j \in S : j <= i) /\ SetNotAssigned(i, s)

AssignGoods(s, order) ==
    IF FreeNum(s) < 0 THEN RelaseAssign(s)
    ELSE SetAssigned(Chosen(FreeNum(s), order), s)

-----------------------------------------------------------------------------
(* PackageSkuItem.create: a paid order's item takes goods that are free,   *)
(* whoever else is waiting, or is handed to purchasing.                    *)
Create(i) ==
    /\ psi[i].status = "none"
    /\ LET can   == FreeNum(stock) >= Num[i]
           items == [psi EXCEPT ![i].status = IF can THEN "assigned" ELSE "paid",
                                ![i].assign = IF can THEN "assigned" ELSE "waiting"]
       IN /\ psi' = items
          /\ pa' = IF can THEN pa ELSE [pa EXCEPT ![i] = NewPa]
          /\ stock' = [stock EXCEPT !.sold_num = SoldNum(items), !.assign_num = AssignNum(items)]
    /\ UNCHANGED <<po, pkg, scan, held, moves, reverts>>

(* generate_order, by the queued task (whose transaction undoes all of it  *)
(* when the purchase order is booked already) or by the periodic one.      *)
GenerateOrder(i) ==
    /\ pa[i].status # "none" /\ IsOpen(pa[i])
    /\ psi' = [psi EXCEPT ![i].status = "prepare_book"]

\* Mutant: the task runs without having been queued.
RunTask_Unasked(i) ==
    /\ pa[i].status # "none"
    /\ pa' = [pa EXCEPT ![i].queued = @ - 1]
    /\ UNCHANGED <<psi, po, stock, pkg, scan, held, moves, reverts>>

RunTask(i) ==
    /\ pa[i].queued > 0
    /\ \/ /\ GenerateOrder(i)
          /\ pa' = [pa EXCEPT ![i].queued = @ - 1, ![i].gen_order = TRUE]
       \/ /\ ~IsOpen(pa[i])
          /\ pa' = [pa EXCEPT ![i].queued = @ - 1]
          /\ UNCHANGED psi
    /\ UNCHANGED <<po, stock, pkg, scan, held, moves, reverts>>

PeriodicTask(i) ==
    /\ ~pa[i].gen_order
    /\ GenerateOrder(i)
    /\ pa' = [pa EXCEPT ![i].gen_order = TRUE]
    /\ UNCHANGED <<po, stock, pkg, scan, held, moves, reverts>>

(* PurchaseOrder.book: the open order's arrangements are bought, to the    *)
(* warehouse or (third_package) sent off by the supplier.                  *)
Booked == {i \in Item : pa[i].status = "EFFECT" /\ pa[i].po = po}

Book(third_package) ==
    /\ po < NPurchase
    /\ \E i \in Item : pa[i].gen_order /\ IsOpen(pa[i])
    /\ po' = po + 1
    /\ pa' = [i \in Item |-> IF i \in Booked THEN [pa[i] EXCEPT !.initial_book = TRUE] ELSE pa[i]]
    /\ psi' = [i \in Item |-> IF i \in Booked
                 THEN [psi[i] EXCEPT !.status = "booked", !.po = po,
                                     !.assign = IF third_package THEN "virtual" ELSE @]
                 ELSE psi[i]]
    /\ UNCHANGED <<stock, pkg, scan, held, moves, reverts>>

(* Goods booked with a purchase order arrive, or (order = 0) are found or  *)
(* come back from a customer.                                              *)
Arrive(n, order) ==
    /\ moves < MaxMoves
    /\ moves' = moves + 1
    /\ AssignGoods([stock EXCEPT !.quantity = @ + n], order)
    /\ UNCHANGED <<po, scan, held, reverts>>

(* A StockAdjust writes goods off: one item loses its goods when none are  *)
(* left over.                                                              *)
WriteOff(n) ==
    /\ moves < MaxMoves
    /\ moves' = moves + 1
    /\ RelaseAssign([stock EXCEPT !.quantity = @ - n])
    /\ UNCHANGED <<po, scan, held, reverts>>

-----------------------------------------------------------------------------
(* batch_merge, one item of it.                                            *)
Merge(i, p, other) ==
    /\ psi[i].status = "assigned" /\ psi[i].pack = 0
    /\ IsCurrent(p)
    /\ psi' = [psi EXCEPT ![i].status = "merged", ![i].pack = p]
    /\ pkg' = [pkg EXCEPT ![p] = IF @.sys = "absent" THEN [@ EXCEPT !.sys = "PREPARE"]
                                 ELSE SetLogistics(SetRedoSign(@), other)]
    /\ UNCHANGED <<pa, po, stock, scan, held, moves, reverts>>

PrintPicking(p) ==
    /\ pkg[p].sys \in OpenStatus
    /\ pkg' = [pkg EXCEPT ![p].picking = TRUE]
    /\ UNCHANGED <<psi, pa, po, stock, scan, held, moves, reverts>>

(* The print page sets out_sid and then marks the express sheet printed.   *)
PrintExpress(p) ==
    /\ pkg[p].sys \in OpenStatus
    /\ pkg' = [pkg EXCEPT ![p].express = TRUE]
    /\ UNCHANGED <<psi, pa, po, stock, scan, held, moves, reverts>>

Printed(p) == pkg[p].picking /\ pkg[p].express

SendPackageTask(p) ==
    /\ pkg[p].sys = "PREPARE" /\ Printed(p)
    /\ pkg' = [pkg EXCEPT ![p].sys = "CHECK"]
    /\ UNCHANGED <<psi, pa, po, stock, scan, held, moves, reverts>>

(* checkerr: no order in the package may have a refund under way.          *)
NoError(p) == ToShip(p) \cap held = {}

ScanCheck(p) ==
    /\ pkg[p].sys = "CHECK" /\ Printed(p) /\ NoError(p)
    /\ pkg' = [pkg EXCEPT ![p].sys = "WEIGH"]
    /\ scan' = [scan EXCEPT ![p] = [items |-> ToShip(p), reverted |-> FALSE]]
    /\ UNCHANGED <<psi, pa, po, stock, held, moves, reverts>>

(* ScanWeight and finish_scan_weight: the package leaves.                  *)
ScanWeight(p) ==
    /\ pkg[p].sys = "WEIGH" /\ Printed(p) /\ NoError(p)
    /\ pkg' = [pkg EXCEPT ![p].sys = "RECEIVE"]
    /\ LET items == [i \in Item |-> IF i \in ToShip(p)
                       THEN [psi[i] EXCEPT !.status = "sent", !.assign = "sent"] ELSE psi[i]]
       IN /\ psi' = items
          /\ stock' = [stock EXCEPT !.assign_num = AssignNum(items), !.post_num = PostNum(items)]
    /\ scan' = [scan EXCEPT ![p] = NoScan]
    /\ UNCHANGED <<pa, po, held, moves, reverts>>

ChangeToPrepare(p) ==
    /\ pkg[p].sys \in {"CHECK", "WEIGH"}
    /\ reverts < MaxReverts
    /\ pkg' = [pkg EXCEPT ![p].sys = "PREPARE"]
    /\ reverts' = reverts + 1
    /\ UNCHANGED <<psi, pa, po, stock, scan, held, moves>>

(* batch_revert_status asks for new sheets and leaves sys_status alone.    *)
BatchRevert(p) ==
    /\ pkg[p].sys \in OpenStatus
    /\ reverts < MaxReverts
    /\ pkg' = [pkg EXCEPT ![p].picking = FALSE, ![p].express = FALSE]
    /\ scan' = [scan EXCEPT ![p].reverted = pkg[p].sys = "WEIGH"]
    /\ reverts' = reverts + 1
    /\ UNCHANGED <<psi, pa, po, stock, held, moves>>

-----------------------------------------------------------------------------
(* A refund of the order is asked for, is turned down, or cancels the item *)
(* (set_status_cancel, then the package's refresh).                        *)
HoldRefund(i) ==
    /\ psi[i].assign \in {"waiting", "assigned", "virtual"} /\ i \notin held
    /\ held' = held \cup {i}
    /\ UNCHANGED <<psi, pa, po, stock, pkg, scan, moves, reverts>>

RefuseRefund(i) ==
    /\ i \in held /\ psi[i].assign \in {"waiting", "assigned", "virtual"}
    /\ held' = held \ {i}
    /\ UNCHANGED <<psi, pa, po, stock, pkg, scan, moves, reverts>>

\* Mutant: an item that has left may still be cancelled.
Cancel_Sent(i, other) ==
    /\ i \in held
    /\ LET items == [psi EXCEPT ![i].status = "cancel", ![i].assign = "cancelled", ![i].pack = 0]
       IN /\ psi' = items
          /\ pkg' = Released(psi[i].pack, items, other)
          /\ stock' = [stock EXCEPT !.sold_num = SoldNum(items), !.assign_num = AssignNum(items)]
    /\ pa' = [pa EXCEPT ![i] = CancelPa(@)]
    /\ UNCHANGED <<po, scan, held, moves, reverts>>

Cancel(i, other) ==
    /\ i \in held
    /\ psi[i].assign \in {"waiting", "assigned", "virtual"}
    /\ LET items == [psi EXCEPT ![i].status = "cancel", ![i].assign = "cancelled", ![i].pack = 0]
       IN /\ psi' = items
          /\ pkg' = Released(psi[i].pack, items, other)
          /\ stock' = [stock EXCEPT !.sold_num = SoldNum(items), !.assign_num = AssignNum(items)]
    /\ pa' = [pa EXCEPT ![i] = CancelPa(@)]
    /\ UNCHANGED <<po, scan, held, moves, reverts>>

(* reset_assign_package: the address changed, the item is packed anew.     *)
ResetAssignPackage(i) ==
    /\ psi[i].pack # 0 /\ psi[i].assign # "sent"
    /\ reverts < MaxReverts
    /\ psi' = [psi EXCEPT ![i].status = "assigned", ![i].pack = 0]
    /\ pkg' = Released(psi[i].pack, psi', FALSE)
    /\ stock' = [stock EXCEPT !.sold_num = SoldNum(psi'), !.assign_num = AssignNum(psi'),
                              !.post_num = PostNum(psi')]
    /\ reverts' = reverts + 1
    /\ UNCHANGED <<pa, po, scan, held, moves>>

(* import_package: the supplier has sent the item itself, so what arrives  *)
(* with the purchase order leaves at once.                                 *)
ThirdSend(i) ==
    /\ psi[i].assign = "virtual"
    /\ psi' = [psi EXCEPT ![i].status = "sent", ![i].assign = "sent"]
    /\ stock' = [stock EXCEPT !.post_num = @ + Num[i], !.quantity = @ + Num[i]]
    /\ UNCHANGED <<pa, po, pkg, scan, held, moves, reverts>>

(* confirm_arrival: staff finish a package from the page of items that     *)
(* were weighed and are overdue.                                           *)
ConfirmArrival(p) ==
    /\ pkg[p].sys = "RECEIVE"
    /\ pkg' = [pkg EXCEPT ![p].sys = "FINISHED"]
    /\ psi' = [i \in Item |-> IF psi[i].pack = p /\ psi[i].assign = "sent"
                 THEN [psi[i] EXCEPT !.status = "finish"] ELSE psi[i]]
    /\ UNCHANGED <<pa, po, stock, scan, held, moves, reverts>>

-----------------------------------------------------------------------------
PackageStep(p) ==
    \/ PrintPicking(p) \/ PrintExpress(p) \/ SendPackageTask(p) \/ ScanCheck(p) \/ ScanWeight(p)
    \/ ConfirmArrival(p) \/ ChangeToPrepare(p) \/ BatchRevert(p)

ItemStep(i) ==
    \/ Create(i) \/ RunTask(i) \/ PeriodicTask(i)
    \/ HoldRefund(i) \/ RefuseRefund(i) \/ ResetAssignPackage(i) \/ ThirdSend(i)
    \/ \E other \in BOOLEAN : Cancel(i, other) \/ \E p \in Package : Merge(i, p, other)

Next ==
    \/ \E i \in Item : ItemStep(i)
    \/ \E p \in Package : PackageStep(p)
    \/ \E third_package \in BOOLEAN : Book(third_package)
    \/ \E n \in Arrivals, order \in 0 .. (po - 1) : Arrive(n, order)
    \/ \E n \in Losses : WriteOff(n)

Spec == Init /\ [][Next]_vars

(* The merge task is periodic and staff work on: sheets are printed, what  *)
(* is printed is released to the scanners, scanned and weighed.  Nothing   *)
(* is assumed of customers, suppliers and goods.                           *)
Fairness ==
    /\ \A i \in Item : WF_vars(\E p \in Package, other \in BOOLEAN : Merge(i, p, other))
    /\ \A p \in Package :
        /\ WF_vars(PrintPicking(p)) /\ WF_vars(PrintExpress(p))
        /\ WF_vars(SendPackageTask(p)) /\ WF_vars(ScanCheck(p)) /\ WF_vars(ScanWeight(p))

FairSpec == Spec /\ Fairness

-----------------------------------------------------------------------------
(* The counters sales and assigning decide by are what restat would count  *)
(* from the rows (test_psi.py asserts it after every step of one order).   *)
CountersExact ==
    /\ stock.sold_num = SoldNum(psi)
    /\ stock.assign_num = AssignNum(psi)
    /\ stock.post_num = PostNum(psi)

(* No goods are set aside twice: what is assigned is in the warehouse, as  *)
(* long as goods are written off one at a time (relase_assign takes back   *)
(* one item only).                                                         *)
NotOverAssigned == Losses \subseteq {1} => stock.assign_num <= Max({RealtimeQuantity(stock), 0})

(* Whoever waits for goods is in a purchase order, booked or still to be   *)
(* booked, and the next order is booked for nobody else: create, assign,   *)
(* cancel and release each keep the arrangement in step with the item.     *)
WaitingIsBought ==
    \A i \in Item :
        /\ psi[i].assign = "waiting" => pa[i].status = "EFFECT"
        /\ pa[i].status = "EFFECT" /\ ~pa[i].initial_book
              => psi[i].assign = "waiting" /\ IsOpen(pa[i])

(* What lies in a package leaves with it: goods in an open package are set *)
(* aside for their order, a package that is gone holds only goods sent,    *)
(* and a package that staff can no longer see (NEW) is empty.              *)
PackedInv ==
    \A i \in Item : psi[i].pack # 0 =>
        \/ psi[i].assign = "assigned" /\ pkg[psi[i].pack].sys \in OpenStatus
        \/ psi[i].assign = "sent" /\ Sent(psi[i].pack)

(* What leaves in a package is what the scan checked, no more and no less: *)
(* merging, cancelling, releasing and moving items all send it back to the *)
(* scan, unless staff reverted it after the scan (set_redo_sign then sees  *)
(* nothing printed).                                                       *)
ShippedWasChecked ==
    [][\A p \in Package : Sent(p)' /\ ~Sent(p) /\ ~scan[p].reverted
            => scan[p].items = {i \in Item : psi'[i].assign = "sent" /\ psi'[i].pack = p}]_vars


(* The items keep the warehouse's promise.                                 *)
Life == INSTANCE ItemLife WITH Item <- Item, life <- [i \in Item |-> psi[i].assign]

LifeKept == Life!Spec
=============================================================================
