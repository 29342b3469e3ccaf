--------------------------- MODULE CouponTransfer ---------------------------
(***************************************************************************)
(* Elite coupons (UserCoupon.TYPE_TRANSFER) of one template among agents   *)
(* ("mama").  Agents buy or are given coupons, ask their upper agent for   *)
(* some, hand them down or back up, sell them back to the system, pay      *)
(* trades with them and exchange them for the orders of the agents below.  *)
(* Every movement has a CouponTransferRecord; what an agent owns according *)
(* to the records is compared with the coupons by a daily task.            *)
(***************************************************************************)
EXTENDS Integers, FiniteSetsExt, SequencesExt

CONSTANTS
    Mama,       \* agents
    Direct,     \* the agents who may buy without asking (XiaoluMama.DIRECT)
    Upper,      \* ReferalRelationship: the agent above each other agent
    Coupon,     \* coupons
    MaxHops,    \* how far get_ship_chain walks up (10)
    MaxRecord,  \* bound: number of records
    Careful     \* people act only on returns that are under way, take back only
                \* gifts that were not passed on, and sell a purchase back once

System == "SYSTEM" \* the mama with id 0

ASSUME CouponAssumption ==
    /\ Direct \subseteq Mama /\ System \notin Mama
    /\ Upper \in [Mama \ Direct -> Mama]
    /\ IsFiniteSet(Coupon)
    /\ MaxHops \in Nat \ {0}
    /\ MaxRecord \in Nat /\ Careful \in BOOLEAN

VARIABLES
    coupon, \* UserCoupon rows
    record  \* CouponTransferRecord rows, in the order of their creation

vars == <<coupon, record>>

RecordId == 1 .. MaxRecord

CouponRow ==
    [status   : {"none", "UNUSED", "USED", "FREEZE", "CANCEL"},
     owner    : Mama \cup {System},    \* customer_id
     bought   : RecordId \cup {0},     \* the purchase or gift it comes from
     chain    : Seq(Mama),             \* extras['chain']
     frozenBy : RecordId \cup {0},     \* extras['freeze_by_transfer_id']
     debt     : BOOLEAN]               \* extras['freeze_type']

RecordRow ==
    [type   : {"IN_BUY_COUPON", "IN_GIFT_COUPON", "OUT_TRANSFER", "OUT_CONSUMED",
               "IN_RETURN_GOODS", "IN_RETURN_COUPON", "OUT_CASHOUT",
               "OUT_EXCHG_SALEORDER", "IN_CANCEL_EXCHG"},
     from   : Mama \cup {System}, to : Mama \cup {System},
     num    : Nat,                     \* coupon_num
     status : {"PENDING", "PROCESSED", "DELIVERED", "CANCELED"},
     order  : RecordId,                \* order_no: the record it began with
     spent  : SUBSET Coupon]           \* TransferCouponDetail of what was used

TypeOK ==
    /\ coupon \in [Coupon -> CouponRow]
    /\ record \in Seq(RecordRow) /\ Len(record) <= MaxRecord

Init ==
    /\ coupon = [c \in Coupon |-> [status |-> "none", owner |-> System, bought |-> 0,
                                   chain |-> <<>>, frozenBy |-> 0, debt |-> FALSE]]
    /\ record = <<>>

-----------------------------------------------------------------------------
(* What the handlers read.                                                 *)
Id == 1 .. Len(record)
NewId == Len(record) + 1
CanAdd == Len(record) < MaxRecord

IsOpen(r) == record[r].status \in {"PENDING", "PROCESSED"}

With(m, status) == {c \in Coupon : coupon[c].owner = m /\ coupon[c].status = status}

\* get_freeze_boutique_coupons_by_transfer: the mark stays when a coupon is released.
FrozenBy(r) == {c \in Coupon : coupon[c].status = "FREEZE" /\ coupon[c].frozenBy = r}

\* get_coupon_stock_num: what came in less what went out.
Moved(r, m) == (IF record[r].to = m THEN record[r].num ELSE 0)
               - (IF record[r].from = m THEN record[r].num ELSE 0)
Stock(m) ==
    SumFunctionOnSet([r \in Id |-> IF record[r].status = "DELIVERED" THEN Moved(r, m) ELSE 0], Id)

\* Mutant: only the agent above `to` is remembered.
ShipChains_Last(from, to) == {<<Upper[to]>>}

(* get_ship_chain: the agents from the one above down to the one above     *)
(* `to`, if the walk up ends before it is too long.  There is none where   *)
(* it ends at an agent without an upper one: the loop would not stop.      *)
ShipChains(from, to) ==
    {chain \in BoundedSeq(Mama, MaxHops) :
        LET path == Append(chain, to)
        IN /\ \A i \in 1 .. Len(chain) :
                /\ path[i + 1] \notin Direct \cup {from}
                /\ path[i] = Upper[path[i + 1]]
           /\ path[1] = from \/ Len(chain) = MaxHops}

\* Mutant: a record does not say which order it belongs to.
New_Unordered(type, from, to, num, status, order, spent) ==
    [type |-> type, from |-> from, to |-> to, num |-> num, status |-> status,
     order |-> 0, spent |-> spent]

New(type, from, to, num, status, order, spent) ==
    [type |-> type, from |-> from, to |-> to, num |-> num, status |-> status,
     order |-> order, spent |-> spent]

\* rollback_user_coupon_status_2_unused_by_ids, use_coupon_by_ids, cancel_coupon_by_ids
Set(S, status) ==
    [c \in Coupon |-> IF c \in S THEN [coupon[c] EXCEPT !.status = status] ELSE coupon[c]]

-----------------------------------------------------------------------------
(* Buying and being given coupons.                                         *)
Create(m, S, type) ==
    /\ CanAdd
    /\ coupon' = [c \in Coupon |->
            IF c \in S THEN [coupon[c] EXCEPT !.status = "UNUSED", !.owner = m, !.bought = NewId]
            ELSE coupon[c]]
    /\ record' = Append(record, New(type, System, m, Cardinality(S), "DELIVERED", NewId, {}))

\* task_send_transfer_coupons, for a finished purchase.
Buy(m, S) == Create(m, S, "IN_BUY_COUPON")

\* A gift of staff, and taking it back while it is unused.
Give(m, c) == Create(m, {c}, "IN_GIFT_COUPON")

IsGift(c) == coupon[c].bought # 0 /\ record[coupon[c].bought].type = "IN_GIFT_COUPON"

CancelGift(c) ==
    /\ IsGift(c) /\ coupon[c].status = "UNUSED"
    /\ Careful => coupon[c].chain = <<>>
    /\ coupon' = Set({c}, "CANCEL")
    /\ record' = [record EXCEPT ![coupon[c].bought].status = "CANCELED"]

-----------------------------------------------------------------------------
(* Asking the upper agent for coupons.                                     *)
Asking(m) == \E r \in Id : record[r].type = "OUT_TRANSFER" /\ record[r].to = m /\ IsOpen(r)

\* gen_transfer_record: m asks the agent above.
Request(m, num, order) == New("OUT_TRANSFER", Upper[m], m, num, "PENDING", order, {})

Apply(m, num) ==
    /\ m \notin Direct /\ ~Asking(m) /\ CanAdd
    /\ record' = Append(record, Request(m, num, NewId))
    /\ UNCHANGED coupon

CancelApply(r) ==
    /\ record[r].type = "OUT_TRANSFER" /\ record[r].status = "PENDING" /\ record[r].order = r
    /\ record' = [record EXCEPT ![r].status = "CANCELED"]
    /\ UNCHANGED coupon

\* Mutant: what was processed is processed again.
CanProcess_Again(r) == record[r].type = "OUT_TRANSFER"

CanProcess(r) == record[r].type = "OUT_TRANSFER" /\ record[r].status = "PENDING"

(* The upper agent has enough and hands them to the agent who first asked, *)
(* which completes every record of the order.                              *)
Deliver(r, S) ==
    LET first == record[r].order
        final == record[first].to
    IN /\ CanProcess(r) /\ Stock(record[r].from) >= record[r].num
       /\ S \subseteq With(record[r].from, "UNUSED") /\ Cardinality(S) = record[r].num
       /\ record' = [o \in Id |-> IF record[o].order = first
                                  THEN [record[o] EXCEPT !.status = "DELIVERED"] ELSE record[o]]
       /\ \E up \in ShipChains(record[r].from, final) :
            coupon' = [c \in Coupon |->
                IF c \in S THEN [coupon[c] EXCEPT !.owner = final, !.chain = @ \o up] ELSE coupon[c]]

(* Or has not enough and asks the agent above in turn; an agent who may    *)
(* buy is told to do so, with the record already set to PROCESSED.         *)
PassOn(r) ==
    LET m == record[r].from
    IN /\ CanProcess(r) /\ Stock(m) < record[r].num /\ ~Asking(m)
       /\ m \notin Direct => CanAdd
       /\ LET processed == [record EXCEPT ![r].status = "PROCESSED"]
          IN record' = IF m \in Direct THEN processed
                       ELSE Append(processed, Request(m, record[r].num, record[r].order))
       /\ UNCHANGED coupon

-----------------------------------------------------------------------------
(* Handing coupons back to the agent above, who has to agree.              *)
Freeze(S) ==
    coupon' = [c \in Coupon |->
        IF c \in S THEN [coupon[c] EXCEPT !.status = "FREEZE", !.frozenBy = NewId] ELSE coupon[c]]

ApplyReturn(m, S) ==
    /\ CanAdd
    /\ \E up \in Mama :
         /\ \A c \in S : coupon[c].chain # <<>> /\ Last(coupon[c].chain) = up
         /\ record' = Append(record, New("IN_RETURN_COUPON", m, up, Cardinality(S),
                                         "PENDING", NewId, {}))
    /\ Freeze(S)

IsPendingReturn(r) == record[r].type = "IN_RETURN_COUPON" /\ record[r].status = "PENDING"

AgreeReturn(r) ==
    /\ IsPendingReturn(r)
    /\ record' = [record EXCEPT ![r].status = "PROCESSED"]
    /\ UNCHANGED coupon

\* Mutant: the coupons of a rejected return stay frozen.
RejectReturn_Frozen(r) ==
    /\ IsPendingReturn(r)
    /\ record' = [record EXCEPT ![r].status = "CANCELED"]
    /\ UNCHANGED coupon

RejectReturn(r) ==
    /\ IsPendingReturn(r)
    /\ record' = [record EXCEPT ![r].status = "CANCELED"]
    /\ coupon' = Set(FrozenBy(r), "UNUSED")

(* return_transfer_coupon, by whom the coupons belong to.  It does not     *)
(* look at the record's status: the agent above need not have agreed.      *)
ReturnUp(m, r) ==
    LET up == record[r].to
        S  == {c \in FrozenBy(r) : coupon[c].owner = m}
    IN /\ S # {} /\ up # System /\ (Careful => IsOpen(r))
       /\ \A c \in S : coupon[c].chain # <<>> /\ Last(coupon[c].chain) = up
       /\ record' = [record EXCEPT ![r].status = "DELIVERED"]
       /\ coupon' = [c \in Coupon |->
               IF c \in S THEN [coupon[c] EXCEPT !.status = "UNUSED", !.owner = up, !.chain = Front(@)]
               ELSE coupon[c]]

\* cancel_return_2_upper_transfer, cancel_return_2_sys_transfer: no look at the status.
CancelReturn(r) ==
    /\ FrozenBy(r) # {} /\ (Careful => IsOpen(r))
    /\ record' = [record EXCEPT ![r].status = "CANCELED"]
    /\ coupon' = Set(FrozenBy(r), "UNUSED")

-----------------------------------------------------------------------------
(* Selling coupons back to the system, which staff agree to.               *)
ApplyCashout(m, S, r) ==
    /\ CanAdd
    /\ record[r].type = "IN_BUY_COUPON"
    /\ \A c \in S : coupon[c].bought = r /\ coupon[c].chain = <<>>
    /\ Careful => \A o \in Id : ~(record[o].type = "OUT_CASHOUT" /\ record[o].order = r
                                   /\ record[o].status # "CANCELED")
    /\ record' = Append(record, New("OUT_CASHOUT", m, System, Cardinality(S), "PENDING", r, {}))
    /\ Freeze(S)

\* The records of the exchange of purchase r: one at most.
ExchangeOf(r) ==
    {o \in Id : record[o].type = "OUT_EXCHG_SALEORDER" /\ record[o].order = r}

(* transfer_record_return_coupon_exchange: the agent above who exchanged   *)
(* the order gets coupons back for those that are sold back, frozen if the *)
(* wallet cannot pay the income back.                                      *)
UndoExchange(cashout, S, back, short) ==
    LET cancelled == Set(S, "CANCEL")
        exchange == CHOOSE o \in ExchangeOf(record[cashout].order) : TRUE
        usedUp == {c \in record[exchange].spent : cancelled[c].status # "UNUSED"}
        undone == New("IN_CANCEL_EXCHG", System, record[exchange].from, Cardinality(back),
                      "DELIVERED", record[cashout].order, {})
    IN /\ back \subseteq usedUp
       /\ Cardinality(back) = Min({Cardinality(S), Cardinality(usedUp)})
       /\ coupon' = [c \in Coupon |->
               IF c \notin back THEN cancelled[c]
               ELSE IF short THEN [cancelled[c] EXCEPT !.status = "FREEZE", !.debt = TRUE]
               ELSE [cancelled[c] EXCEPT !.status = "UNUSED"]]
       /\ record' = IF back = {} THEN [record EXCEPT ![cashout].status = "DELIVERED"]
                    ELSE Append([record EXCEPT ![cashout].status = "DELIVERED"], undone)

\* agree_apply_transfer_record_2_sys.  What became of the record is not looked at.
AgreeCashout(r, back, short) ==
    LET S == FrozenBy(r)
    IN /\ record[r].type = "OUT_CASHOUT" /\ S # {} /\ (Careful => IsOpen(r))
       /\ IF record[r].from \in Direct \/ ExchangeOf(record[r].order) = {}
          THEN /\ coupon' = Set(S, "CANCEL") /\ back = {} /\ ~short
               /\ record' = [record EXCEPT ![r].status = "DELIVERED"]
          ELSE CanAdd /\ UndoExchange(r, S, back, short)

\* unfreeze_user_coupon_by_userbudget, when the wallet is out of debt again.
Unfreeze(m) ==
    LET S == {c \in With(m, "FREEZE") : coupon[c].debt}
    IN /\ S # {}
       /\ coupon' = [c \in Coupon |->
               IF c \in S THEN [coupon[c] EXCEPT !.status = "UNUSED", !.debt = FALSE] ELSE coupon[c]]
       /\ UNCHANGED record

-----------------------------------------------------------------------------
(* Spending coupons.  A trade is placed and confirmed in one step here.    *)
Spend(m, S, type, order) ==
    /\ CanAdd
    /\ coupon' = Set(S, "USED")
    /\ record' = Append(record, New(type, m, System, Cardinality(S), "DELIVERED", order, S))

Consume(m, S) == Spend(m, S, "OUT_CONSUMED", NewId)

\* The coupons that are still used up by record r.
StillSpent(r) ==
    {c \in record[r].spent : coupon[c].status = "USED"
                             /\ \A later \in Id : c \in record[later].spent => later <= r}

(* task_return_user_coupon_by_trade, when the last refund of a trade makes *)
(* it refunded as a whole, for as many coupons as that refund has pieces.  *)
ReturnGoods(r, S) ==
    /\ record[r].type = "OUT_CONSUMED" /\ S \subseteq StillSpent(r) /\ S # {} /\ CanAdd
    /\ \A o \in Id : ~(record[o].type = "IN_RETURN_GOODS" /\ record[o].order = r)
    /\ coupon' = Set(S, "UNUSED")
    /\ record' = Append(record, New("IN_RETURN_GOODS", System, record[r].from, Cardinality(S),
                                    "DELIVERED", r, {}))

(* start_exchange: the agent above of the one who bought has enough.        *)
CanExchange(m, r, num) ==
    /\ record[r].type = "IN_BUY_COUPON" /\ record[r].to \notin Direct /\ Upper[record[r].to] = m
    /\ num <= record[r].num /\ num <= Stock(m)

(* coupon_exchange_saleorder: the agent above earns the purchase r with    *)
(* coupons of its own; once per purchase (uni_key).                        *)
Exchange(m, r, S) ==
    /\ CanExchange(m, r, Cardinality(S)) /\ ExchangeOf(r) = {}
    /\ Spend(m, S, "OUT_EXCHG_SALEORDER", r)

-----------------------------------------------------------------------------
Unborn == {c \in Coupon : coupon[c].status = "none"}

Next ==
    \/ \E m \in Mama :
         \/ \E S \in SUBSET Unborn \ {{}} : Buy(m, S)
         \/ \E c \in Unborn : Give(m, c)
         \/ \E num \in 1 .. Cardinality(Coupon) : Apply(m, num)
         \/ \E S \in SUBSET With(m, "UNUSED") \ {{}} :
              \/ ApplyReturn(m, S)
              \/ Consume(m, S)
              \/ \E r \in Id : ApplyCashout(m, S, r) \/ Exchange(m, r, S)
         \/ \E r \in Id : ReturnUp(m, r)
         \/ Unfreeze(m)
    \/ \E c \in Coupon : CancelGift(c)
    \/ \E r \in Id :
         \/ CancelApply(r) \/ PassOn(r)
         \/ AgreeReturn(r) \/ RejectReturn(r) \/ CancelReturn(r)
         \/ \E S \in SUBSET Coupon :
              \/ Deliver(r, S)
              \/ ReturnGoods(r, S)
              \/ \E short \in BOOLEAN : AgreeCashout(r, S, short)

Spec == Init /\ [][Next]_vars

-----------------------------------------------------------------------------
(* What an agent owns according to the records is what it holds, frozen    *)
(* coupons included: the daily task _diff_coupons finds nothing.           *)
BooksMatch ==
    \A m \in Mama : Stock(m) = Cardinality(With(m, "UNUSED") \cup With(m, "FREEZE"))

(* A coupon's chain leads from the agent who bought it down to its owner,  *)
(* one agent after the other, so that it can go back up the same way.      *)
ChainLeadsToOwner ==
    \A c \in Coupon \ Unborn :
        LET path == Append(coupon[c].chain, coupon[c].owner)
        IN /\ path[1] = record[coupon[c].bought].to
           /\ \A i \in 2 .. Len(path) : path[i] \notin Direct /\ Upper[path[i]] = path[i - 1]

(* A coupon is frozen for a debt or for a return that is under way, and a  *)
(* return under way has all its coupons frozen in its agent's hands.       *)
FrozenIsUnderWay ==
    /\ \A c \in Coupon : (coupon[c].status = "FREEZE" /\ ~coupon[c].debt) =>
           /\ IsOpen(coupon[c].frozenBy)
           /\ record[coupon[c].frozenBy].from = coupon[c].owner
    /\ \A r \in Id : (record[r].type \in {"IN_RETURN_COUPON", "OUT_CASHOUT"} /\ IsOpen(r)) =>
           Cardinality(FrozenBy(r)) = record[r].num
=============================================================================
