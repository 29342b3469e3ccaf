----------------------- MODULE CouponTransfer_proofs -----------------------
(***************************************************************************)
(* Proofs about the coupons of any number of agents: what an agent owns    *)
(* by the records is what it holds, coupons know the way back up, and what *)
(* is frozen has a return under way or a debt.                             *)
(***************************************************************************)
EXTENDS CouponTransfer, SequenceTheorems, Accounting_proofs

(***************************************************************************)
(* The inductive invariant.                                                *)
(***************************************************************************)
Returns == {"IN_RETURN_COUPON", "OUT_CASHOUT"}

\* An agent's coupons.
Held(m) == With(m, "UNUSED") \cup With(m, "FREEZE")

\* Requests are between agents, gifts from the system, cashouts to it.
BetweenRight(row) ==
    /\ row.type = "OUT_TRANSFER" => row.from \in Mama /\ row.to \in Mama
    /\ row.type = "IN_GIFT_COUPON" => row.from = System
    /\ row.type = "OUT_CASHOUT" => row.to = System

\* A record is of the order it began with.
RecordsFit ==
    /\ \A r \in Id :
         /\ record[r].order \in Id
         /\ record[r].type = "OUT_TRANSFER" <=> record[record[r].order].type = "OUT_TRANSFER"
         /\ BetweenRight(record[r])
    /\ \A c \in Coupon : coupon[c].bought \in Id \cup {0} /\ coupon[c].frozenBy \in Id \cup {0}

\* What the records of order k pass to m.
Asked(k, m) ==
    [o \in RecordId |-> IF o \in Id /\ record[o].order = k THEN Moved(o, m) ELSE 0]

\* While a request waits, its order's records lead from the agent asked to the
\* one who first asked, none is completed, and no other waits.
RequestFits(r, k) ==
    /\ \A o \in Id : record[o].order = k =>
         record[o].status # "DELIVERED" /\ (record[o].status = "PENDING" => o = r)
    /\ \A m \in Mama : SumFunctionOnSet(Asked(k, m), RecordId) =
         (IF record[k].to = m THEN record[r].num ELSE 0)
         - (IF record[r].from = m THEN record[r].num ELSE 0)
RequestsFit == \A r, k \in Id : CanProcess(r) /\ record[r].order = k => RequestFits(r, k)

\* An agent's coupons went down the line that leads from their buyer to it.
LeadsTo(path) == \A i \in 2 .. Len(path) : path[i] \notin Direct /\ Upper[path[i]] = path[i - 1]
ChainFits(c) ==
    IF coupon[c].status = "none" THEN coupon[c].chain = <<>>
    ELSE /\ coupon[c].owner \in Mama /\ coupon[c].bought \in Id
         /\ Append(coupon[c].chain, coupon[c].owner)[1] = record[coupon[c].bought].to
         /\ LeadsTo(Append(coupon[c].chain, coupon[c].owner))
ChainsFit == \A c \in Coupon : ChainFits(c)

\* A gift is one coupon, and is in force until that coupon is cancelled.
GiftFits(c) ==
    (coupon[c].status # "none" /\ IsGift(c)) =>
        /\ record[coupon[c].bought].num = 1
        /\ coupon[c].status # "CANCEL" => record[coupon[c].bought].status = "DELIVERED"
        /\ \A d \in Coupon : (coupon[d].status # "none" /\ coupon[d].bought = coupon[c].bought) => d = c
GiftsFit == \A c \in Coupon : GiftFits(c)

\* A coupon marked for a return under way is frozen in the hands of the agent
\* who returns it; the others that are frozen are so for a debt.
MarkFits(c) ==
    /\ coupon[c].frozenBy # 0 => record[coupon[c].frozenBy].type \in Returns
    /\ (coupon[c].frozenBy # 0 /\ IsOpen(coupon[c].frozenBy)) =>
         /\ coupon[c].status = "FREEZE" /\ ~coupon[c].debt
         /\ coupon[c].owner = record[coupon[c].frozenBy].from
    /\ coupon[c].debt => coupon[c].status = "FREEZE"
    /\ (coupon[c].status = "FREEZE" /\ ~coupon[c].debt) =>
         coupon[c].frozenBy # 0 /\ IsOpen(coupon[c].frozenBy)
MarksFit ==
    /\ \A c \in Coupon : MarkFits(c)
    /\ \A r \in Id : (record[r].type \in Returns /\ IsOpen(r)) => Cardinality(FrozenBy(r)) = record[r].num

\* Used coupons stay with the agent who used them.  An exchange keeps its
\* coupons until its purchase is sold back, which happens once.
SoldBack(r) == \E k \in Id : record[k].type = "OUT_CASHOUT" /\ record[k].order = r
                             /\ record[k].status = "DELIVERED"
SpentFits(r) ==
    /\ \A c \in StillSpent(r) : coupon[c].owner = record[r].from
    /\ (record[r].type = "OUT_EXCHG_SALEORDER" /\ ~SoldBack(record[r].order)) =>
         record[r].spent \subseteq StillSpent(r)
SoldOnce ==
    \A k, l \in Id : /\ record[k].type = "OUT_CASHOUT" /\ record[l].type = "OUT_CASHOUT"
                     /\ record[k].order = record[l].order
                     /\ record[k].status # "CANCELED" /\ record[l].status # "CANCELED"
                     => k = l
SpendingFits == SoldOnce /\ \A r \in Id : SpentFits(r)

CouponInv ==
    /\ TypeOK /\ RecordsFit /\ RequestsFit /\ ChainsFit /\ GiftsFit /\ MarksFit /\ SpendingFits
    /\ BooksMatch

-----------------------------------------------------------------------------
(***************************************************************************)
(* How records change: one is added, or one changes its status.            *)
(***************************************************************************)
Statuses == {"PENDING", "PROCESSED", "DELIVERED", "CANCELED"}

\* Records keep what they say, but for their status.
SameRecord(r) ==
    /\ record'[r].type = record[r].type /\ record'[r].num = record[r].num
    /\ record'[r].from = record[r].from /\ record'[r].to = record[r].to
    /\ record'[r].order = record[r].order /\ record'[r].spent = record[r].spent

RowsType == record' \in Seq(RecordRow) /\ Len(record') <= MaxRecord /\ Id \subseteq Id'

\* Record `new` is added.
Adds(new) ==
    /\ RowsType /\ Id' = Id \cup {NewId} /\ record'[NewId] = new
    /\ \A r \in Id : record'[r] = record[r]

\* Record k is now in status s.
Restates(k, s) ==
    /\ RowsType /\ Id' = Id /\ SameRecord(k) /\ record'[k].status = s
    /\ \A r \in Id \ {k} : record'[r] = record[r]

\* Both.
Continues(k, s, new) ==
    /\ RowsType /\ Id' = Id \cup {NewId} /\ record'[NewId] = new
    /\ SameRecord(k) /\ record'[k].status = s
    /\ \A r \in Id \ {k} : record'[r] = record[r]

LEMMA IdFacts ==
    ASSUME TypeOK
    PROVE  /\ Len(record) \in Nat /\ Id \subseteq RecordId /\ NewId \notin Id
           /\ NewId \in Nat /\ NewId # 0 /\ (CanAdd => NewId \in RecordId)
           /\ \A r \in Id : record[r] \in RecordRow
BY CouponAssumption DEF TypeOK, Id, NewId, CanAdd, RecordId

LEMMA AddsRow ==
    ASSUME TypeOK, CanAdd, NEW new \in RecordRow, record' = Append(record, new)
    PROVE  Adds(new)
<1>1. Len(record) \in Nat /\ record \in Seq(RecordRow) /\ MaxRecord \in Nat
  BY CouponAssumption DEF TypeOK
<1>2. /\ record' \in Seq(RecordRow) /\ Len(record') = Len(record) + 1
      /\ record'[Len(record) + 1] = new
      /\ \A r \in 1 .. Len(record) : record'[r] = record[r]
  BY <1>1, AppendProperties
<1> QED BY <1>1, <1>2 DEF Adds, RowsType, Id, NewId, CanAdd

LEMMA RestatedRow ==
    ASSUME TypeOK, NEW k \in Id, NEW s \in Statuses
    PROVE  LET rows == [record EXCEPT ![k].status = s]
           IN /\ rows \in Seq(RecordRow) /\ Len(rows) = Len(record)
              /\ \A r \in Id \ {k} : rows[r] = record[r]
              /\ rows[k].status = s
              /\ rows[k].type = record[k].type /\ rows[k].num = record[k].num
              /\ rows[k].from = record[k].from /\ rows[k].to = record[k].to
              /\ rows[k].order = record[k].order /\ rows[k].spent = record[k].spent
<1> DEFINE rows == [record EXCEPT ![k].status = s]
<1>1. record \in [Id -> RecordRow] /\ Len(record) \in Nat
  BY DEF TypeOK, Id
<1>2. [record[k] EXCEPT !.status = s] \in RecordRow
  BY <1>1 DEF RecordRow, Statuses
<1>3. rows \in [Id -> RecordRow]
  BY <1>1, <1>2
<1>4. rows \in Seq(RecordRow) /\ Len(rows) = Len(record)
  BY <1>1, <1>3 DEF Id
<1>5. rows[k] = [record[k] EXCEPT !.status = s] /\ \A r \in Id \ {k} : rows[r] = record[r]
  BY <1>1
<1>6. record[k] \in RecordRow
  BY <1>1
<1>7. ASSUME NEW row \in RecordRow
      PROVE  LET same == [row EXCEPT !.status = s]
             IN /\ same.status = s /\ same.type = row.type /\ same.num = row.num /\ same.from = row.from
                /\ same.to = row.to /\ same.order = row.order /\ same.spent = row.spent
  BY DEF RecordRow
<1>8. /\ rows[k].status = s
      /\ rows[k].type = record[k].type /\ rows[k].num = record[k].num
      /\ rows[k].from = record[k].from /\ rows[k].to = record[k].to
      /\ rows[k].order = record[k].order /\ rows[k].spent = record[k].spent
  <2> HIDE DEF rows
  <2> QED BY <1>5, <1>6, <1>7
<1> HIDE DEF rows
<1> QED BY <1>4, <1>5, <1>8 DEF rows

LEMMA RestatesRow ==
    ASSUME TypeOK, NEW k \in Id, NEW s \in Statuses, record' = [record EXCEPT ![k].status = s]
    PROVE  Restates(k, s)
<1>1. Id' = Id
  BY RestatedRow DEF Id
<1> QED BY <1>1, RestatedRow DEF Restates, RowsType, SameRecord, TypeOK

LEMMA ContinuesRow ==
    ASSUME TypeOK, CanAdd, NEW k \in Id, NEW s \in Statuses, NEW new \in RecordRow,
           record' = Append([record EXCEPT ![k].status = s], new)
    PROVE  Continues(k, s, new)
<1> DEFINE rows == [record EXCEPT ![k].status = s]
<1>1. /\ rows \in Seq(RecordRow) /\ Len(rows) = Len(record)
      /\ \A r \in Id \ {k} : rows[r] = record[r]
      /\ rows[k].status = s
      /\ rows[k].type = record[k].type /\ rows[k].num = record[k].num
      /\ rows[k].from = record[k].from /\ rows[k].to = record[k].to
      /\ rows[k].order = record[k].order /\ rows[k].spent = record[k].spent
  BY RestatedRow
<1> HIDE DEF rows
<1>2. Len(record) \in Nat /\ MaxRecord \in Nat
  BY CouponAssumption DEF TypeOK
<1>3. /\ record' \in Seq(RecordRow) /\ Len(record') = Len(record) + 1
      /\ record'[Len(record) + 1] = new
      /\ \A r \in 1 .. Len(record) : record'[r] = rows[r]
  BY <1>1, AppendProperties DEF rows
<1>4. RowsType /\ Id' = Id \cup {NewId} /\ record'[NewId] = new
  <2>1. Len(record') <= MaxRecord /\ Id \subseteq Id' /\ Id' = Id \cup {NewId}
    BY <1>2, <1>3 DEF Id, NewId, CanAdd
  <2> QED BY <1>3, <2>1 DEF RowsType, NewId
<1>5. \A r \in Id : record'[r] = rows[r]
  BY <1>3 DEF Id
<1>6. SameRecord(k) /\ record'[k].status = s
  BY <1>1, <1>5 DEF SameRecord
<1> QED BY <1>1, <1>4, <1>5, <1>6 DEF Continues

-----------------------------------------------------------------------------
(***************************************************************************)
(* What each action does to the rows.                                      *)
(***************************************************************************)
\* Only the status of c changes.
Becomes(c, status) ==
    /\ coupon'[c].status = status
    /\ coupon'[c].owner = coupon[c].owner /\ coupon'[c].bought = coupon[c].bought
    /\ coupon'[c].chain = coupon[c].chain /\ coupon'[c].frozenBy = coupon[c].frozenBy
    /\ coupon'[c].debt = coupon[c].debt

CouponsBecome(S, status) ==
    /\ coupon' \in [Coupon -> CouponRow]
    /\ \A c \in Coupon : c \notin S => coupon'[c] = coupon[c]
    /\ \A c \in Coupon : c \in S => Becomes(c, status)

CouponsFreeze(S) ==
    /\ coupon' \in [Coupon -> CouponRow]
    /\ \A c \in Coupon : c \notin S => coupon'[c] = coupon[c]
    /\ \A c \in Coupon : c \in S =>
         /\ coupon'[c].status = "FREEZE" /\ coupon'[c].frozenBy = NewId
         /\ coupon'[c].owner = coupon[c].owner /\ coupon'[c].bought = coupon[c].bought
         /\ coupon'[c].chain = coupon[c].chain /\ coupon'[c].debt = coupon[c].debt

CouponsBorn(S, m) ==
    /\ coupon' \in [Coupon -> CouponRow]
    /\ \A c \in Coupon : c \notin S => coupon'[c] = coupon[c]
    /\ \A c \in Coupon : c \in S =>
         /\ coupon'[c].status = "UNUSED" /\ coupon'[c].owner = m /\ coupon'[c].bought = NewId
         /\ coupon'[c].chain = coupon[c].chain /\ coupon'[c].frozenBy = coupon[c].frozenBy
         /\ coupon'[c].debt = coupon[c].debt

LEMMA SetBecomes ==
    ASSUME TypeOK, NEW S, NEW s \in {"none", "UNUSED", "USED", "FREEZE", "CANCEL"},
           coupon' = Set(S, s)
    PROVE  CouponsBecome(S, s)
<1>1. ASSUME NEW row \in CouponRow
      PROVE  LET only == [row EXCEPT !.status = s]
             IN /\ only \in CouponRow
                /\ only.status = s /\ only.owner = row.owner /\ only.bought = row.bought
                /\ only.chain = row.chain /\ only.frozenBy = row.frozenBy /\ only.debt = row.debt
  BY DEF CouponRow
<1>2. \A c \in Coupon : coupon[c] \in CouponRow
  BY DEF TypeOK
<1> QED BY <1>1, <1>2 DEF Set, CouponsBecome, Becomes

LEMMA FreezeFreezes ==
    ASSUME TypeOK, CanAdd, NEW S, Freeze(S)
    PROVE  CouponsFreeze(S)
<1>1. NewId \in RecordId
  BY IdFacts
<1>2. ASSUME NEW row \in CouponRow
      PROVE  LET frozen == [row EXCEPT !.status = "FREEZE", !.frozenBy = NewId]
             IN /\ frozen \in CouponRow
                /\ frozen.status = "FREEZE" /\ frozen.frozenBy = NewId
                /\ frozen.owner = row.owner /\ frozen.bought = row.bought
                /\ frozen.chain = row.chain /\ frozen.debt = row.debt
  BY <1>1 DEF CouponRow
<1>3. \A c \in Coupon : coupon[c] \in CouponRow
  BY DEF TypeOK
<1> QED BY <1>2, <1>3 DEF Freeze, CouponsFreeze

\* Sets of coupons are finite.
LEMMA CouponsFinite ==
    ASSUME NEW S, S \in SUBSET Coupon
    PROVE  IsFiniteSet(S) /\ Cardinality(S) \in Nat
BY CouponAssumption, FS_Subset, FS_CardinalityType

Created(m, S, type) == New(type, System, m, Cardinality(S), "DELIVERED", NewId, {})

LEMMA CreateRows ==
    ASSUME TypeOK, NEW m \in Mama, NEW S \in SUBSET Unborn,
           NEW type \in {"IN_BUY_COUPON", "IN_GIFT_COUPON"}, Create(m, S, type)
    PROVE  Adds(Created(m, S, type)) /\ CouponsBorn(S, m)
<1>1. NewId \in RecordId /\ CanAdd
  BY IdFacts DEF Create
<1>2. Cardinality(S) \in Nat
  BY CouponsFinite DEF Unborn
<1>3. Created(m, S, type) \in RecordRow
  BY <1>1, <1>2 DEF Created, New, RecordRow
<1>4. CouponsBorn(S, m)
  <2>1. /\ coupon \in [Coupon -> CouponRow]
        /\ coupon' = [c \in Coupon |->
              IF c \in S THEN [coupon[c] EXCEPT !.status = "UNUSED", !.owner = m, !.bought = NewId]
              ELSE coupon[c]]
    BY DEF Create, TypeOK
  <2>2. ASSUME NEW row \in CouponRow
        PROVE  LET born == [row EXCEPT !.status = "UNUSED", !.owner = m, !.bought = NewId]
               IN /\ born \in CouponRow
                  /\ born.status = "UNUSED" /\ born.owner = m /\ born.bought = NewId
                  /\ born.chain = row.chain /\ born.frozenBy = row.frozenBy /\ born.debt = row.debt
    BY <1>1 DEF CouponRow
  <2>3. \A c \in Coupon : coupon[c] \in CouponRow
    BY <2>1
  <2> QED BY <2>1, <2>2, <2>3 DEF CouponsBorn
<1> QED BY <1>1, <1>3, <1>4, AddsRow DEF Create, Created

LEMMA CancelGiftRows ==
    ASSUME TypeOK, RecordsFit, NEW c \in Coupon, CancelGift(c)
    PROVE  /\ coupon[c].bought \in Id /\ Restates(coupon[c].bought, "CANCELED")
           /\ CouponsBecome({c}, "CANCEL")
<1>1. coupon[c].bought \in Id
  BY DEF CancelGift, IsGift, RecordsFit
<1>2. "CANCELED" \in Statuses
  BY DEF Statuses
<1> QED BY <1>1, <1>2, RestatesRow, SetBecomes DEF CancelGift

LEMMA RequestRow ==
    ASSUME TypeOK, CanAdd, NEW m \in Mama \ Direct, NEW num \in Nat, NEW k \in RecordId
    PROVE  Request(m, num, k) \in RecordRow
BY CouponAssumption DEF Request, New, RecordRow

LEMMA ApplyRows ==
    ASSUME TypeOK, NEW m \in Mama, NEW num \in Nat, Apply(m, num)
    PROVE  Adds(Request(m, num, NewId)) /\ coupon' = coupon
BY IdFacts, RequestRow, AddsRow DEF Apply

LEMMA CancelApplyRows ==
    ASSUME TypeOK, NEW r \in Id, CancelApply(r)
    PROVE  Restates(r, "CANCELED") /\ coupon' = coupon
<1>1. "CANCELED" \in Statuses
  BY DEF Statuses
<1> QED BY <1>1, RestatesRow DEF CancelApply

LEMMA PassOnRows ==
    ASSUME TypeOK, RecordsFit, NEW r \in Id, PassOn(r)
    PROVE  LET m == record[r].from
           IN /\ m \in Mama /\ record[r].type = "OUT_TRANSFER" /\ record[r].status = "PENDING"
              /\ m \in Direct => Restates(r, "PROCESSED")
              /\ m \notin Direct => CanAdd /\ Continues(r, "PROCESSED", Request(m, record[r].num, record[r].order))
              /\ coupon' = coupon
<1> DEFINE m == record[r].from
<1>1. m \in Mama /\ record[r].num \in Nat /\ record[r].order \in RecordId
  BY IdFacts DEF PassOn, CanProcess, RecordsFit, BetweenRight, RecordRow
<1>2. "PROCESSED" \in Statuses
  BY DEF Statuses
<1>3. m \in Direct => Restates(r, "PROCESSED")
  BY <1>2, RestatesRow DEF PassOn
<1>4. m \notin Direct => CanAdd /\ Continues(r, "PROCESSED", Request(m, record[r].num, record[r].order))
  BY <1>1, <1>2, RequestRow, ContinuesRow DEF PassOn
<1> QED BY <1>1, <1>3, <1>4 DEF PassOn, CanProcess

\* The coupons S are handed down to `to` through the agents `up`.
CouponsHanded(S, to, up) ==
    /\ coupon' \in [Coupon -> CouponRow]
    /\ \A c \in Coupon : c \notin S => coupon'[c] = coupon[c]
    /\ \A c \in Coupon : c \in S =>
         /\ coupon'[c].owner = to /\ coupon'[c].chain = coupon[c].chain \o up
         /\ coupon'[c].status = coupon[c].status /\ coupon'[c].bought = coupon[c].bought
         /\ coupon'[c].frozenBy = coupon[c].frozenBy /\ coupon'[c].debt = coupon[c].debt

\* Every record of order k is completed.
Completes(k) ==
    /\ RowsType /\ Id' = Id
    /\ \A o \in Id : /\ record[o].order # k => record'[o] = record[o]
                     /\ record[o].order = k => SameRecord(o) /\ record'[o].status = "DELIVERED"

LEMMA ShipChainType ==
    ASSUME NEW from, NEW to, NEW up \in ShipChains(from, to)
    PROVE  up \in Seq(Mama)
<1>1. up \in UNION {[1 .. n -> Mama] : n \in 0 .. MaxHops}
  BY DEF ShipChains, BoundedSeq, SeqOf
<1>2. PICK n \in 0 .. MaxHops : up \in [1 .. n -> Mama]
  BY <1>1
<1> QED BY <1>2, CouponAssumption

LEMMA CompletesRows ==
    ASSUME TypeOK, NEW k,
           record' = [o \in Id |-> IF record[o].order = k
                                   THEN [record[o] EXCEPT !.status = "DELIVERED"] ELSE record[o]]
    PROVE  Completes(k)
<1>1. Len(record) \in Nat /\ Len(record) <= MaxRecord /\ \A o \in Id : record[o] \in RecordRow
  BY IdFacts DEF TypeOK
<1>2. record' \in [1 .. Len(record) -> RecordRow]
  BY <1>1 DEF Id, RecordRow
<1>3. record' \in Seq(RecordRow) /\ Len(record') = Len(record)
  BY <1>1, <1>2
<1>4. Id' = Id
  BY <1>3 DEF Id
<1>5. \A o \in Id : /\ record[o].order # k => record'[o] = record[o]
                    /\ record[o].order = k => SameRecord(o) /\ record'[o].status = "DELIVERED"
  BY <1>1 DEF SameRecord, RecordRow
<1> QED BY <1>1, <1>3, <1>4, <1>5 DEF Completes, RowsType

LEMMA DeliverRows ==
    ASSUME TypeOK, RecordsFit, NEW r \in Id, NEW S \in SUBSET Coupon, Deliver(r, S)
    PROVE  LET k == record[r].order
           IN /\ CanProcess(r) /\ k \in Id /\ record[k].to \in Mama /\ record[r].from \in Mama
              /\ S \subseteq With(record[r].from, "UNUSED") /\ Cardinality(S) = record[r].num
              /\ Completes(k)
              /\ \E up \in ShipChains(record[r].from, record[k].to) :
                    up \in Seq(Mama) /\ CouponsHanded(S, record[k].to, up)
<1> DEFINE k == record[r].order
<1>1. k \in Id /\ record[k].to \in Mama /\ record[r].from \in Mama
  BY DEF RecordsFit, BetweenRight, Deliver, CanProcess
<1>2. Completes(k)
  BY CompletesRows DEF Deliver
<1>3. PICK up \in ShipChains(record[r].from, record[k].to) :
        coupon' = [c \in Coupon |->
            IF c \in S THEN [coupon[c] EXCEPT !.owner = record[k].to, !.chain = @ \o up] ELSE coupon[c]]
  BY DEF Deliver
<1>4. up \in Seq(Mama)
  BY ShipChainType
<1>5. \A c \in Coupon : coupon[c].chain \o up \in Seq(Mama)
  BY <1>4 DEF TypeOK, CouponRow
<1>6. CouponsHanded(S, record[k].to, up)
  <2> DEFINE to == record[k].to
  <2>1. ASSUME NEW row \in CouponRow, row.chain \o up \in Seq(Mama)
        PROVE  LET handed == [row EXCEPT !.owner = to, !.chain = @ \o up]
               IN /\ handed \in CouponRow
                  /\ handed.owner = to /\ handed.chain = row.chain \o up
                  /\ handed.status = row.status /\ handed.bought = row.bought
                  /\ handed.frozenBy = row.frozenBy /\ handed.debt = row.debt
    BY <1>1, <2>1 DEF CouponRow
  <2>2. \A c \in Coupon : coupon[c] \in CouponRow
    BY DEF TypeOK
  <2> HIDE DEF to
  <2> QED BY <1>3, <1>5, <2>1, <2>2 DEF CouponsHanded, to
<1> QED BY <1>1, <1>2, <1>4, <1>6 DEF Deliver

Returned(m, up, S) == New("IN_RETURN_COUPON", m, up, Cardinality(S), "PENDING", NewId, {})

LEMMA ApplyReturnRows ==
    ASSUME TypeOK, NEW m \in Mama, NEW S \in SUBSET Coupon, ApplyReturn(m, S)
    PROVE  /\ CanAdd /\ CouponsFreeze(S)
           /\ \E up \in Mama : Adds(Returned(m, up, S))
<1>1. NewId \in RecordId /\ CanAdd /\ Cardinality(S) \in Nat
  BY IdFacts, CouponsFinite DEF ApplyReturn
<1>2. PICK up \in Mama : record' = Append(record, Returned(m, up, S))
  BY DEF ApplyReturn, Returned
<1>3. Returned(m, up, S) \in RecordRow
  BY <1>1 DEF Returned, New, RecordRow
<1> QED BY <1>1, <1>2, <1>3, AddsRow, FreezeFreezes DEF ApplyReturn

Sold(m, S, r) == New("OUT_CASHOUT", m, System, Cardinality(S), "PENDING", r, {})

LEMMA ApplyCashoutRows ==
    ASSUME TypeOK, NEW m \in Mama, NEW S \in SUBSET Coupon, NEW r \in Id, ApplyCashout(m, S, r)
    PROVE  CanAdd /\ CouponsFreeze(S) /\ Adds(Sold(m, S, r))
<1>1. r \in RecordId /\ CanAdd /\ Cardinality(S) \in Nat
  BY IdFacts, CouponsFinite DEF ApplyCashout
<1>2. Sold(m, S, r) \in RecordRow
  BY <1>1 DEF Sold, New, RecordRow
<1> QED BY <1>1, <1>2, AddsRow, FreezeFreezes DEF ApplyCashout, Sold

LEMMA AgreeReturnRows ==
    ASSUME TypeOK, NEW r \in Id, AgreeReturn(r)
    PROVE  /\ record[r].type = "IN_RETURN_COUPON" /\ record[r].status = "PENDING"
           /\ Restates(r, "PROCESSED") /\ coupon' = coupon
<1>1. "PROCESSED" \in Statuses
  BY DEF Statuses
<1> QED BY <1>1, RestatesRow DEF AgreeReturn, IsPendingReturn

LEMMA RejectReturnRows ==
    ASSUME TypeOK, NEW r \in Id, RejectReturn(r)
    PROVE  /\ record[r].type = "IN_RETURN_COUPON" /\ IsOpen(r)
           /\ Restates(r, "CANCELED") /\ CouponsBecome(FrozenBy(r), "UNUSED")
<1>1. "CANCELED" \in Statuses
  BY DEF Statuses
<1> QED BY <1>1, RestatesRow, SetBecomes DEF RejectReturn, IsPendingReturn, IsOpen

LEMMA CancelReturnRows ==
    ASSUME TypeOK, NEW r \in Id, CancelReturn(r)
    PROVE  /\ FrozenBy(r) # {} /\ (Careful => IsOpen(r))
           /\ Restates(r, "CANCELED") /\ CouponsBecome(FrozenBy(r), "UNUSED")
<1>1. "CANCELED" \in Statuses
  BY DEF Statuses
<1> QED BY <1>1, RestatesRow, SetBecomes DEF CancelReturn

CouponsReturn(S, up) ==
    /\ coupon' \in [Coupon -> CouponRow]
    /\ \A c \in Coupon : c \notin S => coupon'[c] = coupon[c]
    /\ \A c \in Coupon : c \in S =>
         /\ coupon'[c].status = "UNUSED" /\ coupon'[c].owner = up
         /\ coupon'[c].chain = Front(coupon[c].chain)
         /\ coupon'[c].bought = coupon[c].bought /\ coupon'[c].frozenBy = coupon[c].frozenBy
         /\ coupon'[c].debt = coupon[c].debt

LEMMA FrontType == ASSUME NEW s \in Seq(Mama), s # <<>> PROVE Front(s) \in Seq(Mama)
<1>1. Len(s) \in Nat /\ Len(s) # 0
  OBVIOUS
<1>2. Front(s) = SubSeq(s, 1, Len(s) - 1)
  BY DEF Front
<1> QED BY <1>1, <1>2

LEMMA ReturnUpRows ==
    ASSUME TypeOK, NEW m \in Mama, NEW r \in Id, ReturnUp(m, r)
    PROVE  LET up == record[r].to
               S  == {c \in FrozenBy(r) : coupon[c].owner = m}
           IN /\ S # {} /\ up \in Mama /\ (Careful => IsOpen(r))
              /\ \A c \in S : coupon[c].chain # <<>> /\ Last(coupon[c].chain) = up
              /\ Restates(r, "DELIVERED") /\ CouponsReturn(S, up)
<1> DEFINE up == record[r].to
           S  == {c \in FrozenBy(r) : coupon[c].owner = m}
<1>1. "DELIVERED" \in Statuses
  BY DEF Statuses
<1>2. up \in Mama
  BY IdFacts DEF ReturnUp, RecordRow
<1>3. S \subseteq Coupon /\ \A c \in S : coupon[c].chain # <<>>
  BY DEF ReturnUp, FrozenBy
<1>4. \A c \in S : Front(coupon[c].chain) \in Seq(Mama)
  BY <1>3, FrontType DEF TypeOK, CouponRow
<1>5. coupon' = [c \in Coupon |->
        IF c \in S THEN [coupon[c] EXCEPT !.status = "UNUSED", !.owner = up, !.chain = Front(@)]
        ELSE coupon[c]]
  BY DEF ReturnUp
<1>6. CouponsReturn(S, up)
  <2>1. ASSUME NEW row \in CouponRow, Front(row.chain) \in Seq(Mama)
        PROVE  LET back == [row EXCEPT !.status = "UNUSED", !.owner = up, !.chain = Front(@)]
               IN /\ back \in CouponRow
                  /\ back.status = "UNUSED" /\ back.owner = up /\ back.chain = Front(row.chain)
                  /\ back.bought = row.bought /\ back.frozenBy = row.frozenBy /\ back.debt = row.debt
    <3> HIDE DEF up
    <3> QED BY <1>2, <2>1 DEF CouponRow
  <2>2. \A c \in Coupon : coupon[c] \in CouponRow
    BY DEF TypeOK
  <2> HIDE DEF S, up
  <2> QED BY <1>3, <1>4, <1>5, <2>1, <2>2 DEF CouponsReturn
<1> QED BY <1>1, <1>2, <1>6, RestatesRow DEF ReturnUp

\* S is cancelled, and `back` is given back, frozen for a debt if `short`.
CouponsUndone(S, back, short) ==
    /\ coupon' \in [Coupon -> CouponRow]
    /\ \A c \in Coupon : c \notin S \cup back => coupon'[c] = coupon[c]
    /\ \A c \in Coupon : c \in S \ back => Becomes(c, "CANCEL")
    /\ \A c \in Coupon : c \in back =>
         /\ coupon'[c].status = IF short THEN "FREEZE" ELSE "UNUSED"
         /\ coupon'[c].debt = IF short THEN TRUE ELSE coupon[c].debt
         /\ coupon'[c].owner = coupon[c].owner /\ coupon'[c].bought = coupon[c].bought
         /\ coupon'[c].chain = coupon[c].chain /\ coupon'[c].frozenBy = coupon[c].frozenBy

Undone(e, back) ==
    New("IN_CANCEL_EXCHG", System, record[e].from, Cardinality(back), "DELIVERED", record[e].order, {})

LEMMA UndoExchangeRows ==
    ASSUME TypeOK, CanAdd, NEW r \in Id, NEW S \in SUBSET Coupon, NEW back \in SUBSET Coupon, NEW short \in BOOLEAN,
           UndoExchange(r, S, back, short), ExchangeOf(record[r].order) # {}
    PROVE  \E e \in ExchangeOf(record[r].order) :
             /\ back \subseteq record[e].spent
             /\ CouponsUndone(S, back, short)
             /\ back = {} => Restates(r, "DELIVERED")
             /\ back # {} => Continues(r, "DELIVERED", Undone(e, back))
<1> DEFINE e == CHOOSE o \in ExchangeOf(record[r].order) : TRUE
           cancelled == Set(S, "CANCEL")
<1>1. e \in ExchangeOf(record[r].order)
  OBVIOUS
<1>2. e \in Id /\ record[e].order = record[r].order
  BY <1>1 DEF ExchangeOf
<1>3. /\ back \subseteq {c \in record[e].spent : cancelled[c].status # "UNUSED"}
      /\ coupon' = [c \in Coupon |->
               IF c \notin back THEN cancelled[c]
               ELSE IF short THEN [cancelled[c] EXCEPT !.status = "FREEZE", !.debt = TRUE]
               ELSE [cancelled[c] EXCEPT !.status = "UNUSED"]]
      /\ record' = IF back = {} THEN [record EXCEPT ![r].status = "DELIVERED"]
                   ELSE Append([record EXCEPT ![r].status = "DELIVERED"],
                               New("IN_CANCEL_EXCHG", System, record[e].from, Cardinality(back),
                                   "DELIVERED", record[r].order, {}))
  BY DEF UndoExchange
<1> HIDE DEF e
<1>4. CouponsUndone(S, back, short)
  <2>1. \A c \in Coupon : coupon[c] \in CouponRow
    BY DEF TypeOK
  <2>2. ASSUME NEW c \in Coupon
        PROVE  /\ cancelled[c] = IF c \in S THEN [coupon[c] EXCEPT !.status = "CANCEL"] ELSE coupon[c]
               /\ coupon'[c] = IF c \notin back THEN cancelled[c]
                               ELSE IF short THEN [cancelled[c] EXCEPT !.status = "FREEZE", !.debt = TRUE]
                               ELSE [cancelled[c] EXCEPT !.status = "UNUSED"]
    BY <1>3 DEF Set
  <2> HIDE DEF cancelled
  <2>3. ASSUME NEW c \in Coupon
        PROVE  /\ cancelled[c] \in CouponRow
               /\ cancelled[c].owner = coupon[c].owner /\ cancelled[c].bought = coupon[c].bought
               /\ cancelled[c].chain = coupon[c].chain /\ cancelled[c].frozenBy = coupon[c].frozenBy
               /\ cancelled[c].debt = coupon[c].debt
               /\ c \in S => cancelled[c].status = "CANCEL"
               /\ c \notin S => cancelled[c] = coupon[c]
    <3>1. coupon[c] \in CouponRow
      BY <2>1
    <3>2. CASE c \notin S
      BY <2>2, <3>1, <3>2
    <3>3. CASE c \in S
      <4>1. cancelled[c] = [coupon[c] EXCEPT !.status = "CANCEL"]
        BY <2>2, <3>3
      <4>2. cancelled[c] \in CouponRow
        BY ONLY <3>1, <4>1 DEF CouponRow
      <4>3. /\ cancelled[c].owner = coupon[c].owner /\ cancelled[c].bought = coupon[c].bought
            /\ cancelled[c].chain = coupon[c].chain /\ cancelled[c].frozenBy = coupon[c].frozenBy
            /\ cancelled[c].debt = coupon[c].debt /\ cancelled[c].status = "CANCEL"
        BY ONLY <3>1, <4>1 DEF CouponRow
      <4> QED BY <3>3, <4>2, <4>3
    <3> QED BY <3>2, <3>3
  <2>4. ASSUME NEW c \in Coupon, c \in back
        PROVE  /\ coupon'[c] \in CouponRow
               /\ coupon'[c].status = IF short THEN "FREEZE" ELSE "UNUSED"
               /\ coupon'[c].debt = IF short THEN TRUE ELSE cancelled[c].debt
               /\ coupon'[c].owner = cancelled[c].owner /\ coupon'[c].bought = cancelled[c].bought
               /\ coupon'[c].chain = cancelled[c].chain /\ coupon'[c].frozenBy = cancelled[c].frozenBy
    <3> DEFINE row == cancelled[c]
    <3>1. row \in CouponRow
      BY <2>3
    <3>2. coupon'[c] = IF short THEN [row EXCEPT !.status = "FREEZE", !.debt = TRUE]
                       ELSE [row EXCEPT !.status = "UNUSED"]
      BY <2>2, <2>4
    <3> HIDE DEF row
    <3>3. CASE short
      <4>1. coupon'[c] = [row EXCEPT !.status = "FREEZE", !.debt = TRUE]
        BY <3>2, <3>3
      <4>2. coupon'[c] \in CouponRow
        BY ONLY <3>1, <4>1 DEF CouponRow
      <4>3. /\ coupon'[c].status = "FREEZE" /\ coupon'[c].debt = TRUE
            /\ coupon'[c].owner = row.owner /\ coupon'[c].bought = row.bought
            /\ coupon'[c].chain = row.chain /\ coupon'[c].frozenBy = row.frozenBy
        BY ONLY <3>1, <4>1 DEF CouponRow
      <4> QED BY <3>3, <4>2, <4>3 DEF row
    <3>4. CASE ~short
      <4>1. coupon'[c] = [row EXCEPT !.status = "UNUSED"]
        BY <3>2, <3>4
      <4>2. coupon'[c] \in CouponRow
        BY ONLY <3>1, <4>1 DEF CouponRow
      <4>3. /\ coupon'[c].status = "UNUSED" /\ coupon'[c].debt = row.debt
            /\ coupon'[c].owner = row.owner /\ coupon'[c].bought = row.bought
            /\ coupon'[c].chain = row.chain /\ coupon'[c].frozenBy = row.frozenBy
        BY ONLY <3>1, <4>1 DEF CouponRow
      <4> QED BY <3>4, <4>2, <4>3 DEF row
    <3> QED BY <3>3, <3>4
  <2>5. \A c \in Coupon : c \notin back => coupon'[c] = cancelled[c]
    BY <2>2
  <2>6. coupon' \in [Coupon -> CouponRow]
    <3>1. \A c \in Coupon : coupon'[c] \in CouponRow
      BY <2>3, <2>4, <2>5
    <3> QED BY <1>3, <3>1
  <2>7. \A c \in Coupon : c \notin S \cup back => coupon'[c] = coupon[c]
    BY <2>3, <2>5
  <2>8. \A c \in Coupon : c \in S \ back => Becomes(c, "CANCEL")
    BY <2>3, <2>5 DEF Becomes
  <2>9. \A c \in Coupon : c \in back =>
         /\ coupon'[c].status = IF short THEN "FREEZE" ELSE "UNUSED"
         /\ coupon'[c].debt = IF short THEN TRUE ELSE coupon[c].debt
         /\ coupon'[c].owner = coupon[c].owner /\ coupon'[c].bought = coupon[c].bought
         /\ coupon'[c].chain = coupon[c].chain /\ coupon'[c].frozenBy = coupon[c].frozenBy
    <3> SUFFICES ASSUME NEW c \in Coupon, c \in back
                 PROVE  /\ coupon'[c].status = IF short THEN "FREEZE" ELSE "UNUSED"
                        /\ coupon'[c].debt = IF short THEN TRUE ELSE coupon[c].debt
                        /\ coupon'[c].owner = coupon[c].owner /\ coupon'[c].bought = coupon[c].bought
                        /\ coupon'[c].chain = coupon[c].chain /\ coupon'[c].frozenBy = coupon[c].frozenBy
      OBVIOUS
    <3>1. cancelled[c].debt = coupon[c].debt
      BY <2>3
    <3>2. /\ coupon'[c].status = IF short THEN "FREEZE" ELSE "UNUSED"
          /\ coupon'[c].debt = IF short THEN TRUE ELSE cancelled[c].debt
      BY <2>4
    <3>3. /\ coupon'[c].owner = coupon[c].owner /\ coupon'[c].bought = coupon[c].bought
          /\ coupon'[c].chain = coupon[c].chain /\ coupon'[c].frozenBy = coupon[c].frozenBy
      <4>1. /\ cancelled[c].owner = coupon[c].owner /\ cancelled[c].bought = coupon[c].bought
            /\ cancelled[c].chain = coupon[c].chain /\ cancelled[c].frozenBy = coupon[c].frozenBy
        BY <2>3
      <4>2. /\ coupon'[c].owner = cancelled[c].owner /\ coupon'[c].bought = cancelled[c].bought
            /\ coupon'[c].chain = cancelled[c].chain /\ coupon'[c].frozenBy = cancelled[c].frozenBy
        BY <2>4
      <4> QED BY <4>1, <4>2
    <3> QED BY <3>1, <3>2, <3>3
  <2> QED BY <2>6, <2>7, <2>8, <2>9 DEF CouponsUndone
<1>5. Undone(e, back) \in RecordRow
  BY <1>2, IdFacts, CouponsFinite DEF Undone, New, RecordRow
<1>6. "DELIVERED" \in Statuses
  BY DEF Statuses
<1>7. back = {} => Restates(r, "DELIVERED")
  BY <1>3, <1>6, RestatesRow
<1>8. back # {} => record' = Append([record EXCEPT ![r].status = "DELIVERED"], Undone(e, back))
  BY <1>2, <1>3 DEF Undone
<1>9. back # {} => Continues(r, "DELIVERED", Undone(e, back))
  BY <1>5, <1>6, <1>8, ContinuesRow
<1> QED BY <1>1, <1>3, <1>4, <1>7, <1>9

LEMMA AgreeCashoutRows ==
    ASSUME TypeOK, NEW r \in Id, NEW back \in SUBSET Coupon, NEW short \in BOOLEAN,
           AgreeCashout(r, back, short)
    PROVE  LET S == FrozenBy(r)
           IN /\ record[r].type = "OUT_CASHOUT" /\ S # {} /\ (Careful => IsOpen(r))
              /\ \/ CouponsBecome(S, "CANCEL") /\ Restates(r, "DELIVERED")
                 \/ CanAdd /\ \E e \in ExchangeOf(record[r].order) :
                      /\ back \subseteq record[e].spent
                      /\ CouponsUndone(S, back, short)
                      /\ back = {} => Restates(r, "DELIVERED")
                      /\ back # {} => Continues(r, "DELIVERED", Undone(e, back))
<1> DEFINE S == FrozenBy(r)
<1>1. record[r].type = "OUT_CASHOUT" /\ S # {} /\ (Careful => IsOpen(r)) /\ S \in SUBSET Coupon
  BY DEF AgreeCashout, FrozenBy
<1>2. CASE record[r].from \in Direct \/ ExchangeOf(record[r].order) = {}
  <2>1. coupon' = Set(S, "CANCEL") /\ record' = [record EXCEPT ![r].status = "DELIVERED"]
    BY <1>2 DEF AgreeCashout
  <2>2. "DELIVERED" \in Statuses
    BY DEF Statuses
  <2> QED BY <1>1, <2>1, <2>2, RestatesRow, SetBecomes
<1>3. CASE ~(record[r].from \in Direct \/ ExchangeOf(record[r].order) = {})
  <2>1. CanAdd /\ UndoExchange(r, S, back, short)
    BY <1>3 DEF AgreeCashout
  <2>2. \E e \in ExchangeOf(record[r].order) :
             /\ back \subseteq record[e].spent
             /\ CouponsUndone(S, back, short)
             /\ back = {} => Restates(r, "DELIVERED")
             /\ back # {} => Continues(r, "DELIVERED", Undone(e, back))
    BY <1>1, <1>3, <2>1, UndoExchangeRows
  <2> QED BY <1>1, <2>1, <2>2
<1> QED BY <1>2, <1>3

LEMMA UnfreezeRows ==
    ASSUME TypeOK, NEW m \in Mama, Unfreeze(m)
    PROVE  LET S == {c \in With(m, "FREEZE") : coupon[c].debt}
           IN /\ coupon' \in [Coupon -> CouponRow]
              /\ \A c \in Coupon : c \notin S => coupon'[c] = coupon[c]
              /\ \A c \in Coupon : c \in S =>
                   /\ coupon'[c].status = "UNUSED" /\ coupon'[c].debt = FALSE
                   /\ coupon'[c].owner = coupon[c].owner /\ coupon'[c].bought = coupon[c].bought
                   /\ coupon'[c].chain = coupon[c].chain /\ coupon'[c].frozenBy = coupon[c].frozenBy
              /\ record' = record
<1>1. ASSUME NEW row \in CouponRow
      PROVE  LET released == [row EXCEPT !.status = "UNUSED", !.debt = FALSE]
             IN /\ released \in CouponRow
                /\ released.status = "UNUSED" /\ released.debt = FALSE
                /\ released.owner = row.owner /\ released.bought = row.bought
                /\ released.chain = row.chain /\ released.frozenBy = row.frozenBy
  BY DEF CouponRow
<1>2. \A c \in Coupon : coupon[c] \in CouponRow
  BY DEF TypeOK
<1> QED BY <1>1, <1>2 DEF Unfreeze, With

Spent(m, S, type, order) == New(type, m, System, Cardinality(S), "DELIVERED", order, S)

LEMMA SpendRows ==
    ASSUME TypeOK, NEW m \in Mama, NEW S \in SUBSET Coupon, NEW order \in Id \cup {NewId},
           NEW type \in {"OUT_CONSUMED", "OUT_EXCHG_SALEORDER"}, Spend(m, S, type, order)
    PROVE  Adds(Spent(m, S, type, order)) /\ CouponsBecome(S, "USED") /\ CanAdd
<1>1. CanAdd /\ Cardinality(S) \in Nat /\ order \in RecordId
  BY IdFacts, CouponsFinite DEF Spend
<1>2. Spent(m, S, type, order) \in RecordRow
  BY <1>1 DEF Spent, New, RecordRow
<1> QED BY <1>1, <1>2, AddsRow, SetBecomes DEF Spend, Spent

GivenBack(r, S) ==
    New("IN_RETURN_GOODS", System, record[r].from, Cardinality(S), "DELIVERED", r, {})

LEMMA ReturnGoodsRows ==
    ASSUME TypeOK, NEW r \in Id, NEW S \in SUBSET Coupon, ReturnGoods(r, S)
    PROVE  /\ record[r].type = "OUT_CONSUMED" /\ S \subseteq StillSpent(r)
           /\ Adds(GivenBack(r, S)) /\ CouponsBecome(S, "UNUSED")
<1>1. CanAdd /\ Cardinality(S) \in Nat /\ r \in RecordId /\ record[r] \in RecordRow
  BY IdFacts, CouponsFinite DEF ReturnGoods
<1>2. GivenBack(r, S) \in RecordRow
  BY <1>1 DEF GivenBack, New, RecordRow
<1> QED BY <1>1, <1>2, AddsRow, SetBecomes DEF ReturnGoods, GivenBack

-----------------------------------------------------------------------------
(***************************************************************************)
(* Types, which need no care of anybody.                                   *)
(***************************************************************************)
RowsLast == RowsType /\ Id' \subseteq Id \cup {NewId} /\ \A r \in Id : SameRecord(r)

LEMMA RowsLastAdds == ASSUME NEW new, Adds(new) PROVE RowsLast
BY DEF Adds, RowsLast, SameRecord

LEMMA RowsLastRestates == ASSUME NEW k, NEW s, Restates(k, s) PROVE RowsLast
BY DEF Restates, RowsLast, SameRecord

LEMMA RowsLastContinues == ASSUME NEW k, NEW s, NEW new, Continues(k, s, new) PROVE RowsLast
BY DEF Continues, RowsLast, SameRecord

LEMMA RowsLastCompletes == ASSUME NEW k, Completes(k) PROVE RowsLast
BY DEF Completes, RowsLast, SameRecord

LEMMA RowsLastSame == ASSUME TypeOK, record' = record PROVE RowsLast /\ Id' = Id
BY DEF TypeOK, RowsLast, RowsType, SameRecord, Id

\* A new record n belongs where it says.
NewFits(n) ==
    /\ n.order \in Id \cup {NewId}
    /\ n.order \in Id => (n.type = "OUT_TRANSFER" <=> record[n.order].type = "OUT_TRANSFER")
    /\ BetweenRight(n)

LEMMA FitOn ==
    ASSUME TypeOK, RecordsFit, RowsLast, NewId \in Id' => NewFits(record'[NewId]),
           coupon' \in [Coupon -> CouponRow],
           \A c \in Coupon : /\ coupon'[c].bought = coupon[c].bought \/ coupon'[c].bought \in Id'
                             /\ coupon'[c].frozenBy = coupon[c].frozenBy \/ coupon'[c].frozenBy \in Id'
    PROVE  TypeOK' /\ RecordsFit'
<1>1. TypeOK'
  BY DEF TypeOK, RowsLast, RowsType
<1>2. ASSUME NEW r \in Id'
      PROVE  /\ record'[r].order \in Id'
             /\ record'[r].type = "OUT_TRANSFER" <=> record'[record'[r].order].type = "OUT_TRANSFER"
             /\ BetweenRight(record'[r])
  <2>1. CASE r \in Id
    <3>1. record[r].order \in Id /\ Id \subseteq Id'
      BY <2>1 DEF RecordsFit, RowsLast, RowsType
    <3>2. SameRecord(r) /\ SameRecord(record[r].order)
      BY <2>1, <3>1 DEF RowsLast
    <3> QED BY <2>1, <3>1, <3>2 DEF RecordsFit, SameRecord, BetweenRight
  <2>2. CASE r \notin Id
    <3>1. r = NewId /\ NewFits(record'[r]) /\ Id \subseteq Id'
      BY <1>2, <2>2 DEF RowsLast, RowsType
    <3>2. CASE record'[r].order \in Id
      <4>1. SameRecord(record'[r].order)
        BY <3>2 DEF RowsLast
      <4> QED BY <3>1, <3>2, <4>1 DEF NewFits, SameRecord
    <3>3. CASE record'[r].order \notin Id
      BY <1>2, <3>1, <3>3 DEF NewFits
    <3> QED BY <3>2, <3>3
  <2> QED BY <2>1, <2>2
<1>3. Id \subseteq Id'
  BY DEF RowsLast, RowsType
<1>4. \A c \in Coupon : coupon'[c].bought \in Id' \cup {0} /\ coupon'[c].frozenBy \in Id' \cup {0}
  BY <1>3 DEF RecordsFit
<1> QED BY <1>1, <1>2, <1>4 DEF RecordsFit

\* The coupons keep their marks: they only become `status`, are handed on, ...
MarksLast ==
    /\ coupon' \in [Coupon -> CouponRow]
    /\ \A c \in Coupon : coupon'[c].bought = coupon[c].bought /\ coupon'[c].frozenBy = coupon[c].frozenBy

LEMMA FitAdded ==
    ASSUME TypeOK, RecordsFit, NEW new, Adds(new), NewFits(new), MarksLast
    PROVE  TypeOK' /\ RecordsFit'
BY RowsLastAdds, FitOn DEF Adds, MarksLast

LEMMA FitRestated ==
    ASSUME TypeOK, RecordsFit, NEW k, NEW s, Restates(k, s), MarksLast
    PROVE  TypeOK' /\ RecordsFit'
BY RowsLastRestates, FitOn, IdFacts DEF Restates, MarksLast

LEMMA BecomesMarks == ASSUME NEW S, NEW s, CouponsBecome(S, s) PROVE MarksLast
BY DEF CouponsBecome, Becomes, MarksLast

LEMMA SameMarks == ASSUME TypeOK, coupon' = coupon PROVE MarksLast
BY DEF TypeOK, MarksLast

LEMMA CreateFits ==
    ASSUME TypeOK, RecordsFit, NEW m \in Mama, NEW S \in SUBSET Unborn,
           NEW type \in {"IN_BUY_COUPON", "IN_GIFT_COUPON"}, Create(m, S, type)
    PROVE  TypeOK' /\ RecordsFit'
<1> DEFINE new == Created(m, S, type)
<1>1. Adds(new) /\ CouponsBorn(S, m)
  BY CreateRows
<1>2. NewFits(record'[NewId]) /\ NewId \in Id'
  BY <1>1, IdFacts DEF Created, New, NewFits, BetweenRight, Adds
<1> QED BY <1>1, <1>2, RowsLastAdds, FitOn DEF CouponsBorn

LEMMA FreezeFits ==
    ASSUME TypeOK, RecordsFit, NEW S, CouponsFreeze(S), NEW new, Adds(new), NewFits(new)
    PROVE  TypeOK' /\ RecordsFit'
<1>1. NewFits(record'[NewId]) /\ NewId \in Id'
  BY DEF Adds
<1> QED BY <1>1, RowsLastAdds, FitOn DEF CouponsFreeze

LEMMA DeliverFits ==
    ASSUME TypeOK, RecordsFit, NEW r \in Id, NEW S \in SUBSET Coupon, Deliver(r, S)
    PROVE  TypeOK' /\ RecordsFit'
<1> DEFINE k == record[r].order
<1>1. Completes(k)
  BY DeliverRows
<1>2. PICK up : CouponsHanded(S, record[k].to, up)
  BY DeliverRows
<1>3. NewId \notin Id'
  BY <1>1, IdFacts DEF Completes
<1> QED BY <1>1, <1>2, <1>3, RowsLastCompletes, FitOn DEF CouponsHanded

LEMMA PassOnFits ==
    ASSUME TypeOK, RecordsFit, NEW r \in Id, PassOn(r)
    PROVE  TypeOK' /\ RecordsFit'
<1> DEFINE m == record[r].from
           new == Request(m, record[r].num, record[r].order)
<1>1. MarksLast
  BY PassOnRows, SameMarks
<1>2. CASE m \in Direct
  BY <1>1, <1>2, PassOnRows, FitRestated
<1>3. CASE m \notin Direct
  <2>1. Continues(r, "PROCESSED", new) /\ m \in Mama /\ record[r].type = "OUT_TRANSFER"
    BY <1>3, PassOnRows
  <2>2. NewFits(new)
    BY <1>3, <2>1, CouponAssumption DEF NewFits, BetweenRight, Request, New, RecordsFit
  <2>3. NewFits(record'[NewId])
    BY <2>1, <2>2 DEF Continues
  <2> QED BY <1>1, <2>1, <2>3, RowsLastContinues, FitOn DEF MarksLast
<1> QED BY <1>2, <1>3

LEMMA AgreeCashoutFits ==
    ASSUME TypeOK, RecordsFit, NEW r \in Id, NEW back \in SUBSET Coupon, NEW short \in BOOLEAN,
           AgreeCashout(r, back, short)
    PROVE  TypeOK' /\ RecordsFit'
<1>1. CASE CouponsBecome(FrozenBy(r), "CANCEL") /\ Restates(r, "DELIVERED")
  BY <1>1, BecomesMarks, FitRestated
<1>2. ASSUME NEW e \in ExchangeOf(record[r].order), CouponsUndone(FrozenBy(r), back, short),
             back = {} => Restates(r, "DELIVERED"),
             back # {} => Continues(r, "DELIVERED", Undone(e, back))
      PROVE  TypeOK' /\ RecordsFit'
  <2>1. MarksLast
    BY <1>2 DEF CouponsUndone, Becomes, MarksLast
  <2>2. CASE back = {}
    BY <1>2, <2>1, <2>2, FitRestated
  <2>3. CASE back # {}
    <3>1. record[e].type # "OUT_TRANSFER" /\ e \in Id
      BY <1>2 DEF ExchangeOf
    <3>2. record[e].order \in Id /\ record[record[e].order].type # "OUT_TRANSFER"
      BY <3>1 DEF RecordsFit
    <3>3. NewFits(Undone(e, back))
      BY <3>2 DEF NewFits, BetweenRight, Undone, New
    <3>4. NewFits(record'[NewId])
      BY <1>2, <2>3, <3>3 DEF Continues
    <3> QED BY <1>2, <2>1, <2>3, <3>4, RowsLastContinues, FitOn DEF MarksLast
  <2> QED BY <2>2, <2>3
<1> QED BY <1>1, <1>2, AgreeCashoutRows

LEMMA SpendFits ==
    ASSUME TypeOK, RecordsFit, NEW m \in Mama, NEW S \in SUBSET Coupon, NEW order \in Id \cup {NewId},
           NEW type \in {"OUT_CONSUMED", "OUT_EXCHG_SALEORDER"}, Spend(m, S, type, order),
           order \in Id => record[order].type # "OUT_TRANSFER"
    PROVE  TypeOK' /\ RecordsFit'
<1>1. NewFits(Spent(m, S, type, order))
  BY DEF Spent, New, NewFits, BetweenRight
<1> QED BY <1>1, SpendRows, BecomesMarks, FitAdded

LEMMA TypesStep == TypeOK /\ RecordsFit /\ [Next]_vars => TypeOK' /\ RecordsFit'
<1> SUFFICES ASSUME TypeOK, RecordsFit, [Next]_vars PROVE TypeOK' /\ RecordsFit'
  OBVIOUS
<1> USE DEF Unborn
<1>1. ASSUME NEW m \in Mama, NEW S \in SUBSET Unborn, Buy(m, S) PROVE TypeOK' /\ RecordsFit'
  BY <1>1, CreateFits DEF Buy
<1>2. ASSUME NEW m \in Mama, NEW c \in Unborn, Give(m, c) PROVE TypeOK' /\ RecordsFit'
  <2>1. {c} \in SUBSET Unborn
    OBVIOUS
  <2> QED BY <1>2, <2>1, CreateFits DEF Give
<1>3. ASSUME NEW m \in Mama, NEW num \in 1 .. Cardinality(Coupon), Apply(m, num)
      PROVE  TypeOK' /\ RecordsFit'
  <2>1. num \in Nat /\ m \notin Direct
    BY <1>3, CouponsFinite DEF Apply
  <2>2. NewFits(Request(m, num, NewId))
    BY <2>1, IdFacts, CouponAssumption DEF NewFits, BetweenRight, Request, New
  <2> QED BY <1>3, <2>1, <2>2, ApplyRows, SameMarks, FitAdded
<1>4. ASSUME NEW m \in Mama, NEW S \in SUBSET Coupon, ApplyReturn(m, S) PROVE TypeOK' /\ RecordsFit'
  <2>1. PICK up \in Mama : Adds(Returned(m, up, S)) /\ CouponsFreeze(S)
    BY <1>4, ApplyReturnRows
  <2>2. NewFits(Returned(m, up, S))
    BY IdFacts DEF NewFits, BetweenRight, Returned, New
  <2> QED BY <2>1, <2>2, FreezeFits
<1>5. ASSUME NEW m \in Mama, NEW S \in SUBSET Coupon, Consume(m, S) PROVE TypeOK' /\ RecordsFit'
  BY <1>5, SpendFits, IdFacts DEF Consume
<1>6. ASSUME NEW m \in Mama, NEW S \in SUBSET Coupon, NEW r \in Id, ApplyCashout(m, S, r)
      PROVE  TypeOK' /\ RecordsFit'
  <2>1. NewFits(Sold(m, S, r))
    BY <1>6 DEF NewFits, BetweenRight, Sold, New, ApplyCashout
  <2> QED BY <1>6, <2>1, ApplyCashoutRows, FreezeFits
<1>7. ASSUME NEW m \in Mama, NEW S \in SUBSET Coupon, NEW r \in Id, Exchange(m, r, S)
      PROVE  TypeOK' /\ RecordsFit'
  <2>1. record[r].type # "OUT_TRANSFER"
    BY <1>7 DEF Exchange, CanExchange
  <2> QED BY <1>7, <2>1, SpendFits DEF Exchange
<1>8. ASSUME NEW m \in Mama, NEW r \in Id, ReturnUp(m, r) PROVE TypeOK' /\ RecordsFit'
  <2> DEFINE S == {c \in FrozenBy(r) : coupon[c].owner = m}
  <2>1. Restates(r, "DELIVERED") /\ CouponsReturn(S, record[r].to)
    BY <1>8, ReturnUpRows
  <2>2. MarksLast
    BY <2>1 DEF CouponsReturn, MarksLast
  <2> QED BY <2>1, <2>2, FitRestated
<1>9. ASSUME NEW m \in Mama, Unfreeze(m) PROVE TypeOK' /\ RecordsFit'
  <2>1. MarksLast /\ record' = record
    BY <1>9, UnfreezeRows DEF MarksLast
  <2>2. RowsLast /\ NewId \notin Id'
    BY <2>1, RowsLastSame, IdFacts
  <2> QED BY <2>1, <2>2, FitOn DEF MarksLast
<1>10. ASSUME NEW c \in Coupon, CancelGift(c) PROVE TypeOK' /\ RecordsFit'
  BY <1>10, CancelGiftRows, BecomesMarks, FitRestated
<1>11. ASSUME NEW r \in Id, CancelApply(r) \/ AgreeReturn(r) PROVE TypeOK' /\ RecordsFit'
  BY <1>11, CancelApplyRows, AgreeReturnRows, SameMarks, FitRestated
<1>12. ASSUME NEW r \in Id, RejectReturn(r) \/ CancelReturn(r) PROVE TypeOK' /\ RecordsFit'
  BY <1>12, RejectReturnRows, CancelReturnRows, BecomesMarks, FitRestated
<1>13. ASSUME NEW r \in Id, PassOn(r) PROVE TypeOK' /\ RecordsFit'
  BY <1>13, PassOnFits
<1>14. ASSUME NEW r \in Id, NEW S \in SUBSET Coupon, Deliver(r, S) PROVE TypeOK' /\ RecordsFit'
  BY <1>14, DeliverFits
<1>15. ASSUME NEW r \in Id, NEW S \in SUBSET Coupon, ReturnGoods(r, S) PROVE TypeOK' /\ RecordsFit'
  <2>1. NewFits(GivenBack(r, S))
    BY <1>15, ReturnGoodsRows DEF NewFits, BetweenRight, GivenBack, New
  <2> QED BY <1>15, <2>1, ReturnGoodsRows, BecomesMarks, FitAdded
<1>16. ASSUME NEW r \in Id, NEW S \in SUBSET Coupon, NEW short \in BOOLEAN, AgreeCashout(r, S, short)
       PROVE  TypeOK' /\ RecordsFit'
  BY <1>16, AgreeCashoutFits
<1>17. CASE UNCHANGED vars
  <2>1. MarksLast /\ RowsLast /\ NewId \notin Id'
    BY <1>17, SameMarks, RowsLastSame, IdFacts DEF vars
  <2> QED BY <2>1, FitOn DEF MarksLast
<1>18. \A m \in Mama : With(m, "UNUSED") \subseteq Coupon
  BY DEF With
<1> QED
  BY <1>1, <1>2, <1>3, <1>4, <1>5, <1>6, <1>7, <1>8, <1>9, <1>10, <1>11, <1>12, <1>13, <1>14, <1>15,
     <1>16, <1>17, <1>18 DEF Next

-----------------------------------------------------------------------------
(***************************************************************************)
(* Chains.  They grow when coupons are handed down, provided that nobody   *)
(* has so many agents above that get_ship_chain gives up, and shrink when  *)
(* coupons are handed back.                                                *)
(***************************************************************************)
Shallow == \A path \in Seq(Mama) : LeadsTo(path) => Len(path) <= MaxHops

\* Coupons stay where they come from, and none is born.
BornLast ==
    \A c \in Coupon : /\ coupon'[c].bought = coupon[c].bought
                      /\ coupon'[c].status = "none" <=> coupon[c].status = "none"

ChainsLast ==
    BornLast /\ \A c \in Coupon : coupon'[c].owner = coupon[c].owner /\ coupon'[c].chain = coupon[c].chain

LEMMA ChainsQuiet ==
    ASSUME ChainsFit, RowsLast, ChainsLast
    PROVE  ChainsFit'
<1> SUFFICES ASSUME NEW c \in Coupon PROVE ChainFits(c)'
  BY DEF ChainsFit
<1>1. ChainFits(c)
  BY DEF ChainsFit
<1>2. CASE coupon[c].status = "none"
  BY <1>1, <1>2 DEF ChainFits, ChainsLast, BornLast
<1>3. CASE coupon[c].status # "none"
  <2>1. coupon[c].bought \in Id /\ Id \subseteq Id' /\ SameRecord(coupon[c].bought)
    BY <1>1, <1>3 DEF ChainFits, RowsLast, RowsType
  <2> QED BY <1>1, <1>3, <2>1 DEF ChainFits, ChainsLast, BornLast, SameRecord
<1> QED BY <1>2, <1>3

\* A line is continued by the agents below its last one.
LEMMA LinesJoin ==
    ASSUME NEW chain \in Seq(Mama), NEW up \in Seq(Mama), NEW from \in Mama, NEW to \in Mama,
           LeadsTo(Append(chain, from)), LeadsTo(Append(up, to)), Append(up, to)[1] = from
    PROVE  /\ LeadsTo(Append(chain \o up, to))
           /\ Append(chain \o up, to)[1] = Append(chain, from)[1]
<1> DEFINE p == Append(chain, from)
           t == Append(up, to)
           q == Append(chain \o up, to)
           n == Len(chain)
           k == Len(up)
<1>1. n \in Nat /\ k \in Nat
  OBVIOUS
<1>2. /\ Len(p) = n + 1 /\ Len(t) = k + 1 /\ Len(q) = n + k + 1
      /\ \A i \in 1 .. n : p[i] = chain[i] /\ q[i] = chain[i]
      /\ p[n + 1] = from /\ t[1] = from
      /\ \A j \in 1 .. k + 1 : q[n + j] = t[j]
  OBVIOUS
<1>3. q[n + 1] = from
  BY <1>1, <1>2
<1>4. LeadsTo(p) /\ LeadsTo(t)
  OBVIOUS
<1> HIDE DEF p, t, q, n, k
<1>5. ASSUME NEW i \in 2 .. n + k + 1 PROVE q[i] \notin Direct /\ Upper[q[i]] = q[i - 1]
  <2>1. CASE i <= n + 1
    <3>1. i \in 2 .. Len(p) /\ i - 1 \in 1 .. n
      BY <1>1, <1>2, <2>1
    <3>2. q[i] = p[i] /\ q[i - 1] = p[i - 1]
      BY <1>1, <1>2, <1>3, <2>1, <3>1
    <3> QED BY <1>4, <3>1, <3>2 DEF LeadsTo
  <2>2. CASE i > n + 1
    <3> DEFINE j == i - n
    <3>1. j \in 2 .. k + 1 /\ j - 1 \in 1 .. k + 1 /\ n + j = i /\ n + (j - 1) = i - 1
      BY <1>1, <2>2
    <3>2. q[i] = t[j] /\ q[i - 1] = t[j - 1]
      BY <1>2, <3>1
    <3> QED BY <1>2, <1>4, <3>1, <3>2 DEF LeadsTo
  <2> QED BY <1>1, <2>1, <2>2
<1>6. q[1] = p[1]
  <2>1. CASE n = 0
    BY <1>2, <1>3, <2>1
  <2>2. CASE n # 0
    BY <1>1, <1>2, <2>2
  <2> QED BY <2>1, <2>2
<1> QED BY <1>2, <1>5, <1>6 DEF LeadsTo, p, q

\* The walk up ends where it should.
LEMMA ShipChainLeads ==
    ASSUME Shallow, NEW from \in Mama, NEW to \in Mama, NEW up \in ShipChains(from, to)
    PROVE  LeadsTo(Append(up, to)) /\ Append(up, to)[1] = from
<1> DEFINE t == Append(up, to)
<1>1. up \in Seq(Mama) /\ Len(up) \in Nat
  BY ShipChainType
<1>2. t \in Seq(Mama) /\ Len(t) = Len(up) + 1
  BY <1>1
<1>3. /\ \A i \in 1 .. Len(up) : t[i + 1] \notin Direct \cup {from} /\ t[i] = Upper[t[i + 1]]
      /\ t[1] = from \/ Len(up) = MaxHops
  BY DEF ShipChains
<1> HIDE DEF t
<1>4. LeadsTo(t)
  <2> SUFFICES ASSUME NEW i \in 2 .. Len(t) PROVE t[i] \notin Direct /\ Upper[t[i]] = t[i - 1]
    BY DEF LeadsTo
  <2>1. i - 1 \in 1 .. Len(up) /\ (i - 1) + 1 = i
    BY <1>1, <1>2
  <2> QED BY <1>3, <2>1
<1>5. Len(t) <= MaxHops
  BY <1>2, <1>4 DEF Shallow
<1>6. Len(up) # MaxHops
  BY <1>1, <1>2, <1>5
<1> QED BY <1>3, <1>4, <1>6 DEF t

LEMMA BornChains ==
    ASSUME TypeOK, ChainsFit, NEW m \in Mama, NEW S \in SUBSET Unborn, CouponsBorn(S, m),
           NEW type, Adds(Created(m, S, type))
    PROVE  ChainsFit'
<1> SUFFICES ASSUME NEW c \in Coupon PROVE ChainFits(c)'
  BY DEF ChainsFit
<1>1. CASE c \in S
  <2>1. coupon[c].chain = <<>>
    BY <1>1 DEF ChainsFit, ChainFits, Unborn
  <2>2. /\ coupon'[c].status = "UNUSED" /\ coupon'[c].owner = m /\ coupon'[c].bought = NewId
        /\ coupon'[c].chain = <<>> /\ NewId \in Id' /\ record'[NewId].to = m
    BY <1>1, <2>1 DEF CouponsBorn, Adds, Created, New
  <2>3. Append(<<>>, m)[1] = m /\ Len(Append(<<>>, m)) = 1
    OBVIOUS
  <2>4. LeadsTo(Append(<<>>, m))
    BY <2>3 DEF LeadsTo
  <2> QED BY <2>2, <2>3, <2>4 DEF ChainFits
<1>2. CASE c \notin S
  <2>1. coupon'[c] = coupon[c] /\ ChainFits(c) /\ RowsLast
    BY <1>2, RowsLastAdds DEF CouponsBorn, ChainsFit
  <2>2. coupon[c].status # "none" => SameRecord(coupon[c].bought) /\ coupon[c].bought \in Id'
    BY <2>1 DEF ChainFits, RowsLast, RowsType
  <2> QED BY <2>1, <2>2 DEF ChainFits, SameRecord
<1> QED BY <1>1, <1>2

LEMMA HandedChains ==
    ASSUME TypeOK, ChainsFit, Shallow, RowsLast, NEW from \in Mama, NEW to \in Mama, NEW S,
           S \subseteq With(from, "UNUSED"), NEW up \in ShipChains(from, to), CouponsHanded(S, to, up)
    PROVE  ChainsFit'
<1> SUFFICES ASSUME NEW c \in Coupon PROVE ChainFits(c)'
  BY DEF ChainsFit
<1>0. /\ ChainFits(c) /\ coupon[c].chain \in Seq(Mama)
      /\ coupon[c].status # "none" => SameRecord(coupon[c].bought) /\ coupon[c].bought \in Id'
  BY DEF ChainsFit, ChainFits, RowsLast, RowsType, TypeOK, CouponRow
<1>1. CASE c \in S
  <2>1. coupon[c].owner = from /\ coupon[c].status = "UNUSED"
    BY <1>1 DEF With
  <2>2. up \in Seq(Mama) /\ LeadsTo(Append(up, to)) /\ Append(up, to)[1] = from
    BY ShipChainType, ShipChainLeads
  <2>3. /\ LeadsTo(Append(coupon[c].chain, from))
        /\ Append(coupon[c].chain, from)[1] = record[coupon[c].bought].to
    BY <1>0, <2>1 DEF ChainFits
  <2>4. /\ LeadsTo(Append(coupon[c].chain \o up, to))
        /\ Append(coupon[c].chain \o up, to)[1] = record[coupon[c].bought].to
    <3> DEFINE s == coupon[c].chain
    <3>1. s \in Seq(Mama) /\ LeadsTo(Append(s, from)) /\ Append(s, from)[1] = record[coupon[c].bought].to
      BY <1>0, <2>3
    <3> HIDE DEF s
    <3>2. LeadsTo(Append(s \o up, to)) /\ Append(s \o up, to)[1] = Append(s, from)[1]
      BY <2>2, <3>1, LinesJoin
    <3> QED BY <3>1, <3>2 DEF s
  <2>5. /\ coupon'[c].status = "UNUSED" /\ coupon'[c].owner = to /\ coupon'[c].chain = coupon[c].chain \o up
        /\ coupon'[c].bought = coupon[c].bought
    BY <1>1, <2>1 DEF CouponsHanded
  <2> QED BY <1>0, <2>1, <2>4, <2>5 DEF ChainFits, SameRecord
<1>2. CASE c \notin S
  <2>1. coupon'[c] = coupon[c]
    BY <1>2 DEF CouponsHanded
  <2> QED BY <1>0, <2>1 DEF ChainFits, SameRecord
<1> QED BY <1>1, <1>2

LEMMA ReturnedChains ==
    ASSUME TypeOK, ChainsFit, RowsLast, NEW up \in Mama, NEW S, NEW r,
           S \subseteq FrozenBy(r), CouponsReturn(S, up),
           \A c \in S : coupon[c].chain # <<>> /\ Last(coupon[c].chain) = up
    PROVE  ChainsFit'
<1> SUFFICES ASSUME NEW c \in Coupon PROVE ChainFits(c)'
  BY DEF ChainsFit
<1>0. /\ ChainFits(c) /\ coupon[c].chain \in Seq(Mama)
      /\ coupon[c].status # "none" => SameRecord(coupon[c].bought) /\ coupon[c].bought \in Id'
  BY DEF ChainsFit, ChainFits, RowsLast, RowsType, TypeOK, CouponRow
<1>1. CASE c \in S
  <2> DEFINE s == coupon[c].chain
             p == Append(s, coupon[c].owner)
  <2>1. coupon[c].status = "FREEZE" /\ s # <<>> /\ Last(s) = up
    BY <1>1 DEF FrozenBy
  <2>2. /\ coupon'[c].status = "UNUSED" /\ coupon'[c].owner = up /\ coupon'[c].chain = Front(s)
        /\ coupon'[c].bought = coupon[c].bought
    BY <1>1 DEF CouponsReturn
  <2>3. s \in Seq(Mama) /\ Len(s) \in Nat /\ Len(s) # 0
    BY <1>0, <2>1
  <2>4. Append(Front(s), up) = s
    <3>1. Front(s) = SubSeq(s, 1, Len(s) - 1) /\ up = s[Len(s)]
      BY <2>1 DEF Front, Last
    <3> HIDE DEF s
    <3> QED BY <2>3, <3>1
  <2>5. LeadsTo(p) /\ p[1] = record[coupon[c].bought].to /\ coupon[c].bought \in Id
    BY <1>0, <2>1 DEF ChainFits
  <2>6. Len(p) = Len(s) + 1 /\ \A i \in 1 .. Len(s) : p[i] = s[i]
    BY <2>3
  <2>7. LeadsTo(s) /\ s[1] = p[1]
    <3> HIDE DEF p, s
    <3>1. ASSUME NEW i \in 2 .. Len(s) PROVE s[i] \notin Direct /\ Upper[s[i]] = s[i - 1]
      <4>1. i \in 2 .. Len(p) /\ i \in 1 .. Len(s) /\ i - 1 \in 1 .. Len(s)
        BY <2>3, <2>6
      <4> QED BY <2>5, <2>6, <4>1 DEF LeadsTo
    <3>2. 1 \in 1 .. Len(s)
      BY <2>3
    <3> QED BY <2>6, <3>1, <3>2 DEF LeadsTo
  <2> QED BY <1>0, <2>1, <2>2, <2>4, <2>5, <2>7 DEF ChainFits, SameRecord
<1>2. CASE c \notin S
  <2>1. coupon'[c] = coupon[c]
    BY <1>2 DEF CouponsReturn
  <2> QED BY <1>0, <2>1 DEF ChainFits, SameRecord
<1> QED BY <1>1, <1>2

-----------------------------------------------------------------------------
(***************************************************************************)
(* Gifts.                                                                  *)
(***************************************************************************)
\* Nothing is uncancelled, and gifts stay in force.
GiftsLast ==
    /\ BornLast
    /\ \A c \in Coupon : coupon[c].status = "CANCEL" => coupon'[c].status = "CANCEL"
    /\ \A r \in Id : record[r].type = "IN_GIFT_COUPON" => record'[r].status = record[r].status

LEMMA GiftsQuiet ==
    ASSUME ChainsFit, GiftsFit, RowsLast, GiftsLast
    PROVE  GiftsFit'
<1> SUFFICES ASSUME NEW c \in Coupon, coupon'[c].status # "none", IsGift(c)'
             PROVE  /\ record'[coupon'[c].bought].num = 1
                    /\ coupon'[c].status # "CANCEL" => record'[coupon'[c].bought].status = "DELIVERED"
                    /\ \A d \in Coupon : (coupon'[d].status # "none" /\ coupon'[d].bought = coupon'[c].bought)
                                           => d = c
  BY DEF GiftsFit, GiftFits
<1>1. coupon[c].status # "none" /\ coupon'[c].bought = coupon[c].bought
  BY DEF GiftsLast, BornLast
<1>2. coupon[c].bought \in Id /\ SameRecord(coupon[c].bought)
  BY <1>1 DEF ChainsFit, ChainFits, RowsLast
<1>3. record[coupon[c].bought].type = "IN_GIFT_COUPON" /\ IsGift(c) /\ GiftFits(c)
  BY <1>1, <1>2 DEF IsGift, SameRecord, GiftsFit
<1>4. record'[coupon[c].bought].status = record[coupon[c].bought].status
  BY <1>2, <1>3 DEF GiftsLast
<1>5. \A d \in Coupon : (coupon'[d].status # "none" /\ coupon'[d].bought = coupon'[c].bought) => d = c
  BY <1>1, <1>3 DEF GiftFits, GiftsLast, BornLast
<1> QED BY <1>1, <1>2, <1>3, <1>4, <1>5 DEF GiftFits, GiftsLast, SameRecord

LEMMA BornGifts ==
    ASSUME TypeOK, RecordsFit, ChainsFit, GiftsFit, NEW m \in Mama, NEW S \in SUBSET Unborn, CouponsBorn(S, m),
           NEW type, Adds(Created(m, S, type)),
           type = "IN_GIFT_COUPON" => \E c \in Unborn : S = {c}
    PROVE  GiftsFit'
<1> SUFFICES ASSUME NEW c \in Coupon, coupon'[c].status # "none", IsGift(c)'
             PROVE  /\ record'[coupon'[c].bought].num = 1
                    /\ coupon'[c].status # "CANCEL" => record'[coupon'[c].bought].status = "DELIVERED"
                    /\ \A d \in Coupon : (coupon'[d].status # "none" /\ coupon'[d].bought = coupon'[c].bought)
                                           => d = c
  BY DEF GiftsFit, GiftFits
<1>1. NewId \notin Id /\ \A d \in Coupon : coupon[d].bought # NewId
  BY IdFacts DEF RecordsFit
<1>2. CASE c \in S
  <2>1. coupon'[c].bought = NewId /\ record'[NewId] = Created(m, S, type)
    BY <1>2 DEF CouponsBorn, Adds
  <2>2. type = "IN_GIFT_COUPON"
    BY <2>1 DEF IsGift, Created, New
  <2>3. S = {c} /\ Cardinality(S) = 1
    BY <1>2, <2>2, FS_Singleton
  <2>4. \A d \in Coupon : coupon'[d].bought = NewId => d \in S
    BY <1>1 DEF CouponsBorn
  <2> QED BY <2>1, <2>3, <2>4 DEF Created, New
<1>3. CASE c \notin S
  <2>1. coupon'[c] = coupon[c]
    BY <1>3 DEF CouponsBorn
  <2>2. coupon[c].bought \in Id /\ record'[coupon[c].bought] = record[coupon[c].bought]
    BY <2>1 DEF ChainsFit, ChainFits, Adds
  <2>3. IsGift(c) /\ GiftFits(c)
    BY <2>1, <2>2 DEF IsGift, GiftsFit
  <2>4. ASSUME NEW d \in Coupon, coupon'[d].status # "none", coupon'[d].bought = coupon'[c].bought PROVE d = c
    <3>1. d \notin S
      BY <1>1, <2>1, <2>2, <2>4 DEF CouponsBorn
    <3>2. coupon'[d] = coupon[d]
      BY <3>1 DEF CouponsBorn
    <3> QED BY <2>1, <2>3, <2>4, <3>2 DEF GiftFits
  <2> QED BY <2>1, <2>2, <2>3, <2>4 DEF GiftFits
<1> QED BY <1>2, <1>3

LEMMA CancelledGift ==
    ASSUME TypeOK, RecordsFit, ChainsFit, GiftsFit, NEW c \in Coupon, CancelGift(c)
    PROVE  GiftsFit'
<1> DEFINE b == coupon[c].bought
<1>1. /\ b \in Id /\ Restates(b, "CANCELED") /\ CouponsBecome({c}, "CANCEL")
      /\ IsGift(c) /\ coupon[c].status = "UNUSED"
  BY CancelGiftRows DEF CancelGift
<1>2. \A d \in Coupon : (coupon[d].status # "none" /\ coupon[d].bought = b) => d = c
  BY <1>1 DEF GiftsFit, GiftFits
<1>3. ASSUME NEW d \in Coupon, coupon'[d].status # "none", IsGift(d)'
      PROVE  /\ record'[coupon'[d].bought].num = 1
             /\ coupon'[d].status # "CANCEL" => record'[coupon'[d].bought].status = "DELIVERED"
             /\ \A x \in Coupon : (coupon'[x].status # "none" /\ coupon'[x].bought = coupon'[d].bought) => x = d
  <2>1. coupon[d].status # "none" /\ \A x \in Coupon : coupon'[x].bought = coupon[x].bought
    BY <1>1, <1>3 DEF CouponsBecome, Becomes
  <2>2. coupon[d].bought \in Id
    BY <2>1 DEF ChainsFit, ChainFits
  <2>3. IsGift(d) /\ GiftFits(d)
    BY <1>1, <1>3, <2>1, <2>2 DEF IsGift, Restates, SameRecord, GiftsFit
  <2>4. \A x \in Coupon : (coupon'[x].status # "none" /\ coupon'[x].bought = coupon'[d].bought) => x = d
    BY <1>1, <2>1, <2>3 DEF GiftFits, CouponsBecome, Becomes
  <2>5. CASE d = c
    BY <1>1, <2>1, <2>3, <2>4, <2>5 DEF GiftFits, CouponsBecome, Becomes, Restates, SameRecord
  <2>6. CASE d # c
    <3>1. coupon[d].bought # b /\ coupon'[d] = coupon[d]
      BY <1>1, <1>2, <2>1, <2>6 DEF CouponsBecome
    <3>2. record'[coupon[d].bought] = record[coupon[d].bought]
      BY <1>1, <2>2, <3>1 DEF Restates
    <3> QED BY <2>1, <2>3, <2>4, <3>1, <3>2 DEF GiftFits
  <2> QED BY <2>5, <2>6
<1> QED BY <1>3 DEF GiftsFit, GiftFits

-----------------------------------------------------------------------------
(***************************************************************************)
(* Marks of frozen coupons.                                                *)
(***************************************************************************)
\* Coupon c stays frozen, in the same hands and for the same reason, or unfrozen.
StaysFrozen(c) ==
    /\ coupon'[c].debt = coupon[c].debt
    /\ coupon'[c].status = "FREEZE" <=> coupon[c].status = "FREEZE"
    /\ coupon[c].status = "FREEZE" => coupon'[c].owner = coupon[c].owner

\* Returns other than those of R stay open or closed, and none is begun.
ReturnsLast(R) ==
    /\ \A r \in Id \ R : record[r].type \in Returns => (IsOpen(r)' <=> IsOpen(r))
    /\ NewId \in Id' => record'[NewId].type \notin Returns

LEMMA MarksQuiet ==
    ASSUME TypeOK, RecordsFit, MarksFit, RowsLast,
           \A c \in Coupon : StaysFrozen(c) /\ coupon'[c].frozenBy = coupon[c].frozenBy,
           ReturnsLast({})
    PROVE  MarksFit'
<1>1. ASSUME NEW c \in Coupon PROVE MarkFits(c)'
  <2>1. /\ MarkFits(c) /\ StaysFrozen(c) /\ coupon'[c].frozenBy = coupon[c].frozenBy
        /\ coupon[c].frozenBy # 0 => coupon[c].frozenBy \in Id
    BY DEF MarksFit, RecordsFit
  <2>2. CASE coupon[c].frozenBy # 0
    <3>1. SameRecord(coupon[c].frozenBy) /\ record[coupon[c].frozenBy].type \in Returns
      BY <2>1, <2>2 DEF RowsLast, MarkFits
    <3>2. IsOpen(coupon[c].frozenBy) <=> record'[coupon[c].frozenBy].status \in {"PENDING", "PROCESSED"}
      BY <2>1, <2>2, <3>1 DEF ReturnsLast, IsOpen
    <3> QED BY <2>1, <2>2, <3>1, <3>2 DEF MarkFits, StaysFrozen, SameRecord, IsOpen
  <2>3. CASE coupon[c].frozenBy = 0
    BY <2>1, <2>3 DEF MarkFits, StaysFrozen
  <2> QED BY <2>2, <2>3
<1>2. ASSUME NEW r \in Id', record'[r].type \in Returns, IsOpen(r)'
      PROVE  Cardinality(FrozenBy(r)') = record'[r].num
  <2>1. r \in Id /\ SameRecord(r)
    BY <1>2 DEF RowsLast, ReturnsLast
  <2>2. record[r].type \in Returns /\ IsOpen(r)
    BY <1>2, <2>1 DEF SameRecord, ReturnsLast
  <2>3. FrozenBy(r)' = FrozenBy(r)
    BY DEF FrozenBy, StaysFrozen
  <2> QED BY <2>1, <2>2, <2>3 DEF MarksFit, SameRecord
<1> QED BY <1>1, <1>2 DEF MarksFit

LEMMA MarksFreeze ==
    ASSUME TypeOK, RecordsFit, MarksFit, NEW m \in Mama, NEW S, S \subseteq With(m, "UNUSED"), CouponsFreeze(S),
           NEW new, Adds(new), new.type \in Returns, new.status = "PENDING", new.from = m,
           new.num = Cardinality(S)
    PROVE  MarksFit'
<1>0. NewId \notin Id /\ NewId # 0
  BY IdFacts
<1>1. ASSUME NEW c \in Coupon PROVE MarkFits(c)'
  <2>1. MarkFits(c) /\ coupon[c].frozenBy \in Id \cup {0}
    BY DEF MarksFit, RecordsFit
  <2>2. CASE c \in S
    <3>1. coupon[c].status = "UNUSED" /\ coupon[c].owner = m
      BY <2>2 DEF With
    <3>2. /\ coupon'[c].status = "FREEZE" /\ coupon'[c].frozenBy = NewId
          /\ coupon'[c].owner = m /\ coupon'[c].debt = coupon[c].debt
      BY <2>2, <3>1 DEF CouponsFreeze
    <3>3. ~coupon[c].debt
      BY <2>1, <3>1 DEF MarkFits
    <3> QED BY <1>0, <3>2, <3>3 DEF MarkFits, Adds, IsOpen
  <2>3. CASE c \notin S
    <3>1. coupon'[c] = coupon[c]
      BY <2>3 DEF CouponsFreeze
    <3>2. coupon[c].frozenBy # 0 => record'[coupon[c].frozenBy] = record[coupon[c].frozenBy]
      BY <2>1 DEF Adds
    <3> QED BY <2>1, <3>1, <3>2 DEF MarkFits, IsOpen
  <2> QED BY <2>2, <2>3
<1>2. ASSUME NEW r \in Id', record'[r].type \in Returns, IsOpen(r)'
      PROVE  Cardinality(FrozenBy(r)') = record'[r].num
  <2>1. CASE r = NewId
    <3>1. \A c \in Coupon : coupon[c].frozenBy # NewId
      BY <1>0 DEF RecordsFit
    <3>2. S \subseteq Coupon
      BY DEF With
    <3>3. FrozenBy(r)' = S
      BY <2>1, <3>1, <3>2 DEF FrozenBy, CouponsFreeze
    <3> QED BY <2>1, <3>3 DEF Adds
  <2>2. CASE r # NewId
    <3>1. r \in Id /\ record'[r] = record[r]
      BY <1>2, <2>2 DEF Adds
    <3>2. \A c \in S : coupon[c].status = "UNUSED"
      BY DEF With
    <3>3. FrozenBy(r)' = FrozenBy(r)
      BY <2>2, <3>2 DEF FrozenBy, CouponsFreeze
    <3> QED BY <1>2, <3>1, <3>3 DEF MarksFit, IsOpen
  <2> QED BY <2>1, <2>2
<1> QED BY <1>1, <1>2 DEF MarksFit

\* A return that ends leaves no coupon frozen for it.
LEMMA MarksClose ==
    ASSUME TypeOK, RecordsFit, MarksFit, RowsLast, MarksLast, NEW r \in Id, IsOpen(r), ~IsOpen(r)', ReturnsLast({r}),
           \A c \in FrozenBy(r) : coupon'[c].status # "FREEZE" /\ coupon'[c].debt = coupon[c].debt,
           \A c \in Coupon \ FrozenBy(r) :
             \/ StaysFrozen(c)
             \/ coupon[c].status = "USED" /\ coupon'[c].status = "FREEZE" /\ coupon'[c].debt
    PROVE  MarksFit'
<1>1. ASSUME NEW c \in Coupon
      PROVE  /\ MarkFits(c) /\ coupon'[c].frozenBy = coupon[c].frozenBy
             /\ coupon[c].frozenBy # 0 =>
                  /\ coupon[c].frozenBy \in Id /\ SameRecord(coupon[c].frozenBy)
                  /\ record[coupon[c].frozenBy].type \in Returns
                  /\ coupon[c].frozenBy # r =>
                       (IsOpen(coupon[c].frozenBy) <=> record'[coupon[c].frozenBy].status \in {"PENDING", "PROCESSED"})
  <2>1. MarkFits(c) /\ coupon'[c].frozenBy = coupon[c].frozenBy
    BY DEF MarksFit, MarksLast
  <2>2. coupon[c].frozenBy # 0 => coupon[c].frozenBy \in Id
    BY DEF RecordsFit
  <2> QED BY <2>1, <2>2 DEF MarkFits, RowsLast, ReturnsLast, IsOpen
<1>2. record'[r].status \notin {"PENDING", "PROCESSED"}
  BY DEF IsOpen
<1>3. ASSUME NEW c \in Coupon PROVE MarkFits(c)'
  <2>1. CASE c \in FrozenBy(r)
    <3>1. coupon[c].frozenBy = r /\ coupon[c].status = "FREEZE" /\ r # 0
      BY <2>1, IdFacts DEF FrozenBy, Id
    <3>2. ~coupon[c].debt
      BY <1>1, <3>1 DEF MarkFits
    <3> QED BY <1>1, <1>2, <2>1, <3>1, <3>2 DEF MarkFits, SameRecord, IsOpen
  <2>2. CASE c \notin FrozenBy(r)
    <3>1. coupon[c].status = "FREEZE" => coupon[c].frozenBy # r
      BY <2>2 DEF FrozenBy
    <3>2. coupon[c].frozenBy = r => coupon[c].status = "FREEZE"
      <4>1. r # 0
        BY IdFacts DEF Id
      <4> QED BY <1>1, <4>1 DEF MarkFits
    <3>3. coupon[c].frozenBy # r
      BY <3>1, <3>2
    <3>4. CASE StaysFrozen(c)
      BY <1>1, <3>3, <3>4 DEF MarkFits, SameRecord, IsOpen, StaysFrozen
    <3>5. CASE coupon[c].status = "USED" /\ coupon'[c].status = "FREEZE" /\ coupon'[c].debt
      BY <1>1, <3>3, <3>5 DEF MarkFits, SameRecord, IsOpen
    <3> QED BY <2>2, <3>4, <3>5
  <2> QED BY <2>1, <2>2
<1>4. ASSUME NEW x \in Id', record'[x].type \in Returns, IsOpen(x)'
      PROVE  Cardinality(FrozenBy(x)') = record'[x].num
  <2>1. x \in Id /\ SameRecord(x) /\ x # r
    BY <1>2, <1>4 DEF RowsLast, ReturnsLast, IsOpen
  <2>2. record[x].type \in Returns /\ IsOpen(x) /\ x # 0
    BY <1>4, <2>1, IdFacts DEF SameRecord, ReturnsLast, Id
  <2>3. ASSUME NEW c \in Coupon
        PROVE  (coupon'[c].status = "FREEZE" /\ coupon'[c].frozenBy = x)
                 <=> (coupon[c].status = "FREEZE" /\ coupon[c].frozenBy = x)
    <3>1. CASE c \in FrozenBy(r)
      BY <1>1, <2>1, <3>1 DEF FrozenBy
    <3>2. CASE c \notin FrozenBy(r)
      <4>1. CASE StaysFrozen(c)
        BY <1>1, <4>1 DEF StaysFrozen
      <4>2. CASE coupon[c].status = "USED" /\ coupon'[c].status = "FREEZE" /\ coupon'[c].debt
        BY <1>1, <2>2, <4>2 DEF MarkFits
      <4> QED BY <3>2, <4>1, <4>2
    <3> QED BY <3>1, <3>2
  <2>4. FrozenBy(x)' = FrozenBy(x)
    BY <2>3 DEF FrozenBy
  <2> QED BY <2>1, <2>2, <2>4 DEF MarksFit, SameRecord
<1> QED BY <1>3, <1>4 DEF MarksFit

LEMMA MarksUnfreeze ==
    ASSUME TypeOK, RecordsFit, MarksFit, NEW m \in Mama, Unfreeze(m)
    PROVE  MarksFit'
<1> DEFINE S == {c \in With(m, "FREEZE") : coupon[c].debt}
<1>1. /\ \A c \in Coupon : c \notin S => coupon'[c] = coupon[c]
      /\ \A c \in Coupon : c \in S =>
           /\ coupon'[c].status = "UNUSED" /\ coupon'[c].debt = FALSE
           /\ coupon'[c].owner = coupon[c].owner /\ coupon'[c].frozenBy = coupon[c].frozenBy
      /\ record' = record /\ Id' = Id
  BY UnfreezeRows, RowsLastSame
<1>2. \A c \in S : coupon[c].debt
  OBVIOUS
<1> HIDE DEF S
<1>3. ASSUME NEW c \in Coupon PROVE MarkFits(c)'
  <2>1. MarkFits(c)
    BY DEF MarksFit
  <2>2. CASE c \in S
    BY <1>1, <1>2, <2>1, <2>2 DEF MarkFits, IsOpen
  <2>3. CASE c \notin S
    BY <1>1, <2>1, <2>3 DEF MarkFits, IsOpen
  <2> QED BY <2>2, <2>3
<1>4. ASSUME NEW x \in Id', record'[x].type \in Returns, IsOpen(x)'
      PROVE  Cardinality(FrozenBy(x)') = record'[x].num
  <2>1. x \in Id /\ record'[x] = record[x] /\ IsOpen(x) /\ x # 0
    BY <1>1, <1>4, IdFacts DEF IsOpen, Id
  <2>2. \A c \in Coupon : c \in S => coupon[c].frozenBy # x
    BY <1>2, <2>1 DEF MarksFit, MarkFits
  <2>3. FrozenBy(x)' = FrozenBy(x)
    BY <1>1, <2>2 DEF FrozenBy
  <2> QED BY <1>4, <2>1, <2>3 DEF MarksFit
<1> QED BY <1>3, <1>4 DEF MarksFit

-----------------------------------------------------------------------------
(***************************************************************************)
(* Spending and exchanges.                                                 *)
(***************************************************************************)
\* Cashouts that are delivered or cancelled stay so.
CashoutsLast ==
    \A r \in Id : record[r].type = "OUT_CASHOUT" =>
        /\ record[r].status = "DELIVERED" => record'[r].status = "DELIVERED"
        /\ record[r].status = "CANCELED" => record'[r].status = "CANCELED"

\* No cashout is begun.
NoCashout == NewId \in Id' => record'[NewId].type # "OUT_CASHOUT"

LEMMA SoldOnceQuiet ==
    ASSUME SoldOnce, RowsLast, CashoutsLast, NoCashout
    PROVE  SoldOnce'
<1>1. ASSUME NEW k \in Id', record'[k].type = "OUT_CASHOUT", record'[k].status # "CANCELED"
      PROVE  /\ k \in Id /\ record[k].type = "OUT_CASHOUT" /\ record[k].status # "CANCELED"
             /\ record'[k].order = record[k].order
  BY <1>1 DEF RowsLast, NoCashout, CashoutsLast, SameRecord
<1> QED BY <1>1 DEF SoldOnce

LEMMA SoldBackLasts ==
    ASSUME RowsLast, CashoutsLast, NEW r \in Id, SoldBack(record[r].order)
    PROVE  SoldBack(record[r].order)'
<1>1. PICK l \in Id : /\ record[l].type = "OUT_CASHOUT" /\ record[l].order = record[r].order
                      /\ record[l].status = "DELIVERED"
  BY DEF SoldBack
<1>2. l \in Id' /\ SameRecord(l) /\ record'[l].status = "DELIVERED" /\ SameRecord(r)
  BY <1>1 DEF RowsLast, RowsType, CashoutsLast
<1> QED BY <1>1, <1>2 DEF SoldBack, SameRecord

\* The coupons T are not used any more.
UsedLeave(T) ==
    /\ \A c \in Coupon : c \in T => coupon'[c].status # "USED"
    /\ \A c \in Coupon : c \notin T =>
         /\ coupon'[c].status = "USED" <=> coupon[c].status = "USED"
         /\ coupon[c].status = "USED" => coupon'[c].owner = coupon[c].owner

LEMMA SpentQuiet ==
    ASSUME TypeOK, RowsLast, CashoutsLast, \A r \in Id : SpentFits(r), NEW T, UsedLeave(T),
           NewId \in Id' => record'[NewId].spent = {} /\ record'[NewId].type # "OUT_EXCHG_SALEORDER",
           \A r \in Id : (record[r].type = "OUT_EXCHG_SALEORDER" /\ ~SoldBack(record[r].order)')
                           => StillSpent(r) \cap T = {}
    PROVE  \A r \in Id' : SpentFits(r)'
<1>1. ASSUME NEW r \in Id PROVE StillSpent(r)' = StillSpent(r) \ T
  <2>1. record[r].spent \subseteq Coupon /\ SameRecord(r)
    BY IdFacts DEF RecordRow, RowsLast
  <2>2. ASSUME NEW c \in Coupon
        PROVE  (\A later \in Id' : c \in record'[later].spent => later <= r)
                 <=> (\A later \in Id : c \in record[later].spent => later <= r)
    <3>1. \A later \in Id : later \in Id' /\ record'[later].spent = record[later].spent
      BY DEF RowsLast, RowsType, SameRecord
    <3>2. \A later \in Id' \ Id : record'[later].spent = {}
      BY DEF RowsLast
    <3> QED BY <3>1, <3>2
  <2>3. ASSUME NEW c \in Coupon
        PROVE  coupon'[c].status = "USED" <=> (coupon[c].status = "USED" /\ c \notin T)
    BY DEF UsedLeave
  <2>4. \A c \in Coupon : c \in StillSpent(r)' <=> c \in StillSpent(r) \ T
    BY <2>1, <2>2, <2>3 DEF StillSpent, SameRecord
  <2>5. StillSpent(r) \subseteq Coupon /\ StillSpent(r)' \subseteq Coupon
    BY <2>1 DEF StillSpent, SameRecord
  <2> QED BY <2>4, <2>5
<1>2. ASSUME NEW r \in Id PROVE SpentFits(r)'
  <2>1. SpentFits(r) /\ SameRecord(r) /\ StillSpent(r)' = StillSpent(r) \ T /\ StillSpent(r) \subseteq Coupon
    BY <1>1, IdFacts DEF RowsLast, StillSpent, RecordRow
  <2>2. \A c \in StillSpent(r)' : coupon'[c].owner = record'[r].from
    BY <2>1 DEF SpentFits, SameRecord, UsedLeave, StillSpent
  <2>3. ASSUME record'[r].type = "OUT_EXCHG_SALEORDER", ~SoldBack(record[r].order)'
        PROVE  record'[r].spent \subseteq StillSpent(r)'
    <3>1. record[r].type = "OUT_EXCHG_SALEORDER" /\ ~SoldBack(record[r].order)'
      BY <2>1, <2>3 DEF SameRecord
    <3>2. ~SoldBack(record[r].order)
      BY <3>1, SoldBackLasts
    <3>3. record[r].spent \subseteq StillSpent(r) /\ StillSpent(r) \cap T = {}
      BY <2>1, <3>1, <3>2 DEF SpentFits
    <3> QED BY <2>1, <3>3 DEF SameRecord
  <2> QED BY <2>2, <2>3 DEF SpentFits
<1>3. ASSUME NEW r \in Id', r \notin Id PROVE SpentFits(r)'
  <2>1. record'[r].spent = {} /\ record'[r].type # "OUT_EXCHG_SALEORDER"
    BY <1>3 DEF RowsLast
  <2> QED BY <2>1 DEF SpentFits, StillSpent
<1> QED BY <1>2, <1>3

\* An exchange that was not undone has its coupons still; a return of goods
\* takes others.
LEMMA StillSpentOnce ==
    ASSUME TypeOK, NEW r \in Id, NEW s \in Id, NEW c, c \in StillSpent(r), c \in StillSpent(s)
    PROVE  r = s
<1>1. r \in Nat /\ s \in Nat /\ r <= s /\ s <= r
  BY IdFacts DEF StillSpent, Id
<1> QED BY <1>1

LEMMA ExchangeWhole ==
    ASSUME TypeOK, SpendingFits, NEW r \in Id, record[r].type = "OUT_CASHOUT", IsOpen(r),
           NEW e \in ExchangeOf(record[r].order)
    PROVE  e \in Id /\ record[e].spent \subseteq StillSpent(e) /\ record[e].order = record[r].order
           /\ record[e].type = "OUT_EXCHG_SALEORDER"
<1>1. e \in Id /\ record[e].order = record[r].order /\ record[e].type = "OUT_EXCHG_SALEORDER"
  BY DEF ExchangeOf
<1>2. ~SoldBack(record[e].order)
  BY <1>1 DEF SoldBack, SpendingFits, SoldOnce, IsOpen
<1> QED BY <1>1, <1>2 DEF SpendingFits, SpentFits

LEMMA SpendSpends ==
    ASSUME TypeOK, SpendingFits, NEW m \in Mama, NEW S, S \subseteq With(m, "UNUSED"), NEW order,
           NEW type \in {"OUT_CONSUMED", "OUT_EXCHG_SALEORDER"},
           Adds(Spent(m, S, type, order)), CouponsBecome(S, "USED")
    PROVE  SpendingFits'
<1> DEFINE new == Spent(m, S, type, order)
<1>0. /\ NewId \notin Id /\ \A r \in Id : r \in Nat /\ r < NewId
      /\ new.type = type /\ new.spent = S /\ new.from = m
      /\ S \subseteq Coupon /\ \A c \in S : coupon[c].status = "UNUSED" /\ coupon[c].owner = m
  BY IdFacts DEF Id, NewId, Spent, New, With
<1> HIDE DEF new
<1>1. /\ Id' = Id \cup {NewId} /\ record'[NewId] = new /\ RowsLast
      /\ \A r \in Id : record'[r] = record[r]
  BY RowsLastAdds DEF Adds, new
<1>2. CashoutsLast /\ NoCashout
  BY <1>0, <1>1 DEF CashoutsLast, NoCashout
<1>3. SoldOnce'
  BY <1>1, <1>2, SoldOnceQuiet DEF SpendingFits
<1>4. \A c \in Coupon : /\ c \in S => coupon'[c].status = "USED" /\ coupon'[c].owner = m
                        /\ c \notin S => coupon'[c] = coupon[c]
  BY <1>0 DEF CouponsBecome, Becomes
<1>5. ASSUME NEW r \in Id PROVE SpentFits(r)'
  <2>1. record[r].spent \subseteq Coupon /\ record'[r] = record[r] /\ SpentFits(r)
    BY <1>1, IdFacts DEF RecordRow, SpendingFits
  <2>2. ASSUME NEW c \in Coupon PROVE c \in StillSpent(r)' <=> c \in StillSpent(r)
    <3>1. CASE c \in S
      <4>1. ~(NewId <= r) /\ c \in record'[NewId].spent /\ NewId \in Id'
        BY <1>0, <1>1, <3>1 DEF NewId, Id
      <4> QED BY <1>0, <3>1, <4>1 DEF StillSpent
    <3>2. CASE c \notin S
      <4>1. (\A later \in Id' : c \in record'[later].spent => later <= r)
              <=> (\A later \in Id : c \in record[later].spent => later <= r)
        BY <1>0, <1>1, <3>2
      <4> QED BY <1>4, <2>1, <3>2, <4>1 DEF StillSpent
    <3> QED BY <3>1, <3>2
  <2>3. StillSpent(r)' = StillSpent(r) /\ StillSpent(r) \subseteq Coupon
    BY <2>1, <2>2 DEF StillSpent
  <2>4. \A c \in StillSpent(r) : c \notin S
    BY <1>0 DEF StillSpent
  <2>5. SoldBack(record[r].order) => SoldBack(record[r].order)'
    BY <1>1, <1>2, SoldBackLasts
  <2> QED BY <1>4, <2>1, <2>3, <2>4, <2>5 DEF SpentFits
<1>6. ASSUME NEW r, r = NewId PROVE SpentFits(r)'
  <2>1. \A later \in Id' : later <= r
    BY <1>0, <1>1, <1>6, IdFacts
  <2>2. StillSpent(r)' = S
    BY <1>0, <1>1, <1>4, <1>6, <2>1 DEF StillSpent
  <2>3. record'[r].spent = S /\ record'[r].from = m
    BY <1>0, <1>1, <1>6
  <2> QED BY <1>0, <1>4, <2>2, <2>3 DEF SpentFits
<1> QED BY <1>1, <1>3, <1>5, <1>6 DEF SpendingFits

LEMMA SellingOnce ==
    ASSUME Careful, TypeOK, SpendingFits, NEW m \in Mama, NEW S, NEW r \in Id, ApplyCashout(m, S, r),
           Adds(Sold(m, S, r))
    PROVE  SoldOnce'
<1>1. \A o \in Id : ~(record[o].type = "OUT_CASHOUT" /\ record[o].order = r /\ record[o].status # "CANCELED")
  BY DEF ApplyCashout
<1>2. /\ Id' = Id \cup {NewId} /\ record'[NewId].order = r
      /\ \A o \in Id : record'[o] = record[o]
  BY DEF Adds, Sold, New
<1> QED BY <1>1, <1>2 DEF SpendingFits, SoldOnce

-----------------------------------------------------------------------------
(***************************************************************************)
(* Requests.  What the records of an order pass on telescopes: it leads    *)
(* from the agent asked last to the one who asked first.                   *)
(***************************************************************************)
LEMMA RecordIdFinite == IsFiniteSet(RecordId)
<1>1. 1 \in Int /\ MaxRecord \in Int
  BY CouponAssumption
<1> QED BY <1>1, FS_Interval DEF RecordId

LEMMA MovedType ==
    ASSUME TypeOK, NEW r \in Id, NEW m
    PROVE  Moved(r, m) \in Int
<1>1. record[r].num \in Int
  BY IdFacts DEF RecordRow
<1> QED BY <1>1 DEF Moved

LEMMA AskedType ==
    ASSUME TypeOK, NEW k, NEW m
    PROVE  \A o \in RecordId : Asked(k, m)[o] \in Int
BY MovedType DEF Asked

\* A step that leaves the records of order k alone leaves its request waiting.
LEMMA OtherOrder ==
    ASSUME TypeOK, RowsLast, NEW r \in Id, NEW k \in Id, RequestFits(r, k),
           \A o \in Id : record[o].order = k => record'[o] = record[o],
           NewId \in Id' => record'[NewId].order # k
    PROVE  RequestFits(r, k)'
<1>1. SameRecord(r) /\ SameRecord(k)
  BY DEF RowsLast
<1>2. \A o \in Id' : record'[o].order = k => o \in Id /\ record[o].order = k /\ record'[o] = record[o]
  BY DEF RowsLast, SameRecord
<1>3. \A o \in Id : record[o].order = k => o \in Id' /\ record'[o].order = k
  BY DEF RowsLast, RowsType, SameRecord
<1>4. ASSUME NEW m \in Mama PROVE Asked(k, m)' = Asked(k, m)
  <2>1. ASSUME NEW o \in RecordId
        PROVE  (IF o \in Id' /\ record'[o].order = k THEN Moved(o, m)' ELSE 0)
                 = (IF o \in Id /\ record[o].order = k THEN Moved(o, m) ELSE 0)
    <3>1. CASE o \in Id /\ record[o].order = k
      BY <1>3, <3>1 DEF Moved
    <3>2. CASE ~(o \in Id /\ record[o].order = k)
      BY <1>2, <3>2
    <3> QED BY <3>1, <3>2
  <2> QED BY <2>1 DEF Asked
<1> QED BY <1>1, <1>2, <1>4 DEF RequestFits, SameRecord

LEMMA RequestsQuiet ==
    ASSUME TypeOK, RecordsFit, RequestsFit, RecordsFit', RowsLast,
           \A r \in Id : record[r].type = "OUT_TRANSFER" => record'[r] = record[r],
           NewId \in Id' => record'[NewId].type # "OUT_TRANSFER"
    PROVE  RequestsFit'
<1> SUFFICES ASSUME NEW r \in Id', NEW k \in Id', CanProcess(r)', record'[r].order = k
             PROVE  RequestFits(r, k)'
  BY DEF RequestsFit
<1>1. r \in Id /\ record[r].type = "OUT_TRANSFER" /\ record'[r] = record[r]
  BY DEF CanProcess, RowsLast, SameRecord
<1>2. CanProcess(r) /\ record[r].order = k /\ k \in Id /\ record[k].type = "OUT_TRANSFER"
  BY <1>1 DEF CanProcess, RecordsFit
<1>3. \A o \in Id : record[o].order = k => record'[o] = record[o]
  BY <1>2 DEF RecordsFit
<1>4. NewId \in Id' => record'[NewId].order # k
  <2>1. record'[k].type = "OUT_TRANSFER"
    BY <1>2 DEF RowsLast, SameRecord
  <2> QED BY <2>1 DEF RecordsFit
<1> QED BY <1>1, <1>2, <1>3, <1>4, OtherOrder DEF RequestsFit

\* A request that is not waiting any more leaves the others alone.
LEMMA RequestEnds ==
    ASSUME TypeOK, RecordsFit, RequestsFit, NEW r \in Id, CanProcess(r), NEW s, s # "PENDING", Restates(r, s)
    PROVE  RequestsFit'
<1> SUFFICES ASSUME NEW x \in Id', NEW k \in Id', CanProcess(x)', record'[x].order = k
             PROVE  RequestFits(x, k)'
  BY DEF RequestsFit
<1>1. /\ x \in Id /\ k \in Id /\ RowsLast /\ x # r /\ record'[x] = record[x] /\ CanProcess(x)
      /\ record[x].order = k /\ NewId \notin Id'
  BY RowsLastRestates, IdFacts DEF Restates, CanProcess
<1>2. record[r].order # k
  BY <1>1 DEF RequestsFit, RequestFits, CanProcess
<1>3. \A o \in Id : record[o].order = k => record'[o] = record[o]
  BY <1>2 DEF Restates
<1> QED BY <1>1, <1>3, OtherOrder DEF RequestsFit

LEMMA OrderCompletes ==
    ASSUME TypeOK, RecordsFit, RequestsFit, NEW j, Completes(j)
    PROVE  RequestsFit'
<1> SUFFICES ASSUME NEW x \in Id', NEW k \in Id', CanProcess(x)', record'[x].order = k
             PROVE  RequestFits(x, k)'
  BY DEF RequestsFit
<1>1. /\ x \in Id /\ k \in Id /\ RowsLast /\ record[x].order # j /\ record'[x] = record[x] /\ CanProcess(x)
      /\ record[x].order = k /\ NewId \notin Id'
  BY RowsLastCompletes, IdFacts DEF Completes, CanProcess
<1>2. \A o \in Id : record[o].order = k => record'[o] = record[o]
  BY <1>1 DEF Completes
<1> QED BY <1>1, <1>2, OtherOrder DEF RequestsFit

LEMMA RequestBegins ==
    ASSUME TypeOK, RecordsFit, RequestsFit, NEW m \in Mama, NEW num \in Nat, Apply(m, num)
    PROVE  RequestsFit'
<1> DEFINE new == Request(m, num, NewId)
<1>0. /\ new.type = "OUT_TRANSFER" /\ new.to = m /\ new.from = Upper[m] /\ new.num = num
      /\ new.status = "PENDING" /\ new.order = NewId
  BY DEF Request, New
<1> HIDE DEF new
<1>1. /\ Id' = Id \cup {NewId} /\ record'[NewId] = new /\ RowsLast
      /\ \A r \in Id : record'[r] = record[r]
  BY ApplyRows, RowsLastAdds DEF Adds, new
<1>2. NewId \notin Id /\ NewId \in RecordId /\ \A o \in Id : record[o].order # NewId
  BY IdFacts DEF RecordsFit, Apply
<1> SUFFICES ASSUME NEW x \in Id', NEW k \in Id', CanProcess(x)', record'[x].order = k
             PROVE  RequestFits(x, k)'
  BY DEF RequestsFit
<1>3. CASE x = NewId
  <2>1. k = NewId /\ \A o \in Id' : record'[o].order = k => o = x
    BY <1>0, <1>1, <1>2, <1>3
  <2>2. ASSUME NEW a \in Mama
        PROVE  SumFunctionOnSet(Asked(k, a)', RecordId) =
                 (IF record'[k].to = a THEN record'[x].num ELSE 0)
                 - (IF record'[x].from = a THEN record'[x].num ELSE 0)
    <3> DEFINE zero == [o \in RecordId |-> 0]
               g == Asked(k, a)'
    <3>1. x \in RecordId /\ IsFiniteSet(RecordId)
      BY <1>2, <1>3, RecordIdFinite
    <3>2. g[x] = (IF m = a THEN num ELSE 0) - (IF Upper[m] = a THEN num ELSE 0) /\ g[x] \in Int
      BY <1>0, <1>1, <1>3, <2>1, <3>1 DEF Asked, Moved
    <3>3. \A o \in RecordId \ {x} : g[o] = zero[o]
      BY <2>1 DEF Asked
    <3>4. \A o \in RecordId : zero[o] = 0 /\ zero[o] \in Int
      OBVIOUS
    <3> HIDE DEF zero, g
    <3>5. SumFunctionOnSet(zero, RecordId) = 0
      BY <3>1, <3>4, SumZero
    <3>6. SumFunctionOnSet(g, RecordId) = SumFunctionOnSet(zero, RecordId) + (g[x] - zero[x])
      BY <3>1, <3>2, <3>3, <3>4, SumUpdate
    <3>7. SumFunctionOnSet(g, RecordId) = g[x]
      BY <3>1, <3>2, <3>4, <3>5, <3>6
    <3> QED BY <1>0, <1>1, <1>3, <2>1, <3>2, <3>7 DEF g
  <2>3. record'[x].status = "PENDING"
    BY <1>0, <1>1, <1>3
  <2> QED BY <2>1, <2>2, <2>3 DEF RequestFits
<1>4. CASE x # NewId
  <2>1. x \in Id /\ record'[x] = record[x] /\ CanProcess(x) /\ record[x].order = k /\ k \in Id
    BY <1>1, <1>4 DEF CanProcess, RecordsFit
  <2> QED BY <1>0, <1>1, <1>2, <2>1, OtherOrder DEF RequestsFit
<1> QED BY <1>3, <1>4

LEMMA RequestPassed ==
    ASSUME TypeOK, RecordsFit, RequestsFit, NEW r \in Id, PassOn(r), record[r].from \notin Direct
    PROVE  RequestsFit'
<1> DEFINE m == record[r].from
           j == record[r].order
           num == record[r].num
           new == Request(m, num, j)
<1>0. /\ new.type = "OUT_TRANSFER" /\ new.to = m /\ new.from = Upper[m] /\ new.num = num
      /\ new.status = "PENDING" /\ new.order = j
  BY DEF Request, New
<1>1. /\ Id' = Id \cup {NewId} /\ record'[NewId] = new /\ RowsLast /\ SameRecord(r)
      /\ \A x \in Id \ {r} : record'[x] = record[x]
      /\ record'[r].status = "PROCESSED" /\ CanAdd
      /\ CanProcess(r) /\ num \in Int
  <2>1. Continues(r, "PROCESSED", new) /\ CanAdd
    BY PassOnRows
  <2>2. RowsLast
    BY <2>1, RowsLastContinues
  <2>3. num \in Int
    BY IdFacts DEF RecordRow
  <2> HIDE DEF new
  <2> QED BY <2>1, <2>2, <2>3 DEF Continues, PassOn
<1>2. NewId \notin Id /\ NewId \in RecordId /\ j \in Id /\ RequestFits(r, j) /\ r \in RecordId
  BY <1>1, IdFacts DEF RecordsFit, RequestsFit
<1> HIDE DEF new
<1> SUFFICES ASSUME NEW x \in Id', NEW k \in Id', CanProcess(x)', record'[x].order = k
             PROVE  RequestFits(x, k)'
  BY DEF RequestsFit
<1>3. CASE x = NewId
  <2>1. k = j
    BY <1>0, <1>1, <1>3
  <2>2. ASSUME NEW o \in Id', record'[o].order = k
        PROVE  record'[o].status # "DELIVERED" /\ (record'[o].status = "PENDING" => o = x)
    <3>1. CASE o = NewId
      BY <1>0, <1>1, <1>3, <3>1
    <3>2. CASE o = r
      BY <1>1, <3>2
    <3>3. CASE o \in Id \ {r}
      BY <1>1, <1>2, <2>1, <2>2, <3>3 DEF RequestFits
    <3> QED BY <1>1, <3>1, <3>2, <3>3
  <2>3. ASSUME NEW a \in Mama
        PROVE  SumFunctionOnSet(Asked(k, a)', RecordId) =
                 (IF record'[k].to = a THEN record'[x].num ELSE 0)
                 - (IF record'[x].from = a THEN record'[x].num ELSE 0)
    <3> DEFINE f == Asked(k, a)
               g == Asked(k, a)'
    <3>1. x \in RecordId /\ IsFiniteSet(RecordId)
      BY <1>2, <1>3, RecordIdFinite
    <3>2. g[x] = (IF m = a THEN num ELSE 0) - (IF Upper[m] = a THEN num ELSE 0) /\ g[x] \in Int /\ f[x] = 0
      BY <1>0, <1>1, <1>2, <1>3, <2>1, <3>1 DEF Asked, Moved
    <3>3. ASSUME NEW o \in RecordId \ {x} PROVE g[o] = f[o]
      <4>1. CASE o \in Id
        BY <1>1, <4>1 DEF Asked, Moved, RowsLast, SameRecord
      <4>2. CASE o \notin Id
        BY <1>1, <1>3, <4>2 DEF Asked
      <4> QED BY <4>1, <4>2
    <3>4. \A o \in RecordId : f[o] \in Int
      BY AskedType
    <3>5. SumFunctionOnSet(f, RecordId) = (IF record[j].to = a THEN num ELSE 0) - (IF m = a THEN num ELSE 0)
      BY <1>2, <2>1 DEF RequestFits
    <3> HIDE DEF f, g
    <3>6. SumFunctionOnSet(g, RecordId) = SumFunctionOnSet(f, RecordId) + (g[x] - f[x])
      BY <3>1, <3>2, <3>3, <3>4, SumUpdate
    <3>7. SumFunctionOnSet(g, RecordId) =
            (IF record[j].to = a THEN num ELSE 0) - (IF Upper[m] = a THEN num ELSE 0)
      <4> HIDE DEF m, j, num
      <4> QED BY <1>1, <3>2, <3>5, <3>6
    <3>8. record'[k].to = record[j].to /\ record'[x].num = num /\ record'[x].from = Upper[m]
      BY <1>0, <1>1, <1>2, <1>3, <2>1 DEF RowsLast, SameRecord
    <3> QED BY <3>7, <3>8 DEF g
  <2> QED BY <2>2, <2>3 DEF RequestFits
<1>4. CASE x # NewId
  <2>1. x \in Id /\ x # r /\ record'[x] = record[x]
    BY <1>1, <1>4 DEF CanProcess
  <2>2. CanProcess(x) /\ record[x].order = k /\ k \in Id
    BY <2>1 DEF CanProcess, RecordsFit
  <2>3. k # j
    BY <1>1, <1>2, <2>1, <2>2 DEF RequestFits, CanProcess
  <2>4. \A o \in Id : record[o].order = k => record'[o] = record[o]
    BY <1>1, <2>3
  <2>5. record'[NewId].order # k
    BY <1>0, <1>1, <2>3
  <2> QED BY <1>1, <2>1, <2>2, <2>4, <2>5, OtherOrder DEF RequestsFit
<1> QED BY <1>3, <1>4

-----------------------------------------------------------------------------
(***************************************************************************)
(* Books.  Every step that moves coupons from one agent (or the system) to *)
(* another completes records that say so.                                  *)
(***************************************************************************)
\* What a record counts for in m's books.
Passes(row, m) ==
    IF row.status = "DELIVERED"
    THEN (IF row.to = m THEN row.num ELSE 0) - (IF row.from = m THEN row.num ELSE 0) ELSE 0

Terms(m) == [r \in RecordId |-> IF r \in Id THEN Passes(record[r], m) ELSE 0]
Booked(m) == SumFunctionOnSet(Terms(m), RecordId)

LEMMA TermsType == TypeOK => \A m : \A r \in RecordId : Terms(m)[r] \in Int
<1> SUFFICES ASSUME TypeOK, NEW m, NEW r \in RecordId PROVE Terms(m)[r] \in Int
  OBVIOUS
<1>1. r \in Id => record[r].num \in Int
  BY IdFacts DEF RecordRow
<1> QED BY <1>1 DEF Terms, Passes

LEMMA StockIsBooked == TypeOK => \A m : Stock(m) = Booked(m) /\ Booked(m) \in Int
<1> SUFFICES ASSUME TypeOK, NEW m PROVE Stock(m) = Booked(m) /\ Booked(m) \in Int
  OBVIOUS
<1> DEFINE f == [r \in Id |-> IF record[r].status = "DELIVERED" THEN Moved(r, m) ELSE 0]
           g == Terms(m)
<1>1. IsFiniteSet(RecordId) /\ Id \in SUBSET RecordId
  BY RecordIdFinite, IdFacts
<1>2. \A r \in RecordId : g[r] \in Int
  BY TermsType
<1>3. \A r \in Id : f[r] \in Int
  BY MovedType
<1>4. \A r \in RecordId : g[r] = IF r \in Id THEN f[r] ELSE 0
  BY DEF Terms, Passes, Moved
<1>5. Stock(m) = SumFunctionOnSet(f, Id) /\ Booked(m) = SumFunctionOnSet(g, RecordId)
  BY DEF Stock, Booked
<1> HIDE DEF f, g
<1>6. SumFunctionOnSet(f, Id) = SumFunctionOnSet(g, RecordId)
  BY <1>1, <1>3, <1>4, SumSubset
<1>7. SumFunctionOnSet(g, RecordId) \in Int
  BY <1>1, <1>2, SumType
<1> QED BY <1>5, <1>6, <1>7

WellBooked == \A m : /\ Stock(m) = Booked(m) /\ Booked(m) \in Int
                     /\ \A r \in RecordId : Terms(m)[r] \in Int

LEMMA StocksWellBooked == TypeOK => WellBooked
BY StockIsBooked, TermsType DEF WellBooked

LEMMA StocksWellBookedNext == TypeOK' => WellBooked'
BY StocksWellBooked, PTL

\* Record k changes, perhaps, and a record is added, perhaps.
LEMMA StockMoves ==
    ASSUME TypeOK, TypeOK', NEW k, NEW m, Id \subseteq Id', Id' \subseteq Id \cup {NewId},
           \A r \in Id \ {k} : record'[r] = record[r]
    PROVE  /\ Stock(m) \in Int
           /\ Stock(m)' = Stock(m)
                + (IF k \in Id THEN Passes(record'[k], m) - Passes(record[k], m) ELSE 0)
                + (IF NewId \in Id' THEN Passes(record'[NewId], m) ELSE 0)
<1> DEFINE f == Terms(m)
           g == Terms(m)'
           h == [r \in RecordId |-> IF r = k /\ k \in Id THEN g[r] ELSE f[r]]
<1>1. /\ IsFiniteSet(RecordId) /\ Id \subseteq RecordId /\ NewId \notin Id
      /\ \A r \in RecordId : f[r] \in Int /\ g[r] \in Int
      /\ Stock(m) = SumFunctionOnSet(f, RecordId) /\ Stock(m)' = SumFunctionOnSet(g, RecordId)
      /\ SumFunctionOnSet(f, RecordId) \in Int
  BY RecordIdFinite, IdFacts, StocksWellBooked, StocksWellBookedNext DEF WellBooked, Booked
<1>2. Id' \subseteq RecordId
  BY CouponAssumption DEF TypeOK, Id, RecordId
<1>3. /\ \A r \in RecordId : f[r] = IF r \in Id THEN Passes(record[r], m) ELSE 0
      /\ \A r \in RecordId : g[r] = IF r \in Id' THEN Passes(record'[r], m) ELSE 0
  BY DEF Terms
<1>4. \A r \in RecordId : h[r] = IF r = k /\ k \in Id THEN g[r] ELSE f[r]
  OBVIOUS
<1> HIDE DEF f, g, h
<1>5. \A r \in RecordId : h[r] \in Int
  BY <1>1, <1>4
<1>6. \A r \in RecordId \ {k} : h[r] = f[r]
  BY <1>4
<1>7. \A r \in RecordId \ {NewId} : g[r] = h[r]
  BY <1>1, <1>3, <1>4
<1>8. SumFunctionOnSet(h, RecordId) = SumFunctionOnSet(f, RecordId) + IF k \in RecordId THEN h[k] - f[k] ELSE 0
  BY <1>1, <1>5, <1>6, SumStep
<1>9. SumFunctionOnSet(g, RecordId) =
        SumFunctionOnSet(h, RecordId) + IF NewId \in RecordId THEN g[NewId] - h[NewId] ELSE 0
  BY <1>1, <1>5, <1>7, SumStep
<1>10. (IF k \in RecordId THEN h[k] - f[k] ELSE 0)
         = (IF k \in Id THEN Passes(record'[k], m) - Passes(record[k], m) ELSE 0)
  BY <1>1, <1>3, <1>4
<1>11. (IF NewId \in RecordId THEN g[NewId] - h[NewId] ELSE 0)
         = (IF NewId \in Id' THEN Passes(record'[NewId], m) ELSE 0)
  <2>1. CASE NewId \in Id'
    <3>1. NewId \in RecordId /\ g[NewId] = Passes(record'[NewId], m) /\ h[NewId] = 0 /\ g[NewId] \in Int
      BY <1>1, <1>2, <1>3, <1>4, <2>1
    <3> QED BY <2>1, <3>1
  <2>2. CASE NewId \notin Id'
    <3>1. NewId \in RecordId => g[NewId] = 0 /\ h[NewId] = 0
      BY <1>1, <1>3, <1>4, <2>2
    <3> QED BY <2>2, <3>1
  <2> QED BY <2>1, <2>2
<1> QED BY <1>1, <1>8, <1>9, <1>10, <1>11

\* What an order's records pass on is booked when they are completed.
LEMMA StockCompletes ==
    ASSUME TypeOK, TypeOK', NEW k, NEW m, Completes(k),
           \A o \in Id : record[o].order = k => record[o].status # "DELIVERED"
    PROVE  /\ Stock(m) \in Int /\ SumFunctionOnSet(Asked(k, m), RecordId) \in Int
           /\ Stock(m)' = Stock(m) + SumFunctionOnSet(Asked(k, m), RecordId)
<1> DEFINE f == Terms(m)
           g == Terms(m)'
           h == Asked(k, m)
<1>1. /\ IsFiniteSet(RecordId) /\ Id \subseteq RecordId /\ Id' = Id
      /\ \A r \in RecordId : f[r] \in Int /\ g[r] \in Int /\ h[r] \in Int
      /\ Stock(m) = SumFunctionOnSet(f, RecordId) /\ Stock(m)' = SumFunctionOnSet(g, RecordId)
      /\ SumFunctionOnSet(f, RecordId) \in Int
  BY RecordIdFinite, IdFacts, AskedType, StocksWellBooked, StocksWellBookedNext
     DEF WellBooked, Booked, Completes
<1>2. ASSUME NEW r \in RecordId PROVE g[r] = f[r] + h[r]
  <2>1. CASE r \notin Id
    BY <1>1, <2>1 DEF Terms, Asked
  <2>2. CASE r \in Id /\ record[r].order # k
    <3>1. g[r] = f[r] /\ h[r] = 0
      BY <1>1, <2>2 DEF Terms, Asked, Completes
    <3> QED BY <1>1, <3>1
  <2>3. CASE r \in Id /\ record[r].order = k
    <3>1. g[r] = h[r] /\ f[r] = 0
      BY <1>1, <2>3 DEF Terms, Asked, Completes, SameRecord, Passes, Moved
    <3> QED BY <1>1, <3>1
  <2> QED BY <2>1, <2>2, <2>3
<1> HIDE DEF f, g, h
<1>3. SumFunctionOnSet(g, RecordId) = SumFunctionOnSet(f, RecordId) + SumFunctionOnSet(h, RecordId)
  BY <1>1, <1>2, SumPlus
<1>4. SumFunctionOnSet(h, RecordId) \in Int
  BY <1>1, SumType
<1> QED BY <1>1, <1>3, <1>4 DEF h

\* The coupons S leave H if it is a's, and come to it if it is b's.
Of(n, a, m) == IF a = m THEN n ELSE 0

LEMMA SetMoves ==
    ASSUME NEW H \in SUBSET Coupon, NEW G \in SUBSET Coupon, NEW S \in SUBSET Coupon,
           NEW a, NEW b, NEW m,
           \A c \in Coupon \ S : c \in G <=> c \in H,
           \A c \in S : (c \in H <=> a = m) /\ (c \in G <=> b = m)
    PROVE  /\ Cardinality(H) \in Int /\ Cardinality(S) \in Int
           /\ Cardinality(G) = Cardinality(H) + Of(Cardinality(S), b, m) - Of(Cardinality(S), a, m)
<1>1. /\ IsFiniteSet(H) /\ IsFiniteSet(G) /\ IsFiniteSet(S)
      /\ Cardinality(H) \in Nat /\ Cardinality(G) \in Nat /\ Cardinality(S) \in Nat
  BY CouponsFinite
<1>2. CASE (a = m) <=> (b = m)
  <2>1. G = H
    BY <1>2
  <2> QED BY <1>1, <1>2, <2>1 DEF Of
<1>3. CASE a = m /\ b # m
  <2>1. G = H \ S /\ H \cap S = S
    BY <1>3
  <2>2. Cardinality(G) = Cardinality(H) - Cardinality(S)
    BY <1>1, <2>1, FS_Difference
  <2> QED BY <1>1, <1>3, <2>2 DEF Of
<1>4. CASE a # m /\ b = m
  <2>1. G = H \cup S /\ H \cap S = {}
    BY <1>4
  <2>2. Cardinality(G) = Cardinality(H) + Cardinality(S)
    BY <1>1, <2>1, FS_Union, FS_EmptySet
  <2> QED BY <1>1, <1>4, <2>2 DEF Of
<1> QED BY <1>2, <1>3, <1>4

\* Moving the coupons S from a to b, in the hands and in the books.
HandsMove(S, a, b) ==
    \A m \in Mama :
        /\ \A c \in Coupon \ S : c \in Held(m)' <=> c \in Held(m)
        /\ \A c \in S : (c \in Held(m) <=> a = m) /\ (c \in Held(m)' <=> b = m)
BooksMove(n, a, b) == \A m \in Mama : Stock(m)' = Stock(m) + Of(n, b, m) - Of(n, a, m)

LEMMA BooksStep ==
    ASSUME BooksMatch, NEW S \in SUBSET Coupon, NEW a, NEW b,
           HandsMove(S, a, b), BooksMove(Cardinality(S), a, b)
    PROVE  BooksMatch'
<1> SUFFICES ASSUME NEW m \in Mama PROVE Stock(m)' = Cardinality(Held(m)')
  BY DEF BooksMatch, Held
<1> DEFINE H == Held(m)
           G == Held(m)'
<1>1. H \in SUBSET Coupon /\ G \in SUBSET Coupon
  BY DEF Held, With
<1>2. /\ \A c \in Coupon \ S : c \in G <=> c \in H
      /\ \A c \in S : (c \in H <=> a = m) /\ (c \in G <=> b = m)
  BY DEF HandsMove
<1>3. Stock(m) = Cardinality(H)
  BY DEF BooksMatch, Held
<1>4. Stock(m)' = Stock(m) + Of(Cardinality(S), b, m) - Of(Cardinality(S), a, m)
  BY DEF BooksMove
<1> HIDE DEF H, G
<1>5. Cardinality(G) = Cardinality(H) + Of(Cardinality(S), b, m) - Of(Cardinality(S), a, m)
  BY <1>1, <1>2, SetMoves
<1> QED BY <1>3, <1>4, <1>5 DEF G

\* Nothing moves.
LEMMA BooksQuiet ==
    ASSUME BooksMatch, TypeOK,
           \A m \in Mama : Held(m)' = Held(m) /\ Stock(m)' = Stock(m)
    PROVE  BooksMatch'
BY DEF BooksMatch, Held

-----------------------------------------------------------------------------
(***************************************************************************)
(* The steps, when people are careful and no walk up is cut short.         *)
(***************************************************************************)
\* What a completed new record, or a record that is completed, moves.
LEMMA BooksAdded ==
    ASSUME TypeOK, TypeOK', NEW new, Adds(new)
    PROVE  /\ new.status = "DELIVERED" => BooksMove(new.num, new.from, new.to)
           /\ new.status = "PENDING" => \A m \in Mama : Stock(m)' = Stock(m)
<1>1. /\ Id \subseteq Id' /\ Id' \subseteq Id \cup {NewId} /\ \A r \in Id \ {0} : record'[r] = record[r]
      /\ 0 \notin Id /\ NewId \in Id' /\ record'[NewId] = new
  BY DEF Adds, RowsType, Id
<1>2. ASSUME NEW m \in Mama PROVE Stock(m) \in Int /\ Stock(m)' = Stock(m) + 0 + Passes(new, m)
  BY <1>1, StockMoves
<1>3. new \in RecordRow
  BY <1>1 DEF TypeOK, Id
<1>4. new.num \in Int
  BY <1>3 DEF RecordRow
<1> QED BY <1>2, <1>4 DEF BooksMove, Passes, Of

LEMMA BooksRestated ==
    ASSUME TypeOK, TypeOK', NEW k \in Id, NEW s, Restates(k, s), IsOpen(k)
    PROVE  /\ s = "DELIVERED" => BooksMove(record[k].num, record[k].from, record[k].to)
           /\ s # "DELIVERED" => \A m \in Mama : Stock(m)' = Stock(m)
<1>1. /\ Id \subseteq Id' /\ Id' \subseteq Id \cup {NewId} /\ \A r \in Id \ {k} : record'[r] = record[r]
      /\ NewId \notin Id'
  BY IdFacts DEF Restates
<1>2. ASSUME NEW m \in Mama
      PROVE  Stock(m) \in Int /\ Stock(m)' = Stock(m) + (Passes(record'[k], m) - Passes(record[k], m)) + 0
  BY <1>1, StockMoves
<1>3. record[k].num \in Int /\ SameRecord(k) /\ record'[k].status = s
  BY IdFacts DEF RecordRow, Restates
<1>4. ASSUME NEW m PROVE /\ Passes(record[k], m) = 0
                         /\ s # "DELIVERED" => Passes(record'[k], m) = 0
                         /\ s = "DELIVERED" => Passes(record'[k], m) = 
                               Of(record[k].num, record[k].to, m) - Of(record[k].num, record[k].from, m)
  BY <1>3 DEF IsOpen, Passes, SameRecord, Of
<1>5. \A m : Of(record[k].num, record[k].to, m) \in Int /\ Of(record[k].num, record[k].from, m) \in Int
  BY <1>3 DEF Of
<1> QED BY <1>2, <1>4, <1>5 DEF BooksMove

LEMMA SpendingQuiet ==
    ASSUME TypeOK, SpendingFits, RowsLast, CashoutsLast, UsedLeave({}),
           NewId \in Id' => /\ record'[NewId].spent = {}
                            /\ record'[NewId].type \notin {"OUT_EXCHG_SALEORDER", "OUT_CASHOUT"}
    PROVE  SpendingFits'
<1>1. NoCashout /\ SoldOnce /\ \A r \in Id : SpentFits(r)
  BY DEF NoCashout, SpendingFits
<1>2. SoldOnce'
  BY <1>1, SoldOnceQuiet
<1>3. \A r \in Id' : SpentFits(r)'
  <2>1. \A r \in Id : (record[r].type = "OUT_EXCHG_SALEORDER" /\ ~SoldBack(record[r].order)')
                           => StillSpent(r) \cap {} = {}
    OBVIOUS
  <2> QED BY <1>1, <2>1, SpentQuiet
<1> QED BY <1>2, <1>3 DEF SpendingFits

LEMMA CreateKeeps ==
    ASSUME CouponInv, TypeOK', RecordsFit', NEW m \in Mama, NEW S \in SUBSET Unborn,
           NEW type \in {"IN_BUY_COUPON", "IN_GIFT_COUPON"}, Create(m, S, type),
           type = "IN_GIFT_COUPON" => \E c \in Unborn : S = {c}
    PROVE  CouponInv'
<1> DEFINE new == Created(m, S, type)
<1>0. TypeOK /\ RecordsFit /\ RequestsFit /\ ChainsFit /\ GiftsFit /\ MarksFit /\ SpendingFits /\ BooksMatch
  BY DEF CouponInv
<1>1. Adds(new) /\ CouponsBorn(S, m) /\ RowsLast
  BY <1>0, CreateRows, RowsLastAdds
<1>2. /\ new.type = type /\ new.status = "DELIVERED" /\ new.num = Cardinality(S) /\ new.from = System
      /\ new.to = m /\ new.spent = {}
  BY DEF Created, New
<1>3. S \in SUBSET Coupon /\ \A c \in S : coupon[c].status = "none"
  BY DEF Unborn
<1>4. ChainsFit' /\ GiftsFit'
  BY <1>0, <1>1, BornChains, BornGifts
<1> HIDE DEF new
<1>5. record'[NewId] = new /\ \A r \in Id : record'[r] = record[r]
  BY <1>1 DEF Adds
<1>6. RequestsFit'
  BY <1>0, <1>1, <1>2, <1>5, RequestsQuiet
<1>7. MarksFit'
  <2>1. \A c \in Coupon : StaysFrozen(c) /\ coupon'[c].frozenBy = coupon[c].frozenBy
    BY <1>1, <1>3 DEF StaysFrozen, CouponsBorn
  <2>2. ReturnsLast({})
    BY <1>2, <1>5 DEF ReturnsLast, Returns, IsOpen
  <2> QED BY <1>0, <1>1, <2>1, <2>2, MarksQuiet
<1>8. SpendingFits'
  <2>1. CashoutsLast
    BY <1>5 DEF CashoutsLast
  <2>2. UsedLeave({})
    BY <1>1, <1>3 DEF UsedLeave, CouponsBorn
  <2> QED BY <1>0, <1>1, <1>2, <1>5, <2>1, <2>2, SpendingQuiet
<1>9. BooksMatch'
  <2>1. BooksMove(Cardinality(S), System, m)
    BY <1>0, <1>1, <1>2, BooksAdded
  <2>2. HandsMove(S, System, m)
    BY <1>1, <1>3, CouponAssumption DEF HandsMove, Held, With, CouponsBorn
  <2> QED BY <1>0, <1>3, <2>1, <2>2, BooksStep
<1> QED BY <1>4, <1>6, <1>7, <1>8, <1>9 DEF CouponInv

LEMMA CancelGiftKeeps ==
    ASSUME Careful, CouponInv, TypeOK', RecordsFit', NEW c \in Coupon, CancelGift(c)
    PROVE  CouponInv'
<1> DEFINE b == coupon[c].bought
           a == coupon[c].owner
<1>0. TypeOK /\ RecordsFit /\ RequestsFit /\ ChainsFit /\ GiftsFit /\ MarksFit /\ SpendingFits /\ BooksMatch
  BY DEF CouponInv
<1>1. /\ b \in Id /\ Restates(b, "CANCELED") /\ CouponsBecome({c}, "CANCEL") /\ RowsLast
      /\ NewId \notin Id' /\ coupon[c].status = "UNUSED" /\ IsGift(c) /\ coupon[c].chain = <<>>
      /\ record[b].type = "IN_GIFT_COUPON"
  BY <1>0, CancelGiftRows, RowsLastRestates, IdFacts DEF CancelGift, Restates, IsGift
<1>2. \A r \in Id \ {b} : record'[r] = record[r]
  BY <1>1 DEF Restates
<1>3. GiftsFit'
  BY <1>0, CancelledGift
<1>4. RequestsFit'
  BY <1>0, <1>1, <1>2, RequestsQuiet
<1>5. ChainsFit'
  <2>1. ChainsLast
    BY <1>1 DEF ChainsLast, BornLast, CouponsBecome, Becomes
  <2> QED BY <1>0, <1>1, <2>1, ChainsQuiet
<1>6. MarksFit'
  <2>1. \A d \in Coupon : StaysFrozen(d) /\ coupon'[d].frozenBy = coupon[d].frozenBy
    BY <1>1 DEF StaysFrozen, CouponsBecome, Becomes
  <2>2. ReturnsLast({})
    BY <1>1, <1>2 DEF ReturnsLast, Returns, IsOpen
  <2> QED BY <1>0, <1>1, <2>1, <2>2, MarksQuiet
<1>7. SpendingFits'
  <2>1. CashoutsLast
    BY <1>1, <1>2 DEF CashoutsLast
  <2>2. UsedLeave({})
    BY <1>1 DEF UsedLeave, CouponsBecome, Becomes
  <2> QED BY <1>0, <1>1, <2>1, <2>2, SpendingQuiet
<1>8. BooksMatch'
  <2>1. /\ record[b].num = 1 /\ record[b].status = "DELIVERED" /\ record[b].from = System
        /\ record[b].to = a
    <3>1. Append(<<>>, a)[1] = a
      OBVIOUS
    <3>2. record[b].num = 1 /\ record[b].status = "DELIVERED" /\ record[b].to = a
      BY <1>0, <1>1, <3>1 DEF GiftsFit, GiftFits, ChainsFit, ChainFits
    <3> QED BY <1>0, <1>1, <3>2 DEF RecordsFit, BetweenRight
  <2>2. SameRecord(b) /\ record'[b].status = "CANCELED"
    BY <1>1 DEF Restates
  <2>3. BooksMove(1, a, System)
    <3> SUFFICES ASSUME NEW m \in Mama PROVE Stock(m)' = Stock(m) + Of(1, System, m) - Of(1, a, m)
      BY DEF BooksMove
    <3>1. Stock(m) \in Int /\ Stock(m)' = Stock(m) + (Passes(record'[b], m) - Passes(record[b], m)) + 0
      BY <1>0, <1>1, <1>2, StockMoves DEF RowsLast, RowsType
    <3>2. Passes(record'[b], m) = 0 /\ Passes(record[b], m) = Of(1, a, m) /\ Of(1, System, m) = 0
      BY <2>1, <2>2, CouponAssumption DEF Passes, Of
    <3>3. Of(1, a, m) \in Int
      BY DEF Of
    <3> QED BY <3>1, <3>2, <3>3
  <2>4. HandsMove({c}, a, System)
    BY <1>1, CouponAssumption DEF HandsMove, Held, With, CouponsBecome, Becomes
  <2>5. Cardinality({c}) = 1
    BY FS_Singleton
  <2> QED BY <1>0, <2>3, <2>4, <2>5, BooksStep
<1> QED BY <1>3, <1>4, <1>5, <1>6, <1>7, <1>8 DEF CouponInv

\* Steps that touch no coupon, and no records but requests.
LEMMA RequestsOnly ==
    ASSUME CouponInv, TypeOK', RecordsFit', RowsLast, coupon' = coupon,
           \A r \in Id : record[r].type # "OUT_TRANSFER" => record'[r] = record[r],
           NewId \in Id' => record'[NewId].type = "OUT_TRANSFER" /\ record'[NewId].spent = {},
           RequestsFit', \A m \in Mama : Stock(m)' = Stock(m)
    PROVE  CouponInv'
<1>0. TypeOK /\ RecordsFit /\ ChainsFit /\ GiftsFit /\ MarksFit /\ SpendingFits /\ BooksMatch
  BY DEF CouponInv
<1>1. ChainsFit' /\ GiftsFit'
  <2>1. ChainsLast /\ GiftsLast
    BY DEF ChainsLast, GiftsLast, BornLast
  <2> QED BY <1>0, <2>1, ChainsQuiet, GiftsQuiet
<1>2. MarksFit'
  <2>1. (\A c \in Coupon : StaysFrozen(c) /\ coupon'[c].frozenBy = coupon[c].frozenBy) /\ ReturnsLast({})
    BY DEF StaysFrozen, ReturnsLast, Returns, IsOpen
  <2> QED BY <1>0, <2>1, MarksQuiet
<1>3. SpendingFits'
  <2>1. CashoutsLast /\ UsedLeave({})
    BY DEF CashoutsLast, UsedLeave
  <2> QED BY <1>0, <2>1, SpendingQuiet
<1>4. BooksMatch'
  <2>1. \A m \in Mama : Held(m)' = Held(m)
    BY DEF Held, With
  <2> QED BY <1>0, <2>1, BooksQuiet
<1> QED BY <1>1, <1>2, <1>3, <1>4 DEF CouponInv

LEMMA ApplyKeeps ==
    ASSUME CouponInv, TypeOK', RecordsFit', NEW m \in Mama, NEW num \in Nat, Apply(m, num)
    PROVE  CouponInv'
<1> DEFINE new == Request(m, num, NewId)
<1>0. TypeOK /\ RecordsFit /\ RequestsFit
  BY DEF CouponInv
<1>1. Adds(new) /\ coupon' = coupon /\ RowsLast /\ RequestsFit'
  BY <1>0, ApplyRows, RowsLastAdds, RequestBegins
<1>2. new.type = "OUT_TRANSFER" /\ new.status = "PENDING" /\ new.spent = {}
  BY DEF Request, New
<1> HIDE DEF new
<1>3. \A a \in Mama : Stock(a)' = Stock(a)
  BY <1>0, <1>1, <1>2, BooksAdded
<1>4. record'[NewId] = new /\ \A r \in Id : record'[r] = record[r]
  BY <1>1 DEF Adds
<1> QED BY <1>1, <1>2, <1>3, <1>4, RequestsOnly

LEMMA CancelApplyKeeps ==
    ASSUME CouponInv, TypeOK', RecordsFit', NEW r \in Id, CancelApply(r)
    PROVE  CouponInv'
<1>0. TypeOK /\ RecordsFit /\ RequestsFit
  BY DEF CouponInv
<1>1. Restates(r, "CANCELED") /\ coupon' = coupon /\ CanProcess(r) /\ IsOpen(r) /\ RowsLast
  BY <1>0, CancelApplyRows, RowsLastRestates DEF CancelApply, CanProcess, IsOpen
<1>2. RequestsFit' /\ \A a \in Mama : Stock(a)' = Stock(a)
  BY <1>0, <1>1, RequestEnds, BooksRestated
<1>3. NewId \notin Id' /\ \A o \in Id \ {r} : record'[o] = record[o]
  BY <1>0, <1>1, IdFacts DEF Restates
<1> QED BY <1>1, <1>2, <1>3, RequestsOnly DEF CanProcess

LEMMA PassOnKeeps ==
    ASSUME CouponInv, TypeOK', RecordsFit', NEW r \in Id, PassOn(r)
    PROVE  CouponInv'
<1> DEFINE m == record[r].from
           new == Request(m, record[r].num, record[r].order)
<1>0. TypeOK /\ RecordsFit /\ RequestsFit
  BY DEF CouponInv
<1>1. CanProcess(r) /\ IsOpen(r) /\ record[r].type = "OUT_TRANSFER" /\ coupon' = coupon
  BY <1>0, PassOnRows DEF PassOn, CanProcess, IsOpen
<1>2. CASE m \in Direct
  <2>1. Restates(r, "PROCESSED") /\ RowsLast
    BY <1>0, <1>2, PassOnRows, RowsLastRestates
  <2>2. RequestsFit' /\ \A a \in Mama : Stock(a)' = Stock(a)
    BY <1>0, <1>1, <2>1, RequestEnds, BooksRestated
  <2>3. NewId \notin Id' /\ \A o \in Id \ {r} : record'[o] = record[o]
    BY <1>0, <2>1, IdFacts DEF Restates
  <2> QED BY <1>1, <2>1, <2>2, <2>3, RequestsOnly
<1>3. CASE m \notin Direct
  <2>1. Continues(r, "PROCESSED", new) /\ RowsLast
    BY <1>0, <1>3, PassOnRows, RowsLastContinues
  <2>2. RequestsFit'
    BY <1>0, <1>3, RequestPassed
  <2>3. new.type = "OUT_TRANSFER" /\ new.status = "PENDING" /\ new.spent = {}
    BY DEF Request, New
  <2> HIDE DEF new
  <2>4. /\ record'[NewId] = new /\ NewId \in Id' /\ record'[r].status = "PROCESSED"
        /\ \A o \in Id \ {r} : record'[o] = record[o]
    BY <2>1 DEF Continues
  <2>5. ASSUME NEW a \in Mama PROVE Stock(a)' = Stock(a)
    <3>1. /\ Stock(a) \in Int
          /\ Stock(a)' = Stock(a) + (Passes(record'[r], a) - Passes(record[r], a)) + Passes(record'[NewId], a)
      BY <1>0, <2>1, <2>4, StockMoves DEF RowsLast, RowsType
    <3>2. Passes(record'[r], a) = 0 /\ Passes(record[r], a) = 0 /\ Passes(record'[NewId], a) = 0
      BY <1>1, <2>3, <2>4 DEF Passes, CanProcess
    <3> QED BY <3>1, <3>2
  <2> QED BY <1>1, <2>1, <2>2, <2>3, <2>4, <2>5, RequestsOnly
<1> QED BY <1>2, <1>3

LEMMA AgreeReturnKeeps ==
    ASSUME CouponInv, TypeOK', RecordsFit', NEW r \in Id, AgreeReturn(r)
    PROVE  CouponInv'
<1>0. TypeOK /\ RecordsFit /\ RequestsFit /\ ChainsFit /\ GiftsFit /\ MarksFit /\ SpendingFits /\ BooksMatch
  BY DEF CouponInv
<1>1. /\ record[r].type = "IN_RETURN_COUPON" /\ IsOpen(r) /\ Restates(r, "PROCESSED") /\ coupon' = coupon
      /\ RowsLast
  BY <1>0, AgreeReturnRows, RowsLastRestates DEF IsOpen
<1>2. NewId \notin Id' /\ record'[r].status = "PROCESSED" /\ \A o \in Id \ {r} : record'[o] = record[o]
  BY <1>0, <1>1, IdFacts DEF Restates
<1>3. ChainsFit' /\ GiftsFit' /\ RequestsFit'
  <2>1. ChainsLast /\ GiftsLast
    BY <1>1, <1>2 DEF ChainsLast, GiftsLast, BornLast
  <2> QED BY <1>0, <1>1, <1>2, <2>1, ChainsQuiet, GiftsQuiet, RequestsQuiet
<1>4. MarksFit'
  <2>1. (\A c \in Coupon : StaysFrozen(c) /\ coupon'[c].frozenBy = coupon[c].frozenBy) /\ ReturnsLast({})
    BY <1>1, <1>2 DEF StaysFrozen, ReturnsLast, IsOpen
  <2> QED BY <1>0, <1>1, <2>1, MarksQuiet
<1>5. SpendingFits'
  <2>1. CashoutsLast /\ UsedLeave({})
    BY <1>1, <1>2 DEF CashoutsLast, UsedLeave
  <2> QED BY <1>0, <1>1, <1>2, <2>1, SpendingQuiet
<1>6. BooksMatch'
  <2>1. \A m \in Mama : Held(m)' = Held(m)
    BY <1>1 DEF Held, With
  <2>2. \A m \in Mama : Stock(m)' = Stock(m)
    BY <1>0, <1>1, BooksRestated
  <2> QED BY <1>0, <2>1, <2>2, BooksQuiet
<1> QED BY <1>3, <1>4, <1>5, <1>6 DEF CouponInv

\* A return is begun, to the agent above or to the system.
LEMMA ReturnBegins ==
    ASSUME CouponInv, TypeOK', RecordsFit', NEW m \in Mama, NEW S, S \subseteq With(m, "UNUSED"),
           CouponsFreeze(S), NEW new, Adds(new), new.type \in Returns, new.status = "PENDING",
           new.from = m, new.num = Cardinality(S), new.spent = {}, SoldOnce'
    PROVE  CouponInv'
<1>0. TypeOK /\ RecordsFit /\ RequestsFit /\ ChainsFit /\ GiftsFit /\ MarksFit /\ SpendingFits /\ BooksMatch
  BY DEF CouponInv
<1>1. /\ RowsLast /\ S \subseteq Coupon /\ \A c \in S : coupon[c].status = "UNUSED"
      /\ record'[NewId] = new /\ \A o \in Id : record'[o] = record[o]
  BY RowsLastAdds DEF With, Adds
<1>2. ChainsFit' /\ GiftsFit' /\ RequestsFit'
  <2>1. ChainsLast
    BY <1>1 DEF ChainsLast, BornLast, CouponsFreeze
  <2>2. GiftsLast
    BY <1>1, <2>1 DEF ChainsLast, GiftsLast, CouponsFreeze
  <2> QED BY <1>0, <1>1, <2>1, <2>2, ChainsQuiet, GiftsQuiet, RequestsQuiet DEF Returns
<1>3. MarksFit'
  BY <1>0, MarksFreeze
<1>4. SpendingFits'
  <2>1. CashoutsLast
    BY <1>1 DEF CashoutsLast
  <2>2. UsedLeave({})
    BY <1>1 DEF UsedLeave, CouponsFreeze
  <2>3. \A r \in Id : (record[r].type = "OUT_EXCHG_SALEORDER" /\ ~SoldBack(record[r].order)')
                           => StillSpent(r) \cap {} = {}
    OBVIOUS
  <2>4. \A r \in Id' : SpentFits(r)'
    BY <1>0, <1>1, <2>1, <2>2, <2>3, SpentQuiet DEF SpendingFits, Returns
  <2> QED BY <2>4 DEF SpendingFits
<1>5. BooksMatch'
  <2>1. \A a \in Mama : Held(a)' = Held(a)
    BY <1>1 DEF Held, With, CouponsFreeze
  <2>2. \A a \in Mama : Stock(a)' = Stock(a)
    BY <1>0, BooksAdded
  <2> QED BY <1>0, <2>1, <2>2, BooksQuiet
<1> QED BY <1>2, <1>3, <1>4, <1>5 DEF CouponInv

LEMMA ApplyReturnKeeps ==
    ASSUME CouponInv, TypeOK', RecordsFit', NEW m \in Mama, NEW S \in SUBSET With(m, "UNUSED"), ApplyReturn(m, S)
    PROVE  CouponInv'
<1>0. TypeOK /\ SpendingFits /\ S \in SUBSET Coupon
  BY DEF CouponInv, With
<1>1. PICK up \in Mama : Adds(Returned(m, up, S)) /\ CouponsFreeze(S)
  BY <1>0, ApplyReturnRows
<1> DEFINE new == Returned(m, up, S)
<1>2. /\ new.type = "IN_RETURN_COUPON" /\ new.status = "PENDING" /\ new.from = m
      /\ new.num = Cardinality(S) /\ new.spent = {}
  BY DEF Returned, New
<1> HIDE DEF new
<1>3. RowsLast /\ record'[NewId] = new /\ \A o \in Id : record'[o] = record[o]
  BY <1>1, RowsLastAdds DEF Adds, new
<1>4. SoldOnce'
  <2>1. CashoutsLast /\ NoCashout /\ SoldOnce
    BY <1>0, <1>2, <1>3 DEF CashoutsLast, NoCashout, SpendingFits
  <2> QED BY <1>3, <2>1, SoldOnceQuiet
<1> QED BY <1>1, <1>2, <1>4, ReturnBegins DEF Returns, new

LEMMA ApplyCashoutKeeps ==
    ASSUME Careful, CouponInv, TypeOK', RecordsFit', NEW m \in Mama, NEW S \in SUBSET With(m, "UNUSED"),
           NEW r \in Id, ApplyCashout(m, S, r)
    PROVE  CouponInv'
<1> DEFINE new == Sold(m, S, r)
<1>0. TypeOK /\ SpendingFits /\ S \in SUBSET Coupon
  BY DEF CouponInv, With
<1>1. Adds(new) /\ CouponsFreeze(S)
  BY <1>0, ApplyCashoutRows
<1>2. SoldOnce'
  BY <1>0, <1>1, SellingOnce
<1>3. /\ new.type = "OUT_CASHOUT" /\ new.status = "PENDING" /\ new.from = m
      /\ new.num = Cardinality(S) /\ new.spent = {}
  BY DEF Sold, New
<1> HIDE DEF new
<1> QED BY <1>1, <1>2, <1>3, ReturnBegins DEF Returns

\* What is frozen for an open return.
LEMMA FrozenForReturn ==
    ASSUME TypeOK, RecordsFit, MarksFit, NEW r \in Id, IsOpen(r), FrozenBy(r) # {}
    PROVE  /\ record[r].type \in Returns /\ FrozenBy(r) \subseteq Coupon
           /\ Cardinality(FrozenBy(r)) = record[r].num
           /\ \A c \in FrozenBy(r) : /\ coupon[c].status = "FREEZE" /\ ~coupon[c].debt
                                     /\ coupon[c].owner = record[r].from
<1>1. FrozenBy(r) \subseteq Coupon /\ r # 0
  BY IdFacts DEF FrozenBy, Id
<1>2. record[r].type \in Returns
  BY <1>1 DEF FrozenBy, MarksFit, MarkFits
<1> QED BY <1>1, <1>2 DEF FrozenBy, MarksFit, MarkFits

\* A return is rejected or taken back.
LEMMA ReturnReleased ==
    ASSUME CouponInv, TypeOK', RecordsFit', NEW r \in Id, IsOpen(r), record[r].type \in Returns,
           Restates(r, "CANCELED"), CouponsBecome(FrozenBy(r), "UNUSED")
    PROVE  CouponInv'
<1>0. TypeOK /\ RecordsFit /\ RequestsFit /\ ChainsFit /\ GiftsFit /\ MarksFit /\ SpendingFits /\ BooksMatch
  BY DEF CouponInv
<1> DEFINE S == FrozenBy(r)
<1>1. /\ RowsLast /\ NewId \notin Id' /\ record'[r].status = "CANCELED" /\ SameRecord(r)
      /\ \A o \in Id \ {r} : record'[o] = record[o]
  BY <1>0, RowsLastRestates, IdFacts DEF Restates
<1>2. S \subseteq Coupon /\ \A c \in S : coupon[c].status = "FREEZE"
  BY DEF FrozenBy
<1>3. /\ MarksLast /\ \A c \in Coupon \ S : coupon'[c] = coupon[c]
      /\ \A c \in S : /\ coupon'[c].status = "UNUSED" /\ coupon'[c].debt = coupon[c].debt
                      /\ coupon'[c].owner = coupon[c].owner /\ coupon'[c].chain = coupon[c].chain
  BY <1>2, BecomesMarks DEF CouponsBecome, Becomes
<1> HIDE DEF S
<1>4. ChainsFit' /\ GiftsFit' /\ RequestsFit'
  <2>1. ChainsLast
    BY <1>2, <1>3 DEF ChainsLast, BornLast, MarksLast
  <2>2. GiftsLast
    BY <1>1, <1>2, <1>3, <2>1 DEF ChainsLast, GiftsLast, Returns
  <2> QED BY <1>0, <1>1, <2>1, <2>2, ChainsQuiet, GiftsQuiet, RequestsQuiet DEF Returns
<1>5. MarksFit'
  <2>1. ~IsOpen(r)' /\ ReturnsLast({r})
    BY <1>1 DEF IsOpen, ReturnsLast
  <2>2. \A c \in Coupon \ S : StaysFrozen(c)
    BY <1>3 DEF StaysFrozen
  <2> QED BY <1>0, <1>1, <1>3, <2>1, <2>2, MarksClose DEF S
<1>6. SpendingFits'
  <2>1. CashoutsLast
    BY <1>1 DEF CashoutsLast, IsOpen
  <2>2. UsedLeave({})
    BY <1>2, <1>3 DEF UsedLeave
  <2> QED BY <1>0, <1>1, <2>1, <2>2, SpendingQuiet
<1>7. BooksMatch'
  <2>1. \A m \in Mama : Held(m)' = Held(m)
    BY <1>2, <1>3 DEF Held, With
  <2>2. \A m \in Mama : Stock(m)' = Stock(m)
    BY <1>0, BooksRestated
  <2> QED BY <1>0, <2>1, <2>2, BooksQuiet
<1> QED BY <1>4, <1>5, <1>6, <1>7 DEF CouponInv

LEMMA ReturnEndKeeps ==
    ASSUME Careful, CouponInv, TypeOK', RecordsFit', NEW r \in Id, RejectReturn(r) \/ CancelReturn(r)
    PROVE  CouponInv'
<1>0. TypeOK /\ RecordsFit /\ MarksFit
  BY DEF CouponInv
<1>1. CASE RejectReturn(r)
  BY <1>0, <1>1, RejectReturnRows, ReturnReleased DEF Returns
<1>2. CASE CancelReturn(r)
  BY <1>0, <1>2, CancelReturnRows, FrozenForReturn, ReturnReleased
<1> QED BY <1>1, <1>2

LEMMA ReturnUpKeeps ==
    ASSUME Careful, CouponInv, TypeOK', RecordsFit', NEW m \in Mama, NEW r \in Id, ReturnUp(m, r)
    PROVE  CouponInv'
<1> DEFINE up == record[r].to
           S == FrozenBy(r)
<1>0. TypeOK /\ RecordsFit /\ RequestsFit /\ ChainsFit /\ GiftsFit /\ MarksFit /\ SpendingFits /\ BooksMatch
  BY DEF CouponInv
<1>1. /\ up \in Mama /\ IsOpen(r) /\ Restates(r, "DELIVERED")
      /\ S # {} /\ \A c \in S : coupon[c].owner = record[r].from
      /\ S \subseteq Coupon /\ record[r].type \in Returns /\ Cardinality(S) = record[r].num
      /\ \A c \in S : coupon[c].status = "FREEZE"
  BY <1>0, ReturnUpRows, FrozenForReturn
<1>2. m = record[r].from /\ {c \in S : coupon[c].owner = m} = S
  <2> DEFINE T == {c \in FrozenBy(r) : coupon[c].owner = m}
  <2>1. T # {}
    BY <1>0, ReturnUpRows
  <2>2. PICK c \in S : coupon[c].owner = m
    BY <2>1
  <2> HIDE DEF S
  <2>3. m = record[r].from
    BY <1>1, <2>2
  <2> QED BY <1>1, <2>3
<1>3. CouponsReturn(S, up) /\ \A c \in S : coupon[c].chain # <<>> /\ Last(coupon[c].chain) = up
  <2> DEFINE T == {c \in FrozenBy(r) : coupon[c].owner = m}
  <2>1. CouponsReturn(T, up) /\ \A c \in T : coupon[c].chain # <<>> /\ Last(coupon[c].chain) = up
    BY <1>0, ReturnUpRows
  <2>2. T = S
    BY <1>2
  <2> HIDE DEF T, S
  <2> QED BY <2>1, <2>2
<1>4. /\ RowsLast /\ NewId \notin Id' /\ record'[r].status = "DELIVERED" /\ SameRecord(r)
      /\ \A o \in Id \ {r} : record'[o] = record[o]
  BY <1>0, <1>1, RowsLastRestates, IdFacts DEF Restates
<1>5. ChainsFit'
  BY <1>0, <1>1, <1>3, <1>4, ReturnedChains
<1>6. /\ MarksLast /\ \A c \in Coupon \ S : coupon'[c] = coupon[c]
      /\ \A c \in S : coupon'[c].status = "UNUSED" /\ coupon'[c].debt = coupon[c].debt /\ coupon'[c].owner = up
  BY <1>1, <1>3 DEF CouponsReturn, MarksLast
<1> HIDE DEF S, up
<1>7. GiftsFit' /\ RequestsFit'
  <2>1. BornLast
    BY <1>1, <1>6 DEF BornLast, MarksLast
  <2>2. GiftsLast
    BY <1>1, <1>4, <1>6, <2>1 DEF GiftsLast, Returns
  <2> QED BY <1>0, <1>1, <1>4, <2>2, GiftsQuiet, RequestsQuiet DEF Returns
<1>8. MarksFit'
  <2>1. ~IsOpen(r)' /\ ReturnsLast({r})
    BY <1>4 DEF IsOpen, ReturnsLast
  <2>2. \A c \in Coupon \ S : StaysFrozen(c)
    BY <1>6 DEF StaysFrozen
  <2> QED BY <1>0, <1>1, <1>4, <1>6, <2>1, <2>2, MarksClose DEF S
<1>9. SpendingFits'
  <2>1. CashoutsLast
    BY <1>1, <1>4 DEF CashoutsLast, IsOpen
  <2>2. UsedLeave({})
    BY <1>1, <1>6 DEF UsedLeave
  <2> QED BY <1>0, <1>4, <2>1, <2>2, SpendingQuiet
<1>10. BooksMatch'
  <2>1. BooksMove(Cardinality(S), m, up)
    BY <1>0, <1>1, <1>2, BooksRestated DEF up
  <2>2. HandsMove(S, m, up)
    BY <1>1, <1>2, <1>6 DEF HandsMove, Held, With
  <2> QED BY <1>0, <1>1, <2>1, <2>2, BooksStep
<1> QED BY <1>5, <1>7, <1>8, <1>9, <1>10 DEF CouponInv

LEMMA UnfreezeKeeps ==
    ASSUME CouponInv, TypeOK', RecordsFit', NEW m \in Mama, Unfreeze(m)
    PROVE  CouponInv'
<1> DEFINE S == {c \in With(m, "FREEZE") : coupon[c].debt}
<1>0. TypeOK /\ RecordsFit /\ RequestsFit /\ ChainsFit /\ GiftsFit /\ MarksFit /\ SpendingFits /\ BooksMatch
  BY DEF CouponInv
<1>1. /\ \A c \in Coupon : c \notin S => coupon'[c] = coupon[c]
      /\ \A c \in Coupon : c \in S =>
           /\ coupon'[c].status = "UNUSED"
           /\ coupon'[c].owner = coupon[c].owner /\ coupon'[c].bought = coupon[c].bought
           /\ coupon'[c].chain = coupon[c].chain
      /\ record' = record /\ Id' = Id /\ RowsLast /\ NewId \notin Id'
  BY <1>0, UnfreezeRows, RowsLastSame, IdFacts
<1>2. \A c \in S : coupon[c].status = "FREEZE"
  BY DEF With
<1> HIDE DEF S
<1>3. ChainsFit' /\ GiftsFit' /\ RequestsFit'
  <2>1. ChainsLast
    BY <1>1, <1>2 DEF ChainsLast, BornLast
  <2>2. GiftsLast
    BY <1>1, <1>2, <2>1 DEF ChainsLast, GiftsLast
  <2> QED BY <1>0, <1>1, <2>1, <2>2, ChainsQuiet, GiftsQuiet, RequestsQuiet
<1>4. MarksFit'
  BY <1>0, MarksUnfreeze
<1>5. SpendingFits'
  <2>1. CashoutsLast /\ UsedLeave({})
    BY <1>1, <1>2 DEF CashoutsLast, UsedLeave
  <2> QED BY <1>0, <1>1, <2>1, SpendingQuiet
<1>6. BooksMatch'
  <2>1. \A a \in Mama : Held(a)' = Held(a)
    BY <1>1, <1>2 DEF Held, With
  <2>2. ASSUME NEW a \in Mama PROVE Stock(a)' = Stock(a)
    <3>1. 0 \notin Id /\ \A r \in Id \ {0} : record'[r] = record[r]
      BY <1>1 DEF Id
    <3>2. Stock(a) \in Int /\ Stock(a)' = Stock(a) + 0 + 0
      BY <1>0, <1>1, <3>1, StockMoves
    <3> QED BY <3>2
  <2> QED BY <1>0, <2>1, <2>2, BooksQuiet
<1> QED BY <1>3, <1>4, <1>5, <1>6 DEF CouponInv

LEMMA SpendKeeps ==
    ASSUME CouponInv, TypeOK', RecordsFit', NEW m \in Mama, NEW S \in SUBSET With(m, "UNUSED"),
           NEW order \in Id \cup {NewId}, NEW type \in {"OUT_CONSUMED", "OUT_EXCHG_SALEORDER"},
           Spend(m, S, type, order)
    PROVE  CouponInv'
<1> DEFINE new == Spent(m, S, type, order)
<1>0. /\ TypeOK /\ RecordsFit /\ RequestsFit /\ ChainsFit /\ GiftsFit /\ MarksFit /\ SpendingFits /\ BooksMatch
      /\ S \in SUBSET Coupon
  BY DEF CouponInv, With
<1>1. Adds(new) /\ CouponsBecome(S, "USED") /\ RowsLast
  BY <1>0, SpendRows, RowsLastAdds
<1>2. SpendingFits'
  BY <1>0, <1>1, SpendSpends
<1>3. /\ new.type = type /\ new.status = "DELIVERED" /\ new.from = m /\ new.to = System
      /\ new.num = Cardinality(S)
  BY DEF Spent, New
<1> HIDE DEF new
<1>4. record'[NewId] = new /\ \A o \in Id : record'[o] = record[o]
  BY <1>1 DEF Adds
<1>5. \A c \in S : coupon[c].status = "UNUSED" /\ coupon[c].owner = m
  BY DEF With
<1>6. ChainsFit' /\ GiftsFit' /\ RequestsFit'
  <2>1. ChainsLast
    BY <1>1, <1>5 DEF ChainsLast, BornLast, CouponsBecome, Becomes
  <2>2. GiftsLast
    BY <1>1, <1>4, <1>5, <2>1 DEF ChainsLast, GiftsLast, CouponsBecome
  <2> QED BY <1>0, <1>1, <1>3, <1>4, <2>1, <2>2, ChainsQuiet, GiftsQuiet, RequestsQuiet
<1>7. MarksFit'
  <2>1. \A c \in Coupon : StaysFrozen(c) /\ coupon'[c].frozenBy = coupon[c].frozenBy
    BY <1>1, <1>5 DEF StaysFrozen, CouponsBecome, Becomes
  <2>2. ReturnsLast({})
    BY <1>3, <1>4 DEF ReturnsLast, Returns, IsOpen
  <2> QED BY <1>0, <1>1, <2>1, <2>2, MarksQuiet
<1>8. BooksMatch'
  <2>1. BooksMove(Cardinality(S), m, System)
    BY <1>0, <1>1, <1>3, BooksAdded
  <2>2. HandsMove(S, m, System)
    BY <1>0, <1>1, <1>5, CouponAssumption DEF HandsMove, Held, With, CouponsBecome, Becomes
  <2> QED BY <1>0, <2>1, <2>2, BooksStep
<1> QED BY <1>2, <1>6, <1>7, <1>8 DEF CouponInv

LEMMA ReturnGoodsKeeps ==
    ASSUME CouponInv, TypeOK', RecordsFit', NEW r \in Id, NEW S \in SUBSET Coupon, ReturnGoods(r, S)
    PROVE  CouponInv'
<1> DEFINE new == GivenBack(r, S)
           a == record[r].from
<1>0. TypeOK /\ RecordsFit /\ RequestsFit /\ ChainsFit /\ GiftsFit /\ MarksFit /\ SpendingFits /\ BooksMatch
  BY DEF CouponInv
<1>1. /\ record[r].type = "OUT_CONSUMED" /\ S \subseteq StillSpent(r)
      /\ Adds(new) /\ CouponsBecome(S, "UNUSED") /\ RowsLast
  BY <1>0, ReturnGoodsRows, RowsLastAdds
<1>2. /\ new.type = "IN_RETURN_GOODS" /\ new.status = "DELIVERED" /\ new.from = System /\ new.to = a
      /\ new.num = Cardinality(S) /\ new.spent = {}
  BY DEF GivenBack, New
<1> HIDE DEF new
<1>3. record'[NewId] = new /\ \A o \in Id : record'[o] = record[o]
  BY <1>1 DEF Adds
<1>4. \A c \in S : coupon[c].status = "USED" /\ coupon[c].owner = a
  BY <1>0, <1>1 DEF SpendingFits, SpentFits, StillSpent
<1>5. ChainsFit' /\ GiftsFit' /\ RequestsFit'
  <2>1. ChainsLast
    BY <1>1, <1>4 DEF ChainsLast, BornLast, CouponsBecome, Becomes
  <2>2. GiftsLast
    BY <1>1, <1>3, <1>4, <2>1 DEF ChainsLast, GiftsLast, CouponsBecome
  <2> QED BY <1>0, <1>1, <1>2, <1>3, <2>1, <2>2, ChainsQuiet, GiftsQuiet, RequestsQuiet
<1>6. MarksFit'
  <2>1. \A c \in Coupon : StaysFrozen(c) /\ coupon'[c].frozenBy = coupon[c].frozenBy
    BY <1>1, <1>4 DEF StaysFrozen, CouponsBecome, Becomes
  <2>2. ReturnsLast({})
    BY <1>2, <1>3 DEF ReturnsLast, Returns, IsOpen
  <2> QED BY <1>0, <1>1, <2>1, <2>2, MarksQuiet
<1>7. SpendingFits'
  <2>1. CashoutsLast /\ NoCashout /\ SoldOnce
    BY <1>0, <1>2, <1>3 DEF CashoutsLast, NoCashout, SpendingFits
  <2>2. UsedLeave(S)
    BY <1>1 DEF UsedLeave, CouponsBecome, Becomes
  <2>3. \A x \in Id : (record[x].type = "OUT_EXCHG_SALEORDER" /\ ~SoldBack(record[x].order)')
                           => StillSpent(x) \cap S = {}
    BY <1>0, <1>1, StillSpentOnce
  <2>4. \A x \in Id' : SpentFits(x)'
    BY <1>0, <1>1, <1>2, <1>3, <2>1, <2>2, <2>3, SpentQuiet DEF SpendingFits
  <2>5. SoldOnce'
    BY <1>1, <2>1, SoldOnceQuiet
  <2> QED BY <2>4, <2>5 DEF SpendingFits
<1>8. BooksMatch'
  <2>1. BooksMove(Cardinality(S), System, a)
    BY <1>0, <1>1, <1>2, BooksAdded
  <2>2. HandsMove(S, System, a)
    BY <1>1, <1>4, CouponAssumption DEF HandsMove, Held, With, CouponsBecome, Becomes
  <2> QED BY <1>0, <2>1, <2>2, BooksStep
<1> QED BY <1>5, <1>6, <1>7, <1>8 DEF CouponInv

LEMMA DeliverKeeps ==
    ASSUME Shallow, CouponInv, TypeOK', RecordsFit', NEW r \in Id, NEW S \in SUBSET Coupon, Deliver(r, S)
    PROVE  CouponInv'
<1> DEFINE k == record[r].order
           from == record[r].from
           to == record[k].to
<1>0. TypeOK /\ RecordsFit /\ RequestsFit /\ ChainsFit /\ GiftsFit /\ MarksFit /\ SpendingFits /\ BooksMatch
  BY DEF CouponInv
<1>1. /\ CanProcess(r) /\ k \in Id /\ to \in Mama /\ from \in Mama
      /\ S \subseteq With(from, "UNUSED") /\ Cardinality(S) = record[r].num
      /\ Completes(k) /\ RowsLast
  BY <1>0, DeliverRows, RowsLastCompletes
<1>2. PICK up \in ShipChains(from, to) : CouponsHanded(S, to, up)
  BY <1>0, DeliverRows
<1>3. ChainsFit'
  BY <1>0, <1>1, <1>2, HandedChains
<1>4. /\ RequestFits(r, k) /\ NewId \notin Id' /\ Id' = Id
      /\ \A o \in Id : record[o].type # "OUT_TRANSFER" => record'[o] = record[o]
  <2>1. \A o \in Id : record[o].order = k => record[o].type = "OUT_TRANSFER"
    BY <1>0, <1>1 DEF RecordsFit, CanProcess
  <2> QED BY <1>0, <1>1, <2>1, IdFacts DEF RequestsFit, Completes
<1>5. /\ MarksLast /\ \A c \in Coupon \ S : coupon'[c] = coupon[c]
      /\ \A c \in S : /\ coupon[c].status = "UNUSED" /\ coupon[c].owner = from
                      /\ coupon'[c].status = "UNUSED" /\ coupon'[c].owner = to
                      /\ coupon'[c].debt = coupon[c].debt
  BY <1>1, <1>2 DEF With, CouponsHanded, MarksLast
<1>6. RequestsFit'
  BY <1>0, <1>1, OrderCompletes
<1>7. BooksMove(Cardinality(S), from, to)
  <2> SUFFICES ASSUME NEW m \in Mama
               PROVE  Stock(m)' = Stock(m) + Of(Cardinality(S), to, m) - Of(Cardinality(S), from, m)
    BY DEF BooksMove
  <2>1. \A o \in Id : record[o].order = k => record[o].status # "DELIVERED"
    BY <1>4 DEF RequestFits
  <2>2. /\ Stock(m) \in Int
        /\ Stock(m)' = Stock(m) + SumFunctionOnSet(Asked(k, m), RecordId)
    BY <1>0, <1>1, <2>1, StockCompletes
  <2>3. SumFunctionOnSet(Asked(k, m), RecordId) = Of(Cardinality(S), to, m) - Of(Cardinality(S), from, m)
    BY <1>1, <1>4 DEF RequestFits, Of
  <2>4. Of(Cardinality(S), to, m) \in Int /\ Of(Cardinality(S), from, m) \in Int
    BY CouponsFinite DEF Of
  <2> QED BY <2>2, <2>3, <2>4
<1> HIDE DEF k, from, to
<1>8. GiftsFit'
  <2>1. GiftsLast
    BY <1>4, <1>5 DEF GiftsLast, BornLast, MarksLast
  <2> QED BY <1>0, <1>1, <2>1, GiftsQuiet
<1>9. MarksFit'
  <2>1. \A c \in Coupon : StaysFrozen(c) /\ coupon'[c].frozenBy = coupon[c].frozenBy
    BY <1>5 DEF StaysFrozen, MarksLast
  <2>2. ReturnsLast({})
    BY <1>4 DEF ReturnsLast, Returns, IsOpen
  <2> QED BY <1>0, <1>1, <2>1, <2>2, MarksQuiet
<1>10. SpendingFits'
  <2>1. CashoutsLast
    BY <1>4 DEF CashoutsLast
  <2>2. UsedLeave({})
    BY <1>5 DEF UsedLeave
  <2> QED BY <1>0, <1>1, <1>4, <2>1, <2>2, SpendingQuiet
<1>11. BooksMatch'
  <2>1. HandsMove(S, from, to)
    BY <1>1, <1>5 DEF HandsMove, Held, With
  <2> QED BY <1>0, <1>7, <2>1, BooksStep
<1> QED BY <1>3, <1>6, <1>8, <1>9, <1>10, <1>11 DEF CouponInv

\* Staff agree to a cashout of the coupons S; of those the exchange e used, if
\* there is one, it gets `back`.
LEMMA CashoutAgreed ==
    ASSUME CouponInv, TypeOK', RecordsFit', NEW r \in Id, IsOpen(r), record[r].type = "OUT_CASHOUT",
           FrozenBy(r) # {}, NEW back \in SUBSET Coupon, NEW short \in BOOLEAN, NEW e,
           CouponsUndone(FrozenBy(r), back, short),
           back = {} => Restates(r, "DELIVERED"),
           back # {} => /\ e \in ExchangeOf(record[r].order) /\ back \subseteq record[e].spent
                        /\ Continues(r, "DELIVERED", Undone(e, back))
    PROVE  CouponInv'
<1> DEFINE S == FrozenBy(r)
           from == record[r].from
           new == Undone(e, back)
           b == record[e].from
<1>0. TypeOK /\ RecordsFit /\ RequestsFit /\ ChainsFit /\ GiftsFit /\ MarksFit /\ SpendingFits /\ BooksMatch
  BY DEF CouponInv
<1>1. /\ \A c \in S : coupon[c].status = "FREEZE" /\ coupon[c].owner = from
      /\ S \subseteq Coupon /\ Cardinality(S) = record[r].num /\ record[r].to = System
  BY <1>0, FrozenForReturn DEF RecordsFit, BetweenRight
<1>2. back # {} => /\ e \in Id /\ record[e].order = record[r].order
                   /\ back \subseteq StillSpent(e)
                   /\ \A c \in back : coupon[c].status = "USED" /\ coupon[c].owner = b
  <2>1. SUFFICES ASSUME back # {}
                 PROVE  /\ e \in Id /\ record[e].order = record[r].order
                        /\ back \subseteq StillSpent(e)
                        /\ \A c \in back : coupon[c].status = "USED" /\ coupon[c].owner = b
    OBVIOUS
  <2>2. e \in Id /\ record[e].order = record[r].order /\ back \subseteq StillSpent(e)
    BY <1>0, <2>1, ExchangeWhole
  <2> QED BY <1>0, <2>2 DEF SpendingFits, SpentFits, StillSpent
<1>3. /\ RowsLast /\ SameRecord(r) /\ record'[r].status = "DELIVERED"
      /\ \A o \in Id \ {r} : record'[o] = record[o]
      /\ back = {} => NewId \notin Id'
      /\ back # {} => NewId \in Id' /\ record'[NewId] = new
  <2>1. CASE back = {}
    BY <1>0, <2>1, RowsLastRestates, IdFacts DEF Restates
  <2>2. CASE back # {}
    <3>1. Continues(r, "DELIVERED", new) /\ RowsLast
      BY <2>2, RowsLastContinues
    <3> HIDE DEF new
    <3> QED BY <2>2, <3>1 DEF Continues
  <2> QED BY <2>1, <2>2
<1>4. /\ new.type = "IN_CANCEL_EXCHG" /\ new.status = "DELIVERED" /\ new.from = System /\ new.to = b
      /\ new.num = Cardinality(back) /\ new.spent = {}
  BY DEF Undone, New
<1>5. /\ MarksLast
      /\ \A c \in Coupon \ (S \cup back) : coupon'[c] = coupon[c]
      /\ \A c \in Coupon : coupon'[c].owner = coupon[c].owner /\ coupon'[c].chain = coupon[c].chain
      /\ \A c \in S : c \notin back /\ coupon'[c].status = "CANCEL" /\ coupon'[c].debt = coupon[c].debt
      /\ \A c \in back : /\ coupon[c].status = "USED"
                         /\ coupon'[c].status = IF short THEN "FREEZE" ELSE "UNUSED"
                         /\ coupon'[c].debt = IF short THEN TRUE ELSE coupon[c].debt
  <2>1. \A c \in S : c \notin back
    BY <1>1, <1>2
  <2> QED BY <1>1, <1>2, <2>1 DEF CouponsUndone, Becomes, MarksLast
<1> HIDE DEF S, from, new, b
<1>6. NewId \in Id' => record'[NewId].type = "IN_CANCEL_EXCHG" /\ record'[NewId].spent = {}
  BY <1>3, <1>4
<1>7. ChainsFit' /\ GiftsFit' /\ RequestsFit'
  <2>1. ChainsLast
    BY <1>1, <1>5 DEF ChainsLast, BornLast, MarksLast
  <2>2. GiftsLast
    BY <1>1, <1>3, <1>5, <2>1 DEF ChainsLast, GiftsLast
  <2> QED BY <1>0, <1>3, <1>6, <2>1, <2>2, ChainsQuiet, GiftsQuiet, RequestsQuiet
<1>8. MarksFit'
  <2>1. ~IsOpen(r)' /\ ReturnsLast({r})
    BY <1>3, <1>6 DEF IsOpen, ReturnsLast, Returns
  <2>2. \A c \in Coupon \ S : \/ StaysFrozen(c)
                              \/ coupon[c].status = "USED" /\ coupon'[c].status = "FREEZE" /\ coupon'[c].debt
    BY <1>5 DEF StaysFrozen
  <2>3. \A c \in S : coupon'[c].status # "FREEZE" /\ coupon'[c].debt = coupon[c].debt
    BY <1>5
  <2> QED BY <1>0, <1>3, <1>5, <2>1, <2>2, <2>3, MarksClose DEF S
<1>9. SpendingFits'
  <2>1. CashoutsLast /\ NoCashout /\ SoldOnce
    BY <1>0, <1>3, <1>6 DEF CashoutsLast, NoCashout, SpendingFits, IsOpen
  <2>2. UsedLeave(back)
    <3>1. \A c \in back : coupon'[c].status # "USED"
      BY <1>5
    <3>2. \A c \in Coupon \ back : coupon'[c].status = "USED" <=> coupon[c].status = "USED"
      BY <1>1, <1>5
    <3> QED BY <1>5, <3>1, <3>2 DEF UsedLeave
  <2>3. ASSUME NEW x \in Id, record[x].type = "OUT_EXCHG_SALEORDER", ~SoldBack(record[x].order)',
               NEW c \in StillSpent(x) \cap back
        PROVE  FALSE
    <3>1. e \in Id /\ c \in StillSpent(e) /\ record[e].order = record[r].order
      BY <1>2, <2>3
    <3>2. record[x].order = record[r].order
      BY <1>0, <2>3, <3>1, StillSpentOnce
    <3>3. SameRecord(x) /\ r \in Id'
      BY <1>3 DEF RowsLast, RowsType
    <3> QED BY <1>3, <2>3, <3>2, <3>3 DEF SoldBack, SameRecord
  <2>4. \A x \in Id' : SpentFits(x)'
    BY <1>0, <1>3, <1>6, <2>1, <2>2, <2>3, SpentQuiet DEF SpendingFits
  <2>5. SoldOnce'
    BY <1>3, <2>1, SoldOnceQuiet
  <2> QED BY <2>4, <2>5 DEF SpendingFits
<1>10. BooksMatch'
  <2> SUFFICES ASSUME NEW m \in Mama PROVE Stock(m)' = Cardinality(Held(m)')
    BY DEF BooksMatch, Held
  <2> DEFINE H == Held(m)
             G == Held(m)'
             M == IF from = m THEN H \ S ELSE H
             s == Cardinality(S)
             n == Cardinality(back)
  <2>1. H \in SUBSET Coupon /\ G \in SUBSET Coupon /\ M \in SUBSET Coupon /\ m # System
    BY CouponAssumption DEF Held, With
  <2>2. /\ \A c \in Coupon \ S : c \in M <=> c \in H
        /\ \A c \in S : (c \in H <=> from = m) /\ (c \in M <=> System = m)
    BY <1>1, <2>1 DEF Held, With
  <2>3. /\ \A c \in Coupon \ back : c \in G <=> c \in M
        /\ \A c \in back : (c \in M <=> System = m) /\ (c \in G <=> b = m)
    <3>1. \A c \in Coupon \ (S \cup back) : c \in G <=> c \in M
      BY <1>5 DEF Held, With
    <3>2. \A c \in S : c \notin G /\ c \notin M
      BY <1>5, <2>1, <2>2 DEF Held, With
    <3>3. \A c \in back : c \notin M /\ (c \in G <=> b = m)
      BY <1>2, <1>5 DEF Held, With
    <3> QED BY <2>1, <3>1, <3>2, <3>3
  <2>4. Stock(m) = Cardinality(H)
    BY <1>0 DEF BooksMatch, Held
  <2>5. /\ Stock(m) \in Int
        /\ Stock(m)' = Stock(m) + (Of(s, System, m) - Of(s, from, m)) + (Of(n, b, m) - Of(n, System, m))
    <3>1. /\ Stock(m) \in Int
          /\ Stock(m)' = Stock(m) + (Passes(record'[r], m) - Passes(record[r], m))
                           + (IF NewId \in Id' THEN Passes(record'[NewId], m) ELSE 0)
      BY <1>0, <1>3, StockMoves DEF RowsLast, RowsType
    <3>2. s \in Int /\ n \in Int
      BY <1>1, CouponsFinite
    <3>3. /\ Passes(record'[r], m) = Of(s, System, m) - Of(s, from, m)
          /\ Passes(record[r], m) = 0
      BY <1>1, <1>3 DEF Passes, Of, SameRecord, IsOpen, from
    <3>4. (IF NewId \in Id' THEN Passes(record'[NewId], m) ELSE 0) = Of(n, b, m) - Of(n, System, m)
      <4>1. CASE back = {}
        <5>1. n = 0
          BY <4>1, FS_EmptySet
        <5> QED BY <1>3, <4>1, <5>1 DEF Of
      <4>2. CASE back # {}
        BY <1>3, <1>4, <4>2 DEF Passes, Of
      <4> QED BY <4>1, <4>2
    <3>5. Of(s, System, m) \in Int /\ Of(s, from, m) \in Int
      BY <3>2 DEF Of
    <3> QED BY <3>1, <3>3, <3>4, <3>5
  <2>6. /\ Cardinality(H) \in Int /\ s \in Int
        /\ Cardinality(M) = Cardinality(H) + Of(s, System, m) - Of(s, from, m)
    <3>1. IsFiniteSet(H) /\ Cardinality(H) \in Nat /\ s \in Nat
      BY <1>1, <2>1, CouponsFinite
    <3>2. CASE from = m
      <4>1. M = H \ S /\ H \cap S = S
        BY <2>2, <3>2
      <4>2. Cardinality(H \ S) = Cardinality(H) - Cardinality(H \cap S)
        BY <3>1, FS_Difference
      <4>3. Of(s, System, m) = 0 /\ Of(s, from, m) = s
        BY <2>1, <3>2 DEF Of
      <4>4. Cardinality(M) = Cardinality(H) - s
        BY <4>1, <4>2
      <4> HIDE DEF M, H, s
      <4> QED BY <3>1, <4>3, <4>4
    <3>3. CASE from # m
      BY <2>1, <3>1, <3>3 DEF Of
    <3> QED BY <3>2, <3>3
  <2> HIDE DEF H, G, M
  <2>7. /\ Cardinality(M) \in Int /\ n \in Int
        /\ Cardinality(G) = Cardinality(M) + Of(n, b, m) - Of(n, System, m)
    BY ONLY <2>1, <2>3, back \in SUBSET Coupon, SetMoves
  <2>8. /\ Of(s, System, m) \in Int /\ Of(s, from, m) \in Int
        /\ Of(n, b, m) \in Int /\ Of(n, System, m) \in Int
    BY <2>6, <2>7 DEF Of
  <2> HIDE DEF s, n
  <2>9. Stock(m)' = Cardinality(G)
    BY <2>4, <2>5, <2>6, <2>7, <2>8
  <2> QED BY <2>9 DEF G
<1> QED BY <1>7, <1>8, <1>9, <1>10 DEF CouponInv

LEMMA AgreeCashoutKeeps ==
    ASSUME Careful, CouponInv, TypeOK', RecordsFit', NEW r \in Id, NEW back \in SUBSET Coupon,
           NEW short \in BOOLEAN, AgreeCashout(r, back, short)
    PROVE  CouponInv'
<1>0. /\ TypeOK /\ record[r].type = "OUT_CASHOUT" /\ FrozenBy(r) # {} /\ IsOpen(r)
  BY AgreeCashoutRows DEF CouponInv
<1>1. CASE CouponsBecome(FrozenBy(r), "CANCEL") /\ Restates(r, "DELIVERED")
  <2>1. CouponsUndone(FrozenBy(r), {}, FALSE)
    BY <1>1 DEF CouponsBecome, CouponsUndone
  <2> QED BY <1>0, <1>1, <2>1, CashoutAgreed
<1>2. ASSUME NEW e \in ExchangeOf(record[r].order), back \subseteq record[e].spent,
             CouponsUndone(FrozenBy(r), back, short), back = {} => Restates(r, "DELIVERED"),
             back # {} => Continues(r, "DELIVERED", Undone(e, back))
      PROVE  CouponInv'
  BY <1>0, <1>2, CashoutAgreed
<1> QED BY <1>0, <1>1, <1>2, AgreeCashoutRows

LEMMA CouponInit == Init => CouponInv
<1> SUFFICES ASSUME Init PROVE CouponInv
  OBVIOUS
<1>1. record = <<>> /\ Id = {} /\ Len(record) = 0
  BY DEF Init, Id
<1>2. /\ coupon \in [Coupon -> CouponRow]
      /\ \A c \in Coupon : /\ coupon[c].status = "none" /\ coupon[c].owner = System /\ coupon[c].bought = 0
                           /\ coupon[c].chain = <<>> /\ coupon[c].frozenBy = 0 /\ coupon[c].debt = FALSE
  BY DEF Init, CouponRow
<1>3. TypeOK /\ RecordsFit /\ RequestsFit
  BY <1>1, <1>2, CouponAssumption DEF TypeOK, RecordsFit, RequestsFit
<1>4. ChainsFit /\ GiftsFit /\ MarksFit /\ SpendingFits
  BY <1>1, <1>2 DEF ChainsFit, ChainFits, GiftsFit, GiftFits, MarksFit, MarkFits, SpendingFits, SoldOnce
<1>5. BooksMatch
  <2> SUFFICES ASSUME NEW m \in Mama PROVE Stock(m) = Cardinality(Held(m))
    BY DEF BooksMatch, Held
  <2>1. Held(m) = {} /\ Cardinality(Held(m)) = 0
    BY <1>2, FS_EmptySet DEF Held, With
  <2>2. Stock(m) = 0
    BY <1>1, SumEmpty DEF Stock
  <2> QED BY <2>1, <2>2
<1> QED BY <1>3, <1>4, <1>5 DEF CouponInv

LEMMA CouponStep == ASSUME Careful, Shallow PROVE CouponInv /\ [Next]_vars => CouponInv'
<1> SUFFICES ASSUME CouponInv, [Next]_vars PROVE CouponInv'
  OBVIOUS
<1>0. TypeOK' /\ RecordsFit'
  BY TypesStep DEF CouponInv
<1>1. ASSUME NEW m \in Mama, NEW S \in SUBSET Unborn, Buy(m, S) PROVE CouponInv'
  BY <1>0, <1>1, CreateKeeps DEF Buy
<1>2. ASSUME NEW m \in Mama, NEW c \in Unborn, Give(m, c) PROVE CouponInv'
  <2>1. {c} \in SUBSET Unborn
    OBVIOUS
  <2> QED BY <1>0, <1>2, <2>1, CreateKeeps DEF Give
<1>3. ASSUME NEW m \in Mama, NEW num \in 1 .. Cardinality(Coupon), Apply(m, num) PROVE CouponInv'
  <2>1. num \in Nat
    BY CouponsFinite
  <2> QED BY <1>0, <1>3, <2>1, ApplyKeeps
<1>4. ASSUME NEW m \in Mama, NEW S \in SUBSET With(m, "UNUSED"), ApplyReturn(m, S) PROVE CouponInv'
  BY <1>0, <1>4, ApplyReturnKeeps
<1>5. ASSUME NEW m \in Mama, NEW S \in SUBSET With(m, "UNUSED"), Consume(m, S) PROVE CouponInv'
  BY <1>0, <1>5, SpendKeeps DEF Consume
<1>6. ASSUME NEW m \in Mama, NEW S \in SUBSET With(m, "UNUSED"), NEW r \in Id, ApplyCashout(m, S, r)
      PROVE  CouponInv'
  BY <1>0, <1>6, ApplyCashoutKeeps
<1>7. ASSUME NEW m \in Mama, NEW S \in SUBSET With(m, "UNUSED"), NEW r \in Id, Exchange(m, r, S)
      PROVE  CouponInv'
  BY <1>0, <1>7, SpendKeeps DEF Exchange
<1>8. ASSUME NEW m \in Mama, NEW r \in Id, ReturnUp(m, r) PROVE CouponInv'
  BY <1>0, <1>8, ReturnUpKeeps
<1>9. ASSUME NEW m \in Mama, Unfreeze(m) PROVE CouponInv'
  BY <1>0, <1>9, UnfreezeKeeps
<1>10. ASSUME NEW c \in Coupon, CancelGift(c) PROVE CouponInv'
  BY <1>0, <1>10, CancelGiftKeeps
<1>11. ASSUME NEW r \in Id, CancelApply(r) \/ PassOn(r) \/ AgreeReturn(r) PROVE CouponInv'
  BY <1>0, <1>11, CancelApplyKeeps, PassOnKeeps, AgreeReturnKeeps
<1>12. ASSUME NEW r \in Id, RejectReturn(r) \/ CancelReturn(r) PROVE CouponInv'
  BY <1>0, <1>12, ReturnEndKeeps
<1>13. ASSUME NEW r \in Id, NEW S \in SUBSET Coupon, Deliver(r, S) PROVE CouponInv'
  BY <1>0, <1>13, DeliverKeeps
<1>14. ASSUME NEW r \in Id, NEW S \in SUBSET Coupon, ReturnGoods(r, S) PROVE CouponInv'
  BY <1>0, <1>14, ReturnGoodsKeeps
<1>15. ASSUME NEW r \in Id, NEW S \in SUBSET Coupon, NEW short \in BOOLEAN, AgreeCashout(r, S, short)
       PROVE  CouponInv'
  BY <1>0, <1>15, AgreeCashoutKeeps
<1>16. CASE UNCHANGED vars
  <2>1. RowsLast /\ Id' = Id /\ NewId \notin Id' /\ coupon' = coupon /\ record' = record
    BY <1>16, RowsLastSame, IdFacts DEF CouponInv, vars
  <2>2. RequestsFit'
    BY <1>0, <2>1, RequestsQuiet DEF CouponInv
  <2>3. \A m \in Mama : Stock(m)' = Stock(m)
    BY <2>1 DEF Stock, Moved
  <2> QED BY <1>0, <2>1, <2>2, <2>3, RequestsOnly
<1> QED
  BY <1>1, <1>2, <1>3, <1>4, <1>5, <1>6, <1>7, <1>8, <1>9, <1>10, <1>11, <1>12, <1>13, <1>14, <1>15, <1>16
     DEF Next

-----------------------------------------------------------------------------
(***************************************************************************)
(* The theorems.                                                           *)
(***************************************************************************)
\* The rows stay what the models of UserCoupon and CouponTransferRecord say,
\* whatever the agents and the staff do.
THEOREM CouponTypes == Spec => []TypeOK
<1>1. Init => TypeOK /\ RecordsFit
  BY CouponInit DEF CouponInv
<1> QED BY <1>1, TypesStep, PTL DEF Spec

LEMMA CouponAlways == ASSUME Careful, Shallow PROVE Spec => []CouponInv
<1>1. CouponInv /\ [Next]_vars => CouponInv'
  BY CouponStep
<1> QED BY <1>1, CouponInit, PTL DEF Spec

\* What get_coupon_stock_num reads off the records is what the agent holds:
\* _diff_coupons finds nothing, through requests up the line, returns, sales
\* and exchanges, if people act only on what is under way and no agent has more
\* others above it than get_ship_chain walks up.
THEOREM BooksAgree == ASSUME Careful, Shallow PROVE Spec => []BooksMatch
<1>1. CouponInv => BooksMatch
  BY DEF CouponInv
<1> QED BY <1>1, CouponAlways, PTL

\* A coupon can always go back up the way it came down: extras['chain'], as
\* deliver_coupon and return_transfer_coupon leave it, leads from the agent
\* who bought it to its owner.
THEOREM ChainsLead == ASSUME Careful, Shallow PROVE Spec => []ChainLeadsToOwner
<1>1. CouponInv => ChainLeadsToOwner
  BY DEF CouponInv, ChainsFit, ChainFits, ChainLeadsToOwner, Unborn, LeadsTo
<1> QED BY <1>1, CouponAlways, PTL

\* No coupon is frozen for a return that was agreed, rejected or taken back,
\* and no return under way has lost one of its coupons.
THEOREM FrozenUnderWay == ASSUME Careful, Shallow PROVE Spec => []FrozenIsUnderWay
<1>1. CouponInv => FrozenIsUnderWay
  BY DEF CouponInv, MarksFit, MarkFits, FrozenIsUnderWay, Returns
<1> QED BY <1>1, CouponAlways, PTL
=============================================================================
