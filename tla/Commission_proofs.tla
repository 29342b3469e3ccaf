------------------------- MODULE Commission_proofs -------------------------
(***************************************************************************)
(* What the tasks of Commission keep for any commission, any number of     *)
(* saves and queues of any length: wallets follow records, and records     *)
(* end up where the order does.                                            *)
(***************************************************************************)
EXTENDS Commission, Accounting_proofs

-----------------------------------------------------------------------------
(* Queues.                                                                 *)

\* Removing the copy at place i gives a sequence that is one shorter.
LEMMA RemoveAtElements ==
    ASSUME NEW S, NEW q \in Seq(S), NEW i \in 1 .. Len(q)
    PROVE  /\ RemoveAt(q, i) \in Seq(S)
           /\ Len(RemoveAt(q, i)) = Len(q) - 1
           /\ \A k \in 1 .. (Len(q) - 1) :
                RemoveAt(q, i)[k] = IF k < i THEN q[k] ELSE q[k + 1]
<1> DEFINE a == SubSeq(q, 1, i - 1)
           b == SubSeq(q, i + 1, Len(q))
<1>1. a \in Seq(S) /\ Len(a) = i - 1 /\ \A k \in 1 .. (i - 1) : a[k] = q[k]
  OBVIOUS
<1>2. b \in Seq(S) /\ Len(b) = Len(q) - i /\ \A k \in 1 .. (Len(q) - i) : b[k] = q[i + k]
  OBVIOUS
<1>3. RemoveAt(q, i) = a \o b
  BY DEF RemoveAt
<1> HIDE DEF a, b
<1>4. a \o b \in Seq(S) /\ Len(a \o b) = Len(q) - 1
  <2>1. a \in Seq(S) /\ b \in Seq(S)
    BY <1>1, <1>2
  <2>2. a \o b \in Seq(S) /\ Len(a \o b) = Len(a) + Len(b)
    BY <2>1
  <2>3. Len(a) = i - 1 /\ Len(b) = Len(q) - i /\ Len(q) \in Nat
    BY <1>1, <1>2
  <2> QED BY <2>2, <2>3
<1>5. \A k \in 1 .. (Len(q) - 1) : (a \o b)[k] = IF k < i THEN q[k] ELSE q[k + 1]
  <2> TAKE k \in 1 .. (Len(q) - 1)
  <2>1. (a \o b)[k] = IF k <= Len(a) THEN a[k] ELSE b[k - Len(a)]
    BY <1>1, <1>2
  <2>2. CASE k < i
    BY <2>1, <2>2, <1>1
  <2>3. CASE ~(k < i)
    <3>1. k - Len(a) \in 1 .. (Len(q) - i) /\ i + (k - Len(a)) = k + 1
      BY <2>3, <1>1
    <3> QED BY <2>1, <2>3, <3>1, <1>1, <1>2
  <2> QED BY <2>2, <2>3
<1> QED BY <1>3, <1>4, <1>5

\* What is left of a queue holds only copies that were in it; if the first
\* was processed, the last stays, unless it was the only one.
LEMMA AfterQueue ==
    ASSUME NEW S, NEW q \in Seq(S), NEW i \in 1 .. Len(q), NEW r \in After(q, i)
    PROVE  /\ r \in Seq(S)
           /\ \A k \in 1 .. Len(r) : \E j \in 1 .. Len(q) : r[k] = q[j]
           /\ i = 1 /\ r = <<>> => Last(q) = q[1]
           /\ i = 1 /\ r # <<>> => Last(r) = Last(q)
<1>1. CASE r = q
  BY <1>1 DEF Last
<1>2. CASE r = RemoveAt(q, i)
  <2>1. /\ r \in Seq(S) /\ Len(r) = Len(q) - 1
        /\ \A k \in 1 .. (Len(q) - 1) : r[k] = IF k < i THEN q[k] ELSE q[k + 1]
    BY <1>2, RemoveAtElements
  <2>2. \A k \in 1 .. Len(r) : \E j \in 1 .. Len(q) : r[k] = q[j]
    <3> TAKE k \in 1 .. Len(r)
    <3>1. CASE k < i
      BY <2>1, <3>1
    <3>2. CASE ~(k < i)
      <4>1. k + 1 \in 1 .. Len(q) /\ r[k] = q[k + 1]
        BY <2>1, <3>2
      <4> QED BY <4>1
    <3> QED BY <3>1, <3>2
  <2>3. i = 1 /\ r = <<>> => Last(q) = q[1]
    BY <2>1 DEF Last
  <2>4. i = 1 /\ r # <<>> => Last(r) = Last(q)
    <3>1. r # <<>> => Len(r) \in 1 .. (Len(q) - 1)
      BY <2>1
    <3> QED BY <2>1, <3>1 DEF Last
  <2> QED BY <2>1, <2>2, <2>3, <2>4
<1> QED BY <1>1, <1>2 DEF After

\* A copy that is queued is the last.
LEMMA AppendQueue ==
    ASSUME NEW S, NEW q \in Seq(S), NEW s \in S
    PROVE  /\ Append(q, s) \in Seq(S) /\ Append(q, s) # <<>>
           /\ Last(Append(q, s)) = s
           /\ \A k \in 1 .. Len(Append(q, s)) :
                Append(q, s)[k] = s \/ \E j \in 1 .. Len(q) : Append(q, s)[k] = q[j]
BY DEF Last

-----------------------------------------------------------------------------
(* Records and the wallet.                                                 *)

RecordType == /\ record \in [Level -> RecordStatus \cup {"none"}]
              /\ wallet \in [Level -> [Counter -> Int]]

\* What the status of a record becomes when a copy asks for status s.
Moved(r, s) ==
    IF r = "none" THEN (IF s = "CANCEL" THEN "none" ELSE s)
    ELSE IF s = "CANCEL" THEN "CANCEL"
    ELSE IF s = "CONFIRMED" /\ r = "PENDING" THEN "CONFIRMED" ELSE r

\* Writing a counter of one wallet changes that wallet only.
LEMMA GainStep ==
    ASSUME RecordType, NEW l \in Level, NEW move, IsMove(move), Gain(l, move)
    PROVE  /\ wallet' \in [Level -> [Counter -> Int]]
           /\ \A k \in Level :
                wallet'[k]["amount"] = wallet[k]["amount"]
                                         + (IF k = l THEN Delta(move, "amount") ELSE 0)
<1>1. SaveRow(wallet[l], wallet[l], move) \in [Counter -> Int]
  BY SaveRowType DEF RecordType
<1>2. SaveRow(wallet[l], wallet[l], move)["amount"] = wallet[l]["amount"] + Delta(move, "amount")
  BY SaveFresh DEF RecordType, Counter
<1>3. \A k \in Level : wallet[k]["amount"] \in Int
  BY DEF RecordType, Counter
<1> QED BY <1>1, <1>2, <1>3 DEF Gain, RecordType

\* A new record: its wallet holds the commission if it is confirmed.
LEMMA CreateRecordStep ==
    ASSUME CommissionAssumption, RecordType, WalletFollowsRecord,
           NEW l \in Level, NEW s \in RecordStatus, record[l] = "none", CreateRecord(l, s)
    PROVE  RecordType' /\ WalletFollowsRecord' /\ record' = [record EXCEPT ![l] = Moved(@, s)]
<1>1. CASE s = "CANCEL"
  BY <1>1 DEF CreateRecord, RecordType, WalletFollowsRecord, Moved
<1>2. CASE s # "CANCEL"
  <2> DEFINE move == CreateMove("IN", s, CarryNum[l])
  <2>1. s \in LogStatus \cup {"NONE"} /\ CarryNum[l] \in Int
    BY <1>2 DEF RecordStatus, LogStatus, CommissionAssumption
  <2>2. IsMove(move)
    BY <2>1, MovesAreMoves DEF BudgetType
  <2>3. Delta(move, "amount") = IF s = "CONFIRMED" THEN CarryNum[l] ELSE 0
    BY DEF CreateMove, Income, NoMove, Delta
  <2>4. record' = [record EXCEPT ![l] = s] /\ Gain(l, move)
    BY <1>2 DEF CreateRecord
  <2>5. record' \in [Level -> RecordStatus \cup {"none"}]
    BY <2>4 DEF RecordType
  <2> HIDE DEF move
  <2>6. /\ wallet' \in [Level -> [Counter -> Int]]
        /\ \A k \in Level :
             wallet'[k]["amount"] = wallet[k]["amount"] + (IF k = l THEN Delta(move, "amount") ELSE 0)
    BY <2>2, <2>4, GainStep
  <2>7. \A k \in Level : wallet[k]["amount"] \in Int
    BY DEF RecordType, Counter
  <2>8. WalletFollowsRecord'
    BY <2>1, <2>3, <2>4, <2>6, <2>7 DEF WalletFollowsRecord, RecordType
  <2> QED BY <1>2, <2>4, <2>5, <2>6, <2>8 DEF RecordType, Moved
<1> QED BY <1>1, <1>2

\* Confirming a pending record pays it, once.
LEMMA ConfirmStep ==
    ASSUME CommissionAssumption, RecordType, WalletFollowsRecord,
           NEW l \in Level, record[l] # "none", Confirm(l)
    PROVE  /\ RecordType' /\ WalletFollowsRecord'
           /\ record' = [record EXCEPT ![l] = Moved(@, "CONFIRMED")]
<1>1. CASE record[l] # "PENDING"
  BY <1>1 DEF Confirm, RecordType, WalletFollowsRecord, Moved
<1>2. CASE record[l] = "PENDING"
  <2> DEFINE move == ConfirmMove("IN", "PENDING", CarryNum[l])
  <2>1. "PENDING" \in LogStatus \cup {"NONE"} /\ CarryNum[l] \in Int
    BY DEF LogStatus, CommissionAssumption
  <2>2. IsMove(move)
    BY <2>1, MovesAreMoves DEF BudgetType
  <2>3. Delta(move, "amount") = CarryNum[l]
    BY DEF ConfirmMove, Income, Delta
  <2>4. record' = [record EXCEPT ![l] = "CONFIRMED"] /\ Gain(l, move)
    BY <1>2 DEF Confirm
  <2>5. record' \in [Level -> RecordStatus \cup {"none"}]
    BY <2>4 DEF RecordType, RecordStatus
  <2> HIDE DEF move
  <2>6. /\ wallet' \in [Level -> [Counter -> Int]]
        /\ \A k \in Level :
             wallet'[k]["amount"] = wallet[k]["amount"] + (IF k = l THEN Delta(move, "amount") ELSE 0)
    BY <2>2, <2>4, GainStep
  <2>7. \A k \in Level : wallet[k]["amount"] \in Int
    BY DEF RecordType, Counter
  <2>8. WalletFollowsRecord'
    BY <1>2, <2>1, <2>3, <2>4, <2>6, <2>7 DEF WalletFollowsRecord, RecordType
  <2> QED BY <1>2, <2>4, <2>5, <2>6, <2>8 DEF RecordType, Moved
<1> QED BY <1>1, <1>2

\* Cancelling takes back what was paid, after paying what was not.
LEMMA CancelStep ==
    ASSUME CommissionAssumption, RecordType, WalletFollowsRecord,
           NEW l \in Level, record[l] # "none", Cancel(l)
    PROVE  /\ RecordType' /\ WalletFollowsRecord'
           /\ record' = [record EXCEPT ![l] = Moved(@, "CANCEL")]
<1>1. CASE record[l] = "CANCEL"
  BY <1>1 DEF Cancel, RecordType, WalletFollowsRecord, Moved
<1>2. CASE record[l] # "CANCEL"
  <2> DEFINE pay  == ConfirmMove("IN", record[l], CarryNum[l])
             back == CreateMove("OUT", "CONFIRMED", CarryNum[l])
             paid == SaveRow(wallet[l], wallet[l], pay)
  <2>1. /\ record[l] \in {"PENDING", "CONFIRMED"} /\ CarryNum[l] \in Int
        /\ wallet[l] \in [Counter -> Int] /\ "amount" \in Counter
    BY <1>2 DEF RecordType, RecordStatus, CommissionAssumption, Counter
  <2>2. IsMove(pay) /\ IsMove(back)
    BY <2>1, MovesAreMoves DEF BudgetType, LogStatus
  <2>3. /\ Delta(pay, "amount") = (IF record[l] = "PENDING" THEN CarryNum[l] ELSE 0)
        /\ Delta(back, "amount") = -CarryNum[l]
    BY <2>1 DEF ConfirmMove, CreateMove, Income, Expense, NoMove, Delta
  <2>4. record' = [record EXCEPT ![l] = "CANCEL"]
        /\ wallet' = [wallet EXCEPT ![l] = SaveRow(paid, paid, back)]
    BY <1>2 DEF Cancel
  <2> HIDE DEF pay, back
  <2>5. paid \in [Counter -> Int] /\ paid["amount"] = wallet[l]["amount"] + Delta(pay, "amount")
    BY <2>1, <2>2, SaveRowType, SaveFresh
  <2> HIDE DEF paid
  <2>6. /\ SaveRow(paid, paid, back) \in [Counter -> Int]
        /\ SaveRow(paid, paid, back)["amount"] = paid["amount"] + Delta(back, "amount")
    BY <2>1, <2>2, <2>5, SaveRowType, SaveFresh
  <2>7. RecordType'
    BY <2>4, <2>6 DEF RecordType, RecordStatus
  <2>8. wallet[l]["amount"] = IF record[l] = "CONFIRMED" THEN CarryNum[l] ELSE 0
    BY DEF WalletFollowsRecord
  <2>9. SaveRow(paid, paid, back)["amount"] = 0
    <3>1. paid["amount"] = CarryNum[l]
      <4>1. CASE record[l] = "PENDING"
        BY <2>1, <2>3, <2>5, <2>8, <4>1
      <4>2. CASE record[l] = "CONFIRMED"
        BY <2>1, <2>3, <2>5, <2>8, <4>2
      <4> QED BY <2>1, <4>1, <4>2
    <3> QED BY <2>1, <2>3, <2>6, <3>1
  <2>10. WalletFollowsRecord'
    BY <2>4, <2>9 DEF WalletFollowsRecord, RecordType
  <2> QED BY <1>2, <2>4, <2>7, <2>10 DEF Moved, RecordType
<1> QED BY <1>1, <1>2

\* Whatever a copy asks of a record, the wallet follows it.
LEMMA RecordStep ==
    ASSUME CommissionAssumption, RecordType, WalletFollowsRecord,
           NEW l \in Level, NEW s \in RecordStatus,
           IF record[l] = "none" THEN CreateRecord(l, s) ELSE MoveRecord(l, s)
    PROVE  RecordType' /\ WalletFollowsRecord' /\ record' = [record EXCEPT ![l] = Moved(@, s)]
<1>1. CASE record[l] = "none"
  BY <1>1, CreateRecordStep
<1>2. CASE record[l] # "none"
  <2>1. CASE s = "PENDING"
    BY <1>2, <2>1 DEF MoveRecord, RecordType, WalletFollowsRecord, Moved
  <2>2. CASE s = "CONFIRMED"
    BY <1>2, <2>2, ConfirmStep DEF MoveRecord
  <2>3. CASE s = "CANCEL"
    BY <1>2, <2>3, CancelStep DEF MoveRecord
  <2> QED BY <2>1, <2>2, <2>3 DEF RecordStatus
<1> QED BY <1>1, <1>2

-----------------------------------------------------------------------------
(* Where copies lead.  As long as no copy overtakes another, the last copy *)
(* queued says what the row it was made of says, and a row with no copies  *)
(* under way has been followed.                                            *)
Clean(q) == \A k \in 1 .. Len(q) : q[k] # "CANCEL"

Agrees(c, r) == /\ c = "CANCEL"  => r \in {"none", "CANCEL"}
                /\ c = "CONFIRM" => r \in {"CONFIRMED", "CANCEL"}

CarryFollows  == ~trigger => carry[1] = StatusOf(order)
SecondFollows == in_order => IF second = <<>> THEN carry[2] = carry[1] ELSE Last(second) = carry[1]
Follows(l)    == IF copies[l] = <<>> THEN Agrees(carry[l], record[l]) ELSE Last(copies[l]) = carry[l]
RecordFollows == in_order => \A l \in Level : Follows(l)

(* Nothing is cancelled before a refund is asked for or the order closed.  *)
NoneCancelled ==
    order.refund = "none" /\ order.status # "CLOSED" =>
        /\ Clean(second)
        /\ \A l \in Level : carry[l] # "CANCEL" /\ record[l] # "CANCEL" /\ Clean(copies[l])

CommissionInv ==
    /\ TypeOK /\ WalletFollowsRecord
    /\ CarryFollows /\ SecondFollows /\ RecordFollows /\ NoneCancelled

\* The status a row gets from an order.
LEMMA StatusOfOrder ==
    ASSUME NEW row \in OrderRow
    PROVE  /\ StatusOf(row) \in CarryStatus
           /\ row.status = "CLOSED" => StatusOf(row) = "CANCEL"
           /\ row.status = "CONFIRM" /\ row.refund = "none" => StatusOf(row) = "CONFIRM"
           /\ row.refund = "none" /\ row.status # "CLOSED" => StatusOf(row) # "CANCEL"
BY DEF StatusOf, OrderRow, CarryStatus

\* A record agrees with the row whose copy was processed last, and goes on
\* agreeing when it is checked.
LEMMA MovedAgrees ==
    ASSUME NEW c \in CarryStatus, NEW r \in RecordStatus \cup {"none"}
    PROVE  /\ RecordOf(c) \in RecordStatus
           /\ Agrees(c, Moved(r, RecordOf(c)))
           /\ c # "CANCEL" /\ r # "CANCEL" => Moved(r, RecordOf(c)) # "CANCEL"
BY DEF RecordOf, Moved, Agrees, CarryStatus, RecordStatus

\* A queue to which a copy is added is as clean as it was and as the copy.
LEMMA CleanQueue ==
    ASSUME NEW q \in Seq(CarryStatus), Clean(q)
    PROVE  /\ \A s \in CarryStatus : s # "CANCEL" => Clean(Append(q, s))
           /\ \A i \in 1 .. Len(q) : \A r \in After(q, i) : Clean(r)
<1>1. ASSUME NEW s \in CarryStatus, s # "CANCEL" PROVE Clean(Append(q, s))
  BY <1>1, AppendQueue DEF Clean
<1>2. ASSUME NEW i \in 1 .. Len(q), NEW r \in After(q, i) PROVE Clean(r)
  <2>1. \A k \in 1 .. Len(r) : \E j \in 1 .. Len(q) : r[k] = q[j]
    BY <1>2, AfterQueue
  <2> QED BY <2>1 DEF Clean
<1> QED BY <1>1, <1>2

\* The invariant implies the property.
LEMMA InvSettles == CommissionInv => CommissionSettles
<1> SUFFICES ASSUME CommissionInv, in_order, ~trigger, second = <<>>,
                    copies = [l \in Level |-> <<>>], NEW l \in Level
             PROVE  /\ order.status = "CLOSED" => record[l] \in {"none", "CANCEL"}
                    /\ (order.status = "CONFIRM" /\ order.refund = "none") => record[l] = "CONFIRMED"
  BY DEF CommissionSettles
<1>1. carry[l] = StatusOf(order)
  BY DEF CommissionInv, CarryFollows, SecondFollows, Level
<1>2. Agrees(carry[l], record[l])
  BY DEF CommissionInv, RecordFollows, Follows
<1>3. order.status = "CONFIRM" /\ order.refund = "none" => record[l] # "CANCEL"
  BY DEF CommissionInv, NoneCancelled
<1>4. order \in OrderRow
  BY DEF CommissionInv, TypeOK
<1> QED BY <1>1, <1>2, <1>3, <1>4, StatusOfOrder DEF Agrees

LEMMA InvInit == CommissionAssumption /\ Init => CommissionInv
<1> SUFFICES ASSUME CommissionAssumption, Init PROVE CommissionInv
  OBVIOUS
<1>1. TypeOK
  <2>1. order \in OrderRow
    BY DEF Init, OrderRow
  <2>2. <<>> \in Seq(CarryStatus)
    OBVIOUS
  <2> QED BY <2>1, <2>2 DEF Init, TypeOK, CommissionAssumption, Counter
<1>2. WalletFollowsRecord
  BY DEF Init, WalletFollowsRecord, Counter
<1>3. CarryFollows /\ SecondFollows /\ RecordFollows /\ NoneCancelled
  BY DEF Init, CarryFollows, SecondFollows, RecordFollows, Follows, Agrees, NoneCancelled, Clean, Level
<1> QED BY <1>1, <1>2, <1>3 DEF CommissionInv

-----------------------------------------------------------------------------
(* One lemma for each action.                                              *)

\* The order is saved: its trigger is queued.
LEMMA SaveOrderStep ==
    ASSUME CommissionAssumption, CommissionInv, SaveOrder
    PROVE  CommissionInv'
<1>1. PICK step \in OrderSteps :
        /\ order = [status |-> step[1], refund |-> step[2]]
        /\ order' = [status |-> step[3], refund |-> step[4]]
  BY DEF SaveOrder
<1>2. order' \in OrderRow
  BY <1>1 DEF OrderSteps, OrderRow
<1>3. order'.refund = "none" /\ order'.status # "CLOSED" =>
        order.refund = "none" /\ order.status # "CLOSED"
  BY <1>1 DEF OrderSteps
<1>4. TypeOK'
  BY <1>2 DEF SaveOrder, CommissionInv, TypeOK, CommissionAssumption
<1>5. WalletFollowsRecord'
  BY DEF SaveOrder, CommissionInv, WalletFollowsRecord
<1>6. CarryFollows' /\ SecondFollows' /\ RecordFollows'
  BY DEF SaveOrder, CommissionInv, CarryFollows, SecondFollows, RecordFollows, Follows
<1>7. NoneCancelled'
  BY <1>3 DEF SaveOrder, CommissionInv, NoneCancelled
<1> QED BY <1>4, <1>5, <1>6, <1>7 DEF CommissionInv

\* The agent's row is written, with the order's status.
LEMMA WriteCarryStep ==
    ASSUME CommissionInv, WriteCarry(1, StatusOf(order)),
           UNCHANGED <<order, saves, record, wallet, young, in_order>>, trigger' \in BOOLEAN
    PROVE  CommissionInv'
<1> DEFINE s == StatusOf(order)
<1>1. /\ order \in OrderRow /\ s \in CarryStatus /\ 1 \in Level
      /\ copies \in [Level -> Seq(CarryStatus)] /\ second \in Seq(CarryStatus)
      /\ carry \in [Level -> CarryStatus \cup {"none"}]
  BY StatusOfOrder DEF CommissionInv, TypeOK, Level
<1>2. order.refund = "none" /\ order.status # "CLOSED" => s # "CANCEL"
  BY <1>1, StatusOfOrder
<1>3. WalletFollowsRecord'
  BY DEF CommissionInv, WalletFollowsRecord
<1>4. CASE carry[1] = s
  <2>1. UNCHANGED <<carry, copies, second>>
    BY <1>4 DEF WriteCarry
  <2>2. TypeOK'
    BY <2>1 DEF CommissionInv, TypeOK
  <2>3. CarryFollows' /\ SecondFollows' /\ RecordFollows' /\ NoneCancelled'
    BY <1>4, <2>1 DEF CommissionInv, CarryFollows, SecondFollows, RecordFollows, Follows, NoneCancelled
  <2> QED BY <1>3, <2>2, <2>3 DEF CommissionInv
<1>5. CASE carry[1] # s
  <2> HIDE DEF s
  <2>1. /\ carry' = [carry EXCEPT ![1] = s]
        /\ copies' = [copies EXCEPT ![1] = Append(@, s)]
        /\ second' = Append(second, s)
    BY <1>5 DEF WriteCarry, Announce, s
  <2>2. /\ Append(copies[1], s) \in Seq(CarryStatus) /\ Append(second, s) \in Seq(CarryStatus)
        /\ Append(copies[1], s) # <<>> /\ Append(second, s) # <<>>
        /\ Last(Append(copies[1], s)) = s /\ Last(Append(second, s)) = s
    BY <1>1, AppendQueue
  <2>3. TypeOK'
    BY <1>1, <2>1, <2>2 DEF CommissionInv, TypeOK
  <2>4. CarryFollows' /\ SecondFollows'
    BY <1>1, <2>1, <2>2 DEF CarryFollows, SecondFollows, s
  <2>5. RecordFollows'
    <3> SUFFICES ASSUME in_order', NEW l \in Level PROVE Follows(l)'
      BY DEF RecordFollows
    <3>1. CASE l = 1
      BY <1>1, <2>1, <2>2, <3>1 DEF Follows
    <3>2. CASE l # 1
      BY <1>1, <2>1, <3>2 DEF Follows, CommissionInv, RecordFollows
    <3> QED BY <3>1, <3>2
  <2>6. NoneCancelled'
    <3> SUFFICES ASSUME order.refund = "none" /\ order.status # "CLOSED"
                 PROVE  /\ Clean(second')
                        /\ \A l \in Level : carry'[l] # "CANCEL" /\ record'[l] # "CANCEL" /\ Clean(copies'[l])
      BY DEF NoneCancelled
    <3>1. Clean(second) /\ \A l \in Level : carry[l] # "CANCEL" /\ record[l] # "CANCEL" /\ Clean(copies[l])
      BY DEF CommissionInv, NoneCancelled
    <3>2. Clean(Append(second, s)) /\ Clean(Append(copies[1], s))
      BY <1>1, <1>2, <3>1, CleanQueue
    <3> QED BY <1>1, <1>2, <2>1, <3>1, <3>2
  <2> QED BY <1>3, <2>3, <2>4, <2>5, <2>6 DEF CommissionInv
<1> QED BY <1>4, <1>5

\* The referrer's row is made or written from a copy of the agent's.
LEMMA SecondLevelStep ==
    ASSUME CommissionInv, NEW i \in 1 .. Len(second), SecondLevel(i)
    PROVE  CommissionInv'
<1> DEFINE s == second[i]
           sent == Append(copies[2], s)
<1>1. /\ second \in Seq(CarryStatus) /\ s \in CarryStatus /\ 2 \in Level /\ 1 \in Level
      /\ copies \in [Level -> Seq(CarryStatus)]
      /\ carry \in [Level -> CarryStatus \cup {"none"}]
  BY DEF CommissionInv, TypeOK, Level
<1>2. /\ second' \in After(second, i) /\ in_order' = (in_order /\ i = 1)
      /\ carry' = [carry EXCEPT ![2] = s]
      /\ copies' = IF carry[2] = s THEN copies ELSE [copies EXCEPT ![2] = sent]
      /\ UNCHANGED <<order, saves, trigger, record, wallet, young>>
  BY DEF SecondLevel
<1>3. /\ second' \in Seq(CarryStatus)
      /\ i = 1 /\ second' = <<>> => Last(second) = s
      /\ i = 1 /\ second' # <<>> => Last(second') = Last(second)
  BY <1>1, <1>2, AfterQueue
<1>4. sent \in Seq(CarryStatus) /\ sent # <<>> /\ Last(sent) = s
  BY <1>1, AppendQueue
<1>5. in_order \in BOOLEAN /\ second # <<>>
  BY <1>1 DEF CommissionInv, TypeOK
<1>6. (order.refund = "none" /\ order.status # "CLOSED") =>
        /\ s # "CANCEL" /\ Clean(second') /\ Clean(sent)
        /\ \A l \in Level : carry[l] # "CANCEL" /\ record[l] # "CANCEL" /\ Clean(copies[l])
  <2> SUFFICES ASSUME order.refund = "none", order.status # "CLOSED"
               PROVE  /\ s # "CANCEL" /\ Clean(second') /\ Clean(sent)
                      /\ \A l \in Level : carry[l] # "CANCEL" /\ record[l] # "CANCEL" /\ Clean(copies[l])
    OBVIOUS
  <2>1. Clean(second) /\ \A l \in Level : carry[l] # "CANCEL" /\ record[l] # "CANCEL" /\ Clean(copies[l])
    BY DEF CommissionInv, NoneCancelled
  <2>2. s # "CANCEL"
    BY <2>1 DEF Clean
  <2> QED BY <1>1, <1>2, <2>1, <2>2, CleanQueue
<1> HIDE DEF s, sent
<1>7. TypeOK'
  BY <1>1, <1>2, <1>3, <1>4, <1>5 DEF CommissionInv, TypeOK
<1>8. WalletFollowsRecord' /\ CarryFollows'
  BY <1>1, <1>2 DEF CommissionInv, WalletFollowsRecord, CarryFollows
<1>9. SecondFollows'
  <2> SUFFICES ASSUME in_order'
               PROVE  IF second' = <<>> THEN carry'[2] = carry'[1] ELSE Last(second') = carry'[1]
    BY DEF SecondFollows
  <2>1. i = 1 /\ Last(second) = carry[1]
    BY <1>2, <1>5 DEF CommissionInv, SecondFollows
  <2>2. carry'[1] = carry[1] /\ carry'[2] = s
    BY <1>1, <1>2
  <2> QED BY <1>3, <2>1, <2>2
<1>10. RecordFollows'
  <2> SUFFICES ASSUME in_order', NEW l \in Level PROVE Follows(l)'
    BY DEF RecordFollows
  <2>1. Follows(l)
    BY <1>2 DEF CommissionInv, RecordFollows
  <2>2. CASE l = 2 /\ carry[2] # s
    BY <1>1, <1>2, <1>4, <2>2 DEF Follows
  <2>3. CASE l # 2 \/ carry[2] = s
    BY <1>1, <1>2, <2>1, <2>3 DEF Follows
  <2> QED BY <2>2, <2>3
<1>11. NoneCancelled'
  BY <1>1, <1>2, <1>6 DEF NoneCancelled
<1> QED BY <1>7, <1>8, <1>9, <1>10, <1>11 DEF CommissionInv

\* A record is made or moved from a copy of its row.
LEMMA UpdateRecordStep ==
    ASSUME CommissionAssumption, CommissionInv,
           NEW l \in Level, NEW i \in 1 .. Len(copies[l]), UpdateRecord(l, i)
    PROVE  CommissionInv'
<1> DEFINE c == copies[l][i]
<1>1. /\ copies \in [Level -> Seq(CarryStatus)] /\ copies[l] \in Seq(CarryStatus) /\ c \in CarryStatus
      /\ record \in [Level -> RecordStatus \cup {"none"}] /\ in_order \in BOOLEAN
  BY DEF CommissionInv, TypeOK
<1>2. PICK rest \in After(copies[l], i) : copies' = [copies EXCEPT ![l] = rest]
  BY DEF UpdateRecord
<1>3. /\ in_order' = (in_order /\ i = 1)
      /\ UNCHANGED <<order, saves, trigger, carry, second, young>>
      /\ IF record[l] = "none" THEN CreateRecord(l, RecordOf(c)) ELSE MoveRecord(l, RecordOf(c))
  BY DEF UpdateRecord
<1>4. RecordOf(c) \in RecordStatus /\ Agrees(c, Moved(record[l], RecordOf(c)))
  BY <1>1, MovedAgrees
<1>5. RecordType' /\ WalletFollowsRecord' /\ record' = [record EXCEPT ![l] = Moved(@, RecordOf(c))]
  BY <1>3, <1>4, RecordStep DEF CommissionInv, TypeOK, RecordType
<1>6. /\ rest \in Seq(CarryStatus)
      /\ i = 1 /\ rest = <<>> => Last(copies[l]) = copies[l][1]
      /\ i = 1 /\ rest # <<>> => Last(rest) = Last(copies[l])
  BY <1>1, <1>2, AfterQueue
<1>7. copies[l] # <<>>
  BY <1>1
<1>8. TypeOK'
  BY <1>1, <1>2, <1>3, <1>5, <1>6 DEF CommissionInv, TypeOK, RecordType
<1>9. CarryFollows' /\ SecondFollows'
  BY <1>1, <1>3 DEF CommissionInv, CarryFollows, SecondFollows
<1>10. RecordFollows'
  <2> SUFFICES ASSUME in_order', NEW k \in Level PROVE Follows(k)'
    BY DEF RecordFollows
  <2>1. Follows(k) /\ i = 1
    BY <1>3 DEF CommissionInv, RecordFollows
  <2>2. CASE k # l
    BY <1>1, <1>2, <1>3, <1>5, <2>1, <2>2 DEF Follows
  <2>3. CASE k = l
    <3>1. Last(copies[l]) = carry[l]
      BY <1>7, <2>1, <2>3 DEF Follows
    <3>2. copies'[l] = rest /\ record'[l] = Moved(record[l], RecordOf(c)) /\ carry' = carry
      BY <1>1, <1>2, <1>3, <1>5
    <3>3. CASE rest = <<>>
      BY <1>4, <1>6, <2>1, <2>3, <3>1, <3>2, <3>3 DEF Follows
    <3>4. CASE rest # <<>>
      BY <1>6, <2>1, <2>3, <3>1, <3>2, <3>4 DEF Follows
    <3> QED BY <3>3, <3>4
  <2> QED BY <2>2, <2>3
<1>11. NoneCancelled'
  <2> SUFFICES ASSUME order.refund = "none", order.status # "CLOSED"
               PROVE  /\ Clean(second')
                      /\ \A k \in Level : carry'[k] # "CANCEL" /\ record'[k] # "CANCEL" /\ Clean(copies'[k])
    BY <1>3 DEF NoneCancelled
  <2>1. Clean(second) /\ \A k \in Level : carry[k] # "CANCEL" /\ record[k] # "CANCEL" /\ Clean(copies[k])
    BY DEF CommissionInv, NoneCancelled
  <2>2. c # "CANCEL" /\ Clean(rest)
    BY <1>1, <1>2, <2>1, CleanQueue DEF Clean
  <2>3. Moved(record[l], RecordOf(c)) # "CANCEL"
    BY <1>1, <2>1, <2>2, MovedAgrees
  <2> QED BY <1>1, <1>2, <1>3, <1>5, <2>1, <2>2, <2>3
<1> QED BY <1>5, <1>8, <1>9, <1>10, <1>11 DEF CommissionInv

\* The periodic check: all rows of the order get its status.
LEMMA CheckCarryStep ==
    ASSUME CommissionInv, CheckCarry PROVE CommissionInv'
<1> DEFINE s == StatusOf(order)
<1>1. UNCHANGED <<order, saves, trigger, record, wallet, young, in_order>>
  BY DEF CheckCarry
<1>2. CASE carry[1] = "none"
  <2>1. WriteCarry(1, s) /\ trigger' \in BOOLEAN
    BY <1>1, <1>2 DEF CheckCarry, CommissionInv, TypeOK
  <2> QED BY <1>1, <2>1, WriteCarryStep
<1>3. CASE carry[1] # "none"
  <2>1. /\ order \in OrderRow /\ s \in CarryStatus /\ 1 \in Level /\ 2 \in Level
        /\ copies \in [Level -> Seq(CarryStatus)] /\ second \in Seq(CarryStatus)
        /\ carry \in [Level -> CarryStatus \cup {"none"}]
        /\ order.refund = "none" /\ order.status # "CLOSED" => s # "CANCEL"
    BY StatusOfOrder DEF CommissionInv, TypeOK, Level
  <2>2. /\ carry' = [l \in Level |-> IF l \in Wrong(s) THEN s ELSE carry[l]]
        /\ copies' = [l \in Level |-> IF l \in Wrong(s) THEN Append(copies[l], s) ELSE copies[l]]
        /\ second' = IF 1 \in Wrong(s) THEN Append(second, s) ELSE second
    BY <1>3 DEF CheckCarry
  <2> HIDE DEF s
  <2>3. \A l \in Level : l \in Wrong(s) <=> carry[l] # "none" /\ carry[l] # s
    BY DEF Wrong
  <2>4. /\ Append(second, s) \in Seq(CarryStatus) /\ Append(second, s) # <<>>
        /\ Last(Append(second, s)) = s
        /\ \A l \in Level : /\ Append(copies[l], s) \in Seq(CarryStatus)
                             /\ Append(copies[l], s) # <<>> /\ Last(Append(copies[l], s)) = s
    <3>1. s \in CarryStatus /\ second \in Seq(CarryStatus)
          /\ \A l \in Level : copies[l] \in Seq(CarryStatus)
      BY <2>1
    <3>2. ASSUME NEW q \in Seq(CarryStatus)
          PROVE  /\ Append(q, s) \in Seq(CarryStatus) /\ Append(q, s) # <<>>
                 /\ Last(Append(q, s)) = s
      <4> HIDE <2>1, <2>2
      <4>1. s \in CarryStatus
        BY <3>1
      <4> QED BY <4>1, AppendQueue
    <3> QED BY <3>1, <3>2
  <2>5. TypeOK'
    BY <1>1, <2>1, <2>2, <2>4 DEF CommissionInv, TypeOK
  <2>6. WalletFollowsRecord'
    BY <1>1 DEF CommissionInv, WalletFollowsRecord
  <2>7. carry'[1] = s
    BY <1>3, <2>1, <2>2, <2>3
  <2>8. CarryFollows'
    BY <1>1, <2>7 DEF CarryFollows, s
  <2>9. SecondFollows'
    <3> SUFFICES ASSUME in_order
                 PROVE  IF second' = <<>> THEN carry'[2] = carry'[1] ELSE Last(second') = carry'[1]
      BY <1>1 DEF SecondFollows
    <3>1. IF second = <<>> THEN carry[2] = carry[1] ELSE Last(second) = carry[1]
      BY DEF CommissionInv, SecondFollows
    <3>2. CASE 1 \in Wrong(s)
      BY <2>2, <2>4, <2>7, <3>2
    <3>3. CASE 1 \notin Wrong(s)
      <4>1. carry[1] = s /\ second' = second
        BY <1>3, <2>1, <2>2, <2>3, <3>3
      <4>2. second = <<>> => carry'[2] = s
        BY <2>1, <2>2, <2>3, <3>1, <4>1
      <4> QED BY <2>7, <3>1, <4>1, <4>2
    <3> QED BY <3>2, <3>3
  <2>10. RecordFollows'
    <3> SUFFICES ASSUME in_order, NEW l \in Level PROVE Follows(l)'
      BY <1>1 DEF RecordFollows
    <3>1. Follows(l)
      BY DEF CommissionInv, RecordFollows
    <3>2. CASE l \in Wrong(s)
      BY <2>2, <2>4, <3>2 DEF Follows
    <3>3. CASE l \notin Wrong(s)
      BY <1>1, <2>2, <3>1, <3>3 DEF Follows
    <3> QED BY <3>2, <3>3
  <2>11. NoneCancelled'
    <3> SUFFICES ASSUME order.refund = "none", order.status # "CLOSED"
                 PROVE  /\ Clean(second')
                        /\ \A l \in Level : carry'[l] # "CANCEL" /\ record'[l] # "CANCEL" /\ Clean(copies'[l])
      BY <1>1 DEF NoneCancelled
    <3>1. Clean(second) /\ \A l \in Level : carry[l] # "CANCEL" /\ record[l] # "CANCEL" /\ Clean(copies[l])
      BY DEF CommissionInv, NoneCancelled
    <3>2. Clean(Append(second, s)) /\ \A l \in Level : Clean(Append(copies[l], s))
      BY <2>1, <3>1, CleanQueue
    <3> QED BY <1>1, <2>1, <2>2, <3>1, <3>2
  <2> QED BY <2>5, <2>6, <2>8, <2>9, <2>10, <2>11 DEF CommissionInv
<1> QED BY <1>2, <1>3

\* The periodic check: a record is moved, or its row announced again.
LEMMA CheckRecordStep ==
    ASSUME CommissionAssumption, CommissionInv, NEW l \in Level, CheckRecord(l)
    PROVE  CommissionInv'
<1>1. /\ carry[l] \in CarryStatus /\ carry \in [Level -> CarryStatus \cup {"none"}]
      /\ copies \in [Level -> Seq(CarryStatus)] /\ second \in Seq(CarryStatus)
      /\ record \in [Level -> RecordStatus \cup {"none"}]
  BY DEF CheckRecord, CommissionInv, TypeOK
<1>2. UNCHANGED <<order, saves, trigger, carry, young, in_order>>
  BY DEF CheckRecord
<1>3. CASE record[l] = "none"
  <2> DEFINE sent == Append(copies[l], carry[l])
             more == Append(second, carry[l])
  <2>1. /\ copies' = [copies EXCEPT ![l] = sent] /\ second' = IF l = 1 THEN more ELSE second
        /\ UNCHANGED <<record, wallet>>
    BY <1>3 DEF CheckRecord, Announce
  <2>2. /\ sent \in Seq(CarryStatus) /\ more \in Seq(CarryStatus) /\ sent # <<>> /\ more # <<>>
        /\ Last(sent) = carry[l] /\ Last(more) = carry[l]
    BY <1>1, AppendQueue
  <2>3. (order.refund = "none" /\ order.status # "CLOSED") =>
          /\ Clean(second) /\ Clean(more) /\ Clean(sent)
          /\ \A k \in Level : carry[k] # "CANCEL" /\ record[k] # "CANCEL" /\ Clean(copies[k])
    BY <1>1, CleanQueue DEF CommissionInv, NoneCancelled
  <2> HIDE DEF sent, more
  <2>4. TypeOK'
    BY <1>1, <1>2, <2>1, <2>2 DEF CommissionInv, TypeOK
  <2>5. WalletFollowsRecord' /\ CarryFollows'
    BY <1>2, <2>1 DEF CommissionInv, WalletFollowsRecord, CarryFollows
  <2>6. SecondFollows'
    BY <1>2, <2>1, <2>2 DEF CommissionInv, SecondFollows
  <2>7. RecordFollows'
    BY <1>1, <1>2, <2>1, <2>2 DEF CommissionInv, RecordFollows, Follows
  <2>8. NoneCancelled'
    BY <1>1, <1>2, <2>1, <2>3 DEF NoneCancelled
  <2> QED BY <2>4, <2>5, <2>6, <2>7, <2>8 DEF CommissionInv
<1>4. CASE record[l] # "none"
  <2>1. /\ UNCHANGED <<copies, second>> /\ MoveRecord(l, RecordOf(carry[l]))
        /\ RecordOf(carry[l]) \in RecordStatus
    BY <1>1, <1>4, MovedAgrees DEF CheckRecord
  <2>2. /\ RecordType' /\ WalletFollowsRecord'
        /\ record' = [record EXCEPT ![l] = Moved(@, RecordOf(carry[l]))]
    BY <1>4, <2>1, RecordStep DEF CommissionInv, TypeOK, RecordType
  <2>3. TypeOK'
    BY <1>2, <2>1, <2>2 DEF CommissionInv, TypeOK, RecordType
  <2>4. CarryFollows' /\ SecondFollows'
    BY <1>2, <2>1 DEF CommissionInv, CarryFollows, SecondFollows
  <2>5. Agrees(carry[l], Moved(record[l], RecordOf(carry[l])))
    BY <1>1, MovedAgrees
  <2>6. RecordFollows'
    BY <1>1, <1>2, <2>1, <2>2, <2>5 DEF CommissionInv, RecordFollows, Follows
  <2>7. NoneCancelled'
    <3>1. carry[l] # "CANCEL" /\ record[l] # "CANCEL" => Moved(record[l], RecordOf(carry[l])) # "CANCEL"
      BY <1>1, MovedAgrees
    <3> QED BY <1>1, <1>2, <2>1, <2>2, <3>1 DEF CommissionInv, NoneCancelled
  <2> QED BY <2>2, <2>3, <2>4, <2>6, <2>7 DEF CommissionInv
<1> QED BY <1>3, <1>4

-----------------------------------------------------------------------------
(***************************************************************************)
(* However often and in whatever order tasks run, wallets follow records;  *)
(* and if no copy overtook another, the records end where the order did.   *)
(***************************************************************************)
LEMMA InvStep == CommissionAssumption /\ CommissionInv /\ [Next]_vars => CommissionInv'
<1> SUFFICES ASSUME CommissionAssumption, CommissionInv, [Next]_vars PROVE CommissionInv'
  OBVIOUS
<1>1. CASE SaveOrder
  BY <1>1, SaveOrderStep
<1>2. CASE OrderTrigger
  BY <1>2, WriteCarryStep DEF OrderTrigger
<1>3. CASE CheckCarry
  BY <1>3, CheckCarryStep
<1>4. CASE GrowOld
  BY <1>4 DEF GrowOld, CommissionInv, TypeOK, WalletFollowsRecord, CarryFollows, SecondFollows,
              RecordFollows, Follows, NoneCancelled
<1>5. CASE \E i \in 1 .. Len(second) : SecondLevel(i)
  BY <1>5, SecondLevelStep
<1>6. CASE \E l \in Level : \E i \in 1 .. Len(copies[l]) : UpdateRecord(l, i)
  BY <1>6, UpdateRecordStep
<1>7. CASE \E l \in Level : CheckRecord(l)
  BY <1>7, CheckRecordStep
<1>8. CASE UNCHANGED vars
  BY <1>8 DEF vars, CommissionInv, TypeOK, WalletFollowsRecord, CarryFollows, SecondFollows,
              RecordFollows, Follows, NoneCancelled
<1> QED BY <1>1, <1>2, <1>3, <1>4, <1>5, <1>6, <1>7, <1>8 DEF Next

\* The invariant of the tasks, types included.
THEOREM CommissionCorrect == Spec => [](TypeOK /\ CommissionInv)
<1>1. CommissionInv => TypeOK /\ CommissionInv
  BY DEF CommissionInv
<1> QED BY <1>1, InvInit, InvStep, CommissionAssumption, PTL DEF Spec

\* Whatever sequence of saves, retries and delays, orders, records, wallets and
\* queued copies keep their types (SaleOrder.save and its tasks).
THEOREM CommissionTypes == Spec => []TypeOK
BY CommissionCorrect, PTL

\* An agent's wallet holds the commission exactly while its record is
\* confirmed, whatever is repeated, delayed or overtaken.
THEOREM WalletCorrect == Spec => []WalletFollowsRecord
<1>1. CommissionInv => WalletFollowsRecord
  BY DEF CommissionInv
<1> QED BY <1>1, CommissionCorrect, PTL

\* When all copies were processed in order, records agree with the order.
THEOREM SettlingCorrect == Spec => []CommissionSettles
BY InvSettles, CommissionCorrect, PTL
=============================================================================
