------------------------ MODULE TradePayment_proofs ------------------------
(***************************************************************************)
(* Theorems about the payment of orders.                                   *)
(***************************************************************************)
EXTENDS TradePayment, Accounting_proofs

Record == [status : LogStatus \cup {"NONE"}, flow : Nat]
Process == [at : Step, trade : Trade \cup {"none"}, ch : PayChannel, fresh : BOOLEAN]

\* The wallet stays a balance and a record per order.
WalletType == amount \in Int /\ blog \in [Trade -> Record]

\* Every way the code touches the wallet keeps its type.
LEMMA WalletKeepsType ==
    ASSUME WalletType, NEW t \in Trade
    PROVE  /\ UNCHANGED wallet => WalletType'
           /\ \A s \in LogStatus, f \in Nat : AddLog(t, s, f) => WalletType'
           /\ ConfirmLog(t) => WalletType'
           /\ CancelLog(t) => WalletType'
<1>1. "OUT" \in BudgetType /\ LogStatus \subseteq LogStatus \cup {"NONE"}
  BY DEF BudgetType
<1>2. ASSUME NEW m, IsMove(m) PROVE Delta(m, "amount") \in Int
  BY <1>2 DEF IsMove, Delta
<1>3. blog[t] \in Record /\ blog[t].flow \in Int /\ blog[t].flow \in Nat
      /\ blog[t].status \in LogStatus \cup {"NONE"}
  BY DEF WalletType, Record
<1>4. UNCHANGED wallet => WalletType'
  BY DEF WalletType, wallet
<1>5. ASSUME NEW s \in LogStatus, NEW f \in Nat, AddLog(t, s, f) PROVE WalletType'
  <2>1. Delta(CreateMove("OUT", s, f), "amount") \in Int
    BY <1>1, <1>2, MovesAreMoves
  <2>2. [status |-> s, flow |-> f] \in Record
    BY DEF Record
  <2> QED BY <1>5, <2>1, <2>2 DEF AddLog, WalletType
<1>6. ASSUME ConfirmLog(t) PROVE WalletType'
  <2>1. Delta(ConfirmMove("OUT", "PENDING", blog[t].flow), "amount") \in Int
    BY <1>1, <1>2, <1>3, MovesAreMoves DEF LogStatus
  <2>2. [blog[t] EXCEPT !.status = "CONFIRMED"] \in Record
    BY <1>3 DEF Record, LogStatus
  <2> QED BY <1>4, <1>6, <2>1, <2>2 DEF ConfirmLog, WalletType
<1>7. ASSUME CancelLog(t) PROVE WalletType'
  <2>1. Delta(CancelMove("OUT", blog[t].status, blog[t].flow), "amount") \in Int
    BY <1>1, <1>2, <1>3, MovesAreMoves
  <2>2. [blog[t] EXCEPT !.status = "CANCELED"] \in Record
    BY <1>3 DEF Record, LogStatus
  <2> QED BY <1>4, <1>7, <2>1, <2>2 DEF CancelLog, WalletType
<1> QED BY <1>4, <1>5, <1>6, <1>7

-----------------------------------------------------------------------------
(***************************************************************************)
(* Types.                                                                  *)
(***************************************************************************)

\* TypeOK but for the wallet, in parts that steps change together.
OrderType ==
    /\ status \in [Trade -> {"NONE", "WAIT", "PAID", "CLOSED"}]
    /\ paying \in [Trade -> BOOLEAN] /\ chan \in [Trade -> PayChannel]
    /\ age \in [Trade -> {"open", "late", "reopened"}]
    /\ packed \in [Trade -> BOOLEAN]
    /\ coupon \in {"UNUSED", "PAST"} \cup WithCoupon

OutsideType ==
    /\ charge \in [Trade -> [ch : PayChannel \cup {"none"}, paid : BOOLEAN]]
    /\ cred \in [Trade -> SUBSET PayChannel] /\ gateway \in [Trade -> SUBSET PayChannel]

RequestType ==
    /\ req \in [Web -> Process]
    /\ \A w \in Web : req[w].at # "idle" => req[w].trade \in Trade

TaskType ==
    /\ task \in [Trade -> {"none", "queued", "pack"}]
    /\ closer \subseteq Trade /\ carts \in BOOLEAN /\ crashes \in 0..MaxCrash

\* TypeOK is the conjunction of the parts.
LEMMA TypeParts ==
    /\ TypeOK <=> OrderType /\ WalletType /\ OutsideType /\ RequestType /\ TaskType
    /\ TypeOK' <=> OrderType' /\ WalletType' /\ OutsideType' /\ RequestType' /\ TaskType'
BY DEF TypeOK, OrderType, WalletType, OutsideType, RequestType, TaskType, Record, Process

\* Payments and their two parts are natural numbers.
LEMMA Payments ==
    \A t \in Trade : Share[t] \in Nat /\ Cash[t] \in Nat /\ Payment(t) \in Nat
BY PaymentAssumption DEF Payment

\* No order has been placed and the wallet is as it was.
LEMMA TypeInit == Init => TypeOK
<1> SUFFICES ASSUME Init PROVE TypeOK
  OBVIOUS
<1>1. OrderType
  BY DEF Init, OrderType, PayChannel
<1>2. WalletType
  BY PaymentAssumption DEF Init, WalletType, Record, NoLog
<1>3. OutsideType
  BY DEF Init, OutsideType, NoCharge
<1>4. RequestType
  BY DEF Init, RequestType, Process, Idle, Step, PayChannel
<1>5. TaskType
  <2>1. MaxCrash \in Nat
    BY PaymentAssumption
  <2>2. crashes \in 0..MaxCrash
    BY <2>1 DEF Init
  <2> QED BY <2>2 DEF Init, TaskType
<1> QED BY <1>1, <1>2, <1>3, <1>4, <1>5, TypeParts

\* Steps of a request.
LEMMA RequestMoves ==
    ASSUME RequestType, NEW w \in Web
    PROVE  /\ UNCHANGED req => RequestType'
           /\ req' = [req EXCEPT ![w] = Idle] => RequestType'
           /\ \A step \in Step : ~At(w, "idle") /\ Goto(w, step) => RequestType'
           /\ \A t \in Trade, ch \in PayChannel, b \in BOOLEAN :
                Begin(w, t, ch, b) => RequestType'
<1>1. UNCHANGED req => RequestType'
  BY DEF RequestType
<1>2. Idle \in Process
  BY DEF Idle, Process, Step, PayChannel
<1>3. ASSUME req' = [req EXCEPT ![w] = Idle] PROVE RequestType'
  BY <1>2, <1>3 DEF RequestType, Idle
<1>4. ASSUME NEW step \in Step, ~At(w, "idle"), Goto(w, step) PROVE RequestType'
  <2>1. [req[w] EXCEPT !.at = step] \in Process
    BY DEF RequestType, Process
  <2>2. req[w].trade \in Trade
    BY <1>4 DEF RequestType, At
  <2>3. req' = [req EXCEPT ![w] = [req[w] EXCEPT !.at = step]]
    BY <1>4 DEF Goto
  <2>4. req' \in [Web -> Process] /\ req'[w].trade = req[w].trade
    BY <2>1, <2>3 DEF RequestType, Process
  <2>5. \A v \in Web \ {w} : req'[v] = req[v]
    BY <2>3 DEF RequestType
  <2> QED BY <2>2, <2>4, <2>5 DEF RequestType
<1>5. ASSUME NEW t \in Trade, NEW ch \in PayChannel, NEW b \in BOOLEAN, Begin(w, t, ch, b)
      PROVE  RequestType'
  <2> DEFINE p == [at |-> IF ch = "budget" THEN "status" ELSE "pend",
                   trade |-> t, ch |-> ch, fresh |-> b]
  <2>1. p \in Process /\ p.trade \in Trade
    BY DEF Process, Step
  <2>2. req' = [req EXCEPT ![w] = p]
    BY <1>5 DEF Begin
  <2> HIDE DEF p
  <2> QED BY <2>1, <2>2 DEF RequestType
<1> QED BY <1>1, <1>3, <1>4, <1>5

\* The charge of an order is marked as paid.
LEMMA ChargeType ==
    ASSUME OutsideType, NEW t \in Trade, NEW ch \in PayChannel \cup {"none"}, MarkPaid(t, ch)
    PROVE  charge' \in [Trade -> [ch : PayChannel \cup {"none"}, paid : BOOLEAN]]
<1>1. [ch |-> ch, paid |-> TRUE] \in [ch : PayChannel \cup {"none"}, paid : BOOLEAN]
  OBVIOUS
<1> QED BY <1>1 DEF MarkPaid, OutsideType

\* TypeOK is inductive: one step per action.
LEMMA TypeStep == TypeOK /\ [Next]_vars => TypeOK'
<1> SUFFICES ASSUME TypeOK, [Next]_vars PROVE TypeOK'
  OBVIOUS
<1>0. /\ OrderType /\ WalletType /\ OutsideType /\ RequestType /\ TaskType
      /\ Channel \subseteq PayChannel
      /\ \A w \in Web : ~At(w, "idle") => req[w].trade \in Trade
  BY TypeParts, PaymentAssumption DEF RequestType, At
<1>1. ASSUME NEW w \in Web, NEW t \in Trade, NEW ch \in Channel,
             Place(w, t, ch) \/ Charge(w, t, ch)
      PROVE  TypeOK'
  <2>1. OrderType'
    BY <1>0, <1>1 DEF OrderType, Place, Charge, order
  <2>2. WalletType' /\ TaskType' /\ OutsideType'
    BY <1>0, <1>1 DEF WalletType, TaskType, OutsideType, Place, Charge, wallet, outside
  <2>3. RequestType'
    BY <1>0, <1>1, RequestMoves DEF Place, Charge
  <2> QED BY <2>1, <2>2, <2>3, TypeParts
<1>2. ASSUME NEW w \in Web, Request(w) PROVE TypeOK'
  <2>1. PICK t \in Trade : t = req[w].trade
    BY <1>0, <1>2 DEF Request, CheckStatus, Debit, Pend, CreateCharge, Finish,
                      ConfirmNow, PackNow, At
  <2>2. RequestType'
    BY <1>0, <1>2, RequestMoves
    DEF Request, CheckStatus, Debit, Pend, CreateCharge, Finish, ConfirmNow, PackNow,
        At, Step
  <2>3. OrderType'
    BY <1>0, <1>2, <2>1
    DEF Request, CheckStatus, Debit, Pend, CreateCharge, Finish, ConfirmNow, PackNow,
        OrderType, Confirm, order
  <2>4. TaskType'
    BY <1>0, <1>2
    DEF Request, CheckStatus, Debit, Pend, CreateCharge, Finish, ConfirmNow, PackNow,
        TaskType
  <2>5. OutsideType'
    <3>1. req[w].ch \in PayChannel
      BY <1>0 DEF RequestType, Process
    <3> QED BY <1>0, <1>2, <2>1, <3>1
            DEF Request, CheckStatus, Debit, Pend, CreateCharge, Finish, ConfirmNow,
                PackNow, OutsideType, outside
  <2>6. WalletType'
    BY <1>0, <1>2, <2>1, WalletKeepsType, Payments
    DEF Request, CheckStatus, Debit, Pend, CreateCharge, Finish, ConfirmNow, PackNow,
        Confirm, LogStatus
  <2> QED BY <2>2, <2>3, <2>4, <2>5, <2>6, TypeParts
<1>3. ASSUME NEW t \in Trade, NEW ch \in Channel, CustomerPays(t, ch) \/ Notify(t, ch)
      PROVE  TypeOK'
  <2>1. OrderType' /\ WalletType' /\ RequestType'
    BY <1>0, <1>3
    DEF OrderType, WalletType, RequestType, CustomerPays, Notify, order, wallet, procs
  <2>2. OutsideType'
    <3>1. CASE Notify(t, ch)
      BY <1>0, <3>1, ChargeType DEF Notify, OutsideType
    <3>2. CASE CustomerPays(t, ch)
      <4>1. gateway[t] \cup {ch} \in SUBSET PayChannel
        BY <1>0 DEF OutsideType
      <4> QED BY <1>0, <3>2, <4>1 DEF CustomerPays, OutsideType
    <3> QED BY <1>3, <3>1, <3>2
  <2>3. TaskType'
    BY <1>0, <1>3, PaymentAssumption DEF TaskType, CustomerPays, Notify, Enqueue, procs
  <2> QED BY <2>1, <2>2, <2>3, TypeParts
<1>4. ASSUME NEW t \in Trade, ConfirmTask(t) \/ PackTask(t) PROVE TypeOK'
  <2>1. OrderType'
    BY <1>0, <1>4 DEF OrderType, ConfirmTask, PackTask, Confirm, order
  <2>2. WalletType'
    BY <1>0, <1>4, WalletKeepsType DEF ConfirmTask, PackTask, Confirm
  <2>3. OutsideType' /\ RequestType' /\ TaskType'
    BY <1>0, <1>4 DEF OutsideType, RequestType, TaskType, ConfirmTask, PackTask, outside
  <2> QED BY <2>1, <2>2, <2>3, TypeParts
<1>5. ASSUME NEW t \in Trade,
             Pull(t) \/ Destroy(t) \/ ScheduleCart(t) \/ OffShelf(t) \/ Tick(t)
      PROVE  TypeOK'
  <2>1. OrderType' /\ WalletType' /\ RequestType'
    BY <1>0, <1>5
    DEF OrderType, WalletType, RequestType, Pull, Destroy, ScheduleCart, OffShelf, Tick,
        order, wallet, procs
  <2>2. FoundPaid(t) /\ UNCHANGED <<cred, gateway>> => OutsideType'
    <3>1. charge[t].ch \in PayChannel \cup {"none"}
      BY <1>0 DEF OutsideType
    <3> QED BY <1>0, <3>1, ChargeType DEF OutsideType, FoundPaid
  <2>3. OutsideType'
    BY <1>0, <1>5, <2>2
    DEF OutsideType, Pull, Destroy, ScheduleCart, OffShelf, Tick, AskThenClose, outside
  <2>4. TaskType'
    BY <1>0, <1>5
    DEF TaskType, Pull, Destroy, ScheduleCart, OffShelf, Tick, AskThenClose, FoundPaid,
        Enqueue, procs
  <2> QED BY <2>1, <2>3, <2>4, TypeParts
<1>6. ASSUME NEW t \in Trade, CloseTrade(t) PROVE TypeOK'
  <2>1. OrderType'
    BY <1>0, <1>6 DEF OrderType, CloseTrade
  <2>2. WalletType'
    BY <1>0, <1>6, WalletKeepsType DEF CloseTrade
  <2>3. OutsideType' /\ RequestType' /\ TaskType'
    BY <1>0, <1>6 DEF OutsideType, RequestType, TaskType, CloseTrade, outside
  <2> QED BY <2>1, <2>2, <2>3, TypeParts
<1>7. CASE CartsTimeOut \/ CouponExpires
  <2>1. OrderType' /\ WalletType' /\ OutsideType' /\ RequestType' /\ TaskType'
    BY <1>0, <1>7
    DEF OrderType, WalletType, OutsideType, RequestType, TaskType, CartsTimeOut,
        CouponExpires, order, wallet, outside, procs
  <2> QED BY <2>1, TypeParts
<1>8. CASE Crash
  <2>1. OrderType' /\ WalletType' /\ OutsideType'
    BY <1>0, <1>8 DEF OrderType, WalletType, OutsideType, Crash, order, wallet, outside
  <2>2. RequestType'
    <3>1. UNCHANGED req \/ \E w \in Web : req' = [req EXCEPT ![w] = Idle]
      BY <1>8 DEF Crash
    <3>2. UNCHANGED req => RequestType'
      BY <1>0 DEF RequestType
    <3> QED BY <1>0, <3>1, <3>2, RequestMoves
  <2>3. TaskType'
    BY <1>0, <1>8, PaymentAssumption DEF TaskType, Crash
  <2> QED BY <2>1, <2>2, <2>3, TypeParts
<1>9. CASE UNCHANGED vars
  <2>1. OrderType' /\ WalletType' /\ OutsideType' /\ RequestType' /\ TaskType'
    BY <1>0, <1>9
    DEF OrderType, WalletType, OutsideType, RequestType, TaskType, vars
  <2> QED BY <2>1, TypeParts
<1> QED BY <1>1, <1>2, <1>3, <1>4, <1>5, <1>6, <1>7, <1>8, <1>9 DEF Next

\* Whatever requests, tasks, closers and crashes there are, the orders, their
\* wallet records, charges and processes keep their types.
THEOREM PaymentTypes == Spec => []TypeOK
BY TypeInit, TypeStep, PTL DEF Spec

-----------------------------------------------------------------------------
(***************************************************************************)
(* The refinement: an order is paid or closed, once and for good, and the  *)
(* coupon is spent by the step that pays.                                  *)
(***************************************************************************)

\* The transaction of charge_confirm is the promised payment.
LEMMA ConfirmPays ==
    ASSUME NEW t \in Trade, status[t] = "WAIT", CouponUsable(t), Confirm(t)
    PROVE  Promise!Pay(t)
BY DEF CouponUsable, Confirm, Promise!Pay

\* Every step is a promised one or changes neither status nor coupon.
LEMMA PromiseStep ==
    ASSUME TypeOK, [Next]_vars
    PROVE  [Promise!Next]_<<status, coupon>>
<1> DEFINE Kept == UNCHANGED <<status, coupon>>
<1>1. ASSUME NEW w \in Web, NEW t \in Trade, NEW ch \in Channel,
             Place(w, t, ch) \/ Charge(w, t, ch)
      PROVE  Kept \/ Promise!Place(t)
  BY <1>1 DEF Place, Charge, Promise!Place, order
<1>2. ASSUME NEW w \in Web, Request(w)
      PROVE  Kept \/ \E t \in Trade : Promise!Pay(t)
  <2>1. CASE ConfirmNow(w)
    <3>1. req[w].trade \in Trade
      BY <2>1 DEF TypeOK, ConfirmNow, At
    <3> QED BY <2>1, <3>1, ConfirmPays DEF ConfirmNow
  <2>2. CASE ~ConfirmNow(w)
    BY <1>2, <2>2
    DEF Request, CheckStatus, Debit, Pend, CreateCharge, Finish, PackNow, order
  <2> QED BY <2>1, <2>2
<1>3. ASSUME NEW t \in Trade, NEW ch \in Channel, CustomerPays(t, ch) \/ Notify(t, ch)
      PROVE  Kept
  BY <1>3 DEF CustomerPays, Notify, order
<1>4. ASSUME NEW t \in Trade, ConfirmTask(t) \/ PackTask(t) \/ Pull(t)
      PROVE  Kept \/ Promise!Pay(t)
  BY <1>4, ConfirmPays DEF ConfirmTask, PackTask, Pull, order
<1>5. ASSUME NEW t \in Trade,
             Destroy(t) \/ ScheduleCart(t) \/ OffShelf(t) \/ CloseTrade(t) \/ Tick(t)
      PROVE  Kept \/ Promise!Close(t)
  BY <1>5
  DEF Destroy, ScheduleCart, OffShelf, CloseTrade, Tick, Promise!Close, order
<1>6. CASE CartsTimeOut \/ CouponExpires \/ Crash \/ UNCHANGED vars
  BY <1>6 DEF CartsTimeOut, CouponExpires, Crash, Promise!Next, Promise!Expire, order, vars
<1>7. Kept \/ Promise!Next
  BY <1>1, <1>2, <1>3, <1>4, <1>5, <1>6 DEF Next, Promise!Next
<1> QED BY <1>7

\* Requests, tasks, notifications and closers, in any order and with any
\* crashes, never bring a paid order back, close it, pay a closed one, or spend
\* the coupon a second time or without paying an order.
THEOREM KeepsItsPromise == Spec => KeepsPromise
<1>1. Init => Promise!Init
  BY DEF Init, Promise!Init
<1>2. TypeOK /\ [Next]_vars => [Promise!Next]_<<status, coupon>>
  BY PromiseStep
<1> QED BY <1>1, <1>2, PaymentTypes, PTL DEF Spec, KeepsPromise, Promise!Spec

-----------------------------------------------------------------------------
(***************************************************************************)
(* A paid order was paid, when no order is charged to the wallet as a      *)
(* whole and to a channel in part.                                         *)
(***************************************************************************)
WholeOrPart == "budget" \in Channel => \A t \in Trade : Share[t] = 0 \/ Cash[t] = 0

\* Before the first order there is nothing to fund.
LEMMA FundedInit == Init => FundedInv
BY TypeInit
DEF Init, FundedInv, RecordsFit, RequestsKnow, Knows, ChannelsKnow, PaidIsFunded, Held,
    NoLog, NoCharge, Idle

(***************************************************************************)
(* What a step must not do: forget a record, a credential's or a payment's *)
(* ground, or what the payment of a paid order rests on.                   *)
(***************************************************************************)
KeepsRecords ==
    \A t \in Trade :
      /\ blog[t].status # "NONE" => blog'[t].status # "NONE"
      /\ blog[t].status = "CONFIRMED" /\ status[t] # "WAIT" => blog'[t] = blog[t]
KeepsChannels ==
    \A t \in Trade :
      /\ cred'[t] = cred[t] \/ (cred[t] \subseteq cred'[t] /\ Held(t))
      /\ gateway[t] \subseteq gateway'[t] /\ gateway'[t] \subseteq cred'[t]
      /\ charge'[t].paid \/ task'[t] # "none" => gateway'[t] # {}
KeepsRequests == \A w \in Web : req'[w] = req[w] \/ Knows(w)'
PaysFunded ==
    \A t \in Trade : status'[t] = "PAID" => status[t] = "PAID" \/ Funded(t)'

\* Such a step preserves the invariant if the records still fit.
LEMMA FundedKept ==
    ASSUME FundedInv, TypeOK', RecordsFit', KeepsRecords, KeepsChannels, KeepsRequests,
           PaysFunded
    PROVE  FundedInv'
<1>1. RequestsKnow'
  <2> SUFFICES ASSUME NEW w \in Web, req'[w] = req[w] PROVE Knows(w)'
    BY DEF RequestsKnow, KeepsRequests
  <2>1. req[w].at # "idle" => req[w].trade \in Trade
    BY DEF FundedInv, TypeOK
  <2> QED BY <2>1 DEF FundedInv, RequestsKnow, Knows, KeepsRecords, Held
<1>2. ChannelsKnow'
  BY DEF FundedInv, ChannelsKnow, KeepsChannels, KeepsRecords, Held
<1>3. PaidIsFunded'
  <2> SUFFICES ASSUME NEW t \in Trade, status[t] = "PAID" PROVE Funded(t)'
    BY DEF PaidIsFunded, PaysFunded
  <2>1. Funded(t)
    BY DEF FundedInv, PaidIsFunded
  <2>2. FromWallet(t)' \in Nat /\ FromWallet(t) \in Nat
    BY DEF FundedInv, TypeOK, FromWallet
  <2>3. FromWallet(t)' >= FromWallet(t)
    BY <2>2 DEF FromWallet, KeepsRecords
  <2>4. gateway[t] # {} => gateway'[t] # {}
    BY DEF KeepsChannels
  <2> QED BY <2>1, <2>2, <2>3, <2>4, Payments DEF Funded
<1> QED BY <1>1, <1>2, <1>3 DEF FundedInv

\* Steps that leave the wallet alone.
LEMMA WalletAlone ==
    ASSUME FundedInv, UNCHANGED wallet,
           \A t \in Trade : status'[t] = status[t] \/ (status[t] = "NONE" /\ status'[t] = "WAIT")
    PROVE  RecordsFit' /\ KeepsRecords /\ PaysFunded
<1>1. blog' = blog
  BY DEF wallet
<1>2. RecordsFit'
  BY <1>1 DEF FundedInv, RecordsFit, Owed
<1> QED BY <1>1, <1>2 DEF KeepsRecords, PaysFunded

\* Steps that issue no credential and take no payment.
LEMMA OutsideAlone ==
    ASSUME FundedInv, UNCHANGED <<cred, gateway>>,
           \A t \in Trade : charge'[t].paid \/ task'[t] # "none" => gateway[t] # {}
    PROVE  KeepsChannels
BY DEF FundedInv, ChannelsKnow, KeepsChannels

\* The wallet changes for one order; its record fits.
LEMMA WalletOf ==
    ASSUME FundedInv, NEW t \in Trade,
           \A s \in Trade \ {t} : blog'[s] = blog[s] /\ status'[s] = status[s],
           blog[t].status # "NONE" => blog'[t].status # "NONE",
           blog[t].status = "CONFIRMED" /\ status[t] # "WAIT" => blog'[t] = blog[t],
           status'[t] = "PAID" => status[t] = "PAID" \/ Funded(t)',
           blog'[t].status # "NONE" => blog'[t].flow = Owed(t),
           status'[t] # "CLOSED" => blog'[t].status # "CANCELED",
           Share[t] = 0 => blog'[t].status \in {"NONE", "CONFIRMED"}
    PROVE  RecordsFit' /\ KeepsRecords /\ PaysFunded
<1>1. RecordsFit'
  BY DEF FundedInv, RecordsFit, Owed
<1> QED BY <1>1 DEF KeepsRecords, PaysFunded

\* The two ways an order is confirmed: the wallet has paid all of it, or a
\* channel its part.
LEMMA ConfirmFunded ==
    ASSUME FundedInv, WholeOrPart, NEW t \in Trade, status[t] = "WAIT", Confirm(t),
           UNCHANGED <<gateway, cred>>,
           \/ "budget" \in Channel /\ blog[t].status # "NONE"
           \/ gateway[t] # {}
    PROVE  RecordsFit' /\ KeepsRecords /\ PaysFunded
<1>1. /\ blog[t] \in Record /\ status \in [Trade -> {"NONE", "WAIT", "PAID", "CLOSED"}]
      /\ blog \in [Trade -> Record]
  BY DEF FundedInv, TypeOK, Record
<1>2. /\ blog[t].status # "CANCELED"
      /\ blog[t].status # "NONE" => blog[t].flow = Owed(t)
      /\ Share[t] = 0 => blog[t].status \in {"NONE", "CONFIRMED"}
  BY DEF FundedInv, RecordsFit
<1>3. Held(t)
  BY DEF FundedInv, ChannelsKnow, Held
<1>4. Share[t] \in Nat /\ Cash[t] \in Nat /\ Payment(t) = Share[t] + Cash[t]
  BY Payments DEF Payment
<1>5. /\ Share[t] > 0 => blog'[t].status = "CONFIRMED" /\ blog'[t].flow = Owed(t)
      /\ Share[t] = 0 => blog'[t] = blog[t]
      /\ \A s \in Trade \ {t} : blog'[s] = blog[s]
  BY <1>1, <1>2, <1>3, <1>4 DEF Confirm, ConfirmLog, wallet, Held, Record, LogStatus
<1>6. blog'[t].status # "NONE" => blog'[t].flow = Owed(t)
  BY <1>2, <1>4, <1>5
<1>7. Funded(t)'
  <2>1. FromWallet(t)' \in Nat
    BY <1>1, <1>4, <1>5 DEF FromWallet, Record, Owed, Payment
  <2>2. CASE "budget" \in Channel /\ blog[t].status # "NONE"
    <3>1. blog'[t].status = "CONFIRMED" /\ blog'[t].flow = Payment(t)
      BY <1>1, <1>2, <1>4, <1>5, <2>2 DEF Owed
    <3>2. FromWallet(t)' = Payment(t)
      BY <3>1 DEF FromWallet
    <3> QED BY <1>4, <3>2 DEF Funded, Payment
  <2>3. CASE gateway[t] # {}
    <3>1. FromWallet(t)' >= Share[t]
      BY <1>4, <1>5, <2>1 DEF FromWallet, Owed
    <3> QED BY <1>4, <2>1, <2>3, <3>1 DEF Funded, Payment
  <2> QED BY <2>2, <2>3
<1>8. /\ \A s \in Trade \ {t} : status'[s] = status[s]
      /\ blog[t].status # "NONE" => blog'[t].status # "NONE"
      /\ blog'[t].status # "CANCELED"
      /\ Share[t] = 0 => blog'[t].status \in {"NONE", "CONFIRMED"}
  BY <1>1, <1>2, <1>4, <1>5 DEF Confirm
<1> QED BY <1>5, <1>6, <1>7, <1>8, WalletOf

\* FundedInv is inductive: one step per action.
LEMMA FundedStep == WholeOrPart /\ FundedInv /\ [Next]_vars => FundedInv'
<1> SUFFICES ASSUME WholeOrPart, FundedInv, [Next]_vars PROVE FundedInv'
  OBVIOUS
<1>0. /\ TypeOK /\ TypeOK'
      /\ \A t \in Trade : charge[t].paid \/ task[t] # "none" => gateway[t] # {}
      /\ \A w \in Web : Knows(w) /\ (~At(w, "idle") => req[w].trade \in Trade)
      /\ \A t \in Trade : cred[t] # {} => Held(t)
  BY TypeStep DEF FundedInv, ChannelsKnow, RequestsKnow, TypeOK, At
<1>1. ASSUME NEW w \in Web, NEW t \in Trade, NEW ch \in Channel,
             Place(w, t, ch) \/ Charge(w, t, ch)
      PROVE  FundedInv'
  <2>1. RecordsFit' /\ KeepsRecords /\ PaysFunded
    <3>1. UNCHANGED status \/ (status[t] = "NONE" /\ status' = [status EXCEPT ![t] = "WAIT"])
      BY <1>1 DEF Place, Charge, order
    <3>2. \A s \in Trade : status'[s] = status[s] \/ (status[s] = "NONE" /\ status'[s] = "WAIT")
      BY <1>0, <3>1 DEF TypeOK
    <3> QED BY <1>1, <3>2, WalletAlone DEF Place, Charge
  <2>2. KeepsChannels
    BY <1>0, <1>1, OutsideAlone DEF Place, Charge, outside
  <2>3. KeepsRequests
    BY <1>0, <1>1 DEF Place, Charge, KeepsRequests, Begin, Knows, TypeOK
  <2> QED BY <1>0, <2>1, <2>2, <2>3, FundedKept
<1>2. ASSUME NEW w \in Web, Request(w) PROVE FundedInv'
  <2> DEFINE Moved == \A v \in Web \ {w} : req'[v] = req[v]
  <2>0. Moved /\ req[w].trade \in Trade
    BY <1>0, <1>2
    DEF Request, CheckStatus, Debit, Pend, CreateCharge, Finish, ConfirmNow, PackNow,
        Goto, At, TypeOK
  <2>1. PICK t \in Trade : t = req[w].trade
    BY <2>0
  <2>2. Knows(w)' => KeepsRequests
    BY <2>0 DEF KeepsRequests
  <2>3. CASE CheckStatus(w) \/ Finish(w) \/ PackNow(w)
    <3>1. RecordsFit' /\ KeepsRecords /\ PaysFunded
      BY <2>3, WalletAlone DEF CheckStatus, Finish, PackNow, order
    <3>2. KeepsChannels
      BY <1>0, <2>3, OutsideAlone DEF CheckStatus, Finish, PackNow, outside
    <3>3. Knows(w)'
      BY <1>0, <2>3 DEF CheckStatus, Finish, PackNow, Knows, Goto, At, Idle, TypeOK
    <3> QED BY <1>0, <2>2, <3>1, <3>2, <3>3, FundedKept
  <2>4. CASE CreateCharge(w)
    <3>1. RecordsFit' /\ KeepsRecords /\ PaysFunded
      BY <2>4, WalletAlone DEF CreateCharge, order
    <3>2. Held(t)
      BY <1>0, <2>1, <2>4 DEF CreateCharge, Knows, At
    <3>3. \A s \in Trade : charge'[s].paid = charge[s].paid
      BY <1>0, <2>1, <2>4 DEF CreateCharge, TypeOK
    <3>4. \A s \in Trade : cred'[s] = cred[s] \/ (cred[s] \subseteq cred'[s] /\ s = t)
      BY <1>0, <2>1, <2>4 DEF CreateCharge, TypeOK
    <3>5. KeepsChannels
      BY <1>0, <2>4, <3>2, <3>3, <3>4 DEF CreateCharge, KeepsChannels, FundedInv, ChannelsKnow
    <3>6. Knows(w)'
      BY <1>0, <2>4 DEF CreateCharge, Knows, Goto, At, TypeOK
    <3> QED BY <1>0, <2>2, <3>1, <3>5, <3>6, FundedKept
  <2>5. CASE Debit(w) \/ Pend(w)
    <3>1. KeepsChannels
      BY <1>0, <2>5, OutsideAlone DEF Debit, Pend, outside
    <3>2. RecordsFit' /\ KeepsRecords /\ PaysFunded
      <4>1. CASE UNCHANGED wallet
        BY <2>5, <4>1, WalletAlone DEF Debit, Pend, order
      <4>2. CASE ~UNCHANGED wallet
        <5>1. /\ blog[t].status = "NONE" /\ status' = status
              /\ \/ AddLog(t, "CONFIRMED", Payment(t)) /\ "budget" \in Channel
                 \/ AddLog(t, "PENDING", Share[t]) /\ Share[t] > 0 /\ Cash[t] > 0
          BY <1>0, <2>1, <2>5, <4>2 DEF Debit, Pend, order, Knows, At
        <5>2. Share[t] \in Nat /\ Cash[t] \in Nat
          BY Payments
        <5>3. Share[t] > 0 /\ Cash[t] > 0 => "budget" \notin Channel
          BY <5>2 DEF WholeOrPart
        <5>4. /\ blog'[t].flow = Owed(t)
              /\ blog'[t].status \in {"CONFIRMED", "PENDING"}
              /\ Share[t] = 0 => blog'[t].status = "CONFIRMED"
              /\ \A s \in Trade \ {t} : blog'[s] = blog[s]
          BY <1>0, <5>1, <5>2, <5>3 DEF AddLog, Owed, TypeOK
        <5> QED BY <5>1, <5>4, WalletOf
      <4> QED BY <4>1, <4>2
    <3>3. Knows(w)'
      <4>1. req'[w].trade = t
        BY <1>0, <2>1, <2>5 DEF Debit, Pend, Goto, TypeOK
      <4>2. blog'[t].status = "NONE" =>
              /\ blog[t].status = "NONE" /\ UNCHANGED wallet
        BY <1>0, <2>1, <2>5 DEF Debit, Pend, AddLog, TypeOK, wallet
      <4>3. req'[w].at = "confirm" => "budget" \in Channel /\ blog'[t].status # "NONE"
        BY <1>0, <2>1, <2>5, <4>2 DEF Debit, Pend, Goto, At, Knows, AddLog, TypeOK
      <4>4. req'[w].at = "charge" /\ Share[t] > 0 => blog'[t].status # "NONE"
        BY <1>0, <2>1, <2>5, <4>2 DEF Debit, Pend, Goto, At, AddLog, TypeOK
      <4>5. req'[w].at \in {"finish", "confirm", "charge"}
        BY <1>0, <2>5 DEF Debit, Pend, Goto, TypeOK
      <4> QED BY <4>1, <4>3, <4>4, <4>5 DEF Knows, Held
    <3> QED BY <1>0, <2>2, <3>1, <3>2, <3>3, FundedKept
  <2>6. CASE ConfirmNow(w)
    <3>1. "budget" \in Channel /\ blog[t].status # "NONE"
      BY <1>0, <2>1, <2>6 DEF ConfirmNow, Knows, At
    <3>2. RecordsFit' /\ KeepsRecords /\ PaysFunded
      BY <2>1, <2>6, <3>1, ConfirmFunded, WalletAlone DEF ConfirmNow, outside
    <3>3. KeepsChannels
      BY <1>0, <2>6, OutsideAlone DEF ConfirmNow, outside
    <3>4. Knows(w)'
      BY <1>0, <2>6 DEF ConfirmNow, Knows, Goto, TypeOK
    <3> QED BY <1>0, <2>2, <3>2, <3>3, <3>4, FundedKept
  <2> QED BY <1>2, <2>3, <2>4, <2>5, <2>6 DEF Request
<1>3. ASSUME NEW t \in Trade, NEW ch \in Channel, CustomerPays(t, ch) \/ Notify(t, ch)
      PROVE  FundedInv'
  <2>1. RecordsFit' /\ KeepsRecords /\ PaysFunded
    BY <1>3, WalletAlone DEF CustomerPays, Notify, order
  <2>2. KeepsRequests
    BY <1>3 DEF CustomerPays, Notify, KeepsRequests, procs
  <2>3. KeepsChannels
    <3>1. CASE CustomerPays(t, ch)
      BY <1>0, <3>1
      DEF CustomerPays, KeepsChannels, FundedInv, ChannelsKnow, TypeOK, procs
    <3>2. CASE Notify(t, ch)
      BY <1>0, <3>2, OutsideAlone DEF Notify, MarkPaid, Enqueue, TypeOK
    <3> QED BY <1>3, <3>1, <3>2
  <2> QED BY <1>0, <2>1, <2>2, <2>3, FundedKept
<1>4. ASSUME NEW t \in Trade, ConfirmTask(t) PROVE FundedInv'
  <2>1. gateway[t] # {}
    BY <1>0, <1>4 DEF ConfirmTask
  <2>2. RecordsFit' /\ KeepsRecords /\ PaysFunded
    BY <1>4, <2>1, ConfirmFunded, WalletAlone DEF ConfirmTask, outside
  <2>3. KeepsChannels
    <3>1. UNCHANGED outside
          /\ \A s \in Trade \ {t} : task'[s] = task[s]
      BY <1>0, <1>4 DEF ConfirmTask, TypeOK
    <3>2. \A s \in Trade : charge'[s].paid \/ task'[s] # "none" => gateway[s] # {}
      BY <1>0, <2>1, <3>1 DEF FundedInv, ChannelsKnow, outside
    <3> QED BY <1>0, <3>1, <3>2, OutsideAlone DEF outside
  <2>4. KeepsRequests
    BY <1>4 DEF ConfirmTask, KeepsRequests
  <2> QED BY <1>0, <2>2, <2>3, <2>4, FundedKept
<1>5. ASSUME NEW t \in Trade,
             \/ PackTask(t) \/ Pull(t) \/ Destroy(t) \/ ScheduleCart(t) \/ OffShelf(t)
             \/ Tick(t)
      PROVE  FundedInv'
  <2>1. RecordsFit' /\ KeepsRecords /\ PaysFunded
    BY <1>5, WalletAlone
    DEF PackTask, Pull, Destroy, ScheduleCart, OffShelf, Tick, order
  <2>2. KeepsRequests
    BY <1>5
    DEF PackTask, Pull, Destroy, ScheduleCart, OffShelf, Tick, KeepsRequests, procs
  <2>3. FoundPaid(t) =>
          \A s \in Trade : charge'[s].paid \/ task'[s] # "none" => gateway[s] # {}
    BY <1>0 DEF FoundPaid, KnownPaid, MarkPaid, Enqueue, TypeOK
  <2>4. KeepsChannels
    BY <1>0, <1>5, <2>3, OutsideAlone
    DEF PackTask, Pull, Destroy, ScheduleCart, OffShelf, Tick, AskThenClose, outside,
        procs, TypeOK
  <2> QED BY <1>0, <2>1, <2>2, <2>4, FundedKept
<1>6. ASSUME NEW t \in Trade, CloseTrade(t) PROVE FundedInv'
  <2>1. KeepsChannels
    BY <1>0, <1>6, OutsideAlone DEF CloseTrade, outside
  <2>2. KeepsRequests
    BY <1>6 DEF CloseTrade, KeepsRequests
  <2>3. RecordsFit' /\ KeepsRecords /\ PaysFunded
    <3>1. CASE UNCHANGED <<status, wallet>>
      BY <3>1, WalletAlone
    <3>2. CASE ~UNCHANGED <<status, wallet>>
      <4>1. /\ status[t] = "WAIT" /\ status'[t] = "CLOSED"
            /\ \A s \in Trade \ {t} : status'[s] = status[s]
            /\ IF Share[t] > 0 THEN CancelLog(t) ELSE UNCHANGED wallet
        BY <1>0, <1>6, <3>2 DEF CloseTrade, TypeOK
      <4>2. /\ \A s \in Trade \ {t} : blog'[s] = blog[s]
            /\ blog'[t].flow = blog[t].flow
            /\ blog[t].status # "NONE" <=> blog'[t].status # "NONE"
            /\ Share[t] = 0 => blog'[t] = blog[t]
        BY <1>0, <4>1, Payments DEF CancelLog, wallet, TypeOK
      <4> QED BY <4>1, <4>2, WalletOf DEF FundedInv, RecordsFit
    <3> QED BY <3>1, <3>2
  <2> QED BY <1>0, <2>1, <2>2, <2>3, FundedKept
<1>7. CASE CartsTimeOut \/ CouponExpires \/ UNCHANGED vars
  <2>1. RecordsFit' /\ KeepsRecords /\ PaysFunded
    BY <1>7, WalletAlone DEF CartsTimeOut, CouponExpires, vars, order, wallet
  <2>2. KeepsRequests /\ KeepsChannels
    BY <1>0, <1>7, OutsideAlone
    DEF CartsTimeOut, CouponExpires, vars, procs, outside, KeepsRequests
  <2> QED BY <1>0, <2>1, <2>2, FundedKept
<1>8. CASE Crash
  <2>1. RecordsFit' /\ KeepsRecords /\ PaysFunded
    BY <1>8, WalletAlone DEF Crash, order
  <2>2. KeepsRequests
    BY <1>0, <1>8 DEF Crash, KeepsRequests, Knows, Idle, TypeOK
  <2>3. KeepsChannels
    BY <1>0, <1>8, OutsideAlone DEF Crash, outside, TypeOK
  <2> QED BY <1>0, <2>1, <2>2, <2>3, FundedKept
<1> QED BY <1>1, <1>2, <1>3, <1>4, <1>5, <1>6, <1>7, <1>8 DEF Next

\* An order that counts as paid was paid in full, whatever the orders, amounts,
\* workers and crashes, as long as no order can be charged to the wallet as a
\* whole when it was charged to a channel in part.
THEOREM PaidWasFunded == ASSUME WholeOrPart PROVE Spec => []PaidIsFunded
<1>1. Init => FundedInv
  BY FundedInit
<1>2. FundedInv /\ [Next]_vars => FundedInv'
  BY FundedStep
<1>3. FundedInv => PaidIsFunded
  BY DEF FundedInv
<1> QED BY <1>1, <1>2, <1>3, PTL DEF Spec

-----------------------------------------------------------------------------
(***************************************************************************)
(* The balance is what the records leave of it.  A record that was         *)
(* cancelled is never confirmed, which would give its amount away: it is   *)
(* cancelled with its order, and only waiting orders are confirmed.        *)
(***************************************************************************)
CanceledIsClosed ==
    \A t \in Trade : blog[t].status = "CANCELED" => status[t] = "CLOSED"

\* The ways in which a step may change the wallet.
WalletMoves(t) ==
    \/ blog[t].status = "NONE" /\ \E s \in {"CONFIRMED", "PENDING"}, f \in Nat : AddLog(t, s, f)
    \/ blog[t].status # "CANCELED" /\ ConfirmLog(t)
    \/ CancelLog(t)

\* Confirming a waiting order touches its own record, which is not cancelled.
LEMMA ConfirmMoves ==
    ASSUME TypeOK, CanceledIsClosed, NEW t \in Trade, status[t] = "WAIT", Confirm(t)
    PROVE  /\ CanceledIsClosed'
           /\ UNCHANGED wallet \/ WalletMoves(t)
<1>1. blog[t].status # "CANCELED" /\ (UNCHANGED wallet \/ ConfirmLog(t))
  BY DEF CanceledIsClosed, Confirm
<1>2. \A s \in Trade : blog'[s].status = "CANCELED" => s # t /\ blog[s].status = "CANCELED"
  BY <1>1 DEF ConfirmLog, wallet, TypeOK
<1>3. \A s \in Trade \ {t} : status'[s] = status[s]
  BY DEF Confirm
<1> QED BY <1>1, <1>2, <1>3 DEF CanceledIsClosed, WalletMoves

\* Every step leaves the wallet alone or moves it in one of these ways.
LEMMA WalletSteps ==
    ASSUME TypeOK, CanceledIsClosed, [Next]_vars
    PROVE  /\ CanceledIsClosed'
           /\ UNCHANGED wallet \/ \E t \in Trade : WalletMoves(t)
<1>1. ASSUME UNCHANGED wallet,
             \A t \in Trade : status[t] = "CLOSED" => status'[t] = "CLOSED"
      PROVE  CanceledIsClosed'
  BY <1>1 DEF CanceledIsClosed, wallet
<1>2. ASSUME NEW w \in Web, NEW t \in Trade, NEW ch \in Channel,
             Place(w, t, ch) \/ Charge(w, t, ch)
      PROVE  UNCHANGED wallet /\ CanceledIsClosed'
  BY <1>1, <1>2 DEF Place, Charge, order, TypeOK
<1>3. ASSUME NEW w \in Web, Request(w)
      PROVE  /\ CanceledIsClosed'
             /\ UNCHANGED wallet \/ \E t \in Trade : WalletMoves(t)
  <2>1. PICK t \in Trade : t = req[w].trade
    BY <1>3
    DEF Request, CheckStatus, Debit, Pend, CreateCharge, Finish, ConfirmNow, PackNow, At,
        TypeOK
  <2>2. CASE CheckStatus(w) \/ CreateCharge(w) \/ Finish(w) \/ PackNow(w)
    BY <1>1, <2>2 DEF CheckStatus, CreateCharge, Finish, PackNow, order
  <2>3. CASE ConfirmNow(w)
    BY <1>1, <2>1, <2>3, ConfirmMoves DEF ConfirmNow
  <2>4. CASE Debit(w) \/ Pend(w)
    <3>1. UNCHANGED status
      BY <2>4 DEF Debit, Pend, order
    <3>2. CASE UNCHANGED wallet
      BY <1>1, <3>1, <3>2
    <3>3. CASE ~UNCHANGED wallet
      <4>1. /\ blog[t].status = "NONE"
            /\ AddLog(t, "CONFIRMED", Payment(t)) \/ AddLog(t, "PENDING", Share[t])
        BY <2>1, <2>4, <3>3 DEF Debit, Pend
      <4>2. WalletMoves(t)
        BY <4>1, Payments DEF WalletMoves
      <4>3. \A s \in Trade : blog'[s].status = "CANCELED" => blog[s].status = "CANCELED"
        <5>1. \A s \in Trade \ {t} : blog'[s] = blog[s]
          BY <4>1 DEF AddLog, TypeOK
        <5>2. blog'[t].status \in {"CONFIRMED", "PENDING"}
          BY <4>1 DEF AddLog, TypeOK
        <5> QED BY <5>1, <5>2
      <4>4. CanceledIsClosed'
        BY <3>1, <4>3 DEF CanceledIsClosed
      <4> QED BY <4>2, <4>4
    <3> QED BY <3>2, <3>3
  <2> QED BY <1>3, <2>2, <2>3, <2>4 DEF Request
<1>4. ASSUME NEW t \in Trade, NEW ch \in Channel, CustomerPays(t, ch) \/ Notify(t, ch)
      PROVE  UNCHANGED wallet /\ CanceledIsClosed'
  BY <1>1, <1>4 DEF CustomerPays, Notify, order
<1>5. ASSUME NEW t \in Trade, ConfirmTask(t)
      PROVE  CanceledIsClosed' /\ (UNCHANGED wallet \/ WalletMoves(t))
  BY <1>1, <1>5, ConfirmMoves DEF ConfirmTask
<1>6. ASSUME NEW t \in Trade,
             \/ PackTask(t) \/ Pull(t) \/ Destroy(t) \/ ScheduleCart(t) \/ OffShelf(t)
             \/ Tick(t)
      PROVE  UNCHANGED wallet /\ CanceledIsClosed'
  BY <1>1, <1>6 DEF PackTask, Pull, Destroy, ScheduleCart, OffShelf, Tick, order
<1>7. ASSUME NEW t \in Trade, CloseTrade(t)
      PROVE  CanceledIsClosed' /\ (UNCHANGED wallet \/ WalletMoves(t))
  <2>1. CASE status[t] # "WAIT"
    BY <1>1, <1>7, <2>1 DEF CloseTrade
  <2>2. CASE status[t] = "WAIT"
    <3>1. status' = [status EXCEPT ![t] = "CLOSED"] /\ (UNCHANGED wallet \/ CancelLog(t))
      BY <1>7, <2>2 DEF CloseTrade
    <3>2. \A s \in Trade \ {t} : blog'[s] = blog[s]
      BY <3>1 DEF CancelLog, wallet, TypeOK
    <3>3. CanceledIsClosed'
      BY <3>1, <3>2 DEF CanceledIsClosed, TypeOK
    <3> QED BY <3>1, <3>3 DEF WalletMoves
  <2> QED BY <2>1, <2>2
<1>8. CASE CartsTimeOut \/ CouponExpires \/ Crash \/ UNCHANGED vars
  BY <1>1, <1>8 DEF CartsTimeOut, CouponExpires, Crash, vars, order, wallet
<1> QED BY <1>2, <1>3, <1>4, <1>5, <1>6, <1>7, <1>8 DEF Next

\* What a record is worth after a step is what was added to the balance.
LEMMA RecordFollows ==
    ASSUME TypeOK, NEW t \in Trade, WalletMoves(t)
    PROVE  /\ \A s \in Trade \ {t} : RecordEffect(s)' = RecordEffect(s)
           /\ RecordEffect(t) \in Int /\ RecordEffect(t)' \in Int
           /\ amount' = amount + (RecordEffect(t)' - RecordEffect(t))
<1>1. /\ blog \in [Trade -> Record] /\ blog[t] \in Record /\ amount \in Int
      /\ blog[t].flow \in Nat /\ blog[t].status \in LogStatus \cup {"NONE"}
  BY DEF TypeOK, Record
<1>2. \A s \in LogStatus, f \in Nat :
        /\ Delta(Effect("OUT", s, f), "amount") = IF s = "CANCELED" THEN 0 ELSE -f
        /\ Delta(CreateMove("OUT", s, f), "amount") = -f
        /\ Delta(ConfirmMove("OUT", "PENDING", f), "amount") = 0
        /\ Delta(CancelMove("OUT", s, f), "amount") = IF s = "CANCELED" THEN 0 ELSE f
  BY DEF Effect, CreateMove, ConfirmMove, CancelMove, Expense, Income, NoMove, Delta, LogStatus
<1>3. \A s \in Trade \ {t} : blog'[s] = blog[s]
  BY <1>1 DEF WalletMoves, AddLog, ConfirmLog, CancelLog, wallet
<1>4. \A s \in Trade \ {t} : RecordEffect(s)' = RecordEffect(s)
  BY <1>3 DEF RecordEffect
<1>5. RecordEffect(t) = IF blog[t].status \in {"NONE", "CANCELED"} THEN 0 ELSE -blog[t].flow
  BY <1>1, <1>2 DEF RecordEffect
<1>6. ASSUME NEW s \in {"CONFIRMED", "PENDING"}, NEW f \in Nat, AddLog(t, s, f),
             blog[t].status = "NONE"
      PROVE  RecordEffect(t)' = -f /\ amount' = amount + -f
  BY <1>1, <1>2, <1>6 DEF AddLog, RecordEffect, LogStatus
<1>7. ASSUME blog[t].status # "CANCELED", ConfirmLog(t)
      PROVE  RecordEffect(t)' = RecordEffect(t) /\ amount' = amount
  <2>1. CASE UNCHANGED wallet
    BY <2>1 DEF wallet, RecordEffect
  <2>2. CASE ~UNCHANGED wallet
    <3>1. /\ blog'[t].status = "CONFIRMED" /\ blog'[t].flow = blog[t].flow
          /\ blog[t].status = "PENDING"
          /\ amount' = amount + Delta(ConfirmMove("OUT", "PENDING", blog[t].flow), "amount")
      BY <1>1, <1>7, <2>2 DEF ConfirmLog, Record, LogStatus
    <3>2. RecordEffect(t)' = -blog[t].flow /\ RecordEffect(t) = -blog[t].flow
      BY <1>1, <1>2, <1>5, <3>1 DEF RecordEffect, LogStatus
    <3> QED BY <1>1, <1>2, <3>1, <3>2
  <2> QED BY <2>1, <2>2
<1>8. ASSUME CancelLog(t)
      PROVE  \/ RecordEffect(t)' = RecordEffect(t) /\ amount' = amount
             \/ /\ RecordEffect(t)' = 0 /\ RecordEffect(t) = -blog[t].flow
                /\ amount' = amount + blog[t].flow
  <2>1. CASE UNCHANGED wallet
    BY <2>1 DEF wallet, RecordEffect
  <2>2. CASE ~UNCHANGED wallet
    <3>1. /\ blog'[t].status = "CANCELED" /\ blog'[t].flow = blog[t].flow
          /\ blog[t].status \in {"PENDING", "CONFIRMED"}
          /\ amount' = amount + Delta(CancelMove("OUT", blog[t].status, blog[t].flow), "amount")
      BY <1>1, <1>8, <2>2 DEF CancelLog, Record, LogStatus
    <3>2. RecordEffect(t)' = 0 /\ RecordEffect(t) = -blog[t].flow
      BY <1>1, <1>2, <1>5, <3>1 DEF RecordEffect, LogStatus
    <3> QED BY <1>1, <1>2, <3>1, <3>2 DEF LogStatus
  <2> QED BY <2>1, <2>2
<1>9. RecordEffect(t) \in Int
  BY <1>1, <1>5
<1>10. /\ RecordEffect(t)' \in Int
       /\ amount' = amount + (RecordEffect(t)' - RecordEffect(t))
  <2>1. CASE \E s \in {"CONFIRMED", "PENDING"}, f \in Nat :
               AddLog(t, s, f) /\ blog[t].status = "NONE"
    <3>1. RecordEffect(t) = 0
      BY <1>5, <2>1
    <3>2. PICK f \in Nat : RecordEffect(t)' = -f /\ amount' = amount + -f
      BY <1>6, <2>1
    <3> QED BY <1>1, <3>1, <3>2
  <2>2. CASE blog[t].status # "CANCELED" /\ ConfirmLog(t)
    BY <1>1, <1>7, <1>9, <2>2
  <2>3. CASE CancelLog(t)
    BY <1>1, <1>8, <1>9, <2>3
  <2> QED BY <2>1, <2>2, <2>3 DEF WalletMoves
<1> QED BY <1>4, <1>9, <1>10

\* The balance follows the one record.
LEMMA ConservedStep ==
    ASSUME TypeOK, TypeOK', WalletConserved, NEW t \in Trade, WalletMoves(t)
    PROVE  WalletConserved'
<1> DEFINE f == [s \in Trade |-> RecordEffect(s)]
           g == [s \in Trade |-> RecordEffect(s)']
<1>1. \A s \in Trade : f[s] \in Int /\ g[s] \in Int
  <2>1. \A s \in LogStatus, n \in Nat : Delta(Effect("OUT", s, n), "amount") \in Int
    BY DEF Effect, Expense, NoMove, Delta, LogStatus
  <2> QED BY <2>1 DEF TypeOK, RecordEffect
<1>2. /\ SumFunctionOnSet(f, Trade) \in Int
      /\ SumFunctionOnSet(g, Trade) = SumFunctionOnSet(f, Trade) + (g[t] - f[t])
  <2>1. \A s \in Trade \ {t} : g[s] = f[s]
    BY RecordFollows
  <2>2. IsFiniteSet(Trade)
    BY PaymentAssumption
  <2> HIDE DEF f, g
  <2>3. SumFunctionOnSet(f, Trade) \in Int
    BY <1>1, <2>2, SumType
  <2> QED BY <1>1, <2>1, <2>2, <2>3, SumUpdate
<1>3. amount' = amount + (g[t] - f[t]) /\ g[t] \in Int /\ f[t] \in Int
  BY RecordFollows
<1>4. amount = StartAmount + SumFunctionOnSet(f, Trade) /\ StartAmount \in Int
  BY PaymentAssumption DEF WalletConserved
<1>5. amount' = StartAmount + SumFunctionOnSet(g, Trade)
  <2> HIDE DEF f, g
  <2> QED BY <1>2, <1>3, <1>4
<1> QED BY <1>5 DEF WalletConserved

\* In whatever order requests, tasks and closers run, and wherever they die,
\* the balance is what the orders' records leave of it: no path takes a debit
\* twice, gives one back twice, or confirms one that was given back.
THEOREM WalletIsConserved == Spec => []WalletConserved
<1>1. Init => CanceledIsClosed /\ WalletConserved
  <2> SUFFICES ASSUME Init PROVE CanceledIsClosed /\ WalletConserved
    OBVIOUS
  <2>1. \A t \in Trade : RecordEffect(t) = 0
    BY DEF Init, NoLog, RecordEffect
  <2>2. SumFunctionOnSet([t \in Trade |-> RecordEffect(t)], Trade) = 0
    BY <2>1, SumZero, PaymentAssumption
  <2>3. amount = StartAmount + 0
    BY PaymentAssumption DEF Init
  <2> QED BY <2>2, <2>3 DEF Init, NoLog, CanceledIsClosed, WalletConserved
<1>2. TypeOK /\ CanceledIsClosed /\ WalletConserved /\ [Next]_vars
        => CanceledIsClosed' /\ WalletConserved'
  <2> SUFFICES ASSUME TypeOK, CanceledIsClosed, WalletConserved, [Next]_vars
               PROVE  CanceledIsClosed' /\ WalletConserved'
    OBVIOUS
  <2>1. TypeOK'
    BY TypeStep
  <2>2. UNCHANGED wallet => WalletConserved'
    BY DEF WalletConserved, RecordEffect, wallet
  <2> QED BY <2>1, <2>2, WalletSteps, ConservedStep
<1> QED BY <1>1, <1>2, PaymentTypes, PTL DEF Spec
=============================================================================
