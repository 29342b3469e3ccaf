---------------------------- MODULE TradePayment ----------------------------
(***************************************************************************)
(* The payment of orders (SaleTrade): placing one from the cart, charging  *)
(* it to the wallet or through a payment channel, confirming the payment   *)
(* when the wallet or the channel has it, and closing the order by hand,   *)
(* by timeout or because the goods are taken down.                         *)
(*                                                                         *)
(* Web requests, celery tasks and the closers run side by side.  Each is a *)
(* small process whose steps are the transactions the code commits, and    *)
(* each may die between two of them: a request is lost then, a task is     *)
(* delivered again (CELERY_TASK_ACKS_LATE).  The wallet row changes in one *)
(* step here; UserBudget models what happens inside.                       *)
(***************************************************************************)
EXTENDS BudgetRules, FiniteSets, FiniteSetsExt

CONSTANTS
    Trade,        \* orders of one customer
    Web,          \* web workers
    Channel,      \* payment channels customers choose from
    Share,        \* of each order, the part paid from the wallet (budget_paid)
    Cash,         \* of each order, the part paid through a channel (pay_cash)
    WithCoupon,   \* the orders that name the coupon
    StartAmount,  \* balance of the wallet
    MaxCrash,     \* bound on the processes that die
    Carts         \* TRUE if carts time out, FALSE if there are none that do

PayChannel == {"wx", "alipay", "alipay_wap", "budget"}

ASSUME PaymentAssumption ==
    /\ IsFiniteSet(Trade)
    /\ Trade \cap {"UNUSED", "PAST", "none"} = {}
    /\ Channel \subseteq PayChannel
    /\ Share \in [Trade -> Nat] /\ Cash \in [Trade -> Nat]
    /\ WithCoupon \subseteq Trade
    /\ StartAmount \in Nat /\ MaxCrash \in Nat /\ Carts \in BOOLEAN

VARIABLES
    status,   \* SaleTrade.status; "NONE" before the order is placed
    paying,   \* SaleTrade.pay_status = SALE_TRADE_PAYING
    chan,     \* SaleTrade.channel
    age,      \* within the payment window, past it, or past midnight of it
    packed,   \* the PackageSkuItems of the order exist
    amount,   \* balance of the wallet
    blog,     \* the order's BudgetLog, whose uni_key is 'st_<id>'
    coupon,   \* "UNUSED", "PAST", or the order that used it
    charge,   \* the order's ChargeOrder
    cred,     \* channels a credential was issued for
    gateway,  \* channels on which the customer has paid
    req,      \* what each web worker is in the middle of
    task,     \* confirmTradeChargeTask of each order
    closer,   \* orders a closer is about to close
    carts,    \* some cart is past its remain_time
    crashes

order   == <<status, paying, chan>>
wallet  == <<amount, blog>>
outside == <<charge, cred, gateway>>
procs   == <<req, task, closer, crashes>>
vars    == <<status, paying, chan, age, packed, amount, blog, coupon, charge,
             cred, gateway, req, task, closer, carts, crashes>>

Payment(t) == Share[t] + Cash[t]

NoLog    == [status |-> "NONE", flow |-> 0]
NoCharge == [ch |-> "none", paid |-> FALSE]

(***************************************************************************)
(* A request goes from its first step to "finish".  fresh says that it is  *)
(* the one that places the order, which checks the coupon as well.         *)
(***************************************************************************)
Idle == [at |-> "idle", trade |-> "none", ch |-> "budget", fresh |-> FALSE]

Begin(w, t, ch, fresh) ==
    req' = [req EXCEPT ![w] = [at |-> IF ch = "budget" THEN "status" ELSE "pend",
                               trade |-> t, ch |-> ch, fresh |-> fresh]]

Goto(w, step) == req' = [req EXCEPT ![w].at = step]

Init ==
    /\ status = [t \in Trade |-> "NONE"]
    /\ paying = [t \in Trade |-> FALSE]
    /\ chan = [t \in Trade |-> "budget"]
    /\ age = [t \in Trade |-> "open"]
    /\ packed = [t \in Trade |-> FALSE]
    /\ amount = StartAmount
    /\ blog = [t \in Trade |-> NoLog]
    /\ coupon = "UNUSED"
    /\ charge = [t \in Trade |-> NoCharge]
    /\ cred = [t \in Trade |-> {}]
    /\ gateway = [t \in Trade |-> {}]
    /\ req = [w \in Web |-> Idle]
    /\ task = [t \in Trade |-> "none"]
    /\ closer = {}
    /\ carts = FALSE
    /\ crashes = 0

(***************************************************************************)
(* Wallet records of the orders.                                           *)
(***************************************************************************)
AddLog(t, s, f) ==
    /\ blog' = [blog EXCEPT ![t] = [status |-> s, flow |-> f]]
    /\ amount' = amount + Delta(CreateMove("OUT", s, f), "amount")

\* UserBudget.charge_confirm: a cancelled record is confirmed as a pending one.
ConfirmLog(t) ==
    IF blog[t].status \in {"NONE", "CONFIRMED"} THEN UNCHANGED wallet
    ELSE /\ blog' = [blog EXCEPT ![t].status = "CONFIRMED"]
         /\ amount' = amount + Delta(ConfirmMove("OUT", "PENDING", blog[t].flow), "amount")

CancelLog(t) ==
    IF blog[t].status \in {"NONE", "CANCELED"} THEN UNCHANGED wallet
    ELSE /\ blog' = [blog EXCEPT ![t].status = "CANCELED"]
         /\ amount' = amount + Delta(CancelMove("OUT", blog[t].status, blog[t].flow), "amount")

(***************************************************************************)
(* Placing and charging.                                                   *)
(***************************************************************************)

\* shoppingcart_create.  A retry with the uuid of an order that exists charges
\* that order again, whatever has become of it.
Place(w, t, ch) ==
    /\ req[w].at = "idle"
    /\ IF status[t] = "NONE"
       THEN /\ status' = [status EXCEPT ![t] = "WAIT"]
            /\ paying' = [paying EXCEPT ![t] = TRUE]
            /\ chan' = [chan EXCEPT ![t] = ch]
       ELSE ch = chan[t] /\ UNCHANGED order
    /\ Begin(w, t, ch, TRUE)
    /\ UNCHANGED <<age, packed, wallet, coupon, outside, task, closer, carts, crashes>>

Payable(t) == status[t] = "WAIT" /\ age[t] # "late"

\* The charge view stores the channel first, and then looks at the order.
Charge(w, t, ch) ==
    /\ req[w].at = "idle" /\ status[t] # "NONE"
    /\ chan' = [chan EXCEPT ![t] = ch]
    /\ IF Payable(t) /\ ~paying[t] THEN Begin(w, t, ch, FALSE) ELSE UNCHANGED req
    /\ UNCHANGED <<status, paying, age, packed, wallet, coupon, outside, task,
                   closer, carts, crashes>>

At(w, step) == req[w].at = step

CouponRefuses(w) ==
    /\ req[w].fresh /\ req[w].trade \in WithCoupon
    /\ coupon \notin {"UNUSED", req[w].trade}

CheckStatus(w) ==
    /\ At(w, "status")
    /\ Goto(w, IF status[req[w].trade] = "WAIT" THEN "debit" ELSE "finish")
    /\ UNCHANGED <<order, age, packed, wallet, coupon, outside, task, closer, carts, crashes>>

\* Mutant: a second record is written.
Debit_Again(w) ==
    LET t == req[w].trade IN
    /\ At(w, "debit") /\ ~CouponRefuses(w) /\ amount >= Payment(t)
    /\ Goto(w, "confirm")
    /\ AddLog(t, "CONFIRMED", Payment(t))
    /\ UNCHANGED <<order, age, packed, coupon, outside, task, closer, carts, crashes>>

\* budget_charge: the wallet must cover the whole payment.  If the record
\* exists already the IntegrityError is logged and the order confirmed.
Debit(w) ==
    LET t == req[w].trade IN
    /\ At(w, "debit")
    /\ \/ /\ CouponRefuses(w) \/ amount < Payment(t)
          /\ Goto(w, "finish")
          /\ UNCHANGED wallet
       \/ /\ ~CouponRefuses(w) /\ amount >= Payment(t)
          /\ Goto(w, "confirm")
          /\ IF blog[t].status = "NONE" THEN AddLog(t, "CONFIRMED", Payment(t))
             ELSE UNCHANGED wallet
    /\ UNCHANGED <<order, age, packed, coupon, outside, task, closer, carts, crashes>>

\* pingpp_charge: the wallet's part is put on hold, whatever the balance.
Pend(w) ==
    LET t == req[w].trade IN
    /\ At(w, "pend")
    /\ \/ /\ CouponRefuses(w) \/ Cash[t] = 0
          /\ Goto(w, "finish")
          /\ UNCHANGED wallet
       \/ /\ ~CouponRefuses(w) /\ Cash[t] > 0
          /\ Goto(w, "charge")
          /\ IF Share[t] > 0 /\ blog[t].status = "NONE" THEN AddLog(t, "PENDING", Share[t])
             ELSE UNCHANGED wallet
    /\ UNCHANGED <<order, age, packed, coupon, outside, task, closer, carts, crashes>>

\* create_charge moves the order's ChargeOrder to the channel and asks the
\* channel for a credential, which may fail.
CreateCharge(w) ==
    LET t == req[w].trade IN
    /\ At(w, "charge") /\ Goto(w, "finish")
    /\ charge' = [charge EXCEPT ![t].ch = req[w].ch]
    /\ \/ UNCHANGED cred
       \/ cred' = [cred EXCEPT ![t] = @ \cup {req[w].ch}]
    /\ UNCHANGED <<order, age, packed, wallet, coupon, gateway, task, closer, carts, crashes>>

Finish(w) ==
    /\ At(w, "finish")
    /\ paying' = [paying EXCEPT ![req[w].trade] = FALSE]
    /\ req' = [req EXCEPT ![w] = Idle]
    /\ UNCHANGED <<status, chan, age, packed, wallet, coupon, outside, task, closer,
                   carts, crashes>>

(***************************************************************************)
(* Confirming: SaleTrade.charge_confirm.  The transaction leaves an order  *)
(* that is not waiting alone, and fails as a whole if the coupon cannot be *)
(* used.                                                                   *)
(***************************************************************************)
\* Mutant: a coupon another order used is used again.
CouponUsable_NotPast(t) == t \in WithCoupon => coupon # "PAST"

CouponUsable(t) == t \in WithCoupon => coupon = "UNUSED"

\* Mutant: the wallet's part stays on hold.
Confirm_KeepHold(t) ==
    /\ status' = [status EXCEPT ![t] = "PAID"]
    /\ paying' = [paying EXCEPT ![t] = FALSE]
    /\ coupon' = IF t \in WithCoupon THEN t ELSE coupon
    /\ UNCHANGED wallet

Confirm(t) ==
    /\ status' = [status EXCEPT ![t] = "PAID"]
    /\ paying' = [paying EXCEPT ![t] = FALSE]
    /\ coupon' = IF t \in WithCoupon THEN t ELSE coupon
    /\ IF Share[t] > 0 THEN ConfirmLog(t) ELSE UNCHANGED wallet

\* budget_charge confirms in the request itself; what charge_confirm raises
\* ends the request.
ConfirmNow(w) ==
    LET t == req[w].trade IN
    /\ At(w, "confirm")
    /\ IF status[t] = "WAIT" /\ CouponUsable(t)
       THEN Confirm(t) /\ Goto(w, "pack")
       ELSE Goto(w, "finish") /\ UNCHANGED <<status, paying, wallet, coupon>>
    /\ UNCHANGED <<chan, age, packed, outside, task, closer, carts, crashes>>

PackNow(w) ==
    /\ At(w, "pack") /\ Goto(w, "finish")
    /\ packed' = [packed EXCEPT ![req[w].trade] = TRUE]
    /\ UNCHANGED <<order, age, wallet, coupon, outside, task, closer, carts, crashes>>

\* Mutant: an order that was closed is confirmed as well.
ConfirmTask_Closed(t) ==
    /\ task[t] = "queued"
    /\ Confirm(t) /\ task' = [task EXCEPT ![t] = "pack"]
    /\ UNCHANGED <<chan, age, packed, outside, req, closer, carts, crashes>>

ConfirmTask(t) ==
    /\ task[t] = "queued"
    /\ IF status[t] = "WAIT" /\ CouponUsable(t)
       THEN Confirm(t) /\ task' = [task EXCEPT ![t] = "pack"]
       ELSE task' = [task EXCEPT ![t] = "none"] /\ UNCHANGED <<status, paying, wallet, coupon>>
    /\ UNCHANGED <<chan, age, packed, outside, req, closer, carts, crashes>>

PackTask(t) ==
    /\ task[t] = "pack"
    /\ packed' = [packed EXCEPT ![t] = TRUE]
    /\ task' = [task EXCEPT ![t] = "none"]
    /\ UNCHANGED <<order, age, wallet, coupon, outside, req, closer, carts, crashes>>

(***************************************************************************)
(* The payment channel and xiaolupay.                                      *)
(***************************************************************************)
Enqueue(t) == task' = [task EXCEPT ![t] = IF @ = "none" THEN "queued" ELSE @]

CustomerPays(t, ch) ==
    /\ ch \in cred[t] \ gateway[t]
    /\ gateway' = [gateway EXCEPT ![t] = @ \cup {ch}]
    /\ UNCHANGED <<order, age, packed, wallet, coupon, charge, cred, procs, carts>>

\* retrieve_or_update_order, told by the channel or asking it: the first
\* answer that the order is paid is stored, and after the commit a signal
\* queues confirmTradeChargeTask; the process may die in between.
MarkPaid(t, ch) == charge' = [charge EXCEPT ![t] = [ch |-> ch, paid |-> TRUE]]

Notify(t, ch) ==
    /\ ch \in gateway[t] /\ charge[t].ch # "none" /\ ~charge[t].paid
    /\ MarkPaid(t, ch)
    /\ \/ Enqueue(t) /\ UNCHANGED crashes
       \/ UNCHANGED task /\ crashes < MaxCrash /\ crashes' = crashes + 1
    /\ UNCHANGED <<order, age, packed, wallet, coupon, cred, gateway, req, closer, carts>>

\* Asking: only the channel the order was charged to last is asked.
KnownPaid(t) == charge[t].paid \/ charge[t].ch \in gateway[t]

\* Mutant: the task is queued only when the charge was not known as paid.
FoundPaid_OnlyNews(t) ==
    /\ KnownPaid(t) /\ ~charge[t].paid
    /\ MarkPaid(t, charge[t].ch) /\ Enqueue(t)

FoundPaid(t) ==
    /\ KnownPaid(t)
    /\ IF charge[t].paid THEN UNCHANGED charge ELSE MarkPaid(t, charge[t].ch)
    /\ Enqueue(t)

\* pull_Paid_SaleTrade visits the orders without a payment time, but for those
\* of alipay_wap, which its filter misspells.
Pull(t) ==
    /\ status[t] \in {"WAIT", "CLOSED"} /\ chan[t] \in {"wx", "alipay"}
    /\ FoundPaid(t)
    /\ UNCHANGED <<order, age, packed, wallet, coupon, cred, gateway, req, closer,
                   carts, crashes>>

(***************************************************************************)
(* Closing.  Destroy and the timeout task ask the channel first; an order  *)
(* that is paid is confirmed instead.  An error of alipay's query counts   *)
(* as not paid.                                                            *)
(***************************************************************************)
AskThenClose(t, may) ==
    \/ FoundPaid(t) /\ UNCHANGED closer
    \/ /\ may /\ t \notin closer
       /\ KnownPaid(t) => ~charge[t].paid /\ charge[t].ch \in {"alipay", "alipay_wap"}
       /\ closer' = closer \cup {t}
       /\ UNCHANGED <<charge, task>>

\* The customer cancels; refused while the order is being submitted.
Destroy(t) ==
    /\ status[t] # "NONE"
    /\ AskThenClose(t, ~paying[t])
    /\ UNCHANGED <<order, age, packed, wallet, coupon, cred, gateway, req, carts, crashes>>

\* Mutant: like the customer, the task leaves an order being submitted alone.
ScheduleCart_NotPaying(t) ==
    /\ carts' = FALSE
    /\ \/ carts /\ UNCHANGED <<charge, task, closer>>
       \/ /\ ~carts /\ status[t] = "WAIT" /\ age[t] = "late" /\ ~paying[t]
          /\ AskThenClose(t, TRUE)
    /\ UNCHANGED <<order, age, packed, wallet, coupon, cred, gateway, req, crashes>>

\* task_schedule_cart closes the carts past their time; only when it has found
\* none does it go on to the orders.
ScheduleCart(t) ==
    /\ carts' = FALSE
    /\ \/ carts /\ UNCHANGED <<charge, task, closer>>
       \/ /\ ~carts /\ status[t] = "WAIT" /\ age[t] = "late"
          /\ AskThenClose(t, TRUE)
    /\ UNCHANGED <<order, age, packed, wallet, coupon, cred, gateway, req, crashes>>

\* task_off_the_shelf asks nobody.
OffShelf(t) ==
    /\ status[t] = "WAIT" /\ t \notin closer
    /\ closer' = closer \cup {t}
    /\ UNCHANGED <<order, age, packed, wallet, coupon, outside, req, task, carts, crashes>>

\* Mutants: closing does not look at the status; it writes the wrong one.
CloseTrade_AnyStatus(t) ==
    /\ t \in closer /\ closer' = closer \ {t}
    /\ status' = [status EXCEPT ![t] = "CLOSED"]
    /\ IF Share[t] > 0 THEN CancelLog(t) ELSE UNCHANGED wallet
    /\ UNCHANGED <<paying, chan, age, packed, coupon, outside, req, task, carts, crashes>>

CloseTrade_Finished(t) ==
    /\ t \in closer /\ closer' = closer \ {t}
    /\ status[t] = "WAIT" /\ status' = [status EXCEPT ![t] = "FINISHED"]
    /\ IF Share[t] > 0 THEN CancelLog(t) ELSE UNCHANGED wallet
    /\ UNCHANGED <<paying, chan, age, packed, coupon, outside, req, task, carts, crashes>>

CloseTrade(t) ==
    /\ t \in closer /\ closer' = closer \ {t}
    /\ IF status[t] = "WAIT"
       THEN /\ status' = [status EXCEPT ![t] = "CLOSED"]
            /\ IF Share[t] > 0 THEN CancelLog(t) ELSE UNCHANGED wallet
       ELSE UNCHANGED <<status, wallet>>
    /\ UNCHANGED <<paying, chan, age, packed, coupon, outside, req, task, carts, crashes>>

(***************************************************************************)
(* Crashes, and the passing of time.                                       *)
(***************************************************************************)
Crash ==
    /\ crashes < MaxCrash /\ crashes' = crashes + 1
    /\ \/ /\ \E w \in Web : ~At(w, "idle") /\ req' = [req EXCEPT ![w] = Idle]
          /\ UNCHANGED <<task, closer>>
       \/ /\ \E t \in Trade : task[t] = "pack" /\ task' = [task EXCEPT ![t] = "queued"]
          /\ UNCHANGED <<req, closer>>
       \/ /\ \E t \in closer : closer' = closer \ {t}
          /\ UNCHANGED <<req, task>>
    /\ UNCHANGED <<order, age, packed, wallet, coupon, outside, carts>>

\* is_payable compares timedelta.seconds, which starts again every day.
Tick(t) ==
    /\ status[t] = "WAIT"
    /\ age' = [age EXCEPT ![t] = IF @ = "late" THEN "reopened" ELSE "late"]
    /\ UNCHANGED <<order, packed, wallet, coupon, outside, procs, carts>>

CartsTimeOut ==
    /\ Carts /\ ~carts /\ carts' = TRUE
    /\ UNCHANGED <<order, age, packed, wallet, coupon, outside, procs>>

CouponExpires ==
    /\ coupon = "UNUSED" /\ WithCoupon # {} /\ coupon' = "PAST"
    /\ UNCHANGED <<order, age, packed, wallet, outside, procs, carts>>

Request(w) ==
    \/ CheckStatus(w) \/ Debit(w) \/ Pend(w) \/ CreateCharge(w) \/ Finish(w)
    \/ ConfirmNow(w) \/ PackNow(w)

Next ==
    \/ \E w \in Web, t \in Trade, ch \in Channel : Place(w, t, ch) \/ Charge(w, t, ch)
    \/ \E w \in Web : Request(w)
    \/ \E t \in Trade, ch \in Channel : CustomerPays(t, ch) \/ Notify(t, ch)
    \/ \E t \in Trade : ConfirmTask(t) \/ PackTask(t) \/ Pull(t)
    \/ \E t \in Trade : Destroy(t) \/ ScheduleCart(t) \/ OffShelf(t) \/ CloseTrade(t)
    \/ \E t \in Trade : Tick(t)
    \/ CartsTimeOut \/ CouponExpires \/ Crash

Spec == Init /\ [][Next]_vars

\* Requests and tasks that have begun go on; channels repeat a notification
\* until it is answered; the hourly and the five-minute task run again and
\* again, so that they meet every condition that keeps coming back; time passes.
Fairness ==
    /\ \A w \in Web : WF_vars(Request(w))
    /\ \A t \in Trade :
         /\ WF_vars(\E ch \in Channel : Notify(t, ch))
         /\ WF_vars(ConfirmTask(t)) /\ WF_vars(PackTask(t)) /\ WF_vars(CloseTrade(t))
         /\ SF_vars(Pull(t)) /\ SF_vars(ScheduleCart(t)) /\ WF_vars(Tick(t))

FairSpec == Spec /\ Fairness

-----------------------------------------------------------------------------
(***************************************************************************)
(* Properties.                                                             *)
(***************************************************************************)
Step == {"idle", "status", "debit", "pend", "charge", "confirm", "pack", "finish"}

TypeOK ==
    /\ status \in [Trade -> {"NONE", "WAIT", "PAID", "CLOSED"}]
    /\ paying \in [Trade -> BOOLEAN] /\ chan \in [Trade -> PayChannel]
    /\ age \in [Trade -> {"open", "late", "reopened"}]
    /\ packed \in [Trade -> BOOLEAN]
    /\ amount \in Int
    /\ blog \in [Trade -> [status : LogStatus \cup {"NONE"}, flow : Nat]]
    /\ coupon \in {"UNUSED", "PAST"} \cup WithCoupon
    /\ charge \in [Trade -> [ch : PayChannel \cup {"none"}, paid : BOOLEAN]]
    /\ cred \in [Trade -> SUBSET PayChannel] /\ gateway \in [Trade -> SUBSET PayChannel]
    /\ req \in [Web -> [at : Step, trade : Trade \cup {"none"}, ch : PayChannel,
                        fresh : BOOLEAN]]
    /\ \A w \in Web : req[w].at # "idle" => req[w].trade \in Trade
    /\ task \in [Trade -> {"none", "queued", "pack"}]
    /\ closer \subseteq Trade
    /\ carts \in BOOLEAN
    /\ crashes \in 0..MaxCrash

\* The order life cycle and the coupon are as TradePromise says.
Promise == INSTANCE TradePromise
KeepsPromise == Promise!Spec

\* What the audit counts of an order's record.
RecordEffect(t) ==
    IF blog[t].status = "NONE" THEN 0
    ELSE Delta(Effect("OUT", blog[t].status, blog[t].flow), "amount")

\* The balance is what the orders' records leave of it: no path takes a debit
\* twice, or confirms one that was given back without taking it again.
WalletConserved ==
    amount = StartAmount + SumFunctionOnSet([t \in Trade |-> RecordEffect(t)], Trade)

\* What an order has received from the wallet, and what covers its payment.
FromWallet(t) == IF blog[t].status = "CONFIRMED" THEN blog[t].flow ELSE 0
Funded(t) == FromWallet(t) + (IF gateway[t] # {} THEN Cash[t] ELSE 0) >= Payment(t)

\* An order that counts as paid was paid: what the wallet gave and what a
\* channel took cover the payment.
PaidIsFunded == \A t \in Trade : status[t] = "PAID" => Funded(t)

\* What makes PaidIsFunded inductive, when an order charged to the wallet is
\* never charged in part to a channel.  The record of an order is about the
\* wallet's part, and only a closed order has a cancelled one; a request that
\* is about to confirm, or to ask for a credential, has seen the record; so
\* has whoever issued the credential the customer paid with.
Owed(t) == IF "budget" \in Channel THEN Payment(t) ELSE Share[t]
Held(t) == Share[t] > 0 => blog[t].status # "NONE"

RecordsFit ==
    \A t \in Trade :
      /\ blog[t].status # "NONE" => blog[t].flow = Owed(t)
      /\ status[t] # "CLOSED" => blog[t].status # "CANCELED"
      /\ Share[t] = 0 => blog[t].status \in {"NONE", "CONFIRMED"}

Knows(w) ==
    /\ req[w].at \in {"status", "debit", "confirm"} => "budget" \in Channel
    /\ req[w].at = "confirm" => blog[req[w].trade].status # "NONE"
    /\ req[w].at = "charge" => Held(req[w].trade)
RequestsKnow == \A w \in Web : Knows(w)

ChannelsKnow ==
    \A t \in Trade :
      /\ cred[t] # {} => Held(t)
      /\ gateway[t] \subseteq cred[t]
      /\ charge[t].paid \/ task[t] # "none" => gateway[t] # {}

FundedInv == TypeOK /\ RecordsFit /\ RequestsKnow /\ ChannelsKnow /\ PaidIsFunded

\* Money that has arrived for a waiting order settles the order.
MoneySettles ==
    \A t \in Trade : status[t] = "WAIT" /\ gateway[t] # {} ~> status[t] # "WAIT"

\* An order not paid in time does not wait for ever.
LateIsSettled == \A t \in Trade : status[t] = "WAIT" /\ age[t] = "late" ~> status[t] # "WAIT"

\* A paid order gets its package items.
PaidIsPacked == \A t \in Trade : status[t] = "PAID" ~> packed[t]
=============================================================================
