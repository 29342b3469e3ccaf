------------------------------ MODULE Envelop -------------------------------
(***************************************************************************)
(* Paying a wallet cashout through WeChat: the Envelop row and BudgetLog   *)
(* record of each cashout, the WeixinRedEnvelope row a red packet is sent  *)
(* from, the WeixinTransfers row a transfer leaves, and what WeChat has    *)
(* really done.  Web requests, operators of the back office and celery     *)
(* tasks work on them at once; WeChat's answers may get lost.              *)
(***************************************************************************)
EXTENDS Naturals, FiniteSets

CONSTANTS
    Envelope,    \* the cashouts, one envelope each
    Transfer,    \* those paid as a transfer; the others are red packets
    Worker,      \* web workers: requests of customers and operators
    Syncer,      \* celery workers that ask WeChat how a red packet fares
    Cancels,     \* <<envelope, status>> in which operators cancel it
    Patient,     \* envelopes operators leave alone while one is being sent
    CrashAt      \* steps at which a worker may be killed

Status    == {"wait", "confirm", "fail", "cancel"}
RedStatus == {"UNSEND", "SENDING", "SENT", "FAILED", "RECEIVED", "RFUND_ING", "REFUND"}
Taken     == {"SENDING", "SENT", "RECEIVED"}   \* handled as sent
Undone    == {"FAILED", "REFUND"}              \* handled as not sent
AtWeChat  == {"none"} \cup (RedStatus \ {"UNSEND"})

ASSUME EnvelopAssumption ==
    /\ Transfer \subseteq Envelope /\ Patient \subseteq Envelope
    /\ Cancels \subseteq Envelope \X {"wait", "confirm", "fail"}
    /\ CrashAt \subseteq {"transfer", "look", "insert", "confirm"}

VARIABLES
    env,     \* Envelop: status, and whether envelop_id has been set
    log,     \* status of the cashout's BudgetLog record
    back,    \* how often its amount went back to the wallet
    red,     \* WeixinRedEnvelope.status, "none" without a row
    wt,      \* envelopes with a WeixinTransfers row
    wx,      \* the state of the payment at WeChat
    worker,  \* the send or cancel each web worker is in the middle of
    toSync,  \* red packets with a queued task_sync_weixin_red_envelope_by_id
    syncer   \* the sync each celery worker is in the middle of

vars == <<env, log, back, red, wt, wx, worker, toSync, syncer>>

Idle == [at |-> "idle"]

Job  == {Idle} \cup
        [at : {"transfer", "look", "insert", "return"}, e : Envelope] \cup
        [at : {"confirm", "handle"}, e : Envelope, st : RedStatus]
Sync == {Idle} \cup [at : {"query", "handle"}, e : Envelope, st : RedStatus]

TypeOK ==
    /\ env \in [Envelope -> [status : Status \cup {"none"}, billno : BOOLEAN]]
    /\ log \in [Envelope -> {"none", "PENDING", "CONFIRMED"}]
    /\ back \in [Envelope -> Nat]
    /\ red \in [Envelope -> RedStatus \cup {"none"}]
    /\ wt \subseteq Envelope
    /\ wx \in [Envelope -> AtWeChat]
    /\ worker \in [Worker -> Job]
    /\ toSync \subseteq Envelope
    /\ syncer \in [Syncer -> Sync]

Init ==
    /\ env = [e \in Envelope |-> [status |-> "none", billno |-> FALSE]]
    /\ log = [e \in Envelope |-> "none"]
    /\ back = [e \in Envelope |-> 0]
    /\ red = [e \in Envelope |-> "none"]
    /\ wt = {}
    /\ wx = [e \in Envelope |-> "none"]
    /\ worker = [w \in Worker |-> Idle]
    /\ toSync = {}
    /\ syncer = [y \in Syncer |-> Idle]

WorkerAt(w, step, e) == worker[w].at = step /\ worker[w].e = e
Serves(w, e)         == worker[w].at # "idle" /\ worker[w].e = e
Syncs(y, e)          == syncer[y].at # "idle" /\ syncer[y].e = e
BeingServed(e)       == \E w \in Worker : Serves(w, e)
LeftAlone(e)         == e \in Patient => ~BeingServed(e)

Becomes(w, job) == worker' = [worker EXCEPT ![w] = job]

\* Mutant: a red packet that WeChat took back is not returned.
Handle_NoRefund(e, st, mem) ==
    /\ env' = [env EXCEPT ![e] =
                 [billno |-> TRUE,
                  status |-> IF st \in Taken THEN "confirm"
                             ELSE IF st \in Undone THEN "fail" ELSE mem]]
    /\ log' = IF st \in Taken \cup Undone
              THEN [log EXCEPT ![e] = "CONFIRMED"] ELSE log
    /\ back' = IF st = "FAILED" THEN [back EXCEPT ![e] = @ + 1] ELSE back

(***************************************************************************)
(* Envelop.handle_envelop(redenvelope): st is the status the WeixinRed-    *)
(* Envelope object carries, mem the status the Envelop object carries.     *)
(***************************************************************************)
Handle(e, st, mem) ==
    /\ env' = [env EXCEPT ![e] =
                 [billno |-> TRUE,
                  status |-> IF st \in Taken THEN "confirm"
                             ELSE IF st \in Undone THEN "fail" ELSE mem]]
    /\ log' = IF st \in Taken \cup Undone
              THEN [log EXCEPT ![e] = "CONFIRMED"] ELSE log
    /\ back' = IF st \in Undone THEN [back EXCEPT ![e] = @ + 1] ELSE back

(***************************************************************************)
(* The request and the sending.                                            *)
(***************************************************************************)
SendStep(e) == [at |-> IF e \in Transfer THEN "transfer" ELSE "look", e |-> e]

\* UserBudget.action_budget_cashout: small amounts are sent by the request.
Request(w, e) ==
    /\ worker[w] = Idle /\ env[e].status = "none"
    /\ env' = [env EXCEPT ![e].status = "wait"]
    /\ log' = [log EXCEPT ![e] = "PENDING"]
    /\ \E job \in {SendStep(e), Idle} : Becomes(w, job)
    /\ UNCHANGED <<back, red, wt, wx, toSync, syncer>>

\* Mutant: a failed envelope, which the view selects too, is sent again.
Send_Again(w, e) ==
    /\ worker[w] = Idle /\ LeftAlone(e)
    /\ env[e].status \in {"wait", "fail"} /\ ~env[e].billno
    /\ Becomes(w, SendStep(e))
    /\ UNCHANGED <<env, log, back, red, wt, wx, toSync, syncer>>

\* EnvelopConfirmSendView.post, one envelope, up to the test in send_envelop.
Send(w, e) ==
    /\ worker[w] = Idle /\ LeftAlone(e)
    /\ env[e].status = "wait" /\ ~env[e].billno
    /\ Becomes(w, SendStep(e))
    /\ UNCHANGED <<env, log, back, red, wt, wx, toSync, syncer>>

\* transfers.transfer answered; WeixinTransfers.mch_billno is unique.
TransferPaid(w, e) ==
    /\ WorkerAt(w, "transfer", e) /\ e \notin wt
    /\ wx' = [wx EXCEPT ![e] = "RECEIVED"] /\ wt' = wt \cup {e}
    /\ env' = [env EXCEPT ![e] = [status |-> "confirm", billno |-> TRUE]]
    /\ log' = [log EXCEPT ![e] = "CONFIRMED"]
    /\ Becomes(w, Idle)
    /\ UNCHANGED <<back, red, toSync, syncer>>

TransferRefused(w, e) ==
    /\ WorkerAt(w, "transfer", e) /\ e \notin wt /\ wx[e] = "none"
    /\ wt' = wt \cup {e}
    /\ env' = [env EXCEPT ![e] = [status |-> "fail", billno |-> TRUE]]
    /\ Becomes(w, [at |-> "return", e |-> e])
    /\ UNCHANGED <<log, back, red, wx, toSync, syncer>>

\* The call or the row raises, and send_envelop only logs it: WeChat may
\* have paid when no answer came, and answers as before when asked again.
TransferRaises(w, e) ==
    /\ WorkerAt(w, "transfer", e)
    /\ \E paid \in (IF e \in wt THEN {wx[e]} ELSE {wx[e], "RECEIVED"}) :
          wx' = [wx EXCEPT ![e] = paid]
    /\ Becomes(w, Idle)
    /\ UNCHANGED <<env, log, back, red, wt, toSync, syncer>>

\* Mutant: the row is taken for granted.
LookUp_NoCheck(w, e) ==
    /\ WorkerAt(w, "look", e)
    /\ Becomes(w, [at |-> "confirm", e |-> e, st |-> red[e]])
    /\ UNCHANGED <<env, log, back, red, wt, wx, toSync, syncer>>

\* envelope.create: the row is looked up, and made when there is none.
LookUp(w, e) ==
    /\ WorkerAt(w, "look", e)
    /\ Becomes(w, IF red[e] = "none" THEN [at |-> "insert", e |-> e]
                  ELSE [at |-> "confirm", e |-> e, st |-> red[e]])
    /\ UNCHANGED <<env, log, back, red, wt, wx, toSync, syncer>>

Insert(w, e) ==
    /\ WorkerAt(w, "insert", e) /\ red[e] = "none"
    /\ red' = [red EXCEPT ![e] = "UNSEND"]
    /\ Becomes(w, [at |-> "confirm", e |-> e, st |-> "UNSEND"])
    /\ UNCHANGED <<env, log, back, wt, wx, toSync, syncer>>

\* No such WeiXinAccount, a database error, or mch_billno taken meanwhile.
InsertRaises(w, e) ==
    /\ WorkerAt(w, "insert", e)
    /\ env' = [env EXCEPT ![e] = [status |-> "fail", billno |-> FALSE]]
    /\ Becomes(w, [at |-> "return", e |-> e])
    /\ UNCHANGED <<log, back, red, wt, wx, toSync, syncer>>

ConfirmSend(w, e) ==
    /\ WorkerAt(w, "confirm", e)
    /\ env' = [env EXCEPT ![e] = [status |-> "confirm", billno |-> FALSE]]
    /\ Becomes(w, [at |-> "handle", e |-> e, st |-> worker[w].st])
    /\ UNCHANGED <<log, back, red, wt, wx, toSync, syncer>>

HandleCreated(w, e) ==
    /\ WorkerAt(w, "handle", e)
    /\ Handle(e, worker[w].st, "confirm")
    /\ Becomes(w, Idle)
    /\ UNCHANGED <<red, wt, wx, toSync, syncer>>

\* Envelop.refund_envelop, for a cashout from the wallet.
Return(w, e) ==
    /\ WorkerAt(w, "return", e)
    /\ log' = [log EXCEPT ![e] = "CONFIRMED"]
    /\ back' = [back EXCEPT ![e] = @ + 1]
    /\ Becomes(w, Idle)
    /\ UNCHANGED <<env, red, wt, wx, toSync, syncer>>

\* EnvelopAdmin.cancel_envelop_action and Envelop.cancel_envelop.
Cancel(w, e) ==
    /\ worker[w] = Idle /\ LeftAlone(e)
    /\ <<e, env[e].status>> \in Cancels /\ ~env[e].billno
    /\ env' = [env EXCEPT ![e].status = "cancel"]
    /\ Becomes(w, [at |-> "return", e |-> e])
    /\ UNCHANGED <<log, back, red, wt, wx, toSync, syncer>>

Crash(w) ==
    /\ worker[w].at \in CrashAt
    /\ Becomes(w, Idle)
    /\ UNCHANGED <<env, log, back, red, wt, wx, toSync, syncer>>

(***************************************************************************)
(* task_sent_weixin_red_envelope, queued when the row is made and started  *)
(* every hour for rows still UNSEND.  WeChat recognises a billno it has    *)
(* seen.  A refusal that leaves the row as it was is not a step.           *)
(***************************************************************************)
Reaches(e) == wx' = [wx EXCEPT ![e] = IF @ = "none" THEN "SENDING" ELSE @]

SendRed(e) ==
    /\ red[e] = "UNSEND"
    /\ Reaches(e)
    /\ red' = [red EXCEPT ![e] = "SENDING"]
    /\ toSync' = toSync \cup {e}
    /\ UNCHANGED <<env, log, back, wt, worker, syncer>>

SendRedUnanswered(e) ==
    /\ red[e] = "UNSEND"
    /\ Reaches(e)
    /\ UNCHANGED <<env, log, back, red, wt, worker, toSync, syncer>>

\* NO_AUTH: set_status_fail, one transaction; it is rolled back when no
\* envelope has the billno yet.
SendRedBlocked(e) ==
    /\ red[e] = "UNSEND" /\ wx[e] = "none" /\ env[e].billno
    /\ red' = [red EXCEPT ![e] = "FAILED"]
    /\ Handle(e, "FAILED", env[e].status)
    /\ UNCHANGED <<wt, wx, worker, toSync, syncer>>

(***************************************************************************)
(* task_sync_weixin_red_envelope_by_id, every hour for the rows below and  *)
(* once after each send.                                                   *)
(***************************************************************************)
\* Mutants: the hourly task forgets a status.
Watched_NotRefunding == {"SENDING", "SENT"}
Watched_NotSending   == {"SENT", "RFUND_ING"}

Watched == {"SENDING", "SENT", "RFUND_ING"}

StartSync(y, e) ==
    syncer' = [syncer EXCEPT ![y] = [at |-> "query", e |-> e, st |-> red[e]]]

SyncHourly(y, e) ==
    /\ syncer[y] = Idle /\ red[e] \in Watched
    /\ StartSync(y, e)
    /\ UNCHANGED <<env, log, back, red, wt, wx, worker, toSync>>

SyncQueued(y, e) ==
    /\ syncer[y] = Idle /\ e \in toSync
    /\ toSync' = toSync \ {e}
    /\ IF red[e] \in {"UNSEND", "FAILED"} THEN UNCHANGED syncer ELSE StartSync(y, e)
    /\ UNCHANGED <<env, log, back, red, wt, wx, worker>>

\* queryEnvelope: WeChat's answer, or an error that leaves the status alone;
\* the row is saved either way.
Query(y, st) ==
    LET e == syncer[y].e
    IN  /\ syncer[y].at = "query"
        /\ red' = [red EXCEPT ![e] = st]
        /\ syncer' = [syncer EXCEPT ![y] = [at |-> "handle", e |-> e, st |-> st]]
        /\ UNCHANGED <<env, log, back, wt, wx, worker, toSync>>

SyncAnswered(y) == syncer[y].at = "query" /\ Query(y, wx[syncer[y].e])

SyncRefused(y) == syncer[y].at = "query" /\ Query(y, syncer[y].st)

\* WeChat cannot be reached, or the celery worker is killed.
SyncLost(y) ==
    /\ syncer[y].at = "query"
    /\ syncer' = [syncer EXCEPT ![y] = Idle]
    /\ UNCHANGED <<env, log, back, red, wt, wx, worker, toSync>>

\* The task fails on a missing envelope when none has the billno yet.
SyncHandle(y) ==
    LET e == syncer[y].e
    IN  /\ syncer[y].at = "handle"
        /\ IF env[e].billno THEN Handle(e, syncer[y].st, env[e].status)
           ELSE UNCHANGED <<env, log, back>>
        /\ syncer' = [syncer EXCEPT ![y] = Idle]
        /\ UNCHANGED <<red, wt, wx, worker, toSync>>

(***************************************************************************)
(* What WeChat does with a red packet (external).  It settles one no       *)
(* earlier than the request that made it has ended, and takes it back a    *)
(* day later, when the hourly resend has long been answered and the queued *)
(* sync has been run.                                                      *)
(***************************************************************************)
WeChatMoves(e) ==
    /\ ~BeingServed(e)
    /\ \E next \in RedStatus :
          /\ \/ wx[e] = "SENDING" /\ next \in {"SENT", "FAILED"}
             \/ wx[e] = "SENT" /\ next = "RECEIVED"
             \/ /\ wx[e] = "SENT" /\ red[e] # "UNSEND" /\ e \notin toSync
                /\ next \in {"RFUND_ING", "REFUND"}
             \/ wx[e] = "RFUND_ING" /\ next = "REFUND"
          /\ wx' = [wx EXCEPT ![e] = next]
    /\ UNCHANGED <<env, log, back, red, wt, worker, toSync, syncer>>

Proceeds(w) == \E e \in Envelope :
    \/ TransferPaid(w, e) \/ TransferRefused(w, e) \/ TransferRaises(w, e)
    \/ LookUp(w, e) \/ Insert(w, e) \/ InsertRaises(w, e)
    \/ ConfirmSend(w, e) \/ HandleCreated(w, e) \/ Return(w, e)

Next ==
    \/ \E w \in Worker : \E e \in Envelope : Request(w, e) \/ Send(w, e) \/ Cancel(w, e)
    \/ \E w \in Worker : Proceeds(w) \/ Crash(w)
    \/ \E e \in Envelope :
          SendRed(e) \/ SendRedUnanswered(e) \/ SendRedBlocked(e) \/ WeChatMoves(e)
    \/ \E y \in Syncer : \E e \in Envelope : SyncHourly(y, e) \/ SyncQueued(y, e)
    \/ \E y \in Syncer :
          SyncAnswered(y) \/ SyncRefused(y) \/ SyncLost(y) \/ SyncHandle(y)

Spec == Init /\ [][Next]_vars

(***************************************************************************)
(* Requests run on once begun; the hourly task comes back to every row it  *)
(* watches, and a row it keeps sending or asking about is one day answered.*)
(***************************************************************************)
Fairness ==
    /\ \A w \in Worker : WF_vars(Proceeds(w))
    /\ \A e \in Envelope : SF_vars(SendRed(e) \/ SendRedBlocked(e))
    /\ \A y \in Syncer :
          /\ SF_vars(SyncAnswered(y))
          /\ WF_vars(SyncHandle(y))
          /\ WF_vars(SyncRefused(y) \/ SyncAnswered(y))
          /\ \A e \in Envelope : SF_vars(SyncHourly(y, e))

FairSpec == Spec /\ Fairness

(***************************************************************************)
(* Properties.                                                             *)
(***************************************************************************)

\* A customer has the money in hand or back in the wallet, never both, and
\* never back twice: send_envelop, cancel_envelop and the syncs together.
NeverBoth ==
    \A e \in Envelope : back[e] + (IF wx[e] = "RECEIVED" THEN 1 ELSE 0) <= 1

\* What makes NeverBoth inductive, under Careful.  A red packet is served by
\* one worker at a time, and the row it is sent from appears on the way.
Careful ==
    /\ Envelope \ Transfer \subseteq Patient
    /\ Cancels \subseteq (Envelope \ Transfer) \X {"wait"}
    /\ "confirm" \notin CrashAt
    /\ \A y, z \in Syncer : y = z

Row(e, statuses, billno) == env[e].status \in statuses /\ env[e].billno = billno

ServedWell(w, e) ==
    /\ worker[w].at = "transfer" => e \in Transfer
    /\ worker[w].at \in {"look", "insert"} =>
          e \notin Transfer /\ Row(e, {"wait"}, FALSE) /\ red[e] = "none" /\ back[e] = 0
    /\ worker[w].at \in {"confirm", "handle"} =>
          /\ e \notin Transfer /\ red[e] # "none" /\ back[e] = 0
          /\ worker[w].st = "UNSEND"
          /\ IF worker[w].at = "confirm" THEN Row(e, {"wait"}, FALSE) ELSE Row(e, {"confirm"}, FALSE)
    /\ worker[w].at = "return" =>
          /\ back[e] = 0
          /\ IF e \in Transfer
             THEN Row(e, {"fail"}, TRUE) /\ e \in wt /\ wx[e] = "none"
             ELSE Row(e, {"fail", "cancel"}, FALSE) /\ red[e] = "none"

Exclusive(e) ==
    \A w, v \in Worker :
        /\ Serves(w, e) /\ Serves(v, e)
        /\ e \in Transfer => worker[w].at = "return" /\ worker[v].at = "return"
        => w = v

\* A red packet nobody serves: not begun, sent, returned unsent, undone.
RestsWell(e) ==
    \/ Row(e, {"none", "wait"}, FALSE) /\ red[e] = "none" /\ back[e] = 0
    \/ Row(e, {"confirm"}, TRUE) /\ red[e] # "none" /\ back[e] = 0
    \/ Row(e, {"fail", "cancel"}, FALSE) /\ red[e] = "none" /\ back[e] = 1
    \/ Row(e, {"fail"}, TRUE) /\ red[e] \in Undone /\ back[e] = 1

\* Its row lags behind WeChat, and WeChat settles what nobody serves.
Follows(e) ==
    /\ red[e] = "none" => wx[e] = "none"
    /\ red[e] \in {"none", "UNSEND"} => e \notin toSync /\ wx[e] \notin {"RFUND_ING", "REFUND"}
    /\ red[e] \in {"SENDING", "SENT", "RECEIVED", "RFUND_ING", "REFUND"} => wx[e] # "none"
    /\ red[e] = "SENT" => wx[e] \notin {"SENDING", "FAILED"}
    /\ red[e] = "RFUND_ING" => wx[e] \in {"RFUND_ING", "REFUND"}
    /\ red[e] = "FAILED" => wx[e] \in {"none", "FAILED"}
    /\ red[e] \in {"RECEIVED", "REFUND"} => wx[e] = red[e]
    /\ wx[e] \notin {"none", "SENDING"} => env[e].billno /\ ~BeingServed(e)
    /\ wx[e] \in {"RFUND_ING", "REFUND"} => e \notin toSync

TransferFits(e) ==
    /\ red[e] = "none" /\ e \notin toSync
    /\ back[e] > 0 => back[e] = 1 /\ e \in wt /\ wx[e] = "none"

SyncedWell(y, e) ==
    /\ e \notin Transfer /\ red[e] = syncer[y].st /\ red[e] # "UNSEND" /\ back[e] = 0
    /\ red[e] \in Undone => syncer[y].at = "handle" /\ env[e].billno

Sound(e) ==
    /\ \A w \in Worker : Serves(w, e) => ServedWell(w, e)
    /\ Exclusive(e)
    /\ IF e \in Transfer THEN TransferFits(e)
       ELSE Follows(e) /\ (BeingServed(e) \/ RestsWell(e))
    /\ \A y \in Syncer : Syncs(y, e) => SyncedWell(y, e)

\* The inductive invariant: NeverBoth follows from it.
PayoutInv == TypeOK /\ \A e \in Envelope : Sound(e)

Quiet(e) ==
    /\ ~BeingServed(e)
    /\ \A y \in Syncer : ~Syncs(y, e)

\* When nobody works on an envelope its status tells whether its amount went
\* back: every path to FAIL and CANCEL returns it, and no other path does.
MoneyFollowsStatus ==
    \A e \in Envelope :
        Quiet(e) => (back[e] > 0 <=> env[e].status \in {"fail", "cancel"})

\* A red packet that failed at WeChat, or that WeChat took back, goes back
\* to the wallet: the hourly sync follows it until then.
UndoneReturns ==
    \A e \in Envelope : wx[e] \in Undone ~> back[e] > 0

\* The cashout of a red packet the customer opened is settled in the wallet,
\* whatever answers were lost on the way.
OpenedSettles ==
    \A e \in Envelope \ Transfer :
        wx[e] = "RECEIVED" ~> log[e] = "CONFIRMED" /\ env[e].status = "confirm"

\* cancel_envelop: "只有待发放状态可以取消红包", only an envelope waiting to
\* be sent can be cancelled: one that was neither sent nor returned before.
CancelledWasWaiting ==
    \A e \in Envelope :
        env[e].status = "cancel" => back[e] <= 1 /\ wx[e] = "none"

=============================================================================
