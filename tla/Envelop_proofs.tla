--------------------------- MODULE Envelop_proofs ---------------------------
(***************************************************************************)
(* Proofs about Envelop: types, and that careful operators and one sync at *)
(* a time pay a cashout at most once, to the customer or to the wallet.    *)
(***************************************************************************)
EXTENDS Envelop, TLAPS

\* A job is idle or about an envelope.
LEMMA JobShape ==
    ASSUME TypeOK
    PROVE  /\ \A w \in Worker :
                /\ worker[w] \in Job
                /\ worker[w] = Idle <=> worker[w].at = "idle"
                /\ worker[w].at # "idle" => worker[w].e \in Envelope
                /\ worker[w].at \in {"confirm", "handle"} => worker[w].st \in RedStatus
           /\ \A y \in Syncer :
                /\ syncer[y] \in Sync
                /\ syncer[y] = Idle <=> syncer[y].at = "idle"
                /\ syncer[y].at # "idle" =>
                     syncer[y].e \in Envelope /\ syncer[y].st \in RedStatus
BY DEF TypeOK, Job, Sync, Idle

\* What a worker does to its job keeps the type of the jobs.
LEMMA JobTypes ==
    ASSUME NEW e \in Envelope, NEW st \in RedStatus
    PROVE  /\ Idle \in Job /\ Idle \in Sync
           /\ SendStep(e) \in Job
           /\ \A a \in {"transfer", "look", "insert", "return"} : [at |-> a, e |-> e] \in Job
           /\ \A a \in {"confirm", "handle"} : [at |-> a, e |-> e, st |-> st] \in Job
           /\ \A a \in {"query", "handle"} : [at |-> a, e |-> e, st |-> st] \in Sync
BY DEF Job, Sync, Idle, SendStep

\* handle_envelop keeps the types of the rows it writes.
LEMMA HandleTypes ==
    ASSUME TypeOK, NEW e \in Envelope, NEW st, NEW mem \in Status \cup {"none"},
           Handle(e, st, mem)
    PROVE  /\ env' \in [Envelope -> [status : Status \cup {"none"}, billno : BOOLEAN]]
           /\ log' \in [Envelope -> {"none", "PENDING", "CONFIRMED"}]
           /\ back' \in [Envelope -> Nat]
BY DEF TypeOK, Handle, Status

\* What WeChat is asked about has reached it.
Lagging == {"SENDING", "SENT", "RECEIVED", "RFUND_ING", "REFUND"}

SentInv ==
    /\ \A e \in Envelope : red[e] \in Lagging => wx[e] # "none"
    /\ \A e \in toSync : red[e] \notin {"none", "UNSEND"}
    /\ \A y \in Syncer :
          syncer[y].at = "query" => syncer[y].st \in Lagging /\ wx[syncer[y].e] # "none"

LEMMA TypeStep == ASSUME TypeOK, SentInv, [Next]_vars PROVE TypeOK'
<1>0. /\ \A w \in Worker : /\ worker[w] \in Job
                           /\ worker[w].at # "idle" => worker[w].e \in Envelope
                           /\ worker[w].at \in {"confirm", "handle"} => worker[w].st \in RedStatus
      /\ \A y \in Syncer : /\ syncer[y] \in Sync
                           /\ syncer[y].at # "idle" =>
                                syncer[y].e \in Envelope /\ syncer[y].st \in RedStatus
  BY JobShape
<1>1. ASSUME NEW w \in Worker, NEW e \in Envelope, Request(w, e) PROVE TypeOK'
  <2>1. SendStep(e) \in Job /\ Idle \in Job
    BY JobTypes DEF RedStatus
  <2>2. PICK job \in {SendStep(e), Idle} : worker' = [worker EXCEPT ![w] = job]
    BY <1>1 DEF Request, Becomes
  <2> QED BY <2>1, <2>2, <1>1 DEF TypeOK, Request, Status
<1>2. ASSUME NEW w \in Worker, NEW e \in Envelope, Send(w, e) PROVE TypeOK'
  BY <1>2, JobTypes DEF TypeOK, Send, Becomes, RedStatus
<1>3. ASSUME NEW w \in Worker, NEW e \in Envelope, Cancel(w, e) PROVE TypeOK'
  BY <1>3, JobTypes DEF TypeOK, Cancel, Becomes, Status, RedStatus
<1>4. ASSUME NEW w \in Worker, NEW e \in Envelope, TransferPaid(w, e) PROVE TypeOK'
  BY <1>4, JobTypes DEF TypeOK, TransferPaid, Becomes, Status, RedStatus, AtWeChat
<1>5. ASSUME NEW w \in Worker, NEW e \in Envelope, TransferRefused(w, e) PROVE TypeOK'
  BY <1>5, JobTypes DEF TypeOK, TransferRefused, Becomes, Status, RedStatus
<1>6. ASSUME NEW w \in Worker, NEW e \in Envelope, TransferRaises(w, e) PROVE TypeOK'
  <2>1. PICK paid \in {wx[e], "RECEIVED"} : wx' = [wx EXCEPT ![e] = paid]
    BY <1>6 DEF TransferRaises
  <2>2. paid \in AtWeChat /\ wx' \in [Envelope -> AtWeChat]
    BY <2>1 DEF TypeOK, AtWeChat, RedStatus
  <2>3. worker' \in [Worker -> Job]
    BY <1>6, JobTypes DEF TypeOK, TransferRaises, Becomes, RedStatus
  <2> QED BY <1>6, <2>2, <2>3 DEF TypeOK, TransferRaises
<1>7. ASSUME NEW w \in Worker, NEW e \in Envelope, LookUp(w, e) PROVE TypeOK'
  BY <1>7, JobTypes DEF TypeOK, LookUp, Becomes, RedStatus
<1>8. ASSUME NEW w \in Worker, NEW e \in Envelope, Insert(w, e) PROVE TypeOK'
  BY <1>8, JobTypes DEF TypeOK, Insert, Becomes, RedStatus
<1>9. ASSUME NEW w \in Worker, NEW e \in Envelope, InsertRaises(w, e) PROVE TypeOK'
  BY <1>9, JobTypes DEF TypeOK, InsertRaises, Becomes, Status, RedStatus
<1>10. ASSUME NEW w \in Worker, NEW e \in Envelope, ConfirmSend(w, e) PROVE TypeOK'
  <2>1. [at |-> "handle", e |-> e, st |-> worker[w].st] \in Job
    BY <1>0, <1>10, JobTypes DEF ConfirmSend, WorkerAt
  <2> QED BY <2>1, <1>10 DEF TypeOK, ConfirmSend, Becomes, Status
<1>11. ASSUME NEW w \in Worker, NEW e \in Envelope, HandleCreated(w, e) PROVE TypeOK'
  <2>1. Handle(e, worker[w].st, "confirm") /\ "confirm" \in Status \cup {"none"}
    BY <1>11 DEF HandleCreated, Status
  <2> QED BY <2>1, HandleTypes, <1>11, JobTypes DEF TypeOK, HandleCreated, Becomes, RedStatus
<1>12. ASSUME NEW w \in Worker, NEW e \in Envelope, Return(w, e) PROVE TypeOK'
  <2>1. Idle \in Job
    BY DEF Job
  <2> QED BY <2>1, <1>12 DEF TypeOK, Return, Becomes
<1>13. ASSUME NEW w \in Worker, Crash(w) PROVE TypeOK'
  BY <1>13 DEF TypeOK, Crash, Becomes, Job
<1>14. ASSUME NEW e \in Envelope, SendRed(e) PROVE TypeOK'
  BY <1>14 DEF TypeOK, SendRed, Reaches, RedStatus, AtWeChat
<1>15. ASSUME NEW e \in Envelope, SendRedUnanswered(e) PROVE TypeOK'
  BY <1>15 DEF TypeOK, SendRedUnanswered, Reaches, RedStatus, AtWeChat
<1>16. ASSUME NEW e \in Envelope, SendRedBlocked(e) PROVE TypeOK'
  <2>1. Handle(e, "FAILED", env[e].status) /\ env[e].status \in Status \cup {"none"}
    BY <1>16 DEF SendRedBlocked, TypeOK
  <2> QED BY <2>1, HandleTypes, <1>16 DEF TypeOK, SendRedBlocked, RedStatus
<1>17. ASSUME NEW e \in Envelope, WeChatMoves(e) PROVE TypeOK'
  BY <1>17 DEF TypeOK, WeChatMoves, RedStatus, AtWeChat
<1>18. ASSUME NEW y \in Syncer, NEW e \in Envelope, SyncHourly(y, e) PROVE TypeOK'
  BY <1>18, JobTypes DEF TypeOK, SyncHourly, StartSync, Watched, RedStatus
<1>19. ASSUME NEW y \in Syncer, NEW e \in Envelope, SyncQueued(y, e) PROVE TypeOK'
  <2>1. red[e] \in RedStatus
    BY <1>19 DEF SyncQueued, SentInv, TypeOK
  <2> QED BY <2>1, <1>19, JobTypes DEF TypeOK, SyncQueued, StartSync
<1>20. ASSUME NEW y \in Syncer, SyncAnswered(y) \/ SyncRefused(y) PROVE TypeOK'
  <2>1. PICK st \in RedStatus : Query(y, st)
    BY <1>0, <1>20 DEF SyncAnswered, SyncRefused, SentInv, TypeOK, AtWeChat
  <2>2. syncer[y].e \in Envelope /\ wx[syncer[y].e] \in AtWeChat
    BY <1>0, <2>1 DEF Query, TypeOK
  <2> QED BY <2>1, <2>2, JobTypes DEF TypeOK, Query
<1>21. ASSUME NEW y \in Syncer, SyncLost(y) PROVE TypeOK'
  BY <1>21 DEF TypeOK, SyncLost, Sync
<1>22. ASSUME NEW y \in Syncer, SyncHandle(y) PROVE TypeOK'
  <2>1. CASE env[syncer[y].e].billno
    <3>1. /\ Handle(syncer[y].e, syncer[y].st, env[syncer[y].e].status)
          /\ syncer[y].e \in Envelope
          /\ env[syncer[y].e].status \in Status \cup {"none"}
      BY <1>0, <1>22, <2>1 DEF SyncHandle, TypeOK
    <3> QED BY <3>1, HandleTypes, <1>22 DEF TypeOK, SyncHandle, Sync
  <2>2. CASE ~env[syncer[y].e].billno
    BY <2>2, <1>22 DEF TypeOK, SyncHandle, Sync
  <2> QED BY <2>1, <2>2
<1>23. CASE UNCHANGED vars
  BY <1>23 DEF vars, TypeOK
<1> QED
  BY <1>1, <1>2, <1>3, <1>4, <1>5, <1>6, <1>7, <1>8, <1>9, <1>10, <1>11, <1>12, <1>13,
     <1>14, <1>15, <1>16, <1>17, <1>18, <1>19, <1>20, <1>21, <1>22, <1>23 DEF Next, Proceeds

LEMMA SentStep == ASSUME TypeOK, SentInv, [Next]_vars PROVE SentInv'
<1>0. /\ \A w \in Worker : worker[w].at # "idle" => worker[w].e \in Envelope
      /\ \A y \in Syncer : syncer[y].at # "idle" => syncer[y].e \in Envelope
  BY JobShape
<1>1. ASSUME UNCHANGED <<red, toSync, syncer>>,
             \A e \in Envelope : wx[e] # "none" => wx'[e] # "none"
      PROVE  SentInv'
  BY <1>0, <1>1 DEF SentInv
<1>2. ASSUME NEW w \in Worker, NEW e \in Envelope,
             \/ Request(w, e) \/ Send(w, e) \/ Cancel(w, e)
             \/ TransferRefused(w, e) \/ LookUp(w, e) \/ InsertRaises(w, e)
             \/ ConfirmSend(w, e) \/ HandleCreated(w, e) \/ Return(w, e)
      PROVE  SentInv'
  BY <1>1, <1>2 DEF Request, Send, Cancel, TransferRefused, LookUp, InsertRaises,
     ConfirmSend, HandleCreated, Return
<1>3. ASSUME NEW w \in Worker, NEW e \in Envelope, TransferPaid(w, e) \/ TransferRaises(w, e)
      PROVE  SentInv'
  BY <1>1, <1>3 DEF TransferPaid, TransferRaises, TypeOK
<1>4. ASSUME NEW w \in Worker, NEW e \in Envelope, Insert(w, e) PROVE SentInv'
  BY <1>0, <1>4 DEF Insert, SentInv, TypeOK, Lagging
<1>5. ASSUME NEW e \in Envelope, SendRed(e) PROVE SentInv'
  BY <1>0, <1>5 DEF SendRed, Reaches, SentInv, TypeOK, Lagging
<1>6. ASSUME NEW e \in Envelope, SendRedUnanswered(e) \/ WeChatMoves(e) PROVE SentInv'
  BY <1>1, <1>6 DEF SendRedUnanswered, Reaches, WeChatMoves, TypeOK, RedStatus
<1>7. ASSUME NEW e \in Envelope, SendRedBlocked(e) PROVE SentInv'
  BY <1>0, <1>7 DEF SendRedBlocked, SentInv, TypeOK, Lagging
<1>8. ASSUME NEW y \in Syncer, NEW e \in Envelope, SyncHourly(y, e) \/ SyncQueued(y, e)
      PROVE  SentInv'
  BY <1>0, <1>8 DEF SyncHourly, SyncQueued, StartSync, Watched, SentInv, TypeOK, Lagging, RedStatus
<1>9. ASSUME NEW y \in Syncer, SyncAnswered(y) \/ SyncRefused(y) PROVE SentInv'
  <2>1. PICK st : Query(y, st) /\ st \notin {"none", "UNSEND"}
    BY <1>0, <1>9 DEF SyncAnswered, SyncRefused, SentInv, TypeOK, AtWeChat, RedStatus, Lagging
  <2> QED BY <1>0, <2>1 DEF Query, SentInv, TypeOK
<1>10. ASSUME NEW y \in Syncer, SyncLost(y) \/ SyncHandle(y) PROVE SentInv'
  BY <1>0, <1>10 DEF SyncLost, SyncHandle, SentInv, TypeOK, Idle
<1>11. ASSUME NEW w \in Worker, Crash(w) PROVE SentInv'
  BY <1>1, <1>11 DEF Crash
<1>12. CASE UNCHANGED vars
  BY <1>12 DEF vars, SentInv
<1> QED
  BY <1>2, <1>3, <1>4, <1>5, <1>6, <1>7, <1>8, <1>9, <1>10, <1>12, <1>11 DEF Next, Proceeds

\* Rows, records and processes keep their types, whatever operators cancel,
\* wherever workers die and however many there are.
THEOREM EnvelopTypes == Spec => []TypeOK
<1>1. Init => TypeOK /\ SentInv
  BY DEF Init, TypeOK, SentInv, Job, Sync, Idle, AtWeChat, Lagging
<1>2. TypeOK /\ SentInv /\ [Next]_vars => (TypeOK /\ SentInv)'
  BY TypeStep, SentStep
<1> QED BY <1>1, <1>2, PTL DEF Spec

-----------------------------------------------------------------------------
\* A step is about one envelope: Same(f) says that it is not about f.
Same(f) ==
    /\ env'[f] = env[f] /\ back'[f] = back[f] /\ red'[f] = red[f] /\ wx'[f] = wx[f]
    /\ f \in wt' <=> f \in wt
    /\ f \in toSync' <=> f \in toSync
    /\ \A w \in Worker : worker'[w] = worker[w] \/ (~Serves(w, f) /\ ~Serves(w, f)')
    /\ \A y \in Syncer : syncer'[y] = syncer[y] \/ (~Syncs(y, f) /\ ~Syncs(y, f)')

LEMMA SameIsSound == ASSUME NEW f \in Envelope, Sound(f), Same(f) PROVE Sound(f)'
<1>1. \A w \in Worker : Serves(w, f)' => Serves(w, f) /\ worker'[w] = worker[w]
  BY DEF Same, Serves
<1>2. \A w \in Worker : Serves(w, f) => Serves(w, f)' /\ worker'[w] = worker[w]
  BY DEF Same, Serves
<1>3. \A w \in Worker : Serves(w, f)' => ServedWell(w, f)'
  BY <1>1 DEF Same, Sound, ServedWell, Row
<1>4. Exclusive(f)'
  BY <1>1 DEF Sound, Exclusive
<1>5. BeingServed(f)' <=> BeingServed(f)
  BY <1>1, <1>2 DEF BeingServed
<1>6. IF f \in Transfer THEN TransferFits(f)'
      ELSE Follows(f)' /\ (BeingServed(f)' \/ RestsWell(f)')
  BY <1>5 DEF Same, Sound, TransferFits, Follows, RestsWell, Row
<1>7. \A y \in Syncer : Syncs(y, f)' => SyncedWell(y, f)'
  BY DEF Same, Sound, SyncedWell, Syncs
<1> QED BY <1>3, <1>4, <1>6, <1>7 DEF Sound

\* What a worker does to an envelope leaves the others alone.
LEMMA WorkerSame ==
    ASSUME TypeOK, NEW w \in Worker, NEW e \in Envelope, NEW f \in Envelope \ {e},
           \/ Request(w, e) \/ Send(w, e) \/ Cancel(w, e) \/ TransferPaid(w, e)
           \/ TransferRefused(w, e) \/ TransferRaises(w, e) \/ LookUp(w, e) \/ Insert(w, e)
           \/ InsertRaises(w, e) \/ ConfirmSend(w, e) \/ HandleCreated(w, e) \/ Return(w, e)
    PROVE  Same(f)
<1>1. CASE Request(w, e)
  BY <1>1 DEF TypeOK, Request, SendStep, Becomes, Idle, Same, Serves, Syncs
<1>2. CASE Send(w, e)
  BY <1>2 DEF TypeOK, Send, LeftAlone, SendStep, Becomes, Idle, Same, Serves, Syncs
<1>3. CASE Cancel(w, e)
  BY <1>3 DEF TypeOK, Cancel, LeftAlone, Becomes, Idle, Same, Serves, Syncs
<1>4. CASE TransferPaid(w, e)
  BY <1>4 DEF TypeOK, TransferPaid, WorkerAt, Becomes, Idle, Same, Serves, Syncs
<1>5. CASE TransferRefused(w, e)
  BY <1>5 DEF TypeOK, TransferRefused, WorkerAt, Becomes, Idle, Same, Serves, Syncs
<1>6. CASE TransferRaises(w, e)
  BY <1>6 DEF TypeOK, TransferRaises, WorkerAt, Becomes, Idle, Same, Serves, Syncs
<1>7. CASE LookUp(w, e)
  BY <1>7 DEF TypeOK, LookUp, WorkerAt, Becomes, Idle, Same, Serves, Syncs
<1>8. CASE Insert(w, e)
  BY <1>8 DEF TypeOK, Insert, WorkerAt, Becomes, Idle, Same, Serves, Syncs
<1>9. CASE InsertRaises(w, e)
  BY <1>9 DEF TypeOK, InsertRaises, WorkerAt, Becomes, Idle, Same, Serves, Syncs
<1>10. CASE ConfirmSend(w, e)
  BY <1>10 DEF TypeOK, ConfirmSend, WorkerAt, Becomes, Idle, Same, Serves, Syncs
<1>11. CASE HandleCreated(w, e)
  BY <1>11 DEF TypeOK, HandleCreated, WorkerAt, Handle, Becomes, Idle, Same, Serves, Syncs
<1>12. CASE Return(w, e)
  BY <1>12 DEF TypeOK, Return, WorkerAt, Becomes, Idle, Same, Serves, Syncs
<1> QED BY <1>1, <1>2, <1>3, <1>4, <1>5, <1>6, <1>7, <1>8, <1>9, <1>10, <1>11, <1>12

\* The other steps: sending red packets and what WeChat does, then the syncs.
LEMMA SendSame ==
    ASSUME TypeOK, NEW e \in Envelope, NEW f \in Envelope \ {e},
           SendRed(e) \/ SendRedUnanswered(e) \/ SendRedBlocked(e) \/ WeChatMoves(e)
    PROVE  Same(f)
<1>1. CASE SendRed(e)
  BY <1>1 DEF TypeOK, SendRed, Reaches, Same
<1>2. CASE SendRedUnanswered(e)
  BY <1>2 DEF TypeOK, SendRedUnanswered, Reaches, Same
<1>3. CASE SendRedBlocked(e)
  BY <1>3 DEF TypeOK, SendRedBlocked, Handle, Same
<1>4. CASE WeChatMoves(e)
  BY <1>4 DEF TypeOK, WeChatMoves, Same
<1> QED BY <1>1, <1>2, <1>3, <1>4

LEMMA SyncSame ==
    ASSUME TypeOK, NEW e \in Envelope, NEW f \in Envelope \ {e}, NEW y \in Syncer,
           \/ SyncHourly(y, e) \/ SyncQueued(y, e)
           \/ /\ syncer[y].e = e
              /\ SyncAnswered(y) \/ SyncRefused(y) \/ SyncHandle(y) \/ SyncLost(y)
    PROVE  Same(f)
<1>1. CASE SyncHourly(y, e)
  BY <1>1 DEF TypeOK, SyncHourly, StartSync, Idle, Same, Syncs
<1>2. CASE SyncQueued(y, e)
  BY <1>2 DEF TypeOK, SyncQueued, StartSync, Idle, Same, Syncs
<1>3. CASE syncer[y].e = e /\ (SyncAnswered(y) \/ SyncRefused(y))
  BY <1>3 DEF TypeOK, SyncAnswered, SyncRefused, Query, Same, Syncs
<1>4. CASE syncer[y].e = e /\ SyncHandle(y)
  BY <1>4 DEF TypeOK, SyncHandle, Handle, Idle, Same, Syncs
<1>5. CASE syncer[y].e = e /\ SyncLost(y)
  BY <1>5 DEF TypeOK, SyncLost, Idle, Same, Syncs
<1> QED BY <1>1, <1>2, <1>3, <1>4, <1>5

\* A red packet is in the hands of w alone when w has taken it up, or may.
Alone(w, e) == \A v \in Worker \ {w} : ~Serves(v, e)

LEMMA RedAlone ==
    ASSUME Careful, TypeOK, NEW w \in Worker, NEW e \in Envelope \ Transfer, Sound(e),
           \/ Serves(w, e) \/ Request(w, e) \/ Send(w, e) \/ Cancel(w, e)
    PROVE  Alone(w, e)
<1>1. CASE Serves(w, e)
  BY <1>1 DEF Sound, Exclusive, Alone
<1>2. CASE Request(w, e)
  BY <1>2, JobShape DEF Sound, ServedWell, Row, Alone, Request, Serves, Job, Idle
<1>3. CASE Send(w, e) \/ Cancel(w, e)
  BY <1>3 DEF Send, Cancel, LeftAlone, BeingServed, Careful, Alone
<1> QED BY <1>1, <1>2, <1>3

\* What is left to show of a step of w on a red packet.
LEMMA RedStep ==
    ASSUME TypeOK, NEW w \in Worker, NEW e \in Envelope \ Transfer, Sound(e), Alone(w, e),
           NEW job, Becomes(w, job),
           Serves(w, e)' => ServedWell(w, e)',
           Serves(w, e)' \/ RestsWell(e)',
           Follows(e)',
           \A y \in Syncer : Syncs(y, e)' => SyncedWell(y, e)'
    PROVE  Sound(e)'
<1>1. \A v \in Worker \ {w} : ~Serves(v, e)'
  BY DEF Alone, Becomes, TypeOK, Serves
<1>2. \A v \in Worker : Serves(v, e)' => ServedWell(v, e)'
  BY <1>1
<1>3. Exclusive(e)'
  BY <1>1 DEF Exclusive
<1>4. BeingServed(e)' <=> Serves(w, e)'
  BY <1>1 DEF BeingServed
<1> QED BY <1>2, <1>3, <1>4 DEF Sound

\* Steps on red packets.
LEMMA RequestRed ==
    ASSUME Careful, TypeOK, NEW w \in Worker, NEW e \in Envelope \ Transfer, Sound(e),
           Request(w, e) \/ Send(w, e) \/ Cancel(w, e)
    PROVE  Sound(e)'
<1>1. Alone(w, e) /\ ~Serves(w, e)
  BY RedAlone DEF Request, Send, Cancel, Idle, Serves
<1>2. ~BeingServed(e) /\ RestsWell(e) /\ Follows(e) /\ Row(e, {"none", "wait"}, FALSE)
  <2>1. ~BeingServed(e)
    BY <1>1 DEF Alone, BeingServed
  <2>2. RestsWell(e) /\ Follows(e)
    BY <2>1 DEF Sound
  <2>3. env[e].status \in {"none", "wait"}
    BY DEF Request, Send, Cancel, Careful
  <2> QED BY <2>1, <2>2, <2>3 DEF RestsWell, Row
<1>3. red[e] = "none" /\ back[e] = 0 /\ wx[e] = "none"
  BY <1>2 DEF RestsWell, Row, Follows
<1>4. \A y \in Syncer : ~Syncs(y, e)
  BY <1>3, JobShape DEF Sound, SyncedWell, Syncs, RedStatus
<1>5. CASE Request(w, e)
  <2>1. PICK job \in {SendStep(e), Idle} : Becomes(w, job)
    BY <1>5 DEF Request
  <2>2. Row(e, {"wait"}, FALSE)' /\ red'[e] = "none" /\ back'[e] = 0 /\ wx'[e] = "none"
    BY <1>2, <1>3, <1>5 DEF Request, TypeOK, Row
  <2>3. Follows(e)'
    BY <2>2, <1>2, <1>5 DEF Request, Follows
  <2>4. Serves(w, e)' => ServedWell(w, e)'
    <3>1. worker'[w] = [at |-> "look", e |-> e] \/ worker'[w] = [at |-> "idle"]
      BY <2>1 DEF Becomes, TypeOK, SendStep, Idle
    <3> QED BY <3>1, <2>2 DEF Serves, ServedWell, Row
  <2>5. RestsWell(e)'
    BY <2>2 DEF RestsWell, Row
  <2>6. \A y \in Syncer : ~Syncs(y, e)'
    BY <1>4, <1>5 DEF Request, Syncs
  <2> QED BY <1>1, <2>1, <2>3, <2>4, <2>5, <2>6, RedStep
<1>6. CASE Send(w, e)
  <2>1. Becomes(w, SendStep(e)) /\ UNCHANGED <<env, log, back, red, wt, wx, toSync, syncer>>
    BY <1>6 DEF Send
  <2>2. Row(e, {"wait"}, FALSE)' /\ red'[e] = "none" /\ back'[e] = 0 /\ wx'[e] = "none"
    BY <1>3, <1>6, <2>1 DEF Send, Row
  <2>3. Follows(e)'
    BY <2>1, <2>2, <1>2 DEF Follows
  <2>4. Serves(w, e)' => ServedWell(w, e)'
    BY <2>1, <2>2 DEF Becomes, TypeOK, SendStep, Serves, ServedWell
  <2>5. RestsWell(e)'
    BY <2>2 DEF RestsWell, Row
  <2>6. \A y \in Syncer : ~Syncs(y, e)'
    BY <1>4, <2>1 DEF Syncs
  <2> QED BY <1>1, <2>1, <2>3, <2>4, <2>5, <2>6, RedStep
<1>7. CASE Cancel(w, e)
  <2>1. Becomes(w, [at |-> "return", e |-> e]) /\ UNCHANGED <<log, back, red, wt, wx, toSync, syncer>>
    BY <1>7 DEF Cancel
  <2>2. Row(e, {"cancel"}, FALSE)' /\ red'[e] = "none" /\ back'[e] = 0 /\ wx'[e] = "none"
    BY <1>3, <1>7, <2>1 DEF Cancel, Row, TypeOK
  <2>3. Follows(e)'
    BY <2>1, <2>2, <1>2 DEF Follows
  <2>4. Serves(w, e)' /\ ServedWell(w, e)'
    BY <2>1, <2>2 DEF Becomes, TypeOK, Serves, ServedWell, Row
  <2>6. \A y \in Syncer : ~Syncs(y, e)'
    BY <1>4, <2>1 DEF Syncs
  <2> QED BY <1>1, <2>1, <2>3, <2>4, <2>6, RedStep
<1> QED BY <1>5, <1>6, <1>7

\* Serving a red packet: the row of WeixinRedEnvelope is looked up and made.
LEMMA CreateRed ==
    ASSUME Careful, TypeOK, NEW w \in Worker, NEW e \in Envelope \ Transfer, Sound(e),
           LookUp(w, e) \/ Insert(w, e) \/ InsertRaises(w, e)
    PROVE  Sound(e)'
<1>1. Serves(w, e) /\ BeingServed(e) /\ Alone(w, e)
  BY RedAlone DEF LookUp, Insert, InsertRaises, WorkerAt, Serves, BeingServed
<1>2. /\ Row(e, {"wait"}, FALSE) /\ red[e] = "none" /\ back[e] = 0
      /\ wx[e] = "none" /\ e \notin toSync /\ Follows(e)
  BY <1>1 DEF Sound, ServedWell, LookUp, Insert, InsertRaises, WorkerAt, Follows
<1>3. \A y \in Syncer : ~Syncs(y, e)
  BY <1>2, JobShape DEF Sound, SyncedWell, Syncs, RedStatus
<1>4. UNCHANGED <<back, wx, toSync, syncer>>
  BY DEF LookUp, Insert, InsertRaises
<1>5. \A y \in Syncer : ~Syncs(y, e)'
  BY <1>3, <1>4 DEF Syncs
<1>6. CASE LookUp(w, e)
  <2>1. Becomes(w, [at |-> "insert", e |-> e]) /\ UNCHANGED <<env, red>>
    BY <1>2, <1>6 DEF LookUp
  <2>2. Serves(w, e)' /\ ServedWell(w, e)'
    BY <1>2, <1>4, <2>1 DEF Becomes, TypeOK, Serves, ServedWell, Row
  <2>3. Follows(e)'
    BY <1>2, <1>4, <2>1 DEF Follows
  <2> QED BY <1>1, <1>5, <2>1, <2>2, <2>3, RedStep
<1>7. CASE Insert(w, e)
  <2>1. /\ Becomes(w, [at |-> "confirm", e |-> e, st |-> "UNSEND"]) /\ UNCHANGED env
        /\ red'[e] = "UNSEND"
    BY <1>7 DEF Insert, TypeOK
  <2>2. Serves(w, e)' /\ ServedWell(w, e)'
    BY <1>2, <1>4, <2>1 DEF Becomes, TypeOK, Serves, ServedWell, Row
  <2>3. Follows(e)'
    BY <1>2, <1>4, <2>1 DEF Follows
  <2> QED BY <1>1, <1>5, <2>1, <2>2, <2>3, RedStep
<1>8. CASE InsertRaises(w, e)
  <2>1. /\ Becomes(w, [at |-> "return", e |-> e]) /\ UNCHANGED red
        /\ Row(e, {"fail"}, FALSE)'
    BY <1>8 DEF InsertRaises, TypeOK, Row
  <2>2. Serves(w, e)' /\ ServedWell(w, e)'
    BY <1>2, <1>4, <2>1 DEF Becomes, TypeOK, Serves, ServedWell, Row
  <2>3. Follows(e)'
    BY <1>2, <1>4, <2>1 DEF Follows
  <2> QED BY <1>1, <1>5, <2>1, <2>2, <2>3, RedStep
<1> QED BY <1>6, <1>7, <1>8

\* The status is saved, then the row that was just made is handled.
LEMMA ConfirmRed ==
    ASSUME Careful, TypeOK, NEW w \in Worker, NEW e \in Envelope \ Transfer, Sound(e),
           ConfirmSend(w, e) \/ HandleCreated(w, e)
    PROVE  Sound(e)'
<1>1. Serves(w, e) /\ BeingServed(e) /\ Alone(w, e)
  BY RedAlone DEF ConfirmSend, HandleCreated, WorkerAt, Serves, BeingServed
<1>2. /\ red[e] # "none" /\ back[e] = 0 /\ worker[w].st = "UNSEND" /\ Follows(e)
      /\ ~env[e].billno /\ wx[e] \in {"none", "SENDING"}
  BY <1>1 DEF Sound, ServedWell, ConfirmSend, HandleCreated, WorkerAt, Follows, Row
<1>3. UNCHANGED <<red, wx, toSync, syncer>> /\ back'[e] = 0
  BY <1>2 DEF ConfirmSend, HandleCreated, Handle, Undone
<1>4. \A y \in Syncer : Syncs(y, e)' => SyncedWell(y, e)'
  BY <1>2, <1>3 DEF Syncs, SyncedWell, Sound, Undone
<1>5. Follows(e)'
  BY <1>2, <1>3 DEF Follows
<1>6. CASE ConfirmSend(w, e)
  <2>1. /\ Becomes(w, [at |-> "handle", e |-> e, st |-> "UNSEND"])
        /\ Row(e, {"confirm"}, FALSE)'
    BY <1>2, <1>6 DEF ConfirmSend, TypeOK, Row
  <2>2. Serves(w, e)' /\ ServedWell(w, e)'
    BY <1>2, <1>3, <2>1 DEF Becomes, TypeOK, Serves, ServedWell
  <2> QED BY <1>1, <1>4, <1>5, <2>1, <2>2, RedStep
<1>7. CASE HandleCreated(w, e)
  <2>1. Becomes(w, Idle) /\ Row(e, {"confirm"}, TRUE)'
    BY <1>2, <1>7 DEF HandleCreated, Handle, TypeOK, Row, Undone
  <2>2. ~Serves(w, e)' /\ RestsWell(e)'
    BY <1>2, <1>3, <2>1 DEF Becomes, TypeOK, Serves, Idle, RestsWell
  <2> QED BY <1>1, <1>4, <1>5, <2>1, <2>2, RedStep
<1> QED BY <1>6, <1>7

\* The amount is returned once; a worker that dies leaves what it found.
LEMMA EndRed ==
    ASSUME Careful, TypeOK, NEW w \in Worker, NEW e \in Envelope \ Transfer, Sound(e),
           Return(w, e) \/ (Serves(w, e) /\ Crash(w))
    PROVE  Sound(e)'
<1>1. Serves(w, e) /\ BeingServed(e) /\ Alone(w, e)
  BY RedAlone DEF Return, WorkerAt, Serves, BeingServed
<1>2. Becomes(w, Idle) /\ UNCHANGED <<env, red, wx, toSync, syncer>>
  BY DEF Return, Crash
<1>3. worker[w].at \in {"look", "insert", "return"}
  BY EnvelopAssumption, <1>1 DEF Return, Crash, WorkerAt, Careful, Sound, ServedWell, Serves
<1>4. red[e] = "none" /\ back[e] = 0 /\ Follows(e)
  BY <1>1, <1>3 DEF Sound, ServedWell, Follows
<1>5. \A y \in Syncer : ~Syncs(y, e)'
  BY <1>2, <1>4, JobShape DEF Sound, SyncedWell, Syncs, RedStatus
<1>6. Follows(e)'
  BY <1>2, <1>4 DEF Follows
<1>7. ~Serves(w, e)'
  BY <1>2 DEF Becomes, TypeOK, Serves, Idle
<1>8. RestsWell(e)'
  <2>1. CASE Return(w, e)
    BY <1>1, <1>2, <1>4, <2>1 DEF Return, WorkerAt, Sound, ServedWell, RestsWell, Row, TypeOK
  <2>2. CASE Crash(w)
    BY EnvelopAssumption, <1>1, <1>2, <1>3, <1>4, <2>2
       DEF Crash, Sound, ServedWell, RestsWell, Row
  <2> QED BY <2>1, <2>2
<1> QED BY <1>1, <1>2, <1>5, <1>6, <1>7, <1>8, RedStep

\* Steps on transfers: only who has made the row of WeixinTransfers returns
\* the amount, and WeChat has refused then.
LEMMA TransferStep ==
    ASSUME Careful, TypeOK, NEW w \in Worker, NEW e \in Transfer, Sound(e),
           \/ Request(w, e) \/ Send(w, e) \/ TransferPaid(w, e) \/ TransferRefused(w, e)
           \/ TransferRaises(w, e) \/ Return(w, e) \/ (Serves(w, e) /\ Crash(w))
    PROVE  Sound(e)'
<1>0. e \in Envelope
  BY EnvelopAssumption
<1>1. UNCHANGED <<red, toSync, syncer>>
  BY DEF Request, Send, TransferPaid, TransferRefused, TransferRaises, Return, Crash
<1>2. \A y \in Syncer : ~Syncs(y, e)'
  BY <1>0, <1>1 DEF Sound, SyncedWell, Syncs
<1>3. /\ red[e] = "none" /\ e \notin toSync
      /\ back[e] > 0 => back[e] = 1 /\ e \in wt /\ wx[e] = "none"
      /\ back[e] \in Nat
  BY <1>0 DEF Sound, TransferFits, TypeOK
<1>4. \A v \in Worker :
         /\ Serves(v, e) => worker[v].at \in {"transfer", "return"}
         /\ Serves(v, e) /\ worker[v].at = "return" =>
               back[e] = 0 /\ Row(e, {"fail"}, TRUE) /\ e \in wt /\ wx[e] = "none"
  BY <1>0, JobShape DEF Sound, ServedWell, Job, Serves, Idle
<1>5. \A v, u \in Worker :
         Serves(v, e) /\ worker[v].at = "return" /\ Serves(u, e) /\ worker[u].at = "return"
           => v = u
  BY DEF Sound, Exclusive
<1>6. ASSUME NEW job, Becomes(w, job), job.at \in {"idle", "transfer"},
             env'[e] = env[e] \/ e \notin wt \/ env[e].status # "fail",
             back'[e] = back[e], wt' = wt \/ e \notin wt, e \in wt => e \in wt',
             wx'[e] = wx[e] \/ e \notin wt
      PROVE  Sound(e)'
  <2>1. \A v \in Worker : Serves(v, e)' /\ worker'[v].at # "transfer" =>
           Serves(v, e) /\ worker'[v] = worker[v]
    BY <1>0, <1>6 DEF Becomes, TypeOK, Serves
  <2>2. \A v \in Worker : Serves(v, e)' => ServedWell(v, e)'
    BY <1>3, <1>4, <1>6, <2>1 DEF ServedWell, Row
  <2>3. Exclusive(e)'
    BY <1>5, <2>1 DEF Exclusive
  <2>4. TransferFits(e)'
    BY <1>1, <1>3, <1>6 DEF TransferFits
  <2> QED BY <1>2, <2>2, <2>3, <2>4 DEF Sound
<1>7. CASE Request(w, e)
  <2>1. PICK job \in {SendStep(e), Idle} : Becomes(w, job)
    BY <1>7 DEF Request
  <2>2. job.at \in {"idle", "transfer"}
    BY <2>1 DEF SendStep, Idle
  <2>3. env[e].status # "fail" /\ UNCHANGED <<back, wt, wx>>
    BY <1>7 DEF Request
  <2> QED BY <1>6, <2>1, <2>2, <2>3
<1>8. CASE Send(w, e)
  <2>1. Becomes(w, SendStep(e)) /\ UNCHANGED <<env, back, wt, wx>>
    BY <1>8 DEF Send
  <2>2. SendStep(e).at \in {"idle", "transfer"}
    BY DEF SendStep
  <2> QED BY <1>6, <2>1, <2>2
<1>9. CASE TransferPaid(w, e)
  <2>1. Becomes(w, Idle) /\ e \notin wt /\ back' = back
    BY <1>9 DEF TransferPaid
  <2> QED BY <1>6, <2>1 DEF Idle
<1>10. CASE TransferRaises(w, e)
  <2>1. Becomes(w, Idle) /\ UNCHANGED <<env, back, wt>> /\ (wx'[e] = wx[e] \/ e \notin wt)
    BY <1>0, <1>10 DEF TransferRaises, TypeOK
  <2> QED BY <1>6, <2>1 DEF Idle
<1>11. CASE Serves(w, e) /\ Crash(w)
  <2>1. Becomes(w, Idle) /\ UNCHANGED <<env, back, wt, wx>>
    BY <1>11 DEF Crash
  <2> QED BY <1>6, <2>1 DEF Idle
<1>12. CASE TransferRefused(w, e)
  <2>1. /\ e \notin wt /\ wx[e] = "none" /\ back' = back /\ wx' = wx /\ e \in wt'
        /\ Becomes(w, [at |-> "return", e |-> e]) /\ Row(e, {"fail"}, TRUE)'
    BY <1>0, <1>12 DEF TransferRefused, TypeOK, Row
  <2>2. back[e] = 0
    BY <1>3, <2>1
  <2>3. worker'[w].at = "return"
    BY <2>1 DEF Becomes, TypeOK
  <2>4. \A v \in Worker \ {w} : Serves(v, e)' => worker'[v].at = "transfer"
    BY <1>4, <2>1 DEF Becomes, TypeOK, Serves
  <2>5. \A v \in Worker : Serves(v, e)' => ServedWell(v, e)'
    BY <2>1, <2>2, <2>3, <2>4 DEF ServedWell
  <2>6. Exclusive(e)'
    BY <2>4 DEF Exclusive
  <2>7. TransferFits(e)'
    BY <1>1, <1>3, <2>1 DEF TransferFits
  <2> QED BY <1>2, <2>5, <2>6, <2>7 DEF Sound
<1>13. CASE Return(w, e)
  <2>1. Serves(w, e) /\ worker[w].at = "return"
    BY <1>13 DEF Return, WorkerAt, Serves
  <2>2. back[e] = 0 /\ e \in wt /\ wx[e] = "none"
    BY <1>4, <2>1
  <2>3. back'[e] = 1 /\ UNCHANGED <<wt, wx>> /\ Becomes(w, Idle)
    BY <1>0, <1>13, <2>2 DEF Return, TypeOK
  <2>4. \A v \in Worker : Serves(v, e)' => worker'[v].at = "transfer"
    BY <1>4, <1>5, <2>1, <2>3 DEF Becomes, TypeOK, Serves, Idle
  <2>5. \A v \in Worker : Serves(v, e)' => ServedWell(v, e)'
    BY <2>4 DEF ServedWell
  <2>6. Exclusive(e)'
    BY <2>4 DEF Exclusive
  <2>7. TransferFits(e)'
    BY <1>1, <1>3, <2>2, <2>3 DEF TransferFits
  <2> QED BY <1>2, <2>5, <2>6, <2>7 DEF Sound
<1> QED BY <1>7, <1>8, <1>9, <1>10, <1>11, <1>12, <1>13

-----------------------------------------------------------------------------
\* What is left to show of a step on a red packet by other than a worker.
LEMMA RestStep ==
    ASSUME NEW e \in Envelope \ Transfer, Sound(e), UNCHANGED worker,
           BeingServed(e) => env'[e] = env[e] /\ back'[e] = back[e],
           BeingServed(e) => (red[e] = "none" <=> red'[e] = "none"),
           ~BeingServed(e) => RestsWell(e)',
           Follows(e)',
           \A y \in Syncer : Syncs(y, e)' => SyncedWell(y, e)'
    PROVE  Sound(e)'
<1>1. BeingServed(e)' <=> BeingServed(e)
  BY DEF BeingServed, Serves
<1>2. \A w \in Worker : Serves(w, e)' => ServedWell(w, e)'
  BY DEF Sound, ServedWell, Row, BeingServed, Serves
<1>3. Exclusive(e)'
  BY DEF Sound, Exclusive, Serves
<1> QED BY <1>1, <1>2, <1>3 DEF Sound

\* Sending: the row was unsent, so that nobody is syncing it.
LEMMA SendSound ==
    ASSUME TypeOK, NEW e \in Envelope, Sound(e),
           SendRed(e) \/ SendRedUnanswered(e) \/ SendRedBlocked(e)
    PROVE  Sound(e)'
<1>1. red[e] = "UNSEND" /\ UNCHANGED <<worker, syncer>>
  BY DEF SendRed, SendRedUnanswered, SendRedBlocked
<1>2. e \notin Transfer /\ Follows(e) /\ (BeingServed(e) \/ RestsWell(e))
  BY <1>1 DEF Sound, TransferFits
<1>3. \A y \in Syncer : ~Syncs(y, e)'
  BY <1>1 DEF Sound, SyncedWell, Syncs
<1>4. CASE SendRed(e) \/ SendRedUnanswered(e)
  <2>1. /\ UNCHANGED <<env, back>> /\ red'[e] \in {"UNSEND", "SENDING"}
        /\ wx'[e] = IF wx[e] = "none" THEN "SENDING" ELSE wx[e]
        /\ e \in toSync' => red'[e] = "SENDING" \/ e \in toSync
    BY <1>1, <1>4 DEF SendRed, SendRedUnanswered, Reaches, TypeOK
  <2>2. Follows(e)'
    BY <1>1, <1>2, <2>1 DEF Follows, BeingServed, Serves
  <2>3. ~BeingServed(e) => RestsWell(e)'
    BY <1>1, <1>2, <2>1 DEF RestsWell, Row, Undone
  <2> QED BY <1>1, <1>2, <1>3, <2>1, <2>2, <2>3, RestStep
<1>5. CASE SendRedBlocked(e)
  <2>1. env[e].billno /\ wx[e] = "none" /\ UNCHANGED <<wx, toSync>>
    BY <1>5 DEF SendRedBlocked
  <2>2. ~BeingServed(e)
    BY <1>2, <2>1, JobShape DEF Sound, BeingServed, Serves, ServedWell, Row, Job, Idle
  <2>3. back[e] = 0
    BY <1>1, <1>2, <2>2 DEF RestsWell, Undone
  <2>4. red'[e] = "FAILED" /\ Row(e, {"fail"}, TRUE)' /\ back'[e] = 1
    BY <1>5, <2>3 DEF SendRedBlocked, Handle, Taken, Undone, TypeOK, Row
  <2>5. Follows(e)'
    BY <1>1, <1>2, <2>1, <2>4 DEF Follows
  <2>6. RestsWell(e)'
    BY <2>4 DEF RestsWell, Undone
  <2> QED BY <1>1, <1>2, <1>3, <2>2, <2>5, <2>6, RestStep
<1> QED BY <1>4, <1>5

\* WeChat moves what has reached it: the envelope rests, with its id saved.
LEMMA WeChatSound ==
    ASSUME TypeOK, NEW e \in Envelope, Sound(e), WeChatMoves(e)
    PROVE  Sound(e)'
<1>1. /\ ~BeingServed(e) /\ UNCHANGED <<env, back, red, wt, worker, toSync, syncer>>
      /\ wx[e] \in {"SENDING", "SENT", "RFUND_ING"}
      /\ wx'[e] \in {"SENT", "FAILED", "RECEIVED", "RFUND_ING", "REFUND"}
      /\ wx'[e] \in {"RFUND_ING", "REFUND"} =>
            wx[e] = "RFUND_ING" \/ (red[e] # "UNSEND" /\ e \notin toSync)
      /\ wx'[e] = "FAILED" => wx[e] = "SENDING"
      /\ wx'[e] = "SENT" => wx[e] = "SENDING"
      /\ wx[e] = "RFUND_ING" => wx'[e] = "REFUND"
  BY DEF WeChatMoves, TypeOK
<1>2. CASE e \in Transfer
  <2>1. TransferFits(e)'
    BY <1>1, <1>2 DEF Sound, TransferFits
  <2>2. \A y \in Syncer : ~Syncs(y, e)'
    BY <1>1, <1>2 DEF Sound, SyncedWell, Syncs
  <2>3. \A w \in Worker : ~Serves(w, e)'
    BY <1>1 DEF BeingServed, Serves
  <2> QED BY <1>2, <2>1, <2>2, <2>3 DEF Sound, Exclusive
<1>3. CASE e \notin Transfer
  <2>1. Follows(e) /\ RestsWell(e) /\ red[e] # "none"
    BY <1>1, <1>3 DEF Sound, Follows
  <2>2. env[e].billno /\ ~BeingServed(e)'
    BY <1>1, <2>1 DEF RestsWell, Row, BeingServed, Serves
  <2>3. Follows(e)'
    BY <1>1, <2>1, <2>2 DEF Follows
  <2>4. RestsWell(e)'
    BY <1>1, <2>1 DEF RestsWell, Row
  <2>5. \A y \in Syncer : Syncs(y, e)' => SyncedWell(y, e)'
    BY <1>1 DEF Sound, SyncedWell, Syncs
  <2> QED BY <1>1, <1>3, <2>3, <2>4, <2>5, RestStep
<1> QED BY <1>2, <1>3

\* A sync starts on a row that is sent and not undone.
LEMMA StartSound ==
    ASSUME Careful, TypeOK, NEW y \in Syncer, NEW e \in Envelope, Sound(e),
           SyncHourly(y, e) \/ SyncQueued(y, e)
    PROVE  Sound(e)'
<1>1. /\ syncer[y] = Idle /\ UNCHANGED <<env, back, red, wt, wx, worker>>
      /\ e \in toSync' => e \in toSync
      /\ red[e] \in Watched \/ e \in toSync
      /\ syncer' = syncer \/ (StartSync(y, e) /\ red[e] \notin {"UNSEND", "FAILED"})
  BY DEF SyncHourly, SyncQueued, Watched
<1>2. e \notin Transfer /\ Follows(e) /\ (BeingServed(e) \/ RestsWell(e))
  BY <1>1 DEF Sound, TransferFits, Watched
<1>3. red[e] \in RedStatus /\ red[e] \notin {"UNSEND", "REFUND"}
  BY <1>1, <1>2 DEF Follows, Watched, TypeOK, RedStatus
<1>4. ASSUME red[e] # "FAILED" PROVE back[e] = 0
  <2>1. CASE BeingServed(e)
    BY <2>1, JobShape, <1>2 DEF Sound, BeingServed, Serves, ServedWell, Job, Idle
  <2>2. CASE RestsWell(e)
    BY <2>2, <1>3, <1>4 DEF RestsWell, Undone, RedStatus
  <2> QED BY <1>2, <2>1, <2>2
<1>5. \A z \in Syncer : z = y
  BY DEF Careful
<1>6. ASSUME Syncs(y, e)' PROVE SyncedWell(y, e)'
  <2>1. StartSync(y, e) /\ red[e] # "FAILED"
    BY <1>1, <1>6 DEF Syncs, Idle
  <2>2. syncer'[y] = [at |-> "query", e |-> e, st |-> red[e]]
    BY <2>1 DEF StartSync, TypeOK
  <2> QED BY <1>1, <1>2, <1>3, <1>4, <2>1, <2>2 DEF SyncedWell, Undone
<1>7. Follows(e)'
  BY <1>1, <1>2 DEF Follows, BeingServed, Serves
<1>8. RestsWell(e) => RestsWell(e)'
  BY <1>1 DEF RestsWell, Row
<1> QED BY <1>1, <1>2, <1>5, <1>6, <1>7, <1>8, RestStep

\* WeChat's answer, or none, is stored.
LEMMA QuerySound ==
    ASSUME Careful, TypeOK, NEW y \in Syncer, NEW e \in Envelope, Sound(e),
           syncer[y].e = e, SyncAnswered(y) \/ SyncRefused(y)
    PROVE  Sound(e)'
<1>1. PICK st : /\ Query(y, st) /\ st \in {wx[e], syncer[y].st}
                /\ syncer[y].at = "query"
  BY DEF SyncAnswered, SyncRefused
<1>2. /\ UNCHANGED <<env, back, wt, wx, worker, toSync>>
      /\ red'[e] = st /\ syncer'[y] = [at |-> "handle", e |-> e, st |-> st]
  BY <1>1 DEF Query, TypeOK
<1>3. /\ SyncedWell(y, e) /\ e \notin Transfer /\ Follows(e)
      /\ BeingServed(e) \/ RestsWell(e)
  <2>1. Syncs(y, e)
    BY <1>1 DEF Syncs
  <2>2. SyncedWell(y, e)
    BY <2>1 DEF Sound
  <2>3. e \notin Transfer
    BY <2>2 DEF SyncedWell
  <2> QED BY <2>2, <2>3 DEF Sound
<1>4. /\ red[e] = syncer[y].st /\ red[e] \in RedStatus /\ red[e] \notin Undone \cup {"UNSEND"}
      /\ back[e] = 0
  BY <1>1, <1>3, JobShape DEF SyncedWell
<1>5. wx[e] \in AtWeChat /\ wx[e] # "none"
  BY <1>3, <1>4 DEF Follows, TypeOK, RedStatus, Undone
<1>6. st \in RedStatus /\ st # "UNSEND" /\ st # "none"
  BY <1>1, <1>4, <1>5 DEF AtWeChat, RedStatus
<1>7. st \in Undone => env[e].billno
  BY <1>1, <1>3, <1>4 DEF Follows, Undone
<1>8. Follows(e)'
  BY <1>1, <1>2, <1>3, <1>4, <1>5, <1>6 DEF Follows, BeingServed, Serves, RedStatus
<1>9. RestsWell(e) => RestsWell(e)'
  BY <1>2, <1>4, <1>6 DEF RestsWell, Row, RedStatus
<1>10. \A z \in Syncer : Syncs(z, e)' => SyncedWell(z, e)'
  BY <1>2, <1>3, <1>4, <1>6, <1>7 DEF Careful, SyncedWell
<1>11. red[e] # "none" /\ red'[e] # "none"
  BY <1>2, <1>4, <1>6 DEF RedStatus
<1> QED BY <1>2, <1>3, <1>8, <1>9, <1>10, <1>11, RestStep

\* The envelope is handled with it.
LEMMA SyncSound ==
    ASSUME Careful, TypeOK, NEW y \in Syncer, NEW e \in Envelope, Sound(e),
           syncer[y].e = e, SyncHandle(y)
    PROVE  Sound(e)'
<1>1. /\ syncer[y].at = "handle" /\ syncer'[y] = Idle
      /\ UNCHANGED <<red, wt, wx, worker, toSync>>
  BY DEF SyncHandle, TypeOK
<1>2. /\ SyncedWell(y, e) /\ e \notin Transfer /\ Follows(e)
      /\ BeingServed(e) \/ RestsWell(e)
  <2>1. Syncs(y, e)
    BY <1>1 DEF Syncs
  <2>2. SyncedWell(y, e)
    BY <2>1 DEF Sound
  <2>3. e \notin Transfer
    BY <2>2 DEF SyncedWell
  <2> QED BY <2>2, <2>3 DEF Sound
<1>3. \A z \in Syncer : ~Syncs(z, e)'
  BY <1>1 DEF Careful, Syncs, Idle
<1>4. /\ red[e] = syncer[y].st /\ red[e] \in RedStatus /\ red[e] # "UNSEND" /\ back[e] = 0
      /\ red[e] \in Undone => env[e].billno
  BY <1>1, <1>2, JobShape DEF SyncedWell
<1>5. CASE ~env[e].billno
  <2>1. UNCHANGED <<env, back>>
    BY <1>5 DEF SyncHandle
  <2>2. Follows(e)'
    BY <1>1, <1>2, <2>1 DEF Follows, BeingServed, Serves
  <2>3. RestsWell(e) => RestsWell(e)'
    BY <1>1, <2>1 DEF RestsWell, Row
  <2> QED BY <1>1, <1>2, <1>3, <2>1, <2>2, <2>3, RestStep
<1>6. CASE env[e].billno
  <2>1. Handle(e, red[e], env[e].status)
    BY <1>4, <1>6 DEF SyncHandle
  <2>2. ~BeingServed(e)
    BY <1>2, <1>6, JobShape DEF Sound, BeingServed, Serves, ServedWell, Row, Job, Idle
  <2>3. Row(e, {"confirm"}, TRUE)
    BY <1>2, <1>4, <1>6, <2>2 DEF RestsWell, Row
  <2>4. IF red[e] \in Undone THEN Row(e, {"fail"}, TRUE)' /\ back'[e] = 1
        ELSE Row(e, {"confirm"}, TRUE)' /\ back'[e] = 0
    BY <1>4, <2>1, <2>3 DEF Handle, TypeOK, Row, Taken, Undone
  <2>5. RestsWell(e)'
    BY <1>1, <1>4, <2>4 DEF RestsWell, RedStatus
  <2>6. Follows(e)'
    BY <1>1, <1>2, <2>2, <2>4 DEF Follows, BeingServed, Serves, Row
  <2> QED BY <1>1, <1>2, <1>3, <2>2, <2>5, <2>6, RestStep
<1> QED BY <1>5, <1>6

\* A sync that is given up leaves the rows alone.
LEMMA LostSound ==
    ASSUME TypeOK, NEW y \in Syncer, NEW e \in Envelope, Sound(e), SyncLost(y)
    PROVE  Sound(e)'
<1>1. UNCHANGED <<env, back, red, wt, wx, worker, toSync>>
  BY DEF SyncLost
<1>2. \A z \in Syncer : Syncs(z, e)' => SyncedWell(z, e)'
  BY <1>1 DEF SyncLost, TypeOK, Idle, Syncs, SyncedWell, Sound
<1>3. CASE e \in Transfer
  <2>1. TransferFits(e)'
    BY <1>1, <1>3 DEF Sound, TransferFits
  <2>2. \A w \in Worker : Serves(w, e)' => ServedWell(w, e)'
    BY <1>1 DEF Sound, Serves, ServedWell, Row
  <2>3. Exclusive(e)'
    BY <1>1 DEF Sound, Exclusive, Serves
  <2> QED BY <1>2, <1>3, <2>1, <2>2, <2>3 DEF Sound
<1>4. CASE e \notin Transfer
  <2>1. Follows(e)'
    BY <1>1, <1>4 DEF Sound, Follows, BeingServed, Serves
  <2>2. ~BeingServed(e) => RestsWell(e)'
    BY <1>1, <1>4 DEF Sound, RestsWell, Row
  <2> QED BY <1>1, <1>2, <1>4, <2>1, <2>2, RestStep
<1> QED BY <1>3, <1>4

-----------------------------------------------------------------------------
\* Every envelope stays sound in a step of a worker, and in every other step.
LEMMA WorkerSound ==
    ASSUME Careful, TypeOK, NEW f \in Envelope, Sound(f), NEW w \in Worker, NEW e \in Envelope,
           \/ Request(w, e) \/ Send(w, e) \/ Cancel(w, e) \/ TransferPaid(w, e)
           \/ TransferRefused(w, e) \/ TransferRaises(w, e) \/ LookUp(w, e) \/ Insert(w, e)
           \/ InsertRaises(w, e) \/ ConfirmSend(w, e) \/ HandleCreated(w, e) \/ Return(w, e)
    PROVE  Sound(f)'
<1>1. CASE f # e
  <2>1. Same(f)
    BY <1>1, WorkerSame
  <2> QED BY <2>1, SameIsSound
<1>2. CASE f = e /\ e \in Transfer
  <2>1. ~Cancel(w, e)
    BY <1>2 DEF Careful, Cancel
  <2>2. ~(LookUp(w, e) \/ Insert(w, e) \/ InsertRaises(w, e)
            \/ ConfirmSend(w, e) \/ HandleCreated(w, e))
    <3>1. Serves(w, e) => ServedWell(w, e)
      BY <1>2 DEF Sound
    <3> QED BY <1>2, <3>1 DEF ServedWell, Serves, WorkerAt, LookUp, Insert, InsertRaises,
               ConfirmSend, HandleCreated
  <2> QED BY <1>2, <2>1, <2>2, TransferStep
<1>3. CASE f = e /\ e \notin Transfer
  <2>1. ~(TransferPaid(w, e) \/ TransferRefused(w, e) \/ TransferRaises(w, e))
    <3>1. Serves(w, e) => ServedWell(w, e)
      BY <1>3 DEF Sound
    <3> QED BY <1>3, <3>1 DEF ServedWell, Serves, WorkerAt, TransferPaid, TransferRefused,
               TransferRaises
  <2> QED BY <1>3, <2>1, RequestRed, CreateRed, ConfirmRed, EndRed
<1> QED BY <1>1, <1>2, <1>3

LEMMA CrashSound ==
    ASSUME Careful, TypeOK, NEW f \in Envelope, Sound(f), NEW w \in Worker, Crash(w)
    PROVE  Sound(f)'
<1>1. CASE Serves(w, f)
  BY <1>1, TransferStep, EndRed
<1>2. CASE ~Serves(w, f)
  <2>1. Same(f)
    BY <1>2 DEF Crash, Becomes, TypeOK, Same, Serves, Syncs, Idle
  <2> QED BY <2>1, SameIsSound
<1> QED BY <1>1, <1>2

LEMMA TaskSound ==
    ASSUME Careful, TypeOK, NEW f \in Envelope, Sound(f), NEW e \in Envelope,
           SendRed(e) \/ SendRedUnanswered(e) \/ SendRedBlocked(e) \/ WeChatMoves(e)
    PROVE  Sound(f)'
<1>1. CASE f # e
  <2>1. Same(f)
    BY <1>1, SendSame
  <2> QED BY <2>1, SameIsSound
<1>2. CASE f = e
  BY <1>2, SendSound, WeChatSound
<1> QED BY <1>1, <1>2

LEMMA SyncerSound ==
    ASSUME Careful, TypeOK, NEW f \in Envelope, Sound(f), NEW y \in Syncer, NEW e \in Envelope,
           \/ SyncHourly(y, e) \/ SyncQueued(y, e)
           \/ /\ syncer[y].e = e
              /\ SyncAnswered(y) \/ SyncRefused(y) \/ SyncHandle(y) \/ SyncLost(y)
    PROVE  Sound(f)'
<1>1. CASE f # e
  <2>1. Same(f)
    BY <1>1, SyncSame
  <2> QED BY <2>1, SameIsSound
<1>2. CASE f = e
  BY <1>2, StartSound, QuerySound, SyncSound, LostSound
<1> QED BY <1>1, <1>2

LEMMA SoundStep ==
    ASSUME Careful, TypeOK, NEW f \in Envelope, Sound(f), [Next]_vars
    PROVE  Sound(f)'
<1>1. ASSUME NEW w \in Worker, NEW e \in Envelope, Request(w, e) \/ Send(w, e) \/ Cancel(w, e)
      PROVE  Sound(f)'
  BY <1>1, WorkerSound
<1>2. ASSUME NEW w \in Worker, Proceeds(w) PROVE Sound(f)'
  BY <1>2, WorkerSound DEF Proceeds
<1>3. ASSUME NEW w \in Worker, Crash(w) PROVE Sound(f)'
  BY <1>3, CrashSound
<1>4. ASSUME NEW e \in Envelope,
             SendRed(e) \/ SendRedUnanswered(e) \/ SendRedBlocked(e) \/ WeChatMoves(e)
      PROVE  Sound(f)'
  BY <1>4, TaskSound
<1>5. ASSUME NEW y \in Syncer, NEW e \in Envelope, SyncHourly(y, e) \/ SyncQueued(y, e)
      PROVE  Sound(f)'
  BY <1>5, SyncerSound
<1>6. ASSUME NEW y \in Syncer,
             SyncAnswered(y) \/ SyncRefused(y) \/ SyncHandle(y) \/ SyncLost(y)
      PROVE  Sound(f)'
  <2>1. syncer[y].at # "idle"
    BY <1>6 DEF SyncAnswered, SyncRefused, SyncHandle, SyncLost
  <2>2. syncer[y].e \in Envelope
    BY <2>1, JobShape
  <2> QED BY <1>6, <2>2, SyncerSound
<1>7. CASE UNCHANGED vars
  <2>1. Same(f)
    BY <1>7 DEF vars, Same
  <2> QED BY <2>1, SameIsSound
<1> QED BY <1>1, <1>2, <1>3, <1>4, <1>5, <1>6, <1>7 DEF Next

\* The inductive invariant says what has been paid out of each envelope.
LEMMA PaidOnce == PayoutInv => NeverBoth
<1> SUFFICES ASSUME PayoutInv, NEW e \in Envelope
             PROVE  back[e] + (IF wx[e] = "RECEIVED" THEN 1 ELSE 0) <= 1
  BY DEF NeverBoth
<1>1. TypeOK /\ Sound(e) /\ back[e] \in Nat
  BY DEF PayoutInv, TypeOK
<1>2. CASE e \in Transfer
  BY <1>1, <1>2 DEF Sound, TransferFits
<1>3. CASE e \notin Transfer /\ BeingServed(e)
  <2>1. PICK w \in Worker : Serves(w, e)
    BY <1>3 DEF BeingServed
  <2>2. back[e] = 0
    BY <1>1, <1>3, <2>1, JobShape DEF Sound, Serves, ServedWell, Job, Idle
  <2> QED BY <2>2
<1>4. CASE e \notin Transfer /\ ~BeingServed(e)
  <2>1. Follows(e) /\ RestsWell(e)
    BY <1>1, <1>4 DEF Sound
  <2>2. \/ back[e] = 0
        \/ back[e] = 1 /\ (red[e] = "none" \/ red[e] \in Undone)
    BY <2>1 DEF RestsWell
  <2>3. red[e] = "none" \/ red[e] \in Undone => wx[e] # "RECEIVED"
    BY <2>1 DEF Follows, Undone
  <2> QED BY <2>2, <2>3
<1> QED BY <1>2, <1>3, <1>4

LEMMA PayoutStays == ASSUME Careful PROVE Spec => []PayoutInv
<1>1. Init => TypeOK /\ SentInv
  BY DEF Init, TypeOK, SentInv, Job, Sync, Idle, AtWeChat, Lagging
<1>2. Init => \A e \in Envelope : Sound(e)
  BY DEF Init, Sound, Serves, ServedWell, Exclusive, BeingServed, RestsWell, Row, Follows,
     TransferFits, Syncs, SyncedWell, Idle
<1>3. PayoutInv /\ SentInv /\ [Next]_vars => (PayoutInv /\ SentInv)'
  BY TypeStep, SentStep, SoundStep DEF PayoutInv
<1>4. Init => PayoutInv /\ SentInv
  BY <1>1, <1>2 DEF PayoutInv
<1> QED BY <1>3, <1>4, PTL DEF Spec

\* Careful operators and one sync at a time: a cashout is received by the
\* customer or returned to the wallet, and not returned twice, whatever
\* answers of WeChat are lost and wherever workers die that may.
THEOREM PaidOrReturned == ASSUME Careful PROVE Spec => []NeverBoth
BY PaidOnce, PayoutStays, PTL

-----------------------------------------------------------------------------
\* A transfer's status is that of its amount, but for the worker that has
\* still to return it.
StatusTells(e) ==
    /\ env[e].status # "cancel"
    /\ back[e] > 0 => env[e].status = "fail"
    /\ env[e].status = "fail" => back[e] > 0 \/ \E w \in Worker : WorkerAt(w, "return", e)

LEMMA SameTells == ASSUME NEW f \in Envelope, StatusTells(f), Same(f) PROVE StatusTells(f)'
<1>1. \A w \in Worker : WorkerAt(w, "return", f) => WorkerAt(w, "return", f)'
  BY DEF Same, Serves, WorkerAt
<1> QED BY <1>1 DEF Same, StatusTells

\* Steps that leave workers alone do not touch the row of a transfer.
LEMMA RestTells ==
    ASSUME NEW f \in Envelope, StatusTells(f), UNCHANGED worker,
           env'[f] = env[f], back'[f] = back[f]
    PROVE  StatusTells(f)'
BY DEF StatusTells, WorkerAt

LEMMA WorkerTells ==
    ASSUME Careful, TypeOK, NEW f \in Transfer, Sound(f), StatusTells(f),
           NEW w \in Worker, NEW e \in Envelope,
           \/ Request(w, e) \/ Send(w, e) \/ Cancel(w, e) \/ TransferPaid(w, e)
           \/ TransferRefused(w, e) \/ TransferRaises(w, e) \/ LookUp(w, e) \/ Insert(w, e)
           \/ InsertRaises(w, e) \/ ConfirmSend(w, e) \/ HandleCreated(w, e) \/ Return(w, e)
    PROVE  StatusTells(f)'
<1>0. f \in Envelope /\ back[f] \in Nat
  BY EnvelopAssumption DEF TypeOK
<1>1. CASE f # e
  <2>1. Same(f)
    BY <1>0, <1>1, WorkerSame
  <2> QED BY <1>0, <2>1, SameTells
<1>2. CASE f = e
  <2>1. ~Cancel(w, f)
    BY DEF Careful, Cancel
  <2>2. Serves(w, f) => worker[w].at \in {"transfer", "return"}
    BY JobShape DEF Sound, ServedWell, Job, Idle, Serves
  <2>3. ~(LookUp(w, f) \/ Insert(w, f) \/ InsertRaises(w, f)
            \/ ConfirmSend(w, f) \/ HandleCreated(w, f))
    BY <2>2 DEF Serves, WorkerAt, LookUp, Insert, InsertRaises, ConfirmSend, HandleCreated
  <2>4. f \notin wt => back[f] = 0
    BY <1>0 DEF Sound, TransferFits
  <2>5. ASSUME NEW job, Becomes(w, job), worker[w].at # "return"
        PROVE  \A v \in Worker : WorkerAt(v, "return", f) => WorkerAt(v, "return", f)'
    BY <2>5 DEF Becomes, TypeOK, WorkerAt
  <2>6. CASE Request(w, f) \/ Send(w, f)
    <3>1. env[f].status # "fail" /\ back' = back /\ env'[f].status = "wait"
      BY <1>0, <2>6 DEF Request, Send, TypeOK
    <3> QED BY <3>1 DEF StatusTells
  <2>7. CASE TransferPaid(w, f)
    <3>1. back'[f] = 0 /\ env'[f].status = "confirm"
      BY <1>0, <2>4, <2>7 DEF TransferPaid, TypeOK
    <3> QED BY <3>1 DEF StatusTells
  <2>8. CASE TransferRefused(w, f)
    <3>1. env'[f].status = "fail" /\ Becomes(w, [at |-> "return", e |-> f])
      BY <1>0, <2>8 DEF TransferRefused, TypeOK
    <3>2. WorkerAt(w, "return", f)'
      BY <3>1 DEF Becomes, TypeOK, WorkerAt
    <3> QED BY <3>1, <3>2 DEF StatusTells
  <2>9. CASE TransferRaises(w, f)
    <3>1. UNCHANGED <<env, back>> /\ Becomes(w, Idle) /\ worker[w].at # "return"
      BY <2>9 DEF TransferRaises, WorkerAt
    <3> QED BY <2>5, <3>1 DEF StatusTells
  <2>10. CASE Return(w, f)
    <3>1. Serves(w, f) /\ worker[w].at = "return" /\ back'[f] > 0 /\ env' = env
      BY <1>0, <2>10 DEF Return, WorkerAt, Serves, TypeOK
    <3>2. env[f].status = "fail"
      BY <3>1 DEF Sound, ServedWell, Row
    <3> QED BY <3>1, <3>2 DEF StatusTells
  <2> QED BY <1>2, <2>1, <2>3, <2>6, <2>7, <2>8, <2>9, <2>10
<1> QED BY <1>1, <1>2

LEMMA TellsStep ==
    ASSUME Careful, TypeOK, NEW f \in Transfer, Sound(f), StatusTells(f), [Next]_vars
    PROVE  StatusTells(f)'
<1>0. f \in Envelope /\ red[f] = "none"
  BY EnvelopAssumption DEF Sound, TransferFits
<1>1. ASSUME NEW w \in Worker, NEW e \in Envelope, Request(w, e) \/ Send(w, e) \/ Cancel(w, e)
      PROVE  StatusTells(f)'
  BY <1>1, WorkerTells
<1>2. ASSUME NEW w \in Worker, Proceeds(w) PROVE StatusTells(f)'
  BY <1>2, WorkerTells DEF Proceeds
<1>3. ASSUME NEW w \in Worker, Crash(w) PROVE StatusTells(f)'
  <2>1. worker[w].at # "return" /\ Becomes(w, Idle) /\ UNCHANGED <<env, back>>
    BY <1>3, EnvelopAssumption DEF Crash
  <2>2. \A v \in Worker : WorkerAt(v, "return", f) => WorkerAt(v, "return", f)'
    BY <2>1 DEF Becomes, TypeOK, WorkerAt
  <2> QED BY <2>1, <2>2 DEF StatusTells
<1>4. ASSUME NEW e \in Envelope,
             SendRed(e) \/ SendRedUnanswered(e) \/ SendRedBlocked(e) \/ WeChatMoves(e)
      PROVE  StatusTells(f)'
  <2>1. CASE SendRedBlocked(e)
    <3>1. Same(f)
      BY <1>0, <2>1, SendSame DEF SendRedBlocked
    <3> QED BY <1>0, <3>1, SameTells
  <2>2. CASE SendRed(e) \/ SendRedUnanswered(e) \/ WeChatMoves(e)
    BY <1>0, <2>2, RestTells DEF SendRed, SendRedUnanswered, WeChatMoves
  <2> QED BY <1>4, <2>1, <2>2
<1>5. ASSUME NEW y \in Syncer, NEW e \in Envelope, SyncHourly(y, e) \/ SyncQueued(y, e)
      PROVE  StatusTells(f)'
  BY <1>0, <1>5, RestTells DEF SyncHourly, SyncQueued
<1>6. ASSUME NEW y \in Syncer, SyncAnswered(y) \/ SyncRefused(y) \/ SyncLost(y)
      PROVE  StatusTells(f)'
  BY <1>0, <1>6, RestTells DEF SyncAnswered, SyncRefused, Query, SyncLost
<1>7. ASSUME NEW y \in Syncer, SyncHandle(y) PROVE StatusTells(f)'
  <2> DEFINE e == syncer[y].e
  <2>1. e \in Envelope /\ Syncs(y, e)
    BY <1>7, JobShape DEF SyncHandle, Syncs
  <2>2. e # f
    BY <2>1 DEF Sound, SyncedWell
  <2>3. Same(f)
    BY <1>0, <1>7, <2>1, <2>2, SyncSame
  <2> QED BY <1>0, <2>3, SameTells
<1>8. CASE UNCHANGED vars
  BY <1>0, <1>8, RestTells DEF vars
<1> QED BY <1>1, <1>2, <1>3, <1>4, <1>5, <1>6, <1>7, <1>8 DEF Next

(* When nobody works on an envelope its status tells whether its amount    *)
(* went back, red packet or transfer, under the discipline of Careful      *)
(* (send_envelop, handle_envelop, refund_envelop).                         *)
THEOREM StatusTellsMoney == ASSUME Careful PROVE Spec => []MoneyFollowsStatus
<1> DEFINE Tells == \A e \in Transfer : StatusTells(e)
<1>1. Transfer \subseteq Envelope
  BY EnvelopAssumption
<1>2. PayoutInv /\ Tells => MoneyFollowsStatus
  <2> SUFFICES ASSUME PayoutInv, Tells, NEW e \in Envelope, Quiet(e)
               PROVE  back[e] > 0 <=> env[e].status \in {"fail", "cancel"}
    BY DEF MoneyFollowsStatus
  <2>1. Sound(e) /\ ~BeingServed(e) /\ back[e] \in Nat
    BY DEF PayoutInv, TypeOK, Quiet
  <2>2. CASE e \in Transfer
    <3>1. ~ \E w \in Worker : WorkerAt(w, "return", e)
      BY <2>1 DEF BeingServed, Serves, WorkerAt
    <3> QED BY <2>2, <3>1 DEF StatusTells
  <2>3. CASE e \notin Transfer
    BY <2>1, <2>3 DEF Sound, RestsWell, Row
  <2> QED BY <2>2, <2>3
<1>3. PayoutInv /\ Tells /\ [Next]_vars => Tells'
  BY <1>1, TellsStep DEF PayoutInv
<1>4. Init => Tells
  BY <1>1 DEF Init, StatusTells
<1> HIDE DEF Tells
<1> QED BY <1>2, <1>3, <1>4, PayoutStays, PTL DEF Spec
=============================================================================
