------------------------- MODULE UserBudget_proofs -------------------------
(***************************************************************************)
(* Theorems about the wallet.                                              *)
(***************************************************************************)
EXTENDS UserBudget, Accounting_proofs

\* An entry moves an amount between two subjects.
LEMMA PostType ==
    ASSUME NEW b \in [Subject -> Int], NEW d \in Subject, NEW n \in Subject, NEW f \in Int
    PROVE  Post(b, d, n, f) \in [Subject -> Int]
BY DEF Post

\* Whatever a record's kind and status, its entries keep the books.
LEMMA BooksType ==
    ASSUME NEW b \in [Subject -> Int], NEW kind, NEW s, NEW f \in Int
    PROVE  /\ CreateBooks(b, kind, s, f) \in [Subject -> Int]
           /\ ConfirmBooks(b, kind, s, f) \in [Subject -> Int]
           /\ CancelBooks(b, kind, s, f) \in [Subject -> Int]
BY PostType DEF CreateBooks, ConfirmBooks, CancelBooks, Subject

-----------------------------------------------------------------------------
(***************************************************************************)
(* Types.                                                                  *)
(***************************************************************************)

\* The wallet, its tables and its workers as the day begins.
LEMMA TypeInit == Init => TypeOK
BY UserBudgetAssumption DEF Init, TypeOK, LogRecord, NoRecord, Job, Idle, Kind

\* TypeOK is inductive: one step per action.
LEMMA TypeStep == TypeOK /\ [Next]_vars => TypeOK'
<1> USE UserBudgetAssumption
<1> SUFFICES ASSUME TypeOK, [Next]_vars PROVE TypeOK'
  OBVIOUS
<1> USE DEF TypeOK, Job
<1>0. /\ Idle \in Job
      /\ \A w \in Worker : /\ job[w] \in Job /\ job[w].rec \in LogRecord
                            /\ job[w].loaded \in [Counter -> Int]
      /\ \A k \in Kind : TypeOf(k) \in BudgetType
  <2>1. NoRecord \in LogRecord
    BY DEF NoRecord, LogRecord, Kind
  <2>2. Idle \in Job
    BY <2>1 DEF Idle
  <2>3. \A k \in Kind : TypeOf(k) \in BudgetType
    BY DEF TypeOf, BudgetType, Kind
  <2> QED BY <2>2, <2>3
<1>1. ASSUME NEW w \in Worker, RequestCreate(w) PROVE TypeOK'
  <2>1. PICK c \in Creates, f \in Flow :
          job' = [job EXCEPT ![w] =
            [Idle EXCEPT !.phase = "count", !.op = "create",
               !.rec = [kind |-> c[1], status |-> c[2], flow |-> f, key |-> 0]]]
    BY <1>1 DEF RequestCreate
  <2>2. [kind |-> c[1], status |-> c[2], flow |-> f, key |-> 0] \in LogRecord
    BY DEF LogRecord, LogStatus
  <2>3. [Idle EXCEPT !.phase = "count", !.op = "create",
           !.rec = [kind |-> c[1], status |-> c[2], flow |-> f, key |-> 0]] \in Job
    BY <1>0, <2>2 DEF Idle
  <2> QED BY <1>1, <2>1, <2>3 DEF RequestCreate
<1>2. ASSUME NEW w \in Worker, GenKey(w) PROVE TypeOK'
  <2>1. Cardinality(OfKind(job[w].rec.kind)) \in Nat
    BY FS_CardinalityType, FS_Subset DEF OfKind, Used
  <2>2. ASSUME NEW n \in Nat
        PROVE  [job[w] EXCEPT !.phase = "read", !.rec.key = n] \in Job
    <3>1. job[w] \in Job /\ job[w].rec \in LogRecord
      BY <1>0
    <3>2. [job[w].rec EXCEPT !.key = n] \in LogRecord
      BY <3>1 DEF LogRecord
    <3>3. [job[w] EXCEPT !.phase = "read", !.rec.key = n]
            = [job[w] EXCEPT !.phase = "read", !.rec = [job[w].rec EXCEPT !.key = n]]
      BY <3>1
    <3> QED BY <3>1, <3>2, <3>3
  <2> DEFINE n == IF job[w].rec.kind = "consum" THEN 0
                  ELSE Cardinality(OfKind(job[w].rec.kind)) + 1
  <2>3. n \in Nat
    BY <2>1
  <2> HIDE DEF n
  <2>4. job' = [job EXCEPT ![w] = [job[w] EXCEPT !.phase = "read", !.rec.key = n]]
    BY <1>2 DEF GenKey, n
  <2>5. job' \in [Worker -> Job]
    BY <2>2, <2>3, <2>4
  <2> QED BY <1>2, <2>5 DEF GenKey
<1>3. ASSUME NEW w \in Worker, ReadRow(w) \/ LockRow(w) PROVE TypeOK'
  <2>1. [job[w] EXCEPT !.phase = "write", !.loaded = row] \in Job
    BY <1>0
  <2>2. \/ job' = [job EXCEPT ![w] = Idle]
        \/ job' = [job EXCEPT ![w] = [job[w] EXCEPT !.phase = "write", !.loaded = row]]
    BY <1>0, <1>3 DEF ReadRow, LockRow
  <2>3. job' \in [Worker -> Job]
    <3> HIDE DEF Job
    <3>1. job \in [Worker -> Job]
      BY DEF Job
    <3> QED BY <1>0, <2>1, <2>2, <3>1
  <2> QED BY <1>3, <2>3 DEF ReadRow, LockRow
<1>4. ASSUME NEW w \in Worker, CommitCreate(w) PROVE TypeOK'
  <2> DEFINE r == job[w].rec
             m == CreateMove(TypeOf(r.kind), r.status, r.flow)
  <2>1. r \in LogRecord /\ r.kind \in Kind /\ r.flow \in Int
        /\ r.status \in LogStatus \cup {"NONE"}
    BY <1>0 DEF LogRecord
  <2>2. IsMove(m)
    BY <1>0, <2>1, MovesAreMoves
  <2>3. SaveRow(row, job[w].loaded, m) \in [Counter -> Int]
    BY <1>0, <2>2, SaveRowType
  <2>4. CreateBooks(books, r.kind, r.status, r.flow) \in [Subject -> Int]
    BY <2>1, BooksType
  <2>5. CASE KeyTaken(r)
    BY <1>0, <1>4, <2>5 DEF CommitCreate
  <2>6. CASE ~KeyTaken(r)
    <3>1. row' \in [Counter -> Int] /\ books' \in [Subject -> Int]
      BY <1>4, <2>3, <2>4, <2>6 DEF CommitCreate
    <3>2. log' \in [LogId -> LogRecord]
      BY <1>4, <2>1, <2>6 DEF CommitCreate
    <3> QED BY <1>0, <1>4, <3>1, <3>2 DEF CommitCreate
  <2> QED BY <2>5, <2>6
<1>5. ASSUME NEW w \in Worker, CommitConfirm(w) PROVE TypeOK'
  <2> DEFINE r == job[w].rec
             m == ConfirmMove(TypeOf(r.kind), r.status, r.flow)
  <2>1. r \in LogRecord /\ r.kind \in Kind /\ r.flow \in Int
        /\ r.status \in LogStatus \cup {"NONE"}
    BY <1>0 DEF LogRecord
  <2>2. IsMove(m)
    BY <1>0, <2>1, MovesAreMoves
  <2>3. row' \in [Counter -> Int]
    BY <1>0, <1>5, <2>2, SaveRowType DEF CommitConfirm
  <2>4. books' \in [Subject -> Int]
    BY <1>5, <2>1, BooksType DEF CommitConfirm
  <2>5. [r EXCEPT !.status = "CONFIRMED"] \in LogRecord
    BY <2>1 DEF LogRecord, LogStatus
  <2> QED BY <1>0, <1>5, <2>3, <2>4, <2>5 DEF CommitConfirm
<1>6. ASSUME NEW w \in Worker, CommitCancel(w) PROVE TypeOK'
  <2> DEFINE r == job[w].rec
             m == CancelMove(TypeOf(r.kind), r.status, r.flow)
  <2>1. r \in LogRecord /\ r.kind \in Kind /\ r.flow \in Int
        /\ r.status \in LogStatus \cup {"NONE"}
    BY <1>0 DEF LogRecord
  <2>2. IsMove(m)
    BY <1>0, <2>1, MovesAreMoves
  <2>3. row' \in [Counter -> Int]
    BY <1>0, <1>6, <2>2, SaveRowType DEF CommitCancel
  <2>4. books' \in [Subject -> Int]
    BY <1>6, <2>1, BooksType DEF CommitCancel
  <2>5. [r EXCEPT !.status = "CANCELED"] \in LogRecord
    BY <2>1 DEF LogRecord, LogStatus
  <2> QED BY <1>0, <1>6, <2>3, <2>4, <2>5 DEF CommitCancel
<1>7. ASSUME NEW w \in Worker, NEW l \in LogId,
             Approve(w, l) \/ Reject(w, l) \/ Pay(w, l) \/ Close(w, l)
      PROVE  TypeOK'
  <2>1. log[l] \in LogRecord /\ [log[l] EXCEPT !.status = "PENDING"] \in LogRecord
    BY DEF LogRecord, LogStatus
  <2>2. ASSUME NEW op \in {"confirm", "cancel"}, NEW rec \in LogRecord
        PROVE  [Idle EXCEPT !.phase = "read", !.op = op, !.id = l, !.rec = rec] \in Job
    BY <1>0 DEF Idle
  <2>3. ASSUME NEW op \in {"confirm", "cancel"}, NEW rec \in LogRecord,
               StartEdit(w, l, op, rec)
        PROVE  job' \in [Worker -> Job]
    BY <2>2, <2>3 DEF StartEdit
  <2>4. job' = job \/ \E op \in {"confirm", "cancel"}, rec \in LogRecord :
                          StartEdit(w, l, op, rec)
    BY <1>7, <2>1 DEF Approve, Reject, Pay, Close
  <2>5. job' \in [Worker -> Job]
    BY <2>3, <2>4
  <2> QED BY <1>7, <2>5 DEF Approve, Reject, Pay, Close
<1>8. ASSUME NEW l \in LogId, Repend(l) PROVE TypeOK'
  <2>1. log' \in [LogId -> LogRecord]
    BY <1>8 DEF Repend, LogRecord
  <2> QED BY <1>8, <2>1 DEF Repend
<1>9. CASE UNCHANGED vars
  BY <1>9 DEF vars
<1> QED BY <1>1, <1>2, <1>3, <1>4, <1>5, <1>6, <1>7, <1>8, <1>9 DEF Next

\* Whatever workers do at the same time, the wallet row, the records, the books
\* and the in-memory copies keep their types.
THEOREM TypeCorrect == Spec => []TypeOK
BY TypeInit, TypeStep, PTL DEF Spec

-----------------------------------------------------------------------------
(***************************************************************************)
(* The balance, when requests do not overlap.                              *)
(***************************************************************************)

\* One record is rewritten and a counter moves by the change of its effect.
LEMMA OneWritten ==
    ASSUME TypeOK, NEW l \in LogId, NEW r, log' = [log EXCEPT ![l] = r], NEW c \in Counter,
           row'[c] - row[c] = LogEffect(l, c)' - LogEffect(l, c)
    PROVE  OneRecordMoves(c)
<1>1. l # 0
  BY UserBudgetAssumption
<1>2. \A m \in LogId \ {l} : log'[m] = log[m]
  BY DEF TypeOK
<1>3. \A m \in LogId \ {l} : LogEffect(m, c)' = LogEffect(m, c)
  BY <1>2 DEF LogEffect
<1> QED BY <1>1, <1>3 DEF OneRecordMoves

(***************************************************************************)
(* Requests do not overlap (one worker), and the back office does not      *)
(* reject purchases of orders that can still be paid.                      *)
(***************************************************************************)
Serial  == \A v, w \in Worker : v = w
NotBoth == "consum" \notin Rejects \/ "pay" \notin Edits

\* Steps that write neither row nor table.
LEMMA NothingMoves ==
    ASSUME TypeOK, UNCHANGED <<row, log>>, NEW c \in Counter
    PROVE  OneRecordMoves(c)
<1>1. \A m \in LogId \ {0} : LogEffect(m, c)' = LogEffect(m, c)
  BY DEF LogEffect
<1>2. row'[c] - row[c] = 0
  BY DEF TypeOK
<1> QED BY <1>1, <1>2 DEF OneRecordMoves

\* What a worker that is about to write knows.
LEMMA Writing ==
    ASSUME SerialInv, NEW w \in Worker, job[w].phase = "write"
    PROVE  LET r == job[w].rec IN
           /\ job[w].loaded = row
           /\ r \in LogRecord /\ r.kind \in Kind /\ r.flow \in Int
           /\ TypeOf(r.kind) \in BudgetType
           /\ job[w].op = "create" => r.status \in {"CONFIRMED", "PENDING"}
           /\ job[w].op # "create" =>
                /\ job[w].id \in LogId /\ log[job[w].id] \in LogRecord
                /\ log[job[w].id].status = r.status /\ r.status \in LogStatus
                /\ log[job[w].id].kind = r.kind /\ log[job[w].id].flow \in Int
                /\ \/ r.flow = log[job[w].id].flow
                   \/ TypeOf(r.kind) = "IN" /\ r.status = "PENDING"
<1> DEFINE r == job[w].rec
<1>1. job[w] \in Job /\ r \in LogRecord
  BY DEF SerialInv, TypeOK, Job
<1>2. Fresh(w)
  BY DEF SerialInv, CopiesFresh
<1>3. r.kind \in Kind /\ r.flow \in Int /\ r.status \in LogStatus \cup {"NONE"}
  BY <1>1 DEF LogRecord
<1>4. TypeOf(r.kind) \in BudgetType
  BY <1>3 DEF TypeOf, BudgetType
<1>5. ASSUME job[w].op # "create"
      PROVE  /\ job[w].id \in LogId /\ log[job[w].id] \in LogRecord
             /\ log[job[w].id].flow \in Int /\ r.status \in LogStatus
  BY <1>2, <1>3, <1>5 DEF Fresh, Editing, Used, SerialInv, TypeOK, LogRecord
<1> QED BY <1>1, <1>2, <1>3, <1>4, <1>5 DEF Fresh, Editing

\* One worker's commits move every counter by the effect of the one record.
LEMMA CommitsFollow ==
    ASSUME SerialInv, NEW w \in Worker,
           CommitCreate(w) \/ CommitConfirm(w) \/ CommitCancel(w), NEW c \in Counter
    PROVE  OneRecordMoves(c)
<1> DEFINE r == job[w].rec
           t == TypeOf(r.kind)
           D(s, f) == Delta(Effect(t, s, f), c)
<1>0. TypeOK /\ row \in [Counter -> Int] /\ log \in [LogId -> LogRecord]
      /\ job[w].phase = "write"
  BY DEF SerialInv, TypeOK, CommitCreate, CommitConfirm, CommitCancel
<1>1. /\ job[w].loaded = row /\ t \in BudgetType /\ r.flow \in Int
      /\ r.kind \in Kind /\ r \in LogRecord
  BY <1>0, Writing
<1>2. \A s \in LogStatus, f \in Int : D(s, f) \in Int
  BY <1>1, MovesAreMoves DEF IsMove, Delta
<1>3. CASE CommitCreate(w)
  <2> DEFINE mv == CreateMove(t, r.status, r.flow)
  <2>1. CASE UNCHANGED <<row, log>>
    BY <1>0, <2>1, NothingMoves
  <2>2. CASE ~UNCHANGED <<row, log>>
    <3>1. r.status \in {"CONFIRMED", "PENDING"}
      BY <1>0, <1>3, Writing DEF CommitCreate
    <3>2. PICK l \in LogId \ Used : log' = [log EXCEPT ![l] = r]
      BY <1>3, <2>2 DEF CommitCreate
    <3>3. row' = SaveRow(row, row, mv)
      BY <1>1, <1>3, <2>2 DEF CommitCreate
    <3>4. IsMove(mv)
      BY <1>1, <3>1, MovesAreMoves DEF LogStatus
    <3>5. row'[c] = row[c] + Delta(mv, c)
      BY <1>0, <3>3, <3>4, SaveFresh
    <3>6. Delta(mv, c) = D(r.status, r.flow)
      BY <1>1, <3>1, MovesFollowEffects DEF LogStatus
    <3>7. LogEffect(l, c) = 0
      BY <3>2 DEF LogEffect, Used
    <3>8. LogEffect(l, c)' = D(r.status, r.flow)
      <4>1. log'[l] = r
        BY <1>0, <3>2
      <4> QED BY <4>1, <3>1 DEF LogEffect
    <3>9. D(r.status, r.flow) \in Int /\ row[c] \in Int
      BY <1>0, <1>1, <1>2, <3>1 DEF LogStatus
    <3>10. row'[c] - row[c] = LogEffect(l, c)' - LogEffect(l, c)
      <4> HIDE DEF D, mv
      <4> QED BY <3>5, <3>6, <3>7, <3>8, <3>9
    <3> QED BY <1>0, <3>2, <3>10, OneWritten
  <2> QED BY <2>1, <2>2
<1>4. ASSUME CommitConfirm(w) \/ CommitCancel(w)
      PROVE  OneRecordMoves(c)
  <2> DEFINE to == IF CommitConfirm(w) THEN "CONFIRMED" ELSE "CANCELED"
             mv == IF CommitConfirm(w) THEN ConfirmMove(t, r.status, r.flow)
                   ELSE CancelMove(t, r.status, r.flow)
  <2>0. PICK i \in LogId : i = job[w].id
    BY <1>0, <1>4, Writing DEF CommitConfirm, CommitCancel
  <2>1. /\ r.status \in LogStatus /\ log[i].status = r.status
        /\ log[i].kind = r.kind /\ log[i].flow \in Int
        /\ r.flow = log[i].flow \/ (t = "IN" /\ r.status = "PENDING")
    BY <1>0, <1>4, <2>0, Writing DEF CommitConfirm, CommitCancel
  <2>2. /\ log' = [log EXCEPT ![i] = [r EXCEPT !.status = to]]
        /\ row' = SaveRow(row, row, mv)
    BY <1>1, <1>4, <2>0 DEF CommitConfirm, CommitCancel
  <2>3. IsMove(mv)
    BY <1>1, <2>1, MovesAreMoves
  <2>4. row'[c] = row[c] + Delta(mv, c)
    BY <1>0, <2>2, <2>3, SaveFresh
  <2>5. Delta(mv, c) = D(to, r.flow) - D(r.status, r.flow)
    BY <1>1, <2>1, MovesFollowEffects
  <2>6. LogEffect(i, c) = D(r.status, r.flow)
    <3>1. LogEffect(i, c) = D(r.status, log[i].flow)
      BY <2>1 DEF LogEffect, LogStatus
    <3>2. CASE r.flow = log[i].flow
      BY <3>1, <3>2
    <3>3. CASE t = "IN" /\ r.status = "PENDING"
      BY <1>1, <2>1, <3>1, <3>3, MovesFollowEffects
    <3> QED BY <2>1, <3>2, <3>3
  <2>7. LogEffect(i, c)' = D(to, r.flow)
    <3>1. log'[i] = [r EXCEPT !.status = to]
      BY <1>0, <2>1, <2>2
    <3>2. log'[i].status = to /\ log'[i].kind = r.kind /\ log'[i].flow = r.flow
      BY <1>1, <3>1 DEF LogRecord
    <3>3. to # "NONE"
      OBVIOUS
    <3> HIDE DEF to
    <3> QED BY <3>2, <3>3 DEF LogEffect
  <2>8. /\ D(to, r.flow) \in Int /\ D(r.status, r.flow) \in Int
        /\ row[c] \in Int
    BY <1>0, <1>1, <1>2, <2>1 DEF LogStatus
  <2>9. row'[c] - row[c] = LogEffect(i, c)' - LogEffect(i, c)
    <3> HIDE DEF D, mv, to
    <3> QED BY <2>4, <2>5, <2>6, <2>7, <2>8
  <2> QED BY <1>0, <2>2, <2>9, OneWritten
<1> QED BY <1>3, <1>4

\* A record keeps kind and status, and the worker what it knows of it.
LEMMA FreshSame ==
    ASSUME TypeOK, NEW w \in Worker, Fresh(w), job'[w] = job[w], UNCHANGED row,
           \A l \in LogId : /\ log'[l].kind = log[l].kind
                            /\ log'[l].status = log[l].status,
           Editing(w) => \/ log'[job[w].id].flow = log[job[w].id].flow
                         \/ TypeOf(job[w].rec.kind) = "IN" /\ job[w].rec.status = "PENDING"
    PROVE  Fresh(w)'
BY DEF Fresh, Editing, Used

\* SerialInv is inductive when requests do not overlap.
LEMMA SerialStep ==
    ASSUME Serial, NotBoth, SerialInv, [Next]_vars
    PROVE  SerialInv' /\ \A c \in Counter : OneRecordMoves(c)
<1> USE UserBudgetAssumption DEF SerialInv
<1>0. TypeOK' /\ TypeOK /\ job \in [Worker -> Job] /\ log \in [LogId -> LogRecord]
  BY TypeStep DEF TypeOK
<1>1. ASSUME NEW w \in Worker, RequestCreate(w)
      PROVE  SerialInv' /\ \A c \in Counter : OneRecordMoves(c)
  <2>1. PICK c \in Creates, f \in Flow :
          job' = [job EXCEPT ![w] =
            [Idle EXCEPT !.phase = "count", !.op = "create",
               !.rec = [kind |-> c[1], status |-> c[2], flow |-> f, key |-> 0]]]
    BY <1>1 DEF RequestCreate
  <2>2. /\ job'[w].phase = "count" /\ job'[w].op = "create"
        /\ job'[w].rec.status \in {"CONFIRMED", "PENDING"}
    BY <1>0, <2>1 DEF Idle
  <2>3. CopiesFresh'
    BY <2>2 DEF Serial, CopiesFresh, Fresh, Editing
  <2>4. OpenPurchasesStand'
    BY <1>1, <2>2 DEF Serial, RequestCreate, OpenPurchasesStand, OfKind, Used, Editing
  <2> QED BY <1>0, <1>1, <2>3, <2>4, NothingMoves DEF RequestCreate
<1>2. ASSUME NEW w \in Worker, GenKey(w) \/ ReadRow(w) \/ LockRow(w)
      PROVE  SerialInv' /\ \A c \in Counter : OneRecordMoves(c)
  <2>1. /\ UNCHANGED <<row, log, order>>
        /\ \/ job'[w] = Idle
           \/ /\ job[w].phase # "idle" /\ job'[w].phase \in {"read", "write"}
              /\ job'[w].phase = "write" => job'[w].loaded = row
              /\ job'[w].op = job[w].op /\ job'[w].id = job[w].id
              /\ job'[w].rec.kind = job[w].rec.kind
              /\ job'[w].rec.status = job[w].rec.status
              /\ job'[w].rec.flow = job[w].rec.flow
    <3>1. job[w] \in Job /\ job[w].rec \in LogRecord
      BY <1>0 DEF Job
    <3>2. CASE GenKey(w)
      <4>1. PICK n : job' = [job EXCEPT ![w] = [job[w] EXCEPT !.phase = "read", !.rec.key = n]]
        BY <3>2 DEF GenKey
      <4>2. /\ job'[w].phase = "read" /\ job'[w].op = job[w].op
            /\ job'[w].id = job[w].id /\ job'[w].rec = [job[w].rec EXCEPT !.key = n]
        BY <1>0, <3>1, <4>1 DEF Job
      <4> QED BY <3>1, <3>2, <4>2 DEF GenKey, LogRecord
    <3>3. CASE ReadRow(w) \/ LockRow(w)
      <4>1. \/ job' = [job EXCEPT ![w] = Idle]
            \/ job' = [job EXCEPT ![w] = [job[w] EXCEPT !.phase = "write", !.loaded = row]]
        BY <1>0, <3>3 DEF ReadRow, LockRow
      <4>2. \/ job'[w] = Idle
            \/ job'[w] = [job[w] EXCEPT !.phase = "write", !.loaded = row]
        BY <1>0, <4>1
      <4> QED BY <3>1, <3>3, <4>2 DEF ReadRow, LockRow, Job
    <3> QED BY <1>2, <3>2, <3>3
  <2>2. CopiesFresh'
    BY <2>1 DEF Serial, CopiesFresh, Fresh, Editing, Used, Idle
  <2>3. OpenPurchasesStand'
    BY <2>1 DEF Serial, OpenPurchasesStand, OfKind, Used, Editing, Idle
  <2> QED BY <1>0, <2>1, <2>2, <2>3, NothingMoves
<1>3. ASSUME NEW w \in Worker, CommitCreate(w) \/ CommitConfirm(w) \/ CommitCancel(w)
      PROVE  SerialInv' /\ \A c \in Counter : OneRecordMoves(c)
  <2> DEFINE r == job[w].rec
  <2>1. job'[w] = Idle /\ UNCHANGED order /\ job[w].phase = "write"
    BY <1>0, <1>3 DEF CommitCreate, CommitConfirm, CommitCancel
  <2>2. CopiesFresh'
    BY <2>1 DEF Serial, CopiesFresh, Fresh, Editing, Idle
  <2>3. ASSUME "pay" \in Edits, order = "WAIT", NEW l \in LogId,
               \/ log'[l].status \notin {"NONE", "CANCELED"} \/ log'[l] = log[l]
               \/ log[l].kind # "consum" /\ log'[l].kind = log[l].kind,
               log'[l].kind = "consum", log'[l].status # "NONE"
        PROVE  log'[l].status # "CANCELED"
    BY <2>3 DEF OpenPurchasesStand, OfKind, Used
  <2>4. ASSUME "pay" \in Edits, order = "WAIT", NEW l \in LogId
        PROVE  \/ log'[l].status \notin {"NONE", "CANCELED"} \/ log'[l] = log[l]
               \/ log[l].kind # "consum" /\ log'[l].kind = log[l].kind
    <3>1. CASE CommitCreate(w)
      <4>1. r.status \in {"CONFIRMED", "PENDING"}
        BY <2>1, <3>1, Writing DEF CommitCreate
      <4> QED BY <1>0, <3>1, <4>1 DEF CommitCreate
    <3>2. CASE CommitConfirm(w)
      <4>1. r \in LogRecord
        BY <2>1, Writing
      <4>2. log'[l] = [r EXCEPT !.status = "CONFIRMED"] \/ log'[l] = log[l]
        BY <1>0, <3>2 DEF CommitConfirm
      <4> QED BY <4>1, <4>2 DEF LogRecord
    <3>3. CASE CommitCancel(w)
      <4>1. /\ r \in LogRecord /\ log[job[w].id].kind = r.kind
            /\ job[w].id \in LogId /\ job[w].id \in Used
        BY <2>1, <3>3, Writing DEF CommitCancel, CopiesFresh, Fresh, Editing
      <4>2. log' = [log EXCEPT ![job[w].id] = [r EXCEPT !.status = "CANCELED"]]
        BY <3>3 DEF CommitCancel
      <4>3. CASE l # job[w].id
        BY <1>0, <4>2, <4>3
      <4>4. CASE l = job[w].id
        <5>1. log[l].kind # "consum"
          BY <2>1, <2>4, <3>3, <4>1, <4>4 DEF CommitCancel, OpenPurchasesStand, OfKind, Editing
        <5> QED BY <1>0, <4>1, <4>2, <4>4, <5>1 DEF LogRecord
      <4> QED BY <4>3, <4>4
    <3> QED BY <1>3, <3>1, <3>2, <3>3
  <2>5. OpenPurchasesStand'
    BY <2>1, <2>3, <2>4 DEF Serial, OpenPurchasesStand, OfKind, Used, Editing, Idle
  <2> QED BY <1>0, <1>3, <2>2, <2>5, CommitsFollow
<1>4. ASSUME NEW w \in Worker, NEW l \in LogId,
             Approve(w, l) \/ Reject(w, l) \/ Pay(w, l) \/ Close(w, l)
      PROVE  SerialInv' /\ \A c \in Counter : OneRecordMoves(c)
  <2>1. UNCHANGED <<row, log>> /\ l \in Used
    BY <1>4 DEF Approve, Reject, Pay, Close, OfKind
  <2>2. \/ UNCHANGED job /\ job[w].phase = "idle"
        \/ /\ job'[w].phase = "read" /\ job'[w].id = l
           /\ job'[w].op \in {"confirm", "cancel"}
           /\ job'[w].rec.kind = log[l].kind /\ job'[w].rec.flow = log[l].flow
           /\ job'[w].rec.status = log[l].status
    <3>1. ASSUME NEW op \in {"confirm", "cancel"}, NEW rec \in LogRecord,
                 StartEdit(w, l, op, rec)
          PROVE  /\ job'[w].phase = "read" /\ job'[w].id = l /\ job'[w].op = op
                 /\ job'[w].rec = rec
      BY <1>0, <3>1 DEF StartEdit, Idle
    <3>2. log[l] \in LogRecord
      BY <1>0
    <3>3. CASE Approve(w, l) \/ Reject(w, l) \/ Close(w, l)
      BY <3>1, <3>2, <3>3 DEF Approve, Reject, Close
    <3>4. CASE Pay(w, l)
      <4>1. log[l].status \in {"CONFIRMED", "PENDING"}
        BY <3>2, <3>4 DEF Pay, OpenPurchasesStand, OfKind, Used, LogRecord, LogStatus
      <4>2. log[l].status = "PENDING" => [log[l] EXCEPT !.status = "PENDING"] = log[l]
        BY <3>2 DEF LogRecord
      <4> QED BY <3>1, <3>2, <3>4, <4>1, <4>2 DEF Pay
    <3> QED BY <1>4, <3>3, <3>4
  <2>3. CopiesFresh'
    BY <2>1, <2>2 DEF Serial, CopiesFresh, Fresh, Editing, Used
  <2>4. OpenPurchasesStand'
    <3>1. CASE Pay(w, l) \/ Close(w, l)
      BY <3>1 DEF Pay, Close, OpenPurchasesStand
    <3>2. CASE Reject(w, l)
      <4>1. UNCHANGED order /\ ("pay" \in Edits => log[l].kind # "consum")
        BY <3>2 DEF NotBoth, Reject
      <4> QED BY <2>1, <2>2, <4>1 DEF Serial, OpenPurchasesStand, OfKind, Used, Editing
    <3>3. CASE Approve(w, l)
      <4>1. job'[w].op = "confirm" /\ UNCHANGED order
        BY <1>0, <3>3 DEF Approve, StartEdit, Idle
      <4> QED BY <2>1, <4>1 DEF Serial, OpenPurchasesStand, OfKind, Used, Editing
    <3> QED BY <1>4, <3>1, <3>2, <3>3
  <2> QED BY <1>0, <2>1, <2>3, <2>4, NothingMoves
<1>5. ASSUME NEW l \in LogId, Repend(l)
      PROVE  SerialInv' /\ \A c \in Counter : OneRecordMoves(c)
  <2>1. PICK f \in Flow : log' = [log EXCEPT ![l].flow = f]
    BY <1>5 DEF Repend
  <2>2. /\ log[l].kind = "carry" /\ log[l].status = "PENDING"
        /\ UNCHANGED <<row, order, job>>
    BY <1>5 DEF Repend, OfKind
  <2>3. \A m \in LogId : /\ log'[m].kind = log[m].kind
                         /\ log'[m].status = log[m].status
                         /\ m # l => log'[m] = log[m]
    BY <1>0, <2>1 DEF LogRecord
  <2>4. CopiesFresh'
    <3> SUFFICES ASSUME NEW w \in Worker PROVE Fresh(w)'
      BY DEF CopiesFresh
    <3>1. Editing(w) /\ job[w].id = l => /\ TypeOf(job[w].rec.kind) = "IN"
                                         /\ job[w].rec.status = "PENDING"
      BY <2>2 DEF CopiesFresh, Fresh, TypeOf
    <3>2. Editing(w) => job[w].id \in LogId
      BY DEF CopiesFresh, Fresh, Used
    <3> QED BY <1>0, <2>2, <2>3, <3>1, <3>2, FreshSame DEF CopiesFresh
  <2>5. OpenPurchasesStand'
    BY <2>2, <2>3 DEF OpenPurchasesStand, OfKind, Used, Editing
  <2>6. \A c \in Counter : LogEffect(l, c) = 0 /\ LogEffect(l, c)' = 0
    BY <2>2, <2>3 DEF LogEffect, TypeOf, Effect, NoMove, Delta
  <2>7. \A c \in Counter : row'[c] - row[c] = LogEffect(l, c)' - LogEffect(l, c)
    BY <1>0, <2>2, <2>6 DEF TypeOK
  <2>8. \E r : log' = [log EXCEPT ![l] = r]
    BY <2>1
  <2> QED BY <1>0, <2>4, <2>5, <2>7, <2>8, OneWritten
<1>6. CASE UNCHANGED vars
  <2>1. CopiesFresh' /\ OpenPurchasesStand'
    BY <1>6 DEF vars, CopiesFresh, Fresh, OpenPurchasesStand, Editing, OfKind, Used
  <2> QED BY <1>0, <1>6, <2>1, NothingMoves DEF vars
<1> QED BY <1>1, <1>2, <1>3, <1>4, <1>5, <1>6 DEF Next

\* No worker holds a copy yet.
LEMMA SerialInit == Init => SerialInv
BY TypeInit DEF Init, SerialInv, CopiesFresh, Fresh, OpenPurchasesStand, Editing,
   Idle, NoRecord, OfKind, Used

\* Without overlap, and without purchases rejected by hand, the balance moves
\* only with a record and by what that record counts for: confirm_budget_log
\* and cancel_budget_log repair exactly what they change, on every path.
THEOREM SerialBalance ==
    ASSUME Serial, NotBoth
    PROVE  Spec => AmountFollowsLogs
<1>1. SerialInv /\ [Next]_vars => SerialInv' /\ [OneRecordMoves("amount")]_vars
  BY SerialStep DEF Counter
<1> QED BY <1>1, SerialInit, PTL DEF Spec, AmountFollowsLogs

-----------------------------------------------------------------------------
(***************************************************************************)
(* What the records add up to.                                             *)
(***************************************************************************)

\* What a record counts for is an amount.
LEMMA EffectType ==
    ASSUME NEW r \in LogRecord, NEW c \in Counter
    PROVE  (IF r.status = "NONE" THEN 0
            ELSE Delta(Effect(TypeOf(r.kind), r.status, r.flow), c)) \in Int
<1>1. r.kind \in Kind /\ r.flow \in Int /\ r.status \in LogStatus \cup {"NONE"}
  BY DEF LogRecord
<1>2. TypeOf(r.kind) \in BudgetType
  BY <1>1 DEF TypeOf, BudgetType, Kind
<1>3. IsMove(Effect(TypeOf(r.kind), r.status, r.flow))
  BY <1>1, <1>2, MovesAreMoves
<1> QED BY <1>3 DEF Delta, IsMove

\* A counter that moves with one record stays the total of all records.
LEMMA AuditedStep ==
    ASSUME TypeOK, TypeOK', NEW c \in Counter, Audited(c), OneRecordMoves(c)
    PROVE  Audited(c)'
<1> DEFINE f == [l \in LogId |-> LogEffect(l, c)]
           g == [l \in LogId |-> LogEffect(l, c)']
           start == IF c = "expense" THEN 0 ELSE StartAmount
<1>1. PICK y \in LogId \cup {0} :
        /\ \A m \in LogId \ {y} : LogEffect(m, c)' = LogEffect(m, c)
        /\ row'[c] - row[c] = IF y = 0 THEN 0 ELSE LogEffect(y, c)' - LogEffect(y, c)
  BY DEF OneRecordMoves
<1>2. \A l \in LogId : LogEffect(l, c) \in Int /\ LogEffect(l, c)' \in Int
  <2>1. \A l \in LogId : log[l] \in LogRecord /\ log'[l] \in LogRecord
    BY DEF TypeOK
  <2> QED BY <2>1, EffectType DEF LogEffect
<1>3. /\ SumFunctionOnSet(f, LogId) \in Int
      /\ SumFunctionOnSet(g, LogId) =
           SumFunctionOnSet(f, LogId) + IF y \in LogId THEN g[y] - f[y] ELSE 0
  <2>1. IsFiniteSet(LogId) /\ \A x \in LogId : f[x] \in Int /\ g[x] \in Int
    BY <1>2, UserBudgetAssumption
  <2>2. \A x \in LogId \ {y} : g[x] = f[x]
    BY <1>1
  <2> HIDE DEF f, g
  <2> QED BY <2>1, <2>2, SumStep
<1>4. row[c] = start + SumFunctionOnSet(f, LogId)
  BY DEF Audited
<1>5. row'[c] - row[c] = IF y \in LogId THEN g[y] - f[y] ELSE 0
  BY <1>1, UserBudgetAssumption
<1>6. row[c] \in Int /\ row'[c] \in Int /\ start \in Int
  BY UserBudgetAssumption DEF TypeOK
<1>7. row'[c] = start + SumFunctionOnSet(g, LogId)
  <2> DEFINE d == IF y \in LogId THEN g[y] - f[y] ELSE 0
  <2>1. d \in Int
    BY <1>2
  <2> HIDE DEF d, f, g, start
  <2>2. /\ SumFunctionOnSet(g, LogId) = SumFunctionOnSet(f, LogId) + d
        /\ row'[c] - row[c] = d
    BY <1>3, <1>5 DEF d
  <2> QED BY <1>3, <1>4, <1>6, <2>1, <2>2
<1> QED BY <1>7 DEF Audited

\* No record counts for anything when the day begins.
LEMMA AuditedInit == Init => \A c \in Counter : Audited(c)
<1> SUFFICES ASSUME Init, NEW c \in Counter PROVE Audited(c)
  OBVIOUS
<1>1. \A l \in LogId : LogEffect(l, c) = 0
  BY DEF Init, LogEffect, NoRecord
<1>2. SumFunctionOnSet([l \in LogId |-> LogEffect(l, c)], LogId) = 0
  BY <1>1, SumZero, UserBudgetAssumption
<1> QED BY <1>2, UserBudgetAssumption DEF Init, Audited

\* Without overlap the three counters of the wallet are at all times what the
\* records add up to: the daily audit and the recomputation of a wallet find
\* nothing to repair.
THEOREM SerialAudit ==
    ASSUME Serial, NotBoth
    PROVE  Spec => []RowMatchesLogs
<1>1. Init => SerialInv /\ RowMatchesLogs
  BY SerialInit, AuditedInit DEF RowMatchesLogs
<1>2. SerialInv /\ RowMatchesLogs /\ [Next]_vars => SerialInv' /\ RowMatchesLogs'
  BY SerialStep, AuditedStep DEF SerialInv, RowMatchesLogs
<1> QED BY <1>1, <1>2, PTL DEF Spec

-----------------------------------------------------------------------------
(***************************************************************************)
(* The books.                                                              *)
(***************************************************************************)

\* What a record puts on the subject kept for cashouts of a status.
Posted(r, s) == IF r.kind = "cashout" /\ r.status = s THEN r.flow ELSE 0

\* The subjects of cashouts, with the status each stands for.
CashoutSubject == {<<"pending", "PENDING">>, <<"paidout", "CONFIRMED">>}

BooksFit ==
    \A p \in CashoutSubject :
      books[p[1]] = SumFunctionOnSet([l \in LogId |-> Posted(log[l], p[2])], LogId)

\* One record changes, and each subject by the change of what it puts there.
BooksFollow ==
    \E l \in LogId \cup {0} :
      /\ \A m \in LogId \ {l} : log'[m] = log[m]
      /\ \A p \in CashoutSubject :
           books'[p[1]] - books[p[1]] =
             IF l = 0 THEN 0 ELSE Posted(log'[l], p[2]) - Posted(log[l], p[2])

\* The total of a set of records is what all records put on its subject.
LEMMA BooksFitMatches == TypeOK => (BooksFit <=> BooksMatchCashouts)
<1> SUFFICES ASSUME TypeOK PROVE BooksFit <=> BooksMatchCashouts
  OBVIOUS
<1> DEFINE Total(s) == SumFunctionOnSet([l \in LogId |-> log[l].flow],
                                        {l \in OfKind("cashout") : log[l].status = s})
<1>1. ASSUME NEW s \in LogStatus
      PROVE  Total(s) = SumFunctionOnSet([l \in LogId |-> Posted(log[l], s)], LogId)
  <2> DEFINE T == {l \in OfKind("cashout") : log[l].status = s}
             f == [l \in LogId |-> log[l].flow]
             g == [l \in LogId |-> Posted(log[l], s)]
  <2>1. T \in SUBSET LogId /\ \A l \in T : f[l] \in Int
    BY DEF OfKind, Used, TypeOK, LogRecord
  <2>2. \A l \in LogId : g[l] = IF l \in T THEN f[l] ELSE 0
    BY DEF OfKind, Used, Posted, LogStatus
  <2>3. IsFiniteSet(LogId)
    BY UserBudgetAssumption
  <2> HIDE DEF T, f, g
  <2>4. SumFunctionOnSet(f, T) = SumFunctionOnSet(g, LogId)
    BY <2>1, <2>2, <2>3, SumSubset
  <2> QED BY <2>4 DEF T, f, g
<1>2. BooksMatchCashouts <=> books["pending"] = Total("PENDING") /\ books["paidout"] = Total("CONFIRMED")
  BY DEF BooksMatchCashouts
<1> HIDE DEF Total
<1> QED BY <1>1, <1>2 DEF BooksFit, CashoutSubject, LogStatus

\* On every path the entries move each subject of cashouts by the change of
\* what the record puts there.
LEMMA EntriesFollow ==
    ASSUME NEW b \in [Subject -> Int], NEW k \in Kind, NEW s \in LogStatus, NEW f \in Int,
           NEW p \in CashoutSubject
    PROVE  LET At(status) == IF k = "cashout" /\ status = p[2] THEN f ELSE 0 IN
           /\ s # "CANCELED" => CreateBooks(b, k, s, f)[p[1]] - b[p[1]] = At(s)
           /\ ConfirmBooks(b, k, s, f)[p[1]] - b[p[1]] = At("CONFIRMED") - At(s)
           /\ CancelBooks(b, k, s, f)[p[1]] - b[p[1]] = At("CANCELED") - At(s)
BY DEF CreateBooks, ConfirmBooks, CancelBooks, Post, Subject, Kind, LogStatus, CashoutSubject

\* Without overlap every step is one of these, or leaves the books alone.
LEMMA BooksStep ==
    ASSUME Serial, SerialInv, [Next]_vars
    PROVE  BooksFollow
<1> USE UserBudgetAssumption
<1>0. /\ TypeOK /\ log \in [LogId -> LogRecord] /\ books \in [Subject -> Int]
      /\ job \in [Worker -> Job]
      /\ \A p \in CashoutSubject : p[1] \in Subject /\ p[2] \in LogStatus
  BY DEF SerialInv, TypeOK, CashoutSubject, Subject, LogStatus
<1>1. ASSUME UNCHANGED books, NEW y \in LogId \cup {0},
             \A m \in LogId \ {y} : log'[m] = log[m],
             y # 0 => log[y].kind = "carry" /\ log'[y].kind = "carry"
      PROVE  BooksFollow
  <2>1. \A p \in CashoutSubject : books'[p[1]] - books[p[1]] = 0
    BY <1>0, <1>1
  <2>2. y # 0 => \A p \in CashoutSubject : Posted(log'[y], p[2]) = 0 /\ Posted(log[y], p[2]) = 0
    BY <1>1 DEF Posted
  <2> QED BY <1>1, <2>1, <2>2 DEF BooksFollow
<1>2. CASE UNCHANGED <<log, books>>
  BY <1>1, <1>2
<1>3. ASSUME NEW l \in LogId, Repend(l) PROVE BooksFollow
  <2>1. PICK f \in Flow : log' = [log EXCEPT ![l].flow = f]
    BY <1>3 DEF Repend
  <2>2. log[l].kind = "carry" /\ UNCHANGED books
    BY <1>3 DEF Repend, OfKind
  <2>3. log'[l].kind = "carry" /\ \A m \in LogId \ {l} : log'[m] = log[m]
    BY <1>0, <2>1, <2>2 DEF LogRecord
  <2> QED BY <1>1, <2>2, <2>3
<1>4. ASSUME NEW w \in Worker, CommitCreate(w), ~UNCHANGED <<log, books>>
      PROVE  BooksFollow
  <2> DEFINE r == job[w].rec
  <2>1. /\ r \in LogRecord /\ r.kind \in Kind /\ r.flow \in Int
        /\ r.status \in {"CONFIRMED", "PENDING"}
    BY <1>4, Writing DEF CommitCreate
  <2>2. PICK l \in LogId \ Used : log' = [log EXCEPT ![l] = r]
    BY <1>4 DEF CommitCreate
  <2>3. books' = CreateBooks(books, r.kind, r.status, r.flow)
    BY <1>4 DEF CommitCreate
  <2>4. log'[l] = r /\ log[l].status = "NONE" /\ \A m \in LogId \ {l} : log'[m] = log[m]
    BY <1>0, <2>2 DEF Used
  <2>5. ASSUME NEW p \in CashoutSubject
        PROVE  books'[p[1]] - books[p[1]] = Posted(log'[l], p[2]) - Posted(log[l], p[2])
    <3>1. books'[p[1]] - books[p[1]] = IF r.kind = "cashout" /\ r.status = p[2] THEN r.flow ELSE 0
      BY <1>0, <2>1, <2>3, EntriesFollow DEF LogStatus
    <3>2. Posted(log[l], p[2]) = 0
      BY <1>0, <2>4 DEF Posted, LogStatus
    <3>3. Posted(log'[l], p[2]) = IF r.kind = "cashout" /\ r.status = p[2] THEN r.flow ELSE 0
      BY <2>4 DEF Posted
    <3> QED BY <2>1, <3>1, <3>2, <3>3
  <2> QED BY <2>4, <2>5 DEF BooksFollow
<1>5. ASSUME NEW w \in Worker, CommitConfirm(w) \/ CommitCancel(w)
      PROVE  BooksFollow
  <2> DEFINE r == job[w].rec
             to == IF CommitConfirm(w) THEN "CONFIRMED" ELSE "CANCELED"
  <2>1. PICK i \in LogId : i = job[w].id
    BY <1>5, Writing DEF CommitConfirm, CommitCancel
  <2>2. /\ r \in LogRecord /\ r.kind \in Kind /\ r.flow \in Int
        /\ r.status \in LogStatus /\ log[i].status = r.status
        /\ log[i].kind = r.kind
        /\ r.kind = "cashout" => r.flow = log[i].flow
    BY <1>5, <2>1, Writing DEF CommitConfirm, CommitCancel, TypeOf
  <2>3. /\ log' = [log EXCEPT ![i] = [r EXCEPT !.status = to]]
        /\ books' = IF CommitConfirm(w) THEN ConfirmBooks(books, r.kind, r.status, r.flow)
                    ELSE CancelBooks(books, r.kind, r.status, r.flow)
    BY <1>5, <2>1 DEF CommitConfirm, CommitCancel
  <2>4. /\ \A m \in LogId \ {i} : log'[m] = log[m]
        /\ log'[i].kind = r.kind /\ log'[i].status = to /\ log'[i].flow = r.flow
    BY <1>0, <2>2, <2>3 DEF LogRecord
  <2>5. ASSUME NEW p \in CashoutSubject
        PROVE  books'[p[1]] - books[p[1]] = Posted(log'[i], p[2]) - Posted(log[i], p[2])
    <3> DEFINE At(status) == IF r.kind = "cashout" /\ status = p[2] THEN r.flow ELSE 0
    <3>1. books'[p[1]] - books[p[1]] = At(to) - At(r.status)
      BY <1>0, <2>2, <2>3, EntriesFollow
    <3>2. Posted(log[i], p[2]) = At(r.status)
      BY <2>2 DEF Posted
    <3>3. Posted(log'[i], p[2]) = At(to)
      <4> HIDE DEF to
      <4> QED BY <2>4 DEF Posted
    <3> HIDE DEF At, to, r
    <3> QED BY <3>1, <3>2, <3>3
  <2> QED BY <2>4, <2>5, UserBudgetAssumption DEF BooksFollow
<1> QED BY <1>2, <1>3, <1>4, <1>5
    DEF Next, vars, RequestCreate, GenKey, ReadRow, LockRow, Approve, Reject, Pay, Close

\* The subjects follow, hence fit.
LEMMA BooksFitStep ==
    ASSUME TypeOK, TypeOK', BooksFit, BooksFollow
    PROVE  BooksFit'
<1> SUFFICES ASSUME NEW p \in CashoutSubject
             PROVE  books'[p[1]] =
                      SumFunctionOnSet([l \in LogId |-> Posted(log'[l], p[2])], LogId)
  BY DEF BooksFit
<1> DEFINE f == [l \in LogId |-> Posted(log[l], p[2])]
           g == [l \in LogId |-> Posted(log'[l], p[2])]
<1>1. PICK y \in LogId \cup {0} :
        /\ \A m \in LogId \ {y} : log'[m] = log[m]
        /\ books'[p[1]] - books[p[1]] =
             IF y = 0 THEN 0 ELSE Posted(log'[y], p[2]) - Posted(log[y], p[2])
  BY DEF BooksFollow
<1>2. \A l \in LogId : f[l] \in Int /\ g[l] \in Int
  BY DEF TypeOK, LogRecord, Posted
<1>3. /\ SumFunctionOnSet(f, LogId) \in Int
      /\ SumFunctionOnSet(g, LogId) =
           SumFunctionOnSet(f, LogId) + IF y \in LogId THEN g[y] - f[y] ELSE 0
  <2>1. \A x \in LogId \ {y} : g[x] = f[x]
    BY <1>1
  <2> HIDE DEF f, g
  <2> QED BY <1>2, <2>1, SumStep, UserBudgetAssumption
<1>4. books[p[1]] = SumFunctionOnSet(f, LogId) /\ books'[p[1]] \in Int
  BY DEF BooksFit, TypeOK, CashoutSubject, Subject
<1> DEFINE d == IF y \in LogId THEN g[y] - f[y] ELSE 0
<1>5. d \in Int /\ books'[p[1]] - books[p[1]] = d
  BY <1>1, <1>2, UserBudgetAssumption
<1>6. SumFunctionOnSet(g, LogId) = SumFunctionOnSet(f, LogId) + d
  BY <1>3
<1>7. books'[p[1]] = SumFunctionOnSet(g, LogId)
  <2> HIDE DEF d, f, g
  <2> QED BY <1>3, <1>4, <1>5, <1>6
<1> QED BY <1>7

\* Without overlap the books show as pending and as paid out exactly the
\* cashouts that are: no path posts an entry twice or to the wrong subject.
THEOREM SerialBooks ==
    ASSUME Serial, NotBoth
    PROVE  Spec => []BooksMatchCashouts
<1>1. Init => SerialInv /\ BooksFit
  <2> SUFFICES ASSUME Init, NEW p \in CashoutSubject
               PROVE  SumFunctionOnSet([l \in LogId |-> Posted(log[l], p[2])], LogId) = 0
    BY SerialInit DEF Init, BooksFit, CashoutSubject, Subject
  <2>1. \A l \in LogId : Posted(log[l], p[2]) = 0
    BY DEF Init, NoRecord, Posted
  <2> QED BY <2>1, SumZero, UserBudgetAssumption
<1>2. SerialInv /\ BooksFit /\ [Next]_vars => SerialInv' /\ BooksFit'
  BY SerialStep, BooksStep, BooksFitStep DEF SerialInv
<1>3. SerialInv /\ BooksFit => BooksMatchCashouts
  BY BooksFitMatches DEF SerialInv
<1> QED BY <1>1, <1>2, <1>3, PTL DEF Spec

-----------------------------------------------------------------------------
(***************************************************************************)
(* The balance under concurrent requests, when every record that is        *)
(* created assigns it and none is corrected afterwards: the UPDATE adds to *)
(* what the row holds, so that it does not matter what was loaded.         *)
(***************************************************************************)
NoCorrections == Edits = {} /\ Rejects = {}
AllAssign     == \A c \in Creates : TypeOf(c[1]) = "IN" => c[2] = "CONFIRMED"

\* Workers create records only, of those kinds and statuses.
OnlyCreating ==
    \A w \in Worker :
      job[w].phase # "idle" =>
        /\ job[w].op = "create"
        /\ job[w].rec.status \in {"CONFIRMED", "PENDING"}
        /\ TypeOf(job[w].rec.kind) = "IN" => job[w].rec.status = "CONFIRMED"

\* Any number of workers: a step moves the balance with one record.
LEMMA CreatesFollow ==
    ASSUME NoCorrections, AllAssign, TypeOK, OnlyCreating, [Next]_vars
    PROVE  OnlyCreating' /\ OneRecordMoves("amount")
<1> USE UserBudgetAssumption
<1>0. /\ row \in [Counter -> Int] /\ log \in [LogId -> LogRecord]
      /\ job \in [Worker -> Job] /\ "amount" \in Counter
  BY DEF TypeOK, Counter
<1>1. CASE UNCHANGED vars
  BY <1>0, <1>1, NothingMoves DEF vars, OnlyCreating
<1>2. ASSUME NEW w \in Worker, RequestCreate(w)
      PROVE  OnlyCreating' /\ OneRecordMoves("amount")
  <2>1. PICK c \in Creates, f \in Flow :
          job' = [job EXCEPT ![w] =
            [Idle EXCEPT !.phase = "count", !.op = "create",
               !.rec = [kind |-> c[1], status |-> c[2], flow |-> f, key |-> 0]]]
    BY <1>2 DEF RequestCreate
  <2>2. /\ job'[w].op = "create" /\ job'[w].rec.status = c[2] /\ job'[w].rec.kind = c[1]
        /\ \A v \in Worker \ {w} : job'[v] = job[v]
    BY <1>0, <2>1 DEF Idle
  <2>3. OnlyCreating'
    BY <2>2 DEF OnlyCreating, AllAssign
  <2> QED BY <1>0, <1>2, <2>3, NothingMoves DEF RequestCreate
<1>3. ASSUME NEW w \in Worker, GenKey(w) \/ ReadRow(w) \/ LockRow(w)
      PROVE  OnlyCreating' /\ OneRecordMoves("amount")
  <2>1. job[w] \in Job /\ job[w].rec \in LogRecord
    BY <1>0 DEF Job
  <2>2. \/ job' = [job EXCEPT ![w] = Idle]
        \/ job' = [job EXCEPT ![w] = [job[w] EXCEPT !.phase = "write", !.loaded = row]]
        \/ \E n : job' = [job EXCEPT ![w] = [job[w] EXCEPT !.phase = "read", !.rec.key = n]]
    BY <1>3 DEF GenKey, ReadRow, LockRow
  <2>3. /\ \A v \in Worker \ {w} : job'[v] = job[v]
        /\ \/ job'[w] = Idle
           \/ job'[w] = [job[w] EXCEPT !.phase = "write", !.loaded = row]
           \/ \E n : job'[w] = [job[w] EXCEPT !.phase = "read", !.rec.key = n]
    BY <1>0, <2>2
  <2>4. \/ job'[w].phase = "idle"
        \/ /\ job'[w].op = job[w].op /\ job'[w].rec.kind = job[w].rec.kind
           /\ job'[w].rec.status = job[w].rec.status
    <3>1. CASE job'[w] = Idle
      BY <3>1 DEF Idle
    <3>2. CASE job'[w] = [job[w] EXCEPT !.phase = "write", !.loaded = row]
      BY <2>1, <3>2 DEF Job
    <3>3. ASSUME NEW n, job'[w] = [job[w] EXCEPT !.phase = "read", !.rec.key = n]
          PROVE  /\ job'[w].op = job[w].op /\ job'[w].rec.kind = job[w].rec.kind
                 /\ job'[w].rec.status = job[w].rec.status
      <4>1. job'[w].op = job[w].op /\ job'[w].rec = [job[w].rec EXCEPT !.key = n]
        BY <2>1, <3>3 DEF Job
      <4> QED BY <2>1, <4>1 DEF LogRecord
    <3> QED BY <2>3, <3>1, <3>2, <3>3
  <2>5. job[w].phase # "idle" /\ UNCHANGED <<row, log>>
    BY <1>3 DEF GenKey, ReadRow, LockRow
  <2>6. OnlyCreating'
    <3> SUFFICES ASSUME NEW v \in Worker, job'[v].phase # "idle"
                 PROVE  /\ job'[v].op = "create"
                        /\ job'[v].rec.status \in {"CONFIRMED", "PENDING"}
                        /\ TypeOf(job'[v].rec.kind) = "IN" => job'[v].rec.status = "CONFIRMED"
      BY DEF OnlyCreating
    <3>1. CASE v # w
      BY <2>3, <3>1 DEF OnlyCreating
    <3>2. CASE v = w
      BY <2>4, <2>5, <3>2 DEF OnlyCreating
    <3> QED BY <3>1, <3>2
  <2> QED BY <1>0, <2>5, <2>6, NothingMoves
<1>4. ASSUME NEW w \in Worker, CommitCreate(w)
      PROVE  OnlyCreating' /\ OneRecordMoves("amount")
  <2> DEFINE r == job[w].rec
             t == TypeOf(r.kind)
             mv == CreateMove(t, r.status, r.flow)
  <2>1. /\ r \in LogRecord /\ r.kind \in Kind /\ r.flow \in Int
        /\ r.status \in {"CONFIRMED", "PENDING"}
        /\ t = "IN" => r.status = "CONFIRMED"
    BY <1>0, <1>4 DEF CommitCreate, OnlyCreating, Job, LogRecord
  <2>2. OnlyCreating'
    BY <1>0, <1>4 DEF CommitCreate, OnlyCreating, Idle
  <2>3. CASE UNCHANGED <<row, log>>
    BY <1>0, <2>2, <2>3, NothingMoves
  <2>4. CASE ~UNCHANGED <<row, log>>
    <3>1. PICK l \in LogId \ Used : log' = [log EXCEPT ![l] = r]
      BY <1>4, <2>4 DEF CommitCreate
    <3>2. row' = SaveRow(row, job[w].loaded, mv)
      BY <1>4, <2>4 DEF CommitCreate
    <3>3. t \in BudgetType /\ IsMove(mv) /\ r.status \in LogStatus
      BY <2>1, MovesAreMoves DEF BudgetType, LogStatus, TypeOf
    <3>4. "amount" \in DOMAIN mv
      BY <2>1 DEF CreateMove, Income, Expense, TypeOf, BudgetType
    <3>5. row'["amount"] = row["amount"] + Delta(mv, "amount")
      BY <1>0, <3>2, <3>4 DEF SaveRow, Delta
    <3>6. Delta(mv, "amount") = Delta(Effect(t, r.status, r.flow), "amount")
      BY <1>0, <2>1, <3>3, MovesFollowEffects
    <3>7. LogEffect(l, "amount") = 0
      BY <3>1 DEF LogEffect, Used
    <3>8. LogEffect(l, "amount")' = Delta(Effect(t, r.status, r.flow), "amount")
      <4>1. log'[l] = r
        BY <1>0, <3>1
      <4> QED BY <2>1, <4>1 DEF LogEffect
    <3>9. Delta(mv, "amount") \in Int /\ row["amount"] \in Int
      BY <1>0, <3>3 DEF Delta, IsMove
    <3>10. row'["amount"] - row["amount"] = LogEffect(l, "amount")' - LogEffect(l, "amount")
      <4> HIDE DEF mv
      <4> QED BY <3>5, <3>6, <3>7, <3>8, <3>9
    <3> QED BY <1>0, <2>2, <3>1, <3>10, OneWritten
  <2> QED BY <2>3, <2>4
<1>5. \A w \in Worker : ~CommitConfirm(w) /\ ~CommitCancel(w)
  BY DEF CommitConfirm, CommitCancel, OnlyCreating
<1>6. \A l \in LogId : /\ ~Repend(l)
                       /\ \A w \in Worker : ~Approve(w, l) /\ ~Reject(w, l) /\ ~Pay(w, l) /\ ~Close(w, l)
  BY DEF NoCorrections, Repend, Approve, Reject, Pay, Close
<1> QED BY <1>1, <1>2, <1>3, <1>4, <1>5, <1>6 DEF Next

\* However many requests overlap, cashouts, purchases, refunds and confirmed
\* incomes leave the balance at what the records add up to: F() and the unique
\* key are enough for them, without a lock.
THEOREM ConcurrentBalance ==
    ASSUME NoCorrections, AllAssign
    PROVE  Spec => []AmountMatchesLogs
<1>1. Init => TypeOK /\ OnlyCreating /\ AmountMatchesLogs
  BY TypeInit, AuditedInit DEF AmountMatchesLogs, Counter, Init, OnlyCreating, Idle
<1>2. TypeOK /\ OnlyCreating /\ AmountMatchesLogs /\ [Next]_vars
        => TypeOK' /\ OnlyCreating' /\ AmountMatchesLogs'
  BY TypeStep, CreatesFollow, AuditedStep DEF AmountMatchesLogs, Counter
<1> QED BY <1>1, <1>2, PTL DEF Spec
=============================================================================
