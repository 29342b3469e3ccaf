--------------------------- MODULE Packing_proofs ---------------------------
(***************************************************************************)
(* Proofs about Packing for any number of items, packages and purchase     *)
(* orders: purchasing follows the items, packages leave with what was      *)
(* scanned, items keep the warehouse's promise, the counters of SkuStock   *)
(* are the sums restat would compute, and no goods are set aside twice.    *)
(***************************************************************************)
EXTENDS Packing, Accounting_proofs

PsiRow  == [status : PsiStatus, assign : Assign, pack : {0} \cup Package, po : {0} \cup Purchase]
PaRow   == [status : {"none", "EFFECT", "CANCEL"}, po : Purchase,
            initial_book : BOOLEAN, gen_order : BOOLEAN, queued : Int]
PkgRow  == [sys : SysStatus, picking : BOOLEAN, express : BOOLEAN]
ScanRow == [items : SUBSET Item, reverted : BOOLEAN]

(* Rows have the types TypeOK gives them, counters aside.                  *)
RowsOK ==
    /\ psi \in [Item -> PsiRow]
    /\ pa \in [Item -> PaRow]
    /\ po \in Purchase
    /\ pkg \in [Package -> PkgRow]
    /\ scan \in [Package -> ScanRow]

(* A row exists from its creation on, only items with a row have an        *)
(* arrangement, and what batch_merge picks is set aside.                   *)
StatusInv ==
    \A i \in Item :
        /\ psi[i].status = "none" <=> psi[i].assign = "none"
        /\ pa[i].status # "none" => psi[i].assign # "none"
        /\ psi[i].status = "assigned" => psi[i].assign = "assigned"

(* What has been booked stays in effect and is in an earlier order.        *)
BookedInv ==
    \A i \in Item : pa[i].initial_book => pa[i].status = "EFFECT" /\ pa[i].po < po

(* A scanned package holds what was scanned, and its sheet is printed.     *)
ScanInv ==
    \A p \in Package :
        pkg[p].sys = "WEIGH" /\ ~scan[p].reverted
            => pkg[p].picking /\ scan[p].items = Contents(psi, p)

PackingInv ==
    RowsOK /\ StatusInv /\ BookedInv /\ WaitingIsBought /\ PackedInv /\ ScanInv

-----------------------------------------------------------------------------
(* An item that has not been sent leaves its package, if any: what remains *)
(* lies in an open package, which is not ready to be weighed any more.     *)
LEMMA LeavePackage ==
    ASSUME RowsOK, PackedInv, ScanInv, NEW i \in Item, NEW other \in BOOLEAN,
           psi[i].assign # "sent", psi' \in [Item -> PsiRow],
           \A j \in Item \ {i} : psi'[j] = psi[j],
           psi'[i].pack = 0,
           pkg' = Released(psi[i].pack, psi', other), scan' = scan
    PROVE  pkg' \in [Package -> PkgRow] /\ PackedInv' /\ ScanInv'
<1> DEFINE p == psi[i].pack
<1>1. p \in {0} \cup Package /\ 0 \notin Package
  BY DEF RowsOK, PsiRow, Package
<1>2. CASE p = 0
  <2>1. pkg' = pkg
    BY <1>2 DEF Released
  <2>2. \A j \in Item : psi'[j].pack # 0 => psi'[j] = psi[j]
    OBVIOUS
  <2>3. \A q \in Package : Contents(psi', q) = Contents(psi, q)
    BY <1>1, <1>2 DEF Contents
  <2> QED
    BY <2>1, <2>2, <2>3 DEF RowsOK, PackedInv, ScanInv, Sent, Contents
<1>3. CASE p # 0
  <2>1. p \in Package /\ psi[i].assign = "assigned" /\ pkg[p].sys \in OpenStatus /\ ~Sent(p)
    BY <1>1, <1>3 DEF PackedInv, OpenStatus, Sent, Gone
  <2> DEFINE left == \E j \in Contents(psi', p) : psi'[j].assign = "assigned"
  <2>2. pkg' = [pkg EXCEPT ![p] = IF left THEN SetLogistics(SetRedoSign(pkg[p]), other) ELSE Blank]
    BY <1>3, <2>1 DEF Released
  <2>3. pkg[p] \in PkgRow
    BY <2>1 DEF RowsOK
  <2>4. SetRedoSign(pkg[p]) \in PkgRow /\ SetRedoSign(pkg[p]).sys \in OpenStatus
        /\ (SetRedoSign(pkg[p]).sys = "WEIGH" => pkg[p].sys = "WEIGH" /\ ~pkg[p].picking)
    BY <2>1, <2>3 DEF SetRedoSign, PkgRow, SysStatus, OpenStatus, Gone
  <2>5. SetLogistics(SetRedoSign(pkg[p]), other) \in PkgRow
        /\ SetLogistics(SetRedoSign(pkg[p]), other).sys = SetRedoSign(pkg[p]).sys
    BY <2>4 DEF SetLogistics, PkgRow
  <2>6. Blank \in PkgRow /\ Blank.sys = "NEW"
    BY DEF Blank, PkgRow, SysStatus
  <2>7. pkg' \in [Package -> PkgRow]
    BY <2>1, <2>2, <2>5, <2>6 DEF RowsOK
  <2>8. \A q \in Package \ {p} : pkg'[q] = pkg[q] /\ Contents(psi', q) = Contents(psi, q)
    BY <2>2, <1>1 DEF RowsOK, Contents
  <2>9. pkg'[p] = IF left THEN SetLogistics(SetRedoSign(pkg[p]), other) ELSE Blank
    BY <2>1, <2>2 DEF RowsOK
  <2>10. PackedInv'
    <3> SUFFICES ASSUME NEW j \in Item, psi'[j].pack # 0
                 PROVE  \/ psi'[j].assign = "assigned" /\ pkg'[psi'[j].pack].sys \in OpenStatus
                        \/ psi'[j].assign = "sent" /\ pkg'[psi'[j].pack].sys \in Gone
      BY DEF PackedInv, Sent
    <3>1. psi'[j] = psi[j] /\ psi[j].pack \in Package
      BY DEF RowsOK, PsiRow
    <3>2. CASE psi[j].pack = p
      <4>1. psi[j].assign = "assigned"
        BY <2>1, <3>1, <3>2 DEF PackedInv
      <4>2. left
        BY <3>1, <3>2, <4>1 DEF Contents
      <4> QED
        BY <2>4, <2>5, <2>9, <3>1, <3>2, <4>1, <4>2
    <3>3. CASE psi[j].pack # p
      BY <2>8, <3>1, <3>3 DEF PackedInv, Sent
    <3> QED
      BY <3>2, <3>3
  <2>11. ScanInv'
    <3> SUFFICES ASSUME NEW q \in Package, pkg'[q].sys = "WEIGH", ~scan[q].reverted
                 PROVE  pkg'[q].picking /\ scan[q].items = Contents(psi', q)
      BY DEF ScanInv, Contents
    <3>1. CASE q = p
      <4>1. left /\ pkg[p].sys = "WEIGH" /\ ~pkg[p].picking
        BY <2>4, <2>5, <2>6, <2>9, <3>1
      <4> QED
        BY <2>1, <3>1, <4>1 DEF ScanInv
    <3>2. CASE q # p
      BY <2>8, <3>2 DEF ScanInv
    <3> QED
      BY <3>1, <3>2
  <2> QED
    BY <2>7, <2>10, <2>11
<1> QED
  BY <1>2, <1>3

(* Saving an arrangement changes its queue of tasks only.                   *)
LEMMA SaveKeeps ==
    ASSUME NEW r \in PaRow
    PROVE  /\ SavePa(r) \in PaRow
           /\ SavePa(r).status = r.status /\ SavePa(r).po = r.po
           /\ SavePa(r).initial_book = r.initial_book
<1>1. CASE r.gen_order
  BY <1>1 DEF SavePa
<1>2. CASE ~r.gen_order
  <2> DEFINE q == IF r.queued < MaxQueue THEN r.queued + 1 ELSE r.queued
  <2>1. q \in Int
    BY DEF PaRow
  <2>2. SavePa(r) = [r EXCEPT !.queued = q]
    BY <1>2 DEF SavePa
  <2> QED
    BY <2>1, <2>2 DEF PaRow
<1> QED
  BY <1>1, <1>2

(* SkuStock.assign gives goods to waiting items only.                      *)
LEMMA AssignKeeps ==
    ASSUME PackingInv, NEW S \in SUBSET Waiting, NEW s, SetAssigned(S, s),
           po' = po, scan' = scan
    PROVE  PackingInv'
<1>1. psi' = [j \in Item |-> IF j \in S THEN [psi[j] EXCEPT !.status = "assigned", !.assign = "assigned"] ELSE psi[j]]
      /\ pa' = [j \in Item |-> IF j \in S THEN CancelPa(pa[j]) ELSE pa[j]] /\ pkg' = pkg
  BY DEF SetAssigned
<1>2. \A j \in S : j \in Item /\ psi[j].assign = "waiting" /\ psi[j].pack = 0
                  /\ pa[j].status = "EFFECT"
  BY DEF Waiting, With, PackingInv, PackedInv, WaitingIsBought
<1>3. \A j \in S : /\ CancelPa(pa[j]) \in PaRow
                  /\ CancelPa(pa[j]).po = pa[j].po
                  /\ CancelPa(pa[j]).initial_book = pa[j].initial_book
                  /\ CancelPa(pa[j]).status = IF pa[j].initial_book THEN "EFFECT" ELSE "CANCEL"
  <2> SUFFICES ASSUME NEW j \in S
               PROVE  /\ CancelPa(pa[j]) \in PaRow
                      /\ CancelPa(pa[j]).po = pa[j].po
                      /\ CancelPa(pa[j]).initial_book = pa[j].initial_book
                      /\ CancelPa(pa[j]).status = IF pa[j].initial_book THEN "EFFECT" ELSE "CANCEL"
    OBVIOUS
  <2>1. pa[j] \in PaRow /\ pa[j].status = "EFFECT"
    BY <1>2 DEF PackingInv, RowsOK
  <2>2. [pa[j] EXCEPT !.status = "CANCEL"] \in PaRow
    BY <2>1 DEF PaRow
  <2> QED
    BY <2>1, <2>2, SaveKeeps DEF CancelPa, PaRow
<1>4. RowsOK'
  <2>1. ASSUME NEW j \in Item
        PROVE  [psi[j] EXCEPT !.status = "assigned", !.assign = "assigned"] \in PsiRow
    <3>1. psi[j] \in PsiRow
      BY DEF PackingInv, RowsOK
    <3> QED
      BY <3>1 DEF PsiRow, PsiStatus, Assign
  <2>2. psi' \in [Item -> PsiRow]
    BY <1>1, <2>1 DEF PackingInv, RowsOK
  <2>3. pa' \in [Item -> PaRow]
    BY <1>1, <1>3 DEF PackingInv, RowsOK
  <2> QED
    BY <1>1, <2>2, <2>3 DEF PackingInv, RowsOK
<1>5. ASSUME NEW j \in Item \ S PROVE psi'[j] = psi[j] /\ pa'[j] = pa[j]
  BY <1>1
<1>6. ASSUME NEW j \in S
      PROVE  /\ psi'[j].status = "assigned" /\ psi'[j].assign = "assigned"
             /\ psi'[j].pack = 0 /\ psi[j].pack = 0
             /\ pa'[j].initial_book = pa[j].initial_book /\ pa'[j].po = pa[j].po
             /\ pa'[j].status = IF pa[j].initial_book THEN "EFFECT" ELSE "CANCEL"
  <2>1. j \in Item /\ psi[j].pack = 0 /\ psi[j] \in PsiRow
    BY <1>2 DEF PackingInv, RowsOK
  <2>2. psi'[j] = [psi[j] EXCEPT !.status = "assigned", !.assign = "assigned"]
        /\ pa'[j] = CancelPa(pa[j])
    BY <1>1, <2>1
  <2> QED
    BY <1>3, <2>1, <2>2 DEF PsiRow
<1>7. StatusInv'
  <2>1. \A j \in Item \ S : /\ psi'[j].status = "none" <=> psi'[j].assign = "none"
                            /\ pa'[j].status # "none" => psi'[j].assign # "none"
                            /\ psi'[j].status = "assigned" => psi'[j].assign = "assigned"
    BY <1>5 DEF PackingInv, StatusInv
  <2> QED
    BY <1>6, <2>1 DEF StatusInv
<1>8. BookedInv'
  <2>1. \A j \in Item \ S : pa'[j].initial_book => pa'[j].status = "EFFECT" /\ pa'[j].po < po'
    BY <1>5 DEF PackingInv, BookedInv
  <2>2. \A j \in S : pa[j].initial_book => pa[j].po < po
    BY <1>2 DEF PackingInv, BookedInv
  <2> QED
    BY <1>6, <2>1, <2>2 DEF BookedInv
<1>9. WaitingIsBought'
  <2>1. \A j \in Item \ S : /\ psi'[j].assign = "waiting" => pa'[j].status = "EFFECT"
                            /\ pa'[j].status = "EFFECT" /\ ~pa'[j].initial_book
                                 => psi'[j].assign = "waiting" /\ pa'[j].po = po'
    BY <1>5 DEF PackingInv, WaitingIsBought, IsOpen
  <2> QED
    BY <1>6, <2>1 DEF WaitingIsBought, IsOpen
<1>10. \A j \in Item : psi'[j].pack = psi[j].pack /\ (psi[j].pack # 0 => psi'[j] = psi[j])
  BY <1>5, <1>6
<1>11. PackedInv'
  BY <1>1, <1>10 DEF PackingInv, PackedInv, Sent
<1>12. ScanInv'
  <2>1. \A q \in Package : Contents(psi', q) = Contents(psi, q)
    BY <1>10 DEF Contents
  <2> QED
    BY <1>1, <2>1 DEF PackingInv, ScanInv
<1> QED
  BY <1>4, <1>7, <1>8, <1>9, <1>11, <1>12 DEF PackingInv

(* An item whose goods are taken back waits again and is bought again.     *)
LEMMA ReleaseKeeps ==
    ASSUME PackingInv, NEW i \in Item, psi[i].assign = "assigned", NEW s,
           SetNotAssigned(i, s), po' = po, scan' = scan
    PROVE  PackingInv' /\ psi'[i].assign = "waiting"
           /\ \A j \in Item \ {i} : psi'[j] = psi[j]
<1> DEFINE back == pa[i].status = "CANCEL" /\ ~pa[i].initial_book
<1>1. psi' = [psi EXCEPT ![i].status = IF back THEN "prepare_book" ELSE "paid",
                         ![i].assign = "waiting", ![i].pack = 0]
      /\ pa' = [pa EXCEPT ![i] = RebookedPa(pa[i])]
      /\ pkg' = Released(psi[i].pack, psi', FALSE)
  BY DEF SetNotAssigned
<1>2. psi' \in [Item -> PsiRow] /\ psi'[i].assign = "waiting" /\ psi'[i].pack = 0
      /\ psi'[i].status \in {"paid", "prepare_book"}
      /\ \A j \in Item \ {i} : psi'[j] = psi[j]
  BY <1>1 DEF PackingInv, RowsOK, PsiRow, PsiStatus, Assign
<1>3. pkg' \in [Package -> PkgRow] /\ PackedInv' /\ ScanInv'
  BY <1>1, <1>2, LeavePackage DEF PackingInv
<1>4. RebookedPa(pa[i]) \in PaRow /\ RebookedPa(pa[i]).status = "EFFECT"
      /\ (RebookedPa(pa[i]).initial_book => RebookedPa(pa[i]) = pa[i])
      /\ (~RebookedPa(pa[i]).initial_book => RebookedPa(pa[i]).po = po)
  <2>1. NewPa \in PaRow /\ NewPa.status = "EFFECT" /\ ~NewPa.initial_book /\ NewPa.po = po
    <3>1. [status |-> "EFFECT", po |-> po, initial_book |-> FALSE,
            gen_order |-> FALSE, queued |-> 0] \in PaRow
      BY DEF PackingInv, RowsOK, PaRow
    <3> QED
      BY <3>1, SaveKeeps DEF NewPa
  <2>2. pa[i] \in PaRow /\ (pa[i].initial_book => pa[i].status = "EFFECT")
        /\ (pa[i].status = "EFFECT" => pa[i].initial_book)
    BY DEF PackingInv, RowsOK, BookedInv, WaitingIsBought
  <2>3. CASE back
    <3>1. RebookedPa(pa[i]) = [SavePa([pa[i] EXCEPT !.status = "EFFECT"]) EXCEPT !.po = po, !.gen_order = TRUE]
      BY <2>3 DEF RebookedPa
    <3>2. SavePa([pa[i] EXCEPT !.status = "EFFECT"]) \in PaRow
          /\ SavePa([pa[i] EXCEPT !.status = "EFFECT"]).status = "EFFECT"
          /\ ~SavePa([pa[i] EXCEPT !.status = "EFFECT"]).initial_book
      <4>1. [pa[i] EXCEPT !.status = "EFFECT"] \in PaRow
        BY <2>2 DEF PaRow
      <4> QED
        BY <2>2, <2>3, <4>1, SaveKeeps DEF PaRow
    <3> QED
      BY <3>1, <3>2 DEF PaRow, PackingInv, RowsOK
  <2>4. CASE ~back
    BY <2>1, <2>2, <2>4 DEF RebookedPa, PaRow
  <2> QED
    BY <2>3, <2>4
<1>5. RowsOK'
  BY <1>1, <1>2, <1>3, <1>4 DEF PackingInv, RowsOK
<1>6. StatusInv'
  BY <1>1, <1>2 DEF PackingInv, RowsOK, StatusInv
<1>7. BookedInv' /\ WaitingIsBought'
  BY <1>1, <1>2, <1>4 DEF PackingInv, RowsOK, BookedInv, WaitingIsBought, IsOpen
<1> QED
  BY <1>2, <1>3, <1>5, <1>6, <1>7 DEF PackingInv

(* Every movement of the stock leaves the items alone, sets some waiting   *)
(* items' goods aside, or takes one item's goods back.                     *)
LEMMA ReleaseCases ==
    ASSUME NEW s, RelaseAssign(s)
    PROVE  \/ UNCHANGED <<psi, pa, pkg>>
           \/ \E i \in Item : psi[i].assign = "assigned" /\ SetNotAssigned(i, s)
BY DEF RelaseAssign, With

LEMMA AssignCases ==
    ASSUME NEW s, NEW order, AssignGoods(s, order)
    PROVE  \/ UNCHANGED <<psi, pa, pkg>>
           \/ \E S \in SUBSET Waiting : SetAssigned(S, s)
           \/ \E i \in Item : psi[i].assign = "assigned" /\ SetNotAssigned(i, s)
<1>1. CASE FreeNum(s) < 0
  BY <1>1, ReleaseCases DEF AssignGoods
<1>2. CASE ~(FreeNum(s) < 0)
  <2>1. Chosen(FreeNum(s), order) \subseteq Waiting
    BY DEF Chosen, InOrder, Waiting, With
  <2> QED
    BY <1>2, <2>1 DEF AssignGoods
<1> QED
  BY <1>1, <1>2

-----------------------------------------------------------------------------
LEMMA InitPacking == Init => PackingInv
<1> SUFFICES ASSUME Init PROVE PackingInv
  OBVIOUS
<1>1. NoRow \in PsiRow /\ NoRow.status = "none" /\ NoRow.assign = "none" /\ NoRow.pack = 0
  BY DEF NoRow, PsiRow, PsiStatus, Assign
<1>2. NoPa \in PaRow /\ NoPa.status = "none" /\ ~NoPa.initial_book
  BY PackingAssumption DEF NoPa, PaRow, Purchase
<1>3. [Blank EXCEPT !.sys = "absent"] \in PkgRow /\ [Blank EXCEPT !.sys = "absent"].sys = "absent"
  BY DEF Blank, PkgRow, SysStatus
<1>4. NoScan \in ScanRow /\ po \in Purchase
  BY PackingAssumption DEF NoScan, ScanRow, Init, Purchase
<1> QED
  BY <1>1, <1>2, <1>3, <1>4 DEF Init, PackingInv, RowsOK, StatusInv, BookedInv,
     WaitingIsBought, PackedInv, ScanInv

(* Steps that change packages only.                                        *)
LEMMA PackageKeeps ==
    ASSUME PackingInv, NEW p \in Package, NEW row \in PkgRow,
           pkg' = [pkg EXCEPT ![p] = row],
           row.sys \in OpenStatus, pkg[p].sys \in OpenStatus,
           UNCHANGED <<psi, pa, po>>, scan' \in [Package -> ScanRow],
           \A q \in Package \ {p} : scan'[q] = scan[q],
           row.sys = "WEIGH" /\ ~scan'[p].reverted
               => row.picking /\ scan'[p].items = Contents(psi, p)
    PROVE  PackingInv'
<1>1. pkg'[p] = row /\ \A q \in Package \ {p} : pkg'[q] = pkg[q]
  BY DEF PackingInv, RowsOK
<1>2. RowsOK'
  BY DEF PackingInv, RowsOK
<1>3. StatusInv' /\ BookedInv' /\ WaitingIsBought'
  BY DEF PackingInv, StatusInv, BookedInv, WaitingIsBought, IsOpen
<1>4. PackedInv'
  <2> SUFFICES ASSUME NEW i \in Item, psi[i].pack # 0
               PROVE  \/ psi[i].assign = "assigned" /\ pkg'[psi[i].pack].sys \in OpenStatus
                      \/ psi[i].assign = "sent" /\ pkg'[psi[i].pack].sys \in Gone
    BY DEF PackedInv, Sent
  <2>1. psi[i].pack \in Package
    BY DEF PackingInv, RowsOK, PsiRow
  <2>2. OpenStatus \cap Gone = {}
    BY DEF OpenStatus, Gone
  <2> QED
    BY <1>1, <2>1, <2>2 DEF PackingInv, PackedInv, Sent
<1>5. ScanInv'
  BY <1>1 DEF PackingInv, ScanInv, Contents
<1> QED
  BY <1>2, <1>3, <1>4, <1>5 DEF PackingInv

(* In an open package everything is still to be sent.                      *)
LEMMA OpenContents ==
    ASSUME RowsOK, PackedInv, NEW p \in Package, pkg[p].sys \in OpenStatus
    PROVE  ToShip(p) = Contents(psi, p)
BY DEF PackedInv, ToShip, Contents, Sent, OpenStatus, Gone, Package

-----------------------------------------------------------------------------
LEMMA CreateKeeps == ASSUME PackingInv, NEW i \in Item, Create(i) PROVE PackingInv'
<1> DEFINE can == FreeNum(stock) >= Num[i]
<1>1. psi' = [psi EXCEPT ![i].status = IF can THEN "assigned" ELSE "paid",
                         ![i].assign = IF can THEN "assigned" ELSE "waiting"]
      /\ pa' = (IF can THEN pa ELSE [pa EXCEPT ![i] = NewPa])
      /\ UNCHANGED <<po, pkg, scan>> /\ psi[i].status = "none"
  BY DEF Create
<1> HIDE DEF can
<1>2. psi[i].assign = "none" /\ psi[i].pack = 0 /\ pa[i].status = "none" /\ ~pa[i].initial_book
  BY <1>1 DEF PackingInv, StatusInv, PackedInv, BookedInv, RowsOK, PaRow
<1>3. NewPa \in PaRow /\ NewPa.status = "EFFECT" /\ ~NewPa.initial_book /\ NewPa.po = po
  <2>1. [status |-> "EFFECT", po |-> po, initial_book |-> FALSE,
         gen_order |-> FALSE, queued |-> 0] \in PaRow
    BY DEF PackingInv, RowsOK, PaRow
  <2> QED
    BY <2>1, SaveKeeps DEF NewPa
<1>4. RowsOK'
  <2>1. psi' \in [Item -> PsiRow]
    <3>1. \A st \in PsiStatus, as \in Assign :
            [psi EXCEPT ![i].status = st, ![i].assign = as] \in [Item -> PsiRow]
      BY DEF PackingInv, RowsOK, PsiRow
    <3>2. (IF can THEN "assigned" ELSE "paid") \in PsiStatus
          /\ (IF can THEN "assigned" ELSE "waiting") \in Assign
      BY DEF PsiStatus, Assign
    <3> QED
      BY <1>1, <3>1, <3>2
  <2>2. pa' \in [Item -> PaRow]
    BY <1>1, <1>3 DEF PackingInv, RowsOK
  <2> QED
    BY <1>1, <2>1, <2>2 DEF PackingInv, RowsOK
<1>5. psi'[i].pack = 0 /\ (psi'[i].assign \in {"assigned", "waiting"})
      /\ psi'[i].status \in {"assigned", "paid"}
      /\ (psi'[i].status = "assigned" => psi'[i].assign = "assigned")
      /\ (psi'[i].assign = "waiting" => pa'[i] = NewPa)
      /\ (pa'[i] = pa[i] \/ (pa'[i] = NewPa /\ psi'[i].assign = "waiting"))
      /\ \A j \in Item \ {i} : psi'[j] = psi[j] /\ pa'[j] = pa[j]
  BY <1>1, <1>2 DEF PackingInv, RowsOK, PsiRow
<1>6. StatusInv'
  BY <1>5 DEF PackingInv, StatusInv
<1>7. BookedInv' /\ WaitingIsBought'
  <2>1. pa'[i].initial_book = FALSE /\ (pa'[i].status = "EFFECT" => pa'[i] = NewPa)
    BY <1>2, <1>3, <1>5 DEF PackingInv, RowsOK, PaRow
  <2>2. BookedInv'
    BY <1>1, <1>5, <2>1 DEF PackingInv, BookedInv
  <2>3. psi'[i].assign = "waiting" => pa'[i].status = "EFFECT"
    BY <1>3, <1>5
  <2>4. pa'[i].status = "EFFECT" => psi'[i].assign = "waiting" /\ pa'[i].po = po'
    BY <1>1, <1>2, <1>3, <1>5
  <2>5. WaitingIsBought'
    <3> SUFFICES ASSUME NEW j \in Item
                 PROVE  /\ psi'[j].assign = "waiting" => pa'[j].status = "EFFECT"
                        /\ pa'[j].status = "EFFECT" /\ ~pa'[j].initial_book
                              => psi'[j].assign = "waiting" /\ pa'[j].po = po'
      BY DEF WaitingIsBought, IsOpen
    <3>1. CASE j = i
      BY <2>3, <2>4, <3>1
    <3>2. CASE j # i
      <4>1. psi'[j] = psi[j] /\ pa'[j] = pa[j]
        BY <1>5, <3>2
      <4> QED
        BY <1>1, <4>1 DEF PackingInv, WaitingIsBought, IsOpen
    <3> QED
      BY <3>1, <3>2
  <2> QED
    BY <2>2, <2>5
<1>8. PackedInv'
  BY <1>1, <1>5 DEF PackingInv, PackedInv, Sent
<1>9. ScanInv'
  <2>1. \A q \in Package : Contents(psi', q) = Contents(psi, q)
    BY <1>2, <1>5 DEF Contents, Package
  <2> QED
    BY <1>1, <2>1 DEF PackingInv, ScanInv, Contents
<1> QED
  BY <1>4, <1>6, <1>7, <1>8, <1>9 DEF PackingInv

(* Generating the order changes an item's status only.                     *)
LEMMA GenerateKeeps ==
    ASSUME PackingInv, NEW i \in Item, pa[i].status # "none", NEW row \in PaRow,
           row.status = pa[i].status, row.po = pa[i].po, row.initial_book = pa[i].initial_book,
           pa' = [pa EXCEPT ![i] = row],
           psi' = psi \/ psi' = [psi EXCEPT ![i].status = "prepare_book"],
           UNCHANGED <<po, pkg, scan>>
    PROVE  PackingInv'
<1>1. RowsOK'
  <2>1. psi[i] \in PsiRow /\ psi \in [Item -> PsiRow]
    BY DEF PackingInv, RowsOK
  <2>2. [psi[i] EXCEPT !.status = "prepare_book"] \in PsiRow
    BY <2>1 DEF PsiRow, PsiStatus
  <2>3. psi' \in [Item -> PsiRow]
    BY <2>1, <2>2
  <2> QED
    BY <2>3 DEF PackingInv, RowsOK
<1>2. \A j \in Item : /\ psi'[j].assign = psi[j].assign /\ psi'[j].pack = psi[j].pack
                     /\ psi'[j].status \in {psi[j].status, "prepare_book"}
                     /\ (psi'[j].status # psi[j].status => psi[j].assign # "none")
                     /\ pa'[j].status = pa[j].status /\ pa'[j].po = pa[j].po
                     /\ pa'[j].initial_book = pa[j].initial_book
  BY DEF PackingInv, RowsOK, PsiRow, StatusInv
<1>3. StatusInv' /\ BookedInv' /\ WaitingIsBought'
  BY <1>2 DEF PackingInv, StatusInv, BookedInv, WaitingIsBought, IsOpen
<1>4. PackedInv' /\ ScanInv'
  BY <1>2 DEF PackingInv, PackedInv, ScanInv, Sent, Contents
<1> QED
  BY <1>1, <1>3, <1>4 DEF PackingInv

LEMMA RunTaskKeeps == ASSUME PackingInv, NEW i \in Item, RunTask(i) PROVE PackingInv'
<1> DEFINE row == [pa[i] EXCEPT !.queued = @ - 1]
           done == [pa[i] EXCEPT !.queued = @ - 1, !.gen_order = TRUE]
<1>1. pa[i] \in PaRow
  BY DEF PackingInv, RowsOK
<1>2. row \in PaRow /\ row.status = pa[i].status /\ row.po = pa[i].po
      /\ row.initial_book = pa[i].initial_book
  BY <1>1 DEF PaRow
<1>3. done \in PaRow /\ done.status = pa[i].status /\ done.po = pa[i].po
      /\ done.initial_book = pa[i].initial_book
  <2>1. done = [row EXCEPT !.gen_order = TRUE]
    BY <1>1 DEF PaRow
  <2> QED
    BY <1>2, <2>1 DEF PaRow
<1>4. UNCHANGED <<po, pkg, scan>>
  BY DEF RunTask
<1>5. CASE GenerateOrder(i) /\ pa' = [pa EXCEPT ![i] = done]
  BY <1>3, <1>4, <1>5, GenerateKeeps DEF GenerateOrder
<1>6. CASE pa' = [pa EXCEPT ![i] = row] /\ psi' = psi
  <2>1. CASE pa[i].status # "none"
    BY <1>2, <1>4, <1>6, <2>1, GenerateKeeps
  <2>2. CASE pa[i].status = "none"
    <3>1. RowsOK'
      BY <1>2, <1>4, <1>6 DEF PackingInv, RowsOK
    <3>2. \A j \in Item : pa'[j].status = pa[j].status /\ pa'[j].po = pa[j].po
                          /\ pa'[j].initial_book = pa[j].initial_book
      BY <1>2, <1>6 DEF PackingInv, RowsOK
    <3> QED
      BY <1>4, <1>6, <3>1, <3>2 DEF PackingInv, StatusInv, BookedInv, WaitingIsBought, IsOpen,
         PackedInv, ScanInv, Sent, Contents
  <2> QED
    BY <2>1, <2>2
<1> QED
  BY <1>1, <1>5, <1>6 DEF RunTask, PackingInv, RowsOK

LEMMA PeriodicKeeps == ASSUME PackingInv, NEW i \in Item, PeriodicTask(i) PROVE PackingInv'
<1> DEFINE done == [pa[i] EXCEPT !.gen_order = TRUE]
<1>1. done \in PaRow /\ done.status = pa[i].status /\ done.po = pa[i].po
      /\ done.initial_book = pa[i].initial_book
  BY DEF PackingInv, RowsOK, PaRow
<1>2. pa' = [pa EXCEPT ![i] = done] /\ UNCHANGED <<po, pkg, scan>> /\ GenerateOrder(i)
  BY DEF PeriodicTask
<1> QED
  BY <1>1, <1>2, GenerateKeeps DEF GenerateOrder

(* Booking reaches items that wait and have not been booked before.        *)
LEMMA BookedWaits ==
    ASSUME PackingInv
    PROVE  \A i \in Booked : i \in Item /\ psi[i].assign = "waiting" /\ psi[i].pack = 0
                              /\ ~pa[i].initial_book
BY DEF PackingInv, RowsOK, PaRow, Booked, BookedInv, WaitingIsBought, PackedInv, Purchase

LEMMA BookKeeps == ASSUME PackingInv, NEW third_package \in BOOLEAN, Book(third_package) PROVE PackingInv'
<1>1. po' = po + 1 /\ po' \in Purchase /\ po \in Nat /\ UNCHANGED <<pkg, scan>>
  <2>1. po \in Nat /\ 1 <= po /\ po < NPurchase /\ po' = po + 1
    <3>1. po \in 1 .. NPurchase /\ NPurchase \in Nat
      BY PackingAssumption DEF PackingInv, RowsOK, Purchase
    <3>2. po < NPurchase /\ po' = po + 1
      BY DEF Book
    <3> QED
      BY <3>1, <3>2
  <2>2. po + 1 \in Purchase
    BY <2>1, PackingAssumption DEF Purchase
  <2> QED
    BY <2>1, <2>2 DEF Book
<1>2. pa' = [i \in Item |-> IF i \in Booked THEN [pa[i] EXCEPT !.initial_book = TRUE] ELSE pa[i]]
      /\ psi' = [i \in Item |-> IF i \in Booked
                   THEN [psi[i] EXCEPT !.status = "booked", !.po = po,
                                       !.assign = IF third_package THEN "virtual" ELSE @]
                   ELSE psi[i]]
  BY DEF Book
<1>3. RowsOK'
  <2>1. \A i \in Item : [pa[i] EXCEPT !.initial_book = TRUE] \in PaRow
    BY DEF PackingInv, RowsOK, PaRow
  <2>2. \A i \in Item : [psi[i] EXCEPT !.status = "booked", !.po = po,
                            !.assign = IF third_package THEN "virtual" ELSE @] \in PsiRow
    BY DEF PackingInv, RowsOK, PsiRow, PsiStatus, Assign
  <2>3. psi' \in [Item -> PsiRow] /\ pa' \in [Item -> PaRow]
    BY <1>2, <2>1, <2>2 DEF PackingInv, RowsOK
  <2> QED
    BY <1>1, <2>3 DEF PackingInv, RowsOK
<1>4. ASSUME NEW i \in Item \ Booked PROVE psi'[i] = psi[i] /\ pa'[i] = pa[i]
  BY <1>2
<1>5. ASSUME NEW i \in Booked
      PROVE  /\ psi'[i].status = "booked" /\ psi'[i].assign \in {"waiting", "virtual"}
             /\ psi'[i].pack = 0 /\ psi[i].pack = 0
             /\ pa'[i].status = "EFFECT" /\ pa'[i].initial_book /\ pa'[i].po = po
  <2>1. i \in Item /\ pa[i].status = "EFFECT" /\ pa[i].po = po
    BY DEF Booked
  <2>2. psi[i].assign = "waiting" /\ psi[i].pack = 0
    BY BookedWaits
  <2>3. psi[i] \in PsiRow /\ pa[i] \in PaRow
    BY <2>1 DEF PackingInv, RowsOK
  <2>4. psi'[i] = [psi[i] EXCEPT !.status = "booked", !.po = po,
                                 !.assign = IF third_package THEN "virtual" ELSE @]
        /\ pa'[i] = [pa[i] EXCEPT !.initial_book = TRUE]
    BY <1>2, <2>1
  <2>5. psi'[i].status = "booked" /\ psi'[i].assign \in {"waiting", "virtual"} /\ psi'[i].pack = 0
    BY <2>2, <2>3, <2>4 DEF PsiRow
  <2>6. pa'[i].status = "EFFECT" /\ pa'[i].initial_book /\ pa'[i].po = po
    BY <2>1, <2>3, <2>4 DEF PaRow
  <2> QED
    BY <2>2, <2>5, <2>6
<1>6. StatusInv'
  <2>1. \A i \in Item \ Booked : /\ psi'[i].status = "none" <=> psi'[i].assign = "none"
                                 /\ pa'[i].status # "none" => psi'[i].assign # "none"
                                 /\ psi'[i].status = "assigned" => psi'[i].assign = "assigned"
    BY <1>4 DEF PackingInv, StatusInv
  <2> QED
    BY <1>5, <2>1 DEF StatusInv
<1>7. BookedInv'
  <2>1. ASSUME NEW i \in Item \ Booked, pa'[i].initial_book
        PROVE  pa'[i].status = "EFFECT" /\ pa'[i].po < po'
    <3>1. pa[i].status = "EFFECT" /\ pa[i].po < po /\ pa[i].po \in Nat /\ pa'[i] = pa[i]
      BY <1>4, <2>1 DEF PackingInv, BookedInv, RowsOK, PaRow, Purchase
    <3> QED
      BY <1>1, <3>1
  <2> QED
    BY <1>1, <1>5, <2>1 DEF BookedInv
<1>8. WaitingIsBought'
  <2>1. \A i \in Item \ Booked : /\ ~(pa'[i].status = "EFFECT" /\ ~pa'[i].initial_book)
                                 /\ psi'[i].assign = "waiting" => pa'[i].status = "EFFECT"
    BY <1>4 DEF PackingInv, WaitingIsBought, IsOpen, Booked
  <2> QED
    BY <1>5, <2>1 DEF WaitingIsBought
<1>9. \A i \in Item : psi'[i].pack = psi[i].pack /\ (psi[i].pack # 0 => psi'[i] = psi[i])
  BY <1>4, <1>5
<1>10. PackedInv'
  BY <1>1, <1>9 DEF PackingInv, PackedInv, Sent
<1>11. ScanInv'
  <2>1. \A q \in Package : Contents(psi', q) = Contents(psi, q)
    BY <1>9 DEF Contents
  <2> QED
    BY <1>1, <2>1 DEF PackingInv, ScanInv
<1> QED
  BY <1>3, <1>6, <1>7, <1>8, <1>10, <1>11 DEF PackingInv

LEMMA StockKeeps ==
    ASSUME PackingInv, NEW s, NEW order, RelaseAssign(s) \/ AssignGoods(s, order),
           UNCHANGED <<po, scan>>
    PROVE  PackingInv'
<1>1. CASE UNCHANGED <<psi, pa, pkg>>
  BY <1>1 DEF PackingInv, RowsOK, StatusInv, BookedInv, WaitingIsBought, IsOpen,
     PackedInv, ScanInv, Sent, Contents
<1>2. CASE \E S \in SUBSET Waiting : SetAssigned(S, s)
  BY <1>2, AssignKeeps
<1>3. CASE \E i \in Item : psi[i].assign = "assigned" /\ SetNotAssigned(i, s)
  BY <1>3, ReleaseKeeps
<1> QED
  BY <1>1, <1>2, <1>3, ReleaseCases, AssignCases

LEMMA MergeKeeps ==
    ASSUME PackingInv, NEW i \in Item, NEW p \in Package, NEW other \in BOOLEAN, Merge(i, p, other)
    PROVE  PackingInv'
<1>1. psi[i].assign = "assigned" /\ psi[i].pack = 0 /\ ~Sent(p) /\ UNCHANGED <<pa, po, scan>>
      /\ psi' = [psi EXCEPT ![i].status = "merged", ![i].pack = p]
  BY DEF Merge, IsCurrent, PackingInv, StatusInv
<1> DEFINE row == IF pkg[p].sys = "absent" THEN [pkg[p] EXCEPT !.sys = "PREPARE"]
                  ELSE SetLogistics(SetRedoSign(pkg[p]), other)
<1>2. pkg' = [pkg EXCEPT ![p] = row]
  BY DEF Merge
<1>3. row \in PkgRow /\ row.sys \in OpenStatus /\ (row.sys = "WEIGH" => pkg[p].sys = "WEIGH" /\ ~pkg[p].picking)
  <2>1. pkg[p] \in PkgRow /\ pkg[p].sys \in {"absent", "NEW"} \cup OpenStatus
    BY <1>1 DEF PackingInv, RowsOK, PkgRow, SysStatus, Sent
  <2>2. CASE pkg[p].sys = "absent"
    BY <2>1, <2>2 DEF PkgRow, SysStatus, OpenStatus
  <2>3. CASE pkg[p].sys # "absent"
    <3>1. SetRedoSign(pkg[p]) \in PkgRow /\ SetRedoSign(pkg[p]).sys \in OpenStatus
          /\ (SetRedoSign(pkg[p]).sys = "WEIGH" => pkg[p].sys = "WEIGH" /\ ~pkg[p].picking)
      BY <2>1, <2>3 DEF SetRedoSign, PkgRow, SysStatus, OpenStatus, Gone
    <3> QED
      BY <2>3, <3>1 DEF SetLogistics, PkgRow
  <2> QED
    BY <2>2, <2>3
<1>4. pkg'[p] = row /\ \A q \in Package \ {p} : pkg'[q] = pkg[q]
  BY <1>2 DEF PackingInv, RowsOK
<1>5. psi' \in [Item -> PsiRow] /\ psi'[i].assign = "assigned" /\ psi'[i].pack = p
      /\ psi'[i].status = "merged" /\ \A j \in Item \ {i} : psi'[j] = psi[j]
  <2> DEFINE merged == [psi[i] EXCEPT !.status = "merged", !.pack = p]
  <2>1. psi \in [Item -> PsiRow] /\ psi[i] \in PsiRow
    BY DEF PackingInv, RowsOK
  <2>2. psi' = [psi EXCEPT ![i] = merged]
    BY <1>1, <2>1
  <2>3. merged \in PsiRow /\ merged.assign = "assigned" /\ merged.pack = p
        /\ merged.status = "merged"
    BY <1>1, <2>1 DEF PsiRow, PsiStatus
  <2> HIDE DEF merged
  <2> QED
    BY <2>1, <2>2, <2>3
<1>6. RowsOK'
  BY <1>1, <1>2, <1>3, <1>5 DEF PackingInv, RowsOK
<1>7. StatusInv' /\ BookedInv' /\ WaitingIsBought'
  BY <1>1, <1>5 DEF PackingInv, StatusInv, BookedInv, WaitingIsBought, IsOpen
<1>8. PackedInv'
  <2> SUFFICES ASSUME NEW j \in Item, psi'[j].pack # 0
               PROVE  \/ psi'[j].assign = "assigned" /\ pkg'[psi'[j].pack].sys \in OpenStatus
                      \/ psi'[j].assign = "sent" /\ pkg'[psi'[j].pack].sys \in Gone
    BY DEF PackedInv, Sent
  <2>1. CASE j = i
    BY <1>3, <1>4, <1>5, <2>1
  <2>2. CASE j # i
    <3>1. psi'[j] = psi[j] /\ psi[j].pack \in Package
      BY <1>5, <2>2 DEF PackingInv, RowsOK, PsiRow
    <3>2. CASE psi[j].pack = p
      BY <1>1, <1>3, <1>4, <3>1, <3>2 DEF PackingInv, PackedInv
    <3>3. CASE psi[j].pack # p
      BY <1>4, <3>1, <3>3 DEF PackingInv, PackedInv, Sent
    <3> QED
      BY <3>2, <3>3
  <2> QED
    BY <2>1, <2>2
<1>9. ScanInv'
  <2> SUFFICES ASSUME NEW q \in Package, pkg'[q].sys = "WEIGH", ~scan[q].reverted
               PROVE  pkg'[q].picking /\ scan[q].items = Contents(psi', q)
    BY <1>1 DEF ScanInv, Contents
  <2>1. q # p
    BY <1>3, <1>4 DEF PackingInv, ScanInv
  <2>2. Contents(psi', q) = Contents(psi, q)
    BY <1>1, <1>5, <2>1 DEF Contents, Package
  <2> QED
    BY <1>4, <2>1, <2>2 DEF PackingInv, ScanInv
<1> QED
  BY <1>6, <1>7, <1>8, <1>9 DEF PackingInv

LEMMA SheetsKeep ==
    ASSUME PackingInv, NEW p \in Package,
           PrintPicking(p) \/ PrintExpress(p) \/ SendPackageTask(p) \/ ScanCheck(p)
             \/ ChangeToPrepare(p) \/ BatchRevert(p)
    PROVE  PackingInv'
<1>1. UNCHANGED <<psi, pa, po>>
  BY DEF PrintPicking, PrintExpress, SendPackageTask, ScanCheck, ChangeToPrepare, BatchRevert
<1>2. pkg[p] \in PkgRow /\ scan \in [Package -> ScanRow]
  BY DEF PackingInv, RowsOK
<1>3. CASE PrintPicking(p)
  <2> DEFINE row == [pkg[p] EXCEPT !.picking = TRUE]
  <2>1. row \in PkgRow /\ row.sys = pkg[p].sys /\ row.picking
    BY <1>2 DEF PkgRow
  <2>2. pkg' = [pkg EXCEPT ![p] = row] /\ pkg[p].sys \in OpenStatus /\ scan' = scan
    BY <1>3 DEF PrintPicking
  <2>3. row.sys = "WEIGH" /\ ~scan'[p].reverted => row.picking /\ scan'[p].items = Contents(psi, p)
    BY <2>1, <2>2 DEF PackingInv, ScanInv
  <2> QED
    BY <1>1, <1>2, <2>1, <2>2, <2>3, PackageKeeps
<1>4. CASE PrintExpress(p)
  <2> DEFINE row == [pkg[p] EXCEPT !.express = TRUE]
  <2>1. row \in PkgRow /\ row.sys = pkg[p].sys /\ row.picking = pkg[p].picking
    BY <1>2 DEF PkgRow
  <2>2. pkg' = [pkg EXCEPT ![p] = row] /\ pkg[p].sys \in OpenStatus /\ scan' = scan
    BY <1>4 DEF PrintExpress
  <2>3. row.sys = "WEIGH" /\ ~scan'[p].reverted => row.picking /\ scan'[p].items = Contents(psi, p)
    BY <2>1, <2>2 DEF PackingInv, ScanInv
  <2> QED
    BY <1>1, <1>2, <2>1, <2>2, <2>3, PackageKeeps
<1>5. CASE SendPackageTask(p)
  <2> DEFINE row == [pkg[p] EXCEPT !.sys = "CHECK"]
  <2>1. row \in PkgRow /\ row.sys = "CHECK" /\ "CHECK" \in OpenStatus
    BY <1>2 DEF PkgRow, SysStatus, OpenStatus
  <2>2. pkg' = [pkg EXCEPT ![p] = row] /\ pkg[p].sys \in OpenStatus /\ scan' = scan
    BY <1>5 DEF SendPackageTask, OpenStatus
  <2> QED
    BY <1>1, <1>2, <2>1, <2>2, PackageKeeps
<1>6. CASE ScanCheck(p)
  <2> DEFINE row  == [pkg[p] EXCEPT !.sys = "WEIGH"]
             seen == [items |-> ToShip(p), reverted |-> FALSE]
  <2>1. row \in PkgRow /\ row.sys = "WEIGH" /\ "WEIGH" \in OpenStatus /\ row.picking = pkg[p].picking
    BY <1>2 DEF PkgRow, SysStatus, OpenStatus
  <2>2. pkg' = [pkg EXCEPT ![p] = row] /\ pkg[p].sys \in OpenStatus /\ pkg[p].picking
        /\ scan' = [scan EXCEPT ![p] = seen]
    BY <1>6 DEF ScanCheck, OpenStatus, Printed
  <2>3. seen \in ScanRow /\ seen.items = Contents(psi, p)
    BY <2>2, OpenContents DEF ScanRow, ToShip, Contents, PackingInv
  <2>4. scan' \in [Package -> ScanRow] /\ scan'[p] = seen
        /\ \A q \in Package \ {p} : scan'[q] = scan[q]
    BY <1>2, <2>2, <2>3
  <2> QED
    BY <1>1, <2>1, <2>2, <2>3, <2>4, PackageKeeps
<1>7. CASE ChangeToPrepare(p)
  <2> DEFINE row == [pkg[p] EXCEPT !.sys = "PREPARE"]
  <2>1. row \in PkgRow /\ row.sys = "PREPARE" /\ "PREPARE" \in OpenStatus
    BY <1>2 DEF PkgRow, SysStatus, OpenStatus
  <2>2. pkg' = [pkg EXCEPT ![p] = row] /\ pkg[p].sys \in OpenStatus /\ scan' = scan
    BY <1>7 DEF ChangeToPrepare, OpenStatus
  <2> QED
    BY <1>1, <1>2, <2>1, <2>2, PackageKeeps
<1>8. CASE BatchRevert(p)
  <2> DEFINE row == [pkg[p] EXCEPT !.picking = FALSE, !.express = FALSE]
             weighing == pkg[p].sys = "WEIGH"
  <2>1. row \in PkgRow /\ row.sys = pkg[p].sys
    BY <1>2 DEF PkgRow
  <2>2. pkg' = [pkg EXCEPT ![p] = row] /\ pkg[p].sys \in OpenStatus
    <3>1. pkg \in [Package -> PkgRow]
      BY DEF PackingInv, RowsOK
    <3>2. [[pkg EXCEPT ![p].picking = FALSE] EXCEPT ![p].express = FALSE]
            = [pkg EXCEPT ![p] = row]
      BY <3>1
    <3> QED
      BY <1>8, <3>2 DEF BatchRevert
  <2>3. scan' \in [Package -> ScanRow] /\ scan'[p].reverted = weighing
        /\ \A q \in Package \ {p} : scan'[q] = scan[q]
    <3>1. scan \in [Package -> ScanRow] /\ scan[p] \in ScanRow /\ weighing \in BOOLEAN
      BY <1>2 DEF PackingInv, RowsOK
    <3>2. scan' = [scan EXCEPT ![p] = [scan[p] EXCEPT !.reverted = weighing]]
      BY <1>8, <3>1 DEF BatchRevert
    <3>3. [scan[p] EXCEPT !.reverted = weighing] \in ScanRow
          /\ [scan[p] EXCEPT !.reverted = weighing].reverted = weighing
      BY <3>1 DEF ScanRow
    <3> HIDE DEF weighing
    <3> QED
      BY <3>1, <3>2, <3>3
  <2> QED
    BY <1>1, <2>1, <2>2, <2>3, PackageKeeps
<1> QED
  BY <1>3, <1>4, <1>5, <1>6, <1>7, <1>8

(* The package leaves with all it contains.                                *)
LEMMA WeighKeeps ==
    ASSUME PackingInv, NEW p \in Package, ScanWeight(p)
    PROVE  /\ PackingInv'
           /\ Contents(psi', p) = Contents(psi, p)
           /\ \A i \in Contents(psi, p) : psi[i].assign = "assigned" /\ psi'[i].assign = "sent"
           /\ \A i \in Item \ Contents(psi, p) : psi'[i] = psi[i]
<1>1. psi' = [i \in Item |-> IF i \in ToShip(p)
                THEN [psi[i] EXCEPT !.status = "sent", !.assign = "sent"] ELSE psi[i]]
      /\ UNCHANGED <<pa, po>> /\ pkg[p].sys = "WEIGH"
      /\ pkg' = [pkg EXCEPT ![p].sys = "RECEIVE"] /\ scan' = [scan EXCEPT ![p] = NoScan]
  BY DEF ScanWeight
<1>2. ToShip(p) = Contents(psi, p)
  BY <1>1, OpenContents DEF PackingInv, OpenStatus
<1>3. \A i \in Contents(psi, p) : /\ i \in Item /\ psi[i].assign = "assigned" /\ psi[i].pack = p
                                 /\ psi'[i].assign = "sent" /\ psi'[i].status = "sent"
                                 /\ psi'[i].pack = p
  BY <1>1, <1>2 DEF ToShip, Contents, PackingInv, RowsOK, PsiRow
<1>4. \A i \in Item \ Contents(psi, p) : psi'[i] = psi[i] /\ psi[i].pack # p
  BY <1>1, <1>2 DEF Contents
<1>5. \A q \in Package : Contents(psi', q) = Contents(psi, q)
  BY <1>3, <1>4 DEF Contents
<1>6. pkg'[p].sys = "RECEIVE" /\ \A q \in Package \ {p} : pkg'[q] = pkg[q] /\ scan'[q] = scan[q]
  BY <1>1 DEF PackingInv, RowsOK, PkgRow
<1>7. RowsOK'
  <2>1. psi' \in [Item -> PsiRow]
    <3>1. ASSUME NEW i \in Item
          PROVE  [psi[i] EXCEPT !.status = "sent", !.assign = "sent"] \in PsiRow
      <4>1. psi[i] \in PsiRow
        BY DEF PackingInv, RowsOK
      <4> QED
        BY <4>1 DEF PsiRow, PsiStatus, Assign
    <3> QED
      BY <1>1, <3>1 DEF PackingInv, RowsOK
  <2>2. pkg' \in [Package -> PkgRow]
    <3>1. pkg[p] \in PkgRow
      BY DEF PackingInv, RowsOK
    <3>2. [pkg[p] EXCEPT !.sys = "RECEIVE"] \in PkgRow
      BY <3>1 DEF PkgRow, SysStatus, Gone
    <3> QED
      BY <1>1, <3>2 DEF PackingInv, RowsOK
  <2>3. scan' \in [Package -> ScanRow]
    BY <1>1 DEF PackingInv, RowsOK, ScanRow, NoScan
  <2> QED
    BY <1>1, <2>1, <2>2, <2>3 DEF PackingInv, RowsOK
<1>8. StatusInv' /\ BookedInv' /\ WaitingIsBought'
  <2>1. \A i \in Item : \/ psi'[i] = psi[i]
                        \/ /\ psi[i].assign = "assigned"
                           /\ psi'[i].assign = "sent" /\ psi'[i].status = "sent"
    BY <1>3, <1>4
  <2>2. pa' = pa /\ po' = po
    BY <1>1
  <2>3. StatusInv'
    BY <2>1, <2>2 DEF PackingInv, StatusInv
  <2>4. BookedInv'
    BY <2>2 DEF PackingInv, BookedInv
  <2>5. WaitingIsBought'
    BY <2>1, <2>2 DEF PackingInv, WaitingIsBought, IsOpen
  <2> QED
    BY <2>3, <2>4, <2>5
<1>9. PackedInv'
  <2> SUFFICES ASSUME NEW j \in Item, psi'[j].pack # 0
               PROVE  \/ psi'[j].assign = "assigned" /\ pkg'[psi'[j].pack].sys \in OpenStatus
                      \/ psi'[j].assign = "sent" /\ pkg'[psi'[j].pack].sys \in Gone
    BY DEF PackedInv, Sent
  <2>1. CASE j \in Contents(psi, p)
    BY <1>3, <1>6, <2>1 DEF Gone
  <2>2. CASE j \notin Contents(psi, p)
    <3>1. psi'[j] = psi[j] /\ psi[j].pack \in Package \ {p}
      BY <1>4, <2>2 DEF PackingInv, RowsOK, PsiRow
    <3> QED
      BY <1>6, <3>1 DEF PackingInv, PackedInv, Sent
  <2> QED
    BY <2>1, <2>2
<1>10. ScanInv'
  <2> SUFFICES ASSUME NEW q \in Package, pkg'[q].sys = "WEIGH", ~scan'[q].reverted
               PROVE  pkg'[q].picking /\ scan'[q].items = Contents(psi', q)
    BY DEF ScanInv, Contents
  <2> QED
    BY <1>5, <1>6 DEF PackingInv, ScanInv
<1> QED
  BY <1>3, <1>4, <1>5, <1>7, <1>8, <1>9, <1>10 DEF PackingInv

LEMMA ArrivalKeeps == ASSUME PackingInv, NEW p \in Package, ConfirmArrival(p) PROVE PackingInv'
<1>1. psi' = [i \in Item |-> IF psi[i].pack = p /\ psi[i].assign = "sent"
                THEN [psi[i] EXCEPT !.status = "finish"] ELSE psi[i]]
      /\ UNCHANGED <<pa, po, scan>> /\ pkg[p].sys = "RECEIVE"
      /\ pkg' = [pkg EXCEPT ![p].sys = "FINISHED"]
  BY DEF ConfirmArrival
<1>2. \A i \in Item : /\ psi'[i].assign = psi[i].assign /\ psi'[i].pack = psi[i].pack
                     /\ \/ psi'[i].status = psi[i].status
                        \/ psi'[i].status = "finish" /\ psi[i].assign = "sent"
  BY <1>1 DEF PackingInv, RowsOK, PsiRow
<1>3. pkg'[p].sys = "FINISHED" /\ \A q \in Package \ {p} : pkg'[q] = pkg[q]
  BY <1>1 DEF PackingInv, RowsOK, PkgRow
<1>4. RowsOK'
  <2>1. psi' \in [Item -> PsiRow]
    BY <1>1 DEF PackingInv, RowsOK, PsiRow, PsiStatus
  <2>2. pkg' \in [Package -> PkgRow]
    BY <1>1 DEF PackingInv, RowsOK, PkgRow, SysStatus, Gone
  <2> QED
    BY <1>1, <2>1, <2>2 DEF PackingInv, RowsOK
<1>5. StatusInv' /\ BookedInv' /\ WaitingIsBought'
  BY <1>1, <1>2 DEF PackingInv, StatusInv, BookedInv, WaitingIsBought, IsOpen
<1>6. PackedInv'
  <2> SUFFICES ASSUME NEW j \in Item, psi[j].pack # 0
               PROVE  \/ psi[j].assign = "assigned" /\ pkg'[psi[j].pack].sys \in OpenStatus
                      \/ psi[j].assign = "sent" /\ pkg'[psi[j].pack].sys \in Gone
    BY <1>2 DEF PackedInv, Sent
  <2>1. psi[j].pack \in Package
    BY DEF PackingInv, RowsOK, PsiRow
  <2> QED
    BY <1>1, <1>3, <2>1 DEF PackingInv, PackedInv, Sent, Gone, OpenStatus
<1>7. ScanInv'
  <2>1. \A q \in Package : Contents(psi', q) = Contents(psi, q)
    BY <1>2 DEF Contents
  <2> QED
    BY <1>1, <1>3, <2>1 DEF PackingInv, ScanInv, Contents
<1> QED
  BY <1>4, <1>5, <1>6, <1>7 DEF PackingInv

LEMMA CancelKeeps ==
    ASSUME PackingInv, NEW i \in Item, NEW other \in BOOLEAN, Cancel(i, other)
    PROVE  PackingInv' /\ psi'[i].assign = "cancelled"
           /\ \A j \in Item \ {i} : psi'[j] = psi[j]
<1>1. psi' = [psi EXCEPT ![i].status = "cancel", ![i].assign = "cancelled", ![i].pack = 0]
      /\ pkg' = Released(psi[i].pack, psi', other)
      /\ pa' = [pa EXCEPT ![i] = CancelPa(pa[i])]
      /\ UNCHANGED <<po, scan>> /\ psi[i].assign \in {"waiting", "assigned", "virtual"}
  BY DEF Cancel
<1>2. psi' \in [Item -> PsiRow] /\ psi'[i].assign = "cancelled" /\ psi'[i].pack = 0
      /\ psi'[i].status = "cancel" /\ \A j \in Item \ {i} : psi'[j] = psi[j]
  BY <1>1 DEF PackingInv, RowsOK, PsiRow, PsiStatus, Assign
<1>3. pkg' \in [Package -> PkgRow] /\ PackedInv' /\ ScanInv'
  BY <1>1, <1>2, LeavePackage DEF PackingInv
<1>4. /\ CancelPa(pa[i]) \in PaRow
      /\ CancelPa(pa[i]).po = pa[i].po
      /\ CancelPa(pa[i]).initial_book = pa[i].initial_book
      /\ (pa[i].initial_book => CancelPa(pa[i]).status = pa[i].status)
      /\ (~pa[i].initial_book => CancelPa(pa[i]).status # "EFFECT")
  <2>1. pa[i] \in PaRow
    BY DEF PackingInv, RowsOK
  <2>2. [pa[i] EXCEPT !.status = "CANCEL"] \in PaRow
    BY <2>1 DEF PaRow
  <2> QED
    BY <2>1, <2>2, SaveKeeps DEF CancelPa, PaRow
<1>5. RowsOK'
  BY <1>1, <1>2, <1>3, <1>4 DEF PackingInv, RowsOK
<1>6. pa'[i] = CancelPa(pa[i]) /\ \A j \in Item \ {i} : pa'[j] = pa[j]
  BY <1>1 DEF PackingInv, RowsOK
<1>7. StatusInv'
  BY <1>1, <1>2, <1>6 DEF PackingInv, StatusInv
<1>8. BookedInv' /\ WaitingIsBought'
  BY <1>1, <1>2, <1>4, <1>6 DEF PackingInv, BookedInv, WaitingIsBought, IsOpen
<1> QED
  BY <1>2, <1>3, <1>5, <1>7, <1>8 DEF PackingInv

LEMMA ResetKeeps ==
    ASSUME PackingInv, NEW i \in Item, ResetAssignPackage(i)
    PROVE  PackingInv' /\ \A j \in Item : psi'[j].assign = psi[j].assign
<1>1. psi' = [psi EXCEPT ![i].status = "assigned", ![i].pack = 0]
      /\ pkg' = Released(psi[i].pack, psi', FALSE)
      /\ UNCHANGED <<pa, po, scan>> /\ psi[i].pack # 0 /\ psi[i].assign # "sent"
  BY DEF ResetAssignPackage
<1>2. psi[i].assign = "assigned"
  BY <1>1 DEF PackingInv, PackedInv
<1>3. psi' \in [Item -> PsiRow] /\ psi'[i].assign = "assigned" /\ psi'[i].pack = 0
      /\ psi'[i].status = "assigned" /\ \A j \in Item \ {i} : psi'[j] = psi[j]
  BY <1>1, <1>2 DEF PackingInv, RowsOK, PsiRow, PsiStatus
<1>4. pkg' \in [Package -> PkgRow] /\ PackedInv' /\ ScanInv'
  BY <1>1, <1>2, <1>3, LeavePackage DEF PackingInv
<1>5. RowsOK'
  BY <1>1, <1>3, <1>4 DEF PackingInv, RowsOK
<1>6. StatusInv' /\ BookedInv' /\ WaitingIsBought'
  BY <1>1, <1>2, <1>3 DEF PackingInv, StatusInv, BookedInv, WaitingIsBought, IsOpen
<1> QED
  BY <1>2, <1>3, <1>4, <1>5, <1>6 DEF PackingInv

LEMMA ThirdKeeps ==
    ASSUME PackingInv, NEW i \in Item, ThirdSend(i)
    PROVE  PackingInv' /\ psi'[i].assign = "sent" /\ \A j \in Item \ {i} : psi'[j] = psi[j]
<1>1. psi' = [psi EXCEPT ![i].status = "sent", ![i].assign = "sent"]
      /\ UNCHANGED <<pa, po, pkg, scan>> /\ psi[i].assign = "virtual"
  BY DEF ThirdSend
<1>2. psi[i].pack = 0
  BY <1>1 DEF PackingInv, PackedInv
<1>3. psi' \in [Item -> PsiRow] /\ psi'[i].assign = "sent" /\ psi'[i].pack = 0
      /\ psi'[i].status = "sent" /\ \A j \in Item \ {i} : psi'[j] = psi[j]
  BY <1>1, <1>2 DEF PackingInv, RowsOK, PsiRow, PsiStatus, Assign
<1>4. RowsOK'
  BY <1>1, <1>3 DEF PackingInv, RowsOK
<1>5. StatusInv' /\ BookedInv' /\ WaitingIsBought'
  BY <1>1, <1>3 DEF PackingInv, StatusInv, BookedInv, WaitingIsBought, IsOpen
<1>6. PackedInv'
  BY <1>1, <1>3 DEF PackingInv, PackedInv, Sent
<1>7. ScanInv'
  <2>1. \A q \in Package : Contents(psi', q) = Contents(psi, q)
    BY <1>2, <1>3 DEF Contents
  <2> QED
    BY <1>1, <2>1 DEF PackingInv, ScanInv, Contents
<1> QED
  BY <1>3, <1>4, <1>5, <1>6, <1>7 DEF PackingInv

LEMMA UnchangedKeeps == ASSUME PackingInv, UNCHANGED <<psi, pa, po, pkg, scan>> PROVE PackingInv'
BY DEF PackingInv, RowsOK, StatusInv, BookedInv, WaitingIsBought, IsOpen, PackedInv, ScanInv, Sent, Contents

-----------------------------------------------------------------------------
LEMMA PackingStep == PackingInv /\ [Next]_vars => PackingInv'
<1> SUFFICES ASSUME PackingInv, [Next]_vars PROVE PackingInv'
  OBVIOUS
<1>1. CASE UNCHANGED vars
  BY <1>1, UnchangedKeeps DEF vars
<1>2. ASSUME NEW i \in Item, ItemStep(i) PROVE PackingInv'
  <2>1. CASE Create(i)
    BY <2>1, CreateKeeps
  <2>2. CASE RunTask(i)
    BY <2>2, RunTaskKeeps
  <2>3. CASE PeriodicTask(i)
    BY <2>3, PeriodicKeeps
  <2>4. CASE HoldRefund(i) \/ RefuseRefund(i)
    BY <2>4, UnchangedKeeps DEF HoldRefund, RefuseRefund
  <2>5. CASE ResetAssignPackage(i)
    BY <2>5, ResetKeeps
  <2>6. CASE ThirdSend(i)
    BY <2>6, ThirdKeeps
  <2>7. CASE \E other \in BOOLEAN : Cancel(i, other)
    BY <2>7, CancelKeeps
  <2>8. CASE \E other \in BOOLEAN : \E p \in Package : Merge(i, p, other)
    BY <2>8, MergeKeeps
  <2> QED
    BY <1>2, <2>1, <2>2, <2>3, <2>4, <2>5, <2>6, <2>7, <2>8 DEF ItemStep
<1>3. ASSUME NEW p \in Package, PackageStep(p) PROVE PackingInv'
  BY <1>3, SheetsKeep, WeighKeeps, ArrivalKeeps DEF PackageStep
<1>4. ASSUME NEW third_package \in BOOLEAN, Book(third_package) PROVE PackingInv'
  BY <1>4, BookKeeps
<1>5. ASSUME NEW n \in Arrivals, NEW order \in 0 .. (po - 1), Arrive(n, order) PROVE PackingInv'
  BY <1>5, StockKeeps DEF Arrive
<1>6. ASSUME NEW n \in Losses, WriteOff(n) PROVE PackingInv'
  BY <1>6, StockKeeps DEF WriteOff
<1> QED
  BY <1>1, <1>2, <1>3, <1>4, <1>5, <1>6 DEF Next

(* Rows keep their types, and everything that lies in, waits for or is     *)
(* bought for a package stays consistent, whatever handlers interleave.    *)
THEOREM PackingCorrect == Spec => []PackingInv
<1> QED
  BY InitPacking, PackingStep, PTL DEF Spec

(* Purchasing follows the items: whoever waits is bought for, and nobody   *)
(* else (create, assign, cancel, set_status_not_assigned, book).           *)
THEOREM PurchasingCorrect == Spec => []WaitingIsBought
<1>1. PackingInv => WaitingIsBought
  BY DEF PackingInv
<1> QED
  BY <1>1, PackingCorrect, PTL

(* No goods are left behind in a package that is gone or forgotten.        *)
THEOREM PackagesCorrect == Spec => []PackedInv
<1>1. PackingInv => PackedInv
  BY DEF PackingInv
<1> QED
  BY <1>1, PackingCorrect, PTL

-----------------------------------------------------------------------------
(* A package an item has left has not been sent by that.                   *)
LEMMA ReleasedStays ==
    ASSUME PackingInv, NEW q \in {0} \cup Package, NEW items, NEW other \in BOOLEAN,
           pkg' = Released(q, items, other), NEW p \in Package, ~Sent(p)
    PROVE  ~Sent(p)'
<1>1. CASE pkg' = pkg
  BY <1>1 DEF Sent
<1>2. CASE q \in Package /\ ~Sent(q)
               /\ \E row \in {SetLogistics(SetRedoSign(pkg[q]), other), Blank} : pkg' = [pkg EXCEPT ![q] = row]
  <2>1. pkg[q] \in PkgRow /\ pkg[q].sys \notin Gone
    BY <1>2 DEF PackingInv, RowsOK, Sent
  <2>2. SetRedoSign(pkg[q]) \in PkgRow /\ SetRedoSign(pkg[q]).sys \notin Gone
    BY <2>1 DEF SetRedoSign, PkgRow, SysStatus, OpenStatus, Gone
  <2>3. \A row \in {SetLogistics(SetRedoSign(pkg[q]), other), Blank} : row.sys \notin Gone
    BY <2>2 DEF SetLogistics, PkgRow, Blank, Gone
  <2> QED
    BY <1>2, <2>3 DEF PackingInv, RowsOK, Sent
<1> QED
  BY <1>1, <1>2 DEF Released

(* Packages leave by being weighed, and in no other way.                   *)
LEMMA OnlyWeighingSends ==
    ASSUME PackingInv, Next, NEW p \in Package, ~Sent(p), Sent(p)'
    PROVE  ScanWeight(p)
<1>1. pkg'[p] # pkg[p] /\ pkg[p].sys \notin Gone /\ pkg'[p].sys \in Gone
  BY DEF Sent
<1>2. \A i \in Item : psi[i].pack \in {0} \cup Package
  BY DEF PackingInv, RowsOK, PsiRow
<1>3. ASSUME NEW i \in Item, ItemStep(i) PROVE FALSE
  <2>1. CASE Create(i) \/ RunTask(i) \/ PeriodicTask(i) \/ HoldRefund(i) \/ RefuseRefund(i) \/ ThirdSend(i)
    BY <1>1, <2>1 DEF Create, RunTask, PeriodicTask, HoldRefund, RefuseRefund, ThirdSend
  <2>2. CASE ResetAssignPackage(i)
    BY <1>2, <2>2, ReleasedStays DEF ResetAssignPackage
  <2>3. ASSUME NEW other \in BOOLEAN, Cancel(i, other) PROVE FALSE
    <3>1. \E items : pkg' = Released(psi[i].pack, items, other)
      BY <2>3 DEF Cancel
    <3> QED
      BY <1>2, <3>1, ReleasedStays
  <2>4. ASSUME NEW other \in BOOLEAN, NEW q \in Package, Merge(i, q, other) PROVE FALSE
    <3>1. pkg' = [pkg EXCEPT ![q] = IF pkg[q].sys = "absent" THEN [pkg[q] EXCEPT !.sys = "PREPARE"]
                                    ELSE SetLogistics(SetRedoSign(pkg[q]), other)]
      BY <2>4 DEF Merge
    <3>2. q = p
      BY <1>1, <3>1 DEF PackingInv, RowsOK
    <3>3. pkg[p] \in PkgRow
      BY DEF PackingInv, RowsOK
    <3>4. [pkg[p] EXCEPT !.sys = "PREPARE"].sys \notin Gone
      BY <3>3 DEF PkgRow, Gone
    <3>5. SetRedoSign(pkg[p]) \in PkgRow /\ SetRedoSign(pkg[p]).sys \notin Gone
      BY <1>1, <3>3 DEF SetRedoSign, PkgRow, SysStatus, OpenStatus, Gone
    <3>6. SetLogistics(SetRedoSign(pkg[p]), other).sys \notin Gone
      BY <3>5 DEF SetLogistics, PkgRow
    <3> QED
      BY <1>1, <3>1, <3>2, <3>4, <3>6 DEF PackingInv, RowsOK
  <2> QED
    BY <1>3, <2>1, <2>2, <2>3, <2>4 DEF ItemStep
<1>4. ASSUME NEW q \in Package, PackageStep(q) PROVE ScanWeight(p)
  <2>1. CASE PrintPicking(q) \/ PrintExpress(q) \/ BatchRevert(q)
    <3>1. pkg'[p].sys = pkg[p].sys
      BY <2>1 DEF PrintPicking, PrintExpress, BatchRevert, PackingInv, RowsOK, PkgRow
    <3> QED
      BY <1>1, <3>1
  <2>2. CASE SendPackageTask(q) \/ ScanCheck(q) \/ ChangeToPrepare(q)
    <3>1. pkg'[p].sys \in {pkg[p].sys, "CHECK", "WEIGH", "PREPARE"}
      BY <2>2 DEF SendPackageTask, ScanCheck, ChangeToPrepare, PackingInv, RowsOK, PkgRow
    <3> QED
      BY <1>1, <3>1 DEF Gone
  <2>3. CASE ScanWeight(q)
    BY <1>1, <2>3 DEF ScanWeight, PackingInv, RowsOK
  <2>4. CASE ConfirmArrival(q)
    BY <1>1, <2>4 DEF ConfirmArrival, Gone, PackingInv, RowsOK
  <2> QED
    BY <1>4, <2>1, <2>2, <2>3, <2>4 DEF PackageStep
<1>5. ASSUME NEW third_package \in BOOLEAN, Book(third_package) PROVE FALSE
  BY <1>1, <1>5 DEF Book
<1>6. ASSUME NEW s, NEW order, RelaseAssign(s) \/ AssignGoods(s, order) PROVE FALSE
  <2>1. pkg' = pkg \/ \E i \in Item : \E items : pkg' = Released(psi[i].pack, items, FALSE)
    BY <1>6, ReleaseCases, AssignCases DEF SetAssigned, SetNotAssigned
  <2> QED
    BY <1>1, <1>2, <2>1, ReleasedStays
<1> QED
  BY <1>3, <1>4, <1>5, <1>6 DEF Next, Arrive, WriteOff

(* What leaves in a package is what the scan found in it, unless staff put *)
(* it back after the scan (merge, cancel, release and reset_assign_package *)
(* send a scanned package back by set_redo_sign).                          *)
THEOREM ShippingCorrect == Spec => ShippedWasChecked
<1>1. ASSUME PackingInv, [Next]_vars, NEW p \in Package, Sent(p)', ~Sent(p), ~scan[p].reverted
      PROVE  scan[p].items = {i \in Item : psi'[i].assign = "sent" /\ psi'[i].pack = p}
  <2>1. ScanWeight(p)
    BY <1>1, OnlyWeighingSends DEF vars, Sent
  <2>2. scan[p].items = Contents(psi, p)
    BY <1>1, <2>1 DEF PackingInv, ScanInv, ScanWeight
  <2>3. Contents(psi, p) = Contents(psi', p) /\ \A i \in Contents(psi, p) : psi'[i].assign = "sent"
    BY <1>1, <2>1, WeighKeeps
  <2> QED
    BY <2>2, <2>3 DEF Contents
<1>2. PackingInv /\ [Next]_vars =>
        [\A p \in Package : Sent(p)' /\ ~Sent(p) /\ ~scan[p].reverted
            => scan[p].items = {i \in Item : psi'[i].assign = "sent" /\ psi'[i].pack = p}]_vars
  BY <1>1
<1> QED
  BY <1>2, PackingCorrect, PTL DEF Spec, ShippedWasChecked

-----------------------------------------------------------------------------
Stages == [i \in Item |-> psi[i].assign]

(* Items that change at once and alike make one step of ItemLife.          *)
LEMMA MovesTogether ==
    ASSUME NEW S \in SUBSET Item, NEW t \in Assign,
           \A j \in S : Life!CanBecome(psi[j].assign, t) /\ psi'[j].assign = t,
           \A j \in Item \ S : psi'[j].assign = psi[j].assign
    PROVE  [Life!Next]_Stages
<1>1. CASE S = {}
  BY <1>1 DEF Stages
<1>2. CASE S # {}
  <2>1. Life!Move(S, t)
    BY <1>2 DEF Life!Move
  <2>2. t \in Life!Stage
    BY DEF Life!Stage, Assign
  <2> QED
    BY <2>1, <2>2 DEF Life!Next
<1> QED
  BY <1>1, <1>2

LEMMA LifeStays ==
    ASSUME \A j \in Item : psi'[j].assign = psi[j].assign
    PROVE  [Life!Next]_Stages
BY DEF Stages

LEMMA LifeItemStep == ASSUME PackingInv, NEW i \in Item, ItemStep(i) PROVE [Life!Next]_Stages
<1>1. psi \in [Item -> PsiRow]
  BY DEF PackingInv, RowsOK
<1> DEFINE OneMoves(t) == /\ t \in Assign /\ Life!CanBecome(psi[i].assign, t)
                          /\ psi'[i].assign = t
                          /\ \A j \in Item \ {i} : psi'[j].assign = psi[j].assign
<1>2. ASSUME NEW t, OneMoves(t) PROVE [Life!Next]_Stages
  <2> DEFINE S == {i}
  <2>1. S \in SUBSET Item /\ t \in Assign
    BY <1>2
  <2>2. \A j \in S : Life!CanBecome(psi[j].assign, t) /\ psi'[j].assign = t
    BY <1>2
  <2>3. \A j \in Item \ S : psi'[j].assign = psi[j].assign
    BY <1>2
  <2> HIDE DEF S
  <2> QED
    BY <2>1, <2>2, <2>3, MovesTogether
<1>3. CASE Create(i)
  <2>1. psi[i].assign = "none"
    BY <1>3 DEF Create, PackingInv, StatusInv
  <2>2. psi'[i].assign \in {"assigned", "waiting"} /\ \A j \in Item \ {i} : psi'[j] = psi[j]
    BY <1>1, <1>3 DEF Create, PsiRow
  <2>3. OneMoves("assigned") \/ OneMoves("waiting")
    BY <2>1, <2>2 DEF Life!CanBecome, Assign
  <2> QED
    BY <1>2, <2>3
<1>4. CASE RunTask(i) \/ PeriodicTask(i)
  <2>1. \A j \in Item : psi'[j].assign = psi[j].assign
    BY <1>1, <1>4 DEF RunTask, PeriodicTask, GenerateOrder, PsiRow
  <2> QED
    BY <2>1, LifeStays
<1>5. CASE HoldRefund(i) \/ RefuseRefund(i)
  BY <1>5, LifeStays DEF HoldRefund, RefuseRefund
<1>6. CASE ResetAssignPackage(i)
  BY <1>6, ResetKeeps, LifeStays
<1>7. CASE ThirdSend(i)
  <2>1. psi[i].assign = "virtual"
    BY <1>7 DEF ThirdSend
  <2>2. OneMoves("sent")
    BY <1>7, <2>1, ThirdKeeps DEF Life!CanBecome, Assign
  <2> QED
    BY <1>2, <2>2
<1>8. ASSUME NEW other \in BOOLEAN, Cancel(i, other) PROVE [Life!Next]_Stages
  <2>1. psi[i].assign \in {"waiting", "assigned", "virtual"}
    BY <1>8 DEF Cancel
  <2>2. OneMoves("cancelled")
    BY <1>8, <2>1, CancelKeeps DEF Life!CanBecome, Assign
  <2> QED
    BY <1>2, <2>2
<1>9. ASSUME NEW other \in BOOLEAN, NEW p \in Package, Merge(i, p, other) PROVE [Life!Next]_Stages
  <2>1. \A j \in Item : psi'[j].assign = psi[j].assign
    BY <1>1, <1>9 DEF Merge, PsiRow
  <2> QED
    BY <2>1, LifeStays
<1> QED
  BY <1>3, <1>4, <1>5, <1>6, <1>7, <1>8, <1>9 DEF ItemStep

LEMMA LifePackageStep == ASSUME PackingInv, NEW p \in Package, PackageStep(p) PROVE [Life!Next]_Stages
<1>1. CASE ScanWeight(p)
  <2>1. \A i \in Contents(psi, p) : psi[i].assign = "assigned" /\ psi'[i].assign = "sent"
    BY <1>1, WeighKeeps
  <2>2. \A i \in Item \ Contents(psi, p) : psi'[i].assign = psi[i].assign
    BY <1>1, WeighKeeps
  <2>3. \A i \in Contents(psi, p) : Life!CanBecome(psi[i].assign, "sent")
    BY <2>1 DEF Life!CanBecome
  <2>4. Contents(psi, p) \in SUBSET Item /\ "sent" \in Assign
    BY DEF Contents, Assign
  <2> QED
    BY <2>1, <2>2, <2>3, <2>4, MovesTogether
<1>2. CASE ConfirmArrival(p)
  <2>1. \A i \in Item : psi'[i].assign = psi[i].assign
    BY <1>2 DEF ConfirmArrival, PackingInv, RowsOK, PsiRow
  <2> QED
    BY <2>1, LifeStays
<1>3. CASE PrintPicking(p) \/ PrintExpress(p) \/ SendPackageTask(p) \/ ScanCheck(p)
             \/ ChangeToPrepare(p) \/ BatchRevert(p)
  <2>1. psi' = psi
    BY <1>3 DEF PrintPicking, PrintExpress, SendPackageTask, ScanCheck, ChangeToPrepare, BatchRevert
  <2> QED
    BY <2>1, LifeStays
<1> QED
  BY <1>1, <1>2, <1>3 DEF PackageStep

LEMMA LifeBookStep ==
    ASSUME PackingInv, NEW third_package \in BOOLEAN, Book(third_package) PROVE [Life!Next]_Stages
<1>1. psi' = [i \in Item |-> IF i \in Booked
                THEN [psi[i] EXCEPT !.status = "booked", !.po = po,
                                    !.assign = IF third_package THEN "virtual" ELSE @]
                ELSE psi[i]]
  BY DEF Book
<1>2. CASE third_package
  <2>1. \A i \in Booked : psi'[i].assign = "virtual" /\ Life!CanBecome(psi[i].assign, "virtual")
    BY <1>1, <1>2, BookedWaits DEF PackingInv, RowsOK, PsiRow, Life!CanBecome
  <2>2. \A i \in Item \ Booked : psi'[i].assign = psi[i].assign
    BY <1>1
  <2>3. Booked \in SUBSET Item /\ "virtual" \in Assign
    BY DEF Booked, Assign
  <2> QED
    BY <2>1, <2>2, <2>3, MovesTogether
<1>3. CASE ~third_package
  <2>1. \A i \in Item : psi'[i].assign = psi[i].assign
    BY <1>1, <1>3 DEF PackingInv, RowsOK, PsiRow
  <2> QED
    BY <2>1, LifeStays
<1> QED
  BY <1>2, <1>3

LEMMA LifeStockStep ==
    ASSUME PackingInv, NEW s, NEW order, RelaseAssign(s) \/ AssignGoods(s, order),
           UNCHANGED <<po, scan>>
    PROVE  [Life!Next]_Stages
<1>1. CASE UNCHANGED <<psi, pa, pkg>>
  BY <1>1, LifeStays
<1>2. ASSUME NEW S \in SUBSET Waiting, SetAssigned(S, s) PROVE [Life!Next]_Stages
  <2>1. \A j \in S : psi'[j].assign = "assigned" /\ Life!CanBecome(psi[j].assign, "assigned")
    BY <1>2 DEF SetAssigned, Waiting, With, PackingInv, RowsOK, PsiRow, Life!CanBecome
  <2>2. \A j \in Item \ S : psi'[j].assign = psi[j].assign
    BY <1>2 DEF SetAssigned
  <2>3. S \in SUBSET Item /\ "assigned" \in Assign
    BY DEF Waiting, With, Assign
  <2> QED
    BY <2>1, <2>2, <2>3, MovesTogether
<1>3. ASSUME NEW i \in Item, psi[i].assign = "assigned", SetNotAssigned(i, s)
      PROVE  [Life!Next]_Stages
  <2>1. psi'[i].assign = "waiting" /\ \A j \in Item \ {i} : psi'[j] = psi[j]
    BY <1>3, ReleaseKeeps
  <2>2. Life!CanBecome(psi[i].assign, "waiting") /\ "waiting" \in Assign
    BY <1>3 DEF Life!CanBecome, Assign
  <2> DEFINE S == {i}
  <2>3. S \in SUBSET Item /\ \A j \in Item \ S : psi'[j].assign = psi[j].assign
    BY <2>1
  <2>4. \A j \in S : Life!CanBecome(psi[j].assign, "waiting") /\ psi'[j].assign = "waiting"
    BY <2>1, <2>2
  <2> HIDE DEF S
  <2> QED
    BY <2>2, <2>3, <2>4, MovesTogether
<1> QED
  BY <1>1, <1>2, <1>3, ReleaseCases, AssignCases

(* Every step of the warehouse keeps the promise of ItemLife: what has     *)
(* left or was cancelled stays so (test_psi.py's life of an item).         *)
THEOREM LifeCorrect == Spec => LifeKept
<1>1. Init => Life!Init
  <2> SUFFICES ASSUME Init PROVE Stages = [i \in Item |-> "none"]
    BY DEF Life!Init, Stages
  <2> QED
    BY DEF Init, NoRow, Stages
<1>2. PackingInv /\ [Next]_vars => [Life!Next]_Stages
  <2> SUFFICES ASSUME PackingInv, [Next]_vars PROVE [Life!Next]_Stages
    OBVIOUS
  <2>1. CASE UNCHANGED vars
    BY <2>1, LifeStays DEF vars
  <2>2. CASE Next
    BY <2>2, LifeItemStep, LifePackageStep, LifeBookStep, LifeStockStep DEF Next, Arrive, WriteOff
  <2> QED
    BY <2>1, <2>2
<1> QED
  BY <1>1, <1>2, PackingCorrect, PTL DEF Spec, LifeKept, Life!Spec, Stages

-----------------------------------------------------------------------------
(* The counters of SkuStock: sums of Num over the items in some of the     *)
(* stages.                                                                 *)
LEMMA ItemsFinite == ASSUME NEW S \in SUBSET Item PROVE IsFiniteSet(S)
<1>1. IsFiniteSet(Item)
  BY PackingAssumption, FS_Interval DEF Item
<1> QED
  BY <1>1, FS_Subset

LEMMA NumOfType == ASSUME NEW S \in SUBSET Item PROVE NumOf(S) \in Nat
<1>1. IsFiniteSet(S) /\ \A i \in S : Num[i] \in Nat
  BY ItemsFinite, PackingAssumption
<1> QED
  BY <1>1, SumPart DEF NumOf

LEMMA NumOfNone == NumOf({}) = 0
BY SumEmpty DEF NumOf

LEMMA NumOfBoth ==
    ASSUME NEW S \in SUBSET Item, NEW T \in SUBSET Item, S \cap T = {}
    PROVE  NumOf(S \cup T) = NumOf(S) + NumOf(T)
<1>1. IsFiniteSet(S) /\ IsFiniteSet(T) /\ \A i \in S \cup T : Num[i] \in Int
  BY ItemsFinite, PackingAssumption
<1> QED
  BY <1>1, SumUnion DEF NumOf

LEMMA NumOfPart ==
    ASSUME NEW S \in SUBSET Item, NEW T \in SUBSET S
    PROVE  NumOf(T) <= NumOf(S)
<1>1. IsFiniteSet(S) /\ \A i \in S : Num[i] \in Nat
  BY ItemsFinite, PackingAssumption
<1> QED
  BY <1>1, SumPart DEF NumOf

LEMMA NumOfOne == ASSUME NEW i \in Item PROVE NumOf({i}) = Num[i] /\ Num[i] \in Nat \ {0}
<1> DEFINE S == {i}
<1>1. IsFiniteSet(S) /\ (\A j \in S : Num[j] \in Int) /\ i \in S
  BY ItemsFinite, PackingAssumption
<1>2. SumFunctionOnSet(Num, S) = Num[i] + SumFunctionOnSet(Num, S \ {i})
  <2> HIDE DEF S
  <2> QED
    BY <1>1, SumRemove
<1>3. S \ {i} = {} /\ Num[i] \in Nat \ {0}
  BY PackingAssumption
<1>4. SumFunctionOnSet(Num, {}) = 0
  BY NumOfNone DEF NumOf
<1>5. SumFunctionOnSet(Num, S) = Num[i] + 0
  BY <1>2, <1>3, <1>4
<1> QED
  BY <1>3, <1>5 DEF NumOf

(* Items that enter a group of stages together add their goods to its sum, *)
(* and items that stay inside or outside do not change it.                 *)
LEMMA GroupEntered ==
    ASSUME NEW items, NEW rows, NEW A, NEW S \in SUBSET Item,
           \A j \in Item \ S : rows[j].assign = items[j].assign,
           \A j \in S : items[j].assign \notin A /\ rows[j].assign \in A
    PROVE  NumOf(With(rows, A)) = NumOf(With(items, A)) + NumOf(S)
<1>1. With(rows, A) = With(items, A) \cup S /\ With(items, A) \cap S = {}
  BY DEF With
<1>2. With(items, A) \in SUBSET Item
  BY DEF With
<1> QED
  BY <1>1, <1>2, NumOfBoth

LEMMA GroupKept ==
    ASSUME NEW items, NEW rows, NEW A,
           \A j \in Item : rows[j].assign \in A <=> items[j].assign \in A
    PROVE  With(rows, A) = With(items, A)
BY DEF With

-----------------------------------------------------------------------------
Sold == {"waiting", "assigned", "virtual", "sent"}

StockOK ==
    /\ stock \in [quantity : Int, sold_num : Int, assign_num : Int, post_num : Int]
    /\ held \in SUBSET Item
    /\ moves \in 0 .. MaxMoves /\ reverts \in 0 .. MaxReverts
    /\ \A i \in Item : pa[i].queued \in 0 .. MaxQueue

\* Rows counted by the three counters.
CountedRight(s, items) ==
    /\ s.sold_num = NumOf(With(items, Sold))
    /\ s.assign_num = NumOf(With(items, {"assigned"}))
    /\ s.post_num = NumOf(With(items, {"sent"}))

LEMMA CountersAre == CountersExact <=> CountedRight(stock, psi)
BY DEF CountersExact, CountedRight, SoldNum, AssignNum, PostNum, Sold

LEMMA SumsAreNumbers ==
    ASSUME NEW items
    PROVE  /\ SoldNum(items) = NumOf(With(items, Sold)) /\ SoldNum(items) \in Nat
           /\ AssignNum(items) = NumOf(With(items, {"assigned"})) /\ AssignNum(items) \in Nat
           /\ PostNum(items) = NumOf(With(items, {"sent"})) /\ PostNum(items) \in Nat
<1>1. \A A : With(items, A) \in SUBSET Item
  BY DEF With
<1>2. \A A : NumOf(With(items, A)) \in Nat
  BY <1>1, NumOfType
<1> QED
  BY <1>2 DEF SoldNum, AssignNum, PostNum, Sold

(* Steps that change no item's stage leave the counters right.             *)
LEMMA SameStages ==
    ASSUME NEW s, NEW items, NEW t, NEW rows, CountedRight(s, items),
           \A j \in Item : rows[j].assign = items[j].assign,
           t.sold_num = s.sold_num, t.assign_num = s.assign_num, t.post_num = s.post_num
    PROVE  CountedRight(t, rows)
<1>1. \A A : With(rows, A) = With(items, A)
  BY GroupKept
<1> QED
  BY <1>1 DEF CountedRight

(* No item, no goods.                                                      *)
LEMMA InitCounted == Init => CountersExact /\ StockOK
<1> SUFFICES ASSUME Init PROVE CountersExact /\ StockOK
  OBVIOUS
<1>1. \A j \in Item : psi[j].assign = "none" /\ pa[j].queued = 0
  BY DEF Init, NoRow, NoPa
<1>2. With(psi, Sold) = {} /\ With(psi, {"assigned"}) = {} /\ With(psi, {"sent"}) = {}
  BY <1>1 DEF With, Sold
<1>3. stock = [quantity |-> 0, sold_num |-> 0, assign_num |-> 0, post_num |-> 0]
      /\ held = {} /\ moves = 0 /\ reverts = 0
  BY DEF Init
<1>4. CountersExact
  BY <1>2, <1>3, NumOfNone, CountersAre DEF CountedRight
<1>5. StockOK
  BY <1>1, <1>3, PackingAssumption DEF StockOK
<1> QED
  BY <1>4, <1>5

LEMMA CreateCounts ==
    ASSUME PackingInv, StockOK, CountersExact, NEW i \in Item, Create(i)
    PROVE  CountersExact'
<1>1. stock' = [stock EXCEPT !.sold_num = SoldNum(psi'), !.assign_num = AssignNum(psi')]
      /\ psi[i].assign = "none"
      /\ psi'[i].assign \in {"assigned", "waiting"} /\ \A j \in Item \ {i} : psi'[j] = psi[j]
  BY DEF Create, PackingInv, RowsOK, StatusInv, PsiRow
<1>2. stock'.sold_num = SoldNum(psi') /\ stock'.assign_num = AssignNum(psi')
      /\ stock'.post_num = stock.post_num
  BY <1>1 DEF StockOK
<1>3. With(psi', {"sent"}) = With(psi, {"sent"})
  BY <1>1, GroupKept
<1> QED
  BY <1>2, <1>3 DEF CountersExact, PostNum

LEMMA CancelCounts ==
    ASSUME PackingInv, StockOK, CountersExact, NEW i \in Item, NEW other \in BOOLEAN,
           Cancel(i, other)
    PROVE  CountersExact'
<1>1. stock' = [stock EXCEPT !.sold_num = SoldNum(psi'), !.assign_num = AssignNum(psi')]
      /\ psi[i].assign \in {"waiting", "assigned", "virtual"}
  BY DEF Cancel
<1>2. psi'[i].assign = "cancelled" /\ \A j \in Item \ {i} : psi'[j] = psi[j]
  BY CancelKeeps
<1>3. stock'.sold_num = SoldNum(psi') /\ stock'.assign_num = AssignNum(psi')
      /\ stock'.post_num = stock.post_num
  BY <1>1 DEF StockOK
<1>4. With(psi', {"sent"}) = With(psi, {"sent"})
  BY <1>1, <1>2, GroupKept
<1> QED
  BY <1>3, <1>4 DEF CountersExact, PostNum

LEMMA ResetCounts ==
    ASSUME StockOK, NEW i \in Item, ResetAssignPackage(i)
    PROVE  CountersExact'
<1>1. stock' = [stock EXCEPT !.sold_num = SoldNum(psi'), !.assign_num = AssignNum(psi'),
                              !.post_num = PostNum(psi')]
  BY DEF ResetAssignPackage
<1> QED
  BY <1>1 DEF StockOK, CountersExact

LEMMA WeighCounts ==
    ASSUME PackingInv, StockOK, CountersExact, NEW p \in Package, ScanWeight(p)
    PROVE  /\ CountersExact'
           /\ stock'.quantity = stock.quantity
           /\ stock.assign_num = stock'.assign_num + NumOf(Contents(psi, p))
           /\ stock'.post_num = stock.post_num + NumOf(Contents(psi, p))
<1>1. stock' = [stock EXCEPT !.assign_num = AssignNum(psi'), !.post_num = PostNum(psi')]
  BY DEF ScanWeight
<1> DEFINE S == Contents(psi, p)
<1>2. S \in SUBSET Item /\ (\A i \in S : psi[i].assign = "assigned" /\ psi'[i].assign = "sent")
      /\ \A i \in Item \ S : psi'[i].assign = psi[i].assign
  BY WeighKeeps DEF Contents
<1>3. stock'.assign_num = AssignNum(psi') /\ stock'.post_num = PostNum(psi')
      /\ stock'.sold_num = stock.sold_num /\ stock'.quantity = stock.quantity
  BY <1>1 DEF StockOK
<1> HIDE DEF S
<1>4. With(psi', Sold) = With(psi, Sold)
  <2>1. \A j \in Item : psi'[j].assign \in Sold <=> psi[j].assign \in Sold
    BY <1>2 DEF Sold
  <2> QED
    BY <2>1, GroupKept
<1>5. CountersExact'
  BY <1>3, <1>4 DEF CountersExact, SoldNum, Sold
<1>6. NumOf(With(psi, {"assigned"})) = NumOf(With(psi', {"assigned"})) + NumOf(S)
  BY <1>2, GroupEntered
<1>7. NumOf(With(psi', {"sent"})) = NumOf(With(psi, {"sent"})) + NumOf(S)
  BY <1>2, GroupEntered
<1> QED
  BY <1>3, <1>5, <1>6, <1>7 DEF S, CountersExact, AssignNum, PostNum

LEMMA ThirdCounts ==
    ASSUME PackingInv, StockOK, CountersExact, NEW i \in Item, ThirdSend(i)
    PROVE  /\ CountersExact'
           /\ stock' = [stock EXCEPT !.post_num = @ + Num[i], !.quantity = @ + Num[i]]
<1>1. stock' = [stock EXCEPT !.post_num = @ + Num[i], !.quantity = @ + Num[i]]
      /\ psi[i].assign = "virtual"
  BY DEF ThirdSend
<1>2. psi'[i].assign = "sent" /\ \A j \in Item \ {i} : psi'[j] = psi[j]
  BY ThirdKeeps
<1>3. With(psi', Sold) = With(psi, Sold) /\ With(psi', {"assigned"}) = With(psi, {"assigned"})
  BY <1>1, <1>2 DEF With, Sold
<1>4. NumOf(With(psi', {"sent"})) = NumOf(With(psi, {"sent"})) + NumOf({i})
  <2> DEFINE S == {i}
  <2>1. S \in SUBSET Item /\ (\A j \in Item \ S : psi'[j].assign = psi[j].assign)
        /\ \A j \in S : psi[j].assign \notin {"sent"} /\ psi'[j].assign \in {"sent"}
    BY <1>1, <1>2
  <2> HIDE DEF S
  <2>2. NumOf(With(psi', {"sent"})) = NumOf(With(psi, {"sent"})) + NumOf(S)
    BY <2>1, GroupEntered
  <2> QED
    BY <2>2 DEF S
<1>5. stock'.post_num = stock.post_num + Num[i] /\ stock'.sold_num = stock.sold_num
      /\ stock'.assign_num = stock.assign_num
  BY <1>1 DEF StockOK
<1>6. CountersExact'
  BY <1>3, <1>4, <1>5, NumOfOne DEF CountersExact, SoldNum, AssignNum, PostNum, Sold
<1> QED
  BY <1>1, <1>6

(* The stock row s of a movement counts like the one before it.            *)
LEMMA AssignCounts ==
    ASSUME PackingInv, NEW s, s \in [quantity : Int, sold_num : Int, assign_num : Int, post_num : Int],
           CountedRight(s, psi), NEW S \in SUBSET Waiting, SetAssigned(S, s)
    PROVE  /\ CountersExact'
           /\ stock' = [s EXCEPT !.assign_num = s.assign_num + NumOf(S)]
<1>1. stock' = [s EXCEPT !.assign_num = s.assign_num + NumOf(S)] /\ S \in SUBSET Item
  BY DEF SetAssigned, Waiting, With
<1>2. (\A j \in S : psi[j].assign = "waiting" /\ psi'[j].assign = "assigned")
      /\ \A j \in Item \ S : psi'[j].assign = psi[j].assign
  BY DEF SetAssigned, Waiting, With, PackingInv, RowsOK, PsiRow
<1>3. With(psi', Sold) = With(psi, Sold) /\ With(psi', {"sent"}) = With(psi, {"sent"})
  <2>1. \A j \in Item : /\ psi'[j].assign \in Sold <=> psi[j].assign \in Sold
                        /\ psi'[j].assign \in {"sent"} <=> psi[j].assign \in {"sent"}
    BY <1>2 DEF Sold
  <2> QED
    BY <2>1, GroupKept
<1>4. NumOf(With(psi', {"assigned"})) = NumOf(With(psi, {"assigned"})) + NumOf(S)
  BY <1>1, <1>2, GroupEntered
<1>5. stock'.assign_num = s.assign_num + NumOf(S) /\ stock'.sold_num = s.sold_num
      /\ stock'.post_num = s.post_num
  BY <1>1
<1>6. CountersExact'
  BY <1>3, <1>4, <1>5 DEF CountedRight, CountersExact, SoldNum, AssignNum, PostNum, Sold
<1> QED
  BY <1>1, <1>6

LEMMA ReleaseCounts ==
    ASSUME PackingInv, NEW s, s \in [quantity : Int, sold_num : Int, assign_num : Int, post_num : Int],
           CountedRight(s, psi), NEW i \in Item, psi[i].assign = "assigned", SetNotAssigned(i, s),
           UNCHANGED <<po, scan>>
    PROVE  /\ CountersExact'
           /\ s.assign_num = stock'.assign_num + Num[i]
           /\ stock' = [s EXCEPT !.assign_num = AssignNum(psi')]
<1>1. stock' = [s EXCEPT !.assign_num = AssignNum(psi')]
  BY DEF SetNotAssigned
<1>2. psi'[i].assign = "waiting" /\ \A j \in Item \ {i} : psi'[j] = psi[j]
  BY ReleaseKeeps
<1>3. With(psi', Sold) = With(psi, Sold) /\ With(psi', {"sent"}) = With(psi, {"sent"})
  BY <1>2 DEF With, Sold
<1>4. NumOf(With(psi, {"assigned"})) = NumOf(With(psi', {"assigned"})) + NumOf({i})
  <2> DEFINE S == {i}
  <2>1. S \in SUBSET Item /\ (\A j \in Item \ S : psi[j].assign = psi'[j].assign)
        /\ \A j \in S : psi'[j].assign \notin {"assigned"} /\ psi[j].assign \in {"assigned"}
    BY <1>2
  <2> HIDE DEF S
  <2>2. NumOf(With(psi, {"assigned"})) = NumOf(With(psi', {"assigned"})) + NumOf(S)
    BY <2>1, GroupEntered
  <2> QED
    BY <2>2 DEF S
<1>5. stock'.assign_num = AssignNum(psi') /\ stock'.sold_num = s.sold_num
      /\ stock'.post_num = s.post_num
  BY <1>1
<1>6. CountersExact'
  BY <1>3, <1>5 DEF CountedRight, CountersExact, SoldNum, PostNum, Sold
<1>7. s.assign_num = stock'.assign_num + Num[i]
  BY <1>4, <1>5, NumOfOne DEF CountedRight, AssignNum
<1> QED
  BY <1>1, <1>6, <1>7

(* What a movement of the stock does to the row: nothing, goods set aside, *)
(* or the goods of one item taken back.                                    *)
LEMMA MovedRow ==
    ASSUME StockOK, CountersExact, NEW d \in Int
    PROVE  LET s == [stock EXCEPT !.quantity = @ + d]
           IN /\ s \in [quantity : Int, sold_num : Int, assign_num : Int, post_num : Int]
              /\ CountedRight(s, psi)
              /\ RealtimeQuantity(s) = RealtimeQuantity(stock) + d
              /\ s.assign_num = stock.assign_num
<1> DEFINE s == [stock EXCEPT !.quantity = @ + d]
<1>1. s \in [quantity : Int, sold_num : Int, assign_num : Int, post_num : Int]
      /\ s.quantity = stock.quantity + d /\ s.sold_num = stock.sold_num
      /\ s.assign_num = stock.assign_num /\ s.post_num = stock.post_num
  BY DEF StockOK
<1>2. stock.quantity \in Int /\ stock.post_num \in Int
  BY DEF StockOK
<1>3. RealtimeQuantity(s) = RealtimeQuantity(stock) + d
  BY <1>1, <1>2 DEF RealtimeQuantity
<1>4. CountedRight(s, psi)
  BY <1>1, CountersAre DEF CountedRight
<1> QED
  BY <1>1, <1>3, <1>4

LEMMA StockCounts ==
    ASSUME PackingInv, NEW s, s \in [quantity : Int, sold_num : Int, assign_num : Int, post_num : Int],
           CountedRight(s, psi), NEW order, RelaseAssign(s) \/ AssignGoods(s, order),
           UNCHANGED <<po, scan>>
    PROVE  CountersExact' /\ stock' \in [quantity : Int, sold_num : Int, assign_num : Int, post_num : Int]
<1>1. CASE UNCHANGED <<psi, pa, pkg>> /\ stock' = s
  <2>1. CountedRight(stock', psi')
    BY <1>1
  <2> QED
    BY <1>1, <2>1 DEF CountersExact, CountedRight, SoldNum, AssignNum, PostNum, Sold
<1>2. ASSUME NEW S \in SUBSET Waiting, SetAssigned(S, s)
      PROVE  CountersExact' /\ stock' \in [quantity : Int, sold_num : Int, assign_num : Int, post_num : Int]
  <2>1. NumOf(S) \in Nat
    BY NumOfType DEF Waiting, With
  <2> QED
    BY <1>2, <2>1, AssignCounts
<1>3. ASSUME NEW i \in Item, psi[i].assign = "assigned", SetNotAssigned(i, s)
      PROVE  CountersExact' /\ stock' \in [quantity : Int, sold_num : Int, assign_num : Int, post_num : Int]
  <2>1. AssignNum(psi') \in Nat
    BY SumsAreNumbers
  <2> QED
    BY <1>3, <2>1, ReleaseCounts
<1>4. ASSUME RelaseAssign(s) PROVE (UNCHANGED <<psi, pa, pkg>> /\ stock' = s)
           \/ \E i \in Item : psi[i].assign = "assigned" /\ SetNotAssigned(i, s)
  BY <1>4 DEF RelaseAssign, With
<1>5. ASSUME ~RelaseAssign(s) PROVE \E S \in SUBSET Waiting : SetAssigned(S, s)
  <2>1. Chosen(FreeNum(s), order) \subseteq Waiting
    BY DEF Chosen, InOrder, Waiting, With
  <2> QED
    BY <1>5, <2>1 DEF AssignGoods
<1> QED
  BY <1>1, <1>2, <1>3, <1>4, <1>5

-----------------------------------------------------------------------------
(* The queue of tasks of an arrangement stays within its bound.            *)
QueueOK == \A j \in Item : pa[j].queued \in 0 .. MaxQueue

LEMMA SaveQueue ==
    ASSUME NEW r \in PaRow, r.queued \in 0 .. MaxQueue
    PROVE  SavePa(r).queued \in 0 .. MaxQueue
<1>1. CASE r.gen_order
  BY <1>1 DEF SavePa
<1>2. CASE ~r.gen_order
  <2> DEFINE q == IF r.queued < MaxQueue THEN r.queued + 1 ELSE r.queued
  <2>1. q \in 0 .. MaxQueue
    BY PackingAssumption
  <2>2. SavePa(r) = [r EXCEPT !.queued = q]
    BY <1>2 DEF SavePa
  <2> HIDE DEF q
  <2> QED
    BY <2>1, <2>2 DEF PaRow
<1> QED
  BY <1>1, <1>2

LEMMA NewQueue == ASSUME po \in Purchase PROVE NewPa.queued \in 0 .. MaxQueue
<1> DEFINE r == [status |-> "EFFECT", po |-> po, initial_book |-> FALSE,
                 gen_order |-> FALSE, queued |-> 0]
<1>1. r \in PaRow /\ r.queued \in 0 .. MaxQueue
  BY PackingAssumption DEF PaRow
<1>2. NewPa = SavePa(r)
  BY DEF NewPa
<1> HIDE DEF r
<1> QED
  BY <1>1, <1>2, SaveQueue

LEMMA CancelQueue ==
    ASSUME NEW r \in PaRow, r.queued \in 0 .. MaxQueue
    PROVE  CancelPa(r).queued \in 0 .. MaxQueue
<1>1. [r EXCEPT !.status = "CANCEL"] \in PaRow
      /\ [r EXCEPT !.status = "CANCEL"].queued = r.queued
  BY DEF PaRow
<1> QED
  BY <1>1, SaveQueue DEF CancelPa

LEMMA RebookQueue ==
    ASSUME po \in Purchase, NEW r \in PaRow, r.queued \in 0 .. MaxQueue
    PROVE  RebookedPa(r).queued \in 0 .. MaxQueue
<1>1. CASE r.status = "none"
  BY <1>1, NewQueue DEF RebookedPa
<1>2. CASE r.status = "CANCEL" /\ ~r.initial_book
  <2> DEFINE t == [r EXCEPT !.status = "EFFECT"]
  <2>1. t \in PaRow /\ t.queued = r.queued
    BY DEF PaRow
  <2>2. SavePa(t) \in PaRow /\ SavePa(t).queued \in 0 .. MaxQueue
    BY <2>1, SaveKeeps, SaveQueue
  <2>3. RebookedPa(r) = [SavePa(t) EXCEPT !.po = po, !.gen_order = TRUE]
    BY <1>2 DEF RebookedPa
  <2> HIDE DEF t
  <2> QED
    BY <2>2, <2>3 DEF PaRow
<1>3. CASE r.status # "none" /\ ~(r.status = "CANCEL" /\ ~r.initial_book)
  BY <1>3 DEF RebookedPa
<1> QED
  BY <1>1, <1>2, <1>3

LEMMA QueueStep ==
    ASSUME PackingInv, StockOK, [Next]_vars
    PROVE  QueueOK'
<1>1. (\A j \in Item : pa[j].queued \in 0 .. MaxQueue) /\ pa \in [Item -> PaRow] /\ po \in Purchase
  BY DEF StockOK, PackingInv, RowsOK
<1>2. ASSUME NEW i \in Item, NEW row, row.queued \in 0 .. MaxQueue, pa' = [pa EXCEPT ![i] = row]
      PROVE  QueueOK'
  BY <1>1, <1>2 DEF QueueOK
<1>3. CASE pa' = pa
  BY <1>1, <1>3 DEF QueueOK
<1>4. ASSUME NEW i \in Item, ItemStep(i) PROVE QueueOK'
  <2>1. CASE Create(i)
    BY <1>2, <1>3, <1>1, <2>1, NewQueue DEF Create
  <2>2. CASE RunTask(i) \/ PeriodicTask(i)
    <3>1. pa'[i].queued \in 0 .. MaxQueue /\ \A j \in Item \ {i} : pa'[j] = pa[j]
      BY <1>1, <2>2, PackingAssumption DEF RunTask, PeriodicTask, GenerateOrder, PaRow
    <3> QED
      BY <1>1, <3>1 DEF QueueOK
  <2>3. CASE \E other \in BOOLEAN : Cancel(i, other)
    <3>1. pa' = [pa EXCEPT ![i] = CancelPa(pa[i])]
      BY <2>3 DEF Cancel
    <3> QED
      BY <1>1, <1>2, <3>1, CancelQueue
  <2>4. CASE pa' = pa
    BY <1>3, <2>4
  <2>5. HoldRefund(i) \/ RefuseRefund(i) \/ ResetAssignPackage(i) \/ ThirdSend(i)
        \/ (\E other \in BOOLEAN : \E p \in Package : Merge(i, p, other)) => pa' = pa
    BY DEF HoldRefund, RefuseRefund, ResetAssignPackage, ThirdSend, Merge
  <2> QED
    BY <1>4, <2>1, <2>2, <2>3, <2>4, <2>5 DEF ItemStep
<1>5. ASSUME NEW p \in Package, PackageStep(p) PROVE QueueOK'
  <2>1. pa' = pa
    BY <1>5 DEF PackageStep, PrintPicking, PrintExpress, SendPackageTask, ScanCheck, ScanWeight,
       ConfirmArrival, ChangeToPrepare, BatchRevert
  <2> QED
    BY <1>3, <2>1
<1>6. ASSUME NEW third_package \in BOOLEAN, Book(third_package) PROVE QueueOK'
  <2>1. pa' = [i \in Item |-> IF i \in Booked THEN [pa[i] EXCEPT !.initial_book = TRUE] ELSE pa[i]]
    BY <1>6 DEF Book
  <2>2. \A j \in Item : pa'[j].queued = pa[j].queued
    BY <1>1, <2>1 DEF PaRow
  <2> QED
    BY <1>1, <2>2 DEF QueueOK
<1>7. ASSUME NEW s, NEW order, RelaseAssign(s) \/ AssignGoods(s, order) PROVE QueueOK'
  <2>1. ASSUME NEW S \in SUBSET Waiting, SetAssigned(S, s) PROVE QueueOK'
    <3>1. pa' = [i \in Item |-> IF i \in S THEN CancelPa(pa[i]) ELSE pa[i]]
      BY <2>1 DEF SetAssigned
    <3> QED
      BY <1>1, <3>1, CancelQueue DEF QueueOK
  <2>2. ASSUME NEW i \in Item, SetNotAssigned(i, s) PROVE QueueOK'
    <3>1. pa' = [pa EXCEPT ![i] = RebookedPa(pa[i])]
      BY <2>2 DEF SetNotAssigned
    <3> QED
      BY <1>1, <1>2, <3>1, RebookQueue
  <2> QED
    BY <1>3, <1>7, <2>1, <2>2, ReleaseCases, AssignCases
<1>8. CASE UNCHANGED vars
  BY <1>3, <1>8 DEF vars
<1> QED
  BY <1>4, <1>5, <1>6, <1>7, <1>8 DEF Next, Arrive, WriteOff

-----------------------------------------------------------------------------
(* Steps that leave the stock row and every item's part in the sums alone. *)
LEMMA QuietCounts ==
    ASSUME StockOK, CountersExact, stock' = stock,
           \A j \in Item : psi'[j].assign = psi[j].assign
    PROVE  CountersExact'
<1>1. CountedRight(stock, psi')
  BY CountersAre, SameStages
<1> QED
  BY <1>1 DEF CountersExact, CountedRight, SoldNum, AssignNum, PostNum, Sold

LEMMA BookCounts ==
    ASSUME PackingInv, CountersExact, NEW third_package \in BOOLEAN, Book(third_package)
    PROVE  CountersExact'
<1>1. stock' = stock
      /\ psi' = [i \in Item |-> IF i \in Booked
                   THEN [psi[i] EXCEPT !.status = "booked", !.po = po,
                                       !.assign = IF third_package THEN "virtual" ELSE @]
                   ELSE psi[i]]
  BY DEF Book
<1>2. \A j \in Item : \/ psi'[j].assign = psi[j].assign
                      \/ psi[j].assign = "waiting" /\ psi'[j].assign = "virtual"
  BY <1>1, BookedWaits DEF PackingInv, RowsOK, PsiRow
<1>3. \A j \in Item : /\ psi'[j].assign \in Sold <=> psi[j].assign \in Sold
                      /\ psi'[j].assign \in {"assigned"} <=> psi[j].assign \in {"assigned"}
                      /\ psi'[j].assign \in {"sent"} <=> psi[j].assign \in {"sent"}
  BY <1>2 DEF Sold
<1>4. With(psi', Sold) = With(psi, Sold) /\ With(psi', {"assigned"}) = With(psi, {"assigned"})
      /\ With(psi', {"sent"}) = With(psi, {"sent"})
  BY <1>3, GroupKept
<1> QED
  BY <1>1, <1>4 DEF CountersExact, SoldNum, AssignNum, PostNum, Sold

LEMMA CountersStep ==
    ASSUME PackingInv, StockOK, CountersExact, [Next]_vars
    PROVE  StockOK' /\ CountersExact'
<1> DEFINE Row == [quantity : Int, sold_num : Int, assign_num : Int, post_num : Int]
           Good == CountersExact' /\ stock' \in Row
           Rest == held' \in SUBSET Item /\ moves' \in 0 .. MaxMoves /\ reverts' \in 0 .. MaxReverts
<1>1. stock \in Row /\ psi \in [Item -> PsiRow]
      /\ held \in SUBSET Item /\ moves \in 0 .. MaxMoves /\ reverts \in 0 .. MaxReverts
  BY DEF StockOK, PackingInv, RowsOK
<1>2. ASSUME stock' = stock, \A j \in Item : psi'[j].assign = psi[j].assign PROVE Good
  BY <1>1, <1>2, QuietCounts
<1>3. ASSUME NEW i \in Item, ItemStep(i) PROVE Good /\ Rest
  <2>1. SoldNum(psi') \in Int /\ AssignNum(psi') \in Int /\ PostNum(psi') \in Int
    BY SumsAreNumbers
  <2>2. CASE Create(i)
    <3>1. CountersExact' /\ Rest
      BY <1>1, <2>2, CreateCounts DEF Create
    <3>2. stock' = [stock EXCEPT !.sold_num = SoldNum(psi'), !.assign_num = AssignNum(psi')]
      BY <2>2 DEF Create
    <3> QED
      BY <1>1, <2>1, <3>1, <3>2
  <2>3. CASE RunTask(i) \/ PeriodicTask(i)
    <3>1. stock' = stock /\ (\A j \in Item : psi'[j].assign = psi[j].assign) /\ Rest
      BY <1>1, <2>3 DEF RunTask, PeriodicTask, GenerateOrder, PsiRow
    <3> QED
      BY <1>2, <3>1
  <2>4. CASE HoldRefund(i) \/ RefuseRefund(i)
    <3>1. stock' = stock /\ psi' = psi /\ Rest
      BY <1>1, <2>4 DEF HoldRefund, RefuseRefund
    <3> QED
      BY <1>2, <3>1
  <2>5. CASE ResetAssignPackage(i)
    <3>1. CountersExact'
      BY <2>5, ResetCounts
    <3>2. Rest
      BY <1>1, <2>5, PackingAssumption DEF ResetAssignPackage
    <3>3. stock' = [stock EXCEPT !.sold_num = SoldNum(psi'), !.assign_num = AssignNum(psi'),
                                 !.post_num = PostNum(psi')]
      BY <2>5 DEF ResetAssignPackage
    <3> QED
      BY <1>1, <2>1, <3>1, <3>2, <3>3
  <2>6. CASE ThirdSend(i)
    <3>1. CountersExact' /\ stock' = [stock EXCEPT !.post_num = @ + Num[i], !.quantity = @ + Num[i]]
      BY <2>6, ThirdCounts
    <3>2. Rest
      BY <1>1, <2>6 DEF ThirdSend
    <3>3. stock.post_num + Num[i] \in Int /\ stock.quantity + Num[i] \in Int
      BY <1>1, PackingAssumption
    <3> QED
      BY <1>1, <3>1, <3>2, <3>3
  <2>7. ASSUME NEW other \in BOOLEAN, Cancel(i, other) PROVE Good /\ Rest
    <3>1. CountersExact'
      BY <2>7, CancelCounts
    <3>2. Rest
      BY <1>1, <2>7 DEF Cancel
    <3>3. stock' = [stock EXCEPT !.sold_num = SoldNum(psi'), !.assign_num = AssignNum(psi')]
      BY <2>7 DEF Cancel
    <3> QED
      BY <1>1, <2>1, <3>1, <3>2, <3>3
  <2>8. ASSUME NEW other \in BOOLEAN, NEW p \in Package, Merge(i, p, other) PROVE Good /\ Rest
    <3>1. stock' = stock /\ (\A j \in Item : psi'[j].assign = psi[j].assign) /\ Rest
      BY <1>1, <2>8 DEF Merge, PsiRow
    <3> QED
      BY <1>2, <3>1
  <2> QED
    BY <1>3, <2>2, <2>3, <2>4, <2>5, <2>6, <2>7, <2>8 DEF ItemStep
<1>4. ASSUME NEW p \in Package, PackageStep(p) PROVE Good /\ Rest
  <2>1. Rest
    <3>1. CASE PrintPicking(p) \/ PrintExpress(p) \/ SendPackageTask(p) \/ ScanCheck(p)
               \/ ScanWeight(p) \/ ConfirmArrival(p)
      BY <1>1, <3>1 DEF PrintPicking, PrintExpress, SendPackageTask, ScanCheck, ScanWeight, ConfirmArrival
    <3>2. CASE ChangeToPrepare(p) \/ BatchRevert(p)
      BY <1>1, <3>2, PackingAssumption DEF ChangeToPrepare, BatchRevert
    <3> QED
      BY <1>4, <3>1, <3>2 DEF PackageStep
  <2>2. CASE ScanWeight(p)
    <3>1. CountersExact'
      BY <2>2, WeighCounts
    <3>2. stock' = [stock EXCEPT !.assign_num = AssignNum(psi'), !.post_num = PostNum(psi')]
      BY <2>2 DEF ScanWeight
    <3>3. AssignNum(psi') \in Int /\ PostNum(psi') \in Int
      BY SumsAreNumbers
    <3> QED
      BY <1>1, <2>1, <3>1, <3>2, <3>3
  <2>3. CASE PrintPicking(p) \/ PrintExpress(p) \/ SendPackageTask(p) \/ ScanCheck(p)
             \/ ConfirmArrival(p) \/ ChangeToPrepare(p) \/ BatchRevert(p)
    <3>1. stock' = stock /\ \A j \in Item : psi'[j].assign = psi[j].assign
      BY <1>1, <2>3 DEF PrintPicking, PrintExpress, SendPackageTask, ScanCheck,
         ConfirmArrival, ChangeToPrepare, BatchRevert, PsiRow
    <3> QED
      BY <1>2, <2>1, <3>1
  <2> QED
    BY <1>4, <2>2, <2>3 DEF PackageStep
<1>5. ASSUME NEW third_package \in BOOLEAN, Book(third_package) PROVE Good /\ Rest
  <2>1. CountersExact' /\ stock' = stock /\ Rest
    BY <1>1, <1>5, BookCounts DEF Book
  <2> QED
    BY <1>1, <2>1
<1>6. ASSUME NEW n \in Arrivals, NEW order, Arrive(n, order) PROVE Good /\ Rest
  <2> DEFINE s == [stock EXCEPT !.quantity = @ + n]
  <2>1. s \in Row /\ CountedRight(s, psi)
    BY MovedRow, PackingAssumption
  <2>2. AssignGoods(s, order) /\ UNCHANGED <<po, scan>>
    BY <1>6 DEF Arrive
  <2>3. Rest
    BY <1>1, <1>6, PackingAssumption DEF Arrive
  <2> HIDE DEF s
  <2> QED
    BY <2>1, <2>2, <2>3, StockCounts
<1>7. ASSUME NEW n \in Losses, WriteOff(n) PROVE Good /\ Rest
  <2> DEFINE s == [stock EXCEPT !.quantity = @ + (- n)]
  <2>1. s \in Row /\ CountedRight(s, psi)
    BY MovedRow, PackingAssumption
  <2>2. stock.quantity - n = stock.quantity + (- n)
    BY <1>1, PackingAssumption
  <2>3. RelaseAssign(s) /\ UNCHANGED <<po, scan>>
    BY <1>7, <2>2 DEF WriteOff
  <2>4. Rest
    BY <1>1, <1>7, PackingAssumption DEF WriteOff
  <2> HIDE DEF s
  <2> QED
    BY <2>1, <2>3, <2>4, StockCounts
<1>8. Good /\ Rest
  <2>1. CASE UNCHANGED vars
    BY <1>1, <1>2, <2>1 DEF vars
  <2> QED
    BY <1>3, <1>4, <1>5, <1>6, <1>7, <2>1 DEF Next
<1>9. QueueOK'
  BY QueueStep
<1> QED
  BY <1>8, <1>9 DEF StockOK, QueueOK

WarehouseInv == PackingInv /\ StockOK /\ CountersExact

LEMMA Warehouse == Spec => []WarehouseInv
<1>1. Init => WarehouseInv
  BY InitPacking, InitCounted DEF WarehouseInv
<1>2. WarehouseInv /\ [Next]_vars => WarehouseInv'
  BY PackingStep, CountersStep DEF WarehouseInv
<1> QED
  BY <1>1, <1>2, PTL DEF Spec

(* Rows, counters and bounded queues keep their types.                     *)
THEOREM PackingTypes == Spec => []TypeOK
<1>1. WarehouseInv => TypeOK
  BY DEF WarehouseInv, PackingInv, RowsOK, StockOK, TypeOK, PsiRow, PaRow, PkgRow, ScanRow
<1> QED
  BY <1>1, Warehouse, PTL

(* The counters sales and assigning decide by are what restat would count  *)
(* from the rows, after every handler of SkuStock and PackageSkuItem.      *)
THEOREM CountersCorrect == Spec => []CountersExact
<1>1. WarehouseInv => CountersExact
  BY DEF WarehouseInv
<1> QED
  BY <1>1, Warehouse, PTL

-----------------------------------------------------------------------------
(* What the walks of SkuStock.assign set aside fits what is left: the sum  *)
(* up to the last item taken was compared with it.                         *)
LEMMA LastOf ==
    ASSUME NEW S \in SUBSET Item, S # {}
    PROVE  \E i \in S : \A j \in S : j <= i
<1> DEFINE U == {NItem - j : j \in S}
<1>1. \A j \in S : j \in Int /\ 1 <= j /\ j <= NItem /\ NItem \in Nat
  BY PackingAssumption DEF Item
<1>2. U \in SUBSET Nat /\ U # {}
  BY <1>1
<1>3. Min(U) \in U /\ \A n \in U : Min(U) <= n
  <2> HIDE DEF U
  <2> QED
    BY <1>2, MinIsLeast
<1>4. PICK i \in S : Min(U) = NItem - i
  BY <1>3
<1>5. \A j \in S : NItem - i <= NItem - j
  BY <1>3, <1>4
<1>6. \A j \in S : j <= i
  BY <1>1, <1>5
<1> QED
  BY <1>6

LEMMA FirstFitExists ==
    ASSUME NEW avail \in Int, NEW S \in SUBSET Item
    PROVE  \E T \in SUBSET S :
              \A i \in S : (i \in T) <=> NumOf({j \in T : j < i}) + Num[i] <= avail
<1> DEFINE Upto(n) == {i \in S : i <= n}
           Fits(T, i) == NumOf({j \in T : j < i}) + Num[i] <= avail
           Walk(n, T) == T \in SUBSET Upto(n) /\ \A i \in Upto(n) : (i \in T) <=> Fits(T, i)
           bad == {n \in 0 .. NItem : ~ \E T : Walk(n, T)}
<1>1. NItem \in Nat /\ \A i \in S : i \in Nat /\ 1 <= i /\ i <= NItem
  BY PackingAssumption DEF Item
<1>2. bad = {}
  <2> SUFFICES ASSUME bad # {} PROVE FALSE
    OBVIOUS
  <2> DEFINE n == Min(bad)
  <2>1. bad \in SUBSET Nat
    BY <1>1
  <2>2. n \in bad /\ \A m \in bad : n <= m
    <3> HIDE DEF bad
    <3> QED
      BY <2>1, MinIsLeast
  <2>3. n \in 0 .. NItem /\ ~ \E T : Walk(n, T)
    BY <2>2
  <2> HIDE DEF n
  <2>4. n # 0
    <3> SUFFICES ASSUME n = 0 PROVE FALSE
      OBVIOUS
    <3>1. Upto(n) = {}
      BY <1>1
    <3>2. Walk(n, {})
      BY <3>1
    <3> HIDE DEF Walk
    <3> QED
      BY <2>3, <3>2
  <2>5. n - 1 \in 0 .. NItem /\ n - 1 \notin bad
    <3> HIDE DEF bad
    <3>1. n - 1 \in 0 .. NItem /\ ~(n <= n - 1)
      BY <1>1, <2>3, <2>4
    <3> QED
      BY <2>2, <3>1
  <2>6. PICK T : Walk(n - 1, T)
    <3> HIDE DEF Walk
    <3> QED
      BY <2>5
  <2>7. T \in SUBSET Upto(n - 1) /\ T \in SUBSET Item
    BY <2>6
  <2> DEFINE V == IF n \in S /\ Fits(T, n) THEN T \cup {n} ELSE T
  <2>8. \A i \in Upto(n) : {j \in V : j < i} = {j \in T : j < i}
    BY <1>1, <2>3, <2>7
  <2>9. \A i \in Upto(n) : Fits(V, i) <=> Fits(T, i)
    BY <2>8
  <2>10. \A i \in Upto(n) : i = n \/ i \in Upto(n - 1)
    BY <1>1, <2>3
  <2>11. V \in SUBSET Upto(n)
    BY <1>1, <2>3, <2>7
  <2>12. n \notin T /\ n \notin Upto(n - 1)
    BY <2>3, <2>7
  <2>13. \A i \in Upto(n) : (i \in V) <=> Fits(V, i)
    <3> SUFFICES ASSUME NEW i \in Upto(n) PROVE (i \in V) <=> Fits(T, i)
      BY <2>9
    <3>1. CASE i = n
      BY <2>12, <3>1
    <3>2. CASE i \in Upto(n - 1)
      BY <2>6, <2>12, <3>2
    <3> QED
      BY <2>10, <3>1, <3>2
  <2>14. Walk(n, V)
    BY <2>11, <2>13
  <2> QED
    BY <2>3, <2>14
<1>3. PICK T : Walk(NItem, T)
  <2> HIDE DEF Walk
  <2>1. NItem \in 0 .. NItem
    BY <1>1
  <2> QED
    BY <1>2, <2>1
<1>4. Upto(NItem) = S
  BY <1>1
<1> QED
  BY <1>3, <1>4

LEMMA FirstFitFits ==
    ASSUME NEW avail \in Nat, NEW S \in SUBSET Item
    PROVE  FirstFit(avail, S) \in SUBSET S /\ NumOf(FirstFit(avail, S)) <= avail
<1> DEFINE T == FirstFit(avail, S)
<1>1. T \in SUBSET S /\ \A i \in S : (i \in T) <=> NumOf({j \in T : j < i}) + Num[i] <= avail
  <2> DEFINE P(V) == \A i \in S : (i \in V) <=> NumOf({j \in V : j < i}) + Num[i] <= avail
  <2>1. \E V \in SUBSET S : P(V)
    <3>1. avail \in Int
      OBVIOUS
    <3> QED
      BY <3>1, FirstFitExists
  <2>2. T = CHOOSE V \in SUBSET S : P(V)
    BY DEF FirstFit
  <2>3. T \in SUBSET S /\ P(T)
    <3> HIDE DEF P, T
    <3> QED
      BY <2>1, <2>2
  <2> QED
    BY <2>3
<1> HIDE DEF T
<1>2. CASE T = {}
  BY <1>1, <1>2, NumOfNone DEF T
<1>3. CASE T # {}
  <2>1. PICK i \in T : \A j \in T : j <= i
    BY <1>1, <1>3, LastOf
  <2> DEFINE B == {j \in T : j < i}
             C == {i}
  <2>2. i \in Item /\ T \in SUBSET Item
    BY <1>1, <2>1
  <2>3. T = B \cup C /\ B \cap C = {} /\ B \in SUBSET Item /\ C \in SUBSET Item
    <3>1. \A j \in T : j <= i /\ j \in Int /\ i \in Int
      BY <2>1, <2>2 DEF Item
    <3>2. \A j \in T : j < i \/ j = i
      BY <3>1
    <3>3. ~(i < i)
      BY <3>1, <2>1
    <3> QED
      BY <2>1, <2>2, <3>2, <3>3
  <2>4. NumOf(B) + Num[i] <= avail
    BY <1>1, <2>1
  <2>5. NumOf(C) = Num[i]
    BY <2>2, NumOfOne
  <2> HIDE DEF B, C
  <2>6. NumOf(T) = NumOf(B) + NumOf(C)
    BY <2>3, NumOfBoth
  <2>7. NumOf(T) <= avail
    BY <2>4, <2>5, <2>6
  <2> QED
    BY <1>1, <2>7 DEF T
<1> QED
  BY <1>2, <1>3

LEMMA InOrderFits ==
    ASSUME NEW avail \in Nat, NEW S \in SUBSET Item
    PROVE  InOrder(avail, S) \in SUBSET S /\ NumOf(InOrder(avail, S)) <= avail
<1> DEFINE T == InOrder(avail, S)
<1>1. T = {i \in S : NumOf({j \in S : j <= i}) <= avail} /\ T \in SUBSET Item
      /\ T \in SUBSET S
  BY DEF InOrder
<1> HIDE DEF T
<1>2. CASE T = {}
  <2>1. NumOf(T) <= avail
    BY <1>2, NumOfNone
  <2> QED
    BY <1>1, <2>1 DEF T
<1>3. CASE T # {}
  <2>1. PICK i \in T : \A j \in T : j <= i
    BY <1>1, <1>3, LastOf
  <2> DEFINE B == {j \in S : j <= i}
  <2>2. T \in SUBSET B /\ B \in SUBSET Item /\ NumOf(B) <= avail
    BY <1>1, <2>1
  <2> HIDE DEF B
  <2>3. NumOf(T) <= NumOf(B) /\ NumOf(T) \in Nat /\ NumOf(B) \in Nat
    BY <1>1, <2>2, NumOfPart, NumOfType
  <2>4. NumOf(T) <= avail
    BY <2>2, <2>3
  <2> QED
    BY <1>1, <2>4 DEF T
<1> QED
  BY <1>2, <1>3

LEMMA ChosenFits ==
    ASSUME NEW avail \in Nat, NEW order
    PROVE  Chosen(avail, order) \in SUBSET Waiting /\ NumOf(Chosen(avail, order)) <= avail
<1> DEFINE own  == IF order = 0 THEN {} ELSE {i \in Waiting : psi[i].po = order}
           mine == own \cap FirstFit(avail, own)
           rest == InOrder(avail - NumOf(mine), Waiting \ mine)
<1>1. Waiting \in SUBSET Item /\ own \in SUBSET Waiting
  BY DEF Waiting, With
<1>2. mine = FirstFit(avail, own) /\ mine \in SUBSET own /\ NumOf(mine) <= avail
  <2> HIDE DEF own
  <2>1. own \in SUBSET Item
    BY <1>1
  <2> QED
    BY <2>1, FirstFitFits
<1>3. Chosen(avail, order) = mine \cup rest
  BY DEF Chosen
<1> HIDE DEF own, mine
<1>4. NumOf(mine) \in Nat /\ mine \in SUBSET Item
  BY <1>1, <1>2, NumOfType
<1>5. avail - NumOf(mine) \in Nat /\ Waiting \ mine \in SUBSET Item
  BY <1>1, <1>2, <1>4
<1>6. rest \in SUBSET (Waiting \ mine) /\ NumOf(rest) <= avail - NumOf(mine)
  BY <1>5, InOrderFits
<1> HIDE DEF rest
<1>7. mine \cap rest = {} /\ rest \in SUBSET Item
  BY <1>1, <1>6
<1>8. NumOf(mine \cup rest) = NumOf(mine) + NumOf(rest) /\ NumOf(rest) \in Nat
  BY <1>4, <1>7, NumOfBoth, NumOfType
<1>9. mine \cup rest \in SUBSET Waiting
  BY <1>1, <1>2, <1>6
<1> QED
  BY <1>3, <1>4, <1>6, <1>8, <1>9

-----------------------------------------------------------------------------
(* What is set aside is there, or nothing is set aside.                    *)
Covered(s) == s.assign_num <= RealtimeQuantity(s) \/ s.assign_num <= 0

LEMMA CoveredAs ==
    ASSUME StockOK
    PROVE  NotOverAssigned <=> (Losses \subseteq {1} => Covered(stock))
<1> DEFINE q == RealtimeQuantity(stock)
<1>1. q \in Int /\ stock.assign_num \in Int
  BY DEF StockOK, RealtimeQuantity
<1> HIDE DEF q
<1>2. Max({q, 0}) = IF q >= 0 THEN q ELSE 0
  <2>1. \E x \in {q, 0} : \A y \in {q, 0} : x >= y
    BY <1>1
  <2>2. Max({q, 0}) \in {q, 0} /\ \A y \in {q, 0} : Max({q, 0}) >= y
    BY <2>1 DEF Max
  <2> QED
    BY <1>1, <2>2
<1>3. stock.assign_num <= Max({q, 0}) <=> stock.assign_num <= q \/ stock.assign_num <= 0
  BY <1>1, <1>2
<1> QED
  BY <1>3 DEF NotOverAssigned, Covered, q

(* One item's goods taken back cover a loss of one, and what arrives is    *)
(* set aside as far as it goes.                                            *)
LEMMA StockCovers ==
    ASSUME WarehouseInv, Covered(stock), NEW d \in Int, d >= -1,
           NEW s, s = [stock EXCEPT !.quantity = @ + d],
           NEW order, RelaseAssign(s) \/ (d >= 0 /\ AssignGoods(s, order)),
           UNCHANGED <<po, scan>>
    PROVE  Covered(stock')
<1> DEFINE Row == [quantity : Int, sold_num : Int, assign_num : Int, post_num : Int]
<1>1. s \in Row /\ CountedRight(s, psi) /\ s.assign_num = stock.assign_num
      /\ RealtimeQuantity(s) = RealtimeQuantity(stock) + d
  BY MovedRow DEF WarehouseInv
<1>2. stock.assign_num \in Int /\ RealtimeQuantity(stock) \in Int /\ RealtimeQuantity(s) \in Int
      /\ FreeNum(s) = RealtimeQuantity(s) - s.assign_num
  BY <1>1 DEF WarehouseInv, StockOK, RealtimeQuantity, FreeNum
<1>3. With(psi, {"assigned"}) = {} => s.assign_num = 0
  BY <1>1, NumOfNone DEF CountedRight
<1>4. CASE RelaseAssign(s)
  <2>1. CASE stock' = s /\ (s.assign_num <= 0 \/ FreeNum(s) > 0 \/ With(psi, {"assigned"}) = {})
    BY <1>1, <1>2, <1>3, <2>1 DEF Covered
  <2>2. ASSUME NEW i \in Item, psi[i].assign = "assigned", SetNotAssigned(i, s),
               ~(s.assign_num <= 0)
        PROVE  Covered(stock')
    <3>1. s.assign_num = stock'.assign_num + Num[i]
          /\ stock' = [s EXCEPT !.assign_num = AssignNum(psi')]
      BY <1>1, <2>2, ReleaseCounts DEF WarehouseInv
    <3>2. RealtimeQuantity(stock') = RealtimeQuantity(s)
      BY <1>1, <3>1 DEF RealtimeQuantity
    <3>3. stock'.assign_num \in Int /\ Num[i] \in Nat \ {0}
      BY <1>1, <3>1, SumsAreNumbers, PackingAssumption
    <3>4. stock.assign_num <= RealtimeQuantity(stock)
      BY <1>1, <2>2 DEF Covered
    <3>5. stock'.assign_num <= RealtimeQuantity(stock')
      BY <1>1, <1>2, <3>1, <3>2, <3>3, <3>4
    <3> QED
      BY <3>5 DEF Covered
  <2> QED
    BY <1>4, <2>1, <2>2 DEF RelaseAssign, With
<1>5. CASE d >= 0 /\ AssignGoods(s, order) /\ ~RelaseAssign(s)
  <2> DEFINE S == Chosen(FreeNum(s), order)
  <2>1. FreeNum(s) \in Nat /\ SetAssigned(S, s)
    BY <1>1, <1>2, <1>5 DEF AssignGoods
  <2>2. S \in SUBSET Waiting /\ NumOf(S) <= FreeNum(s)
    BY <2>1, ChosenFits
  <2>3. NumOf(S) \in Nat
    BY <2>2, NumOfType DEF Waiting, With
  <2> HIDE DEF S
  <2>4. stock' = [s EXCEPT !.assign_num = s.assign_num + NumOf(S)]
    BY <1>1, <2>1, <2>2, AssignCounts DEF WarehouseInv
  <2>5. stock'.assign_num = s.assign_num + NumOf(S) /\ RealtimeQuantity(stock') = RealtimeQuantity(s)
    BY <1>1, <2>4 DEF RealtimeQuantity
  <2>6. stock'.assign_num <= RealtimeQuantity(stock')
    BY <1>1, <1>2, <2>2, <2>3, <2>5
  <2> QED
    BY <2>6 DEF Covered
<1> QED
  BY <1>4, <1>5

LEMMA CoveredItemStep ==
    ASSUME WarehouseInv, Covered(stock), NEW i \in Item, ItemStep(i)
    PROVE  Covered(stock')
<1>1. PackingInv /\ StockOK /\ CountersExact /\ stock.assign_num \in Int
      /\ RealtimeQuantity(stock) \in Int /\ stock.quantity \in Int /\ stock.post_num \in Int
  BY DEF WarehouseInv, StockOK, RealtimeQuantity
<1>2. CASE stock' = stock
  BY <1>2
<1>3. CASE Create(i)
  <2>1. CASE FreeNum(stock) >= Num[i]
    <3> DEFINE S == {i}
    <3>1. psi[i].assign # "assigned" /\ psi'[i].assign = "assigned"
          /\ \A j \in Item \ {i} : psi'[j] = psi[j]
      BY <1>1, <1>3, <2>1 DEF Create, PackingInv, RowsOK, StatusInv, PsiRow
    <3>2. S \in SUBSET Item /\ (\A j \in Item \ S : psi'[j].assign = psi[j].assign)
          /\ \A j \in S : psi[j].assign \notin {"assigned"} /\ psi'[j].assign \in {"assigned"}
      BY <3>1
    <3>3. NumOf(S) = Num[i] /\ Num[i] \in Nat
      BY NumOfOne
    <3> HIDE DEF S
    <3>4. NumOf(With(psi', {"assigned"})) = NumOf(With(psi, {"assigned"})) + NumOf(S)
      BY <3>2, GroupEntered
    <3>5. stock' = [stock EXCEPT !.sold_num = SoldNum(psi'), !.assign_num = AssignNum(psi')]
      BY <1>3 DEF Create
    <3>6. stock'.assign_num = stock.assign_num + Num[i]
          /\ RealtimeQuantity(stock') = RealtimeQuantity(stock)
      BY <1>1, <3>3, <3>4, <3>5 DEF StockOK, RealtimeQuantity, CountersExact, AssignNum
    <3>7. stock'.assign_num <= RealtimeQuantity(stock')
      BY <1>1, <2>1, <3>3, <3>6 DEF FreeNum
    <3> QED
      BY <3>7 DEF Covered
  <2>2. CASE ~(FreeNum(stock) >= Num[i])
    <3>1. psi[i].assign # "assigned" /\ psi'[i].assign # "assigned"
          /\ \A j \in Item \ {i} : psi'[j] = psi[j]
      BY <1>1, <1>3, <2>2 DEF Create, PackingInv, RowsOK, StatusInv, PsiRow
    <3>2. With(psi', {"assigned"}) = With(psi, {"assigned"})
      BY <3>1 DEF With
    <3>3. stock' = [stock EXCEPT !.sold_num = SoldNum(psi'), !.assign_num = AssignNum(psi')]
      BY <1>3 DEF Create
    <3>4. stock'.assign_num = stock.assign_num /\ RealtimeQuantity(stock') = RealtimeQuantity(stock)
      BY <1>1, <3>2, <3>3 DEF StockOK, RealtimeQuantity, CountersExact, AssignNum
    <3> QED
      BY <3>4 DEF Covered
  <2> QED
    BY <2>1, <2>2
<1>4. CASE RunTask(i) \/ PeriodicTask(i) \/ HoldRefund(i) \/ RefuseRefund(i)
           \/ \E other \in BOOLEAN, p \in Package : Merge(i, p, other)
  BY <1>2, <1>4 DEF RunTask, PeriodicTask, HoldRefund, RefuseRefund, Merge
<1>5. CASE ResetAssignPackage(i)
  <2>1. With(psi', {"assigned"}) = With(psi, {"assigned"}) /\ With(psi', {"sent"}) = With(psi, {"sent"})
    BY <1>1, <1>5, ResetKeeps DEF With
  <2>2. stock' = [stock EXCEPT !.sold_num = SoldNum(psi'), !.assign_num = AssignNum(psi'),
                               !.post_num = PostNum(psi')]
    BY <1>5 DEF ResetAssignPackage
  <2>3. stock'.assign_num = stock.assign_num /\ stock'.post_num = stock.post_num
        /\ stock'.quantity = stock.quantity
    BY <1>1, <2>1, <2>2 DEF StockOK, CountersExact, AssignNum, PostNum
  <2> QED
    BY <2>3 DEF Covered, RealtimeQuantity
<1>6. CASE ThirdSend(i)
  <2>1. stock' = [stock EXCEPT !.post_num = @ + Num[i], !.quantity = @ + Num[i]]
    BY <1>1, <1>6, ThirdCounts
  <2>2. stock'.assign_num = stock.assign_num /\ stock'.post_num = stock.post_num + Num[i]
        /\ stock'.quantity = stock.quantity + Num[i]
    BY <1>1, <2>1 DEF StockOK
  <2>3. RealtimeQuantity(stock') = RealtimeQuantity(stock)
    BY <1>1, <2>2, PackingAssumption DEF RealtimeQuantity
  <2> QED
    BY <2>2, <2>3 DEF Covered
<1>7. ASSUME NEW other \in BOOLEAN, Cancel(i, other) PROVE Covered(stock')
  <2>1. psi'[i].assign = "cancelled" /\ \A j \in Item \ {i} : psi'[j] = psi[j]
    BY <1>1, <1>7, CancelKeeps
  <2>2. With(psi', {"assigned"}) \in SUBSET With(psi, {"assigned"})
        /\ With(psi, {"assigned"}) \in SUBSET Item
    BY <2>1 DEF With
  <2>3. AssignNum(psi') <= AssignNum(psi) /\ AssignNum(psi') \in Nat
    BY <2>2, NumOfPart, SumsAreNumbers DEF AssignNum
  <2>4. stock' = [stock EXCEPT !.sold_num = SoldNum(psi'), !.assign_num = AssignNum(psi')]
    BY <1>7 DEF Cancel
  <2>5. stock'.assign_num = AssignNum(psi') /\ RealtimeQuantity(stock') = RealtimeQuantity(stock)
    BY <1>1, <2>4 DEF StockOK, RealtimeQuantity
  <2>6. stock.assign_num = AssignNum(psi)
    BY <1>1 DEF CountersExact
  <2> QED
    BY <1>1, <2>3, <2>5, <2>6 DEF Covered
<1> QED
  BY <1>3, <1>4, <1>5, <1>6, <1>7 DEF ItemStep

LEMMA CoveredStep ==
    ASSUME WarehouseInv, Losses \subseteq {1}, Covered(stock), [Next]_vars
    PROVE  Covered(stock')
<1>1. CASE stock' = stock
  BY <1>1
<1>2. ASSUME NEW i \in Item, ItemStep(i) PROVE Covered(stock')
  BY <1>2, CoveredItemStep
<1>3. ASSUME NEW p \in Package, PackageStep(p) PROVE Covered(stock')
  <2>1. CASE ScanWeight(p)
    <3> DEFINE k == NumOf(Contents(psi, p))
    <3>1. stock'.quantity = stock.quantity /\ stock.assign_num = stock'.assign_num + k
          /\ stock'.post_num = stock.post_num + k /\ CountersExact'
      BY <2>1, WeighCounts DEF WarehouseInv
    <3>2. k \in Nat
      BY NumOfType DEF Contents
    <3> HIDE DEF k
    <3>3. stock'.assign_num \in Nat
      BY <3>1, SumsAreNumbers DEF CountersExact
    <3>4. stock.quantity \in Int /\ stock.post_num \in Int /\ stock.assign_num \in Int
      BY DEF WarehouseInv, StockOK
    <3>5. RealtimeQuantity(stock') = RealtimeQuantity(stock) - k /\ RealtimeQuantity(stock) \in Int
      BY <3>1, <3>2, <3>4 DEF RealtimeQuantity
    <3> QED
      BY <3>1, <3>2, <3>3, <3>4, <3>5 DEF Covered
  <2>2. CASE ~ScanWeight(p)
    BY <1>1, <1>3, <2>2 DEF PackageStep, PrintPicking, PrintExpress, SendPackageTask, ScanCheck,
       ConfirmArrival, ChangeToPrepare, BatchRevert
  <2> QED
    BY <2>1, <2>2
<1>4. ASSUME NEW third_package \in BOOLEAN, Book(third_package) PROVE Covered(stock')
  BY <1>1, <1>4 DEF Book
<1>5. ASSUME NEW n \in Arrivals, NEW order, Arrive(n, order) PROVE Covered(stock')
  <2>1. n \in Int /\ n >= -1 /\ n >= 0
    BY PackingAssumption
  <2>2. AssignGoods([stock EXCEPT !.quantity = @ + n], order) /\ UNCHANGED <<po, scan>>
    BY <1>5 DEF Arrive
  <2> QED
    BY <2>1, <2>2, StockCovers
<1>6. ASSUME NEW n \in Losses, WriteOff(n) PROVE Covered(stock')
  <2>1. n = 1 /\ stock.quantity - n = stock.quantity + (-1)
    BY PackingAssumption DEF WarehouseInv, StockOK
  <2>2. RelaseAssign([stock EXCEPT !.quantity = @ + (-1)]) /\ UNCHANGED <<po, scan>>
    BY <1>6, <2>1 DEF WriteOff
  <2>3. -1 \in Int /\ -1 >= -1
    OBVIOUS
  <2> QED
    BY <2>2, <2>3, StockCovers
<1> QED
  BY <1>1, <1>2, <1>3, <1>4, <1>5, <1>6 DEF Next, vars

(* As long as goods are written off one at a time, no goods are set aside  *)
(* twice, however sales, arrivals, packing and refunds interleave          *)
(* (SkuStock.assign and relase_assign).                                    *)
THEOREM StockCorrect == Spec => []NotOverAssigned
<1> DEFINE Safe == WarehouseInv /\ (Losses \subseteq {1} => Covered(stock))
<1>1. Init => Safe
  <2> SUFFICES ASSUME Init PROVE Safe
    OBVIOUS
  <2>1. WarehouseInv
    BY InitPacking, InitCounted DEF WarehouseInv
  <2>2. stock.assign_num <= 0
    BY DEF Init
  <2> QED
    BY <2>1, <2>2 DEF Covered
<1>2. Safe /\ [Next]_vars => Safe'
  BY PackingStep, CountersStep, CoveredStep DEF WarehouseInv
<1>3. Safe => NotOverAssigned
  BY CoveredAs DEF WarehouseInv
<1> HIDE DEF Safe
<1> QED
  BY <1>1, <1>2, <1>3, PTL DEF Spec
=============================================================================
