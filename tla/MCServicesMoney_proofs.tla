----------------------- MODULE MCServicesMoney_proofs -----------------------
(***************************************************************************)
(* What is proved of the services that keep books: restore, archive, cash  *)
(* shifts, ingredients, e-invoices, the stock of a dish (BooksBalance).    *)
(***************************************************************************)
EXTENDS MCServices_proofs, SequenceTheorems

-----------------------------------------------------------------------------
\* A restore (Restore).

\* From the copy on, all that was there when the restore began is in a copy.
BackInv ==
    /\ Back!TypeOK /\ Back!CanGoBack
    /\ x8 \in {"removeLog", "replace", "overwrite"} => x6 \subseteq x5

LEMMA BackInit == Back!Init => BackInv
<1> SUFFICES ASSUME Back!Init PROVE BackInv
  OBVIOUS
<1>1. /\ x1 = "old" /\ x2 = {} /\ x3 = {} /\ x4 = "none" /\ x5 = {} /\ x6 = {} /\ x7 = TRUE
      /\ x8 = "idle" /\ x9 = 0 /\ 0 \in 0..MaxFailure
  BY BooksAssumption DEF Back!Init
<1> QED BY <1>1 DEF BackInv, Back!TypeOK, Back!CanGoBack

LEMMA BackNext == BackInv /\ Back!Next => BackInv'
<1> SUFFICES ASSUME BackInv, Back!Next PROVE BackInv'
  OBVIOUS
<1> USE DEF BackInv, Back!TypeOK, Back!CanGoBack
<1>1. ASSUME NEW n \in Back!Commits, Back!Commit(n) PROVE BackInv'
  BY <1>1 DEF Back!Commit
<1>2. CASE Back!Checkpoint
  BY <1>2 DEF Back!Checkpoint
<1>3. CASE Back!Start
  BY <1>3 DEF Back!Start
<1>4. CASE Back!Extract
  BY <1>4 DEF Back!Extract
<1>5. CASE Back!Validate
  BY <1>5 DEF Back!Validate
<1>6. CASE Back!Snapshot
  BY <1>6 DEF Back!Snapshot
<1>7. CASE Back!RemoveLog
  BY <1>7 DEF Back!RemoveLog
<1>8. CASE Back!Replace
  BY <1>8 DEF Back!Replace, Back!Restored
<1>9. CASE Back!Overwrite
  BY <1>9 DEF Back!Overwrite, Back!Restored
<1>10. CASE Back!Fail
  BY <1>10 DEF Back!Fail
<1>11. CASE Back!Upgrade
  BY <1>11 DEF Back!Upgrade
<1>12. CASE Back!Die
  <2>1. x9' \in 0..MaxFailure
    BY <1>12, BooksAssumption DEF Back!Die
  <2> QED BY <1>12, <2>1 DEF Back!Die
<1> QED BY <1>1, <1>2, <1>3, <1>4, <1>5, <1>6, <1>7, <1>8, <1>9, <1>10, <1>11, <1>12 DEF Back!Next

-----------------------------------------------------------------------------
\* A dish's stock while it is edited (MenuStock).

EditingInv == Editing!TypeOK /\ Editing!StockCounted /\ Editing!FlagHasReason

EditRow ==
    {Editing!Idle} \cup [at : {"open"}, shown : 0..MaxStock]
    \cup [at : {"form"}, read : Editing!Rows, change : -MaxStock..MaxStock, tick : BOOLEAN]
    \cup [at : {"set"}, read : Editing!Rows, stock : {-1} \cup 0..MaxStock, flag : {"keep", "sold", "open"}]

LEMMA EditingFacts ==
    EditingInv <=>
        /\ x1 \in 0..MaxStock /\ x2 \in BOOLEAN /\ x4 = x1 /\ x3 \in [Request -> EditRow]
        /\ x5 \in {"sold", "open", "nothing"} /\ x6 \in BOOLEAN
        /\ ~x6 => (x2 => x1 = 0 \/ x5 = "sold") /\ (x1 = 0 => x2 \/ x5 = "open")
  BY DEF EditingInv, Editing!TypeOK, Editing!StockCounted, Editing!FlagHasReason, EditRow,
         Editing!Row, Editing!Rows, Editing!Keep

LEMMA EditingInit == Editing!Init => EditingInv
<1> SUFFICES ASSUME Editing!Init PROVE EditingInv
  OBVIOUS
<1>1. /\ x1 = Stock0 /\ x2 = (Stock0 = 0) /\ x4 = Stock0 /\ x3 = [r \in Request |-> Editing!Idle]
      /\ x5 = "nothing" /\ x6 = FALSE
  BY DEF Editing!Init
<1>2. Stock0 \in 0..MaxStock
  BY BooksAssumption
<1>3. x3 \in [Request -> EditRow]
  BY <1>1 DEF EditRow
<1>4. x2 \in BOOLEAN
  BY <1>1
<1> QED BY <1>1, <1>2, <1>3, <1>4, EditingFacts

LEMMA EditingNext == EditingInv /\ Editing!Next => EditingInv'
<1> SUFFICES ASSUME EditingInv, Editing!Next PROVE EditingInv'
  OBVIOUS
<1>1. /\ x1 \in 0..MaxStock /\ x2 \in BOOLEAN /\ x4 = x1 /\ x3 \in [Request -> EditRow]
      /\ x5 \in {"sold", "open", "nothing"} /\ x6 \in BOOLEAN
      /\ ~x6 => (x2 => x1 = 0 \/ x5 = "sold") /\ (x1 = 0 => x2 \/ x5 = "open")
  BY EditingFacts
<1>2. ASSUME x1' \in 0..MaxStock, x2' \in BOOLEAN, x4' = x1', x3' \in [Request -> EditRow],
             x5' \in {"sold", "open", "nothing"}, x6' \in BOOLEAN,
             ~x6' => (x2' => x1' = 0 \/ x5' = "sold") /\ (x1' = 0 => x2' \/ x5' = "open")
      PROVE  EditingInv'
  BY <1>2 DEF EditingInv, Editing!TypeOK, Editing!StockCounted, Editing!FlagHasReason, EditRow,
         Editing!Row, Editing!Rows, Editing!Keep
<1>3. MaxStock \in Nat
  BY BooksAssumption
<1>4. ASSUME NEW r \in Request, NEW e \in EditRow, x3' = [x3 EXCEPT ![r] = e],
             UNCHANGED <<x1, x2, x4, x5, x6>>
      PROVE  EditingInv'
  <2>1. x3' \in [Request -> EditRow]
    BY <1>1, <1>4
  <2> QED BY <1>1, <1>2, <1>4, <2>1
<1>5. Editing!Idle \in EditRow
  BY DEF EditRow
<1>6. ASSUME NEW r \in Request, Editing!OpenForm(r) PROVE EditingInv'
  <2>1. [at |-> "open", shown |-> x1] \in EditRow
    BY <1>1 DEF EditRow
  <2> QED BY <1>4, <1>6, <2>1 DEF Editing!OpenForm
<1>7. ASSUME NEW r \in Request, NEW n \in 0..MaxStock, NEW tick \in BOOLEAN, Editing!SendForm(r, n, tick)
      PROVE  EditingInv'
  <2>1. x3[r] \in EditRow /\ x3[r].at = "open"
    BY <1>1, <1>7 DEF Editing!SendForm
  <2>2. x3[r].shown \in 0..MaxStock
    BY <2>1 DEF EditRow, Editing!Idle
  <2>3. n - x3[r].shown \in -MaxStock..MaxStock
    BY <1>3, <2>2
  <2>4. Editing!Row \in Editing!Rows
    BY <1>1 DEF Editing!Row, Editing!Rows
  <2>5. [at |-> "form", read |-> Editing!Row, change |-> n - x3[r].shown, tick |-> tick] \in EditRow
    BY <2>3, <2>4 DEF EditRow
  <2> QED BY <1>4, <1>7, <2>5 DEF Editing!SendForm
<1>8. ASSUME NEW r \in Request, NEW n \in {Editing!Keep} \cup 0..MaxStock,
             NEW flag \in {"keep", "sold", "open"}, Editing!ReadToSet(r, n, flag)
      PROVE  EditingInv'
  <2>1. Editing!Row \in Editing!Rows
    BY <1>1 DEF Editing!Row, Editing!Rows
  <2>2. [at |-> "set", read |-> Editing!Row, stock |-> n, flag |-> flag] \in EditRow
    BY <2>1 DEF EditRow, Editing!Keep
  <2> QED BY <1>4, <1>8, <2>2 DEF Editing!ReadToSet
<1>9. ASSUME NEW r \in Request, Editing!Refuse(r) PROVE EditingInv'
  BY <1>4, <1>5, <1>9 DEF Editing!Refuse, Editing!Finished
<1>10. ASSUME NEW r \in Request, Editing!SaveForm(r) PROVE EditingInv'
  <2>1. PICK e \in EditRow : e = x3[r]
    BY <1>1
  <2>2. e.at = "form" /\ x3' = [x3 EXCEPT ![r] = Editing!Idle]
    BY <1>10, <2>1 DEF Editing!SaveForm, Editing!Finished
  <2>3. e.read \in Editing!Rows /\ e.change \in -MaxStock..MaxStock /\ e.tick \in BOOLEAN
    BY <2>1, <2>2 DEF EditRow, Editing!Idle
  <2>4. PICK rs, rf, ch, tick : rs = e.read.stock /\ rf = e.read.soldOut /\ ch = e.change /\ tick = e.tick
    OBVIOUS
  <2>5. rs \in 0..MaxStock /\ rf \in BOOLEAN /\ ch \in Int /\ tick \in BOOLEAN
    BY <1>3, <2>3, <2>4 DEF Editing!Rows
  <2>6. e.read = [stock |-> rs, soldOut |-> rf]
    BY <2>3, <2>4 DEF Editing!Rows
  <2>7. PICK new : new = Editing!NewStock(e)
    OBVIOUS
  <2>8. new = IF (IF ch = 0 THEN rs ELSE x1) + ch < 0 THEN 0 ELSE (IF ch = 0 THEN rs ELSE x1) + ch
    BY <2>4, <2>7 DEF Editing!NewStock, Editing!AtLeastZero
  <2>9. /\ new <= MaxStock /\ x1' = (IF ch = 0 THEN x1 ELSE new)
        /\ x4' = (IF x4 + ch < 0 THEN 0 ELSE x4 + ch)
        /\ x2' = (IF (tick \/ new = 0) # rf THEN (tick \/ new = 0) ELSE x2)
        /\ x5' = (IF tick THEN "sold" ELSE "nothing")
        /\ x6' = (IF ch = 0 THEN Editing!Row # e.read ELSE x2 # rf)
    BY <1>10, <2>1, <2>4, <2>7 DEF Editing!SaveForm, Editing!WriteFlag, Editing!AtLeastZero
  <2>10. x3' \in [Request -> EditRow] /\ x5' \in {"sold", "open", "nothing"}
    BY <1>1, <1>5, <2>2, <2>9
  <2>11. x6' \in BOOLEAN /\ x2' \in BOOLEAN
    <3>1. (Editing!Row # e.read) \in BOOLEAN /\ (x2 # rf) \in BOOLEAN /\ (tick \/ new = 0) \in BOOLEAN
      OBVIOUS
    <3>2. x6' \in {Editing!Row # e.read, x2 # rf}
      BY <2>9
    <3>3. x2' \in {tick \/ new = 0, x2}
      BY <2>9
    <3> QED BY <1>1, <3>1, <3>2, <3>3
  <2>12. x1' \in 0..MaxStock /\ x4' = x1'
    BY <1>1, <1>3, <2>5, <2>8, <2>9
  <2>13. ~x6' => x2 = rf /\ (ch = 0 => x1 = rs)
    <3>1. SUFFICES ASSUME ~x6' PROVE x2 = rf /\ (ch = 0 => x1 = rs)
      OBVIOUS
    <3>2. CASE ch # 0
      BY <2>9, <3>1, <3>2
    <3>3. CASE ch = 0
      <4>1. Editing!Row = e.read
        BY <2>9, <3>1, <3>3
      <4>2. Editing!Row.soldOut = x2 /\ Editing!Row.stock = x1
        BY DEF Editing!Row
      <4> QED BY <2>4, <4>1, <4>2
    <3> QED BY <3>2, <3>3
  <2>14. ~x6' => x2' = (tick \/ new = 0) /\ x1' = new
    <3>1. SUFFICES ASSUME ~x6' PROVE x2' = (tick \/ new = 0) /\ x1' = new
      OBVIOUS
    <3>2. x1' = new
      BY <1>1, <2>5, <2>8, <2>9, <2>13, <3>1
    <3>3. x2' = (tick \/ new = 0)
      BY <2>9, <2>13, <3>1
    <3> QED BY <3>2, <3>3
  <2>15. ~x6' => (x2' => x1' = 0 \/ x5' = "sold") /\ (x1' = 0 => x2' \/ x5' = "open")
    BY <2>9, <2>14
  <2> QED BY <1>2, <2>10, <2>11, <2>12, <2>15
<1>11. ASSUME NEW r \in Request, Editing!Set(r) PROVE EditingInv'
  <2>1. PICK e \in EditRow : e = x3[r]
    BY <1>1
  <2>2. e.at = "set" /\ x3' = [x3 EXCEPT ![r] = Editing!Idle]
    BY <1>11, <2>1 DEF Editing!Set, Editing!Finished
  <2>3. e.read \in Editing!Rows /\ e.stock \in {-1} \cup 0..MaxStock
    BY <2>1, <2>2 DEF EditRow, Editing!Idle
  <2>4. \/ x1' = e.stock /\ x4' = e.stock /\ e.stock # -1
        \/ x1' = x1 /\ x4' = x4
    BY <1>11, <2>1 DEF Editing!Set, Editing!Keep
  <2>5. x1' \in 0..MaxStock /\ x4' = x1'
    BY <1>1, <2>3, <2>4
  <2>6. PICK flag \in BOOLEAN : x2' = (IF flag # e.read.soldOut THEN flag ELSE x2)
    <3>1. (IF e.flag = "keep" THEN e.read.soldOut ELSE e.flag = "sold") \in BOOLEAN
      BY <2>3 DEF Editing!Rows
    <3> QED BY <1>11, <2>1, <3>1 DEF Editing!Set, Editing!WriteFlag
  <2>7. x2' \in BOOLEAN
    BY <1>1, <2>6
  <2>8. x5' = (IF x2' THEN "sold" ELSE "open") /\ x6' = (Editing!Row # e.read)
    BY <1>11, <2>1 DEF Editing!Set
  <2>9. x6' \in BOOLEAN
    BY <2>8
  <2>10. x3' \in [Request -> EditRow]
    BY <1>1, <1>5, <2>2
  <2> QED BY <1>2, <2>5, <2>7, <2>8, <2>9, <2>10
<1>12. ASSUME NEW n \in 1..MaxStock, Editing!Sell(n) PROVE EditingInv'
  <2>1. /\ x1 >= n /\ ~x2 /\ x1' = x1 - n /\ x4' = x4 - n /\ x2' = (x1 = n)
        /\ x3' = x3 /\ x5' = x5 /\ x6' = x6
    BY <1>12 DEF Editing!Sell
  <2>2. x1' \in 0..MaxStock /\ x4' = x1' /\ (x1' = 0 <=> x1 = n)
    BY <1>1, <1>3, <2>1
  <2>3. x2' \in BOOLEAN
    BY <2>1
  <2> QED BY <1>1, <1>2, <2>1, <2>2, <2>3
<1>13. ASSUME NEW n \in 1..MaxStock, Editing!SellUnchecked(n) PROVE EditingInv'
  <2>1. /\ x1' = (IF x1 - n < 0 THEN 0 ELSE x1 - n) /\ x4' = (IF x4 - n < 0 THEN 0 ELSE x4 - n)
        /\ x2' = (x2 \/ x1 <= n) /\ x3' = x3 /\ x5' = x5 /\ x6' = x6
    BY <1>13 DEF Editing!SellUnchecked, Editing!AtLeastZero
  <2>2. x1' \in 0..MaxStock /\ x4' = x1' /\ (x1' = 0 <=> x1 <= n) /\ (x1 = 0 => x1 <= n)
    BY <1>1, <1>3, <2>1
  <2>3. x2' \in BOOLEAN
    BY <2>1
  <2> QED BY <1>1, <1>2, <2>1, <2>2, <2>3
<1>14. ASSUME NEW n \in 1..MaxStock, Editing!PutBack(n) PROVE EditingInv'
  <2>1. /\ x1 + n <= MaxStock /\ x1' = x1 + n /\ x4' = x4 + n
        /\ x2' = (x2 /\ x1 > 0) /\ x3' = x3 /\ x5' = x5 /\ x6' = x6
    BY <1>14 DEF Editing!PutBack
  <2>2. x1' \in 0..MaxStock /\ x4' = x1' /\ x1' # 0 /\ (x1 > 0 => x1 # 0)
    BY <1>1, <1>3, <2>1
  <2>3. x2' \in BOOLEAN
    BY <2>1
  <2> QED BY <1>1, <1>2, <2>1, <2>2, <2>3
<1> QED BY <1>6, <1>7, <1>8, <1>9, <1>10, <1>11, <1>12, <1>13, <1>14 DEF Editing!Next

-----------------------------------------------------------------------------
\* The drawer's shifts (CashShift).

ShiftRow == [status : {"open", "closed"}, reported : SUBSET (1..MaxRecord)]
RecordRow == [kind : Drawer!Kind, at : 0..MaxShift]
TillRow == [doing : Drawer!Doing, seen : 0..MaxShift]

\* A shift that is being closed was opened.
DrawerInv ==
    /\ x1 \in Seq(ShiftRow) /\ Len(x1) <= MaxShift
    /\ x2 \in Seq(RecordRow) /\ Len(x2) <= MaxRecord
    /\ x3 \in [Till -> TillRow]
    /\ \A t \in Till : x3[t].doing = "closing" => x3[t].seen \in DOMAIN x1
    /\ Drawer!OneShiftOpen /\ Drawer!SalesReported

LEMMA DrawerNumbers == MaxShift \in Nat /\ MaxRecord \in Nat
  BY BooksAssumption

\* The current shift is the open one.
LEMMA CurrentIs ==
    ASSUME DrawerInv
    PROVE  /\ Drawer!CurrentShift \in 0..MaxShift
           /\ Drawer!CurrentShift = 0 => Drawer!OpenShifts = {}
           /\ Drawer!CurrentShift # 0 => Drawer!CurrentShift \in Drawer!OpenShifts
<1>1. Drawer!OpenShifts \subseteq DOMAIN x1 /\ DOMAIN x1 = 1..Len(x1) /\ Len(x1) \in Nat
      /\ Len(x1) <= MaxShift
  BY DEF DrawerInv, Drawer!OpenShifts
<1>2. \A i \in Drawer!OpenShifts : i \in 1..MaxShift
  BY <1>1, DrawerNumbers
<1>3. CASE Drawer!OpenShifts = {}
  BY <1>3, DrawerNumbers DEF Drawer!CurrentShift
<1>4. CASE Drawer!OpenShifts # {}
  <2>1. PICK i \in Drawer!OpenShifts : TRUE
    BY <1>4
  <2>2. \A j \in Drawer!OpenShifts : i >= j
    BY <1>2, <2>1 DEF DrawerInv, Drawer!OneShiftOpen
  <2>3. Drawer!CurrentShift \in Drawer!OpenShifts
    BY <1>4, <2>2 DEF Drawer!CurrentShift
  <2>4. Drawer!CurrentShift \in 1..MaxShift
    BY <1>2, <2>3
  <2> QED BY <2>3, <2>4, DrawerNumbers
<1> QED BY <1>3, <1>4

LEMMA DrawerInit == Drawer!Init => DrawerInv
<1> SUFFICES ASSUME Drawer!Init PROVE DrawerInv
  OBVIOUS
<1>1. x1 = <<>> /\ x2 = <<>> /\ x3 = [t \in Till |-> [doing |-> "idle", seen |-> 0]]
  BY DEF Drawer!Init
<1>2. [doing |-> "idle", seen |-> 0] \in TillRow
  BY DrawerNumbers DEF TillRow, Drawer!Doing
<1>3. x3 \in [Till -> TillRow] /\ \A t \in Till : x3[t].doing = "idle"
  BY <1>1, <1>2
<1>4. x1 \in Seq(ShiftRow) /\ Len(x1) = 0 /\ x2 \in Seq(RecordRow) /\ Len(x2) = 0 /\ DOMAIN x1 = {}
  BY <1>1
<1>5. Drawer!OneShiftOpen /\ Drawer!SalesReported
  BY <1>4 DEF Drawer!OneShiftOpen, Drawer!SalesReported, Drawer!ClosedWith, Drawer!OpenShifts
<1> QED BY <1>3, <1>4, <1>5, DrawerNumbers DEF DrawerInv

\* A till's step that opens, closes and records nothing.
LEMMA DrawerTurn ==
    ASSUME DrawerInv, NEW t \in Till, NEW task \in TillRow, x3' = [x3 EXCEPT ![t] = task],
           task.doing = "closing" => task.seen \in DOMAIN x1, x1' = x1, x2' = x2
    PROVE  DrawerInv'
<1>1. x3' \in [Till -> TillRow] /\ \A u \in Till : x3'[u] = IF u = t THEN task ELSE x3[u]
  BY DEF DrawerInv
<1>2. \A u \in Till : x3'[u].doing = "closing" => x3'[u].seen \in DOMAIN x1'
  BY <1>1 DEF DrawerInv
<1>3. Drawer!OneShiftOpen' /\ Drawer!SalesReported'
  BY DEF DrawerInv, Drawer!OneShiftOpen, Drawer!SalesReported, Drawer!ClosedWith, Drawer!OpenShifts,
         Drawer!RecordsOf
<1> QED BY <1>1, <1>2, <1>3 DEF DrawerInv

\* A till records something in a shift; a sale only in an open one or in none.
LEMMA DrawerRecords ==
    ASSUME DrawerInv, NEW t \in Till, NEW kind \in Drawer!Kind, NEW at \in 0..MaxShift,
           Drawer!AddRecord(kind, at), Drawer!Finish(t), x1' = x1,
           kind = "sale" => at \notin DOMAIN x1 \/ x1[at].status = "open"
    PROVE  DrawerInv'
<1>1. PICK new \in RecordRow : new = [kind |-> kind, at |-> at]
  BY DEF RecordRow
<1>2. x2 \in Seq(RecordRow) /\ Len(x2) < MaxRecord /\ x2' = Append(x2, new)
  BY <1>1 DEF DrawerInv, Drawer!AddRecord
<1>3. /\ x2' \in Seq(RecordRow) /\ Len(x2') = Len(x2) + 1
      /\ x2'[Len(x2) + 1] = new /\ \A k \in 1..Len(x2) : x2'[k] = x2[k]
  BY <1>2, Appended
<1>4. Len(x2') <= MaxRecord /\ DOMAIN x2 = 1..Len(x2) /\ DOMAIN x2' = 1..(Len(x2) + 1) /\ Len(x2) \in Nat
  BY <1>2, <1>3, DrawerNumbers
<1>5. \A k \in DOMAIN x2' : (k \in DOMAIN x2 /\ x2'[k] = x2[k]) \/ x2'[k] = new
  BY <1>3, <1>4
<1>6. ASSUME NEW i \in DOMAIN x1, x1[i].status = "closed", NEW k \in DOMAIN x2', x2'[k].at = i,
             x2'[k].kind = "sale"
      PROVE  k \in x1[i].reported
  <2>1. x2'[k] # new
    BY <1>1, <1>6
  <2>2. k \in DOMAIN x2 /\ x2[k].at = i /\ x2[k].kind = "sale"
    BY <1>5, <1>6, <2>1
  <2> QED BY <1>6, <2>2 DEF DrawerInv, Drawer!SalesReported, Drawer!ClosedWith, Drawer!RecordsOf
<1>7. Drawer!SalesReported'
  BY <1>6 DEF Drawer!SalesReported, Drawer!ClosedWith, Drawer!RecordsOf
<1>8. Drawer!OneShiftOpen'
  BY DEF DrawerInv, Drawer!OneShiftOpen, Drawer!OpenShifts
<1>9. x3' = [x3 EXCEPT ![t] = [doing |-> "idle", seen |-> 0]]
  BY DEF Drawer!Finish
<1>10. [doing |-> "idle", seen |-> 0] \in TillRow
  BY DrawerNumbers DEF TillRow, Drawer!Doing
<1>11. x3' \in [Till -> TillRow] /\ \A u \in Till : x3'[u].doing = "closing" => x3'[u].seen \in DOMAIN x1'
  BY <1>9, <1>10 DEF DrawerInv
<1> QED BY <1>3, <1>4, <1>7, <1>8, <1>11 DEF DrawerInv

LEMMA DrawerNext == DrawerInv /\ Drawer!Next => DrawerInv'
<1> SUFFICES ASSUME DrawerInv, NEW t \in Till,
        \/ Drawer!OpenShift(t) \/ Drawer!InsertShift(t)
        \/ Drawer!CloseShift(t) \/ Drawer!ClaimClose(t)
        \/ Drawer!StartSale(t) \/ Drawer!CommitSale(t)
        \/ Drawer!StartMovement(t) \/ Drawer!ReadShiftOfMovement(t) \/ Drawer!InsertMovement(t)
             PROVE DrawerInv'
  BY DEF Drawer!Next
<1>1. x1 \in Seq(ShiftRow) /\ x2 \in Seq(RecordRow) /\ x3 \in [Till -> TillRow]
      /\ Len(x1) <= MaxShift /\ Len(x2) <= MaxRecord
      /\ Drawer!OneShiftOpen /\ Drawer!SalesReported
  BY DEF DrawerInv
<1>2. ASSUME NEW what \in Drawer!Doing, Drawer!Begin(t, what), what = "closing" => Drawer!CurrentShift # 0,
             x1' = x1, x2' = x2
      PROVE  DrawerInv'
  <2>1. PICK now : now = Drawer!CurrentShift
    OBVIOUS
  <2>2. now \in 0..MaxShift /\ (what = "closing" => now \in DOMAIN x1)
    BY <1>2, <2>1, CurrentIs DEF Drawer!OpenShifts
  <2>3. [doing |-> what, seen |-> now] \in TillRow
    BY <2>2 DEF TillRow
  <2>4. x3' = [x3 EXCEPT ![t] = [doing |-> what, seen |-> now]]
    BY <1>2, <2>1 DEF Drawer!Begin
  <2> QED BY <1>2, <2>2, <2>3, <2>4, DrawerTurn
<1>3. ASSUME Drawer!Finish(t), x1' = x1, x2' = x2 PROVE DrawerInv'
  <2>1. [doing |-> "idle", seen |-> 0] \in TillRow
    BY DrawerNumbers DEF TillRow, Drawer!Doing
  <2> QED BY <1>3, <2>1, DrawerTurn DEF Drawer!Finish
<1>4. CASE Drawer!OpenShift(t)
  BY <1>2, <1>4 DEF Drawer!OpenShift, Drawer!Doing
<1>5. CASE Drawer!CloseShift(t)
  BY <1>2, <1>5 DEF Drawer!CloseShift, Drawer!Doing
<1>6. CASE Drawer!StartSale(t)
  BY <1>2, <1>6 DEF Drawer!StartSale, Drawer!Doing
<1>7. CASE Drawer!StartMovement(t)
  BY <1>2, <1>7 DEF Drawer!StartMovement, Drawer!Doing
<1>8. CASE Drawer!InsertShift(t)
  <2>1. CASE x1' = x1
    BY <1>3, <1>8, <2>1 DEF Drawer!InsertShift
  <2>2. CASE Drawer!OnlyOpen /\ Len(x1) < MaxShift /\ x1' = Append(x1, [status |-> "open", reported |-> {}])
    <3>1. PICK new \in ShiftRow : new = [status |-> "open", reported |-> {}]
      BY DEF ShiftRow
    <3>2. /\ x1' \in Seq(ShiftRow) /\ Len(x1') = Len(x1) + 1
          /\ x1'[Len(x1) + 1] = new /\ \A k \in 1..Len(x1) : x1'[k] = x1[k]
      BY <1>1, <2>2, <3>1, Appended
    <3>3. /\ DOMAIN x1 = 1..Len(x1) /\ DOMAIN x1' = 1..(Len(x1) + 1) /\ Len(x1) \in Nat
          /\ Len(x1') <= MaxShift
      BY <1>1, <2>2, <3>2, DrawerNumbers
    <3>4. \A i \in DOMAIN x1 : x1[i].status # "open"
      BY <2>2 DEF Drawer!OnlyOpen, Drawer!OpenShifts
    <3>5. \A i \in DOMAIN x1' :
              (i \in DOMAIN x1 /\ x1'[i] = x1[i]) \/ (i = Len(x1) + 1 /\ x1'[i] = new)
      BY <3>2, <3>3
    <3>6. Drawer!OneShiftOpen'
      BY <3>4, <3>5 DEF Drawer!OneShiftOpen, Drawer!OpenShifts
    <3>7. x2' = x2 /\ x3' = [x3 EXCEPT ![t] = [doing |-> "idle", seen |-> 0]]
      BY <1>8 DEF Drawer!InsertShift, Drawer!Finish
    <3>8. Drawer!SalesReported'
      BY <1>1, <3>1, <3>5, <3>7 DEF Drawer!SalesReported, Drawer!ClosedWith, Drawer!RecordsOf
    <3>9. [doing |-> "idle", seen |-> 0] \in TillRow
      BY DrawerNumbers DEF TillRow, Drawer!Doing
    <3>10. /\ x3' \in [Till -> TillRow]
           /\ \A u \in Till : x3'[u].doing = "closing" => x3'[u].seen \in DOMAIN x1'
      BY <1>1, <3>3, <3>7, <3>9 DEF DrawerInv
    <3> QED BY <1>1, <3>2, <3>3, <3>6, <3>7, <3>8, <3>10 DEF DrawerInv
  <2> QED BY <1>8, <2>1, <2>2 DEF Drawer!InsertShift
<1>9. CASE Drawer!ClaimClose(t)
  <2>1. PICK i \in DOMAIN x1 : i = x3[t].seen
    BY <1>9 DEF DrawerInv, Drawer!ClaimClose
  <2>2. CASE x1[i].status # "open"
    <3>1. x1' = [x1 EXCEPT ![i] = x1[i]]
      BY <1>9, <2>1, <2>2 DEF Drawer!ClaimClose
    <3>2. x1' = x1
      BY <1>1, <3>1
    <3> QED BY <1>3, <1>9, <3>2 DEF Drawer!ClaimClose
  <2>3. CASE x1[i].status = "open"
    <3>1. PICK new : new = [status |-> "closed", reported |-> Drawer!RecordsOf(i)]
      OBVIOUS
    <3>2. Drawer!RecordsOf(i) \subseteq 1..MaxRecord
      BY <1>1, DrawerNumbers DEF Drawer!RecordsOf
    <3>3. new \in ShiftRow
      BY <3>1, <3>2 DEF ShiftRow
    <3>4. x1' = [x1 EXCEPT ![i] = new] /\ x2' = x2
      BY <1>9, <2>1, <2>3, <3>1 DEF Drawer!ClaimClose
    <3>5. x1' \in Seq(ShiftRow) /\ Len(x1') = Len(x1) /\ DOMAIN x1' = DOMAIN x1
      BY <1>1, <3>3, <3>4
    <3>6. \A j \in DOMAIN x1 : x1'[j] = IF j = i THEN new ELSE x1[j]
      BY <1>1, <3>4
    <3>7. Drawer!OneShiftOpen'
      <4>1. \A j \in DOMAIN x1' : x1'[j].status = "open" => j \in DOMAIN x1 /\ x1[j].status = "open"
        BY <2>3, <3>5, <3>6
      <4> QED BY <1>1, <4>1 DEF Drawer!OneShiftOpen, Drawer!OpenShifts
    <3>8. Drawer!SalesReported'
      BY <1>1, <3>1, <3>4, <3>5, <3>6 DEF Drawer!SalesReported, Drawer!ClosedWith, Drawer!RecordsOf
    <3>9. [doing |-> "idle", seen |-> 0] \in TillRow
      BY DrawerNumbers DEF TillRow, Drawer!Doing
    <3>10. x3' = [x3 EXCEPT ![t] = [doing |-> "idle", seen |-> 0]]
      BY <1>9 DEF Drawer!ClaimClose, Drawer!Finish
    <3>11. /\ x3' \in [Till -> TillRow]
           /\ \A u \in Till : x3'[u].doing = "closing" => x3'[u].seen \in DOMAIN x1'
      BY <1>1, <3>5, <3>9, <3>10 DEF DrawerInv
    <3> QED BY <1>1, <3>4, <3>5, <3>7, <3>8, <3>11 DEF DrawerInv
  <2> QED BY <2>2, <2>3
<1>10. Drawer!CurrentShift \in 0..MaxShift
       /\ (Drawer!CurrentShift \in DOMAIN x1 => x1[Drawer!CurrentShift].status = "open")
  <2>1. Drawer!CurrentShift \in DOMAIN x1 => Drawer!CurrentShift # 0
    BY <1>1
  <2> QED BY <2>1, CurrentIs DEF Drawer!OpenShifts
<1>11. CASE Drawer!CommitSale(t)
  <2>1. CASE x2' = x2
    BY <1>3, <1>11, <2>1 DEF Drawer!CommitSale
  <2>2. CASE Drawer!AddRecord("sale", Drawer!CurrentShift)
    BY <1>10, <1>11, <2>2, DrawerRecords DEF Drawer!CommitSale, Drawer!Kind
  <2> QED BY <1>11, <2>1, <2>2 DEF Drawer!CommitSale, Drawer!ShiftOfSale
<1>12. CASE Drawer!ReadShiftOfMovement(t)
  <2>1. CASE Drawer!AddRecord("movement", Drawer!CurrentShift) /\ Drawer!Finish(t)
    BY <1>10, <1>12, <2>1, DrawerRecords DEF Drawer!ReadShiftOfMovement, Drawer!Kind
  <2>2. CASE Drawer!Begin(t, "recording") /\ x2' = x2
    BY <1>2, <1>12, <2>2 DEF Drawer!ReadShiftOfMovement, Drawer!Doing
  <2> QED BY <1>12, <2>1, <2>2 DEF Drawer!ReadShiftOfMovement
<1>13. CASE Drawer!InsertMovement(t)
  <2>1. x3[t].seen \in 0..MaxShift
    BY <1>1 DEF TillRow
  <2> QED BY <1>13, <2>1, DrawerRecords DEF Drawer!InsertMovement, Drawer!Kind
<1> QED BY <1>4, <1>5, <1>6, <1>7, <1>8, <1>9, <1>11, <1>12, <1>13

LEMMA DrawerHolds == DrawerInv => Drawer!TypeOK /\ Drawer!OneShiftOpen /\ Drawer!SalesReported
  BY DEF DrawerInv, Drawer!TypeOK, ShiftRow, RecordRow, TillRow

-----------------------------------------------------------------------------
\* Archived orders (Archive).

\* Sets that have nothing in common add up to their sum.
LEMMA SumUnion ==
    ASSUME NEW S, NEW T, IsFiniteSet(S), IsFiniteSet(T), S \cap T = {},
           NEW f, \A x \in S \cup T : f[x] \in Int
    PROVE  Sum(f, S \cup T) = Sum(f, S) + Sum(f, T)
<1> DEFINE Good(s) == Sum(f, S \cup s) = Sum(f, S) + Sum(f, s)
<1> SUFFICES ASSUME ~Good(T) PROVE FALSE
  OBVIOUS
<1>0. PICK bad : bad = {s \in SUBSET T : ~Good(s)}
  OBVIOUS
<1>1. bad \in SUBSET (SUBSET T) /\ bad # {}
  <2>1. T \in bad
    BY <1>0
  <2> QED BY <1>0, <2>1
<1>2. PICK u \in bad : \A v \in bad : v \subseteq u => v = u
  BY <1>1, FiniteLeast
<1>3. u \in SUBSET T /\ IsFiniteSet(u) /\ ~Good(u)
  BY <1>0, FS_Subset
<1>4. Sum(f, S) \in Int
  BY SumInt
<1>5. u # {}
  <2>1. Sum(f, {}) = 0
    BY SumEmpty
  <2>2. S \cup {} = S
    OBVIOUS
  <2>3. Good({})
    BY <1>4, <2>1, <2>2
  <2> HIDE DEF Good
  <2> QED BY <1>3, <2>3
<1>6. PICK y \in u : TRUE
  BY <1>5
<1>7. PICK w : w = u \ {y}
  OBVIOUS
<1>8. w \in SUBSET T /\ w # u /\ w \subseteq u /\ IsFiniteSet(w)
  BY <1>3, <1>6, <1>7, FS_Subset
<1>9. Good(w)
  BY <1>0, <1>2, <1>8
<1>10. IsFiniteSet(S \cup u) /\ (S \cup u) \ {y} = S \cup w
  BY <1>3, <1>6, <1>7, FS_Union
<1>11. Sum(f, S \cup u) = f[y] + Sum(f, S \cup w)
  BY <1>3, <1>6, <1>10, SumTake
<1>12. Sum(f, u) = f[y] + Sum(f, w)
  BY <1>3, <1>6, <1>7, SumTake
<1>13. f[y] \in Int /\ Sum(f, w) \in Int
  BY <1>3, <1>6, <1>8, SumInt
<1> QED BY <1>3, <1>4, <1>9, <1>11, <1>12, <1>13

FilesTask == [at : {"idle", "read", "copied"}, batch : SUBSET Three, worth : Nat]
InFile(file, o, worth) == o \in DOMAIN file /\ file[o] = [order |-> o, value |-> worth]

\* One process archives; its batch is in the database, and in the file once it is copied.
FilesInv ==
    /\ x1 \in [Three -> Id \cup {0}] /\ x2 \subseteq Three /\ x4 \subseteq Three
    /\ x3 \in [Three -> 0..Value]
    /\ DOMAIN x5 \subseteq Three \cup Id /\ \A k \in DOMAIN x5 : x5[k] \in [order : Three, value : 0..Value]
    /\ x6 \in Nat /\ x8 \in 0..MaxDeath
    /\ x7 \in [Request -> FilesTask]
    /\ \A o \in Three : x1[o] # 0 => o \in x4
    /\ \A o \in x4 : x1[o] = 0 => InFile(x5, o, x3[o])
    /\ x6 = Sum(x3, {o \in x4 : x1[o] = 0})
    /\ \A p, q \in Request : x7[p] # Files!Idle /\ x7[q] # Files!Idle => p = q
    /\ \A p \in Request :
           /\ \A o \in x7[p].batch : x1[o] # 0
           /\ x7[p].worth = Sum(x3, x7[p].batch)
           /\ x7[p].at = "copied" => \A o \in x7[p].batch : InFile(x5, o, x3[o])

LEMMA FilesNumbers ==
    /\ Value \in Nat /\ MaxDeath \in Nat /\ 0 \notin Id /\ Id \subseteq Nat /\ IsFiniteSet(Three)
    /\ [at |-> "idle", batch |-> {}, worth |-> 0] \in FilesTask
  BY BooksAssumption, BoundAssumption, FiniteAssumption DEF FilesTask

LEMMA FilesInit == Files!Init => FilesInv
<1> SUFFICES ASSUME Files!Init PROVE FilesInv
  OBVIOUS
<1>1. /\ x1 = [o \in Three |-> 0] /\ x2 = {} /\ x4 = {} /\ x3 = [o \in Three |-> 0]
      /\ x5 = [k \in {} |-> 0] /\ x6 = 0 /\ x8 = 0
      /\ x7 = [p \in Request |-> Files!Idle]
  BY DEF Files!Init, Files!None
<1>2. 0 \in 0..Value /\ 0 \in 0..MaxDeath
  BY FilesNumbers
<1>3. x7 \in [Request -> FilesTask] /\ \A p \in Request : x7[p] = Files!Idle
  BY <1>1, FilesNumbers DEF Files!Idle
<1>4. Sum(x3, {}) = 0 /\ {o \in x4 : x1[o] = 0} = {}
  BY <1>1, SumEmpty
<1>5. Files!Idle.batch = {} /\ Files!Idle.worth = 0 /\ Files!Idle.at = "idle"
  BY DEF Files!Idle
<1>6. DOMAIN x5 = {}
  BY <1>1
<1> QED BY <1>1, <1>2, <1>3, <1>4, <1>5, <1>6 DEF FilesInv

\* A process begins or gives up.
LEMMA FilesTurn ==
    ASSUME FilesInv, NEW p \in Request, NEW task \in FilesTask, x7' = [x7 EXCEPT ![p] = task],
           x1' = x1, x2' = x2, x3' = x3, x4' = x4, x5' = x5, x6' = x6, x8' \in 0..MaxDeath,
           task = Files!Idle \/ \A q \in Request : q # p => x7[q] = Files!Idle,
           \A o \in task.batch : x1[o] # 0, task.worth = Sum(x3, task.batch),
           task.at = "copied" => \A o \in task.batch : InFile(x5, o, x3[o])
    PROVE  FilesInv'
<1>1. x7' \in [Request -> FilesTask] /\ \A q \in Request : x7'[q] = IF q = p THEN task ELSE x7[q]
  BY DEF FilesInv
<1>2. \A q, r \in Request : x7'[q] # Files!Idle /\ x7'[r] # Files!Idle => q = r
  BY <1>1 DEF FilesInv
<1>3. \A q \in Request :
           /\ \A o \in x7'[q].batch : x1'[o] # 0
           /\ x7'[q].worth = Sum(x3', x7'[q].batch)
           /\ x7'[q].at = "copied" => \A o \in x7'[q].batch : InFile(x5', o, x3'[o])
  BY <1>1 DEF FilesInv
<1> QED BY <1>1, <1>2, <1>3 DEF FilesInv, Files!Idle

LEMMA FilesIdle == FilesInv => \A o \in Files!Idle.batch : x1[o] # 0
  BY DEF Files!Idle

\* Of an order that is not archived and in no batch the value changes.
LEMMA FilesValue ==
    ASSUME FilesInv, NEW o \in Three, NEW worth \in 0..Value, NEW number \in Id,
           x3' = [x3 EXCEPT ![o] = worth], x1' = [x1 EXCEPT ![o] = number],
           x4' = x4 \cup {o}, x1[o] # 0 \/ o \notin x4,
           \A p \in Request : o \notin x7[p].batch,
           x2' = x2, x5' = x5, x6' = x6, x7' = x7, x8' = x8
    PROVE  FilesInv'
<1>1. /\ x1 \in [Three -> Id \cup {0}] /\ x3 \in [Three -> 0..Value] /\ x4 \subseteq Three
      /\ x7 \in [Request -> FilesTask]
      /\ \A q \in Three : x1[q] # 0 => q \in x4
  BY DEF FilesInv
<1>2. x1' \in [Three -> Id \cup {0}] /\ \A q \in Three : x1'[q] = IF q = o THEN number ELSE x1[q]
  BY <1>1
<1>3. x3' \in [Three -> 0..Value] /\ \A q \in Three : q # o => x3'[q] = x3[q]
  BY <1>1
<1>4. number # 0
  BY FilesNumbers
<1>5. {q \in x4' : x1'[q] = 0} = {q \in x4 : x1[q] = 0} /\ o \notin {q \in x4 : x1[q] = 0}
  BY <1>1, <1>2, <1>4
<1>6. ASSUME NEW S \in SUBSET Three, o \notin S PROVE Sum(x3', S) = Sum(x3, S)
  <2>1. IsFiniteSet(S) /\ \A q \in S : x3'[q] = x3[q]
    BY <1>3, <1>6, FilesNumbers, FS_Subset
  <2> QED BY <2>1, SumSame
<1>7. x6' = Sum(x3', {q \in x4' : x1'[q] = 0})
  <2>1. {q \in x4 : x1[q] = 0} \in SUBSET Three
    BY <1>1
  <2> QED BY <1>5, <1>6, <2>1 DEF FilesInv
<1>8. \A p \in Request : x7[p].batch \in SUBSET Three /\ Sum(x3', x7[p].batch) = Sum(x3, x7[p].batch)
  BY <1>1, <1>6 DEF FilesTask
<1>9. \A q \in Three : x1'[q] # 0 => q \in x4'
  BY <1>1, <1>2
<1>10. \A q \in x4' : x1'[q] = 0 => InFile(x5', q, x3'[q])
  BY <1>1, <1>2, <1>3, <1>4 DEF FilesInv
<1>11. \A p \in Request :
           /\ \A q \in x7'[p].batch : x1'[q] # 0
           /\ x7'[p].worth = Sum(x3', x7'[p].batch)
           /\ x7'[p].at = "copied" => \A q \in x7'[p].batch : InFile(x5', q, x3'[q])
  <2>1. \A p \in Request : \A q \in x7[p].batch : q \in Three /\ q # o
    BY <1>8
  <2> QED BY <1>2, <1>3, <1>8, <2>1 DEF FilesInv
<1>12. x4' \subseteq Three
  BY <1>1
<1> QED BY <1>2, <1>3, <1>7, <1>9, <1>10, <1>11, <1>12 DEF FilesInv, Files!Idle

LEMMA FilesNext == FilesInv /\ Files!Next => FilesInv'
<1> SUFFICES ASSUME FilesInv, Files!Next PROVE FilesInv'
  OBVIOUS
<1>1. /\ x1 \in [Three -> Id \cup {0}] /\ x2 \subseteq Three /\ x4 \subseteq Three
      /\ x3 \in [Three -> 0..Value] /\ x6 \in Nat /\ x8 \in 0..MaxDeath
      /\ x7 \in [Request -> FilesTask]
      /\ \A o \in Three : x1[o] # 0 => o \in x4
      /\ DOMAIN x5 \subseteq Three \cup Id /\ \A k \in DOMAIN x5 : x5[k] \in [order : Three, value : 0..Value]
  BY DEF FilesInv
<1>2. /\ Files!Idle.batch = {} /\ Files!Idle.worth = 0 /\ Files!Idle.at = "idle"
      /\ Files!Idle \in FilesTask /\ Sum(x3, Files!Idle.batch) = 0
  BY FilesNumbers, SumEmpty DEF Files!Idle
<1>3. \A p \in Request : x7[p].batch \in SUBSET Three /\ IsFiniteSet(x7[p].batch)
  BY <1>1, FilesNumbers, FS_Subset DEF FilesTask
<1>4. ASSUME NEW o \in Three, NEW n \in Id, Files!MakeOrder(o, n) PROVE FilesInv'
  <2>1. o \notin x4 /\ Value \in 0..Value /\ \A p \in Request : o \notin x7[p].batch
    BY <1>1, <1>4, FilesNumbers DEF Files!MakeOrder, FilesInv
  <2> QED BY <1>4, <2>1, FilesValue DEF Files!MakeOrder
<1>5. ASSUME NEW o \in Three, Files!Finish(o) PROVE FilesInv'
  <2>1. /\ x2' \subseteq Three /\ x1' = x1 /\ x3' = x3 /\ x4' = x4 /\ x5' = x5 /\ x6' = x6
        /\ x7' = x7 /\ x8' = x8
    BY <1>1, <1>5 DEF Files!Finish
  <2> QED BY <2>1 DEF FilesInv, Files!Idle
<1>6. ASSUME NEW o \in Three, NEW left \in 0..Value, Files!Refund(o, left) PROVE FilesInv'
  <2>1. x1[o] # 0 /\ x1[o] \in Id /\ o \in x4
    BY <1>1, <1>6 DEF Files!Refund, Files!InDatabase, Files!None
  <2>2. x1' = [x1 EXCEPT ![o] = x1[o]] /\ x4' = x4 \cup {o}
    BY <1>1, <1>6, <2>1 DEF Files!Refund
  <2>3. \A p \in Request : o \notin x7[p].batch
    BY <1>6 DEF Files!Refund, Files!InBatch
  <2> QED BY <1>6, <2>1, <2>2, <2>3, FilesValue DEF Files!Refund
<1>7. ASSUME NEW p \in Request, Files!ReadBatch(p) PROVE FilesInv'
  <2>1. PICK batch \in SUBSET (x2 \cap Files!InDatabase) :
            x7' = [x7 EXCEPT ![p] = [at |-> "read", batch |-> batch, worth |-> Files!Worth(batch)]]
    BY <1>7 DEF Files!ReadBatch
  <2>2. Files!Worth(batch) = (CHOOSE g : Adds(x3, g, batch))[batch]
    BY DEF Files!Worth, Files!MapThenSumSet, Files!MapThenFoldSet, Adds, Pick
  <2>3. Files!Worth(batch) = Sum(x3, batch)
    BY <2>2, SumAdds
  <2>4. batch \in SUBSET Three /\ \A o \in batch : x1[o] # 0
    BY <2>1 DEF Files!InDatabase, Files!None
  <2>5. Sum(x3, batch) \in Nat
    <3>1. IsFiniteSet(batch)
      BY <2>4, FilesNumbers, FS_Subset
    <3>2. \A o \in batch : x3[o] \in Nat
      BY <1>1, <2>4, FilesNumbers
    <3> QED BY <3>1, <3>2, SumNat
  <2>6. PICK task \in FilesTask : task = [at |-> "read", batch |-> batch, worth |-> Sum(x3, batch)]
    BY <2>4, <2>5 DEF FilesTask
  <2>7. /\ x7' = [x7 EXCEPT ![p] = task] /\ \A q \in Request : x7[q] = Files!Idle
        /\ x1' = x1 /\ x2' = x2 /\ x3' = x3 /\ x4' = x4 /\ x5' = x5 /\ x6' = x6 /\ x8' = x8
    BY <1>7, <2>1, <2>3, <2>6 DEF Files!ReadBatch
  <2>8. (\A o \in task.batch : x1[o] # 0) /\ task.worth = Sum(x3, task.batch) /\ task.at = "read"
    BY <2>4, <2>6
  <2> QED BY <1>1, <2>7, <2>8, FilesTurn
<1>8. ASSUME NEW p \in Request, Files!CopyBatch(p) PROVE FilesInv'
  <2>1. PICK task \in FilesTask : task = x7[p]
    BY <1>1
  <2>2. PICK rows \in SUBSET Three : rows = task.batch
    BY <2>1 DEF FilesTask
  <2>3. {Files!Key(o) : o \in rows} = rows /\ \A k \in rows : (CHOOSE o \in rows : Files!Key(o) = k) = k
    BY DEF Files!Key
  <2>4. /\ x7[p].at = "read"
        /\ x5' = [k \in DOMAIN x5 \cup rows |->
               IF k \in rows THEN [order |-> k, value |-> x3[k]] ELSE x5[k]]
        /\ x7' = [x7 EXCEPT ![p] = [task EXCEPT !.at = "copied"]]
        /\ x1' = x1 /\ x2' = x2 /\ x3' = x3 /\ x4' = x4 /\ x6' = x6 /\ x8' = x8
    <3>1. x5' = [k \in DOMAIN x5 \cup {Files!Key(o) : o \in rows} |->
               IF k \in {Files!Key(o) : o \in rows}
               THEN Files!Filed(k, CHOOSE o \in rows : Files!Key(o) = k) ELSE x5[k]]
      BY <1>8, <2>1, <2>2 DEF Files!CopyBatch
    <3>2. x5' = [k \in DOMAIN x5 \cup rows |->
               IF k \in rows THEN Files!Filed(k, CHOOSE o \in rows : Files!Key(o) = k) ELSE x5[k]]
      BY <2>3, <3>1
    <3>3. \A k \in rows : Files!Filed(k, CHOOSE o \in rows : Files!Key(o) = k)
                              = [order |-> k, value |-> x3[k]]
      BY <2>3 DEF Files!Filed
    <3>4. x5' = [k \in DOMAIN x5 \cup rows |->
               IF k \in rows THEN [order |-> k, value |-> x3[k]] ELSE x5[k]]
      BY <3>2, <3>3
    <3>5. /\ x7[p].at = "read" /\ x7' = [x7 EXCEPT ![p] = [task EXCEPT !.at = "copied"]]
          /\ x1' = x1 /\ x2' = x2 /\ x3' = x3 /\ x4' = x4 /\ x6' = x6 /\ x8' = x8
      BY <1>1, <1>8, <2>1 DEF Files!CopyBatch
    <3> QED BY <3>4, <3>5
  <2>5. PICK new \in FilesTask : new = [task EXCEPT !.at = "copied"]
    BY DEF FilesTask
  <2>6. new.at = "copied" /\ new.batch = rows /\ new.worth = task.worth
    BY <2>2, <2>5 DEF FilesTask
  <2>7. x7' \in [Request -> FilesTask] /\ \A q \in Request : x7'[q] = IF q = p THEN new ELSE x7[q]
    BY <1>1, <2>4, <2>5
  <2>8. DOMAIN x5' = DOMAIN x5 \cup rows
        /\ \A k \in DOMAIN x5' : x5'[k] = IF k \in rows THEN [order |-> k, value |-> x3[k]] ELSE x5[k]
    BY <2>4
  <2>9. \A k \in DOMAIN x5' : x5'[k] \in [order : Three, value : 0..Value]
    <3> TAKE k \in DOMAIN x5'
    <3>1. CASE k \in rows
      <4>1. PICK worth \in 0..Value : worth = x3[k]
        BY <1>1, <3>1
      <4>2. x5'[k] = [order |-> k, value |-> worth] /\ k \in Three
        BY <2>8, <3>1, <4>1
      <4> QED BY <4>2
    <3>2. CASE k \notin rows
      BY <1>1, <2>8, <3>2
    <3> QED BY <3>1, <3>2
  <2>10. \A o \in Three : InFile(x5, o, x3[o]) => InFile(x5', o, x3'[o])
    BY <2>4, <2>8 DEF InFile
  <2>11. \A o \in rows : InFile(x5', o, x3'[o])
    BY <2>4, <2>8 DEF InFile
  <2>12. \A q, r \in Request : x7'[q] # Files!Idle /\ x7'[r] # Files!Idle => q = r
    <3>1. x7[p] # Files!Idle
      BY <1>2, <2>4
    <3> QED BY <2>7, <3>1 DEF FilesInv
  <2>13. \A q \in Request :
           /\ \A o \in x7'[q].batch : x1'[o] # 0
           /\ x7'[q].worth = Sum(x3', x7'[q].batch)
           /\ x7'[q].at = "copied" => \A o \in x7'[q].batch : InFile(x5', o, x3'[o])
    <3> TAKE q \in Request
    <3>1. CASE q = p
      BY <2>1, <2>2, <2>4, <2>6, <2>7, <2>11, <3>1 DEF FilesInv
    <3>2. CASE q # p
      <4>1. x7'[q] = x7[q] /\ \A o \in x7[q].batch : o \in Three
        BY <1>3, <2>7, <3>2
      <4> QED BY <2>4, <2>10, <4>1 DEF FilesInv
    <3> QED BY <3>1, <3>2
  <2>14. \A o \in x4' : x1'[o] = 0 => InFile(x5', o, x3'[o])
    BY <1>1, <2>4, <2>10 DEF FilesInv
  <2>15. DOMAIN x5' \subseteq Three \cup Id
    BY <1>1, <2>8
  <2> QED BY <1>1, <2>4, <2>7, <2>9, <2>12, <2>13, <2>14, <2>15 DEF FilesInv, Files!Idle
<1>9. ASSUME NEW p \in Request, Files!DeleteBatch(p) PROVE FilesInv'
  <2>1. PICK gone \in SUBSET Three : gone = x7[p].batch
    BY <1>3
  <2>2. /\ x7[p].at = "copied" /\ x1' = [o \in Three |-> IF o \in gone THEN 0 ELSE x1[o]]
        /\ x6' = x6 + x7[p].worth /\ x7' = [x7 EXCEPT ![p] = Files!Idle]
        /\ x2' = x2 /\ x3' = x3 /\ x4' = x4 /\ x5' = x5 /\ x8' = x8
    BY <1>9, <2>1 DEF Files!DeleteBatch, Files!None
  <2>3. x7' \in [Request -> FilesTask] /\ \A q \in Request : x7'[q] = IF q = p THEN Files!Idle ELSE x7[q]
    BY <1>1, <1>2, <2>2
  <2>4. \A o \in gone : x1[o] # 0 /\ o \in x4 /\ InFile(x5, o, x3[o])
    BY <1>1, <2>1, <2>2 DEF FilesInv
  <2>5. x1' \in [Three -> Id \cup {0}] /\ \A o \in Three : x1'[o] = IF o \in gone THEN 0 ELSE x1[o]
    BY <1>1, <2>2
  <2>6. PICK before \in SUBSET Three : before = {o \in x4 : x1[o] = 0}
    BY <1>1
  <2>7. {o \in x4' : x1'[o] = 0} = before \cup gone /\ before \cap gone = {}
    BY <1>1, <2>2, <2>4, <2>5, <2>6
  <2>8. Sum(x3, before \cup gone) = Sum(x3, before) + Sum(x3, gone)
    <3>1. IsFiniteSet(before) /\ IsFiniteSet(gone)
      BY FilesNumbers, FS_Subset
    <3>2. \A o \in before \cup gone : x3[o] \in Int
      BY <1>1, FilesNumbers
    <3> QED BY <2>7, <3>1, <3>2, SumUnion
  <2>9. x6' = Sum(x3', {o \in x4' : x1'[o] = 0})
    BY <2>1, <2>2, <2>6, <2>7, <2>8 DEF FilesInv
  <2>10. x6' \in Nat
    <3>1. x7[p].worth \in Nat
      BY <1>1 DEF FilesTask
    <3> QED BY <1>1, <2>2, <3>1
  <2>11. \A q, r \in Request : x7'[q] # Files!Idle /\ x7'[r] # Files!Idle => q = r
    BY <2>3 DEF FilesInv
  <2>12. \A q \in Request : q # p => x7[q] = Files!Idle
    <3>1. x7[p] # Files!Idle
      BY <1>2, <2>2
    <3> QED BY <3>1 DEF FilesInv
  <2>13. \A q \in Request : x7'[q] = Files!Idle
    BY <2>3, <2>12
  <2>14. \A q \in Request :
           /\ \A o \in x7'[q].batch : x1'[o] # 0
           /\ x7'[q].worth = Sum(x3', x7'[q].batch)
           /\ x7'[q].at = "copied" => \A o \in x7'[q].batch : InFile(x5', o, x3'[o])
    BY <1>2, <2>2, <2>13
  <2>15. \A o \in Three : x1'[o] # 0 => o \in x4'
    BY <1>1, <2>2, <2>5
  <2>16. \A o \in x4' : x1'[o] = 0 => InFile(x5', o, x3'[o])
    BY <1>1, <2>2, <2>4, <2>5 DEF FilesInv
  <2> QED BY <1>1, <2>2, <2>3, <2>5, <2>9, <2>10, <2>11, <2>14, <2>15, <2>16 DEF FilesInv, Files!Idle
<1>10. ASSUME NEW p \in Request, Files!Die(p) PROVE FilesInv'
  <2>1. x8 \in Nat /\ x8 < MaxDeath /\ x8' = x8 + 1
    BY <1>1, <1>10, FilesNumbers DEF Files!Die
  <2>2. x8' \in 0..MaxDeath
    BY <2>1, FilesNumbers
  <2> QED BY <1>2, <1>10, <2>2, FilesTurn DEF Files!Die
<1> QED BY <1>4, <1>5, <1>6, <1>7, <1>8, <1>9, <1>10 DEF Files!Next

LEMMA FilesHolds == FilesInv => Files!TypeOK /\ Files!NothingLost /\ Files!SpentKept
<1> SUFFICES ASSUME FilesInv PROVE Files!TypeOK /\ Files!NothingLost /\ Files!SpentKept
  OBVIOUS
<1>1. Files!Archived = {o \in x4 : x1[o] = 0}
  BY DEF FilesInv, Files!Archived, Files!InDatabase, Files!None
<1>2. Files!Worth(Files!Archived) = Sum(x3, Files!Archived)
  <2>1. PICK S : S = Files!Archived
    OBVIOUS
  <2>2. Files!Worth(S) = (CHOOSE g : Adds(x3, g, S))[S]
    BY DEF Files!Worth, Files!MapThenSumSet, Files!MapThenFoldSet, Adds, Pick
  <2> QED BY <2>1, <2>2, SumAdds
<1>3. Files!SpentKept
  BY <1>1, <1>2 DEF FilesInv, Files!SpentKept
<1>4. Files!NothingLost
  BY <1>1 DEF FilesInv, Files!NothingLost, InFile
<1>5. Files!TypeOK
  BY DEF FilesInv, Files!TypeOK, Files!None, Files!Row, FilesTask
<1> QED BY <1>3, <1>4, <1>5

-----------------------------------------------------------------------------
\* An ingredient (Ingredients).

Lot == [left : Nat, expires : 1..2]
MealRow == [status : {"none", "active", "cancelled"}, portions : 0..2, restocked : BOOLEAN]

\* What a request has read and not yet written.
LarderTask ==
    {<<"idle">>, <<"purchase">>} \cup {<<"voiding", o>> : o \in Meal}
    \cup {<<"counting", n>> : n \in Int} \cup {<<"discarding", i, n>> : i \in Nat, n \in Nat}

LarderInv ==
    /\ x1 \in Int /\ x2 \in Int /\ x4 \in 1..MaxRecipe
    /\ x3 \in Seq(Lot) /\ Len(x3) <= MaxLot
    /\ x5 \in [Meal -> MealRow] /\ x6 \in [Meal -> Int]
    /\ x7 \in {"draft", "sent", "received", "cancelled"} /\ x9 \in [Request -> LarderTask]
    /\ x10 \in BOOLEAN
    /\ \A o \in Meal : x6[o] >= 0 /\ (x5[o].restocked => x6[o] = 0)
    /\ x8 = IF x7 = "received" THEN 1 ELSE 0
    /\ ~x10 => x1 = Stock0 + x2

LEMMA LarderNumbers == Stock0 \in Nat /\ MaxLot \in Nat /\ MaxRecipe \in Nat /\ MaxRecipe > 0
  BY BooksAssumption

LEMMA CountRead ==
    ASSUME NEW t \in LarderTask
    PROVE  /\ t[1] = "counting" => t[2] \in Int
           /\ Len(t) = 3 => t[3] \in Nat
<1>1. CASE t \in {<<"idle">>, <<"purchase">>}
  BY <1>1
<1>2. CASE t \in {<<"voiding", o>> : o \in Meal}
  BY <1>2
<1>3. CASE t \in {<<"counting", n>> : n \in Int}
  BY <1>3
<1>4. CASE t \in {<<"discarding", i, n>> : i \in Nat, n \in Nat}
  BY <1>4
<1> QED BY <1>1, <1>2, <1>3, <1>4 DEF LarderTask

AddsLeft(l, g, S) == g = [s \in SUBSET S |-> IF s = {} THEN 0 ELSE l[Pick(s)].left + g[s \ {Pick(s)}]]

\* What some lots have left is added up as any numbers.
LEMMA LeftAdded ==
    ASSUME NEW l, NEW S, IsFiniteSet(S), \A i \in S : l[i].left \in Int
    PROVE  (CHOOSE g : AddsLeft(l, g, S))[S] \in Int
<1> DEFINE f == [i \in S |-> l[i].left]
<1>1. ASSUME NEW g PROVE AddsLeft(l, g, S) <=> Adds(f, g, S)
  <2>1. \A s \in SUBSET S : s # {} => f[Pick(s)] = l[Pick(s)].left
    BY PickIn
  <2>2. [s \in SUBSET S |-> IF s = {} THEN 0 ELSE l[Pick(s)].left + g[s \ {Pick(s)}]]
      = [s \in SUBSET S |-> IF s = {} THEN 0 ELSE f[Pick(s)] + g[s \ {Pick(s)}]]
    <3> HIDE DEF f
    <3> QED BY <2>1
  <2> HIDE DEF f
  <2> QED BY <2>2 DEF Adds, AddsLeft
<1>2. (CHOOSE g : AddsLeft(l, g, S)) = (CHOOSE g : Adds(f, g, S))
  <2> HIDE DEF f
  <2> QED BY <1>1, Zenon
<1>3. \A i \in S : f[i] \in Int
  OBVIOUS
<1> HIDE DEF f
<1>4. Sum(f, S) = (CHOOSE g : Adds(f, g, S))[S]
  BY SumAdds
<1>5. Sum(f, S) \in Int
  BY <1>3, SumInt
<1> QED BY <1>2, <1>4, <1>5

\* What is used is drawn from lots, which keep their order and what they are.
LEMMA LotsDrawn ==
    ASSUME NEW qty \in Int, x3 \in Seq(Lot), Len(x3) <= MaxLot, Larder!DrawLots(qty)
    PROVE  x3' \in Seq(Lot) /\ Len(x3') <= MaxLot
<1> DEFINE earlier(i) == {j \in DOMAIN x3 : Larder!Sooner(j, i)}
           drawn(i) == Larder!MapThenSumSet(LAMBDA j : x3[j].left, earlier(i))
           new(i) == [x3[i] EXCEPT !.left = Larder!Positive(@ - Larder!Positive(qty - drawn(i)))]
<1>1. x3' = [i \in DOMAIN x3 |-> new(i)]
  BY DEF Larder!DrawLots, Larder!Drawn
<1>2. DOMAIN x3 = 1..Len(x3) /\ Len(x3) \in Nat /\ \A i \in DOMAIN x3 : x3[i] \in Lot
  OBVIOUS
<1>3. IsFiniteSet(DOMAIN x3)
  BY <1>2, FS_Interval
<1>4. ASSUME NEW i \in DOMAIN x3 PROVE drawn(i) \in Int
  <2>1. PICK S : S = earlier(i)
    OBVIOUS
  <2>2. S \subseteq DOMAIN x3 /\ IsFiniteSet(S)
    <3>1. S \subseteq DOMAIN x3
      BY <2>1
    <3> QED BY <1>3, <3>1, FS_Subset
  <2>3. \A j \in S : x3[j].left \in Int
    BY <1>2, <2>2 DEF Lot
  <2>4. Larder!MapThenSumSet(LAMBDA j : x3[j].left, S) = (CHOOSE g : AddsLeft(x3, g, S))[S]
    BY DEF Larder!MapThenSumSet, Larder!MapThenFoldSet, AddsLeft, Pick
  <2>5. (CHOOSE g : AddsLeft(x3, g, S))[S] \in Int
    BY <2>2, <2>3, LeftAdded
  <2> QED BY <2>1, <2>4, <2>5
<1>5. ASSUME NEW i \in DOMAIN x3 PROVE new(i) \in Lot
  <2>1. PICK before \in Int : before = drawn(i)
    BY <1>4
  <2>2. PICK left : left = Larder!Positive(x3[i].left - Larder!Positive(qty - before))
    OBVIOUS
  <2>3. left \in Nat
    BY <1>2, <2>2 DEF Larder!Positive, Lot
  <2>4. new(i) = [x3[i] EXCEPT !.left = left]
    BY <2>1, <2>2
  <2> HIDE DEF new
  <2> QED BY <1>2, <2>3, <2>4 DEF Lot
<1> HIDE DEF new
<1>6. x3' \in [1..Len(x3) -> Lot]
  BY <1>1, <1>2, <1>5
<1>7. x3' \in Seq(Lot) /\ DOMAIN x3' = 1..Len(x3)
  BY <1>2, <1>6
<1>8. Len(x3') = Len(x3)
  BY <1>2, <1>7
<1> QED BY <1>7, <1>8

LEMMA LotAdded ==
    ASSUME NEW qty \in Nat, NEW expires \in 1..2, x3 \in Seq(Lot), Len(x3) <= MaxLot,
           Larder!AddLot(qty, expires)
    PROVE  x3' \in Seq(Lot) /\ Len(x3') <= MaxLot
<1>1. PICK new \in Lot : new = [left |-> qty, expires |-> expires]
  BY DEF Lot
<1>2. Len(x3) < MaxLot /\ x3' = Append(x3, new)
  BY <1>1 DEF Larder!AddLot
<1>3. Append(x3, new) \in Seq(Lot) /\ Len(Append(x3, new)) = Len(x3) + 1 /\ Len(x3) \in Nat
  BY Appended
<1> QED BY <1>2, <1>3, LarderNumbers

\* What an order has used is put back, or a part of it.
LEMMA LarderPutsBack ==
    ASSUME LarderInv, NEW o \in Meal, NEW qty \in Nat, qty <= x6[o], Larder!PutBack(o, qty)
    PROVE  /\ x1' \in Int /\ x2' \in Int /\ (\E moved \in Int : x1' = x1 + moved /\ x2' = x2 + moved)
           /\ x3' \in Seq(Lot) /\ Len(x3') <= MaxLot
           /\ x6' \in [Meal -> Int] /\ \A m \in Meal : x6'[m] = IF m = o THEN x6[o] - qty ELSE x6[m]
<1>1. x1 \in Int /\ x2 \in Int /\ x3 \in Seq(Lot) /\ Len(x3) <= MaxLot /\ x6 \in [Meal -> Int]
  BY DEF LarderInv
<1>2. x6' = [x6 EXCEPT ![o] = x6[o] - qty]
  BY <1>1 DEF Larder!PutBack
<1>3. x6[o] - qty \in Int
  BY <1>1
<1>4. x6' \in [Meal -> Int] /\ \A m \in Meal : x6'[m] = IF m = o THEN x6[o] - qty ELSE x6[m]
  BY <1>1, <1>2, <1>3
<1>5. CASE qty > 0
  <2>1. x1' = x1 + qty /\ x2' = x2 + qty /\ Larder!AddLot(qty, 2) /\ qty \in Int
    BY <1>5 DEF Larder!PutBack, Larder!Move, Larder!Never
  <2> QED BY <1>1, <1>4, <2>1, LotAdded
<1>6. CASE ~(qty > 0)
  <2>1. x1' = x1 /\ x2' = x2 /\ x3' = x3
    BY <1>6 DEF Larder!PutBack
  <2>2. x1' = x1 + 0 /\ x2' = x2 + 0 /\ 0 \in Int
    BY <1>1, <2>1
  <2> QED BY <1>1, <1>4, <2>1, <2>2
<1> QED BY <1>5, <1>6

LEMMA LarderInit == Larder!Init => LarderInv
<1> SUFFICES ASSUME Larder!Init PROVE LarderInv
  OBVIOUS
<1>1. /\ x1 = Stock0 /\ x2 = 0 /\ x3 = <<>> /\ x4 = 1 /\ x7 = "draft" /\ x8 = 0 /\ x10 = FALSE
      /\ x5 = [o \in Meal |-> [status |-> "none", portions |-> 0, restocked |-> FALSE]] /\ x6 = [o \in Meal |-> 0]
      /\ x9 = [w \in Request |-> <<"idle">>]
  BY DEF Larder!Init, Larder!Idle
<1>2. PICK row \in MealRow : row = [status |-> "none", portions |-> 0, restocked |-> FALSE]
  <2>1. 0 \in 0..2
    OBVIOUS
  <2> QED BY <2>1 DEF MealRow
<1>3. x5 \in [Meal -> MealRow] /\ x6 \in [Meal -> Int] /\ \A o \in Meal : x6[o] = 0
  BY <1>1, <1>2
<1>4. x9 \in [Request -> LarderTask]
  BY <1>1 DEF LarderTask
<1>5. x3 \in Seq(Lot) /\ Len(x3) = 0
  BY <1>1
<1>6. 1 \in 1..MaxRecipe /\ Stock0 = Stock0 + 0
  BY LarderNumbers
<1>7. ~x10 => x1 = Stock0 + x2
  BY <1>1, <1>6
<1>8. x1 \in Int /\ x2 \in Int /\ x4 \in 1..MaxRecipe /\ Len(x3) <= MaxLot
  BY <1>1, <1>5, <1>6, LarderNumbers
<1>9. x10 \in BOOLEAN
  BY <1>1
<1> QED BY <1>1, <1>3, <1>4, <1>5, <1>7, <1>8, <1>9 DEF LarderInv

\* A request begins, or is done.
LEMMA LarderTurn ==
    ASSUME NEW w \in Request, NEW task \in LarderTask, x9 \in [Request -> LarderTask], Larder!Become(w, task)
    PROVE  x9' \in [Request -> LarderTask]
  BY DEF Larder!Become

LEMMA LarderNext == LarderInv /\ Larder!Next => LarderInv'
<1> SUFFICES ASSUME LarderInv, Larder!Next PROVE LarderInv'
  OBVIOUS
<1>1. /\ x1 \in Int /\ x2 \in Int /\ x4 \in 1..MaxRecipe
      /\ x3 \in Seq(Lot) /\ Len(x3) <= MaxLot
      /\ x5 \in [Meal -> MealRow] /\ x6 \in [Meal -> Int]
      /\ x7 \in {"draft", "sent", "received", "cancelled"} /\ x9 \in [Request -> LarderTask]
      /\ x10 \in BOOLEAN
      /\ \A o \in Meal : x6[o] >= 0 /\ (x5[o].restocked => x6[o] = 0)
      /\ x8 = (IF x7 = "received" THEN 1 ELSE 0)
      /\ ~x10 /\ x1 = Stock0 + x2
  BY DEF LarderInv, Larder!Next
<1>2. ASSUME /\ x1' \in Int /\ x2' \in Int /\ x4' \in 1..MaxRecipe
             /\ x3' \in Seq(Lot) /\ Len(x3') <= MaxLot
             /\ x5' \in [Meal -> MealRow] /\ x6' \in [Meal -> Int]
             /\ x7' \in {"draft", "sent", "received", "cancelled"} /\ x9' \in [Request -> LarderTask]
             /\ x10' \in BOOLEAN
             /\ \A o \in Meal : x6'[o] >= 0 /\ (x5'[o].restocked => x6'[o] = 0)
             /\ x8' = (IF x7' = "received" THEN 1 ELSE 0)
             /\ ~x10' => x1' = Stock0 + x2'
      PROVE  LarderInv'
  BY <1>2 DEF LarderInv
<1>3. MaxRecipe \in Nat /\ MaxLot \in Nat /\ Stock0 \in Nat /\ x4 \in Nat
  BY <1>1, LarderNumbers
<1>0. x1 \in Int /\ x2 \in Int /\ Stock0 \in Nat /\ x1 = Stock0 + x2
  BY <1>1, <1>3
<1>4. Larder!Idle \in LarderTask /\ Larder!Idle = <<"idle">>
  BY DEF Larder!Idle, LarderTask
<1>5. ASSUME NEW o \in Meal, Larder!Consume(o) PROVE LarderInv'
  <2>1. PICK n \in 1..2 :
            /\ Larder!Move(-(x4 * n)) /\ Larder!DrawLots(x4 * n)
            /\ x5' = [x5 EXCEPT ![o] = [status |-> "active", portions |-> n, restocked |-> FALSE]]
            /\ x6' = [x6 EXCEPT ![o] = x4 * n]
    BY <1>5 DEF Larder!Consume
  <2>2. PICK qty \in Nat : qty = x4 * n
    <3>1. x4 * n \in Nat
      BY <1>3
    <3> QED BY <3>1
  <2>3. x1' = x1 + (-qty) /\ x2' = x2 + (-qty) /\ Larder!DrawLots(qty)
    BY <2>1, <2>2 DEF Larder!Move
  <2>4. x3' \in Seq(Lot) /\ Len(x3') <= MaxLot
    BY <1>1, <2>3, LotsDrawn
  <2>5. PICK row \in MealRow : row = [status |-> "active", portions |-> n, restocked |-> FALSE]
    <3>1. n \in 0..2
      OBVIOUS
    <3> QED BY <3>1 DEF MealRow
  <2>6. x5' \in [Meal -> MealRow] /\ \A m \in Meal : x5'[m] = IF m = o THEN row ELSE x5[m]
    BY <1>1, <2>1, <2>5
  <2>7. x6' \in [Meal -> Int] /\ \A m \in Meal : x6'[m] = IF m = o THEN qty ELSE x6[m]
    BY <1>1, <2>1, <2>2
  <2>8. x1' \in Int /\ x2' \in Int /\ x1' = Stock0 + x2'
    BY <1>0, <2>3
  <2>9. x4' = x4 /\ x7' = x7 /\ x8' = x8 /\ x9' = x9 /\ x10' = x10
    BY <1>5 DEF Larder!Consume
  <2>10. \A m \in Meal : x6'[m] >= 0 /\ (x5'[m].restocked => x6'[m] = 0)
    <3> TAKE m \in Meal
    <3>1. CASE m = o
      <4>1. x6'[m] = qty /\ x5'[m] = row /\ row.restocked = FALSE /\ qty >= 0
        BY <2>5, <2>6, <2>7, <3>1
      <4> QED BY <4>1
    <3>2. CASE m # o
      <4>1. x6'[m] = x6[m] /\ x5'[m] = x5[m]
        BY <2>6, <2>7, <3>2
      <4> QED BY <1>1, <4>1
    <3> QED BY <3>1, <3>2
  <2> QED BY <1>1, <1>2, <2>4, <2>6, <2>7, <2>8, <2>9, <2>10
<1>6. ASSUME NEW o \in Meal, Larder!Cancel(o) PROVE LarderInv'
  <2>0. PICK restock \in BOOLEAN :
            /\ x5' = [x5 EXCEPT ![o].status = "cancelled", ![o].restocked = restock]
            /\ Larder!PutBack(o, Larder!Restocked(Larder!Positive(x6[o]), restock))
    BY <1>6 DEF Larder!Cancel
  <2>1. PICK qty \in Nat : /\ qty = Larder!Restocked(Larder!Positive(x6[o]), restock)
                           /\ qty <= x6[o] /\ (restock => qty = x6[o])
    <3>1. Larder!Positive(x6[o]) = x6[o] /\ x6[o] \in Nat
      BY <1>1 DEF Larder!Positive
    <3> QED BY <3>1 DEF Larder!Restocked
  <2>2. Larder!PutBack(o, qty)
    BY <2>0, <2>1
  <2>3. /\ x1' \in Int /\ x2' \in Int /\ (\E moved \in Int : x1' = x1 + moved /\ x2' = x2 + moved)
        /\ x3' \in Seq(Lot) /\ Len(x3') <= MaxLot
        /\ x6' \in [Meal -> Int] /\ \A m \in Meal : x6'[m] = IF m = o THEN x6[o] - qty ELSE x6[m]
    BY <1>1, <2>1, <2>2, LarderPutsBack
  <2>4. PICK row \in MealRow :
            row = [x5[o] EXCEPT !.status = "cancelled", !.restocked = restock] /\ row.restocked = restock
    <3>1. PICK old \in MealRow : old = x5[o]
      BY <1>1
    <3>2. PICK row : row = [old EXCEPT !.status = "cancelled", !.restocked = restock]
      OBVIOUS
    <3>3. row = [status |-> "cancelled", portions |-> old.portions, restocked |-> restock]
      BY <3>1, <3>2 DEF MealRow
    <3>4. row \in MealRow /\ row.restocked = restock
      BY <3>1, <3>3 DEF MealRow
    <3> QED BY <3>1, <3>2, <3>4
  <2>5. x5' = [x5 EXCEPT ![o] = row]
    BY <1>1, <2>0, <2>4
  <2>6. x5' \in [Meal -> MealRow] /\ \A m \in Meal : x5'[m] = IF m = o THEN row ELSE x5[m]
    BY <1>1, <2>5
  <2>7. \A m \in Meal : x6'[m] >= 0 /\ (x5'[m].restocked => x6'[m] = 0)
    <3> TAKE m \in Meal
    <3>1. CASE m = o
      <4>1. x6'[m] = x6[o] - qty /\ x5'[m] = row /\ x6[o] \in Int
        BY <1>1, <2>3, <2>6, <3>1
      <4> QED BY <2>1, <2>4, <4>1
    <3>2. CASE m # o
      <4>1. x6'[m] = x6[m] /\ x5'[m] = x5[m]
        BY <2>3, <2>6, <3>2
      <4> QED BY <1>1, <4>1
    <3> QED BY <3>1, <3>2
  <2>8. x4' = x4 /\ x7' = x7 /\ x8' = x8 /\ x9' = x9 /\ x10' = x10
    BY <1>6 DEF Larder!Cancel
  <2>9. x1' = Stock0 + x2'
    <3>1. PICK moved \in Int : x1' = x1 + moved /\ x2' = x2 + moved
      BY <2>3
    <3> QED BY <1>0, <3>1
  <2> QED BY <1>1, <1>2, <2>3, <2>6, <2>7, <2>8, <2>9
<1>7. ASSUME NEW w \in Request, NEW task \in LarderTask, Larder!Become(w, task),
             x1' = x1, x2' = x2, x3' = x3, x4' = x4, x5' = x5, x6' = x6, x7' = x7, x8' = x8, x10' = x10
      PROVE  LarderInv'
  <2>1. x9' \in [Request -> LarderTask]
    BY <1>1, <1>7, LarderTurn
  <2> QED BY <1>1, <1>2, <1>7, <2>1
<1>8. ASSUME NEW o \in Meal, NEW w \in Request, Larder!StartVoid(w, o) PROVE LarderInv'
  <2>1. <<"voiding", o>> \in LarderTask
    BY DEF LarderTask
  <2> QED BY <1>7, <1>8, <2>1 DEF Larder!StartVoid
<1>9. ASSUME NEW o \in Meal, NEW w \in Request, Larder!Void(w, o) PROVE LarderInv'
  <2>1. Larder!Become(w, Larder!Idle) /\ x4' = x4 /\ x7' = x7 /\ x8' = x8 /\ x10' = x10
    BY <1>9 DEF Larder!Void
  <2>2. CASE x5[o].portions > 0
    <3>0. PICK restock \in BOOLEAN : Larder!PutBack(o, Larder!Restocked(Larder!Restored(o), restock))
      BY <1>9, <2>2 DEF Larder!Void
    <3>1. PICK qty \in Nat : qty = Larder!Restocked(Larder!Restored(o), restock) /\ qty <= x6[o]
      <4>1. Larder!Restored(o) \in Nat /\ Larder!Restored(o) <= x6[o] /\ 0 <= x6[o]
        BY <1>1, <1>3 DEF Larder!Restored, Larder!Positive
      <4> QED BY <4>1 DEF Larder!Restocked
    <3>2. Larder!PutBack(o, qty) /\ x5' = [x5 EXCEPT ![o].portions = @ - 1]
      BY <1>9, <2>2, <3>0, <3>1 DEF Larder!Void
    <3>3. /\ x1' \in Int /\ x2' \in Int /\ (\E moved \in Int : x1' = x1 + moved /\ x2' = x2 + moved)
          /\ x3' \in Seq(Lot) /\ Len(x3') <= MaxLot
          /\ x6' \in [Meal -> Int] /\ \A m \in Meal : x6'[m] = IF m = o THEN x6[o] - qty ELSE x6[m]
      BY <1>1, <3>1, <3>2, LarderPutsBack
    <3>4. PICK portions \in 0..2 : portions = x5[o].portions - 1
      <4>1. x5[o].portions \in 0..2
        BY <1>1 DEF MealRow
      <4>2. x5[o].portions - 1 \in 0..2
        BY <2>2, <4>1
      <4> QED BY <4>2
    <3>5. PICK row \in MealRow : row = [x5[o] EXCEPT !.portions = portions]
      BY <1>1 DEF MealRow
    <3>6. row.restocked = x5[o].restocked
      BY <1>1, <3>5 DEF MealRow
    <3>7. x5' = [x5 EXCEPT ![o] = row]
      BY <1>1, <3>2, <3>4, <3>5
    <3>8. x5' \in [Meal -> MealRow] /\ \A m \in Meal : x5'[m] = IF m = o THEN row ELSE x5[m]
      BY <1>1, <3>7
    <3>9. \A m \in Meal : x6'[m] >= 0 /\ (x5'[m].restocked => x6'[m] = 0)
      <4> TAKE m \in Meal
      <4>1. CASE m = o
        <5>1. x6'[m] = x6[o] - qty /\ x5'[m] = row /\ x6[o] \in Int
          BY <1>1, <3>3, <3>8, <4>1
        <5>2. x5[o].restocked => x6[o] = 0
          BY <1>1
        <5> QED BY <3>1, <3>6, <5>1, <5>2
      <4>2. CASE m # o
        <5>1. x6'[m] = x6[m] /\ x5'[m] = x5[m]
          BY <3>3, <3>8, <4>2
        <5> QED BY <1>1, <5>1
      <4> QED BY <4>1, <4>2
    <3>10. x1' = Stock0 + x2'
      <4>1. PICK moved \in Int : x1' = x1 + moved /\ x2' = x2 + moved
        BY <3>3
      <4> QED BY <1>0, <4>1
    <3>11. x9' \in [Request -> LarderTask]
      BY <1>1, <1>4, <2>1, LarderTurn
    <3> QED BY <1>1, <1>2, <2>1, <3>3, <3>8, <3>9, <3>10, <3>11
  <2>3. CASE ~(x5[o].portions > 0)
    BY <1>4, <1>7, <1>9, <2>1, <2>3 DEF Larder!Void
  <2> QED BY <2>2, <2>3
<1>10. ASSUME NEW w \in Request, Larder!StartCount(w) PROVE LarderInv'
  <2>1. <<"counting", x1>> \in LarderTask
    BY <1>1 DEF LarderTask
  <2> QED BY <1>7, <1>10, <2>1 DEF Larder!StartCount
<1>11. ASSUME NEW w \in Request, Larder!Stocktake(w) PROVE LarderInv'
  <2>1. PICK read \in Int : read = x9[w][2]
    <3>1. x9[w] \in LarderTask /\ x9[w][1] = "counting"
      BY <1>1, <1>11 DEF Larder!Stocktake
    <3> QED BY <3>1, CountRead
  <2>2. PICK counted \in Larder!Counts :
            /\ x1' = counted /\ x2' = x2 + counted - read
            /\ IF counted > read THEN Larder!AddLot(counted - read, Larder!Never)
               ELSE Larder!DrawLots(read - counted)
            /\ x10' = (x10 \/ x1 # read)
    BY <1>11, <2>1 DEF Larder!Stocktake
  <2>3. counted \in Int
    BY <1>3, <2>2 DEF Larder!Counts
  <2>4. x3' \in Seq(Lot) /\ Len(x3') <= MaxLot
    <3>1. CASE counted > read
      <4>1. PICK more \in Nat : more = counted - read
        BY <2>1, <2>3, <3>1
      <4>2. Larder!AddLot(more, 2)
        BY <2>2, <3>1, <4>1 DEF Larder!Never
      <4> QED BY <1>1, <4>2, LotAdded
    <3>2. CASE ~(counted > read)
      <4>1. PICK less \in Int : less = read - counted
        BY <2>1, <2>3
      <4>2. Larder!DrawLots(less)
        BY <2>2, <3>2, <4>1
      <4> QED BY <1>1, <4>2, LotsDrawn
    <3> QED BY <3>1, <3>2
  <2>5. x1' \in Int /\ x2' \in Int
    BY <1>1, <2>1, <2>2, <2>3
  <2>6. x10' \in BOOLEAN
    BY <2>2
  <2>7. ~x10' => x1' = Stock0 + x2'
    <3>1. ~x10' => x1 = read
      BY <2>2
    <3>2. x1' = counted /\ x2' = x2 + counted - read
      BY <2>2
    <3> QED BY <1>0, <2>1, <2>3, <3>1, <3>2
  <2>8. x9' \in [Request -> LarderTask]
    BY <1>1, <1>4, <1>11, LarderTurn DEF Larder!Stocktake
  <2>9. x4' = x4 /\ x5' = x5 /\ x6' = x6 /\ x7' = x7 /\ x8' = x8
    BY <1>11 DEF Larder!Stocktake
  <2> QED BY <1>1, <1>2, <2>4, <2>5, <2>6, <2>7, <2>8, <2>9
<1>12. ASSUME NEW w \in Request, Larder!StartPurchase(w) PROVE LarderInv'
  <2>1. <<"purchase">> \in LarderTask
    BY DEF LarderTask
  <2> QED BY <1>7, <1>12, <2>1 DEF Larder!StartPurchase
<1>13. ASSUME NEW w \in Request, Larder!FinishPurchase(w) PROVE LarderInv'
  <2>1. Larder!Become(w, Larder!Idle) /\ x4' = x4 /\ x5' = x5 /\ x6' = x6 /\ x10' = x10
    BY <1>13 DEF Larder!FinishPurchase
  <2>2. x9' \in [Request -> LarderTask]
    BY <1>1, <1>4, <2>1, LarderTurn
  <2>3. CASE /\ Larder!ClaimPurchase(Larder!Open) /\ x7' = "received" /\ x8' = x8 + 1
             /\ Larder!Move(2) /\ \E expires \in 1..Larder!Never : Larder!AddLot(2, expires)
    <3>1. x8 = 0
      BY <1>1, <2>3 DEF Larder!ClaimPurchase, Larder!Open
    <3>2. x1' = x1 + 2 /\ x2' = x2 + 2
      BY <2>3 DEF Larder!Move
    <3>3. PICK expires \in 1..2 : Larder!AddLot(2, expires)
      BY <2>3 DEF Larder!Never
    <3>4. x3' \in Seq(Lot) /\ Len(x3') <= MaxLot
      BY <1>1, <3>3, LotAdded
    <3>5. x1' \in Int /\ x2' \in Int /\ x1' = Stock0 + x2' /\ x8' = 1
      BY <1>1, <1>3, <2>3, <3>1, <3>2
    <3> QED BY <1>1, <1>2, <2>1, <2>2, <2>3, <3>4, <3>5
  <2>4. CASE /\ Larder!ClaimPurchase(Larder!Open) /\ x7' = "cancelled"
             /\ x1' = x1 /\ x2' = x2 /\ x3' = x3 /\ x8' = x8
    <3>1. x8' = 0
      BY <1>1, <2>4 DEF Larder!ClaimPurchase, Larder!Open
    <3> QED BY <1>1, <1>2, <2>1, <2>2, <2>4, <3>1
  <2>5. CASE /\ Larder!ClaimPurchase({"draft"}) /\ x7' = "sent"
             /\ x1' = x1 /\ x2' = x2 /\ x3' = x3 /\ x8' = x8
    <3>1. x8' = 0
      BY <1>1, <2>5 DEF Larder!ClaimPurchase
    <3> QED BY <1>1, <1>2, <2>1, <2>2, <2>5, <3>1
  <2>6. CASE x1' = x1 /\ x2' = x2 /\ x3' = x3 /\ x7' = x7 /\ x8' = x8
    BY <1>1, <1>2, <2>1, <2>2, <2>6
  <2> QED BY <1>13, <2>3, <2>4, <2>5, <2>6 DEF Larder!FinishPurchase
<1>14. ASSUME NEW w \in Request, NEW i \in DOMAIN x3, Larder!StartDiscard(w, i) PROVE LarderInv'
  <2>1. i \in Nat /\ x3[i].left \in Nat
    <3>1. x3[i] \in Lot /\ DOMAIN x3 = 1..Len(x3) /\ Len(x3) \in Nat
      BY <1>1
    <3> QED BY <3>1 DEF Lot
  <2>2. <<"discarding", i, x3[i].left>> \in LarderTask
    BY <2>1 DEF LarderTask
  <2> QED BY <1>7, <1>14, <2>2 DEF Larder!StartDiscard
<1>15. ASSUME NEW w \in Request, NEW i \in DOMAIN x3, Larder!Discard(w, i) PROVE LarderInv'
  <2>1. PICK read \in Nat : read = x9[w][3]
    <3>1. x9[w] \in LarderTask /\ Len(x9[w]) = 3
      BY <1>1, <1>15 DEF Larder!Discard
    <3> QED BY <3>1, CountRead
  <2>2. /\ x1' = x1 + (-read) /\ x2' = x2 + (-read) /\ x3' = [x3 EXCEPT ![i].left = 0]
        /\ x10' = (x10 \/ x3[i].left # read)
        /\ x4' = x4 /\ x5' = x5 /\ x6' = x6 /\ x7' = x7 /\ x8' = x8
        /\ Larder!Become(w, Larder!Idle)
    BY <1>15, <2>1 DEF Larder!Discard, Larder!Move
  <2>3. PICK lot \in Lot : lot = [x3[i] EXCEPT !.left = 0]
    <3>1. x3[i] \in Lot
      BY <1>1
    <3> QED BY <3>1 DEF Lot
  <2>4. x3' = [x3 EXCEPT ![i] = lot]
    BY <1>1, <2>2, <2>3
  <2>5. x3' \in Seq(Lot) /\ Len(x3') = Len(x3)
    BY <1>1, <2>4
  <2>6. x1' \in Int /\ x2' \in Int /\ x1' = Stock0 + x2'
    BY <1>0, <2>1, <2>2
  <2>7. x10' \in BOOLEAN
    BY <2>2
  <2>8. x9' \in [Request -> LarderTask]
    BY <1>1, <1>4, <2>2, LarderTurn
  <2> QED BY <1>1, <1>2, <2>2, <2>5, <2>6, <2>7, <2>8
<1>16. ASSUME Larder!ChangeRecipe PROVE LarderInv'
  BY <1>1, <1>2, <1>16 DEF Larder!ChangeRecipe
<1>17. ASSUME Larder!Buy PROVE LarderInv'
  <2>1. PICK expires \in 1..2 : Larder!AddLot(1, expires)
    BY <1>17 DEF Larder!Buy, Larder!Never
  <2>2. x3' \in Seq(Lot) /\ Len(x3') <= MaxLot
    BY <1>1, <2>1, LotAdded
  <2>3. /\ x1' = x1 + 1 /\ x2' = x2 + 1
        /\ x4' = x4 /\ x5' = x5 /\ x6' = x6 /\ x7' = x7 /\ x8' = x8 /\ x9' = x9 /\ x10' = x10
    BY <1>17 DEF Larder!Buy, Larder!Move
  <2>4. x1' \in Int /\ x2' \in Int /\ x1' = Stock0 + x2'
    BY <1>0, <2>3
  <2> QED BY <1>1, <1>2, <2>2, <2>3, <2>4
<1>18. ASSUME Larder!Waste PROVE LarderInv'
  <2>1. x3' \in Seq(Lot) /\ Len(x3') <= MaxLot
    BY <1>1, <1>18, LotsDrawn DEF Larder!Waste
  <2>2. /\ x1' = x1 + (-1) /\ x2' = x2 + (-1)
        /\ x4' = x4 /\ x5' = x5 /\ x6' = x6 /\ x7' = x7 /\ x8' = x8 /\ x9' = x9 /\ x10' = x10
    BY <1>18 DEF Larder!Waste, Larder!Move
  <2>3. x1' \in Int /\ x2' \in Int /\ x1' = Stock0 + x2'
    BY <1>0, <2>2
  <2> QED BY <1>1, <1>2, <2>1, <2>2, <2>3
<1>19. CASE \E o \in Meal : Larder!Consume(o) \/ Larder!Cancel(o)
                            \/ \E w \in Request : Larder!StartVoid(w, o) \/ Larder!Void(w, o)
  BY <1>5, <1>6, <1>8, <1>9, <1>19
<1>20. CASE \E w \in Request :
              \/ Larder!StartCount(w) \/ Larder!Stocktake(w) \/ Larder!StartPurchase(w)
              \/ Larder!FinishPurchase(w)
              \/ \E i \in DOMAIN x3 : Larder!StartDiscard(w, i) \/ Larder!Discard(w, i)
  BY <1>10, <1>11, <1>12, <1>13, <1>14, <1>15, <1>20
<1> QED BY <1>16, <1>17, <1>18, <1>19, <1>20 DEF Larder!Next

LEMMA LarderHolds ==
    LarderInv => Larder!TypeOK /\ Larder!RestoredExactly /\ Larder!ReceivedOnce /\ Larder!StockIsMovements
<1> SUFFICES ASSUME LarderInv
             PROVE  Larder!TypeOK /\ Larder!RestoredExactly /\ Larder!ReceivedOnce /\ Larder!StockIsMovements
  OBVIOUS
<1>1. x8 \in Nat
  BY DEF LarderInv
<1>2. Larder!TypeOK
  BY <1>1 DEF LarderInv, Larder!TypeOK, Lot, MealRow, Larder!Never
<1> QED BY <1>2 DEF LarderInv, Larder!RestoredExactly, Larder!ReceivedOnce, Larder!StockIsMovements

-----------------------------------------------------------------------------
\* An order's invoice (EInvoice).

InvoiceRow == [status : Invoices!Status, attempts : 0..MaxAttempts, allowed : 0..Amount]
AuthorityRow == [issued : BOOLEAN, voided : BOOLEAN, allowed : 0..Amount]
InvoiceJob ==
    [at : {"idle", "strike", "cancel", "issue", "void", "allow"}, amount : 0..Amount,
     before : 0..Amount, answer : {"none", "ok", "refused", "error"}]

\* Somebody is at a call, and has had its answer.
At(j, a) == \E w \in Request : j[w].at = a
Ok(j, a) == \E w \in Request : j[w].at = a /\ j[w].answer = "ok"

\* What is allowed was counted from no more than the authority has.
Asked(task, allowed) ==
    task.at = "allow" =>
        /\ task.before <= allowed /\ task.amount >= 1
        /\ task.answer = "ok" => task.before + task.amount <= allowed

\* A row that is being issued is not to be issued again.
IssuedOnce(status, j) ==
    /\ \A v, w \in Request : j[v].at = "issue" /\ j[w].at = "issue" => v = w
    /\ \A w \in Request : j[w].at = "issue" => status \notin {"none", "waiting", "pending", "failed"}

\* The row says what the authority has, but for the answers that are not yet written.
Standing(status, a, j) ==
    /\ ~a.issued =>
           /\ status \notin {"issued", "allowance"} /\ ~a.voided /\ a.allowed = 0
           /\ ~At(j, "void") /\ ~At(j, "allow") /\ ~Ok(j, "issue")
    /\ Ok(j, "issue") =>
           /\ status \notin {"issued", "allowance"} /\ a.issued /\ ~a.voided /\ a.allowed = 0
           /\ ~At(j, "void") /\ ~At(j, "allow")
    /\ a.issued /\ ~Ok(j, "issue") =>
           /\ ~At(j, "strike") /\ ~At(j, "cancel") /\ ~At(j, "issue")
           /\ status \in {"issued", "allowance", "void"}
           /\ status = "issued" /\ a.voided => Ok(j, "void")
           /\ status = "issued" /\ a.allowed > 0 => Ok(j, "allow")
           /\ status = "void" => a.voided
           /\ status = "allowance" => a.allowed > 0 /\ ~a.voided
           /\ a.voided => a.allowed = 0
           /\ Ok(j, "void") => a.voided
           /\ Ok(j, "allow") => a.allowed > 0 /\ ~a.voided

InvoicesInv ==
    /\ x1 \in BOOLEAN /\ x2 \in BOOLEAN /\ x6 \in BOOLEAN
    /\ x3 \in 0..Amount /\ x9 \in 0..MaxLost
    /\ x4 \in InvoiceRow /\ x5 \in AuthorityRow /\ x7 \subseteq Invoices!Deferred
    /\ x8 \in [Request -> InvoiceJob]
    /\ x4.allowed <= x5.allowed /\ \A w \in Request : Asked(x8[w], x5.allowed)
    /\ IssuedOnce(x4.status, x8)
    /\ x9 = 0 => Standing(x4.status, x5, x8)

LEMMA InvoiceNumbers ==
    /\ Amount \in Nat /\ MaxAttempts \in Nat /\ MaxLost \in Nat
    /\ 0 \in 0..Amount /\ 0 \in 0..MaxAttempts /\ 0 \in 0..MaxLost
    /\ Invoices!Idle \in InvoiceJob /\ Invoices!Idle.at = "idle" /\ Invoices!Idle.answer = "none"
<1>1. Amount \in Nat /\ MaxAttempts \in Nat /\ MaxLost \in Nat
  BY BooksAssumption
<1>2. 0 \in 0..Amount /\ 0 \in 0..MaxAttempts /\ 0 \in 0..MaxLost
  BY <1>1
<1>3. Invoices!Idle \in InvoiceJob /\ Invoices!Idle.at = "idle" /\ Invoices!Idle.answer = "none"
  BY <1>2 DEF Invoices!Idle, InvoiceJob
<1> QED BY <1>1, <1>2, <1>3

\* Who is at which call when a job of j, the old one, changes to the new one in k.
After(j, k, old, new, a) ==
    /\ At(k, a) => At(j, a) \/ new.at = a
    /\ At(j, a) => At(k, a) \/ old.at = a
    /\ new.at = a => At(k, a)
    /\ old.at = a => At(j, a)
    /\ Ok(k, a) => Ok(j, a) \/ (new.at = a /\ new.answer = "ok")
    /\ Ok(j, a) => Ok(k, a) \/ (old.at = a /\ old.answer = "ok")
    /\ new.at = a /\ new.answer = "ok" => Ok(k, a)
    /\ old.at = a /\ old.answer = "ok" => Ok(j, a)
    /\ Ok(j, a) => At(j, a)
    /\ Ok(k, a) => At(k, a)

LEMMA JobsAfter ==
    ASSUME NEW j \in [Request -> InvoiceJob], NEW w \in Request, NEW new \in InvoiceJob
    PROVE  \A a : After(j, [j EXCEPT ![w] = new], j[w], new, a)
<1>1. PICK k : k = [j EXCEPT ![w] = new]
  OBVIOUS
<1>2. \A v \in Request : k[v] = IF v = w THEN new ELSE j[v]
  BY <1>1
<1>3. \A a : After(j, k, j[w], new, a)
  BY <1>2 DEF At, Ok, After
<1> QED BY <1>1, <1>3

LEMMA InvoicesInit == Invoices!Init => InvoicesInv
<1> SUFFICES ASSUME Invoices!Init PROVE InvoicesInv
  OBVIOUS
<1>1. /\ x1 = FALSE /\ x2 = FALSE /\ x3 = 0 /\ x6 = TRUE /\ x7 = {} /\ x9 = 0
      /\ x4 = [status |-> "none", attempts |-> 0, allowed |-> 0]
      /\ x5 = [issued |-> FALSE, voided |-> FALSE, allowed |-> 0]
      /\ x8 = [w \in Request |-> Invoices!Idle]
  BY DEF Invoices!Init
<1>2. x4 \in InvoiceRow /\ x5 \in AuthorityRow
  BY <1>1, InvoiceNumbers DEF InvoiceRow, AuthorityRow, Invoices!Status
<1>3. x8 \in [Request -> InvoiceJob] /\ \A w \in Request : x8[w].at = "idle"
  BY <1>1, InvoiceNumbers
<1>4. x4.status = "none" /\ x4.allowed = 0 /\ x5.allowed = 0 /\ ~x5.issued /\ ~x5.voided
  BY <1>1
<1>5. \A w \in Request : Asked(x8[w], x5.allowed)
  BY <1>3 DEF Asked
<1>6. IssuedOnce(x4.status, x8) /\ Standing(x4.status, x5, x8)
  BY <1>3, <1>4 DEF IssuedOnce, Standing, At, Ok
<1>7. x1 \in BOOLEAN /\ x2 \in BOOLEAN /\ x6 \in BOOLEAN
  BY <1>1
<1>8. x3 \in 0..Amount /\ x9 \in 0..MaxLost
  BY <1>1, InvoiceNumbers
<1>9. x7 \subseteq Invoices!Deferred /\ x4.allowed <= x5.allowed
  BY <1>1, <1>4
<1> QED BY <1>2, <1>3, <1>5, <1>6, <1>7, <1>8, <1>9 DEF InvoicesInv

\* A request's job changes, and with it the row or what the authority has.
LEMMA InvoicesTurn ==
    ASSUME InvoicesInv, NEW w \in Request, NEW new \in InvoiceJob, x8' = [x8 EXCEPT ![w] = new],
           x1' = x1, x2' \in BOOLEAN, x6' = x6, x3' = x3, x9' \in 0..MaxLost, x9 <= x9',
           x4' \in InvoiceRow, x5' \in AuthorityRow, x7' \subseteq Invoices!Deferred,
           x5.allowed <= x5'.allowed, x4'.allowed <= x5'.allowed, Asked(new, x5'.allowed),
           IssuedOnce(x4'.status, x8'), x9 = 0 /\ x9' = 0 => Standing(x4'.status, x5', x8')
    PROVE  InvoicesInv'
<1>1. x8' \in [Request -> InvoiceJob] /\ \A v \in Request : x8'[v] = IF v = w THEN new ELSE x8[v]
  BY DEF InvoicesInv
<1>2. x5.allowed \in Int /\ x5'.allowed \in Int
  BY InvoiceNumbers DEF InvoicesInv, AuthorityRow
<1>3. \A v \in Request : Asked(x8'[v], x5'.allowed)
  <2> TAKE v \in Request
  <2>1. CASE v = w
    BY <1>1, <2>1
  <2>2. CASE v # w
    <3>1. x8'[v] = x8[v] /\ Asked(x8[v], x5.allowed)
      BY <1>1, <2>2 DEF InvoicesInv
    <3>2. x8[v].before \in Int /\ x8[v].amount \in Int
      BY InvoiceNumbers DEF InvoicesInv, InvoiceJob
    <3>3. PICK before \in Int, amount \in Int : before = x8[v].before /\ amount = x8[v].amount
      BY <3>2
    <3>4. before <= x5.allowed => before <= x5'.allowed
      BY <1>2
    <3>5. before + amount <= x5.allowed => before + amount <= x5'.allowed
      BY <1>2
    <3> QED BY <3>1, <3>3, <3>4, <3>5 DEF Asked
  <2> QED BY <2>1, <2>2
<1>4. x9' = 0 => x9 = 0
  BY InvoiceNumbers DEF InvoicesInv
<1> QED BY <1>1, <1>3, <1>4 DEF InvoicesInv

\* Nobody's job changes and the authority has what it had.
LEMMA InvoicesQuiet ==
    ASSUME InvoicesInv, x8' = x8, x5' = x5, x9' = x9, x1' \in BOOLEAN, x2' \in BOOLEAN, x6' \in BOOLEAN,
           x3' \in 0..Amount, x4' \in InvoiceRow, x4'.allowed = x4.allowed, x7' \subseteq Invoices!Deferred,
           \/ x4'.status = x4.status
           \/ /\ x4.status \in {"none", "waiting", "failed"}
              /\ x4'.status \in {"waiting", "pending"}
    PROVE  InvoicesInv'
<1>1. IssuedOnce(x4'.status, x8')
  BY DEF InvoicesInv, IssuedOnce
<1>2. x9' = 0 => Standing(x4'.status, x5', x8')
  <2>1. \/ x4'.status = x4.status
        \/ /\ ~At(x8, "issue") /\ x4.status \in {"none", "waiting", "failed"}
           /\ x4'.status \in {"waiting", "pending"}
    BY DEF InvoicesInv, IssuedOnce, At
  <2>2. Ok(x8, "issue") => At(x8, "issue")
    BY DEF At, Ok
  <2> QED BY <2>1, <2>2 DEF InvoicesInv, Standing
<1> QED BY <1>1, <1>2 DEF InvoicesInv

\* The row's status, as a request's job changes that does not begin to issue.
LEMMA OnceAfter ==
    ASSUME NEW j \in [Request -> InvoiceJob], NEW w \in Request, NEW new \in InvoiceJob,
           NEW k, k = [j EXCEPT ![w] = new], NEW s, NEW t, IssuedOnce(s, j),
           new.at = "issue" => j[w].at = "issue",
           \/ t = s
           \/ t \notin {"none", "waiting", "pending", "failed"}
           \/ j[w].at = "issue" /\ new.at # "issue"
    PROVE  IssuedOnce(t, k)
<1>1. \A v \in Request : k[v] = IF v = w THEN new ELSE j[v]
  OBVIOUS
<1> QED BY <1>1 DEF IssuedOnce

\* A request whose status it has read begins something else than issuing.
LEMMA InvoicesBegin ==
    ASSUME InvoicesInv, NEW w \in Request, NEW new \in InvoiceJob, Invoices!Begin(w, new),
           x1' = x1, x2' = x2, x6' = x6, x3' = x3, x9' = x9, x4' = x4, x5' = x5,
           x7' \subseteq Invoices!Deferred, new.answer = "none",
           \/ new.at \in {"strike", "cancel"} /\ x4.status \in {"pending", "waiting", "failed"}
           \/ new.at \in {"void", "allow"} /\ x4.status \in {"issued", "allowance"},
           Asked(new, x5.allowed)
    PROVE  InvoicesInv'
<1>1. x8[w].at = "idle" /\ x8' = [x8 EXCEPT ![w] = new] /\ x8 \in [Request -> InvoiceJob]
  BY InvoiceNumbers DEF Invoices!Begin, InvoicesInv
<1>2. IssuedOnce(x4.status, x8) /\ new.at # "issue"
  BY DEF InvoicesInv
<1>3. IssuedOnce(x4.status, x8')
  BY <1>1, <1>2, OnceAfter
<1>4. ASSUME x9 = 0 PROVE Standing(x4.status, x5, x8')
  <2>1. Standing(x4.status, x5, x8)
    BY <1>4 DEF InvoicesInv
  <2>2. \A a : /\ At(x8', a) => At(x8, a) \/ new.at = a
               /\ At(x8, a) => At(x8', a) \/ x8[w].at = a
               /\ Ok(x8', a) => Ok(x8, a)
               /\ Ok(x8, a) => Ok(x8', a) \/ x8[w].at = a
    <3>1. \A a : After(x8, x8', x8[w], new, a)
      BY <1>1, JobsAfter
    <3> QED BY <3>1 DEF After
  <2>3. Ok(x8, "issue") => x4.status \notin {"pending", "waiting", "failed"}
    BY <1>2 DEF IssuedOnce, Ok
  <2> QED BY <1>1, <1>2, <2>1, <2>2, <2>3 DEF Standing
<1>5. x4 \in InvoiceRow /\ x5 \in AuthorityRow /\ x2 \in BOOLEAN /\ x9 \in 0..MaxLost /\ x4.allowed <= x5.allowed
  BY DEF InvoicesInv
<1>6. x9 <= x9' /\ x5.allowed <= x5'.allowed
  <2>1. x9 \in Int /\ x5.allowed \in Int
    BY <1>5, InvoiceNumbers DEF AuthorityRow
  <2> QED BY <2>1
<1> QED BY <1>1, <1>3, <1>4, <1>5, <1>6, InvoicesTurn

\* A request is done with what it was at.
LEMMA InvoicesDone ==
    ASSUME InvoicesInv, NEW w \in Request, Invoices!Done(w),
           x1' = x1, x2' \in BOOLEAN, x6' = x6, x3' = x3, x7' = x7, x9' = x9, x5' = x5,
           x4' \in InvoiceRow, x4'.allowed <= x5.allowed,
           x8[w].at # "idle",
           \/ x4'.status = x4.status /\ x8[w].at # "issue" /\ x8[w].answer # "ok"
                  /\ x8[w].at \in {"void", "allow"}
           \/ x4'.status = "void" /\ x8[w].at \in {"strike", "cancel"}
           \/ x4'.status = "void" /\ x8[w].at = "void" /\ x8[w].answer = "ok"
           \/ x4'.status = "allowance" /\ x8[w].at = "allow" /\ x8[w].answer = "ok"
           \/ /\ x4'.status = "issued" /\ x8[w].at = "issue" /\ x8[w].answer = "ok"
              /\ \A v \in Request : x8[v].at \notin {"cancel", "strike"}
           \/ x4'.status \in {"pending", "failed"} /\ x8[w].at = "issue" /\ x8[w].answer # "ok"
    PROVE  InvoicesInv'
<1>1. x8' = [x8 EXCEPT ![w] = Invoices!Idle] /\ x8 \in [Request -> InvoiceJob]
  BY DEF Invoices!Done, InvoicesInv
<1>2. Invoices!Idle \in InvoiceJob /\ Invoices!Idle.at = "idle" /\ Invoices!Idle.answer = "none"
  BY InvoiceNumbers
<1>3. IssuedOnce(x4.status, x8)
  BY DEF InvoicesInv
<1>4. IssuedOnce(x4'.status, x8')
  <2>1. \/ x4'.status = x4.status
        \/ x4'.status \notin {"none", "waiting", "pending", "failed"}
        \/ x8[w].at = "issue"
    OBVIOUS
  <2> QED BY <1>1, <1>2, <1>3, <2>1, OnceAfter
<1>5. ASSUME x9 = 0 PROVE Standing(x4'.status, x5, x8')
  <2>1. Standing(x4.status, x5, x8)
    BY <1>5 DEF InvoicesInv
  <2>2. \A a \in {"strike", "cancel", "issue", "void", "allow"} :
               /\ At(x8', a) => At(x8, a)
               /\ At(x8, a) => At(x8', a) \/ x8[w].at = a
               /\ Ok(x8', a) => Ok(x8, a)
               /\ Ok(x8, a) => Ok(x8', a) \/ (x8[w].at = a /\ x8[w].answer = "ok")
               /\ x8[w].at = a => At(x8, a)
               /\ x8[w].at = a /\ x8[w].answer = "ok" => Ok(x8, a)
               /\ Ok(x8', a) => At(x8', a)
    <3>1. \A a : After(x8, x8', x8[w], Invoices!Idle, a)
      BY <1>1, <1>2, JobsAfter
    <3> QED BY <1>2, <3>1 DEF After
  <2>3. CASE x4'.status = x4.status /\ x8[w].answer # "ok" /\ x8[w].at \in {"void", "allow"}
    BY <2>1, <2>2, <2>3 DEF Standing
  <2>4. CASE x4'.status = "void" /\ x8[w].at \in {"strike", "cancel"}
    BY <2>1, <2>2, <2>4 DEF Standing
  <2>5. CASE x4'.status = "void" /\ x8[w].at = "void" /\ x8[w].answer = "ok"
    BY <2>1, <2>2, <2>5 DEF Standing
  <2>6. CASE x4'.status = "allowance" /\ x8[w].at = "allow" /\ x8[w].answer = "ok"
    BY <2>1, <2>2, <2>6 DEF Standing
  <2>7. CASE x8[w].at = "issue"
    <3>1. ~At(x8', "issue") /\ ~Ok(x8', "issue")
      <4>1. \A v \in Request : x8'[v] = IF v = w THEN Invoices!Idle ELSE x8[v]
        BY <1>1
      <4> QED BY <1>2, <1>3, <2>7, <4>1 DEF IssuedOnce, At, Ok
    <3>2. CASE x4'.status = "issued" /\ x8[w].answer = "ok"
                 /\ \A v \in Request : x8[v].at \notin {"cancel", "strike"}
      <4>1. ~At(x8, "cancel") /\ ~At(x8, "strike")
        BY <3>2 DEF At
      <4>2. x5.allowed = 0 => ~(x5.allowed > 0)
        OBVIOUS
      <4> QED BY <2>1, <2>2, <2>7, <3>1, <3>2, <4>1, <4>2 DEF Standing
    <3>3. CASE x4'.status \in {"pending", "failed"} /\ x8[w].answer # "ok"
      <4>1. ~Ok(x8, "issue")
        BY <1>3, <2>7, <3>3 DEF IssuedOnce, Ok
      <4> QED BY <2>1, <2>2, <2>7, <3>1, <3>3, <4>1 DEF Standing
    <3> QED BY <2>7, <3>2, <3>3
  <2> QED BY <2>3, <2>4, <2>5, <2>6, <2>7
<1>6. x5 \in AuthorityRow /\ x7 \subseteq Invoices!Deferred /\ x9 \in 0..MaxLost
  BY DEF InvoicesInv
<1>7. x9 <= x9' /\ x5.allowed <= x5'.allowed
  <2>1. x9 \in Int /\ x5.allowed \in Int
    BY <1>6, InvoiceNumbers DEF AuthorityRow
  <2> QED BY <2>1
<1>8. Asked(Invoices!Idle, x5.allowed)
  BY <1>2 DEF Asked
<1> QED BY <1>1, <1>2, <1>4, <1>5, <1>6, <1>7, <1>8, InvoicesTurn

\* The authority answers a call, or the answer is lost.
LEMMA InvoicesCalled ==
    ASSUME InvoicesInv, NEW w \in Request, NEW answer \in {"ok", "refused", "error"},
           Invoices!Answer(w, answer), NEW possible, NEW result \in AuthorityRow,
           x8[w].at \in {"issue", "void", "allow"},
           \/ possible /\ x5' = result /\ answer \in {"ok", "error"}
           \/ x5' = x5 /\ answer \in {"error", "refused"},
           x5.allowed <= result.allowed,
           possible /\ x8[w].at = "allow" => x8[w].before + x8[w].amount <= result.allowed,
           possible => \/ /\ x8[w].at = "issue" /\ ~x5.issued /\ result.issued
                          /\ result.voided = x5.voided /\ result.allowed = x5.allowed
                       \/ /\ x8[w].at = "void" /\ x5.issued /\ ~x5.voided /\ x5.allowed = 0
                          /\ result.issued /\ result.voided /\ result.allowed = 0
                       \/ /\ x8[w].at = "allow" /\ x5.issued /\ ~x5.voided /\ result.allowed > 0
                          /\ result.issued /\ ~result.voided,
           x1' = x1, x2' = x2, x3' = x3, x4' = x4, x6' = x6, x7' = x7
    PROVE  InvoicesInv'
<1>1. /\ x4 \in InvoiceRow /\ x5 \in AuthorityRow /\ x8 \in [Request -> InvoiceJob]
      /\ x9 \in 0..MaxLost /\ x4.allowed <= x5.allowed /\ Asked(x8[w], x5.allowed)
      /\ IssuedOnce(x4.status, x8) /\ x2 \in BOOLEAN /\ x7 \subseteq Invoices!Deferred
  BY DEF InvoicesInv
<1>2. PICK new \in InvoiceJob : new = [x8[w] EXCEPT !.answer = answer]
  BY <1>1 DEF InvoiceJob
<1>3. /\ new.at = x8[w].at /\ new.amount = x8[w].amount /\ new.before = x8[w].before
      /\ new.answer = answer /\ x8[w].answer = "none" /\ x8' = [x8 EXCEPT ![w] = new]
  BY <1>1, <1>2 DEF Invoices!Answer, InvoiceJob
<1>4. /\ x9' \in 0..MaxLost /\ x9 <= x9' /\ (answer = "error" => x9' # 0)
  <2>1. x9' = x9 + (IF answer = "error" THEN 1 ELSE 0) /\ x9' <= MaxLost
    BY DEF Invoices!Answer
  <2>2. CASE answer = "error"
    <3>1. x9' = x9 + 1
      BY <2>1, <2>2
    <3> QED BY <1>1, <2>1, <3>1, InvoiceNumbers
  <2>3. CASE answer # "error"
    <3>1. x9' = x9
      BY <1>1, <2>1, <2>3, InvoiceNumbers
    <3> QED BY <1>1, <2>3, <3>1, InvoiceNumbers
  <2> QED BY <2>2, <2>3
<1>5. IssuedOnce(x4.status, x8')
  BY <1>1, <1>3, OnceAfter
<1>6. x5' \in AuthorityRow /\ x5.allowed <= x5'.allowed /\ x4.allowed <= x5'.allowed
  <2>1. x5.allowed \in Int /\ x4.allowed \in Int /\ result.allowed \in Int
    BY <1>1, InvoiceNumbers DEF AuthorityRow, InvoiceRow
  <2>2. CASE x5' = result
    BY <1>1, <2>1, <2>2
  <2>3. CASE x5' = x5
    BY <1>1, <2>1, <2>3
  <2> QED BY <2>2, <2>3
<1>7. Asked(new, x5'.allowed)
  <2>1. /\ x5.allowed \in Int /\ x5'.allowed \in Int /\ x8[w].before \in Int /\ x8[w].amount \in Int
    BY <1>1, <1>6, InvoiceNumbers DEF AuthorityRow, InvoiceJob
  <2>2. x8[w].at = "allow" => x8[w].before <= x5.allowed /\ x8[w].amount >= 1
    BY <1>1 DEF Asked
  <2>3. x8[w].at = "allow" => x8[w].before <= x5'.allowed /\ x8[w].amount >= 1
    BY <1>6, <2>1, <2>2
  <2>4. CASE answer = "ok"
    <3>1. x5' = result /\ possible
      BY <2>4
    <3>2. x8[w].at = "allow" => x8[w].before + x8[w].amount <= x5'.allowed
      BY <3>1
    <3> QED BY <1>3, <2>3, <3>2 DEF Asked
  <2>5. CASE answer # "ok"
    BY <1>3, <2>3, <2>5 DEF Asked
  <2> QED BY <2>4, <2>5
<1>8. ASSUME x9 = 0, x9' = 0 PROVE Standing(x4.status, x5', x8')
  <2>1. Standing(x4.status, x5, x8)
    BY <1>8 DEF InvoicesInv
  <2>2. \A a : /\ At(x8', a) <=> At(x8, a)
               /\ Ok(x8', a) => Ok(x8, a) \/ (x8[w].at = a /\ answer = "ok")
               /\ Ok(x8, a) => Ok(x8', a)
               /\ x8[w].at = a => At(x8, a)
               /\ x8[w].at = a /\ answer = "ok" => Ok(x8', a)
               /\ Ok(x8, a) => At(x8, a)
    <3>1. \A a : After(x8, x8', x8[w], new, a)
      BY <1>1, <1>3, JobsAfter
    <3> QED BY <1>3, <3>1 DEF After
  <2>3. answer # "error"
    BY <1>4, <1>8
  <2>4. CASE answer = "refused"
    <3>1. x5' = x5
      BY <2>4
    <3> QED BY <2>1, <2>2, <2>4, <3>1 DEF Standing
  <2>5. CASE answer = "ok"
    <3>1. possible /\ x5' = result
      BY <2>5
    <3>2. CASE x8[w].at = "issue"
      BY <2>1, <2>2, <2>5, <3>1, <3>2 DEF Standing
    <3>3. CASE x8[w].at = "void"
      <4>1. x5.allowed = 0 /\ x5'.allowed = 0 /\ ~(x5.allowed > 0) /\ ~(x5'.allowed > 0)
        BY <3>1, <3>3
      <4> QED BY <2>1, <2>2, <2>5, <3>1, <3>3, <4>1 DEF Standing
    <3>4. CASE x8[w].at = "allow"
      BY <2>1, <2>2, <2>5, <3>1, <3>4 DEF Standing
    <3> QED BY <3>2, <3>3, <3>4
  <2> QED BY <2>3, <2>4, <2>5
<1> QED BY <1>1, <1>3, <1>4, <1>5, <1>6, <1>7, <1>8, InvoicesTurn

LEMMA InvoicesNext == InvoicesInv /\ Invoices!Next => InvoicesInv'
<1> SUFFICES ASSUME InvoicesInv, Invoices!Next PROVE InvoicesInv'
  OBVIOUS
<1>1. /\ x1 \in BOOLEAN /\ x2 \in BOOLEAN /\ x6 \in BOOLEAN
      /\ x3 \in 0..Amount /\ x9 \in 0..MaxLost
      /\ x4 \in InvoiceRow /\ x5 \in AuthorityRow /\ x7 \subseteq Invoices!Deferred
      /\ x8 \in [Request -> InvoiceJob]
      /\ x4.allowed <= x5.allowed /\ \A w \in Request : Asked(x8[w], x5.allowed)
      /\ IssuedOnce(x4.status, x8)
  BY DEF InvoicesInv
<1>2. <<"issue">> \in Invoices!Deferred /\ <<"void">> \in Invoices!Deferred
  BY DEF Invoices!Deferred
<1>3. x4.allowed \in 0..Amount /\ x5.allowed \in 0..Amount
  BY <1>1 DEF InvoiceRow, AuthorityRow
<1>4. ASSUME NEW status \in Invoices!Status, Invoices!Become(status)
      PROVE  x4' \in InvoiceRow /\ x4'.status = status /\ x4'.allowed = x4.allowed
  BY <1>1, <1>4 DEF Invoices!Become, InvoiceRow
<1>5. CASE Invoices!Place
  <2>1. PICK status \in {"waiting", "pending"} : Invoices!Become(status)
    BY <1>5 DEF Invoices!Place
  <2>2. x4' \in InvoiceRow /\ x4'.status = status /\ x4'.allowed = x4.allowed
    BY <1>4, <2>1 DEF Invoices!Status
  <2>3. x1' = x1 \/ x1' = TRUE
    BY <1>5 DEF Invoices!Place
  <2>4. x1' \in BOOLEAN
    BY <1>1, <2>3
  <2>5. x7' \subseteq Invoices!Deferred
    BY <1>1, <1>2, <1>5 DEF Invoices!Place
  <2>6. x4.status = "none" /\ x2' = x2 /\ x3' = x3 /\ x5' = x5 /\ x6' = x6 /\ x8' = x8 /\ x9' = x9
    BY <1>5 DEF Invoices!Place
  <2> QED BY <1>1, <2>2, <2>4, <2>5, <2>6, InvoicesQuiet
<1>6. CASE Invoices!PaymentDone
  <2>1. x4' \in InvoiceRow /\ x4'.status = "pending" /\ x4'.allowed = x4.allowed
    BY <1>4, <1>6 DEF Invoices!Status, Invoices!PaymentDone
  <2>2. x1' \in BOOLEAN
    BY <1>6 DEF Invoices!PaymentDone
  <2>3. x7' \subseteq Invoices!Deferred
    BY <1>1, <1>2, <1>6 DEF Invoices!PaymentDone
  <2>4. x4.status = "waiting" /\ x2' = x2 /\ x3' = x3 /\ x5' = x5 /\ x6' = x6 /\ x8' = x8 /\ x9' = x9
    BY <1>6 DEF Invoices!PaymentDone
  <2> QED BY <1>1, <2>1, <2>2, <2>3, <2>4, InvoicesQuiet
<1>7. CASE Invoices!Retry
  <2>1. x4.status = "failed" /\ x4' = [x4 EXCEPT !.status = "pending", !.attempts = 0]
    BY <1>7 DEF Invoices!Retry
  <2>2. x4' \in InvoiceRow /\ x4'.status = "pending" /\ x4'.allowed = x4.allowed
    BY <1>1, <2>1, InvoiceNumbers DEF InvoiceRow, Invoices!Status
  <2>3. /\ x1' = x1 /\ x2' = x2 /\ x3' = x3 /\ x5' = x5 /\ x6' = x6 /\ x7' = x7 /\ x8' = x8
        /\ x9' = x9
    BY <1>7 DEF Invoices!Retry
  <2> QED BY <1>1, <2>1, <2>2, <2>3, InvoicesQuiet
<1>8. CASE Invoices!TermEnds
  <2>1. x6' \in BOOLEAN
    BY <1>8 DEF Invoices!TermEnds
  <2>2. /\ x1' = x1 /\ x2' = x2 /\ x3' = x3 /\ x4' = x4 /\ x5' = x5 /\ x7' = x7 /\ x8' = x8
        /\ x9' = x9
    BY <1>8 DEF Invoices!TermEnds
  <2> QED BY <1>1, <2>1, <2>2, InvoicesQuiet
<1>9. ASSUME NEW a \in 1..Amount, Invoices!PartialRefund(a) PROVE InvoicesInv'
  <2>1. x3' \in 0..Amount
    <3>1. x3 \in Nat /\ a \in Nat /\ x3' = x3 + a /\ x3 + a <= Amount
      BY <1>1, <1>9, InvoiceNumbers DEF Invoices!PartialRefund
    <3> QED BY <3>1, InvoiceNumbers
  <2>2. <<"allow", a>> \in Invoices!Deferred
    BY DEF Invoices!Deferred
  <2>3. x7' \subseteq Invoices!Deferred
    BY <1>1, <1>9, <2>2 DEF Invoices!PartialRefund
  <2>4. x1' = x1 /\ x2' = x2 /\ x4' = x4 /\ x5' = x5 /\ x6' = x6 /\ x8' = x8 /\ x9' = x9
    BY <1>9 DEF Invoices!PartialRefund
  <2> QED BY <1>1, <2>1, <2>3, <2>4, InvoicesQuiet
<1>10. ASSUME NEW w \in Request, Invoices!StartCancel(w) PROVE InvoicesInv'
  <2>1. x1' = x1 /\ x3' = x3 /\ x4' = x4 /\ x5' = x5 /\ x6' = x6 /\ x9' = x9
    BY <1>10 DEF Invoices!StartCancel
  <2>2. CASE x4.status \in {"waiting", "pending"}
    <3>1. PICK new \in InvoiceJob : new = [Invoices!Idle EXCEPT !.at = "cancel"]
      BY InvoiceNumbers DEF InvoiceJob
    <3>2. new.at = "cancel" /\ new.answer = "none"
      BY <3>1 DEF Invoices!Idle
    <3>3. Invoices!Begin(w, new) /\ x2' = x2 /\ x7' = x7
      BY <1>10, <2>2, <3>1 DEF Invoices!StartCancel
    <3>4. Asked(new, x5.allowed)
      BY <3>2 DEF Asked
    <3> QED BY <1>1, <2>1, <2>2, <3>2, <3>3, <3>4, InvoicesBegin
  <2>3. CASE x4.status \notin {"waiting", "pending"}
    <3>1. x2' = TRUE /\ x8' = x8 /\ x7' \subseteq x7 \cup {<<"void">>}
      BY <1>10, <2>3 DEF Invoices!StartCancel
    <3>2. x2' \in BOOLEAN
      BY <3>1
    <3>3. x7' \subseteq Invoices!Deferred
      BY <1>1, <1>2, <3>1
    <3> QED BY <1>1, <2>1, <3>1, <3>2, <3>3, InvoicesQuiet
  <2> QED BY <2>2, <2>3
<1>11. ASSUME NEW w \in Request, Invoices!CommitCancel(w) PROVE InvoicesInv'
  <2>1. x4' \in InvoiceRow /\ x4'.status = "void" /\ x4'.allowed = x4.allowed
    BY <1>4, <1>11 DEF Invoices!Status, Invoices!CommitCancel
  <2>2. x2' \in BOOLEAN
    BY <1>11 DEF Invoices!CommitCancel
  <2>3. /\ x8[w].at = "cancel" /\ Invoices!Done(w) /\ x1' = x1 /\ x3' = x3 /\ x5' = x5 /\ x6' = x6
        /\ x7' = x7 /\ x9' = x9
    BY <1>11 DEF Invoices!CommitCancel
  <2> QED BY <1>1, <2>1, <2>2, <2>3, InvoicesDone
<1>12. ASSUME NEW w \in Request, Invoices!Claim(w) PROVE InvoicesInv'
  <2>1. PICK new \in InvoiceJob : new = [Invoices!Idle EXCEPT !.at = "issue"]
    BY InvoiceNumbers DEF InvoiceJob
  <2>2. new.at = "issue" /\ new.answer = "none"
    BY <2>1 DEF Invoices!Idle
  <2>3. /\ x4.status = "pending" /\ x8[w].at = "idle" /\ x8' = [x8 EXCEPT ![w] = new]
        /\ x4.attempts < MaxAttempts
        /\ x4' = [x4 EXCEPT !.status = "issuing", !.attempts = @ + 1] /\ x7' \subseteq x7
        /\ x1' = x1 /\ x2' = x2 /\ x3' = x3 /\ x5' = x5 /\ x6' = x6 /\ x9' = x9
    BY <1>12, <2>1, InvoiceNumbers DEF Invoices!Claim, Invoices!Claims, Invoices!Begin
  <2>4. x4' \in InvoiceRow /\ x4'.status = "issuing" /\ x4'.allowed = x4.allowed
    <3>1. PICK attempts \in 0..MaxAttempts : attempts = x4.attempts + 1
      <4>1. x4.attempts \in 0..MaxAttempts
        BY <1>1 DEF InvoiceRow
      <4>2. x4.attempts + 1 \in 0..MaxAttempts
        BY <2>3, <4>1, InvoiceNumbers
      <4> QED BY <4>2
    <3>2. x4' = [x4 EXCEPT !.status = "issuing", !.attempts = attempts]
      BY <1>1, <2>3, <3>1 DEF InvoiceRow
    <3> QED BY <1>1, <3>2 DEF InvoiceRow, Invoices!Status
  <2>5. \A v \in Request : x8[v].at # "issue"
    BY <1>1, <2>3 DEF IssuedOnce
  <2>6. \A v \in Request : x8'[v] = IF v = w THEN new ELSE x8[v]
    BY <1>1, <2>3
  <2>7. IssuedOnce(x4'.status, x8')
    BY <2>4, <2>5, <2>6 DEF IssuedOnce
  <2>8. ASSUME x9 = 0 PROVE Standing(x4'.status, x5, x8')
    <3>1. Standing(x4.status, x5, x8)
      BY <2>8 DEF InvoicesInv
    <3>2. ~Ok(x8, "issue")
      BY <2>5 DEF Ok
    <3>3. ~x5.issued
      BY <2>3, <3>1, <3>2 DEF Standing
    <3>4. \A v \in Request : x8[v].at \notin {"void", "allow"}
      BY <3>1, <3>3 DEF Standing, At
    <3>5. ~At(x8', "void") /\ ~At(x8', "allow") /\ ~Ok(x8', "issue")
      BY <2>2, <2>5, <2>6, <3>4 DEF At, Ok
    <3> QED BY <2>4, <3>1, <3>3, <3>5 DEF Standing
  <2>9. x9 <= x9' /\ x5.allowed <= x5'.allowed
    <3>1. x9 \in Int /\ x5.allowed \in Int
      BY <1>1, <1>3, InvoiceNumbers
    <3> QED BY <2>3, <3>1
  <2>10. Asked(new, x5.allowed)
    BY <2>2 DEF Asked
  <2>11. x4'.allowed <= x5'.allowed /\ x7' \subseteq Invoices!Deferred
    BY <1>1, <2>3, <2>4
  <2> QED BY <1>1, <2>3, <2>4, <2>7, <2>8, <2>9, <2>10, <2>11, InvoicesTurn
<1>13. ASSUME NEW w \in Request, Invoices!CallIssue(w) PROVE InvoicesInv'
  <2>1. PICK result \in AuthorityRow : result = [x5 EXCEPT !.issued = TRUE]
    BY <1>1 DEF AuthorityRow
  <2>2. result.issued /\ result.voided = x5.voided /\ result.allowed = x5.allowed
    BY <1>1, <2>1 DEF AuthorityRow
  <2>3. /\ x8[w].at = "issue"
        /\ \/ Invoices!Answer(w, "ok") /\ ~x5.issued /\ x5' = result
           \/ Invoices!Answer(w, "error") /\ ~x5.issued /\ x5' = result
           \/ Invoices!Answer(w, "error") /\ x5' = x5
           \/ Invoices!Answer(w, "refused") /\ x5' = x5
        /\ x1' = x1 /\ x2' = x2 /\ x3' = x3 /\ x4' = x4 /\ x6' = x6 /\ x7' = x7
    BY <1>13, <2>1 DEF Invoices!CallIssue, Invoices!Call
  <2>4. x5.allowed <= result.allowed
    BY <1>3, <2>2, InvoiceNumbers
  <2>5. PICK possible \in BOOLEAN : possible = ~x5.issued
    OBVIOUS
  <2>6. PICK answer \in {"ok", "refused", "error"} :
            /\ Invoices!Answer(w, answer)
            /\ \/ possible /\ x5' = result /\ answer \in {"ok", "error"}
               \/ x5' = x5 /\ answer \in {"error", "refused"}
    BY <2>3, <2>5
  <2> QED BY <2>2, <2>3, <2>4, <2>5, <2>6, InvoicesCalled
<1>14. ASSUME NEW w \in Request, Invoices!CallVoid(w) PROVE InvoicesInv'
  <2>1. PICK result \in AuthorityRow : result = [x5 EXCEPT !.voided = TRUE]
    BY <1>1 DEF AuthorityRow
  <2>2. result.issued = x5.issued /\ result.voided /\ result.allowed = x5.allowed
    BY <1>1, <2>1 DEF AuthorityRow
  <2>3. PICK possible \in BOOLEAN : possible = (x5.issued /\ ~x5.voided /\ x5.allowed = 0)
    OBVIOUS
  <2>4. /\ x8[w].at = "void"
        /\ \/ Invoices!Answer(w, "ok") /\ possible /\ x5' = result
           \/ Invoices!Answer(w, "error") /\ possible /\ x5' = result
           \/ Invoices!Answer(w, "error") /\ x5' = x5
           \/ Invoices!Answer(w, "refused") /\ x5' = x5
        /\ x1' = x1 /\ x2' = x2 /\ x3' = x3 /\ x4' = x4 /\ x6' = x6 /\ x7' = x7
    BY <1>14, <2>1, <2>3 DEF Invoices!CallVoid, Invoices!Call
  <2>5. x5.allowed <= result.allowed
    BY <1>3, <2>2, InvoiceNumbers
  <2>6. PICK answer \in {"ok", "refused", "error"} :
            /\ Invoices!Answer(w, answer)
            /\ \/ possible /\ x5' = result /\ answer \in {"ok", "error"}
               \/ x5' = x5 /\ answer \in {"error", "refused"}
    BY <2>4
  <2> QED BY <2>2, <2>3, <2>4, <2>5, <2>6, InvoicesCalled
<1>15. ASSUME NEW w \in Request, Invoices!CallAllowance(w) PROVE InvoicesInv'
  <2>1. x8[w].amount \in 0..Amount /\ x8[w].before \in 0..Amount
    BY <1>1 DEF InvoiceJob
  <2>2. PICK possible \in BOOLEAN :
            possible = (x5.issued /\ ~x5.voided /\ x5.allowed + x8[w].amount <= Amount)
    OBVIOUS
  <2>3. /\ x8[w].at = "allow"
        /\ \/ /\ Invoices!Answer(w, "ok") /\ possible
              /\ x5' = [x5 EXCEPT !.allowed = @ + x8[w].amount]
           \/ /\ Invoices!Answer(w, "error") /\ possible
              /\ x5' = [x5 EXCEPT !.allowed = @ + x8[w].amount]
           \/ Invoices!Answer(w, "error") /\ x5' = x5
           \/ Invoices!Answer(w, "refused") /\ x5' = x5
        /\ x1' = x1 /\ x2' = x2 /\ x3' = x3 /\ x4' = x4 /\ x6' = x6 /\ x7' = x7
    BY <1>15, <2>2 DEF Invoices!CallAllowance, Invoices!Call
  <2>4. x8[w].before <= x5.allowed /\ x8[w].amount >= 1
    BY <1>1, <2>3 DEF Asked
  <2>5. CASE x5.allowed + x8[w].amount <= Amount
    <3>1. PICK allowed \in 0..Amount : allowed = x5.allowed + x8[w].amount
      <4>1. x5.allowed + x8[w].amount \in 0..Amount
        BY <1>3, <2>1, <2>5, InvoiceNumbers
      <4> QED BY <4>1
    <3>2. x5.allowed <= allowed /\ x8[w].before + x8[w].amount <= allowed /\ allowed > 0
      BY <1>3, <2>1, <2>4, <3>1, InvoiceNumbers
    <3>3. PICK result \in AuthorityRow : result = [x5 EXCEPT !.allowed = allowed]
      BY <1>1 DEF AuthorityRow
    <3>4. result.issued = x5.issued /\ result.voided = x5.voided /\ result.allowed = allowed
      BY <1>1, <3>3 DEF AuthorityRow
    <3>5. [x5 EXCEPT !.allowed = @ + x8[w].amount] = result
      BY <1>1, <3>1, <3>3 DEF AuthorityRow
    <3>6. PICK answer \in {"ok", "refused", "error"} :
              /\ Invoices!Answer(w, answer)
              /\ \/ possible /\ x5' = result /\ answer \in {"ok", "error"}
                 \/ x5' = x5 /\ answer \in {"error", "refused"}
      BY <2>3, <3>5
    <3>7. x5.allowed <= result.allowed /\ x8[w].before + x8[w].amount <= result.allowed
      BY <3>2, <3>4
    <3>8. possible => /\ x8[w].at = "allow" /\ x5.issued /\ ~x5.voided /\ result.allowed > 0
                      /\ result.issued /\ ~result.voided
      BY <2>2, <2>3, <3>2, <3>4
    <3> QED BY <2>3, <3>6, <3>7, <3>8, InvoicesCalled
  <2>6. CASE ~(x5.allowed + x8[w].amount <= Amount)
    <3>1. possible = FALSE
      BY <2>2, <2>6
    <3>2. PICK answer \in {"ok", "refused", "error"} :
              Invoices!Answer(w, answer) /\ x5' = x5 /\ answer \in {"error", "refused"}
      BY <2>3, <3>1
    <3>3. x5.allowed <= x5.allowed
      BY <1>3, InvoiceNumbers
    <3> QED BY <1>1, <2>3, <3>1, <3>2, <3>3, InvoicesCalled
  <2> QED BY <2>5, <2>6
<1>16. ASSUME NEW w \in Request, Invoices!AnswerIssue(w) PROVE InvoicesInv'
  <2>1. PICK status \in {"issued", "failed", "pending"} :
            /\ Invoices!Become(status)
            /\ x8[w].answer = "ok" => status = "issued"
            /\ x8[w].answer # "ok" => status # "issued"
    <3>1. PICK s : s = CASE x8[w].answer = "ok" -> "issued"
                         [] x8[w].answer = "refused" -> "failed"
                         [] OTHER -> IF x4.attempts >= MaxAttempts THEN "failed" ELSE "pending"
      OBVIOUS
    <3>2. Invoices!Become(s)
      BY <1>16, <3>1 DEF Invoices!AnswerIssue
    <3>3. CASE x8[w].answer = "ok"
      BY <3>1, <3>2, <3>3
    <3>4. CASE x8[w].answer = "refused"
      BY <3>1, <3>2, <3>4
    <3>5. CASE x8[w].answer \notin {"ok", "refused"}
      BY <3>1, <3>2, <3>5
    <3> QED BY <3>3, <3>4, <3>5
  <2>2. x4' \in InvoiceRow /\ x4'.status = status /\ x4'.allowed = x4.allowed
    BY <1>4, <2>1 DEF Invoices!Status
  <2>3. /\ x8[w].at = "issue" /\ Invoices!Done(w)
        /\ \A v \in Request : x8[v].at \notin {"cancel", "strike"}
        /\ x1' = x1 /\ x2' = x2 /\ x3' = x3 /\ x5' = x5 /\ x6' = x6 /\ x7' = x7 /\ x9' = x9
    BY <1>16 DEF Invoices!AnswerIssue
  <2>4. x4'.allowed <= x5.allowed
    BY <1>1, <2>2
  <2> QED BY <1>1, <2>1, <2>2, <2>3, <2>4, InvoicesDone
<1>17. ASSUME NEW w \in Request, Invoices!Strike(w) PROVE InvoicesInv'
  <2>1. x4' \in InvoiceRow /\ x4'.status = "void" /\ x4'.allowed = x4.allowed
    BY <1>4, <1>17 DEF Invoices!Status, Invoices!Strike
  <2>2. /\ x8[w].at = "strike" /\ Invoices!Done(w) /\ x1' = x1 /\ x2' = x2 /\ x3' = x3 /\ x5' = x5
        /\ x6' = x6 /\ x7' = x7 /\ x9' = x9
    BY <1>17 DEF Invoices!Strike
  <2>3. x4'.allowed <= x5.allowed
    BY <1>1, <2>1
  <2> QED BY <1>1, <2>1, <2>2, <2>3, InvoicesDone
<1>18. ASSUME NEW w \in Request, Invoices!AnswerVoid(w) PROVE InvoicesInv'
  <2>1. /\ x8[w].at = "void" /\ Invoices!Done(w) /\ x1' = x1 /\ x2' = x2 /\ x3' = x3 /\ x5' = x5
        /\ x6' = x6 /\ x7' = x7 /\ x9' = x9
    BY <1>18 DEF Invoices!AnswerVoid
  <2>2. CASE x8[w].answer = "ok"
    <3>1. x4' \in InvoiceRow /\ x4'.status = "void" /\ x4'.allowed = x4.allowed
      BY <1>4, <1>18, <2>2 DEF Invoices!Status, Invoices!AnswerVoid
    <3>2. x4'.allowed <= x5.allowed
      BY <1>1, <3>1
    <3> QED BY <1>1, <2>1, <2>2, <3>1, <3>2, InvoicesDone
  <2>3. CASE x8[w].answer # "ok"
    <3>1. x4' = x4
      BY <1>18, <2>3 DEF Invoices!AnswerVoid
    <3> QED BY <1>1, <2>1, <2>3, <3>1, InvoicesDone
  <2> QED BY <2>2, <2>3
<1>19. ASSUME NEW w \in Request, Invoices!AnswerAllowance(w) PROVE InvoicesInv'
  <2>1. /\ x8[w].at = "allow" /\ Invoices!Done(w) /\ x1' = x1 /\ x2' = x2 /\ x3' = x3 /\ x5' = x5
        /\ x6' = x6 /\ x7' = x7 /\ x9' = x9
    BY <1>19 DEF Invoices!AnswerAllowance
  <2>2. CASE x8[w].answer = "ok"
    <3>1. x4' = [x4 EXCEPT !.status = "allowance", !.allowed = x8[w].before + x8[w].amount]
      BY <1>19, <2>2 DEF Invoices!AnswerAllowance
    <3>2. x8[w].before + x8[w].amount <= x5.allowed
      BY <1>1, <2>1, <2>2 DEF Asked
    <3>3. x8[w].before \in Nat /\ x8[w].amount \in Nat
      BY <1>1, InvoiceNumbers DEF InvoiceJob
    <3>4. PICK allowed \in 0..Amount : allowed = x8[w].before + x8[w].amount /\ allowed <= x5.allowed
      <4>1. x8[w].before + x8[w].amount \in 0..Amount
        BY <1>3, <3>2, <3>3, InvoiceNumbers
      <4> QED BY <3>2, <4>1
    <3>5. x4' = [x4 EXCEPT !.status = "allowance", !.allowed = allowed]
      BY <3>1, <3>4
    <3>6. x4' \in InvoiceRow /\ x4'.status = "allowance" /\ x4'.allowed = allowed
      BY <1>1, <3>5 DEF InvoiceRow, Invoices!Status
    <3> QED BY <1>1, <2>1, <2>2, <3>4, <3>6, InvoicesDone
  <2>3. CASE x8[w].answer # "ok"
    <3>1. x4' = x4
      BY <1>19, <2>3 DEF Invoices!AnswerAllowance
    <3> QED BY <1>1, <2>1, <2>3, <3>1, InvoicesDone
  <2> QED BY <2>2, <2>3
<1>20. ASSUME NEW w \in Request, Invoices!VoidOrAllowance(w) PROVE InvoicesInv'
  <2>1. /\ x7' \subseteq Invoices!Deferred
        /\ x1' = x1 /\ x2' = x2 /\ x3' = x3 /\ x4' = x4 /\ x5' = x5 /\ x6' = x6 /\ x9' = x9
    BY <1>1, <1>20 DEF Invoices!VoidOrAllowance
  <2>2. CASE /\ x4.status \in {"pending", "waiting", "failed"}
             /\ Invoices!Begin(w, [Invoices!Idle EXCEPT !.at = "strike"])
    <3>1. PICK new \in InvoiceJob : new = [Invoices!Idle EXCEPT !.at = "strike"]
      BY InvoiceNumbers DEF InvoiceJob
    <3>2. new.at = "strike" /\ new.answer = "none" /\ Asked(new, x5.allowed)
      BY <3>1 DEF Invoices!Idle, Asked
    <3> QED BY <2>1, <2>2, <3>1, <3>2, InvoicesBegin
  <2>3. CASE /\ x4.status = "issued"
             /\ Invoices!Begin(w, [Invoices!Idle EXCEPT !.at = "void"])
    <3>1. PICK new \in InvoiceJob : new = [Invoices!Idle EXCEPT !.at = "void"]
      BY InvoiceNumbers DEF InvoiceJob
    <3>2. new.at = "void" /\ new.answer = "none" /\ Asked(new, x5.allowed)
      BY <3>1 DEF Invoices!Idle, Asked
    <3> QED BY <2>1, <2>3, <3>1, <3>2, InvoicesBegin
  <2>4. CASE /\ x4.status \in {"issued", "allowance"} /\ x4.allowed < Amount
             /\ Invoices!Begin(w, [Invoices!Idle EXCEPT !.at = "allow", !.amount = Amount - x4.allowed,
                                                        !.before = x4.allowed])
    <3>1. PICK amount \in 0..Amount : amount = Amount - x4.allowed /\ amount >= 1
      <4>1. Amount - x4.allowed \in 0..Amount /\ Amount - x4.allowed >= 1
        BY <1>3, <2>4, InvoiceNumbers
      <4> QED BY <4>1
    <3>2. PICK new \in InvoiceJob :
              new = [Invoices!Idle EXCEPT !.at = "allow", !.amount = amount, !.before = x4.allowed]
      BY <1>3, InvoiceNumbers DEF InvoiceJob
    <3>3. new.at = "allow" /\ new.answer = "none" /\ new.amount = amount /\ new.before = x4.allowed
      BY <3>2 DEF Invoices!Idle
    <3>4. Asked(new, x5.allowed)
      BY <1>1, <3>1, <3>3 DEF Asked
    <3> QED BY <2>1, <2>4, <3>1, <3>2, <3>3, <3>4, InvoicesBegin
  <2> QED BY <1>20, <2>2, <2>3, <2>4 DEF Invoices!VoidOrAllowance
<1>21. ASSUME NEW w \in Request, NEW a \in 1..Amount, Invoices!StartAllowance(w, a) PROVE InvoicesInv'
  <2>1. /\ x7' \subseteq Invoices!Deferred
        /\ x1' = x1 /\ x2' = x2 /\ x3' = x3 /\ x4' = x4 /\ x5' = x5 /\ x6' = x6 /\ x9' = x9
    BY <1>1, <1>21 DEF Invoices!StartAllowance
  <2>2. CASE x4.status \in {"issued", "allowance"}
    <3>1. a \in 0..Amount /\ a >= 1
      BY InvoiceNumbers
    <3>2. PICK new \in InvoiceJob :
              new = [Invoices!Idle EXCEPT !.at = "allow", !.amount = a, !.before = x4.allowed]
      BY <1>3, <3>1, InvoiceNumbers DEF InvoiceJob
    <3>3. new.at = "allow" /\ new.answer = "none" /\ new.amount = a /\ new.before = x4.allowed
      BY <3>2 DEF Invoices!Idle
    <3>4. Asked(new, x5.allowed)
      BY <1>1, <3>1, <3>3 DEF Asked
    <3>5. Invoices!Begin(w, new)
      BY <1>21, <2>2, <3>2 DEF Invoices!StartAllowance
    <3> QED BY <2>1, <2>2, <3>3, <3>4, <3>5, InvoicesBegin
  <2>3. CASE x4.status \notin {"issued", "allowance"}
    <3>1. x8' = x8
      BY <1>21, <2>3 DEF Invoices!StartAllowance
    <3> QED BY <1>1, <2>1, <3>1, InvoicesQuiet
  <2> QED BY <2>2, <2>3
<1>22. ASSUME NEW w \in Request, Invoices!Die(w) PROVE InvoicesInv'
  <2>1. /\ x9 < MaxLost /\ x9' = x9 + 1 /\ x8' = [x8 EXCEPT ![w] = Invoices!Idle] /\ x7' = {}
        /\ x1' = x1 /\ x2' = x2 /\ x3' = x3 /\ x4' = x4 /\ x5' = x5 /\ x6' = x6
    BY <1>22 DEF Invoices!Die, Invoices!Done
  <2>2. x9' \in 0..MaxLost /\ x9' # 0 /\ x9 <= x9' /\ x5.allowed <= x5'.allowed
    BY <1>1, <1>3, <2>1, InvoiceNumbers
  <2>3. Asked(Invoices!Idle, x5.allowed)
    BY InvoiceNumbers DEF Asked
  <2>4. IssuedOnce(x4.status, x8')
    BY <1>1, <2>1, InvoiceNumbers, OnceAfter
  <2> QED BY <1>1, <2>1, <2>2, <2>3, <2>4, InvoiceNumbers, InvoicesTurn
<1> QED BY <1>5, <1>6, <1>7, <1>8, <1>9, <1>10, <1>11, <1>12, <1>13, <1>14, <1>15, <1>16, <1>17, <1>18,
           <1>19, <1>20, <1>21, <1>22 DEF Invoices!Next

LEMMA InvoicesHolds == InvoicesInv => Invoices!TypeOK /\ Invoices!OneCallAtATime /\ Invoices!StatusTrue
<1> SUFFICES ASSUME InvoicesInv
             PROVE  Invoices!TypeOK /\ Invoices!OneCallAtATime /\ Invoices!StatusTrue
  OBVIOUS
<1>1. Invoices!TypeOK
  BY DEF InvoicesInv, Invoices!TypeOK, InvoiceRow, AuthorityRow, InvoiceJob
<1>2. Invoices!OneCallAtATime
  BY DEF InvoicesInv, IssuedOnce, Invoices!OneCallAtATime
<1>3. ASSUME x9 = 0, \A w \in Request : x8[w] = Invoices!Idle
      PROVE  /\ x4.status = "issued" <=> x5.issued /\ ~x5.voided /\ x5.allowed = 0
             /\ x4.status = "allowance" <=> x5.issued /\ ~x5.voided /\ x5.allowed > 0
  <2>1. Standing(x4.status, x5, x8)
    BY <1>3 DEF InvoicesInv
  <2>2. ~Ok(x8, "issue") /\ ~Ok(x8, "void") /\ ~Ok(x8, "allow")
    BY <1>3, InvoiceNumbers DEF Ok
  <2>3. x5.allowed = 0 <=> ~(x5.allowed > 0)
    BY InvoiceNumbers DEF InvoicesInv, AuthorityRow
  <2>4. x5.issued \in BOOLEAN /\ x5.voided \in BOOLEAN
    BY DEF InvoicesInv, AuthorityRow
  <2>5. CASE x5.issued
    BY <2>1, <2>2, <2>3, <2>5 DEF Standing
  <2>6. CASE ~x5.issued
    BY <2>1, <2>2, <2>6 DEF Standing
  <2> QED BY <2>5, <2>6
<1>4. Invoices!StatusTrue
  BY <1>3 DEF Invoices!StatusTrue
<1> QED BY <1>1, <1>2, <1>4

-----------------------------------------------------------------------------
\* All of them.

BooksInv ==
    /\ part = "drawer" => DrawerInv
    /\ part = "larder" => LarderInv
    /\ part = "invoices" => InvoicesInv
    /\ part = "files" => FilesInv
    /\ part = "back" => BackInv
    /\ part = "editing" => EditingInv

LEMMA BooksInit == Init => BooksInv
<1> SUFFICES ASSUME Init PROVE BooksInv
  OBVIOUS
<1>1. /\ part = "drawer" => Drawer!Init
      /\ part = "larder" => Larder!Init
      /\ part = "invoices" => Invoices!Init
      /\ part = "files" => Files!Init
      /\ part = "back" => Back!Init
      /\ part = "editing" => Editing!Init
  BY DEF Init
<1> QED BY <1>1, DrawerInit, LarderInit, InvoicesInit, FilesInit, BackInit, EditingInit DEF BooksInv

LEMMA BooksNext == BooksInv /\ Next => BooksInv'
<1> SUFFICES ASSUME BooksInv, Next PROVE BooksInv'
  OBVIOUS
<1>1. /\ part' = part
      /\ part = "drawer" => Drawer!Next
      /\ part = "larder" => Larder!Next
      /\ part = "invoices" => Invoices!Next
      /\ part = "files" => Files!Next
      /\ part = "back" => Back!Next
      /\ part = "editing" => Editing!Next
  BY DEF Next
<1> QED BY <1>1, DrawerNext, LarderNext, InvoicesNext, FilesNext, BackNext, EditingNext DEF BooksInv

LEMMA BooksStays == BooksInv /\ UNCHANGED all => BooksInv'
<1> SUFFICES ASSUME BooksInv, UNCHANGED all PROVE BooksInv'
  OBVIOUS
<1>1. /\ part' = part /\ x1' = x1 /\ x2' = x2 /\ x3' = x3 /\ x4' = x4 /\ x5' = x5 /\ x6' = x6
      /\ x7' = x7 /\ x8' = x8 /\ x9' = x9 /\ x10' = x10 /\ x11' = x11
  BY DEF all
<1>2. DrawerInv => DrawerInv'
  BY <1>1 DEF DrawerInv, Drawer!OneShiftOpen, Drawer!SalesReported, Drawer!ClosedWith,
              Drawer!OpenShifts, Drawer!RecordsOf
<1>3. LarderInv => LarderInv'
  BY <1>1 DEF LarderInv
<1>4. InvoicesInv => InvoicesInv'
  BY <1>1 DEF InvoicesInv
<1>5. FilesInv => FilesInv'
  BY <1>1 DEF FilesInv, Files!Idle
<1>6. BackInv => BackInv'
  BY <1>1 DEF BackInv, Back!TypeOK, Back!CanGoBack
<1>7. EditingInv => EditingInv'
  BY <1>1 DEF EditingInv, Editing!TypeOK, Editing!StockCounted, Editing!FlagHasReason, Editing!Row,
              Editing!Rows
<1> QED BY <1>1, <1>2, <1>3, <1>4, <1>5, <1>6, <1>7 DEF BooksInv

LEMMA BooksAlways == BooksInv /\ [Next]_all => BooksInv'
  BY BooksNext, BooksStays

\* However tills, requests and processes follow each other, and wherever one of them dies, one
\* drawer shift is open and a closed one has reported its sales, an ingredient's stock is what
\* its movements say, the invoice's row is what the authority has, archiving loses no order and
\* nothing its member spent, a restore can be taken back, and a dish is sold out for a reason
\* (shift_service, inventory_service, purchasing_service, einvoice_ecpay, archive_service,
\* backup_service, menu_service).
THEOREM BooksBalanceHolds == Spec => []BooksBalance
<1>1. BooksInv => BooksBalance
  BY DrawerHolds, LarderHolds, InvoicesHolds, FilesHolds DEF BooksInv, BooksBalance, BackInv, EditingInv
<1> QED BY BooksInit, BooksAlways, <1>1, PTL DEF Spec

=============================================================================
