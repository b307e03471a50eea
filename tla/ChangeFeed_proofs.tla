-------------------------- MODULE ChangeFeed_proofs --------------------------
(***************************************************************************)
(* The safety properties of ChangeFeed for every number of rows, tables    *)
(* and writers, every page size and every set of references.               *)
(***************************************************************************)
EXTENDS ChangeFeed, FiniteSetTheorems, WellFoundedInduction, TLAPS

-----------------------------------------------------------------------------
\* A set of natural numbers that is not empty has a least element.
LEMMA HasLeast ==
    ASSUME NEW S \in SUBSET Nat, S # {}
    PROVE  \E x \in S : \A y \in S : x <= y
<1>1. PICK x \in S : \A y \in S : <<y, x>> \notin OpToRel(<, Nat)
  BY WFMin, NatLessThanWellFounded, Zenon
<1>2. \A y \in S : x <= y
  <2>1. SUFFICES ASSUME NEW y \in S, y < x PROVE FALSE
    BY SMT
  <2>2. <<y, x>> \in OpToRel(<, Nat)
    BY <2>1, SMT DEF OpToRel
  <2>3. QED
    BY <2>2, <1>1
<1>3. QED
  BY <1>2

\* A set of rows that is not empty has a last one, and Max is that row.
LEMMA MaxOfRows ==
    ASSUME NEW S \in SUBSET Row, S # {}
    PROVE  Max(S) \in S /\ \A y \in S : Max(S) >= y
<1>. DEFINE T == {Rows - x : x \in S}
<1>1. Rows \in Nat /\ S \subseteq 1..Rows
  BY SizeAssumption DEF Row
<1>2. T \in SUBSET Nat /\ T # {}
  <2>1. \A x \in S : Rows - x \in Nat
    BY <1>1, SMT
  <2>2. QED
    BY <2>1, Zenon
<1>3. PICK m \in T : \A y \in T : m <= y
  BY <1>2, HasLeast, Zenon
<1>4. PICK x \in S : m = Rows - x
  BY <1>3, Zenon
<1>5. \A y \in S : x >= y
  <2>1. SUFFICES ASSUME NEW y \in S PROVE x >= y
    OBVIOUS
  <2>2. Rows - y \in T
    BY Zenon
  <2>3. m <= Rows - y
    BY <2>2, <1>3, Zenon
  <2>4. x \in Int /\ y \in Int
    BY <1>1, SMT
  <2>5. QED
    BY <2>3, <2>4, <1>4, <1>1, SMT
<1>6. QED
  BY <1>5, Zenon DEF Max

\* Rows are finitely many.
LEMMA RowsFinite ==
    ASSUME NEW S \in SUBSET Row
    PROVE  IsFiniteSet(S) /\ Cardinality(S) \in Nat
<1>1. IsFiniteSet(Row)
  BY FS_Interval, SizeAssumption, SMT DEF Row
<1>2. IsFiniteSet(S)
  BY <1>1, FS_Subset, Zenon
<1>3. QED
  BY <1>2, FS_CardinalityType, Zenon

\* When there are fewer rows than are asked for, the first rows are all of them.
LEMMA FirstsAreAll ==
    ASSUME NEW S \in SUBSET Row, NEW n \in Nat, Cardinality(S) < n
    PROVE  Firsts(S, n) = S
<1>1. SUFFICES ASSUME NEW r \in S PROVE Cardinality({q \in S : q < r}) < n
  BY Zenon DEF Firsts
<1>. DEFINE T == {q \in S : q < r}
<1>2. T \in SUBSET S
  BY Zenon
<1>3. IsFiniteSet(S) /\ Cardinality(S) \in Nat /\ Cardinality(T) \in Nat
  BY <1>2, RowsFinite, Zenon
<1>4. Cardinality(T) <= Cardinality(S)
  BY <1>2, <1>3, FS_Subset, Zenon
<1>5. Cardinality(T) < n
  <2>. HIDE DEF T
  <2>1. QED
    BY <1>3, <1>4, SMT
<1>6. QED
  BY <1>5

\* The first rows come before all the others.
LEMMA FirstsComeFirst ==
    ASSUME NEW S \in SUBSET Row, NEW n \in Nat,
           NEW r \in Firsts(S, n), NEW q \in S, q <= r
    PROVE  q \in Firsts(S, n)
<1>. DEFINE Below(x) == {y \in S : y < x}
<1>1. r \in S /\ Cardinality(Below(r)) < n
  BY Zenon DEF Firsts
<1>2. r \in Int /\ q \in Int /\ S \subseteq Int
  BY <1>1, SizeAssumption, SMT DEF Row
<1>3. Below(q) \in SUBSET Below(r)
  <2>1. \A y \in S : y < q => y < r
    BY <1>2, SMT
  <2>2. QED
    BY <2>1, Zenon
<1>4. IsFiniteSet(Below(r)) /\ Cardinality(Below(r)) \in Nat /\ Cardinality(Below(q)) \in Nat
  <2>1. Below(r) \in SUBSET Row /\ Below(q) \in SUBSET Row
    BY Zenon
  <2>2. QED
    BY <2>1, RowsFinite, Zenon
<1>5. Cardinality(Below(q)) <= Cardinality(Below(r))
  BY <1>3, <1>4, FS_Subset, Zenon
<1>6. Cardinality(Below(q)) < n
  <2>. HIDE DEF Below
  <2>1. QED
    BY <1>1, <1>4, <1>5, SMT
<1>7. QED
  BY <1>6, Zenon DEF Firsts

\* There is a first row, and it is among the first n.
LEMMA FirstsNotEmpty ==
    ASSUME NEW S \in SUBSET Row, NEW n \in Nat, n > 0, S # {}
    PROVE  Firsts(S, n) # {}
<1>1. S \in SUBSET Nat
  BY SizeAssumption, SMT DEF Row
<1>2. PICK x \in S : \A y \in S : x <= y
  BY <1>1, HasLeast, Zenon
<1>3. {q \in S : q < x} = {}
  <2>1. \A q \in S : ~ (q < x)
    BY <1>1, <1>2, SMT
  <2>2. QED
    BY <2>1, Zenon
<1>4. Cardinality({q \in S : q < x}) < n
  BY <1>3, FS_EmptySet, SMT
<1>5. QED
  BY <1>4, Zenon DEF Firsts

-----------------------------------------------------------------------------
(***************************************************************************)
(* The inductive invariant.  A push owes the hub the rows stamped after    *)
(* the cursor and up to its bound.  None of them is stamped again without  *)
(* leaving that range, so each row the push has read is delivered, or on   *)
(* the page under way, or noted as refused, in its present version.        *)
(***************************************************************************)
Bounds ==
    /\ \A w \in Writer : txn[w].rev # 0 => txn[w].rev = clock + 1
    /\ \A v, w \in Writer : txn[v].rev # 0 /\ txn[w].rev # 0 => v = w
    /\ \A r \in Row : rev[r] <= clock
    /\ cursor <= clock
    /\ push.upto <= clock

Versions ==
    /\ \A r \in Row : got[r] <= rev[r] /\ push.page[r] <= rev[r]
    /\ \A page \in late : \A r \in Row : page[r] <= rev[r]

Delivered(r) == got[r] = rev[r] \/ <<r, rev[r]>> \in reported

\* The rows the push has been past.
Covered(r) ==
    push.phase = "read" \/ push.more
        => Table[r] < push.table \/ (Table[r] = push.table /\ r <= push.after)

OnItsWay(r) == push.page[r] = rev[r] /\ (push.phase = "answer" => r \in push.refused)

Progress ==
    /\ \A r \in Row : rev[r] > 0 /\ rev[r] <= cursor => Delivered(r)
    /\ push.phase # "idle" => \A r \in Row : Due(r) /\ Covered(r) => Delivered(r) \/ OnItsWay(r)
    /\ push.phase = "finish" => ~push.more /\ push.page = NoRows

References ==
    /\ \A m \in reported : Parent[m[1]] # 0
    /\ \A r \in push.refused : Parent[r] # 0
    /\ ReferencesHold

Inv == TypeOK /\ Bounds /\ Versions /\ Progress /\ References

\* Initially nothing is written and nothing is owed.
THEOREM InitInv == Init => Inv
<1>. SUFFICES ASSUME Init PROVE Inv
  OBVIOUS
<1>1. NoRows \in [Row -> Nat] /\ \A r \in Row : NoRows[r] = 0
  BY SMT DEF NoRows
<1>2. NoTxn \in Txn /\ NoTxn.rev = 0
  BY SMT DEF NoTxn, Txn
<1>3. NoPush \in Push
  BY <1>1, SizeAssumption, SMT DEF NoPush, NewPush, Push
<1>4. TypeOK
  BY <1>1, <1>2, <1>3, SizeAssumption, SMT DEF Init, TypeOK
<1>5. Bounds
  BY <1>1, <1>2, SMT DEF Init, Bounds, NoPush, NewPush
<1>6. Versions
  BY <1>1, SMT DEF Init, Versions, NoPush, NewPush
<1>7. Progress
  BY <1>1, SMT DEF Init, Progress, NoPush, NewPush
<1>8. References
  BY <1>1, SMT DEF Init, References, ReferencesHold, NoPush, NewPush
<1>9. QED
  BY <1>4, <1>5, <1>6, <1>7, <1>8 DEF Inv

-----------------------------------------------------------------------------
\* The branch's transactions touch neither the push nor what it delivered.

\* A transaction that only marks rows changes nothing committed.
LEMMA WriteInv ==
    ASSUME Inv, NEW w \in Writer, NEW rows \in SUBSET Row, Write(w, rows)
    PROVE  Inv'
<1>1. TypeOK' /\ Bounds'
  BY SMT DEF Inv, TypeOK, Bounds, Write, Txn
<1>2. Versions' /\ Progress' /\ References'
  BY SMT DEF Inv, Write, Versions, Progress, References, ReferencesHold, Delivered, Covered, OnItsWay, Due
<1>3. QED
  BY <1>1, <1>2 DEF Inv

\* The revision taken is the next one, and nobody else has taken one.
LEMMA AssignRevisionInv ==
    ASSUME Inv, NEW w \in Writer, AssignRevision(w)
    PROVE  Inv'
<1>1. TypeOK' /\ Bounds'
  BY SMT DEF Inv, TypeOK, Bounds, AssignRevision, ClockFree, Txn
<1>2. Versions' /\ Progress' /\ References'
  BY SMT DEF Inv, AssignRevision, Versions, Progress, References, ReferencesHold, Delivered, Covered,
     OnItsWay, Due
<1>3. QED
  BY <1>1, <1>2 DEF Inv

\* A transaction given up frees its rows and the clock.
LEMMA AbortTxnInv ==
    ASSUME Inv, NEW w \in Writer, AbortTxn(w)
    PROVE  Inv'
<1>1. TypeOK' /\ Bounds'
  BY SMT DEF Inv, TypeOK, Bounds, AbortTxn, NoTxn, Txn
<1>2. Versions' /\ Progress' /\ References'
  BY SMT DEF Inv, AbortTxn, Versions, Progress, References, ReferencesHold, Delivered, Covered, OnItsWay, Due
<1>3. QED
  BY <1>1, <1>2 DEF Inv

\* The rows a commit stamps leave the range the push under way owes.
LEMMA CommitTxnInv ==
    ASSUME Inv, NEW w \in Writer, CommitTxn(w)
    PROVE  Inv'
<1>1. TypeOK'
  BY SMT DEF Inv, TypeOK, CommitTxn, NoTxn, Txn
<1>2. clock' = clock + 1 /\ clock \in Nat /\ cursor \in Nat /\ push.upto \in Nat
  BY SMT DEF Inv, TypeOK, Bounds, CommitTxn, Txn, Push
<1>3. \A r \in Row : rev[r] \in Nat /\ (rev'[r] = rev[r] \/ rev'[r] = clock + 1)
  BY <1>2, SMT DEF Inv, TypeOK, CommitTxn
<1>4. Bounds'
  <2>1. \A v \in Writer : txn'[v].rev = 0
    <3>1. SUFFICES ASSUME NEW v \in Writer PROVE txn'[v].rev = 0
      OBVIOUS
    <3>2. CASE v = w
      BY <3>2, SMT DEF Inv, TypeOK, CommitTxn, NoTxn
    <3>3. CASE v # w
      <4>1. txn[v].rev = 0
        BY <3>3, SMT DEF Inv, Bounds, CommitTxn
      <4>2. QED
        BY <3>3, <4>1, SMT DEF Inv, TypeOK, CommitTxn
    <3>4. QED
      BY <3>2, <3>3
  <2>2. \A r \in Row : rev'[r] <= clock'
    BY <1>2, <1>3, SMT DEF Inv, Bounds
  <2>3. cursor' <= clock' /\ push'.upto <= clock'
    BY <1>2, SMT DEF Inv, Bounds, CommitTxn
  <2>4. QED
    BY <2>1, <2>2, <2>3, SMT DEF Bounds
<1>5. Versions'
  <2>1. \A r \in Row : rev[r] <= rev'[r]
    BY <1>2, <1>3, SMT DEF Inv, Bounds
  <2>2. \A r \in Row : got[r] \in Nat /\ push.page[r] \in Nat /\ rev'[r] \in Nat
    BY <1>1, SMT DEF Inv, TypeOK, Push
  <2>3. \A page \in late : \A r \in Row : page[r] \in Nat
    BY SMT DEF Inv, TypeOK
  <2>4. QED
    BY <1>3, <2>1, <2>2, <2>3, SMT DEF Inv, Versions, CommitTxn
<1>6. Progress'
  <2>1. \A r \in Row : rev'[r] <= cursor \/ rev'[r] <= push.upto => rev'[r] = rev[r]
    BY <1>2, <1>3, SMT DEF Inv, Bounds
  <2>2. QED
    BY <2>1, SMT DEF Inv, CommitTxn, Progress, Delivered, Covered, OnItsWay, Due
<1>7. References'
  BY SMT DEF Inv, CommitTxn, References, ReferencesHold
<1>8. QED
  BY <1>1, <1>4, <1>5, <1>6, <1>7 DEF Inv

-----------------------------------------------------------------------------
\* The push.

\* At the start nothing has been read and the bound is the clock.
LEMMA BeginPushInv ==
    ASSUME Inv, BeginPush
    PROVE  Inv'
<1>1. NoRows \in [Row -> Nat] /\ \A r \in Row : NoRows[r] = 0
  BY SMT DEF NoRows
<1>2. push' = [phase |-> "read", upto |-> clock, table |-> 1, after |-> 0, room |-> Page,
               page |-> NoRows, more |-> FALSE, refused |-> {}]
  BY SMT DEF BeginPush, NewPush
<1>3. TypeOK'
  <2>1. clock \in Nat
    BY DEF Inv, TypeOK
  <2>2. push' \in Push
    BY <1>1, <1>2, <2>1, SizeAssumption, SMT DEF Push
  <2>3. QED
    BY <2>2, SMT DEF Inv, TypeOK, BeginPush, source
<1>4. Bounds'
  BY <1>2, SMT DEF Inv, TypeOK, Bounds, BeginPush, source
<1>5. Versions'
  BY <1>1, <1>2, SMT DEF Inv, TypeOK, Versions, BeginPush, source
<1>6. Progress'
  <2>1. \A r \in Row : ~ Covered(r)'
    BY <1>2, TableAssumption, SizeAssumption, SMT DEF Covered, Row
  <2>2. QED
    BY <1>2, <2>1, SMT DEF Inv, Progress, Delivered, BeginPush, source
<1>7. References'
  BY <1>2, SMT DEF Inv, References, ReferencesHold, BeginPush, source
<1>8. QED
  BY <1>3, <1>4, <1>5, <1>6, <1>7 DEF Inv

\* The push is over when the cursor takes its bound: every row up to it is covered,
\* and no page is left.
LEMMA FinishPushInv ==
    ASSUME Inv, FinishPush
    PROVE  Inv'
<1>1. NoRows \in [Row -> Nat] /\ \A r \in Row : NoRows[r] = 0
  BY SMT DEF NoRows
<1>2. NoPush \in Push
  BY <1>1, SizeAssumption, SMT DEF NoPush, NewPush, Push
<1>3. TypeOK'
  BY <1>2, SMT DEF Inv, TypeOK, FinishPush, source, Push
<1>4. Bounds'
  BY SMT DEF Inv, TypeOK, Bounds, FinishPush, source, NoPush, NewPush
<1>5. Versions'
  BY <1>1, SMT DEF Inv, TypeOK, Versions, FinishPush, source, NoPush, NewPush
<1>6. Progress'
  <2>1. ASSUME NEW r \in Row, rev[r] > 0, rev[r] <= push.upto
        PROVE  Delivered(r)
    <3>1. rev[r] \in Nat /\ cursor \in Nat /\ push.upto \in Nat
      BY SMT DEF Inv, TypeOK, Push
    <3>2. CASE rev[r] <= cursor
      BY <2>1, <3>2 DEF Inv, Progress
    <3>3. CASE ~ (rev[r] <= cursor)
      <4>1. Due(r)
        BY <2>1, <3>1, <3>3, SMT DEF Due
      <4>2. push.phase = "finish" /\ ~push.more /\ push.page = NoRows
        BY SMT DEF Inv, Progress, FinishPush
      <4>3. Covered(r)
        BY <4>2, SMT DEF Covered
      <4>4. ~ OnItsWay(r)
        BY <1>1, <2>1, <4>2, SMT DEF OnItsWay
      <4>5. QED
        BY <4>1, <4>2, <4>3, <4>4, SMT DEF Inv, Progress
    <3>4. QED
      BY <3>2, <3>3
  <2>2. push'.phase = "idle" /\ cursor' = push.upto /\ rev' = rev /\ got' = got /\ reported' = reported
    BY SMT DEF FinishPush, NoPush, NewPush, source
  <2>3. \A r \in Row : Delivered(r)' <=> Delivered(r)
    BY <2>2, SMT DEF Delivered
  <2>4. QED
    BY <2>1, <2>2, <2>3, SMT DEF Progress
<1>7. References'
  BY SMT DEF Inv, References, ReferencesHold, FinishPush, source, NoPush, NewPush
<1>8. QED
  BY <1>3, <1>4, <1>5, <1>6, <1>7 DEF Inv

\* A push that fails leaves the cursor and what has arrived.
LEMMA FailPushInv ==
    ASSUME Inv, FailPush
    PROVE  Inv'
<1>1. NoRows \in [Row -> Nat] /\ \A r \in Row : NoRows[r] = 0
  BY SMT DEF NoRows
<1>2. NoPush \in Push
  BY <1>1, SizeAssumption, SMT DEF NoPush, NewPush, Push
<1>3. push' = NoPush /\ cursor' = cursor /\ rev' = rev /\ clock' = clock /\ txn' = txn /\ got' = got
      /\ reported' = reported /\ late' \subseteq late \cup {push.page}
  BY SMT DEF FailPush, CursorAfterFailure, source
<1>4. failures' \in 0..MaxFail
  BY SizeAssumption, SMT DEF FailPush, Inv, TypeOK
<1>5. TypeOK'
  BY <1>2, <1>3, <1>4, SMT DEF Inv, TypeOK, Push
<1>6. Bounds'
  BY <1>3, SMT DEF Inv, TypeOK, Bounds, NoPush, NewPush
<1>7. Versions'
  BY <1>1, <1>3, SMT DEF Inv, TypeOK, Versions, NoPush, NewPush
<1>8. Progress'
  BY <1>3, SMT DEF Inv, Progress, Delivered, NoPush, NewPush
<1>9. References'
  BY <1>3, SMT DEF Inv, References, ReferencesHold, NoPush, NewPush
<1>10. QED
  BY <1>5, <1>6, <1>7, <1>8, <1>9 DEF Inv

\* What a page of existing versions does to what the hub has of a row: the row is
\* refused, or the newer version stays.
LEMMA MergedRow ==
    ASSUME NEW page \in [Row -> Nat], NEW r \in Row,
           got \in [Row -> Nat], rev \in [Row -> Nat], got[r] <= rev[r], page[r] <= rev[r]
    PROVE  /\ Merged(page, r) \in Nat
           /\ got[r] <= Merged(page, r)
           /\ Merged(page, r) <= rev[r]
           /\ page[r] = rev[r] => r \in Refused(page) \/ Merged(page, r) = rev[r]
BY SMT DEF Merged

\* The hub has the parents of what it takes.
LEMMA MergedReferences ==
    ASSUME NEW page \in [Row -> Nat], got \in [Row -> Nat], ReferencesHold,
           NEW r \in Row, Merged(page, r) > 0, Parent[r] # 0
    PROVE  Merged(page, Parent[r]) > 0
<1>1. Parent[r] \in Row /\ Parent[Parent[r]] = 0
  BY ParentAssumption, SMT
<1>2. Parent[r] \notin Refused(page)
  BY <1>1, SMT DEF Refused
<1>3. got[Parent[r]] > 0 \/ page[Parent[r]] > 0
  <2>1. CASE got[r] > 0
    BY <2>1 DEF ReferencesHold
  <2>2. CASE ~ (got[r] > 0)
    <3>1. page[r] > 0 /\ r \notin Refused(page)
      BY <2>2, SMT DEF Merged
    <3>2. got[Parent[r]] # 0 \/ page[Parent[r]] # 0
      BY <3>1, SMT DEF Refused
    <3>3. QED
      BY <1>1, <3>2, SMT
  <2>3. QED
    BY <2>1, <2>2
<1>4. QED
  BY <1>1, <1>2, <1>3, SMT DEF Merged

\* A page that is applied, awaited or late, never takes a row back and never past
\* the version the branch has.
LEMMA GotAfter ==
    ASSUME Inv, NEW page \in [Row -> Nat], \A r \in Row : page[r] <= rev[r],
           got' = [r \in Row |-> Merged(page, r)]
    PROVE  /\ got' \in [Row -> Nat]
           /\ \A r \in Row : got[r] <= got'[r] /\ got'[r] <= rev[r]
           /\ \A r \in Row : page[r] = rev[r] => r \in Refused(page) \/ got'[r] = rev[r]
           /\ ReferencesHold'
<1>1. /\ got \in [Row -> Nat]
      /\ rev \in [Row -> Nat]
      /\ \A r \in Row : got[r] <= rev[r]
      /\ ReferencesHold
  BY DEF Inv, TypeOK, Versions, References
<1>2. ASSUME NEW r \in Row
      PROVE  /\ got'[r] = Merged(page, r)
             /\ got'[r] \in Nat
             /\ got[r] <= got'[r] /\ got'[r] <= rev[r]
             /\ page[r] = rev[r] => r \in Refused(page) \/ got'[r] = rev[r]
  <2>1. got'[r] = Merged(page, r)
    BY Zenon
  <2>2. QED
    BY <1>1, <2>1, MergedRow, Zenon
<1>3. got' \in [Row -> Nat]
  BY <1>2, Zenon
<1>4. ReferencesHold'
  <2>1. SUFFICES ASSUME NEW r \in Row, got'[r] > 0, Parent[r] # 0
                 PROVE  got'[Parent[r]] > 0
    BY SMT DEF ReferencesHold
  <2>2. Parent[r] \in Row
    BY <2>1, ParentAssumption, SMT
  <2>3. Merged(page, r) > 0
    BY <1>2, <2>1, Zenon
  <2>4. Merged(page, Parent[r]) > 0
    BY <1>1, <2>1, <2>3, MergedReferences, Zenon
  <2>5. QED
    BY <1>2, <2>2, <2>4, Zenon
<1>5. QED
  BY <1>2, <1>3, <1>4, Zenon

\* The awaited page is applied: each of its rows is delivered or refused.
LEMMA ApplyInv ==
    ASSUME Inv, Apply
    PROVE  Inv'
<1>1. push \in Push /\ push.page \in [Row -> Nat] /\ rev \in [Row -> Nat] /\ got \in [Row -> Nat]
  BY SMT DEF Inv, TypeOK, Push
<1>2. \A r \in Row : push.page[r] <= rev[r]
  BY DEF Inv, Versions
<1>3. got' = [r \in Row |-> Merged(push.page, r)]
  BY DEF Apply
<1>4. /\ got' \in [Row -> Nat]
      /\ \A r \in Row : got[r] <= got'[r] /\ got'[r] <= rev[r]
      /\ \A r \in Row : push.page[r] = rev[r] => r \in Refused(push.page) \/ got'[r] = rev[r]
      /\ ReferencesHold'
  BY <1>1, <1>2, <1>3, GotAfter, Zenon
<1>5. /\ push'.phase = "answer" /\ push'.upto = push.upto /\ push'.table = push.table
      /\ push'.after = push.after /\ push'.page = push.page /\ push'.more = push.more
      /\ push'.refused = Refused(push.page)
      /\ push' \in Push
  <2>. DEFINE R == Refused(push.page)
  <2>1. R \in SUBSET Row
    BY Zenon DEF Refused
  <2>2. push' = [push EXCEPT !.phase = "answer", !.refused = R]
    BY DEF Apply
  <2>. HIDE DEF R
  <2>3. /\ push'.phase = "answer" /\ push'.upto = push.upto /\ push'.table = push.table
        /\ push'.after = push.after /\ push'.page = push.page /\ push'.more = push.more
        /\ push'.refused = R
    BY <1>1, <2>2, SMT DEF Push
  <2>4. push' \in Push
    <3>. DEFINE v == [push EXCEPT !.phase = "answer"]
    <3>1. v \in Push
      BY <1>1, SMT DEF Push
    <3>2. push' = [v EXCEPT !.refused = R]
      BY <2>2
    <3>. HIDE DEF v
    <3>3. QED
      BY <2>1, <3>1, <3>2, SMT DEF Push
  <2>5. QED
    BY <2>3, <2>4 DEF R
<1>6. clock' = clock /\ rev' = rev /\ txn' = txn /\ cursor' = cursor /\ late' = late
      /\ reported' = reported /\ failures' = failures /\ push.phase = "wait"
  BY DEF Apply, source
<1>7. TypeOK'
  BY <1>4, <1>5, <1>6 DEF Inv, TypeOK
<1>8. Bounds'
  BY <1>5, <1>6, SMT DEF Inv, Bounds
<1>9. Versions'
  BY <1>4, <1>5, <1>6, SMT DEF Inv, Versions
<1>10. Progress'
  <2>1. ASSUME NEW r \in Row, Delivered(r) PROVE Delivered(r)'
    <3>1. got[r] \in Nat /\ got'[r] \in Nat /\ rev[r] \in Nat
      BY <1>1, <1>4
    <3>2. QED
      BY <1>4, <1>6, <2>1, <3>1, SMT DEF Delivered
  <2>2. ASSUME NEW r \in Row, Due(r)', Covered(r)'
        PROVE  Delivered(r)' \/ OnItsWay(r)'
    <3>1. Due(r) /\ Covered(r)
      BY <1>5, <1>6, <2>2, SMT DEF Due, Covered
    <3>2. Delivered(r) \/ push.page[r] = rev[r]
      BY <1>6, <3>1, SMT DEF Inv, Progress, OnItsWay
    <3>3. CASE push.page[r] = rev[r]
      BY <1>4, <1>5, <1>6, <3>3, SMT DEF Delivered, OnItsWay
    <3>4. QED
      BY <2>1, <3>2, <3>3
  <2>3. ASSUME NEW r \in Row, rev'[r] > 0, rev'[r] <= cursor' PROVE Delivered(r)'
    <3>1. Delivered(r)
      BY <1>6, <2>3 DEF Inv, Progress
    <3>2. QED
      BY <2>1, <3>1
  <2>4. push'.phase # "finish"
    BY <1>5
  <2>5. QED
    BY <2>2, <2>3, <2>4, Zenon DEF Progress
<1>11. References'
  <2>1. \A r \in Refused(push.page) : Parent[r] # 0
    BY DEF Refused
  <2>2. QED
    BY <1>4, <1>5, <1>6, <2>1 DEF Inv, References
<1>12. QED
  BY <1>7, <1>8, <1>9, <1>10, <1>11 DEF Inv

\* A page nobody waits for changes nothing that had been delivered.
LEMMA ApplyLateInv ==
    ASSUME Inv, ApplyLate
    PROVE  Inv'
<1>1. PICK page \in late : late' = late \ {page} /\ got' = [r \in Row |-> Merged(page, r)]
      /\ UNCHANGED <<source, cursor, push, reported, failures>>
  BY DEF ApplyLate
<1>2. page \in [Row -> Nat] /\ rev \in [Row -> Nat] /\ got \in [Row -> Nat]
  BY <1>1, SMT DEF Inv, TypeOK
<1>3. \A r \in Row : page[r] <= rev[r]
  BY DEF Inv, Versions
<1>4. /\ got' \in [Row -> Nat]
      /\ \A r \in Row : got[r] <= got'[r] /\ got'[r] <= rev[r]
      /\ ReferencesHold'
  BY <1>1, <1>2, <1>3, GotAfter, Zenon
<1>5. clock' = clock /\ rev' = rev /\ txn' = txn /\ cursor' = cursor /\ push' = push
      /\ reported' = reported /\ failures' = failures
  BY <1>1 DEF source
<1>6. TypeOK'
  BY <1>1, <1>4, <1>5, SMT DEF Inv, TypeOK
<1>7. Bounds'
  BY <1>5, SMT DEF Inv, Bounds
<1>8. Versions'
  BY <1>1, <1>4, <1>5, SMT DEF Inv, Versions
<1>9. Progress'
  <2>1. \A r \in Row : Delivered(r) => Delivered(r)'
    <3>1. \A r \in Row : got[r] \in Nat /\ got'[r] \in Nat /\ rev[r] \in Nat
      BY <1>2, <1>4
    <3>2. QED
      BY <1>4, <1>5, <3>1, SMT DEF Delivered
  <2>2. \A r \in Row : (Due(r)' <=> Due(r)) /\ (Covered(r)' <=> Covered(r)) /\ (OnItsWay(r)' <=> OnItsWay(r))
    BY <1>5, SMT DEF Due, Covered, OnItsWay
  <2>3. QED
    BY <1>5, <2>1, <2>2, SMT DEF Inv, Progress
<1>10. References'
  BY <1>4, <1>5, SMT DEF Inv, References
<1>11. QED
  BY <1>6, <1>7, <1>8, <1>9, <1>10 DEF Inv

\* The branch notes what was refused; what the page held is then delivered or noted.
LEMMA ReceiveAnswerInv ==
    ASSUME Inv, ReceiveAnswer
    PROVE  Inv'
<1>1. /\ push \in Push /\ push.page \in [Row -> Nat] /\ push.refused \in SUBSET Row
      /\ push.more \in BOOLEAN /\ rev \in [Row -> Nat] /\ reported \subseteq Row \X Nat
  BY SMT DEF Inv, TypeOK, Push
<1>2. NoRows \in [Row -> Nat] /\ \A r \in Row : NoRows[r] = 0
  BY SMT DEF NoRows
<1>3. /\ push.phase = "answer" /\ reported' = Noted
      /\ clock' = clock /\ rev' = rev /\ txn' = txn /\ cursor' = cursor /\ late' = late /\ got' = got
      /\ failures' = failures
  BY DEF ReceiveAnswer, source
<1>4. /\ push'.phase = IF push.more THEN "read" ELSE "finish"
      /\ push'.upto = push.upto /\ push'.table = push.table /\ push'.after = push.after
      /\ push'.page = NoRows /\ push'.more = FALSE /\ push'.refused = {}
      /\ push' \in Push
  <2>. DEFINE ph == IF push.more THEN "read" ELSE "finish"
  <2>1. ph \in {"read", "finish"}
    BY <1>1
  <2>2. push' = [push EXCEPT !.phase = ph, !.room = Page, !.page = NoRows, !.more = FALSE, !.refused = {}]
    BY DEF ReceiveAnswer
  <2>3. Page \in 1..Page
    BY SizeAssumption, SMT
  <2>. HIDE DEF ph
  <2>4. /\ push'.phase = ph
        /\ push'.upto = push.upto /\ push'.table = push.table /\ push'.after = push.after
        /\ push'.page = NoRows /\ push'.more = FALSE /\ push'.refused = {}
    BY <1>1, <2>2, SMT DEF Push
  <2>5. push' \in Push
    <3>. DEFINE v1 == [push EXCEPT !.phase = ph]
                v2 == [v1 EXCEPT !.room = Page]
                v3 == [v2 EXCEPT !.page = NoRows]
                no == FALSE
                v4 == [v3 EXCEPT !.more = no]
    <3>1. v1 \in Push
      BY <1>1, <2>1, SMT DEF Push
    <3>2. v2 \in Push
      <4>. HIDE DEF v1
      <4>1. QED
        BY <2>3, <3>1, SMT DEF Push
    <3>3. v3 \in Push
      <4>. HIDE DEF v2
      <4>1. QED
        BY <1>2, <3>2, SMT DEF Push
    <3>4. v4 \in Push
      <4>1. no \in BOOLEAN
        OBVIOUS
      <4>. HIDE DEF v3, no
      <4>2. QED
        BY <3>3, <4>1, SMT DEF Push
    <3>5. push' = [v4 EXCEPT !.refused = {}]
      BY <2>2
    <3>6. QED
      <4>. HIDE DEF v4
      <4>1. QED
        BY <3>4, <3>5, SMT DEF Push
  <2>6. QED
    BY <2>4, <2>5 DEF ph
<1>5. TypeOK'
  <2>1. Noted \subseteq Row \X Nat
    BY <1>1, SMT DEF Noted
  <2>2. QED
    BY <1>3, <1>4, <2>1 DEF Inv, TypeOK
<1>6. Bounds'
  BY <1>3, <1>4, SMT DEF Inv, Bounds
<1>7. Versions'
  <2>1. \A r \in Row : push'.page[r] <= rev'[r]
    BY <1>1, <1>2, <1>3, <1>4, SMT
  <2>2. QED
    BY <1>3, <2>1 DEF Inv, Versions
<1>8. Progress'
  <2>1. \A r \in Row : Delivered(r) => Delivered(r)'
    BY <1>3, Zenon DEF Delivered, Noted
  <2>2. ASSUME NEW r \in Row, Due(r)', Covered(r)'
        PROVE  Delivered(r)'
    <3>1. Due(r) /\ Covered(r)
      BY <1>1, <1>3, <1>4, <2>2, SMT DEF Due, Covered
    <3>2. Delivered(r) \/ OnItsWay(r)
      BY <1>3, <3>1, SMT DEF Inv, Progress
    <3>3. CASE OnItsWay(r)
      <4>1. push.page[r] = rev[r] /\ r \in push.refused
        BY <1>3, <3>3 DEF OnItsWay
      <4>2. <<r, rev[r]>> \in Noted
        BY <4>1, Zenon DEF Noted
      <4>3. QED
        BY <1>3, <4>2 DEF Delivered
    <3>4. QED
      BY <2>1, <3>2, <3>3
  <2>3. ASSUME NEW r \in Row, rev'[r] > 0, rev'[r] <= cursor' PROVE Delivered(r)'
    <3>1. Delivered(r)
      BY <1>3, <2>3 DEF Inv, Progress
    <3>2. QED
      BY <2>1, <3>1
  <2>4. ~push'.more /\ push'.page = NoRows
    BY <1>4
  <2>5. QED
    BY <2>2, <2>3, <2>4, Zenon DEF Progress
<1>9. References'
  <2>1. \A m \in Noted : Parent[m[1]] # 0
    BY SMT DEF Inv, References, Noted
  <2>2. QED
    BY <1>3, <1>4, <2>1 DEF Inv, References, ReferencesHold
<1>10. QED
  BY <1>5, <1>6, <1>7, <1>8, <1>9 DEF Inv

\* What one SELECT adds: a page that is not full has all the wanted rows of the table,
\* a full one those up to the row it is read on from.
LEMMA ReadRows ==
    ASSUME NEW W \in SUBSET Row, NEW room \in 1..Page
    PROVE  /\ Cardinality(W) \in Nat
           /\ Firsts(W, room) \subseteq W
           /\ Cardinality(W) < room => Firsts(W, room) = W
           /\ Cardinality(W) >= room =>
                 /\ Max(Firsts(W, room)) \in Row
                 /\ \A r \in W : r <= Max(Firsts(W, room)) => r \in Firsts(W, room)
<1>. DEFINE n == Cardinality(W)
            taken == Firsts(W, room)
<1>1. room \in Nat /\ room > 0
  BY SizeAssumption, SMT
<1>2. n \in Nat
  BY RowsFinite, Zenon
<1>3. taken \subseteq W
  BY Zenon DEF Firsts
<1>4. ASSUME n < room PROVE taken = W
  BY <1>1, <1>4, FirstsAreAll, Zenon
<1>5. ASSUME n >= room
      PROVE  Max(taken) \in Row /\ \A r \in W : r <= Max(taken) => r \in taken
  <2>1. W # {}
    <3>1. SUFFICES ASSUME W = {} PROVE FALSE
      OBVIOUS
    <3>2. n = 0
      BY <3>1, FS_EmptySet, Zenon
    <3>. HIDE DEF n
    <3>3. QED
      BY <1>1, <1>5, <3>2, SMT
  <2>2. taken # {} /\ taken \in SUBSET Row
    BY <1>1, <1>3, <2>1, FirstsNotEmpty, Zenon
  <2>3. Max(taken) \in taken
    BY <2>2, MaxOfRows, Zenon
  <2>4. ASSUME NEW r \in W, r <= Max(taken) PROVE r \in taken
    BY <1>1, <2>3, <2>4, FirstsComeFirst, Zenon
  <2>5. QED
    BY <2>2, <2>3, <2>4, Zenon
<1>6. QED
  BY <1>2, <1>3, <1>4, <1>5, Zenon

\* What a read makes of the push.
ReadOn(page, more, room, table, after, phase) ==
    [push EXCEPT !.page = page, !.more = more, !.room = room, !.table = table, !.after = after, !.phase = phase]

ReadTypes(page, more, room, table, after, phase) ==
    /\ page \in [Row -> Nat] /\ more \in BOOLEAN /\ room \in 1..Page /\ table \in 1..Tables
    /\ after \in Nat /\ phase \in {"read", "wait", "finish"}

LEMMA ReadPush ==
    ASSUME push \in Push, NEW page, NEW more, NEW room, NEW table, NEW after, NEW phase,
           ReadTypes(page, more, room, table, after, phase),
           push' = ReadOn(page, more, room, table, after, phase)
    PROVE  /\ push' \in Push
           /\ push'.page = page /\ push'.more = more /\ push'.table = table
           /\ push'.after = after /\ push'.phase = phase
           /\ push'.upto = push.upto /\ push'.refused = push.refused
<1>. DEFINE v1 == [push EXCEPT !.page = page]
            v2 == [v1 EXCEPT !.more = more]
            v3 == [v2 EXCEPT !.room = room]
            v4 == [v3 EXCEPT !.table = table]
            v5 == [v4 EXCEPT !.after = after]
<1>. page \in [Row -> Nat] /\ more \in BOOLEAN /\ room \in 1..Page /\ table \in 1..Tables
     /\ after \in Nat /\ phase \in {"read", "wait", "finish"}
  BY DEF ReadTypes
<1>1. /\ v1 \in Push
      /\ v1.page = page /\ v1.upto = push.upto /\ v1.refused = push.refused
  BY SMT DEF Push
<1>2. /\ v2 \in Push
      /\ v2.page = page /\ v2.upto = push.upto /\ v2.refused = push.refused /\ v2.more = more
  <2>. HIDE DEF v1
  <2>1. QED
    BY <1>1, SMT DEF Push
<1>3. /\ v3 \in Push
      /\ v3.page = page /\ v3.upto = push.upto /\ v3.refused = push.refused /\ v3.more = more
  <2>. HIDE DEF v2
  <2>1. QED
    BY <1>2, SMT DEF Push
<1>4. /\ v4 \in Push
      /\ v4.page = page /\ v4.upto = push.upto /\ v4.refused = push.refused /\ v4.more = more
      /\ v4.table = table
  <2>. HIDE DEF v3
  <2>1. QED
    BY <1>3, SMT DEF Push
<1>5. /\ v5 \in Push
      /\ v5.page = page /\ v5.upto = push.upto /\ v5.refused = push.refused /\ v5.more = more
      /\ v5.table = table /\ v5.after = after
  <2>. HIDE DEF v4
  <2>1. QED
    BY <1>4, SMT DEF Push
<1>6. push' = [v5 EXCEPT !.phase = phase]
  BY DEF ReadOn
<1>7. QED
  <2>. HIDE DEF v5
  <2>1. QED
    BY <1>5, <1>6, SMT DEF Push

\* A read passes only rows it puts on the page: the rest of a table when the page has
\* room, and the rows up to the last one taken when it is full.
LEMMA ReadTableInv ==
    ASSUME Inv, ReadTable
    PROVE  Inv'
<1>. DEFINE full == Cardinality(Wanted) >= push.room
            taken == Firsts(Wanted, push.room)
            page == [r \in Row |-> IF r \in taken THEN rev[r] ELSE push.page[r]]
<1>1. /\ push \in Push /\ push.page \in [Row -> Nat] /\ push.room \in 1..Page /\ push.table \in 1..Tables
      /\ rev \in [Row -> Nat] /\ push.phase = "read" /\ push.after \in Nat
      /\ Page \in Nat \ {0} /\ Tables \in Nat \ {0} /\ Rows \in Nat
  BY SizeAssumption, SMT DEF Inv, TypeOK, Push, ReadTable
<1>2. /\ Cardinality(Wanted) \in Nat
      /\ ~full => taken = Wanted
      /\ full => Max(taken) \in Row /\ \A r \in Wanted : r <= Max(taken) => r \in taken
  <2>1. Wanted \in SUBSET Row
    BY Zenon DEF Wanted
  <2>2. Cardinality(Wanted) \in Nat
    BY <2>1, RowsFinite, Zenon
  <2>3. ~full => Cardinality(Wanted) < push.room
    <3>. DEFINE n == Cardinality(Wanted)
    <3>1. n \in Nat
      BY <2>2
    <3>. HIDE DEF n
    <3>2. ~(n >= push.room) => n < push.room
      BY <1>1, <3>1, SMT
    <3>3. QED
      BY <3>2 DEF n
  <2>4. QED
    BY <1>1, <2>1, <2>2, <2>3, ReadRows, Zenon
<1>3. /\ page \in [Row -> Nat]
      /\ \A r \in Row : page[r] = rev[r] \/ page[r] = push.page[r]
      /\ \A r \in Row : r \in taken \/ push.page[r] = rev[r] => page[r] = rev[r]
  <2>. HIDE DEF taken
  <2>1. QED
    BY <1>1, SMT
<1>4. /\ clock' = clock /\ rev' = rev /\ txn' = txn /\ cursor' = cursor /\ late' = late /\ got' = got
      /\ reported' = reported /\ failures' = failures
  BY DEF ReadTable, source
<1>5. /\ push' \in Push
      /\ push'.page = page /\ push'.upto = push.upto /\ push'.refused = push.refused
      /\ push'.phase \in {"read", "wait", "finish"}
      /\ \/ full /\ push'.phase = "wait" /\ push'.table = push.table /\ push'.after = Max(taken)
               /\ push'.more
         \/ ~full /\ push'.phase = "read" /\ push'.table = push.table + 1 /\ push'.after = 0
         \/ ~full /\ push'.phase \in {"wait", "finish"} /\ ~push'.more /\ push.table = Tables
      /\ push'.phase = "finish" => ~push'.more /\ page = NoRows
  <2>1. CASE full
    <3>. DEFINE more == TRUE
                last == Max(taken)
                table == push.table
                phase == "wait"
                room == Page
    <3>1. push' = ReadOn(page, more, room, table, last, phase)
      BY <2>1, Zenon DEF ReadOn, ReadTable, ResumeAfter
    <3>2. /\ more \in BOOLEAN /\ room \in 1..Page /\ last \in Nat /\ table \in 1..Tables
          /\ phase \in {"read", "wait", "finish"}
      BY <1>1, <1>2, <2>1, SMT DEF Row
    <3>3. /\ push' \in Push
          /\ push'.page = page /\ push'.upto = push.upto /\ push'.refused = push.refused
          /\ push'.phase = phase /\ push'.table = table /\ push'.after = last /\ push'.more = more
      <4>. HIDE DEF page, more, last, table, phase, room
      <4>1. push \in Push /\ ReadTypes(page, more, room, table, last, phase)
        BY <1>1, <1>3, <3>2 DEF ReadTypes
      <4>2. QED
        BY <3>1, <4>1, ReadPush, Zenon
    <3>4. QED
      <4>1. push'.phase # "finish" /\ push'.phase \in {"read", "wait", "finish"}
        BY <3>3
      <4>2. QED
        BY <2>1, <3>3, <4>1, Zenon DEF last, more, table, phase
  <2>2. CASE ~full
    <3>. DEFINE more == full
                room == push.room - Cardinality(Wanted)
                table == IF LastTable THEN push.table ELSE push.table + 1
                phase == IF LastTable /\ page # NoRows THEN "wait" ELSE IF LastTable THEN "finish" ELSE "read"
    <3>1. push' = ReadOn(page, more, room, table, 0, phase)
      BY <2>2, Zenon DEF ReadOn, ReadTable
    <3>2. more \in BOOLEAN /\ phase \in {"read", "wait", "finish"} /\ 0 \in Nat
      BY SMT
    <3>3. table \in 1..Tables
      BY <1>1, SMT DEF LastTable
    <3>4. room \in 1..Page
      <4>. DEFINE n == Cardinality(Wanted)
      <4>1. n \in Nat /\ ~(n >= push.room)
        BY <1>2, <2>2
      <4>. HIDE DEF n
      <4>2. push.room - n \in 1..Page
        BY <1>1, <4>1, SMT
      <4>3. QED
        BY <4>2 DEF n
    <3>5. /\ push' \in Push
          /\ push'.page = page /\ push'.upto = push.upto /\ push'.refused = push.refused
          /\ push'.phase = phase /\ push'.table = table /\ push'.after = 0 /\ push'.more = more
      <4>. HIDE DEF page, more, room, table, phase
      <4>1. push \in Push /\ ReadTypes(page, more, room, table, 0, phase)
        BY <1>1, <1>3, <3>2, <3>3, <3>4 DEF ReadTypes
      <4>2. QED
        BY <3>1, <4>1, ReadPush, Zenon
    <3>6. CASE LastTable
      BY <2>2, <3>5, <3>6, Zenon DEF LastTable
    <3>7. CASE ~LastTable
      <4>1. push'.phase = "read" /\ push'.table = push.table + 1
        BY <3>5, <3>7, Zenon
      <4>2. push'.phase # "finish" /\ push'.phase \in {"read", "wait", "finish"}
        BY <4>1
      <4>3. QED
        BY <2>2, <3>5, <4>1, <4>2, Zenon
    <3>8. QED
      BY <3>6, <3>7
  <2>3. QED
    BY <2>1, <2>2
<1>6. TypeOK'
  BY <1>4, <1>5 DEF Inv, TypeOK
<1>7. Bounds'
  BY <1>4, <1>5, SMT DEF Inv, Bounds
<1>8. Versions'
  <2>1. \A r \in Row : push'.page[r] <= rev[r]
    <3>. HIDE DEF page
    <3>1. QED
      BY <1>1, <1>3, <1>5, SMT DEF Inv, Versions
  <2>2. QED
    BY <1>4, <2>1 DEF Inv, Versions
<1>9. Progress'
  <2>1. \A r \in Row : Delivered(r) => Delivered(r)'
    BY <1>4 DEF Delivered
  <2>2. ASSUME NEW r \in Row, Due(r)', Covered(r)'
        PROVE  Delivered(r)' \/ OnItsWay(r)'
    <3>1. Due(r)
      BY <1>4, <1>5, <2>2 DEF Due
    <3>2. Delivered(r) \/ page[r] = rev[r]
      <4>1. CASE Covered(r)
        <5>1. Delivered(r) \/ push.page[r] = rev[r]
          BY <1>1, <3>1, <4>1, SMT DEF Inv, Progress, OnItsWay
        <5>2. QED
          BY <1>3, <5>1, Zenon
      <4>2. CASE ~Covered(r)
        <5>. HIDE DEF full, taken, page
        <5>1. Table[r] \in 1..Tables /\ r \in Nat /\ r > 0
          BY TableAssumption, SMT DEF Row
        <5>2. ~(Table[r] < push.table) /\ (Table[r] = push.table => ~(r <= push.after))
          BY <1>1, <4>2, SMT DEF Covered
        <5>3. Table[r] = push.table => r \in Wanted
          BY <1>1, <3>1, <5>1, <5>2, SMT DEF Wanted
        <5>4. Table[r] = push.table /\ (full => r <= Max(taken))
          <6>1. CASE full /\ push'.phase = "wait" /\ push'.table = push.table /\ push'.after = Max(taken)
                     /\ push'.more
            BY <1>1, <2>2, <5>1, <5>2, <6>1, SMT DEF Covered
          <6>2. CASE ~full /\ push'.phase = "read" /\ push'.table = push.table + 1 /\ push'.after = 0
            BY <1>1, <2>2, <5>1, <5>2, <6>2, SMT DEF Covered
          <6>3. CASE ~full /\ push'.phase \in {"wait", "finish"} /\ ~push'.more /\ push.table = Tables
            BY <1>1, <5>1, <5>2, <6>3, SMT
          <6>4. QED
            BY <1>5, <6>1, <6>2, <6>3, Zenon
        <5>5. r \in taken
          BY <1>2, <5>3, <5>4, Zenon DEF full
        <5>6. QED
          BY <1>3, <5>5, Zenon
      <4>3. QED
        BY <4>1, <4>2
    <3>3. QED
      <4>. HIDE DEF page
      <4>1. push'.phase # "answer"
        BY <1>5
      <4>2. QED
        BY <1>4, <1>5, <2>1, <3>2, <4>1, Zenon DEF OnItsWay
  <2>3. ASSUME NEW r \in Row, rev'[r] > 0, rev'[r] <= cursor' PROVE Delivered(r)'
    <3>1. Delivered(r)
      BY <1>4, <2>3 DEF Inv, Progress
    <3>2. QED
      BY <2>1, <3>1
  <2>4. push'.phase = "finish" => ~push'.more /\ push'.page = NoRows
    BY <1>5, Zenon
  <2>5. QED
    BY <2>2, <2>3, <2>4, Zenon DEF Progress
<1>10. References'
  BY <1>4, <1>5 DEF Inv, References, ReferencesHold
<1>11. QED
  BY <1>6, <1>7, <1>8, <1>9, <1>10 DEF Inv

-----------------------------------------------------------------------------
\* Every step keeps the invariant.
THEOREM NextInv == Inv /\ [Next]_vars => Inv'
<1>. SUFFICES ASSUME Inv, [Next]_vars PROVE Inv'
  OBVIOUS
<1>1. ASSUME NEW w \in Writer, NEW rows \in SUBSET Row, Write(w, rows) PROVE Inv'
  BY <1>1, WriteInv
<1>2. ASSUME NEW w \in Writer, AssignRevision(w) PROVE Inv'
  BY <1>2, AssignRevisionInv
<1>3. ASSUME NEW w \in Writer, CommitTxn(w) PROVE Inv'
  BY <1>3, CommitTxnInv
<1>4. ASSUME NEW w \in Writer, AbortTxn(w) PROVE Inv'
  BY <1>4, AbortTxnInv
<1>5. CASE BeginPush
  BY <1>5, BeginPushInv
<1>6. CASE ReadTable
  BY <1>6, ReadTableInv
<1>7. CASE ReceiveAnswer
  BY <1>7, ReceiveAnswerInv
<1>8. CASE FinishPush
  BY <1>8, FinishPushInv
<1>9. CASE Apply
  BY <1>9, ApplyInv
<1>10. CASE FailPush
  BY <1>10, FailPushInv
<1>11. CASE ApplyLate
  BY <1>11, ApplyLateInv
<1>12. CASE UNCHANGED vars
  <2>1. UNCHANGED <<clock, rev, txn, cursor, push, late, got, reported, failures>>
    BY <1>12 DEF vars
  <2>2. TypeOK' /\ Bounds' /\ Versions' /\ References'
    BY <2>1 DEF Inv, TypeOK, Bounds, Versions, References, ReferencesHold
  <2>3. Progress'
    BY <2>1 DEF Inv, Progress, Delivered, Covered, OnItsWay, Due
  <2>4. QED
    BY <2>2, <2>3 DEF Inv
<1>13. QED
  BY <1>1, <1>2, <1>3, <1>4, <1>5, <1>6, <1>7, <1>8, <1>9, <1>10, <1>11, <1>12 DEF Next, PushStep

\* The invariant holds of every behaviour, fair or not.
THEOREM InvHolds == Spec => []Inv
<1>1. QED
  BY InitInv, NextInv, PTL DEF Spec

-----------------------------------------------------------------------------
\* Every variable keeps its type.
THEOREM TypeCorrect == Spec => []TypeOK
<1>1. Inv => TypeOK
  BY DEF Inv
<1>2. QED
  BY <1>1, InvHolds, PTL

\* A reader of the clock has seen every commit up to it, and none that has a revision
\* and is not committed.
THEOREM RevisionsInCommitOrderHolds == Spec => []RevisionsInCommitOrder
<1>1. Inv => RevisionsInCommitOrder
  BY SMT DEF Inv, TypeOK, Bounds, RevisionsInCommitOrder
<1>2. QED
  BY <1>1, InvHolds, PTL

\* What the cursor is past and the hub does not have has been noted.
THEOREM MissedIsReportedHolds == Spec => []MissedIsReported
<1>1. Inv => MissedIsReported
  BY DEF Inv, Progress, Delivered, MissedIsReported
<1>2. QED
  BY <1>1, InvHolds, PTL

\* Rows that need no other row are never refused, so the cursor is past those only that
\* the hub has in their last version.
THEOREM RootsDeliveredHolds == Spec => []RootsDelivered
<1>1. Inv => RootsDelivered
  <2>1. SUFFICES ASSUME Inv, NEW r \in Row, Parent[r] = 0, rev[r] > 0, rev[r] <= cursor
                 PROVE  got[r] = rev[r]
    BY DEF RootsDelivered
  <2>2. Delivered(r)
    BY <2>1 DEF Inv, Progress
  <2>3. <<r, rev[r]>> \notin reported
    <3>1. SUFFICES ASSUME <<r, rev[r]>> \in reported PROVE FALSE
      OBVIOUS
    <3>2. Parent[<<r, rev[r]>>[1]] # 0
      BY <2>1, <3>1, Zenon DEF Inv, References
    <3>3. QED
      BY <2>1, <3>2
  <2>4. QED
    BY <2>2, <2>3 DEF Delivered
<1>2. QED
  BY <1>1, InvHolds, PTL

\* The hub has the parent of every row it has.
THEOREM ReferencesHoldHolds == Spec => []ReferencesHold
<1>1. Inv => ReferencesHold
  BY DEF Inv, References
<1>2. QED
  BY <1>1, InvHolds, PTL

\* No page, whenever it arrives, takes a row of the hub back to an older version.
THEOREM NeverBackHolds == Spec => NeverBack
<1>1. Inv /\ [Next]_vars => [\A r \in Row : got'[r] >= got[r]]_vars
  <2>1. SUFFICES ASSUME Inv, Next PROVE \A r \in Row : got'[r] >= got[r]
    OBVIOUS
  <2>2. got \in [Row -> Nat] /\ Inv'
    BY <2>1, NextInv DEF Inv, TypeOK
  <2>3. \A r \in Row : got[r] \in Nat /\ got'[r] \in Nat
    BY <2>2, Zenon DEF Inv, TypeOK
  <2>4. CASE Apply
    <3>1. push.page \in [Row -> Nat]
      BY <2>1, SMT DEF Inv, TypeOK, Push
    <3>2. (\A r \in Row : push.page[r] <= rev[r]) /\ got' = [r \in Row |-> Merged(push.page, r)]
      BY <2>1, <2>4 DEF Inv, Versions, Apply
    <3>3. \A r \in Row : got[r] <= got'[r]
      BY <2>1, <3>1, <3>2, GotAfter, Zenon
    <3>4. QED
      BY <2>3, <3>3, SMT
  <2>5. CASE ApplyLate
    <3>1. PICK page \in late : got' = [r \in Row |-> Merged(page, r)]
      BY <2>5 DEF ApplyLate
    <3>2. page \in [Row -> Nat] /\ \A r \in Row : page[r] <= rev[r]
      BY <2>1, <3>1 DEF Inv, TypeOK, Versions
    <3>3. \A r \in Row : got[r] <= got'[r]
      BY <2>1, <3>1, <3>2, GotAfter, Zenon
    <3>4. QED
      BY <2>3, <3>3, SMT
  <2>6. CASE got' = got
    BY <2>3, <2>6, SMT
  <2>7. QED
    BY <2>1, <2>4, <2>5, <2>6 DEF Next, PushStep, Write, AssignRevision, CommitTxn, AbortTxn,
       BeginPush, ReadTable, ReceiveAnswer, FinishPush, FailPush
<1>2. QED
  BY <1>1, InvHolds, PTL DEF Spec, NeverBack

=============================================================================
