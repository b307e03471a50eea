----------------------------- MODULE Shop_proofs -----------------------------
(***************************************************************************)
(* Theorems about Shop for any number of orders and terminals, any stock,  *)
(* prices and discounts.                                                   *)
(*                                                                         *)
(* The accounts of an order are not inductive by themselves: a request in  *)
(* flight may carry a total or a bill read before the order changed, and   *)
(* what it writes must still be right.  Inv adds what holds of those reads *)
(* (a total only ever goes down, so an old one is never too small), and    *)
(* that an order nobody placed has no trace of money.                      *)
(***************************************************************************)
EXTENDS Shop, FiniteSetTheorems, TLAPS

\* What a request r of terminal t that is in flight remembers.
ReadOK(t, r) ==
    /\ r.op = "status" =>
         /\ <<r.from, r.to>> \in MayDo(Role[t])
         /\ ord[r.order].status # "none"
         /\ r.to = "Cancelled" => r.total >= ord[r.order].total
    /\ r.op = "settle" =>
         \A o \in r.orders : ord[o].status # "none" /\ r.bill[o] >= ord[o].total
    /\ r.op \in {"void", "refund"} => ord[r.order].status # "none"
    /\ r.op = "refund" => ord[r.order].pay # "unpaid"

ReadsHold == \A t \in Terminal : ReadOK(t, req[t])

\* The accounts of an order that was placed.
OrderOK(o) ==
    /\ ord[o].pay # "none"
    /\ Live(o) => ord[o].taken = ord[o].returned + ord[o].wasted + Held(o)
    /\ Live(o) => ord[o].refunded <= ord[o].total
    /\ Live(o) => ord[o].pay \notin {"refund_required", "refunded"}
    /\ ord[o].status = "Cancelled" => /\ ord[o].returned + ord[o].wasted >= ord[o].taken
                                      /\ ord[o].pay # "settled"
                                      /\ ord[o].pay # "unpaid" => ord[o].refunded >= ord[o].total
    /\ IsPaid(o) => ord[o].received >= ord[o].total
    /\ ord[o].pay = "unpaid" => ord[o].received = 0 /\ ord[o].refunded = 0
    /\ till[o] = ord[o].received - ord[o].refunded

OrdersOK == \A o \in Order : IF Placed(o) THEN OrderOK(o) ELSE ord[o] = NoOrder /\ till[o] = 0

Inv == TypeOK /\ OrdersOK /\ ReadsHold

\* What no step undoes of an order: its total only goes down, and once it is
\* paid it does not owe again.
Onward(o) ==
    /\ ord'[o].total <= ord[o].total
    /\ ord[o].pay # "unpaid" => ord'[o].pay # "unpaid"

-----------------------------------------------------------------------------
\* A share of an amount is a natural number, whatever is rounded.
LEMMA ProrateNat ==
    ASSUME NEW share \in Nat, NEW base \in Nat, NEW whole \in Nat
    PROVE  Prorate(share, base, whole) \in Nat
<1>1. CASE whole = 0
  BY <1>1 DEF Prorate
<1>2. CASE whole # 0
  <2>1. share * base \in Nat
    OBVIOUS
  <2>2. 2 * share * base + whole \in Nat
    <3>1. 2 * share * base = 2 * (share * base)
      OBVIOUS
    <3> QED BY <2>1, <3>1
  <2>3. 2 * whole \in Nat \ {0}
    BY <1>2
  <2>4. ASSUME NEW a \in Nat, NEW b \in Nat \ {0} PROVE a \div b \in Nat
    OBVIOUS
  <2> QED BY <1>2, <2>2, <2>3, <2>4 DEF Prorate
<1> QED BY <1>1, <1>2

-----------------------------------------------------------------------------
\* What a request holds, by its kind.
LEMMA RequestKinds ==
    ASSUME NEW r \in Request
    PROVE  /\ r.op = "checkout" => /\ r.order \in Order /\ r.base \in 1..MaxQty
                                   /\ r.gift \in 0..MaxGift /\ r.discount \in Discount
                                   /\ r.table \in BOOLEAN
                                   /\ r.percent \in Charges /\ r.fee \in Fees
           /\ r.op = "status" => /\ r.order \in Order /\ r.from \in Status
                                 /\ r.to \in Status /\ r.total \in Nat
           /\ r.op = "void" => r.order \in Order /\ r.line \in Line /\ r.n \in 1..MaxQty
           /\ r.op = "settle" => r.orders \in SUBSET Order /\ r.bill \in [Order -> Nat]
           /\ r.op = "refund" => r.order \in Order /\ r.amount \in 1..MaxRefund
  BY DEF Request, Idle

\* An order row, field by field.
LEMMA RowType ==
    ASSUME TypeOK, NEW o \in Order
    PROVE  /\ ord[o].status \in Status \cup {"none"}
           /\ ord[o].pay \in PayStatus \cup {"none"}
           /\ ord[o].qty["base"] \in Nat
           /\ ord[o].qty["gift"] \in Nat
           /\ Held(o) \in Nat
           /\ ord[o].taken \in Nat
           /\ ord[o].returned \in Nat
           /\ ord[o].wasted \in Nat
           /\ ord[o].pickup \in 0..MaxPickup
           /\ ord[o].total \in Nat
           /\ ord[o].service \in Nat
           /\ ord[o].fee \in Nat
           /\ ord[o].received \in Nat
           /\ ord[o].refunded \in Nat
           /\ till[o] \in Int
  BY DEF TypeOK, OrderRow, Line, Held

\* What putting n portions back, or not, does to the stock.
LEMMA RestockedType ==
    ASSUME TypeOK, NEW n \in Nat, NEW restock \in BOOLEAN, Restocked(n, restock)
    PROVE  /\ stock' \in Nat /\ soldOut' \in BOOLEAN
           /\ stock' = stock + (IF restock THEN n ELSE 0)
<1>1. CASE restock
  BY <1>1 DEF Restocked, PutBack, TypeOK
<1>2. CASE ~restock
  BY <1>2 DEF Restocked, TypeOK
<1> QED BY <1>1, <1>2

\* The shop starts with no orders and no requests.
THEOREM InitInv == Init => Inv
<1> SUFFICES ASSUME Init PROVE Inv
  OBVIOUS
<1> USE StockAssumption, PickupAssumption
<1>1. TypeOK
  <2>1. NoOrder \in OrderRow
    BY DEF NoOrder, OrderRow, Line
  <2> QED BY <2>1 DEF Init, TypeOK, Request
<1>2. OrdersOK
  BY DEF Init, OrdersOK, Placed, NoOrder
<1>3. ReadsHold
  BY DEF Init, ReadsHold, ReadOK, Idle
<1> QED BY <1>1, <1>2, <1>3 DEF Inv

-----------------------------------------------------------------------------
(***************************************************************************)
(* What is left to show of a step: the types, the accounts of the orders   *)
(* it writes, that it takes no total up, and that the requests it starts   *)
(* read the truth.                                                         *)
(***************************************************************************)
LEMMA StepInv ==
    ASSUME Inv, TypeOK',
           \A u \in Terminal : req'[u] = req[u] \/ ReadOK(u, req[u])',
           \A p \in Order :
              \/ ord'[p] = ord[p] /\ till'[p] = till[p]
              \/ /\ Placed(p)' /\ OrderOK(p)'
                 /\ Placed(p) => Onward(p)
    PROVE  Inv'
<1>1. OrdersOK'
  <2> SUFFICES ASSUME NEW p \in Order
               PROVE  (IF Placed(p) THEN OrderOK(p) ELSE ord[p] = NoOrder /\ till[p] = 0)'
    BY DEF OrdersOK
  <2>1. CASE Placed(p)' /\ OrderOK(p)'
    BY <2>1
  <2>2. CASE ord'[p] = ord[p] /\ till'[p] = till[p]
    BY <2>2 DEF Inv, OrdersOK, OrderOK, Placed, Live, IsPaid, Held
  <2> QED BY <2>1, <2>2
<1>2. ReadsHold'
  <2>1. \A p \in Order : /\ ord[p].total \in Nat /\ ord'[p].total \in Nat
                         /\ ord[p].status # "none" => ord'[p].status # "none" /\ Onward(p)
    <3>1. \A p \in Order : ord[p].total \in Nat /\ ord'[p].total \in Nat
      BY DEF Inv, TypeOK, OrderRow
    <3> SUFFICES ASSUME NEW p \in Order, ord[p].status # "none"
                 PROVE  ord'[p].status # "none" /\ Onward(p)
      BY <3>1
    <3>2. CASE ord'[p] = ord[p]
      BY <3>1, <3>2 DEF Onward
    <3>3. CASE Placed(p)' /\ (Placed(p) => Onward(p))
      BY <3>3 DEF Placed
    <3> QED BY <3>2, <3>3
  <2>2. ASSUME NEW u \in Terminal, NEW r \in Request, ReadOK(u, r) PROVE ReadOK(u, r)'
    <3>1. r.op = "status" => r.order \in Order /\ r.total \in Nat
      BY RequestKinds
    <3>2. r.op = "settle" => r.orders \in SUBSET Order /\ r.bill \in [Order -> Nat]
      BY RequestKinds
    <3>3. r.op \in {"void", "refund"} => r.order \in Order
      BY RequestKinds
    <3>4. r.op = "status" =>
            /\ <<r.from, r.to>> \in MayDo(Role[u])
            /\ ord'[r.order].status # "none"
            /\ r.to = "Cancelled" => r.total >= ord'[r.order].total
      BY <2>1, <2>2, <3>1 DEF ReadOK, Onward
    <3>5. r.op = "settle" =>
            \A p \in r.orders : ord'[p].status # "none" /\ r.bill[p] >= ord'[p].total
      <4> SUFFICES ASSUME r.op = "settle", NEW p \in r.orders
                   PROVE  ord'[p].status # "none" /\ r.bill[p] >= ord'[p].total
        OBVIOUS
      <4>1. p \in Order /\ r.bill[p] \in Nat
        BY <3>2
      <4>2. ord[p].status # "none" /\ r.bill[p] >= ord[p].total
        BY <2>2 DEF ReadOK
      <4> QED BY <2>1, <4>1, <4>2 DEF Onward
    <3>6. /\ r.op \in {"void", "refund"} => ord'[r.order].status # "none"
          /\ r.op = "refund" => ord'[r.order].pay # "unpaid"
      BY <2>1, <2>2, <3>3 DEF ReadOK, Onward
    <3> QED BY <3>4, <3>5, <3>6 DEF ReadOK
  <2>3. ASSUME NEW u \in Terminal PROVE ReadOK(u, req[u])'
    <3>1. CASE ReadOK(u, req[u])'
      BY <3>1
    <3>2. CASE req'[u] = req[u]
      <4>1. req[u] \in Request /\ ReadOK(u, req[u])
        BY DEF Inv, TypeOK, ReadsHold
      <4> QED BY <2>2, <3>2, <4>1 DEF ReadOK
    <3> QED BY <3>1, <3>2
  <2> QED BY <2>3 DEF ReadsHold
<1> QED BY <1>1, <1>2 DEF Inv

\* A request that ends remembers nothing.
LEMMA FinishOK ==
    ASSUME TypeOK, NEW t \in Terminal, Finish(t)
    PROVE  /\ req' \in [Terminal -> Request]
           /\ \A u \in Terminal : req'[u] = req[u] \/ ReadOK(u, req[u])'
<1>1. req' \in [Terminal -> Request]
  BY DEF TypeOK, Finish, Request
<1>2. ASSUME NEW u \in Terminal PROVE req'[u] = req[u] \/ req'[u] = Idle
  BY DEF TypeOK, Finish
<1>3. ASSUME NEW u \in Terminal, req'[u] = Idle PROVE ReadOK(u, req[u])'
  BY <1>3 DEF ReadOK, Idle
<1> QED BY <1>1, <1>2, <1>3

\* The row a void leaves: a row, with n portions fewer held and n more put back.
LEMMA VoidedRow ==
    ASSUME TypeOK, NEW o \in Order, NEW l \in Line, NEW n \in Nat, NEW less \in Nat,
           NEW refund \in Nat, NEW restock \in BOOLEAN,
           ord[o].qty[l] >= n, ord[o].pay = "unpaid" => less <= ord[o].total
    PROVE  LET v == Voided(o, l, n, less, refund, restock)
           IN  /\ v \in OrderRow
               /\ v.qty["base"] + v.qty["gift"] = Held(o) - n
               /\ v.status = ord[o].status /\ v.pay = ord[o].pay
               /\ v.taken = ord[o].taken
               /\ v.returned + v.wasted = ord[o].returned + ord[o].wasted + n
               /\ v.received = ord[o].received /\ v.refunded = ord[o].refunded + refund
               /\ v.total = IF ord[o].pay = "unpaid" THEN ord[o].total - less ELSE ord[o].total
<1> DEFINE v == Voided(o, l, n, less, refund, restock)
           q == Fewer(ord[o].qty, l, n)
           w == More(ord[o].voided, l, n)
           back == IF restock THEN ord[o].returned + n ELSE ord[o].returned
           lost == IF restock THEN ord[o].wasted ELSE ord[o].wasted + n
<1>1. ord[o] \in OrderRow
  BY DEF TypeOK
<1>2. q \in [Line -> Nat] /\ q["base"] + q["gift"] = Held(o) - n
  <2>1. ord[o].qty \in [Line -> Nat]
    BY <1>1 DEF OrderRow
  <2>2. \A k \in Line : q[k] = IF k = l THEN ord[o].qty[k] - n ELSE ord[o].qty[k]
    BY <2>1 DEF Fewer
  <2>3. q \in [Line -> Nat]
    BY <2>1 DEF Fewer
  <2>4. ord[o].qty["base"] \in Nat /\ ord[o].qty["gift"] \in Nat
    BY <2>1 DEF Line
  <2>5. q["base"] + q["gift"] = Held(o) - n
    BY <2>2, <2>4 DEF Line, Held
  <2> QED BY <2>3, <2>5
<1>3. v.qty = q
  BY <1>1 DEF Voided, OrderRow
<1>4. /\ v.status = ord[o].status /\ v.pay = ord[o].pay /\ v.pickup = ord[o].pickup
      /\ v.taken = ord[o].taken /\ v.returned = back /\ v.wasted = lost
      /\ v.received = ord[o].received /\ v.refunded = ord[o].refunded + refund
      /\ v.total = IF ord[o].pay = "unpaid" THEN ord[o].total - less ELSE ord[o].total
  BY <1>1 DEF Voided, OrderRow
<1>6. back \in Nat /\ lost \in Nat /\ back + lost = ord[o].returned + ord[o].wasted + n
  <2>1. ord[o].returned \in Nat /\ ord[o].wasted \in Nat
    BY <1>1 DEF OrderRow
  <2> QED BY <2>1
<1>7. w \in [Line -> Nat]
  <2>1. ord[o].voided \in [Line -> Nat]
    BY <1>1 DEF OrderRow
  <2> QED BY <2>1 DEF More
<1>5. v \in OrderRow
  <2> DEFINE v1 == [ord[o] EXCEPT !.qty = q]
             va == [v1 EXCEPT !.voided = w]
             vb == [va EXCEPT !.returned = back]
             v2 == [vb EXCEPT !.wasted = lost]
             v3 == [v2 EXCEPT !.total = IF ord[o].pay = "unpaid" THEN ord[o].total - less
                                                                ELSE ord[o].total]
             v4 == [v3 EXCEPT !.refunded = ord[o].refunded + refund]
  <2>1. v = v4
    <3>1. CASE restock
      BY <1>1, <3>1 DEF Voided, OrderRow
    <3>2. CASE ~restock
      BY <1>1, <3>2 DEF Voided, OrderRow
    <3> QED BY <3>1, <3>2
  <2>2. v1 \in OrderRow
    BY <1>1, <1>2 DEF OrderRow
  <2> HIDE DEF w, back, lost
  <2>6. va \in OrderRow
    <3> HIDE DEF v1
    <3> QED BY <1>7, <2>2 DEF OrderRow
  <2>7. vb \in OrderRow
    <3> HIDE DEF va
    <3> QED BY <1>6, <2>6 DEF OrderRow
  <2>3. v2 \in OrderRow
    <3> HIDE DEF vb
    <3> QED BY <1>6, <2>7 DEF OrderRow
  <2>4. v3 \in OrderRow
    <3>1. (IF ord[o].pay = "unpaid" THEN ord[o].total - less ELSE ord[o].total) \in Nat
      BY <1>1 DEF OrderRow
    <3> HIDE DEF v2
    <3> QED BY <2>3, <3>1 DEF OrderRow
  <2>5. v4 \in OrderRow
    <3>1. ord[o].refunded + refund \in Nat
      BY <1>1 DEF OrderRow
    <3> HIDE DEF v3
    <3> QED BY <2>4, <3>1 DEF OrderRow
  <2> QED BY <2>1, <2>5
<1> QED BY <1>2, <1>3, <1>4, <1>5, <1>6

\* A void gives up what it puts back, and refunds no more than is left.
LEMMA VoidInv ==
    ASSUME Inv, NEW t \in Terminal, NEW restock \in Restock, CommitVoid(t, restock)
    PROVE  Inv'
<1>0. PICK r \in Request : r = req[t]
  BY DEF Inv, TypeOK
<1> DEFINE o == r.order
           due == AtLeast0(ord[o].total - ord[o].refunded)
           base == AtLeast0(ord[o].total - ord[o].fee - ord[o].refunded)
           amount == Lesser(Prorate(LinePrice(r.line) * r.n, base, Subtotal(o)), due)
           refund == IF IsPaid(o) THEN amount ELSE 0
           row == ord'[o]
<1>1. TypeOK /\ OrdersOK /\ ReadsHold
  BY DEF Inv
<1>2. o \in Order /\ r.line \in Line /\ r.n \in Nat
  BY <1>0, RequestKinds, StockAssumption DEF CommitVoid
<1>3. Placed(o) /\ OrderOK(o)
  BY <1>0, <1>1, <1>2 DEF CommitVoid, ReadsHold, ReadOK, OrdersOK, Placed
<1>4. due \in Nat /\ due <= AtLeast0(ord[o].total) /\ base \in Nat
  BY <1>1, <1>2, RowType DEF AtLeast0
<1>5. amount \in Nat /\ amount <= due
  <2>1. LinePrice(r.line) * r.n \in Nat
    BY <1>2, PriceAssumption DEF LinePrice
  <2>2. Subtotal(o) \in Nat
    BY <1>1, <1>2, RowType, PriceAssumption DEF Subtotal
  <2>3. Prorate(LinePrice(r.line) * r.n, base, Subtotal(o)) \in Nat
    BY <1>4, <2>1, <2>2, ProrateNat
  <2> QED BY <1>4, <2>3 DEF Lesser
<1>6. /\ row = Voided(o, r.line, r.n, amount - refund, refund, restock)
      /\ \A p \in Order \ {o} : ord'[p] = ord[p]
  BY <1>0, <1>1, <1>2 DEF CommitVoid, TypeOK
<1>7. refund \in Nat /\ amount - refund \in Nat /\ refund <= amount
  BY <1>5
<1>8. ord[o].pay = "unpaid" => amount - refund <= ord[o].total
  <2>1. ord[o].total \in Nat /\ ord[o].refunded \in Nat
    BY <1>1, <1>2, RowType
  <2> QED BY <1>4, <1>5, <1>7, <2>1 DEF AtLeast0
<1> HIDE DEF amount, refund, due, base, row
<1>9. /\ row \in OrderRow
      /\ row.qty["base"] + row.qty["gift"] = Held(o) - r.n
      /\ row.status = ord[o].status /\ row.pay = ord[o].pay
      /\ row.taken = ord[o].taken
      /\ row.returned + row.wasted = ord[o].returned + ord[o].wasted + r.n
      /\ row.received = ord[o].received /\ row.refunded = ord[o].refunded + refund
      /\ row.total = IF ord[o].pay = "unpaid" THEN ord[o].total - (amount - refund) ELSE ord[o].total
  <2>1. restock \in BOOLEAN
    BY RestockAssumption
  <2>2. ord[o].qty[r.line] >= r.n
    BY <1>0 DEF CommitVoid
  <2> QED BY <1>1, <1>2, <1>6, <1>7, <1>8, <2>1, <2>2, VoidedRow
<1>10. till' = [till EXCEPT ![o] = till[o] - refund]
  BY <1>0 DEF CommitVoid, refund, amount, due, base
<1>11. TypeOK'
  <2>1. ord' \in [Order -> OrderRow]
    BY <1>0, <1>1, <1>2, <1>9 DEF CommitVoid, TypeOK, row
  <2>2. till' \in [Order -> Int]
    BY <1>1, <1>2, <1>7, <1>10 DEF TypeOK
  <2>3. stock' \in Nat /\ soldOut' \in BOOLEAN /\ counter' \in 0..MaxPickup
    <3>1. Restocked(r.n, restock) /\ counter' = counter
      BY <1>0 DEF CommitVoid
    <3> QED BY <1>1, <1>2, <3>1, RestockAssumption, RestockedType DEF TypeOK
  <2>4. req' \in [Terminal -> Request]
    BY <1>1, FinishOK DEF CommitVoid
  <2> QED BY <2>1, <2>2, <2>3, <2>4 DEF TypeOK
<1>12. OrderOK(o)' /\ Placed(o)'
  <2>1. row = ord'[o] /\ till'[o] = till[o] - refund
    BY <1>1, <1>2, <1>10 DEF row, TypeOK
  <2>2. refund > 0 => Live(o)
    BY <1>0 DEF CommitVoid, refund, amount, due, base
  <2>3. ord[o].refunded + refund <= ord[o].total \/ refund = 0
    BY <1>1, <1>2, <1>4, <1>5, <1>7, RowType DEF AtLeast0, due
  <2>4. IsPaid(o) \/ refund = 0
    BY DEF refund
  <2>5. amount - refund \in Nat /\ refund \in Nat /\ r.n \in Nat
    BY <1>2, <1>7
  <2>6. /\ ord[o].total \in Nat /\ ord[o].refunded \in Nat /\ ord[o].received \in Nat
        /\ ord[o].taken \in Nat /\ ord[o].returned \in Nat /\ ord[o].wasted \in Nat
        /\ Held(o) \in Nat /\ till[o] \in Int
    BY <1>1, <1>2, RowType
  <2>15. row.returned \in Nat /\ row.wasted \in Nat
    BY <1>9 DEF OrderRow
  <2>7. Live(o)' = Live(o) /\ IsPaid(o)' = IsPaid(o) /\ Held(o)' = Held(o) - r.n
    BY <1>9, <2>1 DEF Live, IsPaid, Held
  <2>8. Placed(o)' /\ row.pay # "none"
    BY <1>3, <1>9, <2>1 DEF Placed, OrderOK
  <2>9. Live(o) => row.taken = row.returned + row.wasted + (Held(o) - r.n)
    BY <1>3, <1>9, <2>5, <2>6, <2>15 DEF OrderOK
  <2>10. Live(o) => row.refunded <= row.total /\ row.pay \notin {"refund_required", "refunded"}
    <3> SUFFICES ASSUME Live(o)
                 PROVE  row.refunded <= row.total /\ row.pay \notin {"refund_required", "refunded"}
      OBVIOUS
    <3>1. CASE ord[o].pay = "unpaid"
      BY <1>3, <1>8, <1>9, <2>4, <2>5, <2>6, <3>1 DEF OrderOK, IsPaid
    <3>2. CASE ord[o].pay # "unpaid"
      BY <1>3, <1>9, <2>3, <2>6, <3>2 DEF OrderOK
    <3> QED BY <3>1, <3>2
  <2>11. row.status = "Cancelled" => /\ row.returned + row.wasted >= row.taken
                                     /\ row.pay # "settled"
                                     /\ row.pay # "unpaid" => row.refunded >= row.total
    BY <1>3, <1>9, <2>5, <2>6, <2>15 DEF OrderOK
  <2>12. IsPaid(o) => row.received >= row.total
    BY <1>3, <1>9, <2>5, <2>6 DEF OrderOK
  <2>13. row.pay = "unpaid" => row.received = 0 /\ row.refunded = 0
    BY <1>3, <1>9, <2>4, <2>6 DEF OrderOK, IsPaid
  <2>14. till'[o] = row.received - row.refunded
    BY <1>3, <1>9, <2>1, <2>5, <2>6 DEF OrderOK
  <2> QED
    BY <2>1, <2>7, <2>8, <2>9, <2>10, <2>11, <2>12, <2>13, <2>14 DEF OrderOK
<1>13. Onward(o)
  <2>1. ord[o].total \in Nat
    BY <1>1, <1>2, RowType
  <2> QED BY <1>7, <1>9, <2>1 DEF row, Onward
<1>14. \A p \in Order \ {o} : ord'[p] = ord[p] /\ till'[p] = till[p]
  BY <1>1, <1>6, <1>10 DEF TypeOK
<1>15. \A u \in Terminal : req'[u] = req[u] \/ ReadOK(u, req[u])'
  BY <1>1, FinishOK DEF CommitVoid
<1> QED BY <1>11, <1>12, <1>13, <1>14, <1>15, StepInv

\* The row a cancellation leaves.
LEMMA CancelledRow ==
    ASSUME TypeOK, NEW o \in Order, NEW refund \in Nat, NEW restock \in BOOLEAN
    PROVE  LET v == Cancelled(o, refund, restock)
           IN  /\ v \in OrderRow
               /\ v.status = "Cancelled" /\ v.qty = ord[o].qty
               /\ v.pay = IF ord[o].pay = "settled" THEN "refund_required" ELSE ord[o].pay
               /\ v.taken = ord[o].taken
               /\ v.returned + v.wasted = ord[o].returned + ord[o].wasted + Held(o)
               /\ v.received = ord[o].received /\ v.refunded = ord[o].refunded + refund
               /\ v.total = ord[o].total
<1> DEFINE back == IF restock THEN ord[o].returned + Held(o) ELSE ord[o].returned
           lost == IF restock THEN ord[o].wasted ELSE ord[o].wasted + Held(o)
           v == Cancelled(o, refund, restock)
           v1 == [ord[o] EXCEPT !.status = "Cancelled"]
           v2 == [v1 EXCEPT !.pay = IF ord[o].pay = "settled" THEN "refund_required" ELSE ord[o].pay]
           vb == [v2 EXCEPT !.returned = back]
           v3 == [vb EXCEPT !.wasted = lost]
           v4 == [v3 EXCEPT !.refunded = ord[o].refunded + refund]
<1>1. ord[o] \in OrderRow /\ Held(o) \in Nat
  BY RowType DEF TypeOK
<1>2. v = v4
  BY <1>1 DEF Cancelled, OrderRow
<1>3. /\ v.status = "Cancelled" /\ v.qty = ord[o].qty
      /\ v.pay = IF ord[o].pay = "settled" THEN "refund_required" ELSE ord[o].pay
      /\ v.taken = ord[o].taken /\ v.returned = back /\ v.wasted = lost
      /\ v.received = ord[o].received /\ v.refunded = ord[o].refunded + refund
      /\ v.total = ord[o].total
  BY <1>1 DEF Cancelled, OrderRow
<1>8. back \in Nat /\ lost \in Nat /\ back + lost = ord[o].returned + ord[o].wasted + Held(o)
  <2>1. ord[o].returned \in Nat /\ ord[o].wasted \in Nat
    BY <1>1 DEF OrderRow
  <2> QED BY <1>1, <2>1
<1> HIDE DEF back, lost
<1>4. v1 \in OrderRow
  BY <1>1 DEF OrderRow, Status
<1>5. v2 \in OrderRow
  <2>1. (IF ord[o].pay = "settled" THEN "refund_required" ELSE ord[o].pay) \in PayStatus \cup {"none"}
    BY <1>1 DEF OrderRow, PayStatus
  <2> HIDE DEF v1
  <2> QED BY <1>4, <2>1 DEF OrderRow
<1>9. vb \in OrderRow
  <2> HIDE DEF v2
  <2> QED BY <1>5, <1>8 DEF OrderRow
<1>6. v3 \in OrderRow
  <2> HIDE DEF vb
  <2> QED BY <1>8, <1>9 DEF OrderRow
<1>7. v4 \in OrderRow
  <2>1. ord[o].refunded + refund \in Nat
    BY <1>1 DEF OrderRow
  <2> HIDE DEF v3
  <2> QED BY <1>6, <2>1 DEF OrderRow
<1> QED BY <1>2, <1>3, <1>7, <1>8

\* A cancellation puts back all that is held and refunds what was paid, also from
\* a total read before.
LEMMA CancelInv ==
    ASSUME Inv, NEW t \in Terminal, NEW restock \in Restock, CommitCancel(t, restock)
    PROVE  Inv'
<1>0. PICK r \in Request : r = req[t]
  BY DEF Inv, TypeOK
<1> DEFINE o == r.order
           amount == IF IsPaid(o) THEN AtLeast0(r.total - ord[o].refunded) ELSE 0
           row == ord'[o]
<1>1. TypeOK /\ OrdersOK /\ ReadsHold
  BY DEF Inv
<1>2. o \in Order /\ r.total \in Nat /\ r.op = "status" /\ r.to = "Cancelled"
  BY <1>0, RequestKinds DEF CommitCancel
<1>3. Placed(o) /\ OrderOK(o) /\ r.total >= ord[o].total
  BY <1>0, <1>1, <1>2 DEF ReadsHold, ReadOK, OrdersOK, Placed
<1>4. Live(o)
  <2>1. <<r.from, r.to>> \in Legal
    BY <1>0, <1>1, <1>2, RoleAssumption DEF ReadsHold, ReadOK, MayDo, Roles, Legal
  <2> QED BY <1>0, <1>2, <2>1 DEF CommitCancel, StillAsRead, Legal, Live
<1>5. /\ ord[o].total \in Nat /\ ord[o].refunded \in Nat /\ ord[o].received \in Nat
      /\ ord[o].taken \in Nat /\ ord[o].returned \in Nat /\ ord[o].wasted \in Nat
      /\ Held(o) \in Nat /\ till[o] \in Int
      /\ ord[o].pay \in PayStatus \cup {"none"} /\ restock \in BOOLEAN
  BY <1>1, <1>2, RowType, RestockAssumption
<1>6. amount \in Nat
  BY <1>2, <1>5 DEF AtLeast0
<1>7. /\ row = Cancelled(o, amount, restock)
      /\ ord' \in [Order -> OrderRow]
      /\ \A p \in Order \ {o} : ord'[p] = ord[p]
  BY <1>0, <1>1, <1>2, <1>5, <1>6, CancelledRow DEF CommitCancel, TypeOK
<1>8. till' = [till EXCEPT ![o] = till[o] - amount]
  BY <1>0 DEF CommitCancel
<1>9. IsPaid(o) => ord[o].refunded + amount >= ord[o].total
  BY <1>2, <1>3, <1>5 DEF AtLeast0
<1>10. ~IsPaid(o) => ord[o].pay = "unpaid"
  BY <1>3, <1>4, <1>5 DEF OrderOK, IsPaid, PayStatus
<1> HIDE DEF amount, row
<1>11. /\ row.status = "Cancelled" /\ row.qty = ord[o].qty
       /\ row.pay = IF ord[o].pay = "settled" THEN "refund_required" ELSE ord[o].pay
       /\ row.taken = ord[o].taken
       /\ row.returned + row.wasted = ord[o].returned + ord[o].wasted + Held(o)
       /\ row.received = ord[o].received /\ row.refunded = ord[o].refunded + amount
       /\ row.total = ord[o].total
  BY <1>1, <1>2, <1>5, <1>6, <1>7, CancelledRow
<1>12. TypeOK'
  <2>1. till' \in [Order -> Int]
    BY <1>1, <1>2, <1>6, <1>8 DEF TypeOK
  <2>2. stock' \in Nat /\ soldOut' \in BOOLEAN /\ counter' \in 0..MaxPickup
    <3>1. Restocked(Held(o), restock) /\ counter' = counter
      BY <1>0 DEF CommitCancel
    <3> QED BY <1>1, <1>5, <3>1, RestockedType DEF TypeOK
  <2>3. req' \in [Terminal -> Request]
    BY <1>1, FinishOK DEF CommitCancel
  <2> QED BY <1>7, <2>1, <2>2, <2>3 DEF TypeOK
<1>13. OrderOK(o)' /\ Placed(o)'
  <2>1. row = ord'[o] /\ till'[o] = till[o] - amount
    BY <1>1, <1>2, <1>8 DEF row, TypeOK
  <2>2. ~Live(o)' /\ Placed(o)' /\ row.pay # "none" /\ row.pay # "settled"
    BY <1>3, <1>11, <2>1 DEF Live, Placed, OrderOK
  <2>3. row.returned + row.wasted >= row.taken
    BY <1>3, <1>4, <1>5, <1>11 DEF OrderOK
  <2>4. row.pay # "unpaid" => row.refunded >= row.total
    BY <1>5, <1>6, <1>9, <1>10, <1>11
  <2>5. row.pay \in {"at_once", "settled"} => row.received >= row.total
    BY <1>3, <1>5, <1>11 DEF OrderOK, IsPaid
  <2>6. row.pay = "unpaid" => row.received = 0 /\ row.refunded = 0
    <3>1. ord[o].pay = "unpaid" => amount = 0
      BY DEF IsPaid, amount
    <3> QED BY <1>3, <1>5, <1>11, <3>1 DEF OrderOK
  <2>7. till'[o] = row.received - row.refunded
    BY <1>3, <1>5, <1>6, <1>11, <2>1 DEF OrderOK
  <2> QED BY <2>1, <2>2, <2>3, <2>4, <2>5, <2>6, <2>7 DEF OrderOK, IsPaid
<1>14. \A p \in Order \ {o} : ord'[p] = ord[p] /\ till'[p] = till[p]
  BY <1>1, <1>7, <1>8 DEF TypeOK
<1>15. \A u \in Terminal : req'[u] = req[u] \/ ReadOK(u, req[u])'
  BY <1>1, FinishOK DEF CommitCancel
<1>16. Onward(o)
  BY <1>5, <1>11 DEF row, Onward
<1> QED BY <1>12, <1>13, <1>14, <1>15, <1>16, StepInv

\* A new order holds what it took and collected its amount, or owes it.
LEMMA CheckoutInv ==
    ASSUME Inv, NEW t \in Terminal, CommitCheckout(t)
    PROVE  Inv'
<1>0. PICK r \in Request : r = req[t]
  BY DEF Inv, TypeOK
<1> DEFINE o == r.order
           gift == GiftsGiven(r.base, r.gift)
           row == NewOrder(r, gift)
           pay == IF r.table THEN "unpaid" ELSE "at_once"
           q == [l \in Line |-> IF l = "base" THEN r.base ELSE gift]
           none == [l \in Line |-> 0]
<1>1. TypeOK /\ OrdersOK /\ ReadsHold
  BY DEF Inv
<1>2. /\ o \in Order /\ r.base \in Nat /\ r.gift \in Nat /\ r.discount \in Nat
      /\ r.table \in BOOLEAN /\ r.percent \in Nat /\ r.fee \in Nat
  <2>1. /\ o \in Order /\ r.base \in 1..MaxQty /\ r.gift \in 0..MaxGift
        /\ r.discount \in Discount /\ r.table \in BOOLEAN
        /\ r.percent \in Charges /\ r.fee \in Fees
    BY <1>0, RequestKinds DEF CommitCheckout
  <2>2. r.discount \in Nat /\ r.fee \in Nat
    BY <2>1, PriceAssumption, ChargeAssumption
  <2>3. r.percent \in 0..30
    BY <2>1, ChargeAssumption
  <2> QED BY <2>1, <2>2, <2>3, StockAssumption
<1>3. gift \in Nat
  BY <1>2 DEF GiftsGiven
<1>4. Amount(r) \in Nat /\ Service(r) \in Nat /\ Cash(r) \in Nat /\ NextPickup \in 1..MaxPickup
  <2>1. Discounted(r) \in Nat
    <3>1. Price * r.base \in Nat
      BY <1>2, PriceAssumption
    <3> QED BY <1>2, <3>1 DEF Discounted, AtLeast0
  <2>4. Service(r) \in Nat
    <3>1. Discounted(r) * r.percent \in Nat
      BY <1>2, <2>1
    <3>2. 2 * Discounted(r) * r.percent = 2 * (Discounted(r) * r.percent)
      BY <1>2, <2>1
    <3>3. ASSUME NEW a \in Nat PROVE (2 * a + 100) \div 200 \in Nat
      OBVIOUS
    <3> QED BY <3>1, <3>2, <3>3 DEF Service
  <2>2. Amount(r) \in Nat
    BY <1>2, <2>1, <2>4 DEF Amount
  <2>3. NextPickup \in 1..MaxPickup
    BY <1>1, PickupAssumption DEF NextPickup, TypeOK
  <2> QED BY <2>2, <2>3, <2>4 DEF Cash
<1>5. /\ pay \in {"at_once", "unpaid"} /\ q \in [Line -> Nat]
      /\ q["base"] = r.base /\ q["gift"] = gift /\ none \in [Line -> Nat]
  BY <1>2, <1>3 DEF Line
<1>6. row = [status |-> "Pending", pay |-> pay, qty |-> q, voided |-> none,
             taken |-> r.base + gift, returned |-> 0, wasted |-> 0, pickup |-> NextPickup,
             total |-> Amount(r), service |-> Service(r), fee |-> r.fee,
             received |-> Cash(r), refunded |-> 0]
  BY DEF NewOrder
<1> HIDE DEF row, q, none, pay, gift
<1>7. /\ row \in OrderRow
      /\ row.status = "Pending" /\ row.pay = pay
      /\ row.qty["base"] = r.base /\ row.qty["gift"] = gift
      /\ row.taken = r.base + gift /\ row.returned = 0 /\ row.wasted = 0
      /\ row.total = Amount(r) /\ row.received = Cash(r) /\ row.refunded = 0
  <2>1. /\ "Pending" \in Status \cup {"none"} /\ pay \in PayStatus \cup {"none"}
        /\ r.base + gift \in Nat /\ NextPickup \in 0..MaxPickup
    BY <1>2, <1>3, <1>4, <1>5, PickupAssumption DEF PayStatus, Status
  <2> QED BY <1>2, <1>4, <1>5, <1>6, <2>1 DEF OrderRow
<1>8. /\ ord' = [ord EXCEPT ![o] = row]
      /\ till' = [till EXCEPT ![o] = till[o] + Cash(r)]
      /\ ord[o] = NoOrder /\ till[o] = 0
  <2>1. ~Placed(o)
    BY <1>0 DEF CommitCheckout
  <2> QED BY <1>0, <1>1, <1>2, <2>1 DEF CommitCheckout, OrdersOK, row, gift
<1>9. TypeOK'
  <2>1. ord' \in [Order -> OrderRow] /\ till' \in [Order -> Int]
    BY <1>1, <1>2, <1>4, <1>7, <1>8 DEF TypeOK
  <2>2. stock' \in Nat /\ soldOut' \in BOOLEAN
    BY <1>0, <1>1, <1>2, <1>3 DEF CommitCheckout, Take, CanTake, TypeOK, gift
  <2>3. req' \in [Terminal -> Request] /\ counter' \in 0..MaxPickup
    BY <1>1, <1>4, FinishOK DEF CommitCheckout
  <2> QED BY <2>1, <2>2, <2>3 DEF TypeOK
<1>10. ord'[o] = row /\ till'[o] = Cash(r)
  <2>1. till'[o] = 0 + Cash(r)
    BY <1>1, <1>2, <1>8 DEF TypeOK
  <2> QED BY <1>1, <1>2, <1>4, <1>8, <2>1 DEF TypeOK
<1>11. OrderOK(o)' /\ Placed(o)' /\ ~Placed(o)
  <2>1. /\ pay = "unpaid" => Cash(r) = 0
        /\ pay = "at_once" => Cash(r) = Amount(r)
    BY DEF Cash, pay
  <2>2. Placed(o)' /\ ~Placed(o)
    BY <1>7, <1>8, <1>10 DEF Placed, NoOrder
  <2>3. ord'[o].taken = ord'[o].returned + ord'[o].wasted
                          + (ord'[o].qty["base"] + ord'[o].qty["gift"])
    BY <1>2, <1>3, <1>7, <1>10
  <2>4. ord'[o].refunded <= ord'[o].total
    BY <1>4, <1>7, <1>10
  <2>5. ord'[o].pay \in {"at_once", "settled"} => ord'[o].received >= ord'[o].total
    BY <1>4, <1>5, <1>7, <1>10, <2>1
  <2>6. ord'[o].pay = "unpaid" => ord'[o].received = 0 /\ ord'[o].refunded = 0
    BY <1>7, <1>10, <2>1
  <2>7. till'[o] = ord'[o].received - ord'[o].refunded
    BY <1>4, <1>7, <1>10
  <2>8. ord'[o].status = "Pending" /\ ord'[o].pay \notin {"none", "refund_required", "refunded"}
    BY <1>5, <1>7, <1>10
  <2> QED
    BY <2>2, <2>3, <2>4, <2>5, <2>6, <2>7, <2>8 DEF OrderOK, Live, IsPaid, Held
<1>12. \A p \in Order \ {o} : ord'[p] = ord[p] /\ till'[p] = till[p]
  BY <1>1, <1>8 DEF TypeOK
<1>13. \A u \in Terminal : req'[u] = req[u] \/ ReadOK(u, req[u])'
  BY <1>1, FinishOK DEF CommitCheckout
<1> QED BY <1>9, <1>11, <1>12, <1>13, StepInv

\* A status change other than a cancellation touches no account.
LEMMA StatusInv ==
    ASSUME Inv, NEW t \in Terminal, CommitStatus(t)
    PROVE  Inv'
<1>0. PICK r \in Request : r = req[t]
  BY DEF Inv, TypeOK
<1> DEFINE o == r.order
           row == [ord[o] EXCEPT !.status = r.to]
<1>1. TypeOK /\ OrdersOK /\ ReadsHold
  BY DEF Inv
<1>2. o \in Order /\ r.to \in Status /\ r.to # "Cancelled" /\ r.op = "status"
  BY <1>0, RequestKinds DEF CommitStatus
<1>3. Placed(o) /\ OrderOK(o) /\ Live(o)
  <2>1. <<r.from, r.to>> \in Legal /\ Placed(o)
    BY <1>0, <1>1, <1>2, RoleAssumption DEF ReadsHold, ReadOK, MayDo, Roles, Legal, Placed
  <2> QED BY <1>0, <1>1, <1>2, <2>1 DEF CommitStatus, StillAsRead, Legal, Live, OrdersOK
<1>4. ord[o] \in OrderRow
  BY <1>1, <1>2 DEF TypeOK
<1>5. /\ row \in OrderRow /\ row.status = r.to
      /\ row.pay = ord[o].pay /\ row.qty = ord[o].qty /\ row.taken = ord[o].taken
      /\ row.returned = ord[o].returned
      /\ row.wasted = ord[o].wasted /\ row.total = ord[o].total
      /\ row.received = ord[o].received /\ row.refunded = ord[o].refunded
  BY <1>2, <1>4 DEF OrderRow
<1>6. ord' = [ord EXCEPT ![o] = row] /\ till' = till
  BY <1>0, <1>1, <1>2 DEF CommitStatus, TypeOK
<1> HIDE DEF row
<1>7. TypeOK'
  <2>1. req' \in [Terminal -> Request]
    BY <1>1, FinishOK DEF CommitStatus
  <2> QED BY <1>1, <1>2, <1>5, <1>6, <2>1 DEF CommitStatus, TypeOK
<1>8. OrderOK(o)' /\ Placed(o)' /\ Onward(o)
  <2>1. ord'[o] = row /\ till'[o] = till[o]
    BY <1>1, <1>2, <1>6 DEF TypeOK
  <2>2. ord[o].total \in Nat
    BY <1>1, <1>2, RowType
  <2>3. ord'[o].status \in {"Pending", "Completed", "PickedUp"}
    BY <1>2, <1>5, <2>1 DEF Status
  <2>4. /\ ord'[o].pay = ord[o].pay /\ ord'[o].qty = ord[o].qty /\ ord'[o].taken = ord[o].taken
        /\ ord'[o].returned = ord[o].returned
        /\ ord'[o].wasted = ord[o].wasted /\ ord'[o].total = ord[o].total
        /\ ord'[o].received = ord[o].received /\ ord'[o].refunded = ord[o].refunded
    BY <1>5, <2>1
  <2>5. Live(o)' /\ Placed(o)' /\ IsPaid(o)' = IsPaid(o) /\ Held(o)' = Held(o)
    BY <2>3, <2>4 DEF Live, Placed, IsPaid, Held
  <2> QED BY <1>3, <2>1, <2>2, <2>3, <2>4, <2>5 DEF OrderOK, Onward
<1>9. \A p \in Order \ {o} : ord'[p] = ord[p] /\ till'[p] = till[p]
  BY <1>1, <1>6 DEF TypeOK
<1>10. \A u \in Terminal : req'[u] = req[u] \/ ReadOK(u, req[u])'
  BY <1>1, FinishOK DEF CommitStatus
<1> QED BY <1>7, <1>8, <1>9, <1>10, StepInv

\* A settlement collects at least what its orders owe by then.
LEMMA SettleInv ==
    ASSUME Inv, NEW t \in Terminal, CommitSettle(t)
    PROVE  Inv'
<1>0. PICK r \in Request : r = req[t]
  BY DEF Inv, TypeOK
<1>1. TypeOK /\ OrdersOK /\ ReadsHold
  BY DEF Inv
<1>2. r.op = "settle" /\ r.orders \in SUBSET Order /\ r.bill \in [Order -> Nat]
  BY <1>0, RequestKinds DEF CommitSettle
<1>3. ASSUME NEW p \in r.orders
      PROVE  /\ p \in Order /\ Placed(p) /\ OrderOK(p) /\ ord[p].pay = "unpaid"
             /\ ord[p].status # "Cancelled" /\ r.bill[p] >= ord[p].total /\ r.bill[p] \in Nat
  <2>1. p \in Order /\ r.bill[p] \in Nat
    BY <1>2
  <2>2. OnBill(p)
    BY <1>0 DEF CommitSettle
  <2>3. ord[p].status # "none" /\ r.bill[p] >= ord[p].total
    BY <1>0, <1>1, <1>2 DEF ReadsHold, ReadOK
  <2> QED BY <1>1, <2>1, <2>2, <2>3 DEF OnBill, Placed, OrdersOK
<1>4. ASSUME NEW p \in r.orders
      PROVE  LET v == Settled(p, r.bill[p])
             IN  /\ v \in OrderRow /\ v.pay = "settled" /\ v.received = r.bill[p]
                 /\ v.status = ord[p].status /\ v.qty = ord[p].qty
                 /\ v.taken = ord[p].taken /\ v.returned = ord[p].returned
                 /\ v.wasted = ord[p].wasted
                 /\ v.total = ord[p].total /\ v.refunded = ord[p].refunded
  <2> DEFINE v == Settled(p, r.bill[p])
             v1 == [ord[p] EXCEPT !.pay = "settled"]
             v2 == [v1 EXCEPT !.received = r.bill[p]]
  <2>1. ord[p] \in OrderRow /\ r.bill[p] \in Nat
    BY <1>1, <1>3 DEF TypeOK
  <2>2. v = v2
    BY DEF Settled
  <2>3. /\ v.pay = "settled" /\ v.received = r.bill[p]
        /\ v.status = ord[p].status /\ v.qty = ord[p].qty
        /\ v.taken = ord[p].taken /\ v.returned = ord[p].returned /\ v.wasted = ord[p].wasted
        /\ v.total = ord[p].total /\ v.refunded = ord[p].refunded
    BY <2>1 DEF Settled, OrderRow
  <2>4. v1 \in OrderRow
    BY <2>1 DEF OrderRow, PayStatus
  <2>5. v2 \in OrderRow
    <3> HIDE DEF v1
    <3> QED BY <2>1, <2>4 DEF OrderRow
  <2> QED BY <2>2, <2>3, <2>5
<1>5. ASSUME NEW p \in r.orders
      PROVE  ord'[p] = Settled(p, r.bill[p]) /\ till'[p] = till[p] + r.bill[p]
  BY <1>0, <1>3 DEF CommitSettle
<1>6. \A p \in Order \ r.orders : ord'[p] = ord[p] /\ till'[p] = till[p]
  BY <1>0 DEF CommitSettle
<1>7. TypeOK'
  <2>1. \A p \in Order : ord'[p] \in OrderRow
    BY <1>1, <1>4, <1>5, <1>6 DEF TypeOK
  <2>2. \A p \in Order : till'[p] \in Int
    <3> SUFFICES ASSUME NEW p \in Order PROVE till'[p] \in Int
      OBVIOUS
    <3>1. till[p] \in Int
      BY <1>1 DEF TypeOK
    <3> QED BY <1>3, <1>5, <1>6, <3>1
  <2>3. /\ ord' = [p \in Order |-> ord'[p]]
        /\ till' = [p \in Order |-> till'[p]]
    BY <1>0 DEF CommitSettle
  <2>4. ord' \in [Order -> OrderRow] /\ till' \in [Order -> Int]
    BY <2>1, <2>2, <2>3
  <2>5. req' \in [Terminal -> Request]
    BY <1>1, FinishOK DEF CommitSettle
  <2> QED BY <1>1, <2>4, <2>5 DEF CommitSettle, TypeOK
<1>8. ASSUME NEW p \in r.orders
      PROVE  OrderOK(p)' /\ Placed(p)' /\ Onward(p)
  <2>1. /\ ord[p].total \in Nat /\ ord[p].refunded \in Nat /\ ord[p].received \in Nat
        /\ till[p] \in Int
    BY <1>1, <1>3, RowType
  <2>2. /\ ord'[p].pay = "settled" /\ ord'[p].received = r.bill[p]
        /\ ord'[p].status = ord[p].status /\ ord'[p].qty = ord[p].qty
        /\ ord'[p].taken = ord[p].taken /\ ord'[p].returned = ord[p].returned
        /\ ord'[p].wasted = ord[p].wasted
        /\ ord'[p].total = ord[p].total /\ ord'[p].refunded = ord[p].refunded
    BY <1>4, <1>5
  <2>3. Placed(p)' /\ Live(p)' = Live(p) /\ Held(p)' = Held(p) /\ ord'[p].status # "Cancelled"
    BY <1>3, <2>2 DEF Placed, Live, Held
  <2>4. ord'[p].received >= ord'[p].total
    BY <1>3, <2>2
  <2>5. till'[p] = ord'[p].received - ord'[p].refunded
    BY <1>3, <1>5, <2>1, <2>2 DEF OrderOK
  <2> QED BY <1>3, <2>1, <2>2, <2>3, <2>4, <2>5 DEF OrderOK, IsPaid, Onward
<1>9. \A u \in Terminal : req'[u] = req[u] \/ ReadOK(u, req[u])'
  BY <1>1, FinishOK DEF CommitSettle
<1>10. \A p \in Order :
          \/ ord'[p] = ord[p] /\ till'[p] = till[p]
          \/ /\ Placed(p)' /\ OrderOK(p)'
             /\ Placed(p) => Onward(p)
  BY <1>6, <1>8
<1> QED BY <1>7, <1>9, <1>10, StepInv

\* A partial refund leaves no more refunded than the total, and takes nothing
\* from the refund of an order that was cancelled meanwhile.
LEMMA RefundInv ==
    ASSUME Inv, NEW t \in Terminal, CommitRefund(t)
    PROVE  Inv'
<1>0. PICK r \in Request : r = req[t]
  BY DEF Inv, TypeOK
<1> DEFINE o == r.order
           row == [ord[o] EXCEPT !.refunded = ord[o].refunded + r.amount]
<1>1. TypeOK /\ OrdersOK /\ ReadsHold
  BY DEF Inv
<1>2. r.op = "refund" /\ o \in Order /\ r.amount \in Nat \ {0}
  <2>1. r.op = "refund" /\ o \in Order /\ r.amount \in 1..MaxRefund
    BY <1>0, RequestKinds DEF CommitRefund
  <2> QED BY <2>1, PriceAssumption
<1>3. Placed(o) /\ OrderOK(o)
  BY <1>0, <1>1, <1>2 DEF ReadsHold, ReadOK, OrdersOK, Placed
<1>4. /\ ord[o].total \in Nat /\ ord[o].refunded \in Nat /\ ord[o].received \in Nat
      /\ ord[o].taken \in Nat /\ ord[o].returned \in Nat /\ ord[o].wasted \in Nat
      /\ Held(o) \in Nat /\ till[o] \in Int
      /\ ord[o] \in OrderRow
  BY <1>1, <1>2, RowType DEF TypeOK
<1>5. ord[o].total - ord[o].refunded >= r.amount
  BY <1>0 DEF CommitRefund, Claimable
<1>6. /\ row \in OrderRow /\ row.refunded = ord[o].refunded + r.amount
      /\ row.status = ord[o].status /\ row.pay = ord[o].pay /\ row.qty = ord[o].qty
      /\ row.taken = ord[o].taken /\ row.returned = ord[o].returned
      /\ row.wasted = ord[o].wasted
      /\ row.total = ord[o].total /\ row.received = ord[o].received
  BY <1>2, <1>4 DEF OrderRow
<1>7. ord' = [ord EXCEPT ![o] = row] /\ till' = [till EXCEPT ![o] = till[o] - r.amount]
  BY <1>0, <1>1, <1>2 DEF CommitRefund, TypeOK
<1> HIDE DEF row
<1>8. TypeOK'
  <2>1. req' \in [Terminal -> Request]
    BY <1>1, FinishOK DEF CommitRefund
  <2>2. till' \in [Order -> Int]
    BY <1>1, <1>2, <1>4, <1>7 DEF TypeOK
  <2> QED BY <1>1, <1>2, <1>6, <1>7, <2>1, <2>2 DEF CommitRefund, TypeOK
<1>9. OrderOK(o)' /\ Placed(o)' /\ Onward(o)
  <2>1. ord'[o] = row /\ till'[o] = till[o] - r.amount
    BY <1>1, <1>2, <1>7 DEF TypeOK
  <2>2. /\ ord'[o].pay = ord[o].pay /\ ord'[o].qty = ord[o].qty /\ ord'[o].taken = ord[o].taken
        /\ ord'[o].returned = ord[o].returned
        /\ ord'[o].wasted = ord[o].wasted /\ ord'[o].total = ord[o].total
        /\ ord'[o].received = ord[o].received /\ ord'[o].status = ord[o].status
        /\ ord'[o].refunded = ord[o].refunded + r.amount
    BY <1>6, <2>1
  <2>3. Live(o)' = Live(o) /\ Placed(o)' /\ IsPaid(o)' = IsPaid(o) /\ Held(o)' = Held(o)
    BY <1>3, <2>2 DEF Live, Placed, IsPaid, Held
  <2>4. ord'[o].refunded <= ord'[o].total
    BY <1>2, <1>4, <1>5, <2>2
  <2>5. ord[o].pay # "unpaid" /\ ord'[o].pay # "unpaid"
    BY <1>0, <1>1, <1>2, <2>2 DEF ReadsHold, ReadOK
  <2>6. ord'[o].refunded >= ord[o].refunded
    BY <1>2, <1>4, <2>2
  <2>7. till'[o] = ord'[o].received - ord'[o].refunded
    BY <1>2, <1>3, <1>4, <2>1, <2>2 DEF OrderOK
  <2>8. ord'[o].status = "Cancelled" => ord'[o].refunded >= ord'[o].total
    <3> SUFFICES ASSUME ord'[o].status = "Cancelled"
                 PROVE  ord'[o].refunded >= ord'[o].total
      OBVIOUS
    <3>1. ord[o].status = "Cancelled"
      BY <2>2
    <3>2. ord[o].refunded >= ord[o].total
      BY <1>3, <2>5, <3>1 DEF OrderOK
    <3>3. ord'[o].refunded \in Nat /\ ord'[o].total = ord[o].total
      BY <1>2, <1>4, <2>2
    <3> QED BY <1>4, <2>6, <3>2, <3>3
  <2> QED BY <1>3, <1>4, <2>2, <2>3, <2>4, <2>5, <2>7, <2>8 DEF OrderOK, Onward
<1>10. \A p \in Order \ {o} : ord'[p] = ord[p] /\ till'[p] = till[p]
  BY <1>1, <1>7 DEF TypeOK
<1>11. \A u \in Terminal : req'[u] = req[u] \/ ReadOK(u, req[u])'
  BY <1>1, FinishOK DEF CommitRefund
<1> QED BY <1>8, <1>9, <1>10, <1>11, StepInv

\* A request that starts with a true read changes nothing else.
LEMMA BeginOK ==
    ASSUME Inv, NEW t \in Terminal, NEW r \in Request, Start(t, r), ReadOK(t, r),
           UNCHANGED <<stock, soldOut, counter, ord, till>>
    PROVE  Inv'
<1>1. TypeOK /\ ReadsHold
  BY DEF Inv
<1>2. TypeOK'
  BY <1>1 DEF TypeOK, Start
<1>3. ASSUME NEW u \in Terminal PROVE req'[u] = req[u] \/ ReadOK(u, req[u])'
  <2>1. CASE u = t
    <3>1. req'[u] = r
      BY <1>1, <2>1 DEF TypeOK, Start
    <3>2. ReadOK(u, r)'
      BY <2>1 DEF ReadOK
    <3> QED BY <3>1, <3>2 DEF ReadOK
  <2>2. CASE u # t
    BY <1>1, <2>2 DEF TypeOK, Start
  <2> QED BY <2>1, <2>2
<1>4. \A p \in Order : ord'[p] = ord[p] /\ till'[p] = till[p]
  OBVIOUS
<1> QED BY <1>2, <1>3, <1>4, StepInv

\* Every request starts with a true read.
LEMMA BeginInv ==
    ASSUME Inv, NEW t \in Terminal, Begin(t)
    PROVE  Inv'
<1>1. TypeOK /\ OrdersOK
  BY DEF Inv
<1>2. CASE \E o \in Order, base \in 1..MaxQty, gift \in 0..MaxGift, d \in Discount,
              table \in BOOLEAN, percent \in Charges, fee \in Fees :
             BeginCheckout(t, o, base, gift, d, table, percent, fee)
  <2>1. PICK o \in Order, base \in 1..MaxQty, gift \in 0..MaxGift, d \in Discount,
             table \in BOOLEAN, percent \in Charges, fee \in Fees :
             BeginCheckout(t, o, base, gift, d, table, percent, fee)
    BY <1>2
  <2> DEFINE r == [op |-> "checkout", order |-> o, base |-> base, gift |-> gift,
                   discount |-> d, table |-> table, percent |-> percent, fee |-> fee]
  <2>2. r \in Request
    BY Zenon DEF Request
  <2>3. ReadOK(t, r)
    <3>1. r.op = "checkout"
      BY Zenon
    <3> HIDE DEF r
    <3> QED BY <3>1 DEF ReadOK
  <2>4. Start(t, r) /\ UNCHANGED <<stock, soldOut, counter, ord, till>>
    BY <2>1, Zenon DEF BeginCheckout
  <2> HIDE DEF r
  <2> QED BY <2>2, <2>3, <2>4, BeginOK
<1>3. CASE \E o \in Order, to \in Status : BeginStatus(t, o, to)
  <2>1. PICK o \in Order, to \in Status : BeginStatus(t, o, to)
    BY <1>3
  <2> DEFINE total == IF to = "Cancelled" THEN ord[o].total ELSE 0
             r == [op |-> "status", order |-> o, from |-> ord[o].status, to |-> to,
                   total |-> total]
  <2>2. ord[o].total \in Nat /\ ord[o].status \in Status \cup {"none"}
    BY <1>1, RowType
  <2>3. Placed(o) /\ <<ord[o].status, to>> \in MayDo(Role[t])
    BY <2>1 DEF BeginStatus
  <2>4. r \in Request
    <3>1. total \in Nat
      BY <2>2
    <3>2. ord[o].status \in Status
      BY <2>2, <2>3 DEF Placed
    <3> HIDE DEF total
    <3> QED BY <3>1, <3>2 DEF Request
  <2>5. ReadOK(t, r)
    <3>1. r.op = "status" /\ r.order = o /\ r.from = ord[o].status /\ r.to = to /\ r.total = total
      OBVIOUS
    <3>2. to = "Cancelled" => total >= ord[o].total
      BY <2>2
    <3> HIDE DEF r, total
    <3>3. ord[r.order].status # "none"
      BY <2>3, <3>1 DEF Placed
    <3>4. <<r.from, r.to>> \in MayDo(Role[t])
      BY <2>3, <3>1
    <3> QED BY <3>1, <3>2, <3>3, <3>4 DEF ReadOK
  <2>6. Start(t, r) /\ UNCHANGED <<stock, soldOut, counter, ord, till>>
    BY <2>1 DEF BeginStatus
  <2> HIDE DEF r
  <2> QED BY <2>4, <2>5, <2>6, BeginOK
<1>4. CASE \E o \in Order, l \in Line, n \in 1..MaxQty : BeginVoid(t, o, l, n)
  <2>1. PICK o \in Order, l \in Line, n \in 1..MaxQty : BeginVoid(t, o, l, n)
    BY <1>4
  <2> DEFINE r == [op |-> "void", order |-> o, line |-> l, n |-> n]
  <2>2. r \in Request
    BY DEF Request
  <2>3. ReadOK(t, r)
    BY <2>1 DEF ReadOK, BeginVoid, Live
  <2>4. Start(t, r) /\ UNCHANGED <<stock, soldOut, counter, ord, till>>
    BY <2>1 DEF BeginVoid
  <2> HIDE DEF r
  <2> QED BY <2>2, <2>3, <2>4, BeginOK
<1>5. CASE \E orders \in SUBSET Order : BeginSettle(t, orders)
  <2>1. PICK orders \in SUBSET Order : BeginSettle(t, orders)
    BY <1>5
  <2> DEFINE bill == [o \in Order |-> IF o \in orders THEN ord[o].total ELSE 0]
             r == [op |-> "settle", orders |-> orders, bill |-> bill]
  <2>2. bill \in [Order -> Nat]
    BY <1>1, RowType
  <2>3. \A o \in orders : ord[o].status # "none" /\ bill[o] >= ord[o].total
    <3> SUFFICES ASSUME NEW o \in orders
                 PROVE  ord[o].status # "none" /\ bill[o] >= ord[o].total
      OBVIOUS
    <3>1. o \in Order /\ bill[o] = ord[o].total /\ ord[o].total \in Nat
      BY <1>1, RowType
    <3>2. ord[o].pay = "unpaid"
      BY <2>1 DEF BeginSettle, OnBill
    <3>3. ord[o].status # "none"
      BY <1>1, <3>1, <3>2 DEF OrdersOK, Placed, NoOrder
    <3> QED BY <3>1, <3>3
  <2> HIDE DEF bill
  <2>4. r \in Request
    BY <2>2 DEF Request
  <2>5. ReadOK(t, r)
    BY <2>3 DEF ReadOK
  <2>6. Start(t, r) /\ UNCHANGED <<stock, soldOut, counter, ord, till>>
    BY <2>1 DEF BeginSettle, bill
  <2> HIDE DEF r
  <2> QED BY <2>4, <2>5, <2>6, BeginOK
<1>6. CASE \E o \in Order, amount \in 1..MaxRefund : BeginRefund(t, o, amount)
  <2>1. PICK o \in Order, amount \in 1..MaxRefund : BeginRefund(t, o, amount)
    BY <1>6
  <2> DEFINE r == [op |-> "refund", order |-> o, amount |-> amount]
  <2>2. r \in Request
    BY DEF Request
  <2>3. ReadOK(t, r)
    BY <2>1 DEF ReadOK, BeginRefund, Live, IsPaid
  <2>4. Start(t, r) /\ UNCHANGED <<stock, soldOut, counter, ord, till>>
    BY <2>1 DEF BeginRefund
  <2> HIDE DEF r
  <2> QED BY <2>2, <2>3, <2>4, BeginOK
<1> QED BY <1>2, <1>3, <1>4, <1>5, <1>6 DEF Begin

\* A request that fails leaves nothing.
LEMMA RollbackInv ==
    ASSUME Inv, NEW t \in Terminal, Rollback(t)
    PROVE  Inv'
<1>1. TypeOK
  BY DEF Inv
<1>2. TypeOK' /\ \A u \in Terminal : req'[u] = req[u] \/ ReadOK(u, req[u])'
  BY <1>1, FinishOK DEF Rollback, TypeOK
<1> QED BY <1>2, StepInv DEF Rollback

\* Completing the pending orders touches no account.
LEMMA CompleteAllInv ==
    ASSUME Inv, NEW orders \in SUBSET Order, CompleteAll(orders)
    PROVE  Inv'
<1> DEFINE row(p) == [ord[p] EXCEPT !.status = "Completed"]
           done == {p \in orders : ord[p].status = "Pending"}
<1>1. TypeOK /\ OrdersOK
  BY DEF Inv
<1>2. ASSUME NEW p \in Order
      PROVE  /\ row(p) \in OrderRow /\ row(p).status = "Completed"
             /\ row(p).pay = ord[p].pay /\ row(p).qty = ord[p].qty
             /\ row(p).taken = ord[p].taken /\ row(p).returned = ord[p].returned
             /\ row(p).wasted = ord[p].wasted
             /\ row(p).total = ord[p].total /\ row(p).received = ord[p].received
             /\ row(p).refunded = ord[p].refunded
  BY <1>1 DEF TypeOK, OrderRow, Status
<1>3. ord' = [p \in Order |-> IF p \in done THEN row(p) ELSE ord[p]] /\ till' = till
  BY DEF CompleteAll
<1>4. TypeOK'
  BY <1>1, <1>2, <1>3 DEF TypeOK, CompleteAll
<1>5. ASSUME NEW p \in done
      PROVE  OrderOK(p)' /\ Placed(p)' /\ Onward(p)
  <2>1. p \in Order /\ ord[p].status = "Pending"
    OBVIOUS
  <2>2. ord'[p] = row(p) /\ till'[p] = till[p]
    BY <1>3, <2>1
  <2> HIDE DEF row, done
  <2>3. OrderOK(p) /\ ord[p].total \in Nat
    BY <1>1, <2>1, RowType DEF OrdersOK, Placed
  <2>4. /\ ord'[p].status = "Completed"
        /\ ord'[p].pay = ord[p].pay /\ ord'[p].qty = ord[p].qty
        /\ ord'[p].taken = ord[p].taken /\ ord'[p].returned = ord[p].returned
        /\ ord'[p].wasted = ord[p].wasted
        /\ ord'[p].total = ord[p].total /\ ord'[p].received = ord[p].received
        /\ ord'[p].refunded = ord[p].refunded
    BY <1>2, <2>1, <2>2
  <2>5. /\ Live(p) /\ Live(p)' /\ Placed(p)' /\ IsPaid(p)' = IsPaid(p) /\ Held(p)' = Held(p)
    BY <2>1, <2>4 DEF Live, Placed, IsPaid, Held
  <2> QED BY <2>2, <2>3, <2>4, <2>5 DEF OrderOK, Onward
<1>6. \A p \in Order : p \notin done => ord'[p] = ord[p] /\ till'[p] = till[p]
  BY <1>3
<1>7. \A u \in Terminal : req'[u] = req[u]
  BY DEF CompleteAll
<1> HIDE DEF done
<1> QED BY <1>4, <1>5, <1>6, <1>7, StepInv

\* Saying that a cancelled order's money went back moves no money.
LEMMA RefundDoneInv ==
    ASSUME Inv, NEW o \in Order, RefundDone(o)
    PROVE  Inv'
<1> DEFINE row == [ord[o] EXCEPT !.pay = "refunded"]
<1>1. TypeOK /\ OrdersOK
  BY DEF Inv
<1>2. ord[o].pay = "refund_required" /\ ord[o] \in OrderRow
  BY <1>1 DEF RefundDone, TypeOK
<1>3. Placed(o) /\ OrderOK(o)
  BY <1>1, <1>2 DEF OrdersOK, NoOrder
<1>4. /\ row \in OrderRow /\ row.pay = "refunded"
      /\ row.status = ord[o].status /\ row.qty = ord[o].qty
      /\ row.taken = ord[o].taken /\ row.returned = ord[o].returned
      /\ row.wasted = ord[o].wasted
      /\ row.total = ord[o].total /\ row.received = ord[o].received
      /\ row.refunded = ord[o].refunded
  BY <1>2 DEF OrderRow, PayStatus
<1>5. ord' = [ord EXCEPT ![o] = row] /\ till' = till
  BY DEF RefundDone
<1> HIDE DEF row
<1>6. TypeOK'
  BY <1>1, <1>4, <1>5 DEF TypeOK, RefundDone
<1>7. OrderOK(o)' /\ Placed(o)' /\ Onward(o)
  <2>1. ord'[o] = row /\ till'[o] = till[o] /\ ord[o].total \in Nat
    BY <1>1, <1>5, RowType DEF TypeOK
  <2>2. /\ ord'[o].pay = "refunded" /\ ord'[o].status = ord[o].status
        /\ ord'[o].taken = ord[o].taken /\ ord'[o].returned = ord[o].returned
        /\ ord'[o].wasted = ord[o].wasted
        /\ ord'[o].total = ord[o].total /\ ord'[o].received = ord[o].received
        /\ ord'[o].refunded = ord[o].refunded
    BY <1>4, <2>1
  <2>3. ~Live(o) /\ ~Live(o)' /\ Placed(o)' /\ ~IsPaid(o)'
    BY <1>2, <1>3, <2>2 DEF OrderOK, Live, Placed, IsPaid
  <2> QED BY <1>2, <1>3, <2>1, <2>2, <2>3 DEF OrderOK, Onward
<1>8. \A p \in Order \ {o} : ord'[p] = ord[p] /\ till'[p] = till[p]
  BY <1>1, <1>5 DEF TypeOK
<1>9. \A u \in Terminal : req'[u] = req[u]
  BY DEF RefundDone
<1> QED BY <1>6, <1>7, <1>8, <1>9, StepInv

\* Setting the sold-out flag touches no order.
LEMMA SetSoldOutInv ==
    ASSUME Inv, NEW flag \in BOOLEAN, SetSoldOut(flag)
    PROVE  Inv'
<1>1. TypeOK' /\ ord' = ord /\ till' = till /\ req' = req
  BY Zenon DEF Inv, TypeOK, SetSoldOut
<1> QED BY <1>1, StepInv

\* Every step keeps the invariant.
THEOREM NextInv == Inv /\ [Next]_vars => Inv'
<1> SUFFICES ASSUME Inv, [Next]_vars PROVE Inv'
  OBVIOUS
<1>1. ASSUME NEW t \in Terminal, Begin(t) PROVE Inv'
  BY <1>1, BeginInv
<1>2. ASSUME NEW t \in Terminal, Commit(t) PROVE Inv'
  BY <1>2, CheckoutInv, StatusInv, CancelInv, VoidInv, SettleInv, RefundInv DEF Commit
<1>3. ASSUME NEW t \in Terminal, Rollback(t) PROVE Inv'
  BY <1>3, RollbackInv
<1>4. ASSUME NEW orders \in SUBSET Order, CompleteAll(orders) PROVE Inv'
  BY <1>4, CompleteAllInv
<1>5. ASSUME NEW o \in Order, RefundDone(o) PROVE Inv'
  BY <1>5, RefundDoneInv
<1>6. ASSUME NEW flag \in BOOLEAN, SetSoldOut(flag) PROVE Inv'
  BY <1>6, SetSoldOutInv
<1>7. CASE UNCHANGED vars
  <2>1. TypeOK' /\ ord' = ord /\ till' = till /\ req' = req
    BY <1>7 DEF vars, Inv, TypeOK
  <2> QED BY <2>1, StepInv
<1> QED BY <1>1, <1>2, <1>3, <1>4, <1>5, <1>6, <1>7 DEF Next

\* The invariant holds in every state of every behaviour.
THEOREM InvHolds == Spec => []Inv
  BY InitInv, NextInv, PTL DEF Spec

\* Variables keep their types: the stock is never negative, so a checkout never
\* sells a portion that is not there.
THEOREM TypeCorrect == Spec => []TypeOK
<1>1. Inv => TypeOK
  BY DEF Inv
<1> QED BY <1>1, InvHolds, PTL

-----------------------------------------------------------------------------
\* The portions a live order holds are those it took and did not put back.
THEOREM LinesMatchStockHolds == Spec => []LinesMatchStock
<1>1. Inv => LinesMatchStock
  BY DEF Inv, OrdersOK, OrderOK, LinesMatchStock, Placed, Live, NoOrder
<1> QED BY <1>1, InvHolds, PTL

\* A paid order collected its total and never refunds more while it lives.
THEOREM PaidMeansCollectedHolds == Spec => []PaidMeansCollected
<1>1. Inv => PaidMeansCollected
  <2> SUFFICES ASSUME Inv, NEW o \in Order
               PROVE  /\ IsPaid(o) => ord[o].received >= ord[o].total
                      /\ Live(o) => ord[o].refunded <= ord[o].total
                      /\ ord[o].pay = "unpaid" => ord[o].received = 0 /\ ord[o].refunded = 0
    BY DEF PaidMeansCollected
  <2>1. CASE Placed(o)
    BY <2>1 DEF Inv, OrdersOK, OrderOK
  <2>2. CASE ~Placed(o)
    <3>1. ord[o].status = "none" /\ ord[o].pay = "none"
      BY <2>2 DEF Inv, OrdersOK, NoOrder
    <3> QED BY <3>1 DEF IsPaid, Live
  <2> QED BY <2>1, <2>2
<1> QED BY <1>1, InvHolds, PTL

\* A settlement and a cancellation never both win, and what was paid on a
\* cancelled order is refunded in full.
THEOREM CancelledIsRefundedHolds == Spec => []CancelledIsRefunded
<1>1. Inv => CancelledIsRefunded
  <2> SUFFICES ASSUME Inv, NEW o \in Order
               PROVE  /\ ord[o].pay \in {"refund_required", "refunded"} => ord[o].status = "Cancelled"
                      /\ ord[o].status = "Cancelled" =>
                           /\ ord[o].pay # "settled"
                           /\ ord[o].pay # "unpaid" => ord[o].refunded >= ord[o].total
    BY DEF CancelledIsRefunded
  <2>1. CASE Placed(o)
    <3>1. ord[o].status \in Status
      BY <2>1, RowType DEF Inv, Placed
    <3> QED BY <2>1, <3>1 DEF Inv, OrdersOK, OrderOK, Live, Status
  <2>2. CASE ~Placed(o)
    BY <2>2 DEF Inv, OrdersOK, Placed, NoOrder
  <2> QED BY <2>1, <2>2
<1> QED BY <1>1, InvHolds, PTL

\* The payment records of every order add up to what it received and refunded.
THEOREM TillBalancesHolds == Spec => []TillBalances
<1>1. Inv => TillBalances
  BY DEF Inv, OrdersOK, OrderOK, TillBalances, NoOrder
<1> QED BY <1>1, InvHolds, PTL

-----------------------------------------------------------------------------
(***************************************************************************)
(* What a step does to a status.  The swap compares with the status that   *)
(* was read, and Inv says that the change read was legal for its role.     *)
(***************************************************************************)
LEMMA StatusStep ==
    ASSUME Inv, [Next]_vars, NEW o \in Order, Placed(o), ord'[o].status # ord[o].status
    PROVE  \/ /\ ord[o].status = "Pending"
              /\ ord'[o].status = "Completed"
           \/ \E t \in Terminal :
                 /\ req[t].op = "status" /\ req[t].order = o /\ req'[t] = Idle
                 /\ ord[o].status = req[t].from /\ ord'[o].status = req[t].to
                 /\ <<req[t].from, req[t].to>> \in MayDo(Role[t])
<1>1. TypeOK /\ ReadsHold /\ ord[o] \in OrderRow
  BY DEF Inv, TypeOK
<1>2. ASSUME NEW t \in Terminal, Begin(t) PROVE FALSE
  BY <1>2 DEF Begin, BeginCheckout, BeginStatus, BeginVoid, BeginSettle, BeginRefund
<1>3. ASSUME NEW t \in Terminal, CommitCheckout(t) PROVE FALSE
  BY <1>1, <1>3 DEF CommitCheckout, Placed, TypeOK
<1>4. ASSUME NEW t \in Terminal,
             CommitStatus(t) \/ \E restock \in Restock : CommitCancel(t, restock)
      PROVE  /\ req[t].op = "status" /\ req[t].order = o /\ req'[t] = Idle
             /\ ord[o].status = req[t].from /\ ord'[o].status = req[t].to
             /\ <<req[t].from, req[t].to>> \in MayDo(Role[t])
  <2>1. PICK r \in Request : r = req[t]
    BY <1>1 DEF TypeOK
  <2>2. r.op = "status" /\ StillAsRead(r)
    BY <1>4, <2>1 DEF CommitStatus, CommitCancel
  <2>3. r.order \in Order /\ ord[r.order] \in OrderRow
    BY <1>1, <2>2, RequestKinds DEF TypeOK
  <2>4. /\ ord'[r.order].status = r.to
        /\ \A p \in Order \ {r.order} : ord'[p] = ord[p]
    <3>1. CASE CommitStatus(t)
      BY <1>1, <2>1, <2>3, <3>1 DEF CommitStatus, TypeOK, OrderRow
    <3>2. ASSUME NEW restock \in Restock, CommitCancel(t, restock)
          PROVE  /\ ord'[r.order].status = r.to
                 /\ \A p \in Order \ {r.order} : ord'[p] = ord[p]
      <4>1. PICK amount : ord' = [ord EXCEPT ![r.order] = Cancelled(r.order, amount, restock)]
        BY <2>1, <3>2 DEF CommitCancel
      <4>2. Cancelled(r.order, amount, restock).status = "Cancelled" /\ r.to = "Cancelled"
        BY <2>1, <2>3, <3>2 DEF CommitCancel, Cancelled, OrderRow
      <4> QED BY <1>1, <2>3, <4>1, <4>2 DEF TypeOK
    <3> QED BY <1>4, <3>1, <3>2
  <2>5. r.order = o
    BY <2>4
  <2>6. req'[t] = Idle
    BY <1>1, <1>4 DEF CommitStatus, CommitCancel, Finish, TypeOK
  <2>7. <<r.from, r.to>> \in MayDo(Role[t])
    BY <1>1, <2>1, <2>2 DEF ReadsHold, ReadOK
  <2> QED BY <2>1, <2>2, <2>4, <2>5, <2>6, <2>7 DEF StillAsRead
<1>5. ASSUME NEW t \in Terminal, NEW restock \in Restock, CommitVoid(t, restock) PROVE FALSE
  <2>1. PICK r \in Request : r = req[t]
    BY <1>1 DEF TypeOK
  <2>2. r.order \in Order
    BY <1>5, <2>1, RequestKinds DEF CommitVoid
  <2>3. PICK less, refund :
          ord' = [ord EXCEPT ![r.order] = Voided(r.order, r.line, r.n, less, refund, restock)]
    BY <1>5, <2>1 DEF CommitVoid
  <2>4. ord[r.order] \in OrderRow
    BY <1>1, <2>2 DEF TypeOK
  <2>5. Voided(r.order, r.line, r.n, less, refund, restock).status = ord[r.order].status
    BY <2>4 DEF Voided, OrderRow
  <2> QED BY <1>1, <2>2, <2>3, <2>5 DEF TypeOK
<1>6. ASSUME NEW t \in Terminal, CommitSettle(t) PROVE FALSE
  <2>1. Settled(o, req[t].bill[o]).status = ord[o].status
    BY <1>1 DEF Settled, OrderRow
  <2> QED BY <1>6, <2>1 DEF CommitSettle
<1>7. ASSUME NEW t \in Terminal, CommitRefund(t) PROVE FALSE
  BY <1>1, <1>7 DEF CommitRefund, TypeOK, OrderRow
<1>8. ASSUME NEW t \in Terminal, Rollback(t) PROVE FALSE
  BY <1>8 DEF Rollback
<1>9. ASSUME NEW orders \in SUBSET Order, CompleteAll(orders)
      PROVE  ord[o].status = "Pending" /\ ord'[o].status = "Completed"
  BY <1>1, <1>9 DEF CompleteAll, OrderRow
<1>10. ASSUME NEW p \in Order, RefundDone(p) PROVE FALSE
  BY <1>1, <1>10 DEF RefundDone, TypeOK, OrderRow
<1>11. ASSUME NEW flag \in BOOLEAN, SetSoldOut(flag) PROVE FALSE
  BY <1>11 DEF SetSoldOut
<1>12. ~UNCHANGED vars
  BY DEF vars
<1> QED
  BY <1>2, <1>3, <1>4, <1>5, <1>6, <1>7, <1>8, <1>9, <1>10, <1>11, <1>12 DEF Next, Commit

\* Whatever was read before it changed, a status changes only along a legal edge.
THEOREM StatusForwardHolds == Spec => StatusForward
<1>1. Inv /\ [Next]_vars =>
        [\A o \in Order :
           Placed(o) /\ ord'[o].status # ord[o].status
               => <<ord[o].status, ord'[o].status>> \in Legal]_vars
  <2> SUFFICES ASSUME Inv, [Next]_vars, NEW o \in Order, Placed(o), ord'[o].status # ord[o].status
               PROVE  <<ord[o].status, ord'[o].status>> \in Legal
    OBVIOUS
  <2>1. ASSUME NEW t \in Terminal PROVE MayDo(Role[t]) \subseteq Legal
    BY RoleAssumption DEF MayDo, Roles, Legal
  <2> QED BY <2>1, StatusStep DEF Legal
<1> QED BY <1>1, InvHolds, PTL DEF Spec, StatusForward

\* A picked-up order is cancelled only by the request of a manager or the owner.
THEOREM OnlyManagersUndoPickupHolds == Spec => OnlyManagersUndoPickup
<1>1. Inv /\ [Next]_vars =>
        [\A o \in Order :
           ord[o].status = "PickedUp" /\ ord'[o].status = "Cancelled"
               => \E t \in Terminal :
                    /\ Role[t] \in {"owner", "manager"}
                    /\ req[t] # Idle
                    /\ req[t].op = "status"
                    /\ req[t].order = o
                    /\ req'[t] = Idle]_vars
  <2> SUFFICES ASSUME Inv, [Next]_vars, NEW o \in Order,
                      ord[o].status = "PickedUp", ord'[o].status = "Cancelled"
               PROVE  \E t \in Terminal :
                        /\ Role[t] \in {"owner", "manager"}
                        /\ req[t] # Idle
                        /\ req[t].op = "status"
                        /\ req[t].order = o
                        /\ req'[t] = Idle
    OBVIOUS
  <2>1. PICK t \in Terminal :
           /\ req[t].op = "status" /\ req[t].order = o /\ req'[t] = Idle
           /\ ord[o].status = req[t].from /\ ord'[o].status = req[t].to
           /\ <<req[t].from, req[t].to>> \in MayDo(Role[t])
    BY StatusStep DEF Placed
  <2>2. Role[t] \in Roles /\ <<"PickedUp", "Cancelled">> \in MayDo(Role[t])
    BY <2>1, RoleAssumption
  <2>3. Role[t] \in {"owner", "manager"}
    BY <2>2 DEF MayDo, Roles, Legal
  <2>4. req[t] # Idle
    BY <2>1 DEF Idle
  <2> QED BY <2>1, <2>3, <2>4
<1> QED BY <1>1, InvHolds, PTL DEF Spec, OnlyManagersUndoPickup

-----------------------------------------------------------------------------
(***************************************************************************)
(* What a step does to the shelf: nothing, or it puts n portions of one    *)
(* order back, or it sells n portions to an order that nobody placed       *)
(* before.  It leaves the other orders as they are, as far as the shelf,   *)
(* the pickup numbers and the worth of the lines can tell.                 *)
(***************************************************************************)
Unmoved(p) ==
    /\ ord'[p].taken = ord[p].taken /\ ord'[p].returned = ord[p].returned
    /\ ord'[p].pickup = ord[p].pickup /\ ord'[p].qty = ord[p].qty
    /\ ord'[p].voided = ord[p].voided
    /\ ord'[p].fee = ord[p].fee /\ ord'[p].service = ord[p].service
    /\ ord'[p].total = ord[p].total /\ ord'[p].refunded >= ord[p].refunded
    /\ Placed(p)' <=> Placed(p)
    /\ Live(p)' => Live(p)

PutsBack(o, n) ==
    /\ stock' = stock + n /\ counter' = counter
    /\ ord'[o].taken = ord[o].taken /\ ord'[o].returned = ord[o].returned + n
    /\ ord'[o].pickup = ord[o].pickup
    /\ Placed(o) /\ Placed(o)'
    /\ Live(o)' => \E t \in Terminal, restock \in Restock :
                      CommitVoid(t, restock) /\ req[t].order = o

Sells(o, n) ==
    /\ stock' = stock - n /\ counter' = NextPickup
    /\ ~Placed(o) /\ ord[o] = NoOrder /\ Placed(o)'
    /\ ord'[o].taken = n /\ ord'[o].returned = 0 /\ ord'[o].pickup = NextPickup
    /\ ord'[o].total <= Subtotal(o)' + ord'[o].service + ord'[o].fee
    /\ ord'[o].voided["base"] = 0 /\ ord'[o].refunded = 0

ShelfStep ==
    \/ /\ stock' = stock /\ counter' = counter
       /\ \A p \in Order : Unmoved(p)
    \/ \E o \in Order, n \in Nat :
          /\ PutsBack(o, n) \/ Sells(o, n)
          /\ \A p \in Order \ {o} : Unmoved(p)

\* An order row that stays is unmoved.
LEMMA UnmovedSame ==
    ASSUME TypeOK, NEW p \in Order, ord'[p] = ord[p]
    PROVE  Unmoved(p)
<1>1. ord[p].refunded \in Nat
  BY RowType
<1> QED BY <1>1 DEF Unmoved, Placed, Live

LEMMA CheckoutShelf ==
    ASSUME Inv, NEW t \in Terminal, CommitCheckout(t)
    PROVE  ShelfStep
<1>0. PICK r \in Request : r = req[t]
  BY DEF Inv, TypeOK
<1> DEFINE o == r.order
           gift == GiftsGiven(r.base, r.gift)
           row == NewOrder(r, gift)
           n == r.base + gift
<1>1. TypeOK /\ OrdersOK
  BY DEF Inv
<1>2. o \in Order /\ r.base \in Nat /\ r.gift \in Nat /\ r.discount \in Nat /\ r.fee \in Nat
  <2>1. /\ o \in Order /\ r.base \in 1..MaxQty /\ r.gift \in 0..MaxGift /\ r.discount \in Discount
        /\ r.fee \in Fees
    BY <1>0, RequestKinds DEF CommitCheckout
  <2>2. r.discount \in Nat /\ r.fee \in Nat
    BY <2>1, PriceAssumption, ChargeAssumption
  <2> QED BY <2>1, <2>2, StockAssumption
<1>3. gift \in Nat /\ n \in Nat
  BY <1>2 DEF GiftsGiven
<1>4. Amount(r) <= Price * r.base + Service(r) + r.fee
  <2>1. Price * r.base \in Nat
    BY <1>2, PriceAssumption
  <2>2. Discounted(r) <= Price * r.base /\ Discounted(r) \in Nat
    BY <1>2, <2>1 DEF Discounted, AtLeast0
  <2>3. Service(r) \in Int
    <3>1. r.percent \in Nat
      <4>1. r.percent \in 0..30
        BY <1>0, RequestKinds, ChargeAssumption DEF CommitCheckout
      <4> QED BY <4>1
    <3>2. Discounted(r) * r.percent \in Nat
      BY <2>2, <3>1
    <3>3. 2 * Discounted(r) * r.percent = 2 * (Discounted(r) * r.percent)
      BY <2>2, <3>1
    <3>4. ASSUME NEW a \in Nat PROVE (2 * a + 100) \div 200 \in Int
      OBVIOUS
    <3> QED BY <3>2, <3>3, <3>4 DEF Service
  <2> HIDE DEF o, gift, row, n
  <2> QED BY <1>2, <2>1, <2>2, <2>3 DEF Amount
<1>5. /\ row.status = "Pending" /\ row.qty["base"] = r.base
      /\ row.taken = n /\ row.returned = 0 /\ row.pickup = NextPickup
      /\ row.total = Amount(r) /\ row.refunded = 0
      /\ row.service = Service(r) /\ row.fee = r.fee /\ row.voided["base"] = 0
  <2> HIDE DEF gift
  <2> QED BY DEF NewOrder, Line
<1>6. /\ stock' = stock - n /\ counter' = NextPickup /\ ord' = [ord EXCEPT ![o] = row]
      /\ ~Placed(o)
  BY <1>0 DEF CommitCheckout, Take
<1> HIDE DEF gift, row, n
<1>7. ord'[o] = row /\ \A p \in Order \ {o} : ord'[p] = ord[p]
  BY <1>1, <1>2, <1>6 DEF TypeOK
<1>8. ord[o] = NoOrder
  BY <1>1, <1>2, <1>6 DEF OrdersOK
<1>9. Sells(o, n)
  BY <1>4, <1>5, <1>6, <1>7, <1>8 DEF Sells, Placed, Subtotal
<1>10. \A p \in Order \ {o} : Unmoved(p)
  BY <1>1, <1>7, UnmovedSame
<1> QED BY <1>2, <1>3, <1>9, <1>10 DEF ShelfStep

LEMMA CancelShelf ==
    ASSUME Inv, NEW t \in Terminal, NEW restock \in Restock, CommitCancel(t, restock)
    PROVE  ShelfStep
<1>0. PICK r \in Request : r = req[t]
  BY DEF Inv, TypeOK
<1> DEFINE o == r.order
           amount == IF IsPaid(o) THEN AtLeast0(r.total - ord[o].refunded) ELSE 0
           row == Cancelled(o, amount, restock)
           n == IF restock THEN Held(o) ELSE 0
<1>1. TypeOK /\ ReadsHold
  BY DEF Inv
<1>2. o \in Order /\ r.total \in Nat /\ r.op = "status"
  BY <1>0, RequestKinds DEF CommitCancel
<1>3. ord[o].refunded \in Nat /\ Held(o) \in Nat /\ ord[o] \in OrderRow
  BY <1>1, <1>2, RowType DEF TypeOK
<1>4. Placed(o)
  BY <1>0, <1>1, <1>2 DEF ReadsHold, ReadOK, Placed
<1>5. ord' = [ord EXCEPT ![o] = row] /\ stock' = stock + n /\ counter' = counter
  <2>1. Restocked(Held(o), restock) /\ ord' = [ord EXCEPT ![o] = row] /\ counter' = counter
    BY <1>0 DEF CommitCancel
  <2> QED BY <1>1, <1>3, <2>1, RestockAssumption, RestockedType
<1>6. /\ row.status = "Cancelled" /\ row.taken = ord[o].taken
      /\ row.returned = ord[o].returned + n /\ row.pickup = ord[o].pickup
  <2> HIDE DEF amount
  <2> QED BY <1>3 DEF Cancelled, OrderRow
<1>10. n \in Nat
  BY <1>3
<1> HIDE DEF row, n
<1>7. ord'[o] = row /\ \A p \in Order \ {o} : ord'[p] = ord[p]
  BY <1>1, <1>2, <1>5 DEF TypeOK
<1>8. PutsBack(o, n)
  BY <1>4, <1>5, <1>6, <1>7 DEF PutsBack, Placed, Live
<1>9. \A p \in Order \ {o} : Unmoved(p)
  BY <1>1, <1>7, UnmovedSame
<1> QED BY <1>2, <1>8, <1>9, <1>10 DEF ShelfStep

LEMMA VoidShelf ==
    ASSUME Inv, NEW t \in Terminal, NEW restock \in Restock, CommitVoid(t, restock)
    PROVE  ShelfStep
<1>0. PICK r \in Request : r = req[t]
  BY DEF Inv, TypeOK
<1> DEFINE o == r.order
           n == IF restock THEN r.n ELSE 0
<1>1. TypeOK /\ ReadsHold
  BY DEF Inv
<1>2. o \in Order /\ r.line \in Line /\ r.n \in Nat /\ r.op = "void"
  BY <1>0, RequestKinds, StockAssumption DEF CommitVoid
<1>3. ord[o] \in OrderRow /\ Placed(o)
  BY <1>0, <1>1, <1>2 DEF ReadsHold, ReadOK, Placed, TypeOK
<1>4. PICK less, refund : ord' = [ord EXCEPT ![o] = Voided(o, r.line, r.n, less, refund, restock)]
  BY <1>0 DEF CommitVoid
<1>5. stock' = stock + n /\ counter' = counter
  <2>1. Restocked(r.n, restock) /\ counter' = counter
    BY <1>0 DEF CommitVoid
  <2> QED BY <1>1, <1>2, <2>1, RestockAssumption, RestockedType
<1> DEFINE row == Voided(o, r.line, r.n, less, refund, restock)
<1>6. /\ row.status = ord[o].status /\ row.taken = ord[o].taken
      /\ row.returned = ord[o].returned + n /\ row.pickup = ord[o].pickup
  BY <1>3 DEF Voided, OrderRow
<1>10. n \in Nat
  BY <1>2
<1> HIDE DEF row, n
<1>7. ord'[o] = row /\ \A p \in Order \ {o} : ord'[p] = ord[p]
  BY <1>1, <1>2, <1>4 DEF TypeOK, row
<1>8. PutsBack(o, n)
  BY <1>0, <1>3, <1>5, <1>6, <1>7 DEF PutsBack, Placed
<1>9. \A p \in Order \ {o} : Unmoved(p)
  BY <1>1, <1>7, UnmovedSame
<1> QED BY <1>2, <1>8, <1>9, <1>10 DEF ShelfStep

\* All other steps leave the shelf alone.
LEMMA OtherShelf ==
    ASSUME Inv, [Next]_vars, \A t \in Terminal : ~CommitCheckout(t),
           \A t \in Terminal, restock \in Restock : ~CommitCancel(t, restock) /\ ~CommitVoid(t, restock)
    PROVE  ShelfStep
<1>1. TypeOK /\ ReadsHold
  BY DEF Inv
<1>2. ASSUME UNCHANGED <<stock, counter>>, \A p \in Order : Unmoved(p) PROVE ShelfStep
  BY <1>2 DEF ShelfStep
<1>3. ASSUME UNCHANGED <<stock, counter, ord>> PROVE ShelfStep
  BY <1>1, <1>2, <1>3, UnmovedSame
<1>4. ASSUME NEW o \in Order, NEW row, UNCHANGED <<stock, counter>>, ord' = [ord EXCEPT ![o] = row],
             row.taken = ord[o].taken, row.returned = ord[o].returned, row.pickup = ord[o].pickup,
             row.qty = ord[o].qty, row.voided = ord[o].voided, row.fee = ord[o].fee,
             row.service = ord[o].service, row.total = ord[o].total, row.refunded >= ord[o].refunded,
             row.status = ord[o].status \/ (row.status \notin {"none", "Cancelled"} /\ Live(o))
      PROVE  ShelfStep
  <2>1. ord'[o] = row /\ \A p \in Order \ {o} : ord'[p] = ord[p]
    BY <1>1, <1>4 DEF TypeOK
  <2>2. Unmoved(o)
    BY <1>4, <2>1 DEF Unmoved, Placed, Live
  <2> QED BY <1>1, <1>2, <1>4, <2>1, <2>2, UnmovedSame
<1>5. ASSUME NEW t \in Terminal, Begin(t) \/ Rollback(t) PROVE ShelfStep
  BY <1>3, <1>5 DEF Begin, BeginCheckout, BeginStatus, BeginVoid, BeginSettle, BeginRefund, Rollback
<1>6. ASSUME NEW t \in Terminal, CommitStatus(t) PROVE ShelfStep
  <2>1. PICK r \in Request : r = req[t]
    BY <1>1 DEF TypeOK
  <2>2. r.order \in Order /\ r.op = "status" /\ r.to \in Status \ {"Cancelled"}
    BY <1>6, <2>1, RequestKinds DEF CommitStatus
  <2>3. Live(r.order)
    <3>1. <<r.from, r.to>> \in Legal
      BY <1>1, <2>1, <2>2, RoleAssumption DEF ReadsHold, ReadOK, MayDo, Roles, Legal
    <3> QED BY <1>6, <2>1, <3>1 DEF CommitStatus, StillAsRead, Legal, Live
  <2> DEFINE o == r.order
             row == [ord[o] EXCEPT !.status = r.to]
  <2>4. /\ row.taken = ord[o].taken /\ row.returned = ord[o].returned /\ row.pickup = ord[o].pickup
        /\ row.voided = ord[o].voided /\ row.fee = ord[o].fee /\ row.service = ord[o].service
        /\ row.qty = ord[o].qty /\ row.total = ord[o].total /\ row.refunded >= ord[o].refunded
        /\ row.status = r.to
    BY <1>1, <2>2, RowType DEF TypeOK, OrderRow
  <2>5. ord' = [ord EXCEPT ![o] = row] /\ UNCHANGED <<stock, counter>>
    BY <1>6, <2>1 DEF CommitStatus
  <2> HIDE DEF row
  <2> QED BY <1>4, <2>2, <2>3, <2>4, <2>5 DEF Status
<1>7. ASSUME NEW t \in Terminal, CommitSettle(t) PROVE ShelfStep
  <2>1. ASSUME NEW p \in Order PROVE Unmoved(p)
    <3>1. ord'[p] = ord[p] \/ ord'[p] = Settled(p, req[t].bill[p])
      BY <1>7 DEF CommitSettle
    <3>2. CASE ord'[p] = Settled(p, req[t].bill[p])
      <4>1. ord[p] \in OrderRow /\ ord[p].refunded \in Nat
        BY <1>1, RowType DEF TypeOK
      <4>2. /\ ord'[p].taken = ord[p].taken /\ ord'[p].returned = ord[p].returned
            /\ ord'[p].voided = ord[p].voided /\ ord'[p].fee = ord[p].fee
            /\ ord'[p].service = ord[p].service
            /\ ord'[p].pickup = ord[p].pickup /\ ord'[p].qty = ord[p].qty
            /\ ord'[p].total = ord[p].total /\ ord'[p].refunded = ord[p].refunded
            /\ ord'[p].status = ord[p].status
        BY <3>2, <4>1 DEF Settled, OrderRow
      <4> QED BY <4>1, <4>2 DEF Unmoved, Placed, Live
    <3> QED BY <1>1, <3>1, <3>2, UnmovedSame
  <2> QED BY <1>2, <1>7, <2>1 DEF CommitSettle
<1>8. ASSUME NEW t \in Terminal, CommitRefund(t) PROVE ShelfStep
  <2>1. PICK r \in Request : r = req[t]
    BY <1>1 DEF TypeOK
  <2>2. r.order \in Order /\ r.amount \in Nat
    BY <1>8, <2>1, RequestKinds, PriceAssumption DEF CommitRefund
  <2> DEFINE o == r.order
             row == [ord[o] EXCEPT !.refunded = @ + r.amount]
  <2>3. ord[o] \in OrderRow /\ ord[o].refunded \in Nat
    BY <1>1, <2>2, RowType DEF TypeOK
  <2>4. /\ row.taken = ord[o].taken /\ row.returned = ord[o].returned /\ row.pickup = ord[o].pickup
        /\ row.voided = ord[o].voided /\ row.fee = ord[o].fee /\ row.service = ord[o].service
        /\ row.qty = ord[o].qty /\ row.total = ord[o].total /\ row.refunded = ord[o].refunded + r.amount
        /\ row.status = ord[o].status
    BY <2>3 DEF OrderRow
  <2>5. ord' = [ord EXCEPT ![o] = row] /\ UNCHANGED <<stock, counter>>
    BY <1>8, <2>1 DEF CommitRefund
  <2> HIDE DEF row
  <2>6. row.refunded >= ord[o].refunded
    BY <2>2, <2>3, <2>4
  <2> QED BY <1>4, <2>2, <2>4, <2>5, <2>6
<1>9. ASSUME NEW orders \in SUBSET Order, CompleteAll(orders) PROVE ShelfStep
  <2>1. ASSUME NEW p \in Order PROVE Unmoved(p)
    <3>1. ord[p] \in OrderRow /\ ord[p].refunded \in Nat
      BY <1>1, RowType DEF TypeOK
    <3>2. ord'[p] = ord[p] \/ (ord[p].status = "Pending" /\ ord'[p] = [ord[p] EXCEPT !.status = "Completed"])
      BY <1>9 DEF CompleteAll
    <3>3. CASE ord[p].status = "Pending" /\ ord'[p] = [ord[p] EXCEPT !.status = "Completed"]
      <4>1. /\ ord'[p].taken = ord[p].taken /\ ord'[p].returned = ord[p].returned
            /\ ord'[p].voided = ord[p].voided /\ ord'[p].fee = ord[p].fee
            /\ ord'[p].service = ord[p].service
            /\ ord'[p].pickup = ord[p].pickup /\ ord'[p].qty = ord[p].qty
            /\ ord'[p].total = ord[p].total /\ ord'[p].refunded = ord[p].refunded
            /\ ord'[p].status = "Completed"
        BY <3>1, <3>3 DEF OrderRow
      <4> QED BY <3>1, <3>3, <4>1 DEF Unmoved, Placed, Live
    <3> QED BY <1>1, <3>2, <3>3, UnmovedSame
  <2> QED BY <1>2, <1>9, <2>1 DEF CompleteAll
<1>10. ASSUME NEW o \in Order, RefundDone(o) PROVE ShelfStep
  <2> DEFINE row == [ord[o] EXCEPT !.pay = "refunded"]
  <2>1. /\ row.taken = ord[o].taken /\ row.returned = ord[o].returned /\ row.pickup = ord[o].pickup
        /\ row.voided = ord[o].voided /\ row.fee = ord[o].fee /\ row.service = ord[o].service
        /\ row.qty = ord[o].qty /\ row.total = ord[o].total /\ row.refunded >= ord[o].refunded
        /\ row.status = ord[o].status
    BY <1>1, RowType DEF TypeOK, OrderRow
  <2>2. ord' = [ord EXCEPT ![o] = row] /\ UNCHANGED <<stock, counter>>
    BY <1>10 DEF RefundDone
  <2> HIDE DEF row
  <2> QED BY <1>4, <2>1, <2>2
<1>11. ASSUME NEW flag \in BOOLEAN, SetSoldOut(flag) PROVE ShelfStep
  BY <1>3, <1>11 DEF SetSoldOut
<1>12. CASE UNCHANGED vars
  BY <1>3, <1>12 DEF vars
<1> QED BY <1>5, <1>6, <1>7, <1>8, <1>9, <1>10, <1>11, <1>12 DEF Next, Commit

LEMMA NextShelf ==
    ASSUME Inv, [Next]_vars
    PROVE  ShelfStep
  BY CheckoutShelf, CancelShelf, VoidShelf, OtherShelf

-----------------------------------------------------------------------------
\* Counting portions: an order that counts n more has n more of them.

LEMMA PortionsOf ==
    ASSUME NEW f, NEW x
    PROVE  x \in Portions(f) <=> \E p \in Order : \E i \in 1..f[p] : x = <<p, i>>
  BY DEF Portions

LEMMA PortionsAdded ==
    ASSUME NEW f, NEW g, NEW o \in Order, NEW n \in Nat, NEW m \in Nat, f[o] = m, g[o] = m + n,
           \A p \in Order \ {o} : g[p] = f[p],
           NEW p, NEW i
    PROVE  (p \in Order /\ i \in 1..g[p])
              <=> ((p \in Order /\ i \in 1..f[p]) \/ (p = o /\ i \in (m + 1)..(m + n)))
<1>1. CASE p = o
  BY <1>1
<1>2. CASE p # o /\ p \in Order
  <2>1. g[p] = f[p]
    BY <1>2
  <2> QED BY <1>2, <2>1
<1>3. CASE p # o /\ p \notin Order
  BY <1>3
<1> QED BY <1>1, <1>2, <1>3

LEMMA MorePortions ==
    ASSUME NEW f, NEW g, NEW o \in Order, NEW n \in Nat, NEW m \in Nat, f[o] = m, g[o] = m + n,
           \A p \in Order \ {o} : g[p] = f[p],
           IsFiniteSet(Portions(f))
    PROVE  IsFiniteSet(Portions(g)) /\ Cardinality(Portions(g)) = Cardinality(Portions(f)) + n
<1> DEFINE new == (m + 1)..(m + n)
           D == {o} \X new
<1>1. IsFiniteSet(D) /\ Cardinality(D) = n
  <2>1. IsFiniteSet(new) /\ Cardinality(new) = IF m + 1 > m + n THEN 0 ELSE (m + n) - (m + 1) + 1
    <3>1. m + 1 \in Int /\ m + n \in Int
      OBVIOUS
    <3> QED BY <3>1, FS_Interval
  <2>2. Cardinality(new) = n
    BY <2>1
  <2>3. IsFiniteSet({o}) /\ Cardinality({o}) = 1
    BY FS_Singleton
  <2> HIDE DEF new
  <2>4. IsFiniteSet(D) /\ Cardinality(D) = Cardinality({o}) * Cardinality(new)
    BY <2>1, <2>3, FS_Product
  <2> QED BY <2>2, <2>3, <2>4
<1>2. Portions(g) = Portions(f) \cup D
  <2>1. ASSUME NEW x, x \in Portions(g) PROVE x \in Portions(f) \cup D
    <3>1. PICK p \in Order : \E i \in 1..g[p] : x = <<p, i>>
      BY <2>1, PortionsOf
    <3>2. PICK i \in 1..g[p] : x = <<p, i>>
      BY <3>1
    <3>3. (p \in Order /\ i \in 1..f[p]) \/ (p = o /\ i \in new)
      BY <3>1, <3>2, PortionsAdded
    <3> QED BY <3>1, <3>2, <3>3, PortionsOf
  <2>2. ASSUME NEW x, x \in Portions(f) PROVE x \in Portions(g)
    <3>1. PICK p \in Order : \E i \in 1..f[p] : x = <<p, i>>
      BY <2>2, PortionsOf
    <3>2. PICK i \in 1..f[p] : x = <<p, i>>
      BY <3>1
    <3>3. i \in 1..g[p]
      BY <3>1, <3>2, PortionsAdded
    <3> QED BY <3>1, <3>2, <3>3, PortionsOf
  <2>3. ASSUME NEW x, x \in D PROVE x \in Portions(g)
    <3>1. PICK i \in new : x = <<o, i>>
      BY <2>3
    <3>2. i \in 1..g[o]
      BY <3>1, PortionsAdded
    <3> QED BY <3>1, <3>2, PortionsOf
  <2> HIDE DEF D
  <2> QED BY <2>1, <2>2, <2>3
<1>3. Portions(f) \cap D = {}
  <2>1. ASSUME NEW x, x \in Portions(f), x \in D PROVE FALSE
    <3>1. PICK p \in Order : \E i \in 1..f[p] : x = <<p, i>>
      BY <2>1, PortionsOf
    <3>2. PICK i \in 1..f[p] : x = <<p, i>>
      BY <3>1
    <3>3. PICK j \in new : x = <<o, j>>
      BY <2>1
    <3>4. p = o /\ i = j
      BY <3>2, <3>3
    <3> QED BY <3>2, <3>3, <3>4
  <2> QED BY <2>1
<1> HIDE DEF D
<1>4. /\ IsFiniteSet(Portions(f) \cup D)
      /\ Cardinality(Portions(f) \cup D) = Cardinality(Portions(f)) + Cardinality(D) - Cardinality({})
  BY <1>1, <1>3, FS_Union
<1>5. Cardinality({}) = 0 /\ Cardinality(Portions(f)) \in Nat
  BY FS_EmptySet, FS_CardinalityType
<1> QED BY <1>1, <1>2, <1>4, <1>5

LEMMA SamePortions ==
    ASSUME NEW f, NEW g, \A p \in Order : g[p] = f[p]
    PROVE  Portions(g) = Portions(f)
<1>1. ASSUME NEW x PROVE x \in Portions(g) <=> x \in Portions(f)
  BY PortionsOf
<1> QED BY <1>1

\* The stock is conserved, of finitely many portions.
Conserved == IsFiniteSet(Took) /\ IsFiniteSet(GaveBack) /\ StockConserved

LEMMA ConservedNext ==
    ASSUME Inv, Conserved, [Next]_vars
    PROVE  Conserved'
<1> DEFINE took == [p \in Order |-> ord[p].taken]
           gave == [p \in Order |-> ord[p].returned]
           took1 == [p \in Order |-> ord'[p].taken]
           gave1 == [p \in Order |-> ord'[p].returned]
<1>1. /\ Took = Portions(took) /\ GaveBack = Portions(gave)
      /\ Took' = Portions(took1) /\ GaveBack' = Portions(gave1)
  BY DEF Took, GaveBack, Portions
<1>2. /\ stock \in Nat
      /\ \A p \in Order : ord[p].taken \in Nat /\ ord[p].returned \in Nat
  BY RowType DEF Inv, TypeOK
<1>3. /\ IsFiniteSet(Portions(took)) /\ IsFiniteSet(Portions(gave))
      /\ stock + Cardinality(Portions(took)) = Stock0 + Cardinality(Portions(gave))
  BY <1>1 DEF Conserved, StockConserved
<1>4. Cardinality(Portions(took)) \in Nat /\ Cardinality(Portions(gave)) \in Nat
  BY <1>3, FS_CardinalityType
<1>5. SUFFICES /\ IsFiniteSet(Portions(took1)) /\ IsFiniteSet(Portions(gave1))
               /\ stock' + Cardinality(Portions(took1)) = Stock0 + Cardinality(Portions(gave1))
  BY <1>1 DEF Conserved, StockConserved
<1>6. \A p \in Order : Unmoved(p) => took1[p] = took[p] /\ gave1[p] = gave[p]
  BY DEF Unmoved
<1>7. CASE stock' = stock /\ \A p \in Order : Unmoved(p)
  <2>1. Portions(took1) = Portions(took) /\ Portions(gave1) = Portions(gave)
    <3>1. (\A p \in Order : took1[p] = took[p]) /\ (\A p \in Order : gave1[p] = gave[p])
      BY <1>6, <1>7
    <3> HIDE DEF took, gave, took1, gave1
    <3> QED BY <3>1, SamePortions
  <2> QED BY <1>3, <1>7, <2>1
<1>8. ASSUME NEW o \in Order, NEW n \in Nat, PutsBack(o, n), \A p \in Order \ {o} : Unmoved(p)
      PROVE  /\ IsFiniteSet(Portions(took1)) /\ IsFiniteSet(Portions(gave1))
             /\ stock' + Cardinality(Portions(took1)) = Stock0 + Cardinality(Portions(gave1))
  <2>1. /\ \A p \in Order : took1[p] = took[p]
        /\ \A p \in Order \ {o} : gave1[p] = gave[p]
        /\ gave[o] \in Nat /\ gave1[o] = gave[o] + n
    BY <1>2, <1>6, <1>8 DEF PutsBack
  <2> HIDE DEF took, gave, took1, gave1
  <2>2. Portions(took1) = Portions(took)
    BY <2>1, SamePortions
  <2>3. IsFiniteSet(Portions(gave1)) /\ Cardinality(Portions(gave1)) = Cardinality(Portions(gave)) + n
    BY <1>3, <2>1, MorePortions
  <2> QED BY <1>2, <1>3, <1>4, <1>8, <2>2, <2>3, StockAssumption DEF PutsBack
<1>9. ASSUME NEW o \in Order, NEW n \in Nat, Sells(o, n), \A p \in Order \ {o} : Unmoved(p)
      PROVE  /\ IsFiniteSet(Portions(took1)) /\ IsFiniteSet(Portions(gave1))
             /\ stock' + Cardinality(Portions(took1)) = Stock0 + Cardinality(Portions(gave1))
  <2>1. /\ \A p \in Order : gave1[p] = gave[p]
        /\ \A p \in Order \ {o} : took1[p] = took[p]
        /\ took[o] \in Nat /\ took1[o] = took[o] + n
    BY <1>6, <1>9 DEF Sells, NoOrder
  <2> HIDE DEF took, gave, took1, gave1
  <2>2. Portions(gave1) = Portions(gave)
    BY <2>1, SamePortions
  <2>3. IsFiniteSet(Portions(took1)) /\ Cardinality(Portions(took1)) = Cardinality(Portions(took)) + n
    BY <1>3, <2>1, MorePortions
  <2> QED BY <1>2, <1>3, <1>4, <1>9, <2>2, <2>3, StockAssumption DEF Sells
<1> QED BY <1>7, <1>8, <1>9, NextShelf DEF ShelfStep

\* What the orders took and did not give back, with what is on the shelf, is what
\* there was, through checkouts that race for the last portion, voids and
\* cancellations (order_stock._change_stock).
THEOREM StockConservedHolds == Spec => []StockConserved
<1>1. Init => Conserved
  <2> SUFFICES ASSUME Init PROVE Conserved
    OBVIOUS
  <2>1. \A p \in Order : ord[p].taken = 0 /\ ord[p].returned = 0
    BY DEF Init, NoOrder
  <2>2. Took = {} /\ GaveBack = {}
    BY <2>1 DEF Took, GaveBack, Portions
  <2>3. stock = Stock0
    BY DEF Init
  <2> QED BY <2>2, <2>3, FS_EmptySet, StockAssumption DEF Conserved, StockConserved
<1>2. Inv /\ Conserved /\ [Next]_vars => Conserved'
  BY ConservedNext
<1>3. Conserved => StockConserved
  BY DEF Conserved
<1> QED BY <1>1, <1>2, <1>3, InvHolds, PTL DEF Spec

-----------------------------------------------------------------------------
(***************************************************************************)
(* Pickup numbers.  The counter tells where the round is: the numbers up   *)
(* to it were given once more than those above it, and k is how many       *)
(* rounds are complete.                                                    *)
(***************************************************************************)
BearerSet(n) == {o \in Order : Placed(o) /\ ord[o].pickup = n}

GivenInTurn(k) == \A n \in 1..MaxPickup : Bearers(n) = IF n <= counter THEN k + 1 ELSE k

InTurn ==
    /\ \A n \in 1..MaxPickup : IsFiniteSet(BearerSet(n))
    /\ \E k \in Nat : GivenInTurn(k)

LEMMA NextPickupRange ==
    ASSUME TypeOK
    PROVE  /\ NextPickup \in 1..MaxPickup
           /\ counter < MaxPickup => NextPickup = counter + 1
           /\ counter = MaxPickup => NextPickup = 1
<1>1. counter \in 0..MaxPickup /\ MaxPickup \in Nat \ {0}
  BY PickupAssumption DEF TypeOK
<1>2. counter < MaxPickup => counter % MaxPickup = counter
  BY <1>1
<1>3. counter = MaxPickup => counter % MaxPickup = 0
  BY <1>1
<1> QED BY <1>1, <1>2, <1>3 DEF NextPickup

LEMMA InTurnKept ==
    ASSUME InTurn, counter' = counter,
           \A p \in Order : ord'[p].pickup = ord[p].pickup /\ (Placed(p)' <=> Placed(p))
    PROVE  InTurn'
<1>1. \A n \in 1..MaxPickup : BearerSet(n)' = BearerSet(n)
  BY DEF BearerSet
<1>2. \A n \in 1..MaxPickup : Bearers(n)' = Bearers(n)
  BY <1>1 DEF Bearers, BearerSet
<1>3. PICK k \in Nat : GivenInTurn(k)
  BY DEF InTurn
<1>4. GivenInTurn(k)'
  BY <1>2, <1>3 DEF GivenInTurn
<1> QED BY <1>1, <1>4 DEF InTurn

LEMMA InTurnSold ==
    ASSUME TypeOK, InTurn, NEW o \in Order, NEW n \in Nat, Sells(o, n),
           \A p \in Order \ {o} : Unmoved(p)
    PROVE  InTurn'
<1> DEFINE c == NextPickup
<1>1. c \in 1..MaxPickup /\ MaxPickup \in Nat \ {0} /\ counter \in 0..MaxPickup
  BY NextPickupRange, PickupAssumption DEF TypeOK
<1>2. (counter < MaxPickup => c = counter + 1) /\ (counter = MaxPickup => c = 1)
  BY NextPickupRange
<1>3. counter' = c /\ ~Placed(o) /\ Placed(o)' /\ ord'[o].pickup = c
  BY DEF Sells
<1> HIDE DEF c
<1>4. \A p \in Order \ {o} : ord'[p].pickup = ord[p].pickup /\ (Placed(p)' <=> Placed(p))
  BY DEF Unmoved
<1>5. ASSUME NEW i \in 1..MaxPickup
      PROVE  BearerSet(i)' = IF i = c THEN BearerSet(i) \cup {o} ELSE BearerSet(i)
  BY <1>3, <1>4 DEF BearerSet
<1>6. \A i \in 1..MaxPickup : o \notin BearerSet(i) /\ IsFiniteSet(BearerSet(i))
  BY <1>3 DEF BearerSet, InTurn
<1>7. ASSUME NEW i \in 1..MaxPickup
      PROVE  IsFiniteSet(BearerSet(i)') /\ Bearers(i)' = IF i = c THEN Bearers(i) + 1 ELSE Bearers(i)
  <2>1. /\ IsFiniteSet(BearerSet(i) \cup {o})
        /\ Cardinality(BearerSet(i) \cup {o}) = Cardinality(BearerSet(i)) + 1
    BY <1>6, FS_AddElement
  <2>2. Bearers(i) = Cardinality(BearerSet(i)) /\ Bearers(i)' = Cardinality(BearerSet(i)')
    BY DEF Bearers, BearerSet
  <2> QED BY <1>5, <1>6, <2>1, <2>2
<1>8. PICK k \in Nat : GivenInTurn(k)
  BY DEF InTurn
<1>9. CASE counter < MaxPickup
  <2>1. GivenInTurn(k)'
    <3> SUFFICES ASSUME NEW i \in 1..MaxPickup
                 PROVE  Bearers(i)' = IF i <= c THEN k + 1 ELSE k
      BY <1>3 DEF GivenInTurn
    <3>1. Bearers(i) = IF i <= counter THEN k + 1 ELSE k
      BY <1>8 DEF GivenInTurn
    <3> QED BY <1>1, <1>2, <1>7, <1>9, <3>1
  <2> QED BY <1>7, <2>1 DEF InTurn
<1>10. CASE counter = MaxPickup
  <2>1. GivenInTurn(k + 1)'
    <3> SUFFICES ASSUME NEW i \in 1..MaxPickup
                 PROVE  Bearers(i)' = IF i <= c THEN (k + 1) + 1 ELSE k + 1
      BY <1>3 DEF GivenInTurn
    <3>1. Bearers(i) = k + 1
      BY <1>8, <1>10 DEF GivenInTurn
    <3> QED BY <1>1, <1>2, <1>7, <1>10, <3>1
  <2>2. \E j \in Nat : GivenInTurn(j)'
    BY <2>1
  <2> QED BY <1>7, <2>2 DEF InTurn
<1> QED BY <1>1, <1>9, <1>10

LEMMA InTurnNext ==
    ASSUME Inv, InTurn, [Next]_vars
    PROVE  InTurn'
<1>1. TypeOK
  BY DEF Inv
<1>2. CASE stock' = stock /\ counter' = counter /\ \A p \in Order : Unmoved(p)
  BY <1>2, InTurnKept DEF Unmoved
<1>3. ASSUME NEW o \in Order, NEW n \in Nat, PutsBack(o, n), \A p \in Order \ {o} : Unmoved(p)
      PROVE  InTurn'
  BY <1>3, InTurnKept DEF Unmoved, PutsBack
<1>4. ASSUME NEW o \in Order, NEW n \in Nat, Sells(o, n), \A p \in Order \ {o} : Unmoved(p)
      PROVE  InTurn'
  BY <1>1, <1>4, InTurnSold
<1> QED BY <1>2, <1>3, <1>4, NextShelf DEF ShelfStep

\* Pickup numbers go round without a gap, whatever checkouts fail in between
\* (the counter's UPDATE is part of the checkout's transaction).
THEOREM PickupInTurnHolds == Spec => []PickupInTurn
<1>1. Init => InTurn
  <2> SUFFICES ASSUME Init PROVE InTurn
    OBVIOUS
  <2>1. \A n \in 1..MaxPickup : BearerSet(n) = {}
    BY DEF Init, NoOrder, BearerSet, Placed
  <2>2. \A n \in 1..MaxPickup : Bearers(n) = 0 /\ IsFiniteSet(BearerSet(n))
    BY <2>1, FS_EmptySet DEF Bearers, BearerSet
  <2>3. counter = 0
    BY DEF Init
  <2>4. GivenInTurn(0)
    BY <2>2, <2>3, PickupAssumption DEF GivenInTurn
  <2> QED BY <2>2, <2>4 DEF InTurn
<1>2. Inv /\ InTurn /\ [Next]_vars => InTurn'
  BY InTurnNext
<1>3. Inv /\ InTurn => PickupInTurn
  <2> SUFFICES ASSUME Inv, InTurn, NEW m \in 1..MaxPickup, NEW n \in 1..MaxPickup, m < n
               PROVE  Bearers(m) - Bearers(n) \in {0, 1}
    BY DEF PickupInTurn
  <2>1. PICK k \in Nat : GivenInTurn(k)
    BY DEF InTurn
  <2>2. /\ Bearers(m) = IF m <= counter THEN k + 1 ELSE k
        /\ Bearers(n) = IF n <= counter THEN k + 1 ELSE k
    BY <2>1 DEF GivenInTurn
  <2>3. counter \in 0..MaxPickup /\ MaxPickup \in Nat
    BY PickupAssumption DEF Inv, TypeOK
  <2> QED BY <2>2, <2>3
<1> QED BY <1>1, <1>2, <1>3, InvHolds, PTL DEF Spec

-----------------------------------------------------------------------------
\* Marking an item as sold out by hand while there is stock is not undone by a
\* checkout, a cancellation or a void: only by hand (_change_stock clears the
\* flag of an empty shelf only).
THEOREM ManualSoldOutStaysHolds == Spec => ManualSoldOutStays
<1>1. ASSUME [Next]_vars PROVE (soldOut /\ stock > 0) /\ stock' # stock => soldOut'
  <2> SUFFICES ASSUME soldOut, stock > 0, stock' # stock PROVE soldOut'
    OBVIOUS
  <2>1. ASSUME NEW t \in Terminal, Begin(t) PROVE FALSE
    BY <2>1 DEF Begin, BeginCheckout, BeginStatus, BeginVoid, BeginSettle, BeginRefund
  <2>2. ASSUME NEW t \in Terminal, Commit(t) PROVE soldOut'
    <3>1. CASE CommitCheckout(t)
      BY <3>1 DEF CommitCheckout, Take, CanTake
    <3>2. ASSUME NEW restock \in Restock, CommitCancel(t, restock) \/ CommitVoid(t, restock)
          PROVE  soldOut'
      BY <3>2 DEF CommitCancel, CommitVoid, Restocked, PutBack
    <3>3. CASE CommitStatus(t) \/ CommitSettle(t) \/ CommitRefund(t)
      BY <3>3 DEF CommitStatus, CommitSettle, CommitRefund
    <3> QED BY <2>2, <3>1, <3>2, <3>3 DEF Commit
  <2>3. ASSUME NEW t \in Terminal, Rollback(t) PROVE FALSE
    BY <2>3 DEF Rollback
  <2>4. ASSUME NEW orders \in SUBSET Order, CompleteAll(orders) PROVE FALSE
    BY <2>4 DEF CompleteAll
  <2>5. ASSUME NEW o \in Order, RefundDone(o) PROVE FALSE
    BY <2>5 DEF RefundDone
  <2>6. ASSUME NEW flag \in BOOLEAN, SetSoldOut(flag) PROVE FALSE
    BY <2>6 DEF SetSoldOut
  <2>7. CASE UNCHANGED vars
    BY <2>7 DEF vars
  <2> QED BY <1>1, <2>1, <2>2, <2>3, <2>4, <2>5, <2>6, <2>7 DEF Next
<1> QED BY <1>1, PTL DEF Spec, ManualSoldOutStays

-----------------------------------------------------------------------------
(***************************************************************************)
(* Rounding a void.  Of an order worth whole, base is still due; when a    *)
(* share of it is voided, what the rounded part of base leaves due is not  *)
(* more than the rest is worth.                                            *)
(***************************************************************************)
LEMMA DivBound ==
    ASSUME NEW a \in Nat, NEW b \in Nat \ {0}
    PROVE  a \div b \in Nat /\ a < b * (a \div b) + b
  OBVIOUS

LEMMA TimesMonotone ==
    ASSUME NEW s \in Nat, NEW a \in Int, NEW b \in Int, a <= b
    PROVE  s * a <= s * b
<1>1. (b - a) \in Nat
  OBVIOUS
<1>2. s * (b - a) \in Nat
  BY <1>1
<1>3. s * (b - a) = s * b - s * a
  OBVIOUS
<1>4. s * a \in Int /\ s * b \in Int
  OBVIOUS
<1> QED BY <1>2, <1>3, <1>4

LEMMA ProrateEnough ==
    ASSUME NEW share \in Nat, NEW base \in Nat, NEW whole \in Nat, share <= whole, base <= whole
    PROVE  base - Prorate(share, base, whole) <= whole - share
<1>1. CASE whole = 0
  BY <1>1 DEF Prorate
<1>2. CASE whole # 0
  <2> DEFINE x == whole - share
             y == whole - base
             w == share * base
             q == (2 * w + whole) \div (2 * whole)
             ss == whole * whole
             sx == whole * x
             sy == whole * y
             xy == x * y
  <2>1. x \in Nat /\ y \in Nat
    OBVIOUS
  <2>2. w \in Nat /\ ss \in Int /\ sx \in Int /\ sy \in Int /\ xy \in Nat
    BY <2>1
  <2>3. w = ((ss - sy) - sx) + xy
    <3>1. share = whole - x /\ base = whole - y
      OBVIOUS
    <3>2. (whole - x) * (whole - y) = ((whole * whole - whole * y) - whole * x) + x * y
      BY <2>1
    <3> QED BY <3>1, <3>2
  <2>4. Prorate(share, base, whole) = q
    <3>1. 2 * share * base = 2 * (share * base)
      OBVIOUS
    <3> QED BY <1>2, <3>1 DEF Prorate
  <2>5. q \in Nat /\ 2 * w + whole < (2 * whole) * q + 2 * whole
    <3>1. 2 * w + whole \in Nat /\ 2 * whole \in Nat \ {0}
      BY <1>2, <2>2
    <3> HIDE DEF w
    <3> QED BY <3>1, DivBound
  <2>6. SUFFICES ASSUME base - q > x PROVE FALSE
    <3> HIDE DEF q
    <3> QED BY <2>4, <2>5
  <2>7. q <= (whole - y) - (x + 1)
    <3>1. base = whole - y
      OBVIOUS
    <3> HIDE DEF q, y
    <3> QED BY <2>1, <2>5, <2>6, <3>1
  <2>8. whole * q <= whole * ((whole - y) - (x + 1))
    <3> HIDE DEF q
    <3>1. (whole - y) - (x + 1) \in Int
      BY <2>1
    <3> QED BY <2>5, <2>7, <3>1, TimesMonotone
  <2>9. whole * ((whole - y) - (x + 1)) = ((ss - sy) - sx) - whole
    BY <2>1
  <2>10. (2 * whole) * q = 2 * (whole * q) /\ whole * q \in Int
    <3> HIDE DEF q
    <3> QED BY <2>5
  <2> DEFINE sq == whole * q
  <2>11. sq \in Int /\ sq <= ((ss - sy) - sx) - whole /\ 2 * w + whole < 2 * sq + 2 * whole
    BY <2>5, <2>8, <2>9, <2>10
  <2> HIDE DEF sq, w, ss, sx, sy, xy, q
  <2> QED BY <2>2, <2>3, <2>11
<1> QED BY <1>1, <1>2

LEMMA TimesCancel ==
    ASSUME NEW s \in Nat \ {0}, NEW a \in Int, NEW b \in Int, s * a <= s * b
    PROVE  a <= b
<1> SUFFICES ASSUME b + 1 <= a PROVE FALSE
  OBVIOUS
<1>1. s * (b + 1) <= s * a
  BY TimesMonotone
<1>2. s * (b + 1) = s * b + s
  OBVIOUS
<1>3. s * a \in Int /\ s * b \in Int
  OBVIOUS
<1> QED BY <1>1, <1>2, <1>3

(***************************************************************************)
(* With a service charge base may be more than whole.  What rounding a     *)
(* void leaves due too much is then at most half a dollar: multiplied by   *)
(* whole, by what was ordered and divided again.                           *)
(***************************************************************************)
LEMMA ProrateLoss ==
    ASSUME NEW share \in Nat, NEW base \in Nat, NEW whole \in Nat \ {0}
    PROVE  2 * (whole * (base - Prorate(share, base, whole)))
              <= 2 * (base * (whole - share)) + whole
<1> DEFINE w == share * base
           q == (2 * w + whole) \div (2 * whole)
<1>1. w \in Nat
  OBVIOUS
<1>2. Prorate(share, base, whole) = q
  <2>1. 2 * share * base = 2 * (share * base)
    OBVIOUS
  <2> QED BY <2>1 DEF Prorate
<1>3. q \in Nat /\ 2 * w + whole < (2 * whole) * q + 2 * whole
  <2>1. 2 * w + whole \in Nat /\ 2 * whole \in Nat \ {0}
    BY <1>1
  <2> HIDE DEF w
  <2> QED BY <2>1, DivBound
<1> HIDE DEF q
<1>4. /\ (2 * whole) * q = 2 * (whole * q) /\ whole * q \in Int
      /\ whole * (base - q) = whole * base - whole * q
  BY <1>3
<1>5. base * (whole - share) = whole * base - w /\ whole * base \in Int
  OBVIOUS
<1> DEFINE x == whole * q
           y == whole * base
<1>6. x \in Int /\ y \in Int /\ 2 * w + whole < 2 * x + 2 * whole
  BY <1>3, <1>4, <1>5
<1>7. 2 * (y - x) <= 2 * (y - w) + whole
  <2> HIDE DEF w, x, y
  <2> QED BY <1>1, <1>6
<1> QED BY <1>2, <1>4, <1>5, <1>7

LEMMA LossShared ==
    ASSUME NEW share \in Nat, NEW base \in Nat, NEW whole \in Nat \ {0}, share <= whole,
           NEW ordered \in Nat, NEW charged \in Nat, NEW times \in Nat,
           2 * (base * ordered) <= 2 * (whole * charged) + times * ordered
    PROVE  2 * ((base - Prorate(share, base, whole)) * ordered)
              <= 2 * ((whole - share) * charged) + times * ordered + ordered
<1> DEFINE left == base - Prorate(share, base, whole)
           rest == whole - share
<1>1. left \in Int /\ rest \in Nat /\ rest <= whole
  BY ProrateNat
<1>2. 2 * (whole * left) <= 2 * (base * rest) + whole
  BY ProrateLoss
<1> HIDE DEF left, rest
<1> DEFINE bo == base * ordered
           wc == whole * charged
           to == times * ordered
           wl == whole * left
           br == base * rest
<1>3. bo \in Int /\ wc \in Int /\ to \in Nat /\ wl \in Int /\ br \in Int
  <2>1. whole * left \in Int /\ base * rest \in Int
    BY <1>1
  <2> QED BY <2>1
<1>4. ordered * (2 * wl) <= ordered * (2 * br + whole)
  <2>1. 2 * wl \in Int /\ 2 * br + whole \in Int /\ 2 * wl <= 2 * br + whole
    <3> HIDE DEF wl, br
    <3>1. 2 * wl <= 2 * br + whole
      BY <1>2 DEF wl, br
    <3> QED BY <1>3, <3>1
  <2> HIDE DEF wl, br
  <2> QED BY <2>1, TimesMonotone
<1>5. rest * (2 * bo) <= rest * (2 * wc + to)
  <2>1. 2 * bo \in Int /\ 2 * wc + to \in Int /\ 2 * bo <= 2 * wc + to
    <3> HIDE DEF bo, wc, to
    <3>1. 2 * bo <= 2 * wc + to
      BY DEF bo, wc, to
    <3> QED BY <1>3, <3>1
  <2> HIDE DEF bo, wc, to
  <2> QED BY <1>1, <2>1, TimesMonotone
<1>6. to * rest <= to * whole
  <2> HIDE DEF to
  <2> QED BY <1>1, <1>3, TimesMonotone
<1>7. /\ ordered * (2 * wl) = whole * (2 * (left * ordered))
      /\ ordered * (2 * br + whole) = 2 * (rest * bo) + whole * ordered
      /\ rest * (2 * bo) = 2 * (rest * bo)
      /\ rest * (2 * wc + to) = whole * (2 * (rest * charged)) + to * rest
      /\ to * whole = whole * to
  <2>1. ordered * (2 * wl) = whole * (2 * (left * ordered))
    BY <1>1
  <2>2. ordered * (2 * br + whole) = 2 * (rest * bo) + whole * ordered
    BY <1>1
  <2>3. rest * (2 * bo) = 2 * (rest * bo)
    <3> HIDE DEF bo
    <3> QED BY <1>1, <1>3
  <2>4. rest * (2 * wc + to) = whole * (2 * (rest * charged)) + to * rest
    <3> HIDE DEF to
    <3> QED BY <1>1, <1>3
  <2>5. to * whole = whole * to
    <3> HIDE DEF to
    <3> QED BY <1>3
  <2> QED BY <2>1, <2>2, <2>3, <2>4, <2>5
<1> DEFINE lo == left * ordered
           rc == rest * charged
<1>8. lo \in Int /\ rc \in Int
  BY <1>1
<1>9. whole * (2 * lo) <= whole * (2 * rc + to + ordered)
  <2>1. PICK a \in Int : a = whole * (2 * lo)
    BY <1>8
  <2>2. PICK b \in Int : b = rest * bo
    BY <1>1, <1>3
  <2>3. PICK c \in Int : c = whole * (2 * rc)
    BY <1>8
  <2>4. PICK d \in Int : d = to * rest
    <3> HIDE DEF to
    <3> QED BY <1>1, <1>3
  <2>5. PICK e \in Int : e = whole * to
    <3> HIDE DEF to
    <3> QED BY <1>3
  <2>6. PICK f \in Int : f = whole * ordered
    OBVIOUS
  <2>7. /\ a <= 2 * b + f
        /\ 2 * b <= c + d
        /\ d <= e
    <3>1. a <= 2 * b + f
      BY <1>4, <1>7, <2>1, <2>2, <2>6
    <3>2. 2 * b <= c + d
      BY <1>5, <1>7, <2>2, <2>3, <2>4
    <3>3. d <= e
      BY <1>6, <1>7, <2>4, <2>5
    <3> QED BY <3>1, <3>2, <3>3
  <2>8. whole * (2 * rc + to + ordered) = c + e + f
    <3> HIDE DEF rc, to
    <3>1. whole * (2 * rc + to + ordered) = whole * (2 * rc) + whole * to + whole * ordered
      BY <1>3, <1>8
    <3> QED BY <2>3, <2>5, <2>6, <3>1
  <2>9. a <= c + e + f
    BY <2>7
  <2> QED BY <2>1, <2>8, <2>9
<1>10. 2 * lo <= 2 * rc + to + ordered
  <2>1. 2 * lo \in Int /\ 2 * rc + to + ordered \in Int
    <3> HIDE DEF lo, rc, to
    <3> QED BY <1>3, <1>8
  <2> HIDE DEF lo, rc, to
  <2> QED BY <1>9, <2>1, TimesCancel
<1> QED BY <1>10 DEF left, rest

-----------------------------------------------------------------------------
(***************************************************************************)
(* What NetWithinItems says of the numbers: the money kept, net, of an     *)
(* order whose portions were worth ordered and are still worth left.       *)
(***************************************************************************)
Worth(net, left, ordered, service, voided) ==
    /\ service = 0 => net <= left
    /\ 2 * net * ordered <= 2 * left * (ordered + service) + voided * ordered

WorthOK(o) ==
    Live(o) => Worth(Net(o), Subtotal(o), Ordered(o), ord[o].service, ord[o].voided["base"])

\* The same without the order in which the products are taken.
LEMMA WorthPlain ==
    ASSUME NEW net \in Int, NEW left \in Nat, NEW ordered \in Nat, NEW service \in Nat,
           NEW voided \in Nat
    PROVE  /\ 2 * net * ordered = 2 * (net * ordered)
           /\ 2 * left * (ordered + service) = 2 * (left * (ordered + service))
           /\ net * ordered \in Int
           /\ left * (ordered + service) \in Nat
           /\ voided * ordered \in Nat
<1>1. 2 * net * ordered = 2 * (net * ordered) /\ net * ordered \in Int
  OBVIOUS
<1>2. PICK c \in Nat : c = ordered + service
  OBVIOUS
<1>3. 2 * left * c = 2 * (left * c) /\ left * c \in Nat
  OBVIOUS
<1>4. voided * ordered \in Nat
  OBVIOUS
<1> QED BY <1>1, <1>2, <1>3, <1>4

\* Less money is worth no more, and one more void allows for more rounding.
LEMMA WorthLess ==
    ASSUME NEW net \in Int, NEW left \in Nat, NEW ordered \in Nat, NEW service \in Nat,
           NEW voided \in Nat, Worth(net, left, ordered, service, voided),
           NEW less \in Int, less <= net, NEW more \in Nat, voided <= more
    PROVE  Worth(less, left, ordered, service, more)
<1>1. ordered * less <= ordered * net /\ ordered * voided <= ordered * more
  BY TimesMonotone
<1>2. /\ ordered * less = less * ordered /\ ordered * net = net * ordered
      /\ ordered * voided = voided * ordered /\ ordered * more = more * ordered
  OBVIOUS
<1>3. PICK c : c = left * (ordered + service)
  OBVIOUS
<1>4. /\ 2 * net * ordered = 2 * (net * ordered) /\ net * ordered \in Int
      /\ 2 * left * (ordered + service) = 2 * c /\ c \in Nat
      /\ voided * ordered \in Nat
  BY <1>3, WorthPlain
<1>5. /\ 2 * less * ordered = 2 * (less * ordered) /\ less * ordered \in Int
      /\ more * ordered \in Nat
  BY WorthPlain
<1>6. 2 * (net * ordered) <= 2 * c + voided * ordered
  BY <1>4 DEF Worth
<1>7. 2 * (less * ordered) <= 2 * c + more * ordered
  BY <1>1, <1>2, <1>4, <1>5, <1>6
<1>8. service = 0 => less <= left
  BY DEF Worth
<1> QED BY <1>4, <1>5, <1>7, <1>8 DEF Worth

\* No money is always worth it.
LEMMA NothingKept ==
    ASSUME NEW net \in Int, net <= 0, NEW left \in Nat, NEW ordered \in Nat, NEW service \in Nat,
           NEW voided \in Nat
    PROVE  Worth(net, left, ordered, service, voided)
<1>1. 2 * 0 * ordered = 0
  OBVIOUS
<1>2. 2 * left * (ordered + service) \in Nat /\ voided * ordered \in Nat
  BY WorthPlain
<1>3. Worth(0, left, ordered, service, voided)
  BY <1>1, <1>2 DEF Worth
<1> QED BY <1>3, WorthLess

\* Of money that was worth it, what a void of a share leaves is worth it.
LEMMA WorthVoided ==
    ASSUME NEW net \in Nat, NEW left \in Nat, NEW share \in Nat, share <= left,
           NEW ordered \in Nat, NEW service \in Nat, NEW voided \in Nat,
           Worth(net, left, ordered, service, voided)
    PROVE  Worth(net - Prorate(share, net, left), left - share, ordered, service, voided + 1)
<1> DEFINE kept == net - Prorate(share, net, left)
<1>1. kept \in Int /\ kept <= net
  <2>1. PICK q \in Nat : q = Prorate(share, net, left)
    BY ProrateNat
  <2> QED BY <2>1
<1>2. CASE left = 0
  <2>1. share = 0 /\ left - share = left
    BY <1>2
  <2> HIDE DEF kept
  <2> QED BY <1>1, <2>1, WorthLess DEF kept
<1>3. CASE left # 0
  <2>1. service = 0 => kept <= left - share
    BY ProrateEnough DEF Worth
  <2>2. PICK charged \in Nat : charged = ordered + service
    OBVIOUS
  <2>3. 2 * (net * ordered) <= 2 * (left * charged) + voided * ordered
    BY <2>2, WorthPlain DEF Worth
  <2>4. 2 * (kept * ordered) <= 2 * ((left - share) * charged) + voided * ordered + ordered
    <3>1. left \in Nat \ {0}
      BY <1>3
    <3> QED BY <2>3, <3>1, LossShared
  <2>5. (voided + 1) * ordered = voided * ordered + ordered
    OBVIOUS
  <2>6. /\ 2 * kept * ordered = 2 * (kept * ordered)
        /\ 2 * (left - share) * charged = 2 * ((left - share) * charged)
        /\ (left - share) * charged \in Int /\ voided * ordered \in Int
    <3>1. left - share \in Nat
      OBVIOUS
    <3> HIDE DEF kept
    <3> QED BY <1>1, <3>1
  <2>7. 2 * kept * ordered <= 2 * (left - share) * charged + (voided + 1) * ordered
    <3> PICK x \in Int : x = (left - share) * charged
      BY <2>6
    <3> PICK y \in Int : y = voided * ordered
      BY <2>6
    <3> HIDE DEF kept
    <3> QED BY <2>4, <2>5, <2>6
  <2> QED BY <2>1, <2>2, <2>7 DEF Worth
<1> QED BY <1>2, <1>3

\* The share of a gift is nothing.
LEMMA ProrateNothing ==
    ASSUME NEW base \in Nat, NEW whole \in Nat
    PROVE  Prorate(0, base, whole) = 0
<1>1. 2 * 0 * base + whole = whole
  OBVIOUS
<1>2. CASE whole # 0
  <2>1. whole \div (2 * whole) = 0
    BY <1>2
  <2> QED BY <1>1, <2>1 DEF Prorate
<1> QED BY <1>2 DEF Prorate

\* The base portions that a void leaves on the order, and those it voided.
LEMMA VoidedBase ==
    ASSUME TypeOK, NEW o \in Order, NEW l \in Line, NEW n \in Nat, NEW less, NEW refund, NEW restock
    PROVE  LET v == Voided(o, l, n, less, refund, restock)
           IN  /\ v.qty["base"] = IF l = "base" THEN ord[o].qty["base"] - n ELSE ord[o].qty["base"]
               /\ v.voided["base"] = IF l = "base" THEN ord[o].voided["base"] + n
                                                   ELSE ord[o].voided["base"]
               /\ v.fee = ord[o].fee /\ v.service = ord[o].service
<1> DEFINE v == Voided(o, l, n, less, refund, restock)
           q == Fewer(ord[o].qty, l, n)
           w == More(ord[o].voided, l, n)
<1>1. ord[o] \in OrderRow /\ ord[o].qty \in [Line -> Nat] /\ ord[o].voided \in [Line -> Nat]
  BY DEF TypeOK, OrderRow
<1>2. v.qty = q /\ v.voided = w /\ v.fee = ord[o].fee /\ v.service = ord[o].service
  BY <1>1 DEF Voided, OrderRow
<1>3. q["base"] = IF l = "base" THEN ord[o].qty["base"] - n ELSE ord[o].qty["base"]
  BY <1>1 DEF Fewer, Line
<1>4. w["base"] = IF l = "base" THEN ord[o].voided["base"] + n ELSE ord[o].voided["base"]
  BY <1>1 DEF More, Line
<1> QED BY <1>2, <1>3, <1>4

\* The money and the worth of an order are numbers.
LEMMA WorthTypes ==
    ASSUME TypeOK, NEW o \in Order
    PROVE  /\ Net(o) \in Int /\ Subtotal(o) \in Nat /\ Ordered(o) \in Nat
           /\ ord[o].service \in Nat /\ ord[o].voided["base"] \in Nat
<1>1. ord[o].voided["base"] \in Nat
  BY DEF TypeOK, OrderRow, Line
<1>2. Net(o) \in Int /\ ord[o].service \in Nat /\ ord[o].qty["base"] \in Nat
  BY RowType DEF Net
<1>3. ASSUME NEW a \in Nat PROVE Price * a \in Nat
  BY PriceAssumption
<1>4. Subtotal(o) \in Nat
  BY <1>2, <1>3 DEF Subtotal
<1>5. Ordered(o) \in Nat
  <2>1. ord[o].qty["base"] + ord[o].voided["base"] \in Nat
    BY <1>1, <1>2
  <2> QED BY <1>3, <2>1 DEF Ordered
<1> QED BY <1>1, <1>2, <1>4, <1>5

\* A void of a live order leaves it with no more money than its portions are
\* worth: its share is rounded, and what is left rounds the other way.
LEMMA VoidWorth ==
    ASSUME Inv, TypeOK', NEW t \in Terminal, NEW restock \in Restock, CommitVoid(t, restock),
           NEW o \in Order, req[t].order = o, WorthOK(o), Live(o)'
    PROVE  WorthOK(o)'
<1>0. PICK r \in Request : r = req[t]
  BY DEF Inv, TypeOK
<1> DEFINE due == AtLeast0(ord[o].total - ord[o].refunded)
           base == AtLeast0(ord[o].total - ord[o].fee - ord[o].refunded)
           share == LinePrice(r.line) * r.n
           whole == Subtotal(o)
           part == Prorate(share, base, whole)
           amount == Lesser(part, due)
           refund == IF IsPaid(o) THEN amount ELSE 0
           row == ord'[o]
           times == ord[o].voided["base"]
<1>1. TypeOK /\ OrdersOK /\ ReadsHold
  BY DEF Inv
<1>2. r.order = o /\ r.line \in Line /\ r.n \in Nat \ {0} /\ ord[o].qty[r.line] >= r.n
  BY <1>0, RequestKinds, StockAssumption DEF CommitVoid
<1>3. Placed(o) /\ OrderOK(o)
  BY <1>0, <1>1, <1>2 DEF CommitVoid, ReadsHold, ReadOK, OrdersOK, Placed
<1>4. /\ ord[o].qty["base"] \in Nat /\ ord[o].qty["gift"] \in Nat
      /\ ord[o].total \in Nat /\ ord[o].refunded \in Nat /\ ord[o].fee \in Nat
      /\ times \in Nat /\ restock \in BOOLEAN
  BY <1>1, RowType, WorthTypes, RestockAssumption
<1>5. row = Voided(o, r.line, r.n, amount - refund, refund, restock)
  BY <1>0, <1>1, <1>2 DEF CommitVoid, TypeOK
<1>6. share \in Nat /\ whole \in Nat
  BY <1>2, <1>4, PriceAssumption DEF LinePrice, Subtotal
<1>7. due \in Nat /\ base \in Nat
  BY <1>4 DEF AtLeast0
<1>8. part \in Nat
  <2> HIDE DEF share, base, whole
  <2> QED BY <1>6, <1>7, ProrateNat
<1>9. amount \in Nat /\ amount <= due /\ refund \in Nat /\ amount - refund \in Nat
  <2> HIDE DEF part, due
  <2> QED BY <1>7, <1>8 DEF Lesser
<1>10. ord[o].pay = "unpaid" => amount - refund <= ord[o].total
  <2> HIDE DEF amount, refund
  <2> QED BY <1>4, <1>7, <1>9 DEF AtLeast0
<1>11. /\ row.status = ord[o].status
       /\ row.refunded = ord[o].refunded + refund
       /\ row.total = IF ord[o].pay = "unpaid" THEN ord[o].total - (amount - refund) ELSE ord[o].total
  <2> HIDE DEF amount, refund
  <2> QED BY <1>1, <1>2, <1>4, <1>5, <1>9, <1>10, VoidedRow
<1>12. /\ row.qty["base"] = IF r.line = "base" THEN ord[o].qty["base"] - r.n ELSE ord[o].qty["base"]
       /\ row.voided["base"] = IF r.line = "base" THEN times + r.n ELSE times
       /\ row.fee = ord[o].fee /\ row.service = ord[o].service
  BY <1>1, <1>2, <1>5, VoidedBase
<1>13. Live(o) /\ due = ord[o].total - ord[o].refunded /\ Net(o) <= due
  <2>1. Live(o)
    BY <1>11 DEF Live
  <2>2. ord[o].refunded <= ord[o].total
    BY <1>3, <2>1 DEF OrderOK
  <2>3. due = ord[o].total - ord[o].refunded
    BY <1>4, <2>2 DEF AtLeast0
  <2> QED BY <1>4, <2>1, <2>3 DEF Net
<1>14. /\ share <= whole /\ Subtotal(o)' = whole - share
       /\ Ordered(o)' = Ordered(o)
       /\ r.line = "gift" => share = 0
  <2>1. Subtotal(o)' = Price * row.qty["base"]
    BY DEF Subtotal
  <2>2. Ordered(o)' = Price * (row.qty["base"] + row.voided["base"])
    BY DEF Ordered
  <2>3. CASE r.line = "base"
    <3> DEFINE b == ord[o].qty["base"]
               n == r.n
    <3>1. b \in Nat /\ n \in Nat /\ b - n \in Nat /\ row.qty["base"] = b - n
      BY <1>2, <1>4, <1>12, <2>3
    <3>2. share = Price * n /\ whole = Price * b
      BY <2>3 DEF LinePrice, Subtotal
    <3>5. row.qty["base"] + row.voided["base"] = b + times
      BY <1>4, <1>12, <2>3, <3>1
    <3> HIDE DEF b, n, share, whole
    <3>3. Price * (b - n) = Price * b - Price * n
      BY <3>1, PriceAssumption
    <3>4. Price * (b - n) \in Nat /\ Price * b \in Nat /\ Price * n \in Nat
      BY <3>1, PriceAssumption
    <3>6. share <= whole /\ Subtotal(o)' = whole - share
      BY <2>1, <3>1, <3>2, <3>3, <3>4
    <3>7. Ordered(o)' = Ordered(o)
      BY <2>2, <3>5 DEF Ordered, b
    <3> QED BY <2>3, <3>6, <3>7
  <2>4. CASE r.line = "gift"
    <3>1. /\ share = 0 /\ row.qty["base"] = ord[o].qty["base"]
          /\ row.voided["base"] = times
      BY <1>2, <1>12, <2>4 DEF LinePrice
    <3> HIDE DEF share
    <3>2. Subtotal(o)' = whole - share
      BY <1>6, <2>1, <3>1 DEF Subtotal
    <3>3. Ordered(o)' = Ordered(o)
      BY <2>2, <3>1 DEF Ordered
    <3> QED BY <1>6, <3>1, <3>2, <3>3
  <2> QED BY <1>2, <2>3, <2>4 DEF Line
<1>16. Net(o)' = Net(o) - amount
  <2>1. ord[o].pay \in {"at_once", "settled", "unpaid"}
    <3>1. ord[o].pay \in PayStatus
      BY <1>1, <1>3, RowType DEF OrderOK
    <3> QED BY <1>3, <1>13, <3>1 DEF OrderOK, PayStatus
  <2>4. Net(o)' = row.total - row.fee - row.refunded
    BY DEF Net
  <2>2. CASE ord[o].pay = "unpaid"
    <3>1. refund = 0
      BY <2>2 DEF IsPaid
    <3> HIDE DEF amount, refund, due, row
    <3> QED BY <1>4, <1>9, <1>11, <1>12, <2>2, <2>4, <3>1 DEF Net
  <2>3. CASE ord[o].pay # "unpaid"
    <3>1. refund = amount
      BY <2>1, <2>3 DEF IsPaid
    <3> HIDE DEF amount, refund, due, row
    <3> QED BY <1>4, <1>9, <1>11, <1>12, <2>3, <2>4, <3>1 DEF Net
  <2> QED BY <2>2, <2>3
<1>17. /\ Net(o) \in Int /\ Ordered(o) \in Nat /\ ord[o].service \in Nat
       /\ Worth(Net(o), whole, Ordered(o), ord[o].service, times)
  BY <1>1, <1>13, WorthTypes DEF WorthOK
<1>18. /\ whole - share \in Nat /\ row.voided["base"] \in Nat /\ times <= row.voided["base"]
       /\ r.line = "base" => times + 1 <= row.voided["base"]
  <2>1. whole - share \in Nat
    <3> HIDE DEF whole, share
    <3> QED BY <1>6, <1>14
  <2>2. row.voided["base"] \in Nat /\ times <= row.voided["base"]
    BY <1>2, <1>4, <1>12
  <2>3. r.line = "base" => times + 1 <= row.voided["base"]
    BY <1>2, <1>4, <1>12
  <2> QED BY <2>1, <2>2, <2>3
<1> HIDE DEF due, base, share, whole, part, amount, refund, row, times
<1>19. Worth(Net(o) - amount, whole - share, Ordered(o), ord[o].service, row.voided["base"])
  <2>1. CASE Net(o) <= 0
    <3>1. Net(o) - amount \in Int /\ Net(o) - amount <= 0
      BY <1>9, <1>17, <2>1
    <3> QED BY <1>17, <1>18, <3>1, NothingKept
  <2>2. CASE amount = due
    <3>1. Net(o) - amount \in Int /\ Net(o) - amount <= 0
      BY <1>9, <1>13, <1>17, <2>2
    <3> QED BY <1>17, <1>18, <3>1, NothingKept
  <2>3. CASE Net(o) > 0 /\ amount # due
    <3>1. base = Net(o) /\ Net(o) \in Nat
      BY <1>17, <2>3 DEF base, AtLeast0, Net
    <3>2. amount = Prorate(share, Net(o), whole)
      BY <2>3, <3>1 DEF amount, part, Lesser
    <3>3. CASE r.line = "base"
      <4>1. Worth(Net(o) - amount, whole - share, Ordered(o), ord[o].service, times + 1)
        BY <1>4, <1>6, <1>14, <1>17, <3>1, <3>2, WorthVoided
      <4>2. times + 1 \in Nat /\ Net(o) - amount \in Int
        BY <1>4, <1>9, <1>17
      <4> QED BY <1>17, <1>18, <3>3, <4>1, <4>2, WorthLess
    <3>4. CASE r.line = "gift"
      <4>1. share = 0 /\ amount = 0
        BY <1>6, <1>14, <3>1, <3>2, <3>4, ProrateNothing
      <4>2. whole - share = whole /\ Net(o) - amount = Net(o)
        BY <1>6, <1>17, <4>1
      <4>3. Worth(Net(o), whole, Ordered(o), ord[o].service, row.voided["base"])
        <5>1. Net(o) <= Net(o)
          BY <1>17
        <5> QED BY <1>4, <1>6, <1>17, <1>18, <5>1, WorthLess
      <4> QED BY <4>2, <4>3
    <3> QED BY <1>2, <3>3, <3>4 DEF Line
  <2> QED BY <1>17, <2>1, <2>2, <2>3
<1>20. Worth(Net(o)', Subtotal(o)', Ordered(o)', ord'[o].service, ord'[o].voided["base"])
  BY <1>12, <1>14, <1>16, <1>19 DEF row
<1> QED BY <1>20 DEF WorthOK, Worth

LEMMA WorthNext ==
    ASSUME Inv, NetWithinItems, [Next]_vars
    PROVE  NetWithinItems'
<1> SUFFICES ASSUME NEW p \in Order PROVE WorthOK(p)'
  BY DEF NetWithinItems, WorthOK, Worth
<1>1. TypeOK /\ TypeOK' /\ WorthOK(p)
  BY NextInv DEF Inv, NetWithinItems, WorthOK, Worth
<1>2. /\ Net(p) \in Int /\ Subtotal(p) \in Nat /\ Ordered(p) \in Nat
      /\ ord[p].service \in Nat /\ ord[p].voided["base"] \in Nat
  BY <1>1, WorthTypes
<1>3. ord'[p] \in OrderRow /\ ord[p] \in OrderRow
  BY <1>1 DEF TypeOK
<1>4. CASE Unmoved(p)
  <2>1. /\ Subtotal(p)' = Subtotal(p) /\ Ordered(p)' = Ordered(p) /\ (Live(p)' => Live(p))
        /\ ord'[p].service = ord[p].service /\ ord'[p].voided = ord[p].voided
    BY <1>4 DEF Unmoved, Subtotal, Ordered
  <2>2. Net(p)' \in Int /\ Net(p)' <= Net(p)
    BY <1>3, <1>4 DEF Unmoved, Net, OrderRow
  <2>3. Live(p)' => Worth(Net(p)', Subtotal(p), Ordered(p), ord[p].service, ord[p].voided["base"])
    BY <1>1, <1>2, <2>1, <2>2, WorthLess DEF WorthOK
  <2> QED BY <2>1, <2>3 DEF WorthOK, Worth
<1>5. ASSUME NEW n \in Nat, Sells(p, n) PROVE WorthOK(p)'
  <2> DEFINE net == Net(p)'
             left == Subtotal(p)'
             service == ord'[p].service
  <2>1. net \in Int /\ left \in Nat /\ service \in Nat
    <3>1. ord'[p].qty["base"] \in Nat
      BY <1>3 DEF OrderRow, Line
    <3>2. Subtotal(p)' = Price * ord'[p].qty["base"]
      BY DEF Subtotal
    <3>3. Subtotal(p)' \in Nat
      BY <3>1, <3>2, PriceAssumption
    <3> QED BY <1>3, <3>3 DEF Net, OrderRow
  <2>2. net <= left + service
    <3>1. net = ord'[p].total - ord'[p].fee - ord'[p].refunded
      BY DEF Net
    <3>2. /\ ord'[p].total <= left + service + ord'[p].fee /\ ord'[p].refunded = 0
          /\ ord'[p].total \in Nat /\ ord'[p].fee \in Nat
      BY <1>3, <1>5 DEF Sells, OrderRow
    <3> HIDE DEF net, left, service
    <3> QED BY <2>1, <3>1, <3>2
  <2>3. Ordered(p)' = left /\ ord'[p].voided["base"] = 0
    <3>1. ord'[p].qty["base"] + 0 = ord'[p].qty["base"]
      BY <1>3 DEF OrderRow, Line
    <3> QED BY <1>5, <3>1 DEF Sells, Ordered, Subtotal
  <2> HIDE DEF net, left, service
  <2>4. Worth(net, left, left, service, 0)
    <3>1. PICK c \in Nat : c = left + service
      BY <2>1
    <3>2. left * net <= left * c
      BY <2>1, <2>2, <3>1, TimesMonotone
    <3>3. 2 * net * left = 2 * (left * net) /\ 2 * left * c = 2 * (left * c) /\ 0 * left = 0
      BY <2>1
    <3>4. left * net \in Int /\ left * c \in Int
      BY <2>1
    <3>5. 2 * net * left <= 2 * left * c + 0 * left
      BY <3>2, <3>3, <3>4
    <3>6. service = 0 => net <= left
      BY <2>1, <2>2
    <3> QED BY <3>1, <3>5, <3>6 DEF Worth
  <2> QED BY <2>3, <2>4 DEF WorthOK, Worth, net, left, service
<1>6. ASSUME NEW n \in Nat, PutsBack(p, n) PROVE WorthOK(p)'
  <2>1. CASE ~Live(p)'
    BY <2>1 DEF WorthOK
  <2>2. CASE Live(p)'
    <3>1. PICK t \in Terminal, restock \in Restock : CommitVoid(t, restock) /\ req[t].order = p
      BY <1>6, <2>2 DEF PutsBack
    <3> QED BY <1>1, <2>2, <3>1, VoidWorth
  <2> QED BY <2>1, <2>2
<1> QED BY <1>4, <1>5, <1>6, NextShelf DEF ShelfStep

\* However often lines are voided and however the shares are rounded, a live
\* order never keeps more money, its delivery fee apart, than the portions it
\* still has are worth with their part of the service charge and half a dollar
\* for each voided portion (void_item's proration of the discount).
THEOREM NetWithinItemsHolds == Spec => []NetWithinItems
<1>1. Init => NetWithinItems
  BY DEF Init, NoOrder, NetWithinItems, Live
<1>2. Inv /\ NetWithinItems /\ [Next]_vars => NetWithinItems'
  BY WorthNext
<1> QED BY <1>1, <1>2, InvHolds, PTL DEF Spec

=============================================================================
