------------------------ MODULE OnlinePayment_proofs ------------------------
(***************************************************************************)
(* What is proved of OnlinePayment for any number of orders, trade numbers *)
(* and workers: that its rows are what they are declared to be, that an    *)
(* online payment that was heard of is on its order's record, that a       *)
(* cancelled order keeps no money, that a bill and a refund are settled    *)
(* once, and that only a crash or a lost answer leaves a job half done.    *)
(*                                                                         *)
(* None of these is inductive.  A sweep or a refund writes to the order    *)
(* that it read in an earlier transaction, so what it writes is right only *)
(* because of what stays true of that order meanwhile: Sound ties an       *)
(* order's status to the way it is paid, TradeOK and PageOK tie the trade  *)
(* numbers to their orders, JobOK ties what a worker has read to both.     *)
(* Inv is their conjunction.  A step is taken apart into what it does to   *)
(* the orders (SafeRow), the trade numbers (TradesGood), the jobs          *)
(* (JobsGood) and the refunds (RestTyped); Frame puts them together.       *)
(***************************************************************************)
EXTENDS OnlinePayment, TLAPS

\* What the fields of a job are.
LEMMA JobFields ==
    ASSUME NEW j \in Job
    PROVE  /\ j.op = "sweep" => /\ j.order \in Order /\ j.ref \in Trade \cup {NoTrade}
                                /\ j.step \in {"ask", "expire", "cancel"}
           /\ j.op = "charge" => /\ j.order \in Order /\ j.trade \in Trade
                                 /\ j.step \in {"pay", "claim", "giveback", "undo", "cancel"}
           /\ j.op = "bill" => j.trade \in Trade /\ j.answer \in Answer
           /\ j.op = "refund" => j.order \in Order /\ j.kind \in Kind /\ j.answer \in Answer
           /\ j.op = "auto" => j.order \in Order /\ j.amount \in 0..Total /\ j.answer \in Answer
  BY DEF Job, Idle

\* A job that goes on to another step, and one that has its answer, are jobs.
LEMMA JobNext ==
    ASSUME NEW j \in Job
    PROVE  /\ \A s \in {"ask", "expire", "cancel"} :
                j.op = "sweep" => [j EXCEPT !.step = s] \in Job /\ [j EXCEPT !.step = s].op = "sweep"
           /\ \A s \in {"pay", "claim", "giveback", "undo", "cancel"} :
                j.op = "charge" => [j EXCEPT !.step = s] \in Job
           /\ \A a \in Answer : j.op \in {"bill", "refund", "auto"} => [j EXCEPT !.answer = a] \in Job
<1>1. ASSUME NEW s \in {"ask", "expire", "cancel"}, j.op = "sweep"
      PROVE  [j EXCEPT !.step = s] \in Job /\ [j EXCEPT !.step = s].op = "sweep"
  BY <1>1 DEF Job, Idle
<1>2. ASSUME NEW s \in {"pay", "claim", "giveback", "undo", "cancel"}, j.op = "charge"
      PROVE  [j EXCEPT !.step = s] \in Job
  BY <1>2 DEF Job, Idle
<1>3. ASSUME NEW a \in Answer, j.op = "bill"
      PROVE  [j EXCEPT !.answer = a] \in Job
  BY <1>3 DEF Job, Idle
<1>4. ASSUME NEW a \in Answer, j.op = "refund"
      PROVE  [j EXCEPT !.answer = a] \in Job
  BY <1>4 DEF Job, Idle
<1>5. ASSUME NEW a \in Answer, j.op = "auto"
      PROVE  [j EXCEPT !.answer = a] \in Job
  BY <1>5 DEF Job, Idle
<1> QED BY <1>1, <1>2, <1>3, <1>4, <1>5

LEMMA JobStart ==
    ASSUME job \in [Worker -> Job], NEW w \in Worker, NEW j \in Job, Start(w, j)
    PROVE  job' \in [Worker -> Job]
  BY DEF Start

LEMMA JobEnd ==
    ASSUME job \in [Worker -> Job], NEW w \in Worker, End(w)
    PROVE  job' \in [Worker -> Job]
  BY DEF End, Job

LEMMA JobGoto ==
    ASSUME job \in [Worker -> Job], NEW w \in Worker, NEW s, Goto(w, s),
           \/ job[w].op = "sweep" /\ s \in {"ask", "expire", "cancel"}
           \/ job[w].op = "charge" /\ s \in {"pay", "claim", "giveback", "undo", "cancel"}
    PROVE  job' \in [Worker -> Job]
<1>1. [job[w] EXCEPT !.step = s] \in Job
  BY JobNext
<1> QED BY <1>1 DEF Goto

LEMMA JobAnswer ==
    ASSUME job \in [Worker -> Job], NEW w \in Worker, NEW a \in Answer,
           job[w].op \in {"bill", "refund", "auto"}, job' = [job EXCEPT ![w].answer = a]
    PROVE  job' \in [Worker -> Job]
<1>1. [job[w] EXCEPT !.answer = a] \in Job
  BY JobNext
<1> QED BY <1>1

\* The kinds of work a worker takes up.
LEMMA NewJobs ==
    /\ \A o \in Order, t \in Trade \cup {NoTrade} :
          [op |-> "sweep", order |-> o, ref |-> t, step |-> "ask"] \in Job
    /\ \A o \in Order, t \in Trade :
          [op |-> "charge", order |-> o, trade |-> t, step |-> "pay"] \in Job
    /\ \A t \in Trade : [op |-> "bill", trade |-> t, answer |-> "none"] \in Job
    /\ \A o \in Order, k \in Kind :
          [op |-> "refund", order |-> o, kind |-> k, answer |-> "none"] \in Job
    /\ \A o \in Order, n \in 0..Total :
          [op |-> "auto", order |-> o, amount |-> n, answer |-> "none"] \in Job
  BY DEF Job, Answer

\* The provider's side of a trade number stays one.
LEMMA TradeTypes ==
    ASSUME trade \in [Trade -> TradeRow], NEW t \in Trade
    PROVE  /\ \A b \in BOOLEAN : [trade EXCEPT ![t].charged = b] \in [Trade -> TradeRow]
           /\ \A b \in BOOLEAN : [trade EXCEPT ![t].told = b] \in [Trade -> TradeRow]
           /\ \A b, c \in BOOLEAN : [trade EXCEPT ![t].charged = b, ![t].told = c] \in [Trade -> TradeRow]
           /\ \A n \in Nat : [trade EXCEPT ![t].back = n] \in [Trade -> TradeRow]
           /\ \A os \in SUBSET Order, n \in Nat :
                [trade EXCEPT ![t] = NewTrade(os, n)] \in [Trade -> TradeRow]
  BY DEF TradeRow, NewTrade

-----------------------------------------------------------------------------
\* What an order's row is at any time.  Each way of paying has its own statuses;
\* a page's order has a payment if it was ever paid.
Sound(r) ==
    /\ r.via = "none" => r.pay = "none" /\ ~r.live
    /\ r.via = "ecpay" => IF r.by = NoTrade THEN r.pay \in {"pending", "expired"}
                          ELSE r.pay \in {"paid", "refund_required", "refunded"}
    /\ r.via = "linepay" => r.pay \in {"authorizing", "at_once"}
    /\ r.via = "table" => r.pay \in {"unpaid", "settled", "refund_required", "refunded"}
    /\ r.refunded <= r.total
    /\ r.pay = "unpaid" => r.refunded = 0
    /\ ~r.live => r.pay \notin {"paid", "settled"} /\ (r.pay = "at_once" => r.refunded = r.total)

\* MoneyOf as far as the row alone tells: a cancelled order that was paid at once
\* is closed.
MoneyRow(r) ==
    CASE r.pay \in {"paid", "settled"} -> "kept"
      [] r.pay = "at_once" -> IF r.live THEN "kept" ELSE "closed"
      [] r.pay = "refund_required" -> "owed"
      [] r.pay = "refunded" -> "returned"
      [] r.pay = "none" -> "waiting"
      [] r.pay = "expired" -> "given_up"
      [] r.pay \in {"pending", "authorizing", "unpaid"} -> IF r.live THEN "waiting" ELSE "given_up"

\* What a step may make of a row: it stays with its way of paying, a payment is
\* not forgotten, and its money goes the way it promises.
Onward(r, new) ==
    /\ r.via # "none" => new.via = r.via
    /\ r.via = "ecpay" /\ r.by # NoTrade => new.by # NoTrade
    /\ new.live => r.live \/ r.via = "none"
    /\ \/ MoneyRow(new) = MoneyRow(r)
       \/ <<MoneyRow(r), MoneyRow(new)>> \in Promise!Step \cup {<<"kept", "closed">>}

SafeRow(r, new) == new \in OrderRow /\ Sound(new) /\ Onward(r, new)

\* Only the opening of a page gives the order another page.
GoodRow(r, new) == SafeRow(r, new) /\ new.ref \in {r.ref, NoTrade}

OrdersSound == \A o \in Order : Sound(ord[o])
OrdersSafe == ord' \in [Order -> OrderRow] /\ \A o \in Order : SafeRow(ord[o], ord'[o])
OrdersGood == ord' \in [Order -> OrderRow] /\ \A o \in Order : GoodRow(ord[o], ord'[o])

\* Rows that a step writes are rows.
HasPayment(new, r, p, b) ==
    /\ new \in OrderRow
    /\ new.pay = p /\ new.by = b /\ new.via = r.via /\ new.live = r.live
    /\ new.total = r.total /\ new.refunded = r.refunded /\ new.ref = r.ref /\ new.alert = r.alert

IsCancelled(new, r, p, n, no) ==
    /\ new \in OrderRow
    /\ new.live = no /\ new.pay = p /\ new.refunded = n /\ new.via = r.via
    /\ new.total = r.total /\ new.by = r.by /\ new.ref = r.ref /\ new.alert = r.alert

LEMMA PaidRow ==
    ASSUME NEW r \in OrderRow, NEW p \in PayStatus \cup {"none"}, NEW b \in Trade \cup {NoTrade}
    PROVE  HasPayment([r EXCEPT !.pay = p, !.by = b], r, p, b)
  BY DEF OrderRow, HasPayment

LEMMA CancelledRow ==
    ASSUME NEW r \in OrderRow, NEW p \in PayStatus \cup {"none"}, NEW n \in 0..Total, NEW no \in BOOLEAN
    PROVE  IsCancelled([r EXCEPT !.live = no, !.pay = p, !.refunded = n], r, p, n, no)
  BY DEF OrderRow, IsCancelled

IsNew(new, r, v, p, yes, n) ==
    /\ new \in OrderRow /\ new.via = v /\ new.pay = p /\ new.live = yes
    /\ new.total = n /\ new.refunded = r.refunded /\ new.ref = r.ref /\ new.by = r.by

LEMMA NewRow ==
    ASSUME NEW r \in OrderRow, NEW v \in Channel, NEW p \in PayStatus \cup {"none"},
           NEW yes \in BOOLEAN, NEW n \in 0..Total
    PROVE  IsNew([r EXCEPT !.via = v, !.live = yes, !.pay = p, !.total = n], r, v, p, yes, n)
  BY DEF OrderRow, IsNew

LEMMA PlacedRow ==
    ASSUME NEW v \in Channel, NEW p \in PayStatus
    PROVE  /\ NoOrder \in OrderRow
           /\ Placed(v, p) \in OrderRow
           /\ Placed(v, p).via = v /\ Placed(v, p).pay = p /\ Placed(v, p).live = TRUE
           /\ Placed(v, p).total = Total /\ Placed(v, p).refunded = 0
           /\ Placed(v, p).ref = NoTrade /\ Placed(v, p).by = NoTrade
<1>1. NoOrder \in OrderRow /\ NoOrder.refunded = 0 /\ NoOrder.ref = NoTrade /\ NoOrder.by = NoTrade
  BY AmountAssumption DEF NoOrder, OrderRow
<1>2. TRUE \in BOOLEAN /\ p \in PayStatus \cup {"none"} /\ Total \in 0..Total
  BY AmountAssumption
<1>3. IsNew(Placed(v, p), NoOrder, v, p, TRUE, Total)
  BY <1>1, <1>2, NewRow, Zenon DEF Placed
<1> QED BY <1>1, <1>3, Zenon DEF IsNew

\* A row that stays, and one that changes.
LEMMA SameRow ==
    ASSUME NEW r \in OrderRow, Sound(r)
    PROVE  GoodRow(r, r)
  BY DEF GoodRow, SafeRow, Onward

LEMMA OrdersSame ==
    ASSUME ord \in [Order -> OrderRow], OrdersSound, UNCHANGED ord
    PROVE  OrdersGood
  BY SameRow DEF OrdersGood, OrdersSound

LEMMA OrderChanged ==
    ASSUME ord \in [Order -> OrderRow], OrdersSound, NEW o \in Order, NEW r,
           GoodRow(ord[o], r), ord' = [ord EXCEPT ![o] = r]
    PROVE  OrdersGood
<1>1. ord' \in [Order -> OrderRow]
  BY DEF GoodRow, SafeRow
<1>2. ASSUME NEW p \in Order PROVE GoodRow(ord[p], ord'[p])
  BY SameRow DEF OrdersSound
<1> QED BY <1>1, <1>2 DEF OrdersGood

LEMMA PlacedGood ==
    ASSUME NEW r \in OrderRow, Sound(r), r.via = "none", NEW v \in Channel, NEW p \in PayStatus,
           \/ v = "ecpay" /\ p = "pending"
           \/ v = "linepay" /\ p = "authorizing"
           \/ v = "table" /\ p = "unpaid"
    PROVE  GoodRow(r, Placed(v, p))
<1>1. v \in Channel /\ p \in PayStatus
  BY DEF Channel, PayStatus
<1>2. /\ Placed(v, p) \in OrderRow
      /\ Placed(v, p).via = v /\ Placed(v, p).pay = p /\ Placed(v, p).live = TRUE
      /\ Placed(v, p).total = Total /\ Placed(v, p).refunded = 0 /\ Placed(v, p).by = NoTrade
      /\ Placed(v, p).ref = NoTrade
  BY <1>1, PlacedRow
<1> DEFINE new == Placed(v, p)
<1>3. Sound(new)
  BY <1>2, AmountAssumption DEF Sound
<1>4. MoneyRow(new) = "waiting" /\ MoneyRow(r) = "waiting"
  BY <1>2 DEF Sound, MoneyRow
<1> QED BY <1>2, <1>3, <1>4 DEF GoodRow, SafeRow, Onward

\* Fields that tell nothing of the money.
LEMMA NotedGood ==
    ASSUME NEW r \in OrderRow, Sound(r), NEW b \in BOOLEAN
    PROVE  /\ \A t \in Trade : SafeRow(r, [r EXCEPT !.ref = t])
           /\ GoodRow(r, [r EXCEPT !.due = b])
           /\ GoodRow(r, [r EXCEPT !.alert = b])
<1>1. ASSUME NEW new \in OrderRow, new.via = r.via, new.live = r.live, new.pay = r.pay,
             new.total = r.total, new.by = r.by, new.refunded = r.refunded
      PROVE  SafeRow(r, new)
  BY <1>1 DEF SafeRow, Onward, Sound, MoneyRow
<1>2. \A t \in Trade : SafeRow(r, [r EXCEPT !.ref = t])
  BY <1>1 DEF OrderRow
<1>3. GoodRow(r, [r EXCEPT !.due = b])
  BY <1>1 DEF OrderRow, GoodRow
<1>4. GoodRow(r, [r EXCEPT !.alert = b])
  BY <1>1 DEF OrderRow, GoodRow
<1> QED BY <1>2, <1>3, <1>4

\* mark_paid's two updates.
LEMMA PaymentGood ==
    ASSUME TypeOK, OrdersSound, NEW o \in Order, NEW t \in Trade
    PROVE  LET b == IF PayAfterPayment(o) = ord[o].pay THEN ord[o].by ELSE t
           IN  /\ GoodRow(ord[o], [ord[o] EXCEPT !.pay = PayAfterPayment(o), !.by = b])
               /\ ord[o].via = "ecpay" => [ord[o] EXCEPT !.pay = PayAfterPayment(o), !.by = b].by # NoTrade
<1> DEFINE r == ord[o]
           p == PayAfterPayment(o)
           b == IF p = r.pay THEN r.by ELSE t
           new == [r EXCEPT !.pay = p, !.by = b]
<1>1. r \in OrderRow /\ Sound(r)
  BY DEF TypeOK, OrdersSound
<1>2. /\ \/ p = r.pay
         \/ p = "paid" /\ r.pay = "pending" /\ r.live
         \/ p = "refund_required" /\ ((r.pay = "pending" /\ ~r.live) \/ r.pay = "expired")
      /\ p \notin {"pending", "expired"}
  BY DEF PayAfterPayment
<1>3. p \in PayStatus \cup {"none"} /\ b \in Trade \cup {NoTrade}
  BY <1>1, <1>2 DEF OrderRow, PayStatus
<1>4. t # NoTrade
  BY NoTradeAssumption
<1> HIDE DEF p
<1>5. /\ new \in OrderRow
      /\ new.pay = p /\ new.by = b /\ new.via = r.via /\ new.live = r.live
      /\ new.total = r.total /\ new.refunded = r.refunded /\ new.ref = r.ref
  <2>1. HasPayment(new, r, p, b)
    BY <1>1, <1>3, PaidRow, Zenon
  <2> QED BY <2>1, Zenon DEF HasPayment
<1> HIDE DEF r, new
<1>6. Sound(new)
  BY <1>1, <1>2, <1>4, <1>5 DEF Sound, OrderRow
<1>7. Onward(r, new)
  BY <1>1, <1>2, <1>4, <1>5 DEF Onward, Sound, MoneyRow, OrderRow, PayStatus, Promise!Step
<1>8. r.via = "ecpay" => new.by # NoTrade
  BY <1>1, <1>2, <1>4, <1>5 DEF Sound
<1> QED BY <1>5, <1>6, <1>7, <1>8 DEF GoodRow, SafeRow, r, new, p

\* A status that is set with the payment it came with.
LEMMA StatusGood ==
    ASSUME NEW r \in OrderRow, Sound(r), NEW p \in PayStatus \cup {"none"}, NEW b \in Trade \cup {NoTrade},
           \/ r.pay = "pending" /\ p = "expired" /\ b = r.by
           \/ r.pay = "authorizing" /\ r.live /\ p = "at_once"
           \/ r.pay = "unpaid" /\ r.live /\ p = "settled"
           \/ r.pay \in {"paid", "refund_required", "refunded"} /\ p = "refunded" /\ b = r.by
    PROVE  GoodRow(r, [r EXCEPT !.pay = p, !.by = b])
<1> DEFINE new == [r EXCEPT !.pay = p, !.by = b]
<1>1. /\ new \in OrderRow
      /\ new.pay = p /\ new.by = b /\ new.via = r.via /\ new.live = r.live
      /\ new.total = r.total /\ new.refunded = r.refunded /\ new.ref = r.ref
  <2>1. HasPayment(new, r, p, b)
    BY PaidRow, Zenon
  <2> QED BY <2>1, Zenon DEF HasPayment
<1> HIDE DEF new
<1>2. Sound(new)
  BY <1>1 DEF Sound, OrderRow
<1>3. Onward(r, new)
  BY <1>1 DEF Onward, Sound, MoneyRow, OrderRow, PayStatus, Promise!Step
<1> QED BY <1>1, <1>2, <1>3 DEF GoodRow, SafeRow, new

\* The same where the payment is not written.
LEMMA ByKept ==
    ASSUME NEW r \in OrderRow, NEW p \in PayStatus
    PROVE  [r EXCEPT !.pay = p] = [r EXCEPT !.pay = p, !.by = r.by]
  BY DEF OrderRow

LEMMA AmountGood ==
    ASSUME NEW r \in OrderRow, Sound(r), NEW n \in 0..Total
    PROVE  /\ r.pay = "unpaid" => GoodRow(r, [r EXCEPT !.total = n])
           /\ r.pay \in {"at_once", "settled", "paid"} /\ r.live /\ n <= r.total
                => GoodRow(r, [r EXCEPT !.refunded = n])
<1>1. ASSUME r.pay = "unpaid" PROVE GoodRow(r, [r EXCEPT !.total = n])
  <2> DEFINE new == [r EXCEPT !.total = n]
  <2>1. /\ new \in OrderRow /\ new.pay = r.pay /\ new.by = r.by /\ new.via = r.via
        /\ new.live = r.live /\ new.total = n /\ new.refunded = r.refunded /\ new.ref = r.ref
    BY DEF OrderRow
  <2> HIDE DEF new
  <2>2. Sound(new) /\ Onward(r, new)
    BY <1>1, <2>1 DEF Sound, Onward, MoneyRow
  <2> QED BY <2>1, <2>2 DEF GoodRow, SafeRow, new
<1>2. ASSUME r.pay \in {"at_once", "settled", "paid"}, r.live, n <= r.total
      PROVE  GoodRow(r, [r EXCEPT !.refunded = n])
  <2> DEFINE new == [r EXCEPT !.refunded = n]
  <2>1. /\ new \in OrderRow /\ new.pay = r.pay /\ new.by = r.by /\ new.via = r.via
        /\ new.live = r.live /\ new.total = r.total /\ new.refunded = n /\ new.ref = r.ref
    BY DEF OrderRow
  <2> HIDE DEF new
  <2>2. Sound(new) /\ Onward(r, new)
    BY <1>2, <2>1 DEF Sound, Onward, MoneyRow
  <2> QED BY <2>1, <2>2 DEF GoodRow, SafeRow, new
<1> QED BY <1>1, <1>2

\* A cancellation puts everything that is left on a refund.
LEMMA CancelGood ==
    ASSUME TypeOK, OrdersSound, NEW o \in Order, ord[o].live
    PROVE  /\ Owed(o) \in 0..Total /\ ord[o].refunded + Owed(o) \in 0..Total
           /\ GoodRow(ord[o], [ord[o] EXCEPT !.live = FALSE, !.pay = PayAfterCancel(o),
                                             !.refunded = ord[o].refunded + Owed(o)])
<1> DEFINE r == ord[o]
           p == PayAfterCancel(o)
           n == r.refunded + Owed(o)
<1>1. r \in OrderRow /\ Sound(r)
  BY DEF TypeOK, OrdersSound
<1>2. /\ r.total \in 0..Total /\ r.refunded \in 0..Total /\ r.refunded <= r.total
      /\ r.pay \in PayStatus \cup {"none"}
  BY <1>1 DEF OrderRow, Sound
<1>3. /\ p = IF r.pay \in {"paid", "settled"} THEN "refund_required" ELSE r.pay
      /\ Owed(o) = IF p \in {"at_once", "refund_required"} THEN r.total - r.refunded ELSE 0
  BY DEF PayAfterCancel, Owed, Left
<1>4. /\ Owed(o) \in 0..Total /\ n \in 0..Total /\ n <= r.total
      /\ p = "at_once" => n = r.total
      /\ p = "unpaid" => n = r.refunded
      /\ p \in PayStatus \cup {"none"}
  BY <1>2, <1>3, AmountAssumption DEF PayStatus
<1> HIDE DEF n, p
<1>5. ASSUME NEW no \in BOOLEAN, ~no PROVE GoodRow(r, [r EXCEPT !.live = no, !.pay = p, !.refunded = n])
  <2> DEFINE new == [r EXCEPT !.live = no, !.pay = p, !.refunded = n]
  <2>1. /\ new \in OrderRow
        /\ new.live = no /\ new.pay = p /\ new.refunded = n /\ new.via = r.via
        /\ new.total = r.total /\ new.by = r.by /\ new.ref = r.ref
    <3>1. IsCancelled(new, r, p, n, no)
      BY <1>1, <1>4, CancelledRow, Zenon
    <3> QED BY <3>1, Zenon DEF IsCancelled
  <2> HIDE DEF new, r
  <2>2. Sound(new)
    BY <1>1, <1>3, <1>4, <1>5, <2>1 DEF Sound
  <2>3. Onward(r, new)
    BY <1>1, <1>3, <1>5, <2>1 DEF Onward, Sound, MoneyRow, OrderRow, PayStatus, Promise!Step, r
  <2> QED BY <2>1, <2>2, <2>3 DEF GoodRow, SafeRow, new
<1>6. GoodRow(r, [r EXCEPT !.live = FALSE, !.pay = p, !.refunded = n])
  BY <1>5, Zenon
<1> QED BY <1>4, <1>6 DEF n, p

-----------------------------------------------------------------------------
\* What holds between the orders, the trade numbers and the jobs.

TradeOK(t) ==
    /\ \A o \in trade[t].orders : ord[o].via # "none"
    /\ bill[t] # "none" => trade[t].orders # {} /\ \A o \in trade[t].orders : ord[o].via = "table"
    /\ trade[t].told => \A o \in trade[t].orders : ord[o].via = "ecpay" => ord[o].by # NoTrade

\* The page that was opened last is the order's own.
PageOK(o) == ord[o].ref # NoTrade => trade[ord[o].ref].orders = {o}

JobOK(j) ==
    /\ j.op = "sweep" => ord[j.order].via = "ecpay" /\ (j.ref # NoTrade => trade[j.ref].orders = {j.order})
    /\ j.op = "charge" => ord[j.order].via = "linepay" /\ trade[j.trade].orders = {j.order}
    /\ j.op = "auto" => ord[j.order].via = "ecpay" /\ ord[j.order].by # NoTrade
    /\ j.op = "bill" => bill[j.trade] # "none"

Inv ==
    /\ TypeOK /\ OrdersSound
    /\ \A t \in Trade : TradeOK(t)
    /\ \A o \in Order : PageOK(o)
    /\ \A w \in Worker : JobOK(job[w])

\* What a step may make of the trade numbers: one that is in use keeps its orders,
\* and what the program is told of has been recorded.
TradeKept(t) ==
    /\ trade'[t].orders = trade[t].orders
    /\ bill'[t] = "none" <=> bill[t] = "none"
    /\ trade'[t].told =>
         trade[t].told \/ \A o \in trade[t].orders : ord'[o].via = "ecpay" => ord'[o].by # NoTrade

TradeStarted(t) ==
    /\ trade[t].orders = {}
    /\ \A o \in trade'[t].orders : ord'[o].via # "none" /\ (bill'[t] # "none" => ord'[o].via = "table")
    /\ bill'[t] # "none" => trade'[t].orders # {}
    /\ ~trade'[t].told

TradesGood ==
    /\ trade' \in [Trade -> TradeRow] /\ bill' \in [Trade -> BillStatus]
    /\ \A t \in Trade : TradeKept(t) \/ TradeStarted(t)

\* A job j that fits the state after the step.
JobFits(j) ==
    /\ j.op = "sweep" => ord'[j.order].via = "ecpay" /\ (j.ref # NoTrade => trade'[j.ref].orders = {j.order})
    /\ j.op = "charge" => ord'[j.order].via = "linepay" /\ trade'[j.trade].orders = {j.order}
    /\ j.op = "auto" => ord'[j.order].via = "ecpay" /\ ord'[j.order].by # NoTrade
    /\ j.op = "bill" => bill'[j.trade] # "none"

JobsGood ==
    /\ job' \in [Worker -> Job]
    /\ \A w \in Worker : job'[w] = job[w] \/ JobFits(job'[w])

RestTyped == refund' \in [Order -> [Kind -> RefundRow]] /\ faults' \in 0..MaxFault

\* A step keeps the invariant, and moves every order the way it may go.
Keeps == Inv' /\ OrdersSafe

\* A step that is good in all of this keeps the invariant.
LEMMA Frame ==
    ASSUME Inv, OrdersSafe, \A o \in Order : PageOK(o)', TradesGood, JobsGood, RestTyped
    PROVE  Keeps
<1>1. TypeOK'
  BY DEF TypeOK, OrdersSafe, TradesGood, JobsGood, RestTyped
<1>2. OrdersSound'
  BY DEF OrdersSafe, SafeRow, OrdersSound
<1>3. \A o \in Order : /\ ord[o].via # "none" => ord'[o].via = ord[o].via
                       /\ ord[o].via = "ecpay" /\ ord[o].by # NoTrade => ord'[o].by # NoTrade
  BY DEF OrdersSafe, SafeRow, Onward
<1>4. ASSUME NEW t \in Trade PROVE TradeOK(t)'
  <2>1. trade[t].orders \subseteq Order /\ trade'[t].orders \subseteq Order
    BY DEF Inv, TypeOK, TradesGood, TradeRow
  <2>2. CASE TradeKept(t)
    BY <1>3, <2>1, <2>2 DEF TradeKept, TradeOK, Inv
  <2>3. CASE TradeStarted(t)
    BY <2>3 DEF TradeStarted, TradeOK
  <2> QED BY <2>2, <2>3 DEF TradesGood
<1>5. ASSUME NEW w \in Worker, job'[w] = job[w] PROVE JobOK(job[w])'
  <2>1. job[w] \in Job
    BY DEF Inv, TypeOK
  <2>2. \A t \in Trade : trade[t].orders # {} => trade'[t].orders = trade[t].orders
    BY DEF TradesGood, TradeKept, TradeStarted
  <2>3. JobOK(job[w])
    BY DEF Inv
  <2>4. /\ job[w].op = "sweep" => job[w].order \in Order /\ job[w].ref \in Trade \cup {NoTrade}
        /\ job[w].op = "charge" => job[w].order \in Order /\ job[w].trade \in Trade
        /\ job[w].op = "auto" => job[w].order \in Order
        /\ job[w].op = "bill" => job[w].trade \in Trade
    BY <2>1, JobFields
  <2>5. \A t \in Trade : bill[t] # "none" => bill'[t] # "none"
    BY DEF TradesGood, TradeKept, TradeStarted, Inv, TradeOK
  <2> QED BY <1>3, <1>5, <2>2, <2>3, <2>4, <2>5 DEF JobOK
<1>6. \A w \in Worker : JobOK(job[w])'
  <2>1. ASSUME NEW w \in Worker, JobFits(job'[w]) PROVE JobOK(job[w])'
    BY <2>1 DEF JobFits, JobOK
  <2> QED BY <1>5, <2>1, Zenon DEF JobsGood
<1> QED BY <1>1, <1>2, <1>4, <1>6 DEF Inv, Keeps

LEMMA PagesKept ==
    ASSUME Inv, OrdersGood, TradesGood
    PROVE  OrdersSafe /\ \A o \in Order : PageOK(o)'
<1>1. OrdersSafe
  BY DEF OrdersGood, OrdersSafe, GoodRow
<1>2. ASSUME NEW o \in Order PROVE PageOK(o)'
  <2>1. ord[o].ref \in Trade \cup {NoTrade} /\ ord'[o].ref \in {ord[o].ref, NoTrade}
    BY DEF Inv, TypeOK, OrderRow, OrdersGood, GoodRow
  <2>2. \A t \in Trade : trade[t].orders # {} => trade'[t].orders = trade[t].orders
    BY DEF TradesGood, TradeKept, TradeStarted
  <2> QED BY <2>1, <2>2 DEF PageOK, Inv
<1> QED BY <1>1, <1>2

LEMMA Step ==
    ASSUME Inv, OrdersGood, TradesGood, JobsGood, RestTyped
    PROVE  Keeps
  BY Frame, PagesKept

-----------------------------------------------------------------------------
\* What the parts of a step come to.

LEMMA NoOrderMoves ==
    ASSUME Inv, UNCHANGED ord
    PROVE  OrdersGood
  BY OrdersSame DEF Inv, TypeOK

LEMMA OneOrderMoves ==
    ASSUME Inv, NEW o \in Order, NEW r, GoodRow(ord[o], r), ord' = [ord EXCEPT ![o] = r]
    PROVE  OrdersGood
  BY OrderChanged DEF Inv, TypeOK

LEMMA NoTradeMoves ==
    ASSUME Inv, UNCHANGED <<trade, bill>>
    PROVE  TradesGood
  BY DEF Inv, TypeOK, TradesGood, TradeKept

LEMMA NoJobMoves ==
    ASSUME Inv, UNCHANGED job
    PROVE  JobsGood
  BY DEF Inv, TypeOK, JobsGood

LEMMA RestStays ==
    ASSUME Inv, UNCHANGED <<refund, faults>>
    PROVE  RestTyped
  BY DEF Inv, TypeOK, RestTyped

LEMMA RestFault ==
    ASSUME Inv, UNCHANGED refund, Fault
    PROVE  RestTyped
  BY AmountAssumption DEF Inv, TypeOK, RestTyped, Fault

LEMMA JobStarts ==
    ASSUME Inv, NEW w \in Worker, NEW j \in Job, Start(w, j), JobFits(j)
    PROVE  JobsGood
<1>1. job' \in [Worker -> Job]
  BY JobStart DEF Inv, TypeOK
<1>2. \A v \in Worker : job'[v] = job[v] \/ job'[v] = j
  BY DEF Start, Inv, TypeOK
<1> QED BY <1>1, <1>2 DEF JobsGood

LEMMA JobEnds ==
    ASSUME Inv, NEW w \in Worker, End(w)
    PROVE  JobsGood
<1>1. job' \in [Worker -> Job]
  BY JobEnd DEF Inv, TypeOK
<1>2. \A v \in Worker : job'[v] = job[v] \/ job'[v] = Idle
  BY DEF End, Inv, TypeOK
<1>3. JobFits(Idle)
  BY DEF JobFits, Idle
<1> QED BY <1>1, <1>2, <1>3 DEF JobsGood

LEMMA JobGoes ==
    ASSUME Inv, OrdersGood, TradesGood, NEW w \in Worker, NEW s, Goto(w, s),
           \/ job[w].op = "sweep" /\ s \in {"ask", "expire", "cancel"}
           \/ job[w].op = "charge" /\ s \in {"pay", "claim", "giveback", "undo", "cancel"}
    PROVE  JobsGood
<1>1. job' \in [Worker -> Job]
  BY JobGoto DEF Inv, TypeOK
<1> DEFINE j == job[w]
           new == [j EXCEPT !.step = s]
<1>2. \A v \in Worker : job'[v] = job[v] \/ job'[v] = new
  BY DEF Goto, Inv, TypeOK
<1>3. j \in Job /\ JobOK(j)
  BY DEF Inv, TypeOK
<1>4. /\ j.op = "sweep" => /\ new.op = j.op /\ new.order = j.order /\ new.ref = j.ref
                           /\ j.order \in Order /\ j.ref \in Trade \cup {NoTrade}
      /\ j.op = "charge" => /\ new.op = j.op /\ new.order = j.order /\ new.trade = j.trade
                            /\ j.order \in Order /\ j.trade \in Trade
  BY <1>3 DEF Job, Idle
<1>5. \A o \in Order : ord[o].via # "none" => ord'[o].via = ord[o].via
  BY DEF OrdersGood, GoodRow, SafeRow, Onward
<1>6. \A t \in Trade : trade[t].orders # {} => trade'[t].orders = trade[t].orders
  BY DEF TradesGood, TradeKept, TradeStarted
<1>7. j.op \in {"sweep", "charge"}
  OBVIOUS
<1> HIDE DEF j, new
<1>8. ASSUME j.op = "sweep"
      PROVE  /\ new.op = "sweep" /\ ord'[new.order].via = "ecpay"
             /\ new.ref # NoTrade => trade'[new.ref].orders = {new.order}
  <2>1. ord[j.order].via = "ecpay" /\ (j.ref # NoTrade => trade[j.ref].orders = {j.order})
    BY <1>3, <1>8 DEF JobOK
  <2>2. {j.order} # {}
    OBVIOUS
  <2>3. j.ref # NoTrade => trade'[j.ref].orders = {j.order}
    BY <1>4, <1>6, <1>8, <2>1, <2>2
  <2> QED BY <1>4, <1>5, <1>8, <2>1, <2>3
<1>9. ASSUME j.op = "charge"
      PROVE  /\ new.op = "charge" /\ ord'[new.order].via = "linepay"
             /\ trade'[new.trade].orders = {new.order}
  <2>1. ord[j.order].via = "linepay" /\ trade[j.trade].orders = {j.order}
    BY <1>3, <1>9 DEF JobOK
  <2>2. {j.order} # {}
    OBVIOUS
  <2>3. trade'[j.trade].orders = {j.order}
    BY <1>4, <1>6, <1>9, <2>1, <2>2
  <2> QED BY <1>4, <1>5, <1>9, <2>1, <2>3
<1>10. JobFits(new)
  BY <1>7, <1>8, <1>9 DEF JobFits
<1> QED BY <1>1, <1>2, <1>10, Zenon DEF JobsGood

LEMMA JobAnswered ==
    ASSUME Inv, OrdersGood, TradesGood, NEW w \in Worker, NEW a \in Answer,
           job[w].op \in {"bill", "refund", "auto"}, job' = [job EXCEPT ![w].answer = a]
    PROVE  JobsGood
<1>1. job' \in [Worker -> Job]
  BY JobAnswer DEF Inv, TypeOK
<1> DEFINE j == job[w]
           new == [j EXCEPT !.answer = a]
<1>2. \A v \in Worker : job'[v] = job[v] \/ job'[v] = new
  BY DEF Inv, TypeOK
<1>3. j \in Job /\ JobOK(j)
  BY DEF Inv, TypeOK
<1>4. /\ new.op = j.op
      /\ j.op = "auto" => new.order = j.order /\ j.order \in Order
      /\ j.op = "bill" => new.trade = j.trade /\ j.trade \in Trade
  <2>1. CASE j.op = "bill"
    BY <1>3, <2>1 DEF Job, Idle
  <2>2. CASE j.op = "refund"
    BY <1>3, <2>2 DEF Job, Idle
  <2>3. CASE j.op = "auto"
    BY <1>3, <2>3 DEF Job, Idle
  <2> QED BY <2>1, <2>2, <2>3
<1>5. \A o \in Order : /\ ord[o].via # "none" => ord'[o].via = ord[o].via
                       /\ ord[o].via = "ecpay" /\ ord[o].by # NoTrade => ord'[o].by # NoTrade
  BY DEF OrdersGood, GoodRow, SafeRow, Onward
<1>6. \A t \in Trade : bill[t] # "none" => bill'[t] # "none"
  BY DEF TradesGood, TradeKept, TradeStarted, Inv, TradeOK
<1>7. j.op \in {"bill", "refund", "auto"}
  OBVIOUS
<1> HIDE DEF j, new
<1>8. JobFits(new)
  BY <1>3, <1>4, <1>5, <1>6, <1>7 DEF JobFits, JobOK
<1> QED BY <1>1, <1>2, <1>8, Zenon DEF JobsGood

\* The program is told of a payment that has been recorded.
LEMMA TradeTold ==
    ASSUME Inv, NEW t \in Trade, trade' = [trade EXCEPT ![t].told = TRUE],
           bill' \in [Trade -> BillStatus],
           \A u \in Trade : bill'[u] = "none" <=> bill[u] = "none",
           \A o \in trade[t].orders : ord'[o].via = "ecpay" => ord'[o].by # NoTrade
    PROVE  TradesGood
<1>1. trade \in [Trade -> TradeRow]
  BY DEF Inv, TypeOK
<1>2. trade' \in [Trade -> TradeRow]
  <2>1. TRUE \in BOOLEAN
    OBVIOUS
  <2>2. [trade EXCEPT ![t].told = TRUE] \in [Trade -> TradeRow]
    BY <1>1, <2>1, TradeTypes, Zenon
  <2> QED BY <2>2, Zenon
<1>3. \A u \in Trade : trade'[u].orders = trade[u].orders /\ (u # t => trade'[u].told = trade[u].told)
  BY <1>1 DEF TradeRow
<1>4. ASSUME NEW u \in Trade PROVE TradeKept(u)
  <2>1. CASE u = t
    BY <1>3, <2>1 DEF TradeKept
  <2>2. CASE u # t
    BY <1>3, <2>2 DEF TradeKept
  <2> QED BY <2>1, <2>2
<1> QED BY <1>2, <1>4 DEF TradesGood

\* The provider takes or returns money.
LEMMA TradeMoney ==
    ASSUME Inv, UNCHANGED bill, trade' \in [Trade -> TradeRow],
           \A u \in Trade : trade'[u].orders = trade[u].orders /\ trade'[u].told = trade[u].told
    PROVE  TradesGood
  BY DEF Inv, TypeOK, TradesGood, TradeKept

LEMMA TradeReturns ==
    ASSUME Inv, NEW t \in Trade, NEW n \in Nat, trade' = [trade EXCEPT ![t].back = n], UNCHANGED bill
    PROVE  TradesGood
<1>1. trade \in [Trade -> TradeRow]
  BY DEF Inv, TypeOK
<1>2. trade' \in [Trade -> TradeRow]
  BY <1>1, TradeTypes
<1>3. \A u \in Trade : trade'[u].orders = trade[u].orders /\ trade'[u].told = trade[u].told
  BY <1>1 DEF TradeRow
<1> QED BY <1>2, <1>3, TradeMoney

LEMMA TradeCharged ==
    ASSUME Inv, NEW t \in Trade, NEW yes \in BOOLEAN, trade' = [trade EXCEPT ![t].charged = yes],
           UNCHANGED bill
    PROVE  TradesGood
<1>1. trade \in [Trade -> TradeRow]
  BY DEF Inv, TypeOK
<1>2. trade' \in [Trade -> TradeRow]
  BY <1>1, TradeTypes
<1>3. \A u \in Trade : trade'[u].orders = trade[u].orders /\ trade'[u].told = trade[u].told
  BY <1>1 DEF TradeRow
<1> QED BY <1>2, <1>3, TradeMoney

\* A charge of LINE Pay is told of at once, and no page's order is concerned.
LEMMA TradeChargedAndTold ==
    ASSUME Inv, NEW t \in Trade, NEW yes \in BOOLEAN,
           trade' = [trade EXCEPT ![t].charged = yes, ![t].told = yes], UNCHANGED bill,
           \A o \in trade[t].orders : ord'[o].via # "ecpay"
    PROVE  TradesGood
<1>1. trade \in [Trade -> TradeRow]
  BY DEF Inv, TypeOK
<1>2. trade' \in [Trade -> TradeRow]
  BY <1>1, TradeTypes
<1>3. \A u \in Trade : trade'[u].orders = trade[u].orders /\ (u # t => trade'[u].told = trade[u].told)
  BY <1>1 DEF TradeRow
<1>4. \A u \in Trade : TradeKept(u)
  BY <1>3 DEF TradeKept
<1> QED BY <1>2, <1>4 DEF TradesGood, Inv, TypeOK

\* A trade number that was not used gets its orders.
LEMMA TradeStarts ==
    ASSUME Inv, NEW t \in Trade, Unused(t), NEW os \in SUBSET Order, NEW n \in Nat,
           trade' = [trade EXCEPT ![t] = NewTrade(os, n)],
           bill' \in [Trade -> BillStatus], \A u \in Trade \ {t} : bill'[u] = bill[u],
           \A o \in os : ord'[o].via # "none" /\ (bill'[t] # "none" => ord'[o].via = "table"), os # {}
    PROVE  TradesGood
<1>1. trade \in [Trade -> TradeRow]
  BY DEF Inv, TypeOK
<1>2. trade' \in [Trade -> TradeRow]
  BY <1>1, TradeTypes
<1>3. trade'[t].orders = os /\ ~trade'[t].told
  BY <1>1, Zenon DEF NewTrade
<1>4. \A u \in Trade \ {t} : trade'[u] = trade[u]
  BY <1>1
<1>5. TradeStarted(t)
  BY <1>3 DEF TradeStarted, Unused
<1>6. \A u \in Trade \ {t} : TradeKept(u)
  BY <1>4 DEF TradeKept
<1> QED BY <1>2, <1>5, <1>6 DEF TradesGood

LEMMA BillMoves ==
    ASSUME Inv, NEW t \in Trade, bill[t] # "none", NEW b \in BillStatus, b # "none",
           bill' = [bill EXCEPT ![t] = b]
    PROVE  /\ bill' \in [Trade -> BillStatus]
           /\ \A u \in Trade : bill'[u] = "none" <=> bill[u] = "none"
           /\ UNCHANGED trade => TradesGood
<1>1. bill \in [Trade -> BillStatus] /\ trade \in [Trade -> TradeRow]
  BY DEF Inv, TypeOK
<1>2. bill' \in [Trade -> BillStatus] /\ \A u \in Trade : bill'[u] = "none" <=> bill[u] = "none"
  BY <1>1
<1> QED BY <1>1, <1>2 DEF TradesGood, TradeKept

-----------------------------------------------------------------------------
\* The parts that several actions share.

\* A refund's status is set.
LEMMA RefundMoves ==
    ASSUME Inv, NEW o \in Order, NEW k \in Kind, NEW s \in RefundStatus,
           refund' = [refund EXCEPT ![o][k].status = s], UNCHANGED faults
    PROVE  RestTyped
  BY DEF Inv, TypeOK, RestTyped, RefundRow

\* A payment is recorded on an order of a page.
LEMMA MarkPaidGood ==
    ASSUME Inv, NEW o \in Order, NEW t \in Trade, ord[o].via = "ecpay", trade[t].orders = {o},
           MarkPaid(o, t), UNCHANGED bill
    PROVE  OrdersGood /\ TradesGood
<1> DEFINE b == IF PayAfterPayment(o) = ord[o].pay THEN ord[o].by ELSE t
           r == [ord[o] EXCEPT !.pay = PayAfterPayment(o), !.by = b]
<1>1. GoodRow(ord[o], r) /\ r.by # NoTrade
  BY PaymentGood DEF Inv
<1>2. ord' = [ord EXCEPT ![o] = r] /\ ord \in [Order -> OrderRow]
  BY DEF MarkPaid, Inv, TypeOK
<1> HIDE DEF r
<1>3. OrdersGood
  BY <1>1, <1>2, OneOrderMoves
<1>4. \A p \in trade[t].orders : ord'[p].by # NoTrade
  BY <1>1, <1>2
<1>5. bill' \in [Trade -> BillStatus] /\ \A u \in Trade : bill'[u] = "none" <=> bill[u] = "none"
  BY DEF Inv, TypeOK
<1>6. trade' = [trade EXCEPT ![t].told = TRUE]
  BY DEF MarkPaid
<1> QED BY <1>3, <1>4, <1>5, <1>6, TradeTold

\* An order is cancelled.
LEMMA CancelOf ==
    ASSUME Inv, NEW o \in Order, Cancel(o), UNCHANGED faults
    PROVE  OrdersGood /\ RestTyped
<1> DEFINE r == [ord[o] EXCEPT !.live = FALSE, !.pay = PayAfterCancel(o),
                               !.refunded = ord[o].refunded + Owed(o)]
<1>1. GoodRow(ord[o], r) /\ Owed(o) \in 0..Total
  BY CancelGood DEF Cancel, Inv
<1>2. ord' = [ord EXCEPT ![o] = r]
  BY DEF Cancel, Inv, TypeOK
<1> HIDE DEF r
<1>3. OrdersGood
  BY <1>1, <1>2, OneOrderMoves
<1>4. CancelRow(o) \in RefundRow
  BY <1>1 DEF CancelRow, RefundRow, RefundStatus
<1>5. "cancel" \in Kind
  BY DEF Kind
<1>6. RestTyped
  BY <1>4, <1>5 DEF Cancel, RestTyped, Inv, TypeOK
<1> QED BY <1>3, <1>6

LEMMA SystemCancelOf ==
    ASSUME Inv, NEW o \in Order, SystemCancel(o), UNCHANGED faults
    PROVE  OrdersGood /\ RestTyped
  BY CancelOf, NoOrderMoves, RestStays DEF SystemCancel

\* Orders of a table are settled together.
LEMMA SettledGood ==
    ASSUME Inv, NEW os \in SUBSET Order, os \subseteq Unpaid, NEW t \in Trade \cup {NoTrade},
           ord' = Settled(os, t)
    PROVE  OrdersGood
<1>1. ASSUME NEW o \in os PROVE GoodRow(ord[o], [ord[o] EXCEPT !.pay = "settled", !.by = t])
  <2>1. ord[o] \in OrderRow /\ Sound(ord[o]) /\ ord[o].pay = "unpaid" /\ ord[o].live
    BY DEF Inv, TypeOK, OrdersSound, Unpaid
  <2>2. "settled" \in PayStatus \cup {"none"}
    BY DEF PayStatus
  <2> QED BY <2>1, <2>2, StatusGood
<1>2. ASSUME NEW o \in Order PROVE GoodRow(ord[o], ord'[o])
  <2>1. CASE o \in os
    BY <1>1, <2>1 DEF Settled
  <2>2. CASE o \notin os
    BY <2>2, SameRow DEF Settled, Inv, TypeOK, OrdersSound
  <2> QED BY <2>1, <2>2
<1>3. ord' \in [Order -> OrderRow]
  BY <1>2 DEF Settled, GoodRow, SafeRow
<1> QED BY <1>2, <1>3 DEF OrdersGood

\* The provider returns what it is asked for.
LEMMA ReturnGood ==
    ASSUME Inv, NEW w \in Worker, Asking(w), Return(w), UNCHANGED bill
    PROVE  TradesGood
<1> DEFINE o == job[w].order
           t == ord[o].by
<1>1. job[w] \in Job
  BY DEF Inv, TypeOK
<1>2. o \in Order /\ Asked(w) \in 0..Total
  <2>1. CASE job[w].op = "refund"
    BY <1>1, <2>1, JobFields DEF Asked, Inv, TypeOK, RefundRow
  <2>2. CASE job[w].op = "auto"
    BY <1>1, <2>2, JobFields DEF Asked
  <2> QED BY <2>1, <2>2 DEF Asking
<1>3. t \in Trade
  BY <1>2 DEF Return, CanReturn, Inv, TypeOK, OrderRow
<1>4. trade[t].back + Asked(w) \in Nat
  BY <1>2, <1>3, AmountAssumption DEF Inv, TypeOK, TradeRow
<1>5. trade' = [trade EXCEPT ![t].back = trade[t].back + Asked(w)]
  BY DEF Return
<1> HIDE DEF t
<1> QED BY <1>3, <1>4, <1>5, TradeReturns

\* Staff return money on the provider's console.
LEMMA ByHandGood ==
    ASSUME Inv, NEW o \in Order, NEW n \in 0..Total, trade' = ByHand(o, n), UNCHANGED bill
    PROVE  TradesGood
<1>1. CASE ord[o].by = NoTrade
  BY <1>1, NoTradeMoves DEF ByHand
<1>2. CASE ord[o].by # NoTrade
  <2> DEFINE t == ord[o].by
             m == IF trade[t].back + n > trade[t].amount THEN trade[t].amount ELSE trade[t].back + n
  <2>1. t \in Trade
    BY <1>2 DEF Inv, TypeOK, OrderRow
  <2>2. m \in Nat
    BY <2>1, AmountAssumption DEF Inv, TypeOK, TradeRow
  <2>3. trade' = [trade EXCEPT ![t].back = m]
    BY <1>2 DEF ByHand
  <2> HIDE DEF t, m
  <2> QED BY <2>1, <2>2, <2>3, TradeReturns
<1> QED BY <1>1, <1>2

\* Once an order needs a refund, it can only be marked refunded.
LEMMA RefundedGood ==
    ASSUME Inv, NEW o \in Order, ord[o].pay \in {"paid", "refund_required", "refunded"},
           ord' = [ord EXCEPT ![o].pay = "refunded"]
    PROVE  OrdersGood
<1>1. ord[o] \in OrderRow /\ Sound(ord[o])
  BY DEF Inv, TypeOK, OrdersSound
<1>2. "refunded" \in PayStatus
  BY DEF PayStatus
<1>3. ord[o].by \in Trade \cup {NoTrade}
  BY <1>1 DEF OrderRow
<1>4. GoodRow(ord[o], [ord[o] EXCEPT !.pay = "refunded", !.by = ord[o].by])
  BY <1>1, <1>2, <1>3, StatusGood
<1>5. GoodRow(ord[o], [ord[o] EXCEPT !.pay = "refunded"])
  BY <1>1, <1>2, <1>4, ByKept
<1> QED BY <1>5, OneOrderMoves DEF Inv, TypeOK

-----------------------------------------------------------------------------
\* The invariant holds at first, and every action keeps it.

LEMMA InitInv ==
    ASSUME Init
    PROVE  Inv
<1>1. NoOrder \in OrderRow /\ Sound(NoOrder)
  BY AmountAssumption DEF NoOrder, OrderRow, Sound
<1>2. NewTrade({}, 0) \in TradeRow /\ NewTrade({}, 0).orders = {}
  BY DEF NewTrade, TradeRow
<1>3. NoRefund \in RefundRow
  BY AmountAssumption DEF NoRefund, RefundRow, RefundStatus
<1>4. Idle \in Job /\ JobOK(Idle)
  BY DEF Job, Idle, JobOK
<1>5. TypeOK
  BY <1>1, <1>2, <1>3, <1>4, AmountAssumption DEF Init, TypeOK, BillStatus
<1>6. OrdersSound /\ \A o \in Order : PageOK(o)
  BY <1>1 DEF Init, OrdersSound, PageOK, NoOrder
<1>7. \A t \in Trade : TradeOK(t)
  BY <1>2 DEF Init, TradeOK
<1>8. \A w \in Worker : JobOK(job[w])
  BY <1>4 DEF Init
<1> QED BY <1>5, <1>6, <1>7, <1>8 DEF Inv

\* An order that is placed.
LEMMA PlaceGood ==
    ASSUME Inv, NEW o \in Order, ord[o].via = "none"
    PROVE  /\ ord' = [ord EXCEPT ![o] = Placed("ecpay", "pending")] => OrdersGood
           /\ ord' = [ord EXCEPT ![o] = Placed("linepay", "authorizing")] => OrdersGood
           /\ ord' = [ord EXCEPT ![o] = Placed("table", "unpaid")] => OrdersGood
<1>1. ord[o] \in OrderRow /\ Sound(ord[o])
  BY DEF Inv, TypeOK, OrdersSound
<1>2. /\ {"ecpay", "linepay", "table"} \subseteq Channel
      /\ {"pending", "authorizing", "unpaid"} \subseteq PayStatus
  BY DEF Channel, PayStatus
<1>3. GoodRow(ord[o], Placed("ecpay", "pending"))
  BY <1>1, <1>2, PlacedGood
<1>4. GoodRow(ord[o], Placed("linepay", "authorizing"))
  BY <1>1, <1>2, PlacedGood
<1>5. GoodRow(ord[o], Placed("table", "unpaid"))
  BY <1>1, <1>2, PlacedGood
<1> QED BY <1>3, <1>4, <1>5, OneOrderMoves

\* Every opening of a page gives the order a page of its own.
LEMMA OpenPageInv ==
    ASSUME Inv, NEW o \in Order, NEW t \in Trade, OpenPage(o, t)
    PROVE  Keeps
<1>1. ord[o] \in OrderRow /\ Sound(ord[o]) /\ ord \in [Order -> OrderRow] /\ OrdersSound
  BY DEF Inv, TypeOK, OrdersSound
<1>2. SafeRow(ord[o], [ord[o] EXCEPT !.ref = t])
  BY <1>1, NotedGood
<1>3. OrdersSafe
  <2>1. ord' = [ord EXCEPT ![o] = [ord[o] EXCEPT !.ref = t]]
    BY DEF OpenPage
  <2>2. ord' \in [Order -> OrderRow]
    BY <1>1, <1>2, <2>1 DEF SafeRow
  <2>3. ASSUME NEW p \in Order PROVE SafeRow(ord[p], ord'[p])
    BY <1>1, <1>2, <2>1, SameRow DEF OrdersSound, GoodRow
  <2> QED BY <2>2, <2>3 DEF OrdersSafe
<1>4. bill[t] = "none" /\ bill \in [Trade -> BillStatus]
  BY DEF Inv, TypeOK, TradeOK, OpenPage, Unused
<1>5. TradesGood
  <2>1. ord[o].total \in Nat /\ ord'[o].via = "ecpay" /\ {o} \in SUBSET Order
    BY <1>1 DEF OrderRow, OpenPage
  <2>2. trade' = [trade EXCEPT ![t] = NewTrade({o}, ord[o].total)] /\ Unused(t) /\ UNCHANGED bill
    BY DEF OpenPage
  <2> QED BY <1>4, <2>1, <2>2, TradeStarts
<1>6. ASSUME NEW p \in Order PROVE PageOK(p)'
  <2>1. CASE p = o
    BY <1>1, <2>1 DEF OpenPage, PageOK, Inv, TypeOK, TradeRow, NewTrade
  <2>2. CASE p # o
    <3>1. ord'[p].ref = ord[p].ref /\ PageOK(p) /\ ord[p].ref \in Trade \cup {NoTrade}
      BY <1>1, <2>2 DEF OpenPage, Inv, OrderRow
    <3>2. ord[p].ref # NoTrade => trade'[ord[p].ref] = trade[ord[p].ref]
      BY <3>1 DEF PageOK, OpenPage, Unused, Inv, TypeOK
    <3> QED BY <3>1, <3>2 DEF PageOK
  <2> QED BY <2>1, <2>2
<1>7. JobsGood /\ RestTyped
  BY NoJobMoves, RestStays DEF OpenPage
<1> QED BY <1>3, <1>5, <1>6, <1>7, Frame

\* What customers do with an order.
LEMMA CustomerInv ==
    ASSUME Inv, NEW o \in Order,
           \/ PlaceOnline(o) \/ PlaceAtTable(o) \/ DuePasses(o)
           \/ \E t \in Trade : PaymentInfo(o, t) \/ Notify(o, t)
    PROVE  Keeps
<1>1. ord[o] \in OrderRow /\ Sound(ord[o])
  BY DEF Inv, TypeOK, OrdersSound
<1>2. CASE PlaceOnline(o)
  <2>1. OrdersGood
    BY <1>2, PlaceGood DEF PlaceOnline
  <2> QED BY <1>2, <2>1, NoTradeMoves, NoJobMoves, RestStays, Step DEF PlaceOnline
<1>3. CASE PlaceAtTable(o)
  <2>1. OrdersGood
    BY <1>3, PlaceGood DEF PlaceAtTable
  <2> QED BY <1>3, <2>1, NoTradeMoves, NoJobMoves, RestStays, Step DEF PlaceAtTable
<1>4. CASE DuePasses(o)
  <2>1. GoodRow(ord[o], [ord[o] EXCEPT !.due = FALSE])
    BY <1>1, NotedGood
  <2>2. OrdersGood
    BY <1>4, <2>1, OneOrderMoves DEF DuePasses
  <2> QED BY <1>4, <2>2, NoTradeMoves, NoJobMoves, RestStays, Step DEF DuePasses
<1>5. ASSUME NEW t \in Trade, PaymentInfo(o, t) PROVE Keeps
  <2>1. GoodRow(ord[o], [ord[o] EXCEPT !.due = TRUE])
    BY <1>1, NotedGood
  <2>2. OrdersGood
    BY <1>5, <2>1, OneOrderMoves DEF PaymentInfo
  <2> QED BY <1>5, <2>2, NoTradeMoves, NoJobMoves, RestStays, Step DEF PaymentInfo
<1>6. ASSUME NEW t \in Trade, Notify(o, t) PROVE Keeps
  <2>1. OrdersGood /\ TradesGood
    BY <1>6, MarkPaidGood DEF Notify
  <2> QED BY <1>6, <2>1, NoJobMoves, RestStays, Step DEF Notify
<1> QED BY <1>2, <1>3, <1>4, <1>5, <1>6

\* The provider takes a payment.
LEMMA CustomerPaysInv ==
    ASSUME Inv, NEW t \in Trade, CustomerPays(t)
    PROVE  Keeps
<1>1. TradesGood
  BY TradeCharged DEF CustomerPays
<1> QED BY <1>1, NoOrderMoves, NoJobMoves, RestStays, Step DEF CustomerPays

\* What staff do with an order.
LEMMA StaffInv ==
    ASSUME Inv, NEW o \in Order,
           \/ VoidUnpaid(o) \/ StaffCancel(o) \/ OnlineRefundDone(o)
           \/ \E n \in 1..Total : PartialRefund(o, n)
           \/ \E k \in Kind : MarkRefundDone(o, k)
    PROVE  Keeps
<1>1. ord[o] \in OrderRow /\ Sound(ord[o]) /\ ord[o].total \in 0..Total /\ ord[o].refunded \in 0..Total
  BY DEF Inv, TypeOK, OrdersSound, OrderRow
<1>2. CASE VoidUnpaid(o)
  <2>1. ord[o].pay = "unpaid" /\ ord[o].total - 1 \in 0..Total
    BY <1>1, <1>2, AmountAssumption DEF VoidUnpaid, Unpaid
  <2>2. GoodRow(ord[o], [ord[o] EXCEPT !.total = ord[o].total - 1])
    BY <1>1, <2>1, AmountGood
  <2>3. OrdersGood
    BY <1>2, <2>2, OneOrderMoves DEF VoidUnpaid
  <2> QED BY <1>2, <2>3, NoTradeMoves, NoJobMoves, RestStays, Step DEF VoidUnpaid
<1>3. CASE StaffCancel(o)
  <2>1. OrdersGood /\ RestTyped
    BY <1>3, CancelOf DEF StaffCancel
  <2> QED BY <1>3, <2>1, NoTradeMoves, NoJobMoves, Step DEF StaffCancel
<1>4. CASE OnlineRefundDone(o)
  <2>1. OrdersGood
    BY <1>4, RefundedGood DEF OnlineRefundDone
  <2>2. TradesGood
    BY <1>1, <1>4, ByHandGood DEF OnlineRefundDone
  <2>3. RestTyped
    <3>1. "done" \in RefundStatus
      BY DEF RefundStatus
    <3>2. ASSUME NEW k \in Kind, refund' = [refund EXCEPT ![o][k].status = "done"] PROVE RestTyped
      BY <1>4, <3>1, <3>2, RefundMoves DEF OnlineRefundDone
    <3> QED BY <1>4, <3>2, RestStays DEF OnlineRefundDone
  <2> QED BY <1>4, <2>1, <2>2, <2>3, NoJobMoves, Step DEF OnlineRefundDone
<1>5. ASSUME NEW n \in 1..Total, PartialRefund(o, n) PROVE Keeps
  <2>1. /\ ord[o].refunded + n \in 0..Total /\ ord[o].refunded + n <= ord[o].total /\ ord[o].live
        /\ ord[o].pay \in {"at_once", "settled", "paid"}
    BY <1>1, <1>5, AmountAssumption DEF PartialRefund, IsPaid, Left
  <2>2. GoodRow(ord[o], [ord[o] EXCEPT !.refunded = ord[o].refunded + n])
    BY <1>1, <2>1, AmountGood
  <2>3. OrdersGood
    BY <1>5, <2>2, OneOrderMoves DEF PartialRefund
  <2>4. PartialStatus(o) \in RefundStatus
    <3>1. ord[o].via \in {"linepay", "ecpay", "table"}
      BY <1>1, <2>1 DEF Sound, OrderRow, Channel
    <3> QED BY <3>1, AmountAssumption DEF PartialStatus, RefundStatus
  <2>5. RestTyped
    <3>1. [amount |-> n, status |-> PartialStatus(o)] \in RefundRow
      BY <2>4, AmountAssumption DEF RefundRow
    <3> QED BY <1>5, <3>1 DEF PartialRefund, RestTyped, Inv, TypeOK, Kind
  <2> QED BY <1>5, <2>3, <2>5, NoTradeMoves, NoJobMoves, Step DEF PartialRefund
<1>6. ASSUME NEW k \in Kind, MarkRefundDone(o, k) PROVE Keeps
  <2>1. OrdersGood
    <3>1. CASE ord[o].pay = "refund_required"
      BY <1>6, <3>1, RefundedGood DEF MarkRefundDone
    <3>2. CASE ord[o].pay # "refund_required"
      <4>1. UNCHANGED ord
        BY <1>1, <1>6, <3>2 DEF MarkRefundDone, OrderRow, Inv, TypeOK
      <4> QED BY <4>1, NoOrderMoves
    <3> QED BY <3>1, <3>2
  <2>2. TradesGood
    BY <1>6, ByHandGood DEF MarkRefundDone, Inv, TypeOK, RefundRow
  <2>3. RestTyped
    BY <1>6, RefundMoves DEF MarkRefundDone, RefundStatus
  <2> QED BY <1>6, <2>1, <2>2, <2>3, NoJobMoves, Step DEF MarkRefundDone
<1> QED BY <1>2, <1>3, <1>4, <1>5, <1>6

\* What a table does with its bill.
LEMMA BillInv ==
    ASSUME Inv, NEW t \in Trade, StartBill(t) \/ BillFails(t) \/ BillAlready(t)
    PROVE  Keeps
<1>1. CASE StartBill(t)
  <2> DEFINE os == Unpaid
             n == Due(Unpaid)
  <2>1. os \in SUBSET Order /\ os # {} /\ n \in Nat
    BY <1>1 DEF Unpaid, StartBill
  <2>2. \A o \in Unpaid : ord'[o].via = "table"
    BY <1>1 DEF StartBill, Unpaid, Inv, TypeOK, OrdersSound, Sound, OrderRow, Channel
  <2>3. bill' \in [Trade -> BillStatus] /\ \A u \in Trade \ {t} : bill'[u] = bill[u]
    BY <1>1 DEF StartBill, Inv, TypeOK, BillStatus
  <2>4. trade' = [trade EXCEPT ![t] = NewTrade(os, n)] /\ Unused(t)
    BY <1>1 DEF StartBill
  <2>5. \A o \in os : ord'[o].via # "none" /\ (bill'[t] # "none" => ord'[o].via = "table")
    BY <2>2
  <2> HIDE DEF os, n
  <2>6. TradesGood
    BY <2>1, <2>3, <2>4, <2>5, TradeStarts
  <2> QED BY <1>1, <2>6, NoOrderMoves, NoJobMoves, RestStays, Step DEF StartBill
<1>2. CASE BillFails(t)
  <2>1. TradesGood
    BY <1>2, BillMoves DEF BillFails, BillStatus
  <2> QED BY <1>2, <2>1, NoOrderMoves, NoJobMoves, RestStays, Step DEF BillFails
<1>3. CASE BillAlready(t)
  <2>1. \A o \in trade[t].orders : ord'[o].via = "table"
    BY <1>3 DEF BillAlready, Inv, TradeOK
  <2>2. TradesGood
    BY <1>3, <2>1, TradeTold DEF BillAlready, Inv, TypeOK
  <2> QED BY <1>3, <2>2, NoOrderMoves, NoJobMoves, RestStays, Step DEF BillAlready
<1> QED BY <1>1, <1>2, <1>3

\* A settlement at the counter.
LEMMA CounterInv ==
    ASSUME Inv, NEW os \in SUBSET Order, CounterSettle(os)
    PROVE  Keeps
<1>1. OrdersGood
  BY SettledGood DEF CounterSettle
<1> QED BY <1>1, NoTradeMoves, NoJobMoves, RestStays, Step DEF CounterSettle

LEMMA RequestsInv ==
    ASSUME Inv, Requests
    PROVE  Keeps
  BY CustomerInv, CustomerPaysInv, StaffInv, OpenPageInv, BillInv, CounterInv DEF Requests

-----------------------------------------------------------------------------
\* What the workers do.

\* A worker's job is one, and fits.
LEMMA JobOf ==
    ASSUME Inv, NEW w \in Worker
    PROVE  job[w] \in Job /\ JobOK(job[w])
  BY DEF Inv, TypeOK

LEMMA SweepInv ==
    ASSUME Inv, NEW w \in Worker, Sweep(w)
    PROVE  Keeps
<1>1. job[w] \in Job /\ JobOK(job[w])
  BY JobOf
<1>2. job[w].op = "sweep" =>
        /\ job[w].order \in Order /\ job[w].ref \in Trade \cup {NoTrade}
        /\ ord[job[w].order].via = "ecpay"
        /\ job[w].ref # NoTrade => trade[job[w].ref].orders = {job[w].order}
  BY <1>1, JobFields DEF JobOK
<1>3. ASSUME NEW o \in Order, SweepSelect(w, o) PROVE Keeps
  <2> DEFINE j == [op |-> "sweep", order |-> o, ref |-> ord[o].ref, step |-> "ask"]
  <2>1. ord[o].ref \in Trade \cup {NoTrade} /\ PageOK(o)
    BY DEF Inv, TypeOK, OrderRow
  <2>2. j \in Job
    BY <2>1, NewJobs
  <2>3. JobFits(j)
    BY <1>3, <2>1 DEF JobFits, SweepSelect, PageOK
  <2>4. JobsGood
    BY <1>3, <2>2, <2>3, JobStarts DEF SweepSelect
  <2> QED BY <1>3, <2>4, NoOrderMoves, NoTradeMoves, RestStays, Step DEF SweepSelect
<1>4. CASE SweepPaid(w)
  <2>1. OrdersGood /\ TradesGood
    BY <1>2, <1>4, MarkPaidGood DEF SweepPaid
  <2> QED BY <1>4, <2>1, JobEnds, RestStays, Step DEF SweepPaid
<1>5. CASE SweepUnpaid(w)
  <2>1. OrdersGood /\ TradesGood
    BY <1>5, NoOrderMoves, NoTradeMoves DEF SweepUnpaid
  <2>2. JobsGood
    BY <1>5, <2>1, JobGoes DEF SweepUnpaid
  <2> QED BY <1>5, <2>1, <2>2, RestStays, Step DEF SweepUnpaid
<1>6. CASE SweepUnknown(w)
  BY <1>6, NoOrderMoves, NoTradeMoves, JobEnds, RestStays, Step DEF SweepUnknown
<1>7. CASE SweepExpire(w)
  <2> DEFINE o == job[w].order
  <2>1. o \in Order /\ ord[o].pay = "pending"
    BY <1>2, <1>7 DEF SweepExpire, MayExpire
  <2>2. ord[o] \in OrderRow /\ Sound(ord[o]) /\ ord[o].by \in Trade \cup {NoTrade}
    BY <2>1 DEF Inv, TypeOK, OrdersSound, OrderRow
  <2>3. "expired" \in PayStatus
    BY DEF PayStatus
  <2>4. GoodRow(ord[o], [ord[o] EXCEPT !.pay = "expired", !.by = ord[o].by])
    BY <2>1, <2>2, <2>3, StatusGood
  <2>5. GoodRow(ord[o], [ord[o] EXCEPT !.pay = "expired"])
    BY <2>2, <2>3, <2>4, ByKept
  <2>6. OrdersGood
    BY <1>7, <2>1, <2>5, OneOrderMoves DEF SweepExpire
  <2>7. TradesGood
    BY <1>7, NoTradeMoves DEF SweepExpire
  <2>8. JobsGood
    BY <1>7, <2>6, <2>7, JobGoes DEF SweepExpire
  <2> QED BY <1>7, <2>6, <2>7, <2>8, RestStays, Step DEF SweepExpire
<1>8. CASE SweepTooLate(w)
  BY <1>8, NoOrderMoves, NoTradeMoves, JobEnds, RestStays, Step DEF SweepTooLate
<1>9. CASE SweepCancel(w)
  <2>1. OrdersGood /\ RestTyped
    BY <1>2, <1>9, SystemCancelOf DEF SweepCancel
  <2> QED BY <1>9, <2>1, NoTradeMoves, JobEnds, Step DEF SweepCancel
<1> QED BY <1>3, <1>4, <1>5, <1>6, <1>7, <1>8, <1>9 DEF Sweep

LEMMA LinePayInv ==
    ASSUME Inv, NEW w \in Worker, LinePay(w)
    PROVE  Keeps
<1> DEFINE o == job[w].order
           t == job[w].trade
<1>1. job[w] \in Job /\ JobOK(job[w])
  BY JobOf
<1>2. job[w].op = "charge" =>
        /\ o \in Order /\ t \in Trade
        /\ ord[o].via = "linepay" /\ trade[t].orders = {o}
  BY <1>1, JobFields DEF JobOK
<1>3. ASSUME NEW p \in Order, NEW u \in Trade, PlaceLinePay(w, p, u) PROVE Keeps
  <2> DEFINE j == [op |-> "charge", order |-> p, trade |-> u, step |-> "pay"]
  <2>1. OrdersGood
    BY <1>3, PlaceGood DEF PlaceLinePay
  <2>2. ord'[p].via = "linepay"
    BY <1>3 DEF PlaceLinePay, Placed, NoOrder, Inv, TypeOK
  <2>3. trade' = [trade EXCEPT ![u] = NewTrade({p}, Total)] /\ Unused(u) /\ UNCHANGED bill
    BY <1>3 DEF PlaceLinePay
  <2>4. bill[u] = "none" /\ bill \in [Trade -> BillStatus]
    BY <2>3 DEF Inv, TypeOK, TradeOK, Unused
  <2>5. {p} \in SUBSET Order /\ Total \in Nat /\ \A q \in {p} : ord'[q].via # "none"
    BY <2>2, AmountAssumption
  <2>6. TradesGood
    BY <2>3, <2>4, <2>5, TradeStarts
  <2>7. j \in Job
    BY NewJobs
  <2>8. JobFits(j)
    BY <2>2, <2>3 DEF JobFits, Inv, TypeOK, NewTrade
  <2>9. JobsGood
    BY <1>3, <2>7, <2>8, JobStarts DEF PlaceLinePay
  <2> QED BY <1>3, <2>1, <2>6, <2>9, RestStays, Step DEF PlaceLinePay
<1>4. ASSUME NEW b \in BOOLEAN, job[w].op = "charge", UNCHANGED <<ord, bill>>,
             trade' = [trade EXCEPT ![t].charged = b, ![t].told = b]
      PROVE  TradesGood
  <2>1. \A p \in trade[t].orders : ord'[p].via # "ecpay"
    BY <1>2, <1>4
  <2> QED BY <1>2, <1>4, <2>1, TradeChargedAndTold
<1>5. CASE LinePaySucceeds(w)
  <2>1. OrdersGood /\ TradesGood
    BY <1>4, <1>5, NoOrderMoves DEF LinePaySucceeds, Charging
  <2>2. JobsGood
    BY <1>5, <2>1, JobGoes DEF LinePaySucceeds, Charging
  <2> QED BY <1>5, <2>1, <2>2, RestStays, Step DEF LinePaySucceeds
<1>6. CASE LinePayRefuses(w)
  <2>1. OrdersGood /\ TradesGood
    BY <1>6, NoOrderMoves, NoTradeMoves DEF LinePayRefuses
  <2>2. JobsGood
    BY <1>6, <2>1, JobGoes DEF LinePayRefuses, Charging
  <2> QED BY <1>6, <2>1, <2>2, RestStays, Step DEF LinePayRefuses
<1>7. CASE LinePayBroken(w)
  <2>1. OrdersGood /\ TradesGood
    BY <1>2, <1>7, NoOrderMoves, TradeCharged DEF LinePayBroken, Charging
  <2>2. JobsGood
    BY <1>7, <2>1, JobGoes DEF LinePayBroken, Charging
  <2> QED BY <1>7, <2>1, <2>2, RestFault, Step DEF LinePayBroken
<1>8. ASSUME NEW b \in BOOLEAN, LinePayUnknown(w, b) PROVE Keeps
  <2>1. OrdersGood /\ TradesGood
    BY <1>4, <1>8, NoOrderMoves DEF LinePayUnknown, Charging
  <2>2. JobsGood
    BY <1>8, <2>1, JobGoes DEF LinePayUnknown, Charging
  <2> QED BY <1>8, <2>1, <2>2, RestStays, Step DEF LinePayUnknown
<1>9. CASE ChargeClaim(w)
  <2>1. o \in Order /\ t \in Trade /\ ord[o].pay = "authorizing" /\ ord[o].live
    BY <1>2, <1>9 DEF ChargeClaim, MayClaim, Charging
  <2>2. ord[o] \in OrderRow /\ Sound(ord[o]) /\ "at_once" \in PayStatus \cup {"none"}
    BY <2>1 DEF Inv, TypeOK, OrdersSound, PayStatus
  <2>3. GoodRow(ord[o], [ord[o] EXCEPT !.pay = "at_once", !.by = t])
    BY <2>1, <2>2, StatusGood
  <2>4. OrdersGood
    BY <1>9, <2>1, <2>3, OneOrderMoves DEF ChargeClaim
  <2> QED BY <1>9, <2>4, NoTradeMoves, JobEnds, RestStays, Step DEF ChargeClaim
<1>10. CASE ChargeLost(w)
  <2>1. OrdersGood /\ TradesGood
    BY <1>10, NoOrderMoves, NoTradeMoves DEF ChargeLost
  <2>2. JobsGood
    BY <1>10, <2>1, JobGoes DEF ChargeLost, Charging
  <2> QED BY <1>10, <2>1, <2>2, RestStays, Step DEF ChargeLost
<1>11. CASE ChargeReturned(w)
  <2>1. t \in Trade /\ trade[t].amount \in Nat
    BY <1>2, <1>11 DEF ChargeReturned, Charging, Inv, TypeOK, TradeRow
  <2>2. OrdersGood /\ TradesGood
    BY <1>11, <2>1, NoOrderMoves, TradeReturns DEF ChargeReturned
  <2>3. JobsGood
    BY <1>11, <2>2, JobGoes, JobEnds DEF ChargeReturned, Charging
  <2> QED BY <1>11, <2>2, <2>3, RestStays, Step DEF ChargeReturned
<1>12. CASE ChargeStays(w)
  <2>1. o \in Order
    BY <1>2, <1>12 DEF ChargeStays, Charging
  <2>2. GoodRow(ord[o], [ord[o] EXCEPT !.alert = TRUE])
    BY <2>1, NotedGood, <1>2, <1>12 DEF Inv, TypeOK, OrdersSound, ChargeStays, Charging
  <2>3. OrdersGood
    BY <1>12, <2>1, <2>2, OneOrderMoves DEF ChargeStays
  <2> QED BY <1>12, <2>3, NoTradeMoves, JobEnds, RestStays, Step DEF ChargeStays
<1>13. CASE ChargeCancel(w)
  <2>1. OrdersGood /\ RestTyped
    BY <1>2, <1>13, SystemCancelOf DEF ChargeCancel, Charging
  <2> QED BY <1>13, <2>1, NoTradeMoves, JobEnds, Step DEF ChargeCancel
<1> QED BY <1>3, <1>5, <1>6, <1>7, <1>8, <1>9, <1>10, <1>11, <1>12, <1>13 DEF LinePay

LEMMA TablePayInv ==
    ASSUME Inv, NEW w \in Worker, TablePay(w)
    PROVE  Keeps
<1> DEFINE t == job[w].trade
<1>1. job[w].op = "bill" => t \in Trade
  BY JobOf, JobFields
<1>2. ASSUME NEW u \in Trade, BillClaim(w, u) PROVE Keeps
  <2> DEFINE j == [op |-> "bill", trade |-> u, answer |-> "none"]
  <2>1. bill' \in [Trade -> BillStatus] /\ \A v \in Trade : bill'[v] = "none" <=> bill[v] = "none"
    BY <1>2, BillMoves DEF BillClaim, BillStatus
  <2>2. \A o \in trade[u].orders : ord'[o].via = "table"
    BY <1>2 DEF BillClaim, Inv, TradeOK
  <2>3. TradesGood
    BY <1>2, <2>1, <2>2, TradeTold DEF BillClaim
  <2>4. j \in Job /\ JobFits(j)
    BY <1>2, <2>1, NewJobs DEF JobFits, BillClaim
  <2>5. JobsGood
    BY <1>2, <2>4, JobStarts DEF BillClaim
  <2> QED BY <1>2, <2>3, <2>5, NoOrderMoves, RestStays, Step DEF BillClaim
<1>3. CASE BillSettle(w)
  <2>1. t \in Trade /\ trade[t].orders \in SUBSET Order /\ trade[t].orders \subseteq Unpaid
    BY <1>1, <1>3 DEF BillSettle, BillStands, Inv, TypeOK, TradeRow
  <2>2. OrdersGood
    BY <1>3, <2>1, SettledGood DEF BillSettle
  <2>3. TradesGood
    BY <1>3, NoTradeMoves DEF BillSettle
  <2>4. JobsGood
    BY <1>3, <2>2, <2>3, JobAnswered DEF BillSettle, Answer
  <2> QED BY <1>3, <2>2, <2>3, <2>4, RestStays, Step DEF BillSettle
<1>4. CASE BillRefused(w)
  <2>1. OrdersGood /\ TradesGood
    BY <1>4, NoOrderMoves, NoTradeMoves DEF BillRefused
  <2>2. JobsGood
    BY <1>4, <2>1, JobAnswered DEF BillRefused, Answer
  <2> QED BY <1>4, <2>1, <2>2, RestStays, Step DEF BillRefused
<1>5. CASE BillWrite(w)
  <2> DEFINE b == IF job[w].answer = "ok" THEN "paid" ELSE "conflict"
  <2>1. b \in BillStatus /\ b # "none" /\ bill' = [bill EXCEPT ![t] = b]
    BY <1>5 DEF BillWrite, BillStatus
  <2>2. t \in Trade /\ bill[t] # "none"
    BY <1>1, <1>5, JobOf DEF JobOK, BillWrite
  <2> HIDE DEF b
  <2>3. TradesGood
    BY <1>5, <2>1, <2>2, BillMoves DEF BillWrite
  <2> QED BY <1>5, <2>3, NoOrderMoves, JobEnds, RestStays, Step DEF BillWrite
<1> QED BY <1>2, <1>3, <1>4, <1>5 DEF TablePay

LEMMA RefundingInv ==
    ASSUME Inv, NEW w \in Worker, Refunding(w)
    PROVE  Keeps
<1> DEFINE o == job[w].order
<1>1. job[w] \in Job /\ JobOK(job[w])
  BY JobOf
<1>2. job[w].op \in {"refund", "auto"} => o \in Order
  BY <1>1, JobFields
<1>3. ASSUME NEW p \in Order, NEW k \in Kind, RefundClaim(w, p, k) PROVE Keeps
  <2> DEFINE j == [op |-> "refund", order |-> p, kind |-> k, answer |-> "none"]
  <2>1. j \in Job /\ JobFits(j)
    BY NewJobs DEF JobFits
  <2>2. JobsGood
    BY <1>3, <2>1, JobStarts DEF RefundClaim
  <2>3. RestTyped
    BY <1>3, RefundMoves DEF RefundClaim, RefundStatus
  <2> QED BY <1>3, <2>2, <2>3, NoOrderMoves, NoTradeMoves, Step DEF RefundClaim
<1>4. ASSUME NEW p \in Order, AutoStart(w, p) PROVE Keeps
  <2> DEFINE j == [op |-> "auto", order |-> p, amount |-> AutoAmount(p), answer |-> "none"]
  <2>1. AutoAmount(p) \in 0..Total
    BY DEF AutoAmount, Inv, TypeOK, OrderRow, RefundRow, Kind
  <2>2. j \in Job
    BY <2>1, NewJobs
  <2>3. JobFits(j)
    BY <1>4 DEF JobFits, AutoStart, AutoRefundable
  <2>4. JobsGood
    BY <1>4, <2>2, <2>3, JobStarts DEF AutoStart
  <2> QED BY <1>4, <2>4, NoOrderMoves, NoTradeMoves, RestStays, Step DEF AutoStart
<1>5. CASE ProviderReturns(w)
  <2>1. OrdersGood /\ TradesGood
    BY <1>5, NoOrderMoves, ReturnGood DEF ProviderReturns
  <2>2. JobsGood
    BY <1>5, <2>1, JobAnswered DEF ProviderReturns, Asking, Answer
  <2> QED BY <1>5, <2>1, <2>2, RestStays, Step DEF ProviderReturns
<1>6. CASE ProviderRefuses(w)
  <2>1. OrdersGood /\ TradesGood
    BY <1>6, NoOrderMoves, NoTradeMoves DEF ProviderRefuses
  <2>2. JobsGood
    BY <1>6, <2>1, JobAnswered DEF ProviderRefuses, Asking, Answer
  <2> QED BY <1>6, <2>1, <2>2, RestStays, Step DEF ProviderRefuses
<1>7. CASE ProviderAnswerLost(w)
  <2>1. OrdersGood /\ TradesGood
    BY <1>7, NoOrderMoves, ReturnGood DEF ProviderAnswerLost
  <2>2. JobsGood
    BY <1>7, <2>1, JobAnswered DEF ProviderAnswerLost, Asking, Answer
  <2> QED BY <1>7, <2>1, <2>2, RestFault, Step DEF ProviderAnswerLost
<1>8. CASE RefundWrite(w)
  <2>1. PICK s \in {"done", "failed"} : refund' = [refund EXCEPT ![o][job[w].kind].status = s]
    BY <1>8 DEF RefundWrite
  <2>2. o \in Order /\ job[w].kind \in Kind
    BY <1>1, <1>8, JobFields DEF RefundWrite
  <2>3. RestTyped
    BY <1>8, <2>1, <2>2, RefundMoves DEF RefundWrite, RefundStatus
  <2> QED BY <1>8, <2>3, NoOrderMoves, NoTradeMoves, JobEnds, Step DEF RefundWrite
<1>9. CASE AutoWrite(w)
  <2>1. o \in Order /\ ord[o].pay \in {"paid", "refund_required", "refunded"}
    BY <1>1, <1>2, <1>9 DEF AutoWrite, JobOK, Inv, OrdersSound, Sound
  <2>2. OrdersGood
    BY <1>9, <2>1, RefundedGood DEF AutoWrite
  <2>3. ASSUME NEW k \in Kind PROVE Done(refund[o][k]) \in RefundRow
    BY <2>1 DEF Done, Inv, TypeOK, RefundRow, RefundStatus
  <2>4. RestTyped
    BY <1>9, <2>1, <2>3 DEF AutoWrite, RestTyped, Inv, TypeOK
  <2> QED BY <1>9, <2>2, <2>4, NoTradeMoves, JobEnds, Step DEF AutoWrite
<1>10. CASE AutoFailed(w)
  <2>1. o \in Order /\ ord[o] \in OrderRow /\ Sound(ord[o])
    BY <1>2, <1>10 DEF AutoFailed, Inv, TypeOK, OrdersSound
  <2>2. GoodRow(ord[o], [ord[o] EXCEPT !.alert = TRUE])
    BY <2>1, NotedGood
  <2>3. OrdersGood
    BY <1>10, <2>1, <2>2, OneOrderMoves DEF AutoFailed
  <2> QED BY <1>10, <2>3, NoTradeMoves, JobEnds, RestStays, Step DEF AutoFailed
<1> QED BY <1>3, <1>4, <1>5, <1>6, <1>7, <1>8, <1>9, <1>10 DEF Refunding

LEMMA CrashInv ==
    ASSUME Inv, NEW w \in Worker, Crash(w)
    PROVE  Keeps
  BY NoOrderMoves, NoTradeMoves, JobEnds, RestFault, Step DEF Crash

LEMMA NextInv ==
    ASSUME Inv, [Next]_vars
    PROVE  Keeps
<1>1. CASE Next
  BY <1>1, RequestsInv, SweepInv, LinePayInv, TablePayInv, RefundingInv, CrashInv DEF Next
<1>2. CASE UNCHANGED vars
  BY <1>2, NoOrderMoves, NoTradeMoves, NoJobMoves, RestStays, Step DEF vars
<1> QED BY <1>1, <1>2

-----------------------------------------------------------------------------
\* What follows for every number of orders, trade numbers and workers.

\* The invariant that the other theorems rest on.
THEOREM Invariant == Spec => []Inv
<1>1. Init => Inv
  BY InitInv
<1>2. Inv /\ [Next]_vars => Inv'
  BY NextInv DEF Keeps
<1> QED BY <1>1, <1>2, PTL DEF Spec

\* Rows, trade numbers and jobs are what they are declared to be: no refund goes
\* below zero or above the order's total (order_lifecycle, payment_service).
THEOREM Typed == Spec => []TypeOK
<1>1. Inv => TypeOK
  BY DEF Inv
<1> QED BY <1>1, Invariant, PTL

\* An online payment that was heard of is on the order's record, whichever of
\* notification, browser and sweep brought it, and whatever the sweep and staff
\* did meanwhile (payment_ecpay.mark_paid, expire_unpaid_orders).
THEOREM PaymentRecorded == Spec => []OnlinePaymentRecorded
<1>1. ASSUME Inv PROVE OnlinePaymentRecorded
  <2>1. ASSUME NEW t \in Trade, NEW o \in trade[t].orders, trade[t].told, ord[o].via = "ecpay"
        PROVE  ord[o].by # NoTrade /\ ord[o].pay \in {"paid", "refund_required", "refunded"}
    <3>1. o \in Order /\ TradeOK(t)
      BY <1>1 DEF Inv, TypeOK, TradeRow
    <3>2. ord[o].by # NoTrade /\ Sound(ord[o])
      BY <1>1, <2>1, <3>1 DEF TradeOK, Inv, OrdersSound
    <3> QED BY <2>1, <3>2 DEF Sound
  <2> QED BY <2>1 DEF OnlinePaymentRecorded
<1> QED BY <1>1, Invariant, PTL

-----------------------------------------------------------------------------
(***************************************************************************)
(* OnlinePayment implements PaymentPromise, for any number of orders,      *)
(* trade numbers and workers.                                              *)
(*                                                                         *)
(* Where an order's money stands follows from its row, and every step      *)
(* moves the row as it may (OnlinePayment_proofs), except for a cancelled  *)
(* order that LINE Pay was charged for: it keeps its status, and whether   *)
(* its money is owed or returned depends on its refunds.  What is returned *)
(* must not be owed again, so no worker may write to a refund that has     *)
(* been done.  RefundsOK says why none does: a worker that carries a       *)
(* refund out has claimed it, nobody else has it, and it is still          *)
(* processing.                                                             *)
(***************************************************************************)


\* A claimed refund is the claimer's own.
ClaimOK(w, o, k) ==
    Carrying(w, o, k) =>
        /\ refund[o][k].status \in {"processing", "done"}
        /\ ord[o].via \in {"none", "linepay"} => refund[o][k].status = "processing"
        /\ \A v \in Worker : Carrying(v, o, k) => v = w

\* The refund of a cancellation comes with the cancellation.
CancelOK(o) == ord[o].live \/ ord[o].via = "none" => refund[o]["cancel"].status = "none"

RefundsOK ==
    /\ \A w \in Worker, o \in Order, k \in Kind : ClaimOK(w, o, k)
    /\ \A o \in Order : CancelOK(o)

\* Nothing is left to be returned.
Made(o) == \A k \in Kind : refund[o][k].status \in {"none", "done"}

Closed(o) == ord[o].via = "linepay" /\ ~ord[o].live

RefundsKept ==
    /\ RefundsOK'
    /\ \A o \in Order : Closed(o) /\ Made(o) => Made(o)'

\* No worker takes a refund up.
JobsStay == \A w \in Worker, o \in Order, k \in Kind : Carrying(w, o, k)' => Carrying(w, o, k)

\* What may happen to a refund: nothing; it is marked done; it comes to be; it
\* fails when nobody is at it.
Same(o, k) == refund'[o][k].status = refund[o][k].status

MarkedDone(o, k) ==
    /\ refund[o][k].status # "none" /\ refund'[o][k].status = "done"
    /\ ord[o].via \notin {"none", "linepay"} \/ \A w \in Worker : ~Carrying(w, o, k)'

Created(o, k) ==
    /\ refund[o][k].status = "none" /\ ord[o].live
    /\ k = "cancel" => ~ord'[o].live

LetGo(o, k) ==
    /\ refund[o][k].status # "none" /\ refund'[o][k].status # "none"
    /\ refund[o][k].status = "done" => ord[o].via \notin {"none", "linepay"}
    /\ \A w \in Worker : ~Carrying(w, o, k)'

RefundsMove ==
    \A o \in Order, k \in Kind : Same(o, k) \/ MarkedDone(o, k) \/ Created(o, k) \/ LetGo(o, k)

-----------------------------------------------------------------------------

\* What a step of the orders leaves as it is.
LEMMA Ways ==
    ASSUME Inv, Keeps, NEW o \in Order
    PROVE  /\ ord'[o].via \in {"none", "linepay"} => ord[o].via \in {"none", "linepay"}
           /\ ord'[o].via = "none" => ord[o].via = "none"
           /\ ord[o].via # "none" => ord'[o].via = ord[o].via
           /\ ord'[o].live => ord[o].live \/ ord[o].via = "none"
           /\ ord[o].via = "none" => ~ord[o].live
           /\ ord'[o].via = "none" => ~ord'[o].live
  BY DEF Keeps, OrdersSafe, SafeRow, Onward, Sound, Inv, OrdersSound

LEMMA MovesKeep ==
    ASSUME Inv, RefundsOK, Keeps, JobsStay, RefundsMove
    PROVE  RefundsKept
<1>1. ASSUME NEW w \in Worker, NEW o \in Order, NEW k \in Kind, Carrying(w, o, k)'
      PROVE  /\ refund'[o][k].status \in {"processing", "done"}
             /\ ord'[o].via \in {"none", "linepay"} => refund'[o][k].status = "processing"
             /\ \A v \in Worker : Carrying(v, o, k)' => v = w
  <2>1. Carrying(w, o, k) /\ \A v \in Worker : Carrying(v, o, k)' => Carrying(v, o, k)
    BY <1>1 DEF JobsStay
  <2>2. /\ refund[o][k].status \in {"processing", "done"}
        /\ ord[o].via \in {"none", "linepay"} => refund[o][k].status = "processing"
        /\ \A v \in Worker : Carrying(v, o, k) => v = w
    BY <2>1 DEF RefundsOK, ClaimOK
  <2>3. Same(o, k) \/ (refund'[o][k].status = "done" /\ ord[o].via \notin {"none", "linepay"})
    BY <1>1, <2>2 DEF RefundsMove, MarkedDone, Created, LetGo
  <2> QED BY <2>1, <2>2, <2>3, Ways DEF Same
<1>2. ASSUME NEW o \in Order, ord'[o].live \/ ord'[o].via = "none"
      PROVE  refund'[o]["cancel"].status = "none"
  <2>1. ord[o].live \/ ord[o].via = "none"
    BY <1>2, Ways
  <2>2. refund[o]["cancel"].status = "none" /\ "cancel" \in Kind
    BY <2>1 DEF RefundsOK, CancelOK, Kind
  <2>3. ~Created(o, "cancel")
    BY <1>2, Ways DEF Created
  <2> QED BY <2>2, <2>3 DEF RefundsMove, Same, MarkedDone, LetGo
<1>3. ASSUME NEW o \in Order, Closed(o), Made(o) PROVE Made(o)'
  BY <1>3 DEF Closed, Made, RefundsMove, Same, MarkedDone, Created, LetGo
<1>4. RefundsOK'
  BY <1>1, <1>2 DEF RefundsOK, ClaimOK, CancelOK
<1> QED BY <1>3, <1>4 DEF RefundsKept

\* A step that leaves the refunds alone.
LEMMA NoRefundMoves ==
    ASSUME Inv, RefundsOK, Keeps, JobsStay, UNCHANGED refund
    PROVE  RefundsKept
<1>1. RefundsMove
  BY DEF RefundsMove, Same
<1> QED BY <1>1, MovesKeep

-----------------------------------------------------------------------------
\* Jobs that are not a refund's.

LEMMA StayJobs ==
    ASSUME UNCHANGED job
    PROVE  JobsStay
  BY DEF JobsStay, Carrying

LEMMA StayEnd ==
    ASSUME Inv, NEW w \in Worker, End(w)
    PROVE  JobsStay /\ \A o \in Order, k \in Kind : ~Carrying(w, o, k)'
<1>1. job'[w] = Idle /\ \A v \in Worker \ {w} : job'[v] = job[v]
  BY DEF End, Inv, TypeOK
<1>2. Idle.op # "refund"
  BY DEF Idle
<1> QED BY <1>1, <1>2 DEF JobsStay, Carrying

LEMMA StayStart ==
    ASSUME Inv, NEW w \in Worker, NEW j, Start(w, j), j.op # "refund"
    PROVE  JobsStay
<1>1. job'[w] = j /\ \A v \in Worker \ {w} : job'[v] = job[v]
  BY DEF Start, Inv, TypeOK
<1> QED BY <1>1 DEF JobsStay, Carrying

LEMMA StayGoto ==
    ASSUME Inv, NEW w \in Worker, NEW s, Goto(w, s), job[w].op \in {"sweep", "charge"}
    PROVE  JobsStay
<1>1. job[w] \in Job
  BY DEF Inv, TypeOK
<1>2. [job[w] EXCEPT !.step = s].op = job[w].op
  <2>1. CASE job[w].op = "sweep"
    BY <1>1, <2>1 DEF Job, Idle
  <2>2. CASE job[w].op = "charge"
    BY <1>1, <2>2 DEF Job, Idle
  <2> QED BY <2>1, <2>2
<1>3. job'[w].op # "refund" /\ \A v \in Worker \ {w} : job'[v] = job[v]
  BY <1>2 DEF Goto, Inv, TypeOK
<1> QED BY <1>3 DEF JobsStay, Carrying

LEMMA StayAnswer ==
    ASSUME Inv, NEW w \in Worker, NEW a, job' = [job EXCEPT ![w].answer = a],
           job[w].op \in {"bill", "refund", "auto"}
    PROVE  JobsStay
<1>1. job[w] \in Job
  BY DEF Inv, TypeOK
<1>2. /\ [job[w] EXCEPT !.answer = a].op = job[w].op
      /\ job[w].op = "refund" => /\ [job[w] EXCEPT !.answer = a].order = job[w].order
                                 /\ [job[w] EXCEPT !.answer = a].kind = job[w].kind
  <2>1. CASE job[w].op = "bill"
    BY <1>1, <2>1 DEF Job, Idle
  <2>2. CASE job[w].op = "refund"
    BY <1>1, <2>2 DEF Job, Idle
  <2>3. CASE job[w].op = "auto"
    BY <1>1, <2>3 DEF Job, Idle
  <2> QED BY <2>1, <2>2, <2>3
<1>3. job'[w] = [job[w] EXCEPT !.answer = a] /\ \A v \in Worker \ {w} : job'[v] = job[v]
  BY DEF Inv, TypeOK
<1> QED BY <1>2, <1>3 DEF JobsStay, Carrying

-----------------------------------------------------------------------------
\* The steps that do something to a refund.

LEMMA CancelKept ==
    ASSUME Inv, RefundsOK, Keeps, JobsStay, NEW o \in Order, Cancel(o)
    PROVE  RefundsKept
<1>1. \A p \in Order, k \in Kind : ~(p = o /\ k = "cancel") => Same(p, k)
  BY DEF Cancel, Same, Inv, TypeOK
<1>2. Same(o, "cancel") \/ Created(o, "cancel")
  <2>1. ord[o].live /\ ~ord'[o].live /\ refund[o]["cancel"].status = "none"
    BY DEF Cancel, RefundsOK, CancelOK, Inv, TypeOK, OrderRow
  <2> QED BY <2>1 DEF Created
<1> QED BY <1>1, <1>2, MovesKeep DEF RefundsMove

LEMMA SystemCancelKept ==
    ASSUME Inv, RefundsOK, Keeps, JobsStay, NEW o \in Order, SystemCancel(o)
    PROVE  RefundsKept
  BY CancelKept, NoRefundMoves DEF SystemCancel

LEMMA PartialKept ==
    ASSUME Inv, RefundsOK, Keeps, NEW o \in Order, NEW n, PartialRefund(o, n)
    PROVE  RefundsKept
<1>1. \A p \in Order, k \in Kind : ~(p = o /\ k = "partial") => Same(p, k)
  BY DEF PartialRefund, Same, Inv, TypeOK
<1>2. Created(o, "partial")
  BY DEF PartialRefund, Created, NoRefund
<1>3. JobsStay
  BY StayJobs DEF PartialRefund
<1> QED BY <1>1, <1>2, <1>3, MovesKeep DEF RefundsMove

\* A status is set to done.
LEMMA DoneMoves ==
    ASSUME Inv, NEW o \in Order, NEW k \in Kind, refund' = [refund EXCEPT ![o][k].status = "done"],
           refund[o][k].status # "none",
           ord[o].via \notin {"none", "linepay"} \/ \A w \in Worker : ~Carrying(w, o, k)'
    PROVE  RefundsMove
<1>1. \A p \in Order, m \in Kind : ~(p = o /\ m = k) => Same(p, m)
  BY DEF Same, Inv, TypeOK
<1>2. refund'[o][k].status = "done"
  BY DEF Inv, TypeOK, RefundRow
<1>3. MarkedDone(o, k)
  BY <1>2 DEF MarkedDone
<1> QED BY <1>1, <1>3 DEF RefundsMove

LEMMA MarkKept ==
    ASSUME Inv, RefundsOK, Keeps, NEW o \in Order, NEW k \in Kind, MarkRefundDone(o, k)
    PROVE  RefundsKept
<1>1. JobsStay
  BY StayJobs DEF MarkRefundDone
<1>2. \A w \in Worker : ~Carrying(w, o, k)'
  BY <1>1 DEF MarkRefundDone, RefundsOK, ClaimOK, JobsStay
<1>3. RefundsMove
  BY <1>2, DoneMoves DEF MarkRefundDone
<1> QED BY <1>1, <1>3, MovesKeep

LEMMA OnlineDoneKept ==
    ASSUME Inv, RefundsOK, Keeps, NEW o \in Order, OnlineRefundDone(o)
    PROVE  RefundsKept
<1>1. JobsStay
  BY StayJobs DEF OnlineRefundDone
<1>2. ord[o].via \notin {"none", "linepay"}
  BY DEF OnlineRefundDone, Inv, OrdersSound, Sound
<1>3. ASSUME NEW k \in Kind, refund[o][k].status \notin {"none", "done"},
             refund' = [refund EXCEPT ![o][k].status = "done"]
      PROVE  RefundsMove
  BY <1>2, <1>3, DoneMoves
<1> QED BY <1>1, <1>3, MovesKeep, NoRefundMoves DEF OnlineRefundDone

\* The worker that carried the refund out is the only one that had it.
LEMMA WriteKept ==
    ASSUME Inv, RefundsOK, Keeps, NEW w \in Worker, RefundWrite(w)
    PROVE  RefundsKept
<1>1. PICK o \in Order, k \in Kind : Carrying(w, o, k)
  <2>1. job[w] \in Job /\ job[w].op = "refund"
    BY DEF Inv, TypeOK, RefundWrite
  <2> QED BY <2>1, JobFields DEF Carrying
<1>2. JobsStay /\ ~Carrying(w, o, k)'
  BY StayEnd DEF RefundWrite
<1>3. /\ refund[o][k].status \in {"processing", "done"}
      /\ ord[o].via \in {"none", "linepay"} => refund[o][k].status = "processing"
      /\ \A v \in Worker : Carrying(v, o, k) => v = w
  BY <1>1 DEF RefundsOK, ClaimOK
<1>4. \A v \in Worker : ~Carrying(v, o, k)'
  BY <1>2, <1>3 DEF JobsStay
<1>5. PICK s \in {"done", "failed"} : refund' = [refund EXCEPT ![o][k].status = s]
  BY <1>1 DEF RefundWrite, Carrying
<1>6. refund'[o][k].status = s /\ \A p \in Order, m \in Kind : ~(p = o /\ m = k) => Same(p, m)
  BY <1>5 DEF Same, Inv, TypeOK, RefundRow
<1>7. LetGo(o, k)
  BY <1>3, <1>4, <1>6 DEF LetGo
<1>8. RefundsMove
  BY <1>6, <1>7 DEF RefundsMove
<1> QED BY <1>2, <1>8, MovesKeep

\* All refunds of an order of a page are marked done.
LEMMA AutoKept ==
    ASSUME Inv, RefundsOK, Keeps, NEW w \in Worker, AutoWrite(w)
    PROVE  RefundsKept
<1>1. PICK o \in Order : job[w].order = o /\ ord[o].via = "ecpay"
  <2>1. job[w] \in Job /\ JobOK(job[w]) /\ job[w].op = "auto"
    BY DEF Inv, TypeOK, AutoWrite
  <2> QED BY <2>1, JobFields DEF JobOK
<1>2. JobsStay
  BY StayEnd DEF AutoWrite
<1>3. refund' = [refund EXCEPT ![o] = [k \in Kind |-> Done(refund[o][k])]]
  BY <1>1 DEF AutoWrite
<1>4. \A p \in Order, k \in Kind : p # o => Same(p, k)
  BY <1>3 DEF Same, Inv, TypeOK
<1>5. ASSUME NEW k \in Kind PROVE Same(o, k) \/ MarkedDone(o, k)
  <2>1. refund'[o][k] = Done(refund[o][k]) /\ refund[o][k] \in RefundRow
    BY <1>3 DEF Inv, TypeOK
  <2>2. CASE refund[o][k].status = "none"
    BY <2>1, <2>2 DEF Same, Done
  <2>3. CASE refund[o][k].status # "none"
    BY <1>1, <2>1, <2>3 DEF MarkedDone, Done, RefundRow
  <2> QED BY <2>2, <2>3
<1>6. RefundsMove
  BY <1>4, <1>5 DEF RefundsMove
<1> QED BY <1>2, <1>6, MovesKeep

\* Only a refund that nobody has is claimed.
LEMMA ClaimKept ==
    ASSUME Inv, RefundsOK, Keeps, NEW w \in Worker, NEW o \in Order, NEW k \in Kind, RefundClaim(w, o, k)
    PROVE  RefundsKept
<1>1. refund[o][k].status \in {"pending", "failed"}
  BY DEF RefundClaim, MayProcess
<1>2. \A v \in Worker : ~Carrying(v, o, k)
  BY <1>1 DEF RefundsOK, ClaimOK
<1>3. \A v \in Worker, p \in Order, m \in Kind :
          Carrying(v, p, m)' => Carrying(v, p, m) \/ (v = w /\ p = o /\ m = k)
  BY DEF RefundClaim, Start, Carrying, Inv, TypeOK
<1>4. /\ refund'[o][k].status = "processing"
      /\ \A p \in Order, m \in Kind : ~(p = o /\ m = k) => refund'[p][m].status = refund[p][m].status
  BY DEF RefundClaim, Inv, TypeOK, RefundRow
<1>5. ord' = ord
  BY DEF RefundClaim
<1>6. ASSUME NEW v \in Worker, NEW p \in Order, NEW m \in Kind, Carrying(v, p, m)'
      PROVE  /\ refund'[p][m].status \in {"processing", "done"}
             /\ ord'[p].via \in {"none", "linepay"} => refund'[p][m].status = "processing"
             /\ \A u \in Worker : Carrying(u, p, m)' => u = v
  <2>1. CASE p = o /\ m = k
    <3>1. \A u \in Worker : Carrying(u, p, m)' => u = w
      BY <1>2, <1>3, <2>1
    <3> QED BY <1>4, <1>6, <2>1, <3>1
  <2>2. CASE ~(p = o /\ m = k)
    <3>1. Carrying(v, p, m) /\ \A u \in Worker : Carrying(u, p, m)' => Carrying(u, p, m)
      BY <1>3, <1>6, <2>2
    <3>2. ClaimOK(v, p, m)
      BY DEF RefundsOK
    <3> QED BY <1>4, <1>5, <2>2, <3>1, <3>2 DEF ClaimOK
  <2> QED BY <2>1, <2>2
<1>7. ASSUME NEW p \in Order, ord'[p].live \/ ord'[p].via = "none"
      PROVE  refund'[p]["cancel"].status = "none"
  BY <1>1, <1>4, <1>5, <1>7 DEF RefundsOK, CancelOK, Kind
<1>8. ASSUME NEW p \in Order, Made(p) PROVE Made(p)'
  BY <1>1, <1>4, <1>8 DEF Made
<1>9. RefundsOK'
  BY <1>6, <1>7 DEF RefundsOK, ClaimOK, CancelOK
<1> QED BY <1>8, <1>9 DEF RefundsKept

-----------------------------------------------------------------------------
\* Every step keeps what is said of the refunds.

LEMMA RequestsRefunds ==
    ASSUME Inv, RefundsOK, Keeps, Requests
    PROVE  RefundsKept
<1>1. ASSUME UNCHANGED <<refund, job>> PROVE RefundsKept
  BY <1>1, StayJobs, NoRefundMoves
<1>2. ASSUME NEW o \in Order,
             PlaceOnline(o) \/ PlaceAtTable(o) \/ DuePasses(o) \/ VoidUnpaid(o)
             \/ \E t \in Trade : OpenPage(o, t) \/ PaymentInfo(o, t) \/ Notify(o, t)
      PROVE  RefundsKept
  BY <1>1, <1>2 DEF PlaceOnline, PlaceAtTable, DuePasses, VoidUnpaid, OpenPage, PaymentInfo, Notify
<1>3. ASSUME NEW o \in Order, StaffCancel(o) PROVE RefundsKept
  BY <1>3, StayJobs, CancelKept DEF StaffCancel
<1>4. ASSUME NEW t \in Trade, CustomerPays(t) \/ StartBill(t) \/ BillFails(t) \/ BillAlready(t)
      PROVE  RefundsKept
  BY <1>1, <1>4 DEF CustomerPays, StartBill, BillFails, BillAlready
<1>5. ASSUME NEW os \in SUBSET Order, CounterSettle(os) PROVE RefundsKept
  BY <1>1, <1>5 DEF CounterSettle
<1> QED BY <1>2, <1>3, <1>4, <1>5, OnlineDoneKept, PartialKept, MarkKept DEF Requests

LEMMA SweepRefunds ==
    ASSUME Inv, RefundsOK, Keeps, NEW w \in Worker, Sweep(w)
    PROVE  RefundsKept
<1>1. ASSUME UNCHANGED refund, JobsStay PROVE RefundsKept
  BY <1>1, NoRefundMoves
<1>2. ASSUME NEW o \in Order, SweepSelect(w, o) PROVE RefundsKept
  <2> DEFINE j == [op |-> "sweep", order |-> o, ref |-> ord[o].ref, step |-> "ask"]
  <2>1. Start(w, j) /\ j.op # "refund" /\ UNCHANGED refund
    BY <1>2 DEF SweepSelect
  <2> HIDE DEF j
  <2> QED BY <1>1, <2>1, StayStart
<1>3. CASE SweepPaid(w) \/ SweepUnknown(w) \/ SweepTooLate(w)
  BY <1>1, <1>3, StayEnd DEF SweepPaid, SweepUnknown, SweepTooLate
<1>4. CASE SweepUnpaid(w) \/ SweepExpire(w)
  BY <1>1, <1>4, StayGoto DEF SweepUnpaid, SweepExpire
<1>5. CASE SweepCancel(w)
  <2>1. job[w].order \in Order
    BY <1>5, JobFields DEF SweepCancel, Inv, TypeOK
  <2> QED BY <1>5, <2>1, StayEnd, SystemCancelKept DEF SweepCancel
<1> QED BY <1>2, <1>3, <1>4, <1>5 DEF Sweep

LEMMA LinePayRefunds ==
    ASSUME Inv, RefundsOK, Keeps, NEW w \in Worker, LinePay(w)
    PROVE  RefundsKept
<1>1. ASSUME UNCHANGED refund, JobsStay PROVE RefundsKept
  BY <1>1, NoRefundMoves
<1>2. ASSUME NEW o \in Order, NEW t \in Trade, PlaceLinePay(w, o, t) PROVE RefundsKept
  <2> DEFINE j == [op |-> "charge", order |-> o, trade |-> t, step |-> "pay"]
  <2>1. Start(w, j) /\ j.op # "refund" /\ UNCHANGED refund
    BY <1>2 DEF PlaceLinePay
  <2> HIDE DEF j
  <2> QED BY <1>1, <2>1, StayStart
<1>3. CASE LinePaySucceeds(w) \/ LinePayRefuses(w) \/ LinePayBroken(w) \/ ChargeLost(w)
           \/ \E taken \in BOOLEAN : LinePayUnknown(w, taken)
  BY <1>1, <1>3, StayGoto
  DEF LinePaySucceeds, LinePayRefuses, LinePayBroken, ChargeLost, LinePayUnknown, Charging
<1>4. CASE ChargeClaim(w) \/ ChargeStays(w)
  BY <1>1, <1>4, StayEnd DEF ChargeClaim, ChargeStays
<1>5. CASE ChargeReturned(w)
  BY <1>1, <1>5, StayEnd, StayGoto DEF ChargeReturned, Charging
<1>6. CASE ChargeCancel(w)
  <2>1. job[w].order \in Order
    BY <1>6, JobFields DEF ChargeCancel, Charging, Inv, TypeOK
  <2> QED BY <1>6, <2>1, StayEnd, SystemCancelKept DEF ChargeCancel
<1> QED BY <1>2, <1>3, <1>4, <1>5, <1>6 DEF LinePay

LEMMA TablePayRefunds ==
    ASSUME Inv, RefundsOK, Keeps, NEW w \in Worker, TablePay(w)
    PROVE  RefundsKept
<1>1. ASSUME UNCHANGED refund, JobsStay PROVE RefundsKept
  BY <1>1, NoRefundMoves
<1>2. ASSUME NEW t \in Trade, BillClaim(w, t) PROVE RefundsKept
  <2> DEFINE j == [op |-> "bill", trade |-> t, answer |-> "none"]
  <2>1. Start(w, j) /\ j.op # "refund" /\ UNCHANGED refund
    BY <1>2 DEF BillClaim
  <2> HIDE DEF j
  <2> QED BY <1>1, <2>1, StayStart
<1>3. CASE BillSettle(w)
  BY <1>1, <1>3, StayAnswer DEF BillSettle
<1>4. CASE BillRefused(w)
  BY <1>1, <1>4, StayAnswer DEF BillRefused
<1>5. CASE BillWrite(w)
  BY <1>1, <1>5, StayEnd DEF BillWrite
<1> QED BY <1>2, <1>3, <1>4, <1>5 DEF TablePay

LEMMA RefundingRefunds ==
    ASSUME Inv, RefundsOK, Keeps, NEW w \in Worker, Refunding(w)
    PROVE  RefundsKept
<1>1. ASSUME UNCHANGED refund, JobsStay PROVE RefundsKept
  BY <1>1, NoRefundMoves
<1>2. ASSUME NEW o \in Order, AutoStart(w, o) PROVE RefundsKept
  <2> DEFINE j == [op |-> "auto", order |-> o, amount |-> AutoAmount(o), answer |-> "none"]
  <2>1. Start(w, j) /\ j.op # "refund" /\ UNCHANGED refund
    BY <1>2 DEF AutoStart
  <2> HIDE DEF j
  <2> QED BY <1>1, <2>1, StayStart
<1>3. CASE ProviderReturns(w)
  BY <1>1, <1>3, StayAnswer DEF ProviderReturns, Asking
<1>4. CASE ProviderRefuses(w)
  BY <1>1, <1>4, StayAnswer DEF ProviderRefuses, Asking
<1>5. CASE ProviderAnswerLost(w)
  BY <1>1, <1>5, StayAnswer DEF ProviderAnswerLost, Asking
<1>6. CASE AutoFailed(w)
  BY <1>1, <1>6, StayEnd DEF AutoFailed
<1> QED BY <1>2, <1>3, <1>4, <1>5, <1>6, ClaimKept, WriteKept, AutoKept DEF Refunding

LEMMA NextRefunds ==
    ASSUME Inv, RefundsOK, Keeps, [Next]_vars
    PROVE  RefundsKept
<1>1. ASSUME NEW w \in Worker, Crash(w) PROVE RefundsKept
  BY <1>1, StayEnd, NoRefundMoves DEF Crash
<1>2. CASE UNCHANGED vars
  BY <1>2, StayJobs, NoRefundMoves DEF vars
<1> QED BY <1>1, <1>2, RequestsRefunds, SweepRefunds, LinePayRefunds, TablePayRefunds, RefundingRefunds
        DEF Next

-----------------------------------------------------------------------------
\* Where the money stands.

MoneyNow(o) ==
    IF MoneyRow(ord[o]) = "closed" THEN IF Made(o) THEN "returned" ELSE "owed" ELSE MoneyRow(ord[o])

\* It is what the row says, and what the refunds say of a closed one.
LEMMA MoneyKnown ==
    ASSUME Inv, NEW o \in Order
    PROVE  /\ MoneyOf(o) = MoneyNow(o)
           /\ MoneyOf(o) \in Promise!Money
           /\ MoneyRow(ord[o]) = "closed" => Closed(o)
<1>1. ord[o].pay \in PayStatus \cup {"none"} /\ ord[o].live \in BOOLEAN /\ Sound(ord[o])
      /\ ord[o].via \in Channel \cup {"none"}
  BY DEF Inv, TypeOK, OrdersSound, OrderRow
<1>2. MoneyOf(o) = MoneyNow(o)
  <2>1. CASE ord[o].pay = "at_once"
    BY <2>1 DEF MoneyOf, MoneyNow, MoneyRow, Made
  <2>2. CASE ord[o].pay # "at_once"
    <3>1. MoneyRow(ord[o]) # "closed"
      BY <1>1, <2>2 DEF MoneyRow, PayStatus
    <3> QED BY <1>1, <2>2, <3>1 DEF MoneyOf, MoneyNow, MoneyRow, PayStatus
  <2> QED BY <2>1, <2>2
<1>3. MoneyOf(o) \in Promise!Money
  BY <1>1 DEF MoneyOf, PayStatus, Promise!Money
<1>4. MoneyRow(ord[o]) = "closed" => ord[o].pay = "at_once" /\ ~ord[o].live
  BY <1>1 DEF MoneyRow, PayStatus
<1>5. ord[o].pay = "at_once" => ord[o].via = "linepay"
  BY <1>1 DEF Sound, Channel
<1> QED BY <1>2, <1>3, <1>4, <1>5 DEF Closed

LEMMA MoneyMoves ==
    ASSUME Inv, Inv', OrdersSafe, RefundsKept, NEW o \in Order
    PROVE  MoneyOf(o)' = MoneyOf(o) \/ <<MoneyOf(o), MoneyOf(o)'>> \in Promise!Step
<1> DEFINE m == MoneyRow(ord[o])
           n == MoneyRow(ord'[o])
<1>1. n = m \/ <<m, n>> \in Promise!Step \cup {<<"kept", "closed">>}
  BY DEF OrdersSafe, SafeRow, Onward
<1>2. /\ MoneyOf(o) = IF m = "closed" THEN IF Made(o) THEN "returned" ELSE "owed" ELSE m
      /\ m = "closed" => Closed(o)
  BY MoneyKnown DEF MoneyNow
<1>3. MoneyOf(o)' = IF n = "closed" THEN IF Made(o)' THEN "returned" ELSE "owed" ELSE n
  <2>1. (Inv => MoneyOf(o) = MoneyNow(o))'
    BY MoneyKnown, PTL
  <2> QED BY <2>1 DEF MoneyNow
<1>4. Closed(o) /\ Made(o) => Made(o)'
  BY DEF RefundsKept
<1> HIDE DEF m, n
<1>5. CASE m = "closed"
  BY <1>1, <1>2, <1>3, <1>4, <1>5 DEF Promise!Step
<1>6. CASE m # "closed"
  BY <1>1, <1>2, <1>3, <1>6 DEF Promise!Step
<1> QED BY <1>5, <1>6

\* Money that is taken is kept or owed, and nothing is kept for an order that
\* expired or was cancelled: the orders, their payments and refunds implement the
\* promise (payment_service, payment_ecpay, table_pay_service).
THEOREM Implements == Spec => KeepsPromise
<1>1. Init => Inv /\ RefundsOK /\ Promise!Init
  <2>1. ASSUME Init PROVE RefundsOK
    BY <2>1 DEF Init, RefundsOK, ClaimOK, CancelOK, Carrying, Idle, NoRefund, Kind
  <2>2. ASSUME Init PROVE Promise!Init
    <3>1. \A o \in Order : MoneyOf(o) = "waiting"
      BY <2>2 DEF Init, MoneyOf, NoOrder
    <3> QED BY <3>1 DEF Promise!Init
  <2> QED BY <2>1, <2>2, InitInv
<1>2. Inv /\ RefundsOK /\ [Next]_vars =>
        (Inv /\ RefundsOK)' /\ [Promise!Next]_([o \in Order |-> MoneyOf(o)])
  <2>1. SUFFICES ASSUME Inv, RefundsOK, [Next]_vars
                 PROVE  (Inv /\ RefundsOK)' /\ [Promise!Next]_([o \in Order |-> MoneyOf(o)])
    OBVIOUS
  <2>2. Keeps
    BY <2>1, NextInv
  <2>3. RefundsKept
    BY <2>1, <2>2, NextRefunds
  <2>4. Inv' /\ RefundsOK' /\ OrdersSafe
    BY <2>2, <2>3 DEF Keeps, RefundsKept
  <2>5. \A o \in Order : MoneyOf(o)' = MoneyOf(o) \/ <<MoneyOf(o), MoneyOf(o)'>> \in Promise!Step
    BY <2>1, <2>3, <2>4, MoneyMoves
  <2>6. \A o \in Order : MoneyOf(o)' \in Promise!Money
    <3>1. ASSUME NEW o \in Order PROVE (Inv => MoneyOf(o) \in Promise!Money)'
      BY MoneyKnown, PTL
    <3> QED BY <2>4, <3>1
  <2>7. Promise!Next
    BY <2>5, <2>6 DEF Promise!Next
  <2> QED BY <2>4, <2>7
<1> QED BY <1>1, <1>2, PTL DEF Spec, KeepsPromise, Promise!Spec


-----------------------------------------------------------------------------
(***************************************************************************)
(* Three more promises about money that several actors handle at once: a   *)
(* charge of LINE Pay does not get lost, a table's bill settles its orders *)
(* once and for what they cost, and no more is returned than the refunds   *)
(* say.                                                                    *)
(*                                                                         *)
(* A step is first taken apart into what it may do to each piece of state  *)
(* (RowsGo, BysGo, SidesGo, ChargesGo, BillsGo, RefundsGo), one lemma per  *)
(* kind of work; the invariants are then kept by any step of that shape.   *)
(* Watching is the invariant behind all three: a trade number's money      *)
(* belongs to one order or one bill, and nobody but the worker that        *)
(* charges it touches it while the charge goes on.  BillInvariant and      *)
(* RefundInvariant add what the other two need.                            *)
(***************************************************************************)

\* Before anything was paid, when it counts as paid at the shop, and when it goes back.
Open == {"none", "pending", "authorizing", "unpaid", "expired"}
Counted == {"paid", "at_once"}
GoesBack == {"refund_required", "refunded"}

\* An order that was not paid has no payment.
RowOK(r) ==
    /\ r.via = "none" => r.by = NoTrade /\ ~r.alert
    /\ r.pay \in {"unpaid", "authorizing"} => r.by = NoTrade

\* What no step undoes of a row: staff stay told; an order keeps the payment it has
\* got, and costs what it did then; what was paid is not open again.
RowGoes(r, new) ==
    /\ RowOK(new)
    /\ r.via # "none" => new.via = r.via /\ new.refunded >= r.refunded
    /\ r.alert => new.alert
    /\ r.by # NoTrade => new.by = r.by /\ new.total = r.total
    /\ new.pay \in Open => r.pay \in Open
    /\ new.pay \in Counted => r.pay \in Counted \cup {"pending", "authorizing"}
    /\ r.pay \in GoesBack => new.pay \in GoesBack

\* Money that is returned by itself was owed.
AutoOK(w) == job[w].op = "auto" => ord[job[w].order].pay \in GoesBack

RowsOK == \A o \in Order : RowOK(ord[o])
RowsGo == \A o \in Order : RowGoes(ord[o], ord'[o])

-----------------------------------------------------------------------------

LEMMA SameGoes ==
    ASSUME NEW r \in OrderRow, RowOK(r)
    PROVE  RowGoes(r, r)
  BY DEF RowGoes, OrderRow

LEMMA SameRowsGo ==
    ASSUME Inv, RowsOK, UNCHANGED ord
    PROVE  RowsGo
  BY SameGoes DEF RowsGo, RowsOK, Inv, TypeOK

LEMMA OneRowGoes ==
    ASSUME Inv, RowsOK, NEW o \in Order, NEW r, RowGoes(ord[o], r), ord' = [ord EXCEPT ![o] = r]
    PROVE  RowsGo
<1>1. ord'[o] = r /\ \A p \in Order \ {o} : ord'[p] = ord[p]
  BY DEF Inv, TypeOK
<1> QED BY <1>1, SameGoes DEF RowsGo, RowsOK, Inv, TypeOK

\* Which way an order is paid, and the notes on it.
LEMMA NotedGoes ==
    ASSUME NEW r \in OrderRow, RowOK(r), NEW b \in BOOLEAN
    PROVE  /\ \A t \in Trade : RowGoes(r, [r EXCEPT !.ref = t])
           /\ RowGoes(r, [r EXCEPT !.due = b])
<1>1. ASSUME NEW new \in OrderRow, new.via = r.via, new.pay = r.pay, new.alert = r.alert,
             new.total = r.total, new.by = r.by, new.refunded = r.refunded
      PROVE  RowGoes(r, new)
  BY <1>1 DEF RowGoes, RowOK, OrderRow
<1> QED BY <1>1 DEF OrderRow

LEMMA AlertGoes ==
    ASSUME NEW r \in OrderRow, RowOK(r), r.via # "none"
    PROVE  RowGoes(r, [r EXCEPT !.alert = TRUE])
<1> DEFINE new == [r EXCEPT !.alert = TRUE]
<1>1. /\ new.alert /\ new.via = r.via /\ new.pay = r.pay
      /\ new.total = r.total /\ new.by = r.by /\ new.refunded = r.refunded
  BY DEF OrderRow
<1> HIDE DEF new
<1>2. RowGoes(r, new)
  BY <1>1 DEF RowGoes, RowOK, OrderRow
<1> QED BY <1>2 DEF new

LEMMA PlacedGoes ==
    ASSUME NEW r \in OrderRow, Sound(r), RowOK(r), r.via = "none", NEW v \in Channel, NEW p \in PayStatus,
           p \in {"pending", "authorizing", "unpaid"}
    PROVE  RowGoes(r, Placed(v, p))
<1>1. Placed(v, p).via = v /\ Placed(v, p).pay = p /\ Placed(v, p).by = NoTrade
  BY PlacedRow, Zenon
<1>2. v # "none" /\ r.by = NoTrade /\ ~r.alert /\ r.pay = "none"
  BY DEF Channel, RowOK, Sound
<1> QED BY <1>1, <1>2 DEF RowGoes, RowOK, Open, Counted, GoesBack

\* A status that is set with the payment it came with.
LEMMA StatusGoes ==
    ASSUME NEW r \in OrderRow, Sound(r), RowOK(r), NEW p \in PayStatus \cup {"none"},
           NEW b \in Trade \cup {NoTrade}, r.via # "none",
           \/ p = r.pay /\ b = r.by
           \/ r.pay = "pending" /\ p = "expired" /\ b = r.by
           \/ r.pay = "pending" /\ p \in {"paid", "refund_required"}
           \/ r.pay = "expired" /\ p = "refund_required"
           \/ r.pay = "authorizing" /\ p = "at_once"
           \/ r.pay = "unpaid" /\ p = "settled"
           \/ r.pay \in GoesBack /\ p = "refunded" /\ b = r.by
    PROVE  RowGoes(r, [r EXCEPT !.pay = p, !.by = b])
<1> DEFINE new == [r EXCEPT !.pay = p, !.by = b]
<1>1. /\ new.pay = p /\ new.by = b /\ new.via = r.via /\ new.alert = r.alert
      /\ new.total = r.total /\ new.refunded = r.refunded
  <2>1. HasPayment(new, r, p, b)
    BY PaidRow, Zenon
  <2> QED BY <2>1, Zenon DEF HasPayment
<1> HIDE DEF new
<1>2. r.pay \in {"pending", "expired"} => r.by = NoTrade
  BY DEF Sound, OrderRow, Channel
<1>3. RowGoes(r, new)
  BY <1>1, <1>2 DEF RowGoes, RowOK, Open, Counted, GoesBack, Sound, OrderRow
<1> QED BY <1>3 DEF new

LEMMA CancelledGoes ==
    ASSUME NEW r \in OrderRow, Sound(r), RowOK(r), NEW p \in PayStatus \cup {"none"}, NEW n \in 0..Total,
           NEW no \in BOOLEAN, n >= r.refunded,
           p = r.pay \/ (r.pay \in {"paid", "settled"} /\ p = "refund_required")
    PROVE  RowGoes(r, [r EXCEPT !.live = no, !.pay = p, !.refunded = n])
<1> DEFINE new == [r EXCEPT !.live = no, !.pay = p, !.refunded = n]
<1>1. /\ new.pay = p /\ new.by = r.by /\ new.via = r.via /\ new.alert = r.alert
      /\ new.total = r.total /\ new.refunded = n
  <2>1. IsCancelled(new, r, p, n, no)
    BY CancelledRow, Zenon
  <2> QED BY <2>1, Zenon DEF IsCancelled
<1> HIDE DEF new
<1>2. RowGoes(r, new)
  BY <1>1 DEF RowGoes, RowOK, Open, Counted, GoesBack, Sound, OrderRow
<1> QED BY <1>2 DEF new

LEMMA AmountGoes ==
    ASSUME NEW r \in OrderRow, RowOK(r), NEW n \in 0..Total
    PROVE  /\ r.pay = "unpaid" => RowGoes(r, [r EXCEPT !.total = n])
           /\ n >= r.refunded => RowGoes(r, [r EXCEPT !.refunded = n])
<1>1. ASSUME r.pay = "unpaid" PROVE RowGoes(r, [r EXCEPT !.total = n])
  <2> DEFINE new == [r EXCEPT !.total = n]
  <2>1. /\ new.alert = r.alert /\ new.via = r.via /\ new.pay = r.pay
        /\ new.by = r.by /\ new.refunded = r.refunded
    BY DEF OrderRow
  <2> HIDE DEF new
  <2>2. RowGoes(r, new)
    BY <1>1, <2>1 DEF RowGoes, RowOK, OrderRow
  <2> QED BY <2>2 DEF new
<1>2. ASSUME n >= r.refunded PROVE RowGoes(r, [r EXCEPT !.refunded = n])
  <2> DEFINE new == [r EXCEPT !.refunded = n]
  <2>1. /\ new.alert = r.alert /\ new.via = r.via /\ new.pay = r.pay
        /\ new.by = r.by /\ new.total = r.total /\ new.refunded = n
    BY DEF OrderRow
  <2> HIDE DEF new
  <2>2. RowGoes(r, new)
    BY <1>2, <2>1 DEF RowGoes, RowOK, OrderRow
  <2> QED BY <2>2 DEF new
<1> QED BY <1>1, <1>2

-----------------------------------------------------------------------------
\* The actions that write to orders.

LEMMA MarkPaidGoes ==
    ASSUME Inv, RowsOK, NEW o \in Order, NEW t \in Trade, ord[o].via = "ecpay", MarkPaid(o, t)
    PROVE  RowsGo
<1> DEFINE p == PayAfterPayment(o)
           b == IF p = ord[o].pay THEN ord[o].by ELSE t
<1>1. ord[o] \in OrderRow /\ Sound(ord[o]) /\ RowOK(ord[o])
  BY DEF Inv, TypeOK, OrdersSound, RowsOK
<1>2. p = ord[o].pay \/ (ord[o].pay = "pending" /\ p \in {"paid", "refund_required"})
      \/ (ord[o].pay = "expired" /\ p = "refund_required")
  BY DEF PayAfterPayment
<1>3. p \in PayStatus \cup {"none"} /\ b \in Trade \cup {NoTrade} /\ (p = ord[o].pay => b = ord[o].by)
  BY <1>1, <1>2 DEF OrderRow, PayStatus
<1>4. ord' = [ord EXCEPT ![o] = [ord[o] EXCEPT !.pay = p, !.by = b]]
  BY DEF MarkPaid, Inv, TypeOK
<1> HIDE DEF p, b
<1>5. RowGoes(ord[o], [ord[o] EXCEPT !.pay = p, !.by = b])
  BY <1>1, <1>2, <1>3, StatusGoes
<1> QED BY <1>4, <1>5, OneRowGoes

LEMMA CancelGoes ==
    ASSUME Inv, RowsOK, NEW o \in Order, Cancel(o)
    PROVE  RowsGo
<1> DEFINE p == PayAfterCancel(o)
           n == ord[o].refunded + Owed(o)
<1>1. ord[o] \in OrderRow /\ Sound(ord[o]) /\ RowOK(ord[o])
  BY DEF Inv, TypeOK, OrdersSound, RowsOK
<1>2. Owed(o) \in 0..Total /\ n \in 0..Total
  BY CancelGood DEF Inv, Cancel
<1>3. n >= ord[o].refunded
  BY <1>1, <1>2, AmountAssumption DEF OrderRow
<1>4. /\ p \in PayStatus \cup {"none"}
      /\ p = ord[o].pay \/ (ord[o].pay \in {"paid", "settled"} /\ p = "refund_required")
  BY <1>1 DEF PayAfterCancel, OrderRow, PayStatus
<1>5. \A no \in BOOLEAN : RowGoes(ord[o], [ord[o] EXCEPT !.live = no, !.pay = p, !.refunded = n])
  <2> HIDE DEF p, n
  <2> QED BY <1>1, <1>2, <1>3, <1>4, CancelledGoes
<1>6. PICK no \in BOOLEAN : ord' = [ord EXCEPT ![o] = [ord[o] EXCEPT !.live = no, !.pay = p, !.refunded = n]]
  BY DEF Cancel, Inv, TypeOK
<1> HIDE DEF p, n
<1> QED BY <1>5, <1>6, OneRowGoes

LEMMA SystemCancelGoes ==
    ASSUME Inv, RowsOK, NEW o \in Order, SystemCancel(o)
    PROVE  RowsGo
  BY CancelGoes, SameRowsGo DEF SystemCancel

LEMMA SettledGoes ==
    ASSUME Inv, RowsOK, NEW os \in SUBSET Order, os \subseteq Unpaid, NEW t \in Trade \cup {NoTrade},
           ord' = Settled(os, t)
    PROVE  RowsGo
<1>1. ASSUME NEW o \in os PROVE RowGoes(ord[o], [ord[o] EXCEPT !.pay = "settled", !.by = t])
  <2>1. ord[o] \in OrderRow /\ Sound(ord[o]) /\ RowOK(ord[o]) /\ ord[o].pay = "unpaid"
    BY DEF Inv, TypeOK, OrdersSound, RowsOK, Unpaid
  <2>2. "settled" \in PayStatus \cup {"none"} /\ ord[o].via # "none"
    BY <2>1 DEF PayStatus, Sound
  <2> QED BY <2>1, <2>2, StatusGoes
<1>2. ASSUME NEW o \in Order PROVE RowGoes(ord[o], ord'[o])
  <2>1. CASE o \in os
    BY <1>1, <2>1 DEF Settled
  <2>2. CASE o \notin os
    BY <2>2, SameGoes DEF Settled, Inv, TypeOK, RowsOK
  <2> QED BY <2>1, <2>2
<1> QED BY <1>2 DEF RowsGo

\* A status that is set alone.
LEMMA PayGoes ==
    ASSUME Inv, RowsOK, NEW o \in Order, NEW p \in PayStatus, ord' = [ord EXCEPT ![o].pay = p],
           \/ ord[o].pay = "pending" /\ p = "expired"
           \/ ord[o].pay \in GoesBack /\ p = "refunded"
    PROVE  RowsGo
<1>1. ord[o] \in OrderRow /\ Sound(ord[o]) /\ RowOK(ord[o]) /\ ord[o].by \in Trade \cup {NoTrade}
  BY DEF Inv, TypeOK, OrdersSound, RowsOK, OrderRow
<1>2. ord[o].via # "none"
  BY <1>1 DEF Sound, GoesBack
<1>3. RowGoes(ord[o], [ord[o] EXCEPT !.pay = p, !.by = ord[o].by])
  BY <1>1, <1>2, StatusGoes
<1>4. RowGoes(ord[o], [ord[o] EXCEPT !.pay = p])
  BY <1>1, <1>3, ByKept
<1> QED BY <1>4, OneRowGoes DEF Inv, TypeOK

LEMMA PlaceGoes ==
    ASSUME Inv, RowsOK, NEW o \in Order, ord[o].via = "none"
    PROVE  /\ ord' = [ord EXCEPT ![o] = Placed("ecpay", "pending")] => RowsGo
           /\ ord' = [ord EXCEPT ![o] = Placed("linepay", "authorizing")] => RowsGo
           /\ ord' = [ord EXCEPT ![o] = Placed("table", "unpaid")] => RowsGo
<1>1. ord[o] \in OrderRow /\ Sound(ord[o]) /\ RowOK(ord[o])
  BY DEF Inv, TypeOK, OrdersSound, RowsOK
<1>2. /\ {"ecpay", "linepay", "table"} \subseteq Channel
      /\ {"pending", "authorizing", "unpaid"} \subseteq PayStatus
  BY DEF Channel, PayStatus
<1>3. RowGoes(ord[o], Placed("ecpay", "pending"))
  BY <1>1, <1>2, PlacedGoes
<1>4. RowGoes(ord[o], Placed("linepay", "authorizing"))
  BY <1>1, <1>2, PlacedGoes
<1>5. RowGoes(ord[o], Placed("table", "unpaid"))
  BY <1>1, <1>2, PlacedGoes
<1> QED BY <1>3, <1>4, <1>5, OneRowGoes

LEMMA AlertedGoes ==
    ASSUME Inv, RowsOK, NEW o \in Order, ord[o].via # "none", ord' = [ord EXCEPT ![o].alert = TRUE]
    PROVE  RowsGo
<1>1. RowGoes(ord[o], [ord[o] EXCEPT !.alert = TRUE])
  BY AlertGoes DEF Inv, TypeOK, RowsOK
<1> QED BY <1>1, OneRowGoes DEF Inv, TypeOK

-----------------------------------------------------------------------------
\* Every step.

LEMMA RequestsRows ==
    ASSUME Inv, RowsOK, Requests
    PROVE  RowsGo
<1>1. \A o \in Order : ord[o] \in OrderRow /\ Sound(ord[o]) /\ RowOK(ord[o])
                       /\ ord[o].total \in 0..Total /\ ord[o].refunded \in 0..Total
  BY DEF Inv, TypeOK, OrdersSound, RowsOK, OrderRow
<1>2. ASSUME NEW o \in Order, PlaceOnline(o) \/ PlaceAtTable(o) PROVE RowsGo
  BY <1>2, PlaceGoes DEF PlaceOnline, PlaceAtTable
<1>3. ASSUME NEW o \in Order, DuePasses(o) \/ \E t \in Trade : PaymentInfo(o, t) PROVE RowsGo
  <2>1. PICK b \in BOOLEAN : ord' = [ord EXCEPT ![o].due = b]
    BY <1>3 DEF DuePasses, PaymentInfo
  <2>2. RowGoes(ord[o], [ord[o] EXCEPT !.due = b])
    BY <1>1, NotedGoes
  <2> QED BY <2>1, <2>2, OneRowGoes DEF Inv, TypeOK
<1>4. ASSUME NEW o \in Order, VoidUnpaid(o) PROVE RowsGo
  <2>1. ord[o].pay = "unpaid" /\ ord[o].total - 1 \in 0..Total
    BY <1>1, <1>4, AmountAssumption DEF VoidUnpaid, Unpaid
  <2>2. RowGoes(ord[o], [ord[o] EXCEPT !.total = ord[o].total - 1])
    BY <1>1, <2>1, AmountGoes
  <2> QED BY <1>4, <2>2, OneRowGoes DEF VoidUnpaid, Inv, TypeOK
<1>5. ASSUME NEW o \in Order, StaffCancel(o) PROVE RowsGo
  BY <1>5, CancelGoes DEF StaffCancel
<1>6. ASSUME NEW o \in Order, OnlineRefundDone(o) PROVE RowsGo
  BY <1>6, PayGoes DEF OnlineRefundDone, PayStatus, GoesBack
<1>7. ASSUME NEW o \in Order, NEW n \in 1..Total, PartialRefund(o, n) PROVE RowsGo
  <2>1. ord[o].refunded + n \in 0..Total /\ ord[o].refunded + n >= ord[o].refunded
    BY <1>1, <1>7, AmountAssumption DEF PartialRefund, Left
  <2>2. RowGoes(ord[o], [ord[o] EXCEPT !.refunded = ord[o].refunded + n])
    BY <1>1, <2>1, AmountGoes
  <2> QED BY <1>7, <2>2, OneRowGoes DEF PartialRefund, Inv, TypeOK
<1>8. ASSUME NEW o \in Order, NEW k \in Kind, MarkRefundDone(o, k) PROVE RowsGo
  <2>1. CASE ord[o].pay = "refund_required"
    BY <1>8, <2>1, PayGoes DEF MarkRefundDone, PayStatus, GoesBack
  <2>2. CASE ord[o].pay # "refund_required"
    <3>1. UNCHANGED ord
      BY <1>1, <1>8, <2>2 DEF MarkRefundDone, OrderRow, Inv, TypeOK
    <3> QED BY <3>1, SameRowsGo
  <2> QED BY <2>1, <2>2
<1>9. ASSUME NEW o \in Order, NEW t \in Trade, OpenPage(o, t) PROVE RowsGo
  <2>1. RowGoes(ord[o], [ord[o] EXCEPT !.ref = t])
    BY <1>1, NotedGoes
  <2> QED BY <1>9, <2>1, OneRowGoes DEF OpenPage, Inv, TypeOK
<1>10. ASSUME NEW o \in Order, NEW t \in Trade, Notify(o, t) PROVE RowsGo
  BY <1>10, MarkPaidGoes DEF Notify
<1>11. ASSUME NEW t \in Trade, CustomerPays(t) \/ StartBill(t) \/ BillFails(t) \/ BillAlready(t)
       PROVE  RowsGo
  BY <1>11, SameRowsGo DEF CustomerPays, StartBill, BillFails, BillAlready
<1>12. ASSUME NEW os \in SUBSET Order, CounterSettle(os) PROVE RowsGo
  BY <1>12, SettledGoes DEF CounterSettle
<1> QED BY <1>2, <1>3, <1>4, <1>5, <1>6, <1>7, <1>8, <1>9, <1>10, <1>11, <1>12 DEF Requests

LEMMA WorkerRows ==
    ASSUME Inv, RowsOK, NEW w \in Worker, AutoOK(w),
           Sweep(w) \/ LinePay(w) \/ TablePay(w) \/ Refunding(w) \/ Crash(w)
    PROVE  RowsGo
<1> DEFINE o == job[w].order
<1>1. job[w] \in Job /\ JobOK(job[w])
  BY JobOf
<1>2. /\ job[w].op = "sweep" => o \in Order /\ job[w].ref \in Trade \cup {NoTrade} /\ ord[o].via = "ecpay"
      /\ job[w].op = "charge" => o \in Order /\ job[w].trade \in Trade /\ ord[o].via = "linepay"
      /\ job[w].op = "auto" => o \in Order /\ ord[o].via = "ecpay" /\ ord[o].by # NoTrade
      /\ job[w].op = "bill" => job[w].trade \in Trade
  BY <1>1, JobFields DEF JobOK
<1>3. ASSUME UNCHANGED ord PROVE RowsGo
  BY <1>3, SameRowsGo
<1>4. CASE Sweep(w)
  <2>1. CASE SweepPaid(w)
    BY <1>2, <2>1, MarkPaidGoes DEF SweepPaid
  <2>2. CASE SweepExpire(w)
    BY <1>2, <2>2, PayGoes DEF SweepExpire, MayExpire, PayStatus
  <2>3. CASE SweepCancel(w)
    BY <1>2, <2>3, SystemCancelGoes DEF SweepCancel
  <2> QED BY <1>3, <1>4, <2>1, <2>2, <2>3 DEF Sweep, SweepSelect, SweepUnpaid, SweepUnknown, SweepTooLate
<1>5. CASE LinePay(w)
  <2>1. ASSUME NEW p \in Order, NEW t \in Trade, PlaceLinePay(w, p, t) PROVE RowsGo
    BY <2>1, PlaceGoes DEF PlaceLinePay
  <2>2. CASE ChargeClaim(w)
    <3>1. o \in Order /\ job[w].trade \in Trade /\ ord[o].pay = "authorizing"
      BY <1>2, <2>2 DEF ChargeClaim, MayClaim, Charging
    <3>2. ord[o] \in OrderRow /\ Sound(ord[o]) /\ RowOK(ord[o]) /\ "at_once" \in PayStatus \cup {"none"}
          /\ ord[o].via # "none"
      BY <3>1 DEF Inv, TypeOK, OrdersSound, RowsOK, PayStatus, Sound
    <3>3. RowGoes(ord[o], [ord[o] EXCEPT !.pay = "at_once", !.by = job[w].trade])
      BY <3>1, <3>2, StatusGoes
    <3> QED BY <2>2, <3>1, <3>3, OneRowGoes DEF ChargeClaim, Inv, TypeOK
  <2>3. CASE ChargeStays(w)
    BY <1>2, <2>3, AlertedGoes DEF ChargeStays, Charging
  <2>4. CASE ChargeCancel(w)
    BY <1>2, <2>4, SystemCancelGoes DEF ChargeCancel, Charging
  <2> QED BY <1>3, <1>5, <2>1, <2>2, <2>3, <2>4
          DEF LinePay, LinePaySucceeds, LinePayRefuses, LinePayBroken, LinePayUnknown, ChargeLost,
              ChargeReturned
<1>6. CASE TablePay(w)
  <2>1. CASE BillSettle(w)
    <3>1. job[w].trade \in Trade /\ trade[job[w].trade].orders \in SUBSET Order
      BY <1>2, <2>1 DEF BillSettle, Inv, TypeOK, TradeRow
    <3> QED BY <2>1, <3>1, SettledGoes DEF BillSettle, BillStands
  <2> QED BY <1>3, <1>6, <2>1 DEF TablePay, BillClaim, BillRefused, BillWrite
<1>7. CASE Refunding(w)
  <2>1. CASE AutoFailed(w)
    BY <1>2, <2>1, AlertedGoes DEF AutoFailed
  <2>2. CASE AutoWrite(w)
    BY <1>2, <2>2, PayGoes DEF AutoWrite, AutoOK, PayStatus
  <2> QED BY <1>3, <1>7, <2>1, <2>2
          DEF Refunding, RefundClaim, AutoStart, ProviderReturns, ProviderRefuses, ProviderAnswerLost,
              RefundWrite
<1>8. CASE Crash(w)
  BY <1>3, <1>8 DEF Crash
<1> QED BY <1>4, <1>5, <1>6, <1>7, <1>8

LEMMA NextRows ==
    ASSUME Inv, RowsOK, \A w \in Worker : AutoOK(w), [Next]_vars
    PROVE  RowsGo
<1>1. CASE UNCHANGED vars
  BY <1>1, SameRowsGo DEF vars
<1> QED BY <1>1, RequestsRows, WorkerRows DEF Next

-----------------------------------------------------------------------------
\* What a step does to the jobs.

LEMMA StartFields ==
    ASSUME Inv, NEW w \in Worker, NEW j, Start(w, j)
    PROVE  job[w].op = "idle" /\ job'[w] = j /\ \A v \in Worker \ {w} : job'[v] = job[v]
  BY DEF Start, Inv, TypeOK, Idle

LEMMA EndFields ==
    ASSUME Inv, NEW w \in Worker, End(w)
    PROVE  job'[w].op = "idle" /\ \A v \in Worker \ {w} : job'[v] = job[v]
  BY DEF End, Inv, TypeOK, Idle

LEMMA GotoFields ==
    ASSUME Inv, NEW w \in Worker, NEW s, Goto(w, s), job[w].op \in {"sweep", "charge"}
    PROVE  /\ job'[w].op = job[w].op /\ job'[w].order = job[w].order /\ job'[w].step = s
           /\ job[w].op = "charge" => job'[w].trade = job[w].trade
           /\ \A v \in Worker \ {w} : job'[v] = job[v]
<1>1. job[w] \in Job
  BY DEF Inv, TypeOK
<1>2. job'[w] = [job[w] EXCEPT !.step = s] /\ \A v \in Worker \ {w} : job'[v] = job[v]
  BY DEF Goto, Inv, TypeOK
<1>3. CASE job[w].op = "sweep"
  BY <1>1, <1>2, <1>3 DEF Job, Idle
<1>4. CASE job[w].op = "charge"
  BY <1>1, <1>2, <1>4 DEF Job, Idle
<1> QED BY <1>3, <1>4

LEMMA AnswerFields ==
    ASSUME Inv, NEW w \in Worker, NEW a, job' = [job EXCEPT ![w].answer = a],
           job[w].op \in {"bill", "refund", "auto"}
    PROVE  /\ job'[w].op = job[w].op /\ job'[w].answer = a
           /\ job[w].op = "bill" => job'[w].trade = job[w].trade
           /\ job[w].op \in {"refund", "auto"} => job'[w].order = job[w].order
           /\ job[w].op = "refund" => job'[w].kind = job[w].kind
           /\ \A v \in Worker \ {w} : job'[v] = job[v]
<1>1. job[w] \in Job
  BY DEF Inv, TypeOK
<1>2. job'[w] = [job[w] EXCEPT !.answer = a] /\ \A v \in Worker \ {w} : job'[v] = job[v]
  BY DEF Inv, TypeOK
<1>3. CASE job[w].op = "bill"
  BY <1>1, <1>2, <1>3 DEF Job, Idle
<1>4. CASE job[w].op = "refund"
  BY <1>1, <1>2, <1>4 DEF Job, Idle
<1>5. CASE job[w].op = "auto"
  BY <1>1, <1>2, <1>5 DEF Job, Idle
<1> QED BY <1>3, <1>4, <1>5

-----------------------------------------------------------------------------
(***************************************************************************)
(* Why only a crash leaves something half done: an order that has expired  *)
(* and is not cancelled, a bill that is being settled and a refund that is *)
(* being made have a worker each, and as long as nothing fails it stays at *)
(* its work until that is done.                                            *)
(***************************************************************************)

Attended ==
    faults = 0 =>
        /\ \A o \in Order : ord[o].pay = "expired" /\ ord[o].live => \E w \in Worker : Cancelling(w, o)
        /\ \A t \in Trade : bill[t] = "processing" => \E w \in Worker : Settling(w, t)
        /\ \A o \in Order, k \in Kind : refund[o][k].status = "processing" => \E w \in Worker : Carrying(w, o, k)

\* What a step does not begin.
NoneExpires ==
    \A o \in Order : ord'[o].pay = "expired" /\ ord'[o].live => ord[o].pay = "expired" /\ ord[o].live
NoBillTaken == \A t \in Trade : bill'[t] = "processing" => bill[t] = "processing"
NoRefundTaken ==
    \A o \in Order, k \in Kind : refund'[o][k].status = "processing" => refund[o][k].status = "processing"

\* A worker does something: what it begins it attends to, and what it leaves is done.
LEMMA Attends ==
    ASSUME Attended, NEW w \in Worker, faults' = faults, \A v \in Worker \ {w} : job'[v] = job[v],
           \A o \in Order : ord'[o].pay = "expired" /\ ord'[o].live =>
               Cancelling(w, o)' \/ (ord[o].pay = "expired" /\ ord[o].live /\ ~Cancelling(w, o)),
           \A t \in Trade : bill'[t] = "processing" =>
               Settling(w, t)' \/ (bill[t] = "processing" /\ ~Settling(w, t)),
           \A o \in Order, k \in Kind : refund'[o][k].status = "processing" =>
               Carrying(w, o, k)' \/ (refund[o][k].status = "processing" /\ ~Carrying(w, o, k))
    PROVE  Attended'
<1>1. ASSUME faults = 0, NEW o \in Order, ord'[o].pay = "expired", ord'[o].live
      PROVE  \E v \in Worker : Cancelling(v, o)'
  BY <1>1 DEF Attended, Cancelling
<1>2. ASSUME faults = 0, NEW t \in Trade, bill'[t] = "processing"
      PROVE  \E v \in Worker : Settling(v, t)'
  BY <1>2 DEF Attended, Settling
<1>3. ASSUME faults = 0, NEW o \in Order, NEW k \in Kind, refund'[o][k].status = "processing"
      PROVE  \E v \in Worker : Carrying(v, o, k)'
  BY <1>3 DEF Attended, Carrying
<1> QED BY <1>1, <1>2, <1>3 DEF Attended

\* A worker that has none of the three in hand does something else.
LEMMA AttendsElse ==
    ASSUME Attended, NEW w \in Worker, faults' = faults, \A v \in Worker \ {w} : job'[v] = job[v],
           NoneExpires, NoBillTaken, NoRefundTaken,
           job[w].op \notin {"bill", "refund"}, ~(job[w].op = "sweep" /\ job[w].step = "cancel")
    PROVE  Attended'
<1>1. /\ \A o \in Order : ~Cancelling(w, o) /\ \A k \in Kind : ~Carrying(w, o, k)
      /\ \A t \in Trade : ~Settling(w, t)
  BY DEF Cancelling, Carrying, Settling
<1> QED BY <1>1, Attends DEF NoneExpires, NoBillTaken, NoRefundTaken

LEMMA OneExpires ==
    ASSUME Inv, NEW o \in Order, NEW r, ord' = [ord EXCEPT ![o] = r],
           r.pay = "expired" /\ r.live => ord[o].pay = "expired" /\ ord[o].live
    PROVE  NoneExpires
  BY DEF NoneExpires, Inv, TypeOK

LEMMA OneRefundTaken ==
    ASSUME Inv, NEW o \in Order, NEW k \in Kind, NEW r, refund' = [refund EXCEPT ![o][k] = r],
           r.status = "processing" => refund[o][k].status = "processing"
    PROVE  NoRefundTaken
  BY DEF NoRefundTaken, Inv, TypeOK

\* A cancellation leaves nothing of its order half done.
LEMMA CancelEnds ==
    ASSUME Inv, NEW o \in Order, SystemCancel(o)
    PROVE  NoneExpires /\ NoRefundTaken /\ ~ord'[o].live
<1>1. ord[o] \in OrderRow /\ "cancel" \in Kind
  BY DEF Inv, TypeOK, Kind
<1>2. CASE Cancel(o)
  <2>1. PICK r : r = [ord[o] EXCEPT !.live = FALSE, !.pay = PayAfterCancel(o), !.refunded = @ + Owed(o)]
    OBVIOUS
  <2>2. r.live = FALSE
    BY <1>1, <2>1 DEF OrderRow
  <2>3. ord' = [ord EXCEPT ![o] = r]
    BY <1>2, <2>1 DEF Cancel
  <2>4. PICK c : c = IF Owed(o) > 0 THEN CancelRow(o) ELSE refund[o]["cancel"]
    OBVIOUS
  <2>5. refund' = [refund EXCEPT ![o]["cancel"] = c]
    BY <1>2, <2>4 DEF Cancel
  <2>6. c.status = "processing" => refund[o]["cancel"].status = "processing"
    BY <2>4 DEF CancelRow
  <2>7. NoneExpires /\ NoRefundTaken
    BY <1>1, <2>2, <2>3, <2>5, <2>6, OneExpires, OneRefundTaken
  <2>8. ord'[o] = r
    BY <2>3 DEF Inv, TypeOK
  <2> QED BY <2>2, <2>7, <2>8
<1>3. CASE ~ord[o].live /\ UNCHANGED <<ord, refund>>
  BY <1>3 DEF NoneExpires, NoRefundTaken
<1> QED BY <1>2, <1>3 DEF SystemCancel

LEMMA MarkPaidEnds ==
    ASSUME Inv, NEW o \in Order, NEW t \in Trade, MarkPaid(o, t)
    PROVE  NoneExpires
<1>1. PICK r : r = [ord[o] EXCEPT !.pay = PayAfterPayment(o),
                                  !.by = IF PayAfterPayment(o) = ord[o].pay THEN @ ELSE t]
  OBVIOUS
<1>2. ord' = [ord EXCEPT ![o] = r]
  BY <1>1 DEF MarkPaid
<1>3. ord[o] \in OrderRow
  BY DEF Inv, TypeOK
<1>4. r.pay = PayAfterPayment(o) /\ r.live = ord[o].live
  BY <1>1, <1>3 DEF OrderRow
<1>5. r.pay # "expired"
  BY <1>4 DEF PayAfterPayment
<1> QED BY <1>2, <1>5, OneExpires

LEMMA SettledEnds ==
    ASSUME Inv, NEW os \in SUBSET Order, NEW t, ord' = Settled(os, t)
    PROVE  NoneExpires
<1>1. ASSUME NEW o \in Order, ord'[o].pay = "expired", ord'[o].live
      PROVE  ord[o].pay = "expired" /\ ord[o].live
  <2>1. ord[o] \in OrderRow
    BY DEF Inv, TypeOK
  <2>2. CASE o \in os
    <3>1. ord'[o] = [ord[o] EXCEPT !.pay = "settled", !.by = t]
      BY <2>2 DEF Settled
    <3>2. ord'[o].pay = "settled"
      BY <2>1, <3>1 DEF OrderRow
    <3> QED BY <1>1, <3>2
  <2>3. CASE o \notin os
    BY <1>1, <2>3 DEF Settled
  <2> QED BY <2>2, <2>3
<1> QED BY <1>1 DEF NoneExpires

LEMMA StatusTaken ==
    ASSUME Inv, NEW o \in Order, NEW k \in Kind, NEW s, refund' = [refund EXCEPT ![o][k].status = s],
           s # "processing"
    PROVE  NoRefundTaken
<1>1. refund[o][k] \in RefundRow
  BY DEF Inv, TypeOK
<1>2. refund'[o][k].status = s
  BY <1>1 DEF RefundRow, Inv, TypeOK
<1>3. \A p \in Order, m \in Kind : ~(p = o /\ m = k) => refund'[p][m] = refund[p][m]
  BY DEF Inv, TypeOK
<1> QED BY <1>2, <1>3 DEF NoRefundTaken

LEMMA StaffEnds ==
    ASSUME Inv, NEW o \in Order,
           \/ PlaceOnline(o) \/ PlaceAtTable(o) \/ DuePasses(o) \/ VoidUnpaid(o)
           \/ StaffCancel(o) \/ OnlineRefundDone(o)
           \/ \E n \in 1..Total : PartialRefund(o, n)
           \/ \E k \in Kind : MarkRefundDone(o, k)
    PROVE  NoneExpires /\ NoRefundTaken
<1>1. ord[o] \in OrderRow
  BY DEF Inv, TypeOK
<1>2. UNCHANGED refund => NoRefundTaken
  BY DEF NoRefundTaken
<1>3. CASE PlaceOnline(o) \/ PlaceAtTable(o)
  <2>1. PICK via, pay : ord' = [ord EXCEPT ![o] = Placed(via, pay)] /\ pay # "expired"
    BY <1>3 DEF PlaceOnline, PlaceAtTable
  <2>2. Placed(via, pay).pay = pay
    BY DEF Placed, NoOrder
  <2>3. NoneExpires
    BY <2>1, <2>2, OneExpires
  <2> QED BY <1>2, <1>3, <2>3 DEF PlaceOnline, PlaceAtTable
<1>4. CASE DuePasses(o)
  <2>1. PICK r : r = [ord[o] EXCEPT !.due = FALSE]
    OBVIOUS
  <2>2. ord' = [ord EXCEPT ![o] = r] /\ r.pay = ord[o].pay /\ r.live = ord[o].live
    BY <1>1, <1>4, <2>1 DEF DuePasses, OrderRow
  <2> QED BY <1>2, <1>4, <2>2, OneExpires DEF DuePasses
<1>5. CASE VoidUnpaid(o)
  <2>1. PICK r : r = [ord[o] EXCEPT !.total = @ - 1]
    OBVIOUS
  <2>2. ord' = [ord EXCEPT ![o] = r] /\ r.pay = ord[o].pay /\ r.live = ord[o].live
    BY <1>1, <1>5, <2>1 DEF VoidUnpaid, OrderRow
  <2> QED BY <1>2, <1>5, <2>2, OneExpires DEF VoidUnpaid
<1>6. CASE StaffCancel(o)
  <2>1. SystemCancel(o)
    BY <1>6 DEF StaffCancel, SystemCancel
  <2> QED BY <2>1, CancelEnds
<1>7. CASE OnlineRefundDone(o)
  <2>1. PICK r : r = [ord[o] EXCEPT !.pay = "refunded"]
    OBVIOUS
  <2>2. ord' = [ord EXCEPT ![o] = r] /\ r.pay = "refunded"
    BY <1>1, <1>7, <2>1 DEF OnlineRefundDone, OrderRow
  <2>3. NoneExpires
    BY <2>2, OneExpires
  <2>4. ASSUME NEW k \in Kind, refund' = [refund EXCEPT ![o][k].status = "done"] PROVE NoRefundTaken
    BY <2>4, StatusTaken
  <2> QED BY <1>2, <1>7, <2>3, <2>4 DEF OnlineRefundDone
<1>8. ASSUME NEW n \in 1..Total, PartialRefund(o, n) PROVE NoneExpires /\ NoRefundTaken
  <2>1. PICK r : r = [ord[o] EXCEPT !.refunded = @ + n]
    OBVIOUS
  <2>2. ord' = [ord EXCEPT ![o] = r] /\ r.pay = ord[o].pay /\ r.live = ord[o].live
    BY <1>1, <1>8, <2>1 DEF PartialRefund, OrderRow
  <2>3. PICK p : p = [amount |-> n, status |-> PartialStatus(o)]
    OBVIOUS
  <2>4. ord[o].via \in {"linepay", "ecpay", "table"} /\ AutoRefund \in BOOLEAN
    BY <1>1, <1>8, AmountAssumption DEF PartialRefund, IsPaid, Inv, OrdersSound, Sound, OrderRow, Channel
  <2>5. refund' = [refund EXCEPT ![o]["partial"] = p] /\ p.status # "processing" /\ "partial" \in Kind
    BY <1>8, <2>3, <2>4 DEF PartialRefund, PartialStatus, Kind
  <2> QED BY <2>2, <2>5, OneExpires, OneRefundTaken
<1>9. ASSUME NEW k \in Kind, MarkRefundDone(o, k) PROVE NoneExpires /\ NoRefundTaken
  <2>1. PICK p : p = IF ord[o].pay = "refund_required" THEN "refunded" ELSE ord[o].pay
    OBVIOUS
  <2>2. PICK r : r = [ord[o] EXCEPT !.pay = p]
    OBVIOUS
  <2>3. ord' = [ord EXCEPT ![o] = r] /\ r.pay = p /\ r.live = ord[o].live
    BY <1>1, <1>9, <2>1, <2>2 DEF MarkRefundDone, OrderRow
  <2>4. NoneExpires
    BY <2>1, <2>3, OneExpires
  <2> QED BY <1>9, <2>4, StatusTaken DEF MarkRefundDone
<1> QED BY <1>3, <1>4, <1>5, <1>6, <1>7, <1>8, <1>9

\* What customers, staff and the provider do expires no order and takes nothing up.
LEMMA RequestsEnd ==
    ASSUME Inv, Attended, Requests
    PROVE  Attended'
<1>1. UNCHANGED <<job, faults>>
  BY DEF Requests, PlaceOnline, PlaceAtTable, DuePasses, VoidUnpaid, StaffCancel, OnlineRefundDone,
         PartialRefund, MarkRefundDone, OpenPage, PaymentInfo, Notify, CustomerPays, StartBill, BillFails,
         BillAlready, CounterSettle
<1>2. NoBillTaken
  <2>1. ASSUME NEW t \in Trade, StartBill(t) \/ BillFails(t) PROVE NoBillTaken
    <3>1. PICK b \in {"pending", "failed"} : bill' = [bill EXCEPT ![t] = b]
      BY <2>1 DEF StartBill, BillFails
    <3> QED BY <3>1 DEF NoBillTaken, Inv, TypeOK
  <2>2. CASE UNCHANGED bill
    BY <2>2 DEF NoBillTaken
  <2> QED BY <2>1, <2>2
      DEF Requests, PlaceOnline, PlaceAtTable, DuePasses, VoidUnpaid, StaffCancel, OnlineRefundDone,
          PartialRefund, MarkRefundDone, OpenPage, PaymentInfo, Notify, CustomerPays, BillAlready, CounterSettle
<1>3. NoneExpires /\ NoRefundTaken
  <2>1. UNCHANGED refund => NoRefundTaken
    BY DEF NoRefundTaken
  <2>2. UNCHANGED ord => NoneExpires
    BY DEF NoneExpires
  <2>3. ASSUME NEW o \in Order, NEW t \in Trade, OpenPage(o, t) \/ PaymentInfo(o, t)
        PROVE  NoneExpires /\ NoRefundTaken
    <3>1. ord[o] \in OrderRow
      BY DEF Inv, TypeOK
    <3>3. CASE OpenPage(o, t)
      <4>1. PICK s : s = [ord[o] EXCEPT !.ref = t]
        OBVIOUS
      <4>2. ord' = [ord EXCEPT ![o] = s] /\ s.pay = ord[o].pay /\ s.live = ord[o].live
        BY <3>1, <3>3, <4>1 DEF OpenPage, OrderRow
      <4> QED BY <2>1, <3>3, <4>2, OneExpires DEF OpenPage
    <3>4. CASE PaymentInfo(o, t)
      <4>1. PICK s : s = [ord[o] EXCEPT !.due = TRUE]
        OBVIOUS
      <4>2. ord' = [ord EXCEPT ![o] = s] /\ s.pay = ord[o].pay /\ s.live = ord[o].live
        BY <3>1, <3>4, <4>1 DEF PaymentInfo, OrderRow
      <4> QED BY <2>1, <3>4, <4>2, OneExpires DEF PaymentInfo
    <3> QED BY <2>3, <3>3, <3>4
  <2>4. ASSUME NEW o \in Order, NEW t \in Trade, Notify(o, t) PROVE NoneExpires /\ NoRefundTaken
    BY <2>1, <2>4, MarkPaidEnds DEF Notify
  <2>5. ASSUME NEW os \in SUBSET Order, CounterSettle(os) PROVE NoneExpires /\ NoRefundTaken
    BY <2>1, <2>5, SettledEnds DEF CounterSettle
  <2>6. ASSUME NEW t \in Trade, CustomerPays(t) \/ StartBill(t) \/ BillFails(t) \/ BillAlready(t)
        PROVE  NoneExpires /\ NoRefundTaken
    BY <2>1, <2>2, <2>6 DEF CustomerPays, StartBill, BillFails, BillAlready
  <2> QED BY <2>3, <2>4, <2>5, <2>6, StaffEnds DEF Requests
<1> QED BY <1>1, <1>2, <1>3 DEF Attended, NoneExpires, NoBillTaken, NoRefundTaken, Cancelling, Settling, Carrying

LEMMA SweepEnd ==
    ASSUME Inv, Attended, NEW w \in Worker, Sweep(w)
    PROVE  Attended'
<1>1. faults' = faults /\ NoBillTaken
  BY DEF Sweep, SweepSelect, SweepPaid, SweepUnpaid, SweepUnknown, SweepExpire, SweepTooLate, SweepCancel, NoBillTaken
<1>2. job[w].op = "sweep" => job[w].order \in Order /\ job[w].ref \in Trade \cup {NoTrade}
  BY JobOf, JobFields
<1>3. UNCHANGED refund => NoRefundTaken
  BY DEF NoRefundTaken
<1>4. UNCHANGED ord => NoneExpires
  BY DEF NoneExpires
<1>5. ASSUME NEW o \in Order, SweepSelect(w, o) PROVE Attended'
  <2>1. job[w].op = "idle" /\ \A v \in Worker \ {w} : job'[v] = job[v]
    BY <1>5, StartFields DEF SweepSelect
  <2> QED BY <1>1, <1>3, <1>4, <1>5, <2>1, AttendsElse DEF SweepSelect
<1>6. CASE SweepPaid(w)
  <2>1. job[w].step = "ask" /\ \A v \in Worker \ {w} : job'[v] = job[v]
    BY <1>6, EndFields DEF SweepPaid
  <2>2. NoneExpires
    BY <1>2, <1>6, MarkPaidEnds DEF SweepPaid
  <2> QED BY <1>1, <1>3, <1>6, <2>1, <2>2, AttendsElse DEF SweepPaid
<1>7. CASE SweepUnpaid(w)
  <2>1. job[w].op = "sweep" /\ job[w].step = "ask" /\ \A v \in Worker \ {w} : job'[v] = job[v]
    BY <1>7, GotoFields DEF SweepUnpaid
  <2> QED BY <1>1, <1>3, <1>4, <1>7, <2>1, AttendsElse DEF SweepUnpaid
<1>8. CASE SweepUnknown(w) \/ SweepTooLate(w)
  <2>1. job[w].op = "sweep" /\ job[w].step # "cancel" /\ \A v \in Worker \ {w} : job'[v] = job[v]
    BY <1>8, EndFields DEF SweepUnknown, SweepTooLate
  <2> QED BY <1>1, <1>3, <1>4, <1>8, <2>1, AttendsElse DEF SweepUnknown, SweepTooLate
<1>9. CASE SweepExpire(w)
  <2>1. PICK o \in Order : o = job[w].order
    BY <1>2, <1>9 DEF SweepExpire
  <2>2. /\ job[w].op = "sweep" /\ job[w].step = "expire" /\ job'[w].op = "sweep" /\ job'[w].order = o
        /\ job'[w].step = "cancel" /\ \A v \in Worker \ {w} : job'[v] = job[v]
    BY <1>9, <2>1, GotoFields DEF SweepExpire
  <2>3. \A p \in Order \ {o} : ord'[p] = ord[p]
    BY <1>9, <2>1 DEF SweepExpire, Inv, TypeOK
  <2>4. \A p \in Order : p = o => Cancelling(w, p)'
    BY <2>2 DEF Cancelling
  <2>5. \A p \in Order : ~Cancelling(w, p)
    BY <2>2 DEF Cancelling
  <2>6. UNCHANGED <<bill, refund>> /\ \A t \in Trade : ~Settling(w, t)
    BY <1>9, <2>2 DEF SweepExpire, Settling
  <2>7. \A p \in Order, k \in Kind : ~Carrying(w, p, k)
    BY <2>2 DEF Carrying
  <2> QED BY <1>1, <2>2, <2>3, <2>4, <2>5, <2>6, <2>7, Attends
<1>10. CASE SweepCancel(w)
  <2>1. PICK o \in Order : o = job[w].order
    BY <1>2, <1>10 DEF SweepCancel
  <2>2. job[w].op = "sweep" /\ \A v \in Worker \ {w} : job'[v] = job[v]
    BY <1>10, EndFields DEF SweepCancel
  <2>3. NoneExpires /\ NoRefundTaken /\ ~ord'[o].live
    BY <1>10, <2>1, CancelEnds DEF SweepCancel
  <2>4. \A p \in Order : p # o => ~Cancelling(w, p)
    BY <2>1 DEF Cancelling
  <2>5. (\A t \in Trade : ~Settling(w, t)) /\ \A p \in Order, k \in Kind : ~Carrying(w, p, k)
    BY <2>2 DEF Settling, Carrying
  <2> QED BY <1>1, <2>2, <2>3, <2>4, <2>5, Attends DEF NoneExpires, NoRefundTaken, NoBillTaken
<1> QED BY <1>5, <1>6, <1>7, <1>8, <1>9, <1>10 DEF Sweep

LEMMA LinePayEnd ==
    ASSUME Inv, Attended, NEW w \in Worker, LinePay(w)
    PROVE  Attended'
<1>1. NoBillTaken
  BY DEF LinePay, PlaceLinePay, LinePaySucceeds, LinePayRefuses, LinePayBroken, LinePayUnknown, ChargeClaim,
         ChargeLost, ChargeReturned, ChargeStays, ChargeCancel, NoBillTaken
<1>2. job[w].op = "charge" => job[w].order \in Order /\ job[w].trade \in Trade
  BY JobOf, JobFields
<1>3. UNCHANGED refund => NoRefundTaken
  BY DEF NoRefundTaken
<1>4. UNCHANGED ord => NoneExpires
  BY DEF NoneExpires
<1>5. ASSUME faults' = faults, NoneExpires, NoRefundTaken, job[w].op \in {"idle", "charge"},
             \A v \in Worker \ {w} : job'[v] = job[v]
      PROVE  Attended'
  BY <1>1, <1>5, AttendsElse
<1>6. ASSUME NEW o \in Order, NEW t \in Trade, PlaceLinePay(w, o, t) PROVE Attended'
  <2>1. job[w].op = "idle" /\ \A v \in Worker \ {w} : job'[v] = job[v]
    BY <1>6, StartFields DEF PlaceLinePay
  <2>2. Placed("linepay", "authorizing").pay = "authorizing"
    BY DEF Placed, NoOrder
  <2>3. NoneExpires
    BY <1>6, <2>2, OneExpires DEF PlaceLinePay
  <2> QED BY <1>3, <1>5, <1>6, <2>1, <2>3 DEF PlaceLinePay
<1>7. CASE LinePayBroken(w)
  BY <1>7, AmountAssumption DEF LinePayBroken, Fault, Attended, Inv, TypeOK
<1>8. CASE LinePaySucceeds(w) \/ LinePayRefuses(w) \/ ChargeLost(w) \/ \E taken \in BOOLEAN : LinePayUnknown(w, taken)
  <2>1. job[w].op = "charge" /\ UNCHANGED <<ord, refund, faults>> /\ \A v \in Worker \ {w} : job'[v] = job[v]
    BY <1>8, GotoFields DEF LinePaySucceeds, LinePayRefuses, ChargeLost, LinePayUnknown, Charging
  <2> QED BY <1>3, <1>4, <1>5, <2>1
<1>9. CASE ChargeReturned(w)
  <2>1. job[w].op = "charge" /\ UNCHANGED <<ord, refund, faults>> /\ \A v \in Worker \ {w} : job'[v] = job[v]
    BY <1>9, GotoFields, EndFields DEF ChargeReturned, Charging
  <2> QED BY <1>3, <1>4, <1>5, <2>1
<1>10. CASE ChargeClaim(w)
  <2>1. job[w].op = "charge" /\ UNCHANGED <<refund, faults>> /\ \A v \in Worker \ {w} : job'[v] = job[v]
    BY <1>10, EndFields DEF ChargeClaim, Charging
  <2>2. PICK o \in Order : o = job[w].order
    BY <1>2, <2>1
  <2>3. PICK r : r = [ord[o] EXCEPT !.pay = "at_once", !.by = job[w].trade]
    OBVIOUS
  <2>4. ord' = [ord EXCEPT ![o] = r] /\ r.pay = "at_once"
    BY <1>10, <2>2, <2>3 DEF ChargeClaim, Inv, TypeOK, OrderRow
  <2>5. NoneExpires
    BY <2>4, OneExpires
  <2> QED BY <1>3, <1>5, <2>1, <2>5
<1>11. CASE ChargeStays(w)
  <2>1. job[w].op = "charge" /\ UNCHANGED <<refund, faults>> /\ \A v \in Worker \ {w} : job'[v] = job[v]
    BY <1>11, EndFields DEF ChargeStays, Charging
  <2>2. PICK o \in Order : o = job[w].order
    BY <1>2, <2>1
  <2>3. PICK r : r = [ord[o] EXCEPT !.alert = TRUE]
    OBVIOUS
  <2>4. ord' = [ord EXCEPT ![o] = r] /\ r.pay = ord[o].pay /\ r.live = ord[o].live
    BY <1>11, <2>2, <2>3 DEF ChargeStays, Inv, TypeOK, OrderRow
  <2>5. NoneExpires
    BY <2>4, OneExpires
  <2> QED BY <1>3, <1>5, <2>1, <2>5
<1>12. CASE ChargeCancel(w)
  <2>1. job[w].op = "charge" /\ UNCHANGED faults /\ \A v \in Worker \ {w} : job'[v] = job[v]
    BY <1>12, EndFields DEF ChargeCancel, Charging
  <2>2. NoneExpires /\ NoRefundTaken
    BY <1>2, <1>12, <2>1, CancelEnds DEF ChargeCancel
  <2> QED BY <1>5, <2>1, <2>2
<1> QED BY <1>6, <1>7, <1>8, <1>9, <1>10, <1>11, <1>12 DEF LinePay

LEMMA TablePayEnd ==
    ASSUME Inv, Attended, NEW w \in Worker, TablePay(w)
    PROVE  Attended'
<1>1. faults' = faults /\ UNCHANGED refund
  BY DEF TablePay, BillClaim, BillSettle, BillRefused, BillWrite
<1>2. job[w].op = "bill" => job[w].trade \in Trade /\ trade[job[w].trade].orders \in SUBSET Order
  BY JobOf, JobFields DEF Inv, TypeOK, TradeRow
<1>3. job[w].op \in {"idle", "bill"} => /\ \A o \in Order : ~Cancelling(w, o)
                                        /\ \A o \in Order, k \in Kind : ~Carrying(w, o, k)
  BY DEF Cancelling, Carrying
<1>4. ASSUME NEW t \in Trade, BillClaim(w, t) PROVE Attended'
  <2> DEFINE j == [op |-> "bill", trade |-> t, answer |-> "none"]
  <2>1. Start(w, j) /\ j.op = "bill" /\ j.trade = t
    BY <1>4 DEF BillClaim
  <2> HIDE DEF j
  <2>2. job[w].op = "idle" /\ job'[w] = j /\ \A v \in Worker \ {w} : job'[v] = job[v]
    BY <2>1, StartFields
  <2>3. \A u \in Trade : u = t => Settling(w, u)'
    BY <2>1, <2>2 DEF Settling
  <2>4. \A u \in Trade : u # t => bill'[u] = bill[u]
    BY <1>4 DEF BillClaim, Inv, TypeOK
  <2>5. \A u \in Trade : ~Settling(w, u)
    BY <2>2 DEF Settling
  <2>6. UNCHANGED ord
    BY <1>4 DEF BillClaim
  <2> QED BY <1>1, <1>3, <2>2, <2>3, <2>4, <2>5, <2>6, Attends
<1>5. CASE BillSettle(w) \/ BillRefused(w)
  <2>1. PICK a : job' = [job EXCEPT ![w].answer = a]
    BY <1>5 DEF BillSettle, BillRefused
  <2>2. /\ job[w].op = "bill" /\ job'[w].op = "bill" /\ job'[w].trade = job[w].trade
        /\ \A v \in Worker \ {w} : job'[v] = job[v]
    BY <1>5, <2>1, AnswerFields DEF BillSettle, BillRefused
  <2>3. NoneExpires
    <3>1. CASE BillSettle(w)
      BY <1>2, <2>2, <3>1, SettledEnds DEF BillSettle
    <3>2. CASE BillRefused(w)
      BY <3>2 DEF BillRefused, NoneExpires
    <3> QED BY <1>5, <3>1, <3>2
  <2>4. UNCHANGED bill /\ \A t \in Trade : Settling(w, t) => Settling(w, t)'
    BY <1>5, <2>2 DEF BillSettle, BillRefused, Settling
  <2> QED BY <1>1, <1>3, <2>2, <2>3, <2>4, Attends DEF NoneExpires
<1>6. CASE BillWrite(w)
  <2>1. PICK t \in Trade : t = job[w].trade
    BY <1>2, <1>6 DEF BillWrite
  <2>2. job[w].op = "bill" /\ \A v \in Worker \ {w} : job'[v] = job[v]
    BY <1>6, EndFields DEF BillWrite
  <2>3. bill'[t] # "processing" /\ \A u \in Trade : u # t => bill'[u] = bill[u] /\ ~Settling(w, u)
    BY <1>6, <2>1 DEF BillWrite, Settling, Inv, TypeOK
  <2>4. UNCHANGED ord
    BY <1>6 DEF BillWrite
  <2> QED BY <1>1, <1>3, <2>2, <2>3, <2>4, Attends
<1> QED BY <1>4, <1>5, <1>6 DEF TablePay

LEMMA RefundingEnd ==
    ASSUME Inv, Attended, NEW w \in Worker, Refunding(w)
    PROVE  Attended'
<1>1. UNCHANGED bill
  BY DEF Refunding, RefundClaim, AutoStart, ProviderReturns, ProviderRefuses, ProviderAnswerLost, RefundWrite,
         AutoWrite, AutoFailed
<1>2. job[w].op \in {"refund", "auto"} => job[w].order \in Order
  BY JobOf, JobFields
<1>3. job[w].op \in {"idle", "refund", "auto"} => /\ \A o \in Order : ~Cancelling(w, o)
                                                  /\ \A t \in Trade : ~Settling(w, t)
  BY DEF Cancelling, Settling
<1>4. job[w].op \in {"idle", "auto"} => \A o \in Order, k \in Kind : ~Carrying(w, o, k)
  BY DEF Carrying
<1>5. ASSUME NEW o \in Order, NEW k \in Kind, RefundClaim(w, o, k) PROVE Attended'
  <2> DEFINE j == [op |-> "refund", order |-> o, kind |-> k, answer |-> "none"]
  <2>1. Start(w, j) /\ j.op = "refund" /\ j.order = o /\ j.kind = k
    BY <1>5 DEF RefundClaim
  <2> HIDE DEF j
  <2>2. job[w].op = "idle" /\ job'[w] = j /\ \A v \in Worker \ {w} : job'[v] = job[v]
    BY <2>1, StartFields
  <2>3. \A p \in Order, m \in Kind : p = o /\ m = k => Carrying(w, p, m)'
    BY <2>1, <2>2 DEF Carrying
  <2>4. \A p \in Order, m \in Kind : ~(p = o /\ m = k) => refund'[p][m] = refund[p][m]
    BY <1>5 DEF RefundClaim, Inv, TypeOK
  <2>5. UNCHANGED <<ord, faults>>
    BY <1>5 DEF RefundClaim
  <2> QED BY <1>1, <1>3, <1>4, <2>2, <2>3, <2>4, <2>5, Attends
<1>6. ASSUME NEW o \in Order, AutoStart(w, o) PROVE Attended'
  <2>1. job[w].op = "idle" /\ \A v \in Worker \ {w} : job'[v] = job[v]
    BY <1>6, StartFields DEF AutoStart
  <2>2. UNCHANGED <<ord, refund, faults>>
    BY <1>6 DEF AutoStart
  <2> QED BY <1>1, <1>3, <1>4, <2>1, <2>2, Attends
<1>7. CASE ProviderAnswerLost(w)
  BY <1>7, AmountAssumption DEF ProviderAnswerLost, Fault, Attended, Inv, TypeOK
<1>8. CASE ProviderReturns(w) \/ ProviderRefuses(w)
  <2>1. PICK a : job' = [job EXCEPT ![w].answer = a]
    BY <1>8 DEF ProviderReturns, ProviderRefuses
  <2>2. job[w].op \in {"refund", "auto"} /\ UNCHANGED <<ord, refund, faults>>
    BY <1>8 DEF ProviderReturns, ProviderRefuses, Asking
  <2>3. /\ job'[w].op = job[w].op /\ (job[w].op = "refund" => job'[w].order = job[w].order /\ job'[w].kind = job[w].kind)
        /\ \A v \in Worker \ {w} : job'[v] = job[v]
    BY <2>1, <2>2, AnswerFields
  <2>4. \A o \in Order, k \in Kind : Carrying(w, o, k) => Carrying(w, o, k)'
    BY <2>3 DEF Carrying
  <2> QED BY <1>1, <1>3, <2>2, <2>3, <2>4, Attends
<1>9. CASE RefundWrite(w)
  <2>1. PICK o \in Order, k \in Kind : o = job[w].order /\ k = job[w].kind
    BY <1>9, JobOf, JobFields DEF RefundWrite
  <2>2. PICK s \in {"done", "failed"} : refund' = [refund EXCEPT ![o][k].status = s]
    BY <1>9, <2>1 DEF RefundWrite
  <2>3. NoRefundTaken /\ refund'[o][k].status = s
    <3>1. s # "processing" /\ refund[o][k] \in RefundRow
      BY DEF Inv, TypeOK
    <3>2. refund'[o][k] = [refund[o][k] EXCEPT !.status = s]
      BY <2>2 DEF Inv, TypeOK
    <3> QED BY <2>2, <3>1, <3>2, StatusTaken DEF RefundRow
  <2>4. \A p \in Order, m \in Kind : ~(p = o /\ m = k) => ~Carrying(w, p, m)
    BY <2>1 DEF Carrying
  <2>5. job[w].op = "refund" /\ UNCHANGED <<ord, faults>> /\ \A v \in Worker \ {w} : job'[v] = job[v]
    BY <1>9, EndFields DEF RefundWrite
  <2> QED BY <1>1, <1>3, <2>3, <2>4, <2>5, Attends DEF NoRefundTaken
<1>10. CASE AutoWrite(w)
  <2>1. PICK o \in Order : o = job[w].order
    BY <1>2, <1>10 DEF AutoWrite
  <2>2. PICK r : r = [ord[o] EXCEPT !.pay = "refunded"]
    OBVIOUS
  <2>3. ord' = [ord EXCEPT ![o] = r] /\ r.pay = "refunded"
    BY <1>10, <2>1, <2>2 DEF AutoWrite, Inv, TypeOK, OrderRow
  <2>4. NoneExpires
    BY <2>3, OneExpires
  <2>5. NoRefundTaken
    BY <1>10, <2>1 DEF AutoWrite, NoRefundTaken, Done, Inv, TypeOK, RefundRow
  <2>6. job[w].op = "auto" /\ UNCHANGED faults /\ \A v \in Worker \ {w} : job'[v] = job[v]
    BY <1>10, EndFields DEF AutoWrite
  <2> QED BY <1>1, <1>3, <1>4, <2>4, <2>5, <2>6, Attends DEF NoneExpires, NoRefundTaken
<1>11. CASE AutoFailed(w)
  <2>1. PICK o \in Order : o = job[w].order
    BY <1>2, <1>11 DEF AutoFailed
  <2>2. PICK r : r = [ord[o] EXCEPT !.alert = TRUE]
    OBVIOUS
  <2>3. ord' = [ord EXCEPT ![o] = r] /\ r.pay = ord[o].pay /\ r.live = ord[o].live
    BY <1>11, <2>1, <2>2 DEF AutoFailed, Inv, TypeOK, OrderRow
  <2>4. NoneExpires
    BY <2>3, OneExpires
  <2>5. job[w].op = "auto" /\ UNCHANGED <<refund, faults>> /\ \A v \in Worker \ {w} : job'[v] = job[v]
    BY <1>11, EndFields DEF AutoFailed
  <2> QED BY <1>1, <1>3, <1>4, <2>4, <2>5, Attends DEF NoneExpires
<1> QED BY <1>5, <1>6, <1>7, <1>8, <1>9, <1>10, <1>11 DEF Refunding

\* Unless something fails, what is half done has a worker that goes on with it.
THEOREM SomebodyAttends == Spec => [](Inv /\ Attended)
<1>1. Init => Inv /\ Attended
  <2>1. Init => Attended
    BY DEF Init, Attended, NoOrder, NoRefund
  <2> QED BY <2>1, InitInv
<1>2. Inv /\ Attended /\ [Next]_vars => (Inv /\ Attended)'
  <2> SUFFICES ASSUME Inv, Attended, [Next]_vars PROVE Attended'
    BY NextInv DEF Keeps
  <2>1. CASE UNCHANGED vars
    BY <2>1 DEF vars, Attended, Cancelling, Settling, Carrying
  <2>2. ASSUME NEW w \in Worker, Crash(w) PROVE Attended'
    BY <2>2, AmountAssumption DEF Crash, Fault, Attended, Inv, TypeOK
  <2> QED BY <2>1, <2>2, RequestsEnd, SweepEnd, LinePayEnd, TablePayEnd, RefundingEnd DEF Next
<1> QED BY <1>1, <1>2, PTL DEF Spec

\* A cancelled order keeps no money, whatever was paid or refunded before, at the
\* same time or after, and an expired one is cancelled unless a process dies
\* (order_lifecycle._rollback_cancelled_order, charge_linepay, expire_unpaid_orders).
THEOREM NothingKept == Spec => []CancelledKeepsNothing
<1>1. ASSUME Inv, Attended PROVE CancelledKeepsNothing
  <2>1. \A o \in Order : ord[o].via # "none" /\ ~ord[o].live =>
            /\ ord[o].pay \notin {"paid", "settled"}
            /\ ord[o].pay = "at_once" => ord[o].refunded = ord[o].total
    BY <1>1 DEF Inv, OrdersSound, Sound
  <2>2. faults = 0 \/ faults > 0
    BY <1>1, AmountAssumption DEF Inv, TypeOK
  <2> QED BY <1>1, <2>1, <2>2 DEF Attended, CancelledKeepsNothing
<1> QED BY <1>1, SomebodyAttends, PTL

-----------------------------------------------------------------------------
\* The payments of the orders.

OfCharge(w, t) == job[w].op = "charge" /\ job[w].trade = t

\* The worker settles the orders of the bill in this step.
BillAnswered(w, t) ==
    /\ Settling(w, t) /\ job[w].answer = "none"
    /\ job'[w].op = "bill" /\ job'[w].trade = t /\ job'[w].answer = "ok"

\* An order's payment is written by a notification, the browser or the sweep with
\* a trade number of the order's own, by the charge of LINE Pay that ends with it,
\* or by the settlement of a bill that the order is on.
ByGoes(o) ==
    LET t == ord'[o].by
    IN  \/ t \in {ord[o].by, NoTrade}
        \/ /\ t \in Trade /\ o \in trade[t].orders
           /\ ord[o].via # "table" => trade[t].orders = {o}
           /\ ord[o].via = "linepay" =>
                \E w \in Worker : OfCharge(w, t) /\ job[w].step = "claim" /\ job'[w].op # "charge"
           /\ ord[o].via = "table" => \E w \in Worker : BillAnswered(w, t)

BysGo == \A o \in Order : ByGoes(o)

LEMMA SameBys ==
    ASSUME UNCHANGED ord
    PROVE  BysGo
  BY DEF BysGo, ByGoes

LEMMA OneByGoes ==
    ASSUME Inv, NEW o \in Order, NEW r, ord' = [ord EXCEPT ![o] = r],
           r.by \in {ord[o].by, NoTrade} \/ ByGoes(o)
    PROVE  BysGo
<1>1. ord'[o] = r /\ \A p \in Order \ {o} : ord'[p] = ord[p]
  BY DEF Inv, TypeOK
<1> QED BY <1>1 DEF BysGo, ByGoes

\* Where nothing is said of the payment.
LEMMA OtherFields ==
    ASSUME NEW r \in OrderRow
    PROVE  /\ \A t : [r EXCEPT !.ref = t].by = r.by
           /\ \A b : [r EXCEPT !.due = b].by = r.by /\ [r EXCEPT !.alert = b].by = r.by
           /\ \A n : [r EXCEPT !.total = n].by = r.by /\ [r EXCEPT !.refunded = n].by = r.by
           /\ \A p : [r EXCEPT !.pay = p].by = r.by
           /\ \A b, p, n : [r EXCEPT !.live = b, !.pay = p, !.refunded = n].by = r.by
  BY DEF OrderRow

LEMMA MarkPaidBy ==
    ASSUME Inv, NEW o \in Order, NEW t \in Trade, ord[o].via = "ecpay", trade[t].orders = {o}, MarkPaid(o, t)
    PROVE  BysGo
<1> DEFINE p == PayAfterPayment(o)
           b == IF p = ord[o].pay THEN ord[o].by ELSE t
           r == [ord[o] EXCEPT !.pay = p, !.by = b]
<1>1. ord[o] \in OrderRow
  BY DEF Inv, TypeOK
<1>2. p \in PayStatus \cup {"none"} /\ b \in Trade \cup {NoTrade}
  BY <1>1 DEF PayAfterPayment, OrderRow, PayStatus
<1>3. r.by = b
  <2> HIDE DEF p, b
  <2>1. HasPayment(r, ord[o], p, b)
    BY <1>1, <1>2, PaidRow, Zenon
  <2> QED BY <2>1, Zenon DEF HasPayment
<1>4. ord' = [ord EXCEPT ![o] = r] /\ ord'[o] = r
  BY DEF MarkPaid, Inv, TypeOK
<1>5. b \in {ord[o].by, t}
  OBVIOUS
<1> HIDE DEF r, b
<1>6. r.by \in {ord[o].by, NoTrade} \/ ByGoes(o)
  BY <1>3, <1>4, <1>5 DEF ByGoes
<1> QED BY <1>4, <1>6, OneByGoes

LEMMA CancelBy ==
    ASSUME Inv, NEW o \in Order, SystemCancel(o)
    PROVE  BysGo
<1>1. CASE Cancel(o)
  <2>1. PICK p, n : ord' = [ord EXCEPT ![o] = [ord[o] EXCEPT !.live = FALSE, !.pay = p, !.refunded = n]]
    BY <1>1 DEF Cancel, Inv, TypeOK
  <2>2. [ord[o] EXCEPT !.live = FALSE, !.pay = p, !.refunded = n].by = ord[o].by
    BY OtherFields DEF Inv, TypeOK
  <2> QED BY <2>1, <2>2, OneByGoes
<1> QED BY <1>1, SameBys DEF SystemCancel

LEMMA SettledBys ==
    ASSUME Inv, NEW os \in SUBSET Order, NEW t \in Trade \cup {NoTrade}, ord' = Settled(os, t),
           t \in Trade => os = trade[t].orders /\ \A o \in os : ord[o].via = "table",
           t \in Trade => \E w \in Worker : BillAnswered(w, t)
    PROVE  BysGo
<1> SUFFICES ASSUME NEW o \in Order PROVE ByGoes(o)
  BY DEF BysGo
<1>1. CASE o \in os
  <2>1. ord'[o] = [ord[o] EXCEPT !.pay = "settled", !.by = t] /\ ord[o] \in OrderRow
    BY <1>1 DEF Settled, Inv, TypeOK
  <2>2. ord'[o].by = t
    BY <2>1 DEF OrderRow
  <2> QED BY <1>1, <2>2, NoTradeAssumption DEF ByGoes
<1>2. CASE o \notin os
  BY <1>2 DEF Settled, ByGoes
<1> QED BY <1>1, <1>2

LEMMA RequestsBys ==
    ASSUME Inv, Requests
    PROVE  BysGo
<1>1. \A o \in Order : ord[o] \in OrderRow
  BY DEF Inv, TypeOK
<1>2. ASSUME NEW o \in Order, PlaceOnline(o) \/ PlaceAtTable(o) PROVE BysGo
  <2>1. PICK v \in Channel, p \in PayStatus : ord' = [ord EXCEPT ![o] = Placed(v, p)]
    BY <1>2 DEF PlaceOnline, PlaceAtTable, Channel, PayStatus
  <2>2. Placed(v, p).by = NoTrade
    BY PlacedRow, Zenon
  <2> QED BY <2>1, <2>2, OneByGoes
<1>3. ASSUME NEW o \in Order, NEW r, ord' = [ord EXCEPT ![o] = r], r.by = ord[o].by PROVE BysGo
  BY <1>3, OneByGoes
<1>4. ASSUME NEW o \in Order, DuePasses(o) \/ \E t \in Trade : PaymentInfo(o, t) PROVE BysGo
  <2>1. PICK b : ord' = [ord EXCEPT ![o] = [ord[o] EXCEPT !.due = b]]
    BY <1>4 DEF DuePasses, PaymentInfo, Inv, TypeOK
  <2> QED BY <1>1, <1>3, <2>1, OtherFields
<1>5. ASSUME NEW o \in Order, VoidUnpaid(o) \/ \E n \in 1..Total : PartialRefund(o, n) PROVE BysGo
  <2>1. PICK n : \/ ord' = [ord EXCEPT ![o] = [ord[o] EXCEPT !.total = n]]
                 \/ ord' = [ord EXCEPT ![o] = [ord[o] EXCEPT !.refunded = n]]
    BY <1>5 DEF VoidUnpaid, PartialRefund, Inv, TypeOK
  <2> QED BY <1>1, <1>3, <2>1, OtherFields
<1>6. ASSUME NEW o \in Order, StaffCancel(o) PROVE BysGo
  BY <1>6, CancelBy DEF StaffCancel, SystemCancel
<1>7. ASSUME NEW o \in Order, OnlineRefundDone(o) \/ \E k \in Kind : MarkRefundDone(o, k) PROVE BysGo
  <2>1. PICK p : ord' = [ord EXCEPT ![o] = [ord[o] EXCEPT !.pay = p]]
    BY <1>7 DEF OnlineRefundDone, MarkRefundDone, Inv, TypeOK
  <2> QED BY <1>1, <1>3, <2>1, OtherFields
<1>8. ASSUME NEW o \in Order, NEW t \in Trade, OpenPage(o, t) PROVE BysGo
  <2>1. ord' = [ord EXCEPT ![o] = [ord[o] EXCEPT !.ref = t]]
    BY <1>8 DEF OpenPage, Inv, TypeOK
  <2> QED BY <1>1, <1>3, <2>1, OtherFields
<1>9. ASSUME NEW o \in Order, NEW t \in Trade, Notify(o, t) PROVE BysGo
  BY <1>9, MarkPaidBy DEF Notify
<1>10. ASSUME NEW t \in Trade, CustomerPays(t) \/ StartBill(t) \/ BillFails(t) \/ BillAlready(t) PROVE BysGo
  BY <1>10, SameBys DEF CustomerPays, StartBill, BillFails, BillAlready
<1>11. ASSUME NEW os \in SUBSET Order, CounterSettle(os) PROVE BysGo
  BY <1>11, SettledBys, NoTradeAssumption DEF CounterSettle
<1> QED BY <1>2, <1>4, <1>5, <1>6, <1>7, <1>8, <1>9, <1>10, <1>11 DEF Requests

LEMMA WorkerBys ==
    ASSUME Inv, NEW w \in Worker, Sweep(w) \/ LinePay(w) \/ TablePay(w) \/ Refunding(w) \/ Crash(w)
    PROVE  BysGo
<1> DEFINE o == job[w].order
           t == job[w].trade
<1>1. job[w] \in Job /\ JobOK(job[w])
  BY JobOf
<1>2. /\ job[w].op = "sweep" => /\ o \in Order /\ ord[o].via = "ecpay"
                                /\ job[w].ref # NoTrade => job[w].ref \in Trade /\ trade[job[w].ref].orders = {o}
      /\ job[w].op = "charge" => o \in Order /\ t \in Trade /\ ord[o].via = "linepay" /\ trade[t].orders = {o}
      /\ job[w].op = "auto" => o \in Order
      /\ job[w].op = "bill" => t \in Trade /\ bill[t] # "none"
  BY <1>1, JobFields DEF JobOK
<1>3. ASSUME UNCHANGED ord PROVE BysGo
  BY <1>3, SameBys
<1>4. \A p \in Order : ord[p] \in OrderRow
  BY DEF Inv, TypeOK
<1>5. CASE Sweep(w)
  <2>1. CASE SweepPaid(w)
    BY <1>2, <2>1, MarkPaidBy DEF SweepPaid
  <2>2. CASE SweepExpire(w)
    <3>1. o \in Order /\ ord' = [ord EXCEPT ![o] = [ord[o] EXCEPT !.pay = "expired"]]
      BY <1>2, <2>2 DEF SweepExpire, Inv, TypeOK
    <3> QED BY <1>4, <3>1, OneByGoes, OtherFields
  <2>3. CASE SweepCancel(w)
    BY <1>2, <2>3, CancelBy DEF SweepCancel
  <2> QED BY <1>3, <1>5, <2>1, <2>2, <2>3 DEF Sweep, SweepSelect, SweepUnpaid, SweepUnknown, SweepTooLate
<1>6. CASE LinePay(w)
  <2>1. ASSUME NEW p \in Order, NEW u \in Trade, PlaceLinePay(w, p, u) PROVE BysGo
    <3>1. ord' = [ord EXCEPT ![p] = Placed("linepay", "authorizing")]
          /\ "linepay" \in Channel /\ "authorizing" \in PayStatus
      BY <2>1 DEF PlaceLinePay, Channel, PayStatus
    <3>2. Placed("linepay", "authorizing").by = NoTrade
      BY <3>1, PlacedRow, Zenon
    <3> QED BY <3>1, <3>2, OneByGoes
  <2>2. CASE ChargeClaim(w)
    <3>1. /\ o \in Order /\ t \in Trade /\ ord[o].via = "linepay" /\ trade[t].orders = {o}
          /\ OfCharge(w, t) /\ job[w].step = "claim" /\ job'[w].op # "charge"
      BY <1>2, <2>2, EndFields DEF ChargeClaim, Charging, OfCharge
    <3>2. ord' = [ord EXCEPT ![o] = [ord[o] EXCEPT !.pay = "at_once", !.by = t]]
      BY <2>2, <3>1 DEF ChargeClaim, Inv, TypeOK
    <3>3. ord'[o].by = t
      BY <1>4, <3>1, <3>2 DEF OrderRow, Inv, TypeOK
    <3>4. ByGoes(o)
      BY <3>1, <3>3 DEF ByGoes
    <3> QED BY <3>1, <3>2, <3>4, OneByGoes
  <2>3. CASE ChargeStays(w)
    <3>1. o \in Order /\ ord' = [ord EXCEPT ![o] = [ord[o] EXCEPT !.alert = TRUE]]
      BY <1>2, <2>3 DEF ChargeStays, Charging, Inv, TypeOK
    <3> QED BY <1>4, <3>1, OneByGoes, OtherFields
  <2>4. CASE ChargeCancel(w)
    BY <1>2, <2>4, CancelBy DEF ChargeCancel, Charging
  <2> QED BY <1>3, <1>6, <2>1, <2>2, <2>3, <2>4
          DEF LinePay, LinePaySucceeds, LinePayRefuses, LinePayBroken, LinePayUnknown, ChargeLost,
              ChargeReturned
<1>7. CASE TablePay(w)
  <2>1. CASE BillSettle(w)
    <3>1. /\ t \in Trade /\ trade[t].orders \in SUBSET Order
          /\ \A p \in trade[t].orders : ord[p].via = "table"
      BY <1>2, <2>1 DEF BillSettle, Settling, Inv, TypeOK, TradeRow, TradeOK
    <3>2. BillAnswered(w, t)
      BY <2>1, AnswerFields DEF BillSettle, Settling, BillAnswered
    <3> QED BY <2>1, <3>1, <3>2, SettledBys DEF BillSettle
  <2> QED BY <1>3, <1>7, <2>1 DEF TablePay, BillClaim, BillRefused, BillWrite
<1>8. CASE Refunding(w)
  <2>1. CASE AutoFailed(w)
    <3>1. o \in Order /\ ord' = [ord EXCEPT ![o] = [ord[o] EXCEPT !.alert = TRUE]]
      BY <1>2, <2>1 DEF AutoFailed, Inv, TypeOK
    <3> QED BY <1>4, <3>1, OneByGoes, OtherFields
  <2>2. CASE AutoWrite(w)
    <3>1. o \in Order /\ ord' = [ord EXCEPT ![o] = [ord[o] EXCEPT !.pay = "refunded"]]
      BY <1>2, <2>2 DEF AutoWrite, Inv, TypeOK
    <3> QED BY <1>4, <3>1, OneByGoes, OtherFields
  <2> QED BY <1>3, <1>8, <2>1, <2>2
          DEF Refunding, RefundClaim, AutoStart, ProviderReturns, ProviderRefuses, ProviderAnswerLost,
              RefundWrite
<1>9. CASE Crash(w)
  BY <1>3, <1>9 DEF Crash
<1> QED BY <1>5, <1>6, <1>7, <1>8, <1>9

LEMMA NextBys ==
    ASSUME Inv, [Next]_vars
    PROVE  BysGo
<1>1. CASE UNCHANGED vars
  BY <1>1, SameBys DEF vars
<1> QED BY <1>1, RequestsBys, WorkerBys DEF Next

-----------------------------------------------------------------------------
\* The provider's side of the trade numbers.

\* The orders of a trade number are paid the same way; only a bill has many.
Shape(t) ==
    /\ \A o, p \in trade[t].orders : ord[o].via = ord[p].via
    /\ \A o \in trade[t].orders : ord[o].via # "table" => trade[t].orders = {o}

SameOrders(t) == trade'[t].orders = trade[t].orders /\ trade'[t].amount = trade[t].amount
SameBack(t) == SameOrders(t) /\ trade'[t].back = trade[t].back
SameCharge(t) == SameOrders(t) /\ trade'[t].charged = trade[t].charged

SideStarts(t) == Unused(t) /\ trade'[t].back = 0 /\ ~trade'[t].charged /\ Shape(t)'

SidePaid(t) == SameBack(t) /\ \E o \in trade[t].orders : ord[o].via # "linepay"

SideCharged(t) ==
    /\ SameBack(t)
    /\ \E w \in Worker : /\ OfCharge(w, t) /\ job[w].step = "pay"
                         /\ job'[w].op = "charge" /\ job'[w].trade = t /\ job'[w].step # "pay"

SideUndone(t) ==
    /\ SameCharge(t) /\ trade'[t].back = trade[t].amount
    /\ \E w \in Worker : /\ OfCharge(w, t) /\ job[w].step \in {"giveback", "undo"}
                         /\ job'[w].op = "charge" => job'[w].step = "cancel"

\* Why something of an order's payment is returned: it is owed, a refund of the
\* order is marked done, or the provider carries one out; or a fault.
Returned(o) ==
    LET t == ord[o].by
    IN  \/ ord[o].pay \in GoesBack \/ faults' > 0
        \/ \E k \in Kind : /\ refund[o][k].status \in {"manual", "failed"} /\ refund'[o][k].status = "done"
                           /\ trade'[t].back <= trade[t].back + refund[o][k].amount
        \/ \E w \in Worker, k \in Kind :
              /\ Carrying(w, o, k) /\ job[w].answer = "none" /\ Carrying(w, o, k)' /\ job'[w].answer = "ok"
              /\ trade'[t].back <= trade[t].back + refund[o][k].amount

SideReturns(t) ==
    /\ SameCharge(t) /\ trade[t].back <= trade'[t].back /\ trade'[t].back <= trade[t].amount
    /\ \E o \in Order : ord[o].by = t /\ Returned(o)

SideGoes(t) ==
    \/ SameBack(t) /\ SameCharge(t)
    \/ SideStarts(t) \/ SidePaid(t) \/ SideCharged(t) \/ SideUndone(t) \/ SideReturns(t)

SidesGo == \A t \in Trade : SideGoes(t)

BackBounded == \A t \in Trade : trade[t].back <= trade[t].amount

LEMMA SameSides ==
    ASSUME UNCHANGED trade
    PROVE  SidesGo
  BY DEF SidesGo, SideGoes, SameBack, SameCharge, SameOrders

LEMMA ToldSides ==
    ASSUME Inv, NEW t \in Trade, trade' = [trade EXCEPT ![t].told = TRUE]
    PROVE  SidesGo
<1>1. \A u \in Trade : /\ trade'[u].orders = trade[u].orders /\ trade'[u].amount = trade[u].amount
                       /\ trade'[u].back = trade[u].back /\ trade'[u].charged = trade[u].charged
  BY DEF Inv, TypeOK, TradeRow
<1> QED BY <1>1 DEF SidesGo, SideGoes, SameBack, SameCharge, SameOrders

LEMMA OneSideGoes ==
    ASSUME Inv, NEW t \in Trade, NEW r, trade' = [trade EXCEPT ![t] = r], SideGoes(t)
    PROVE  SidesGo
<1>1. \A u \in Trade \ {t} : trade'[u] = trade[u]
  BY DEF Inv, TypeOK
<1> QED BY <1>1 DEF SidesGo, SideGoes, SameBack, SameCharge, SameOrders

LEMMA ChargedSides ==
    ASSUME Inv, NEW t \in Trade, NEW b,
           \/ trade' = [trade EXCEPT ![t].charged = b]
           \/ trade' = [trade EXCEPT ![t].charged = b, ![t].told = b],
           SameBack(t) => SidePaid(t) \/ SideCharged(t)
    PROVE  SidesGo
<1>1. trade[t] \in TradeRow
  BY DEF Inv, TypeOK
<1>2. PICK r : trade' = [trade EXCEPT ![t] = r]
               /\ r.orders = trade[t].orders /\ r.amount = trade[t].amount /\ r.back = trade[t].back
  <2>1. CASE trade' = [trade EXCEPT ![t].charged = b]
    <3> DEFINE r == [trade[t] EXCEPT !.charged = b]
    <3>1. r.orders = trade[t].orders /\ r.amount = trade[t].amount /\ r.back = trade[t].back
      BY <1>1 DEF TradeRow
    <3> QED BY <2>1, <3>1
  <2>2. CASE trade' = [trade EXCEPT ![t].charged = b, ![t].told = b]
    <3> DEFINE r == [trade[t] EXCEPT !.charged = b, !.told = b]
    <3>1. r.orders = trade[t].orders /\ r.amount = trade[t].amount /\ r.back = trade[t].back
      BY <1>1 DEF TradeRow
    <3>2. trade' = [trade EXCEPT ![t] = r]
      BY <2>2 DEF Inv, TypeOK
    <3> HIDE DEF r
    <3> QED BY <3>1, <3>2
  <2> QED BY <2>1, <2>2
<1>3. SameBack(t)
  BY <1>2 DEF SameBack, SameOrders, Inv, TypeOK
<1> QED BY <1>2, <1>3, OneSideGoes DEF SideGoes

LEMMA BackSides ==
    ASSUME Inv, NEW t \in Trade, NEW n, trade' = [trade EXCEPT ![t].back = n],
           SameCharge(t) /\ trade'[t].back = n => SideUndone(t) \/ SideReturns(t)
    PROVE  SidesGo
<1>1. trade[t] \in TradeRow /\ trade' = [trade EXCEPT ![t] = [trade[t] EXCEPT !.back = n]]
  BY DEF Inv, TypeOK
<1>2. /\ trade'[t].orders = trade[t].orders /\ trade'[t].amount = trade[t].amount
      /\ trade'[t].charged = trade[t].charged /\ trade'[t].back = n
  BY <1>1 DEF TradeRow, Inv, TypeOK
<1> QED BY <1>1, <1>2, OneSideGoes DEF SideGoes, SameCharge, SameOrders

LEMMA StartSides ==
    ASSUME Inv, NEW t \in Trade, Unused(t), NEW os \in SUBSET Order, NEW n \in Nat,
           trade' = [trade EXCEPT ![t] = NewTrade(os, n)],
           \A o, p \in os : ord'[o].via = ord'[p].via,
           \A o \in os : ord'[o].via # "table" => os = {o}
    PROVE  SidesGo
<1>1. trade'[t] = NewTrade(os, n)
  BY DEF Inv, TypeOK
<1>2. trade'[t].orders = os /\ trade'[t].back = 0 /\ ~trade'[t].charged
  BY <1>1 DEF NewTrade
<1>3. SideGoes(t)
  BY <1>2 DEF SideGoes, SideStarts, Shape
<1> QED BY <1>3, OneSideGoes

\* What is returned for an order is returned of its payment, and within it.
LEMMA ReturnSides ==
    ASSUME Inv, NEW w \in Worker, AutoOK(w), Asking(w), Return(w),
           job' = [job EXCEPT ![w].answer = "ok"] \/ faults' > 0
    PROVE  SidesGo
<1>1. job[w] \in Job
  BY DEF Inv, TypeOK
<1>10. PICK o \in Order : job[w].order = o
  BY <1>1, JobFields DEF Asking
<1>2. Asked(w) \in 0..Total
  <2>1. CASE job[w].op = "refund"
    BY <1>1, <2>1, JobFields DEF Asked, Inv, TypeOK, RefundRow
  <2>2. CASE job[w].op = "auto"
    BY <1>1, <2>2, JobFields DEF Asked
  <2> QED BY <2>1, <2>2 DEF Asking
<1> DEFINE t == ord[o].by
           n == trade[t].back + Asked(w)
<1>3. t \in Trade
  BY <1>10, <1>2 DEF Return, CanReturn, Inv, TypeOK, OrderRow
<1>4. trade[t].back \in Nat /\ trade[t].amount \in Nat /\ n <= trade[t].amount
  BY <1>10, <1>3 DEF Return, CanReturn, Inv, TypeOK, TradeRow
<1>5. trade' = [trade EXCEPT ![t].back = n]
  BY <1>10 DEF Return
<1>6. trade[t].back <= n
  BY <1>2, <1>4, AmountAssumption
<1>7. trade'[t].back = n => Returned(o)
  <2>1. CASE job[w].op = "auto" \/ faults' > 0
    BY <1>10, <2>1 DEF AutoOK, Returned
  <2>2. CASE job[w].op = "refund" /\ job' = [job EXCEPT ![w].answer = "ok"]
    <3>1. PICK k \in Kind : job[w].kind = k
      BY <1>1, <2>2, JobFields
    <3>2. Carrying(w, o, k) /\ job[w].answer = "none" /\ Asked(w) = refund[o][k].amount
      BY <1>10, <2>2, <3>1 DEF Carrying, Asking, Asked
    <3>3. Carrying(w, o, k)' /\ job'[w].answer = "ok"
      BY <1>10, <2>2, <3>1, AnswerFields DEF Carrying
    <3>4. trade'[t].back = n => trade'[t].back <= trade[t].back + refund[o][k].amount
      BY <1>2, <1>4, <3>2, AmountAssumption
    <3> HIDE DEF n
    <3> QED BY <3>2, <3>3, <3>4 DEF Returned
  <2> QED BY <2>1, <2>2 DEF Asking
<1>8. SameCharge(t) /\ trade'[t].back = n => SideReturns(t)
  <2> HIDE DEF n
  <2> QED BY <1>2, <1>4, <1>6, <1>7 DEF SideReturns
<1> HIDE DEF t, n
<1> QED BY <1>3, <1>5, <1>8, BackSides

LEMMA ByHandSides ==
    ASSUME Inv, BackBounded, NEW o \in Order, NEW n \in 0..Total, trade' = ByHand(o, n),
           trade'[ord[o].by].back <= trade[ord[o].by].back + n => Returned(o)
    PROVE  SidesGo
<1>1. CASE ord[o].by = NoTrade
  BY <1>1, SameSides DEF ByHand
<1>2. CASE ord[o].by # NoTrade
  <2> DEFINE t == ord[o].by
             m == IF trade[t].back + n > trade[t].amount THEN trade[t].amount ELSE trade[t].back + n
  <2>1. t \in Trade
    BY <1>2 DEF Inv, TypeOK, OrderRow
  <2>2. trade[t].back \in Nat /\ trade[t].amount \in Nat /\ trade[t].back <= trade[t].amount
    BY <2>1 DEF Inv, TypeOK, TradeRow, BackBounded
  <2>3. trade[t].back <= m /\ m <= trade[t].amount /\ m <= trade[t].back + n
    BY <2>2, AmountAssumption
  <2>4. trade' = [trade EXCEPT ![t].back = m]
    BY <1>2 DEF ByHand
  <2>5. SameCharge(t) /\ trade'[t].back = m => SideReturns(t)
    <3>1. trade'[t].back = m => Returned(o)
      BY <2>3
    <3> HIDE DEF m
    <3> QED BY <2>3, <3>1 DEF SideReturns
  <2> HIDE DEF t, m
  <2> QED BY <2>1, <2>4, <2>5, BackSides
<1> QED BY <1>1, <1>2

LEMMA RequestsSides ==
    ASSUME Inv, BackBounded, Requests
    PROVE  SidesGo
<1>1. ASSUME UNCHANGED trade PROVE SidesGo
  BY <1>1, SameSides
<1>2. ASSUME NEW o \in Order, PlaceOnline(o) \/ PlaceAtTable(o) \/ DuePasses(o) \/ VoidUnpaid(o)
             \/ StaffCancel(o) \/ (\E n \in 1..Total : PartialRefund(o, n))
             \/ (\E t \in Trade : PaymentInfo(o, t))
      PROVE  SidesGo
  BY <1>1, <1>2 DEF PlaceOnline, PlaceAtTable, DuePasses, VoidUnpaid, StaffCancel, PartialRefund, PaymentInfo
<1>3. ASSUME NEW o \in Order, OnlineRefundDone(o) PROVE SidesGo
  <2>1. ord[o].total \in 0..Total
    BY DEF Inv, TypeOK, OrderRow
  <2>2. Returned(o) /\ trade' = ByHand(o, ord[o].total)
    BY <1>3 DEF OnlineRefundDone, Returned, GoesBack
  <2> QED BY <2>1, <2>2, ByHandSides
<1>4. ASSUME NEW o \in Order, NEW k \in Kind, MarkRefundDone(o, k) PROVE SidesGo
  <2>1. refund[o][k].amount \in 0..Total
    BY DEF Inv, TypeOK, RefundRow
  <2>2. refund'[o][k].status = "done" /\ refund[o][k].status \in {"manual", "failed"}
    BY <1>4 DEF MarkRefundDone, Inv, TypeOK, RefundRow
  <2>3. trade'[ord[o].by].back <= trade[ord[o].by].back + refund[o][k].amount => Returned(o)
    BY <2>2 DEF Returned
  <2> QED BY <1>4, <2>1, <2>3, ByHandSides DEF MarkRefundDone
<1>5. ASSUME NEW o \in Order, NEW t \in Trade, OpenPage(o, t) PROVE SidesGo
  <2>1. {o} \in SUBSET Order /\ ord[o].total \in Nat
    BY AmountAssumption DEF Inv, TypeOK, OrderRow
  <2> QED BY <1>5, <2>1, StartSides DEF OpenPage
<1>6. ASSUME NEW o \in Order, NEW t \in Trade, Notify(o, t) PROVE SidesGo
  BY <1>6, ToldSides DEF Notify, MarkPaid
<1>7. ASSUME NEW t \in Trade, CustomerPays(t) PROVE SidesGo
  <2>1. SameBack(t) => SidePaid(t)
    BY <1>7 DEF CustomerPays, SidePaid
  <2> QED BY <1>7, <2>1, ChargedSides DEF CustomerPays
<1>8. ASSUME NEW t \in Trade, StartBill(t) PROVE SidesGo
  <2>1. Unpaid \in SUBSET Order /\ Due(Unpaid) \in Nat
    BY <1>8 DEF StartBill, Unpaid
  <2>2. \A o \in Unpaid : ord'[o].via = "table"
    BY <1>8 DEF StartBill, Unpaid, Inv, TypeOK, OrderRow, Channel, OrdersSound, Sound
  <2>3. trade' = [trade EXCEPT ![t] = NewTrade(Unpaid, Due(Unpaid))] /\ Unused(t)
    BY <1>8 DEF StartBill
  <2> QED BY <2>1, <2>2, <2>3, StartSides
<1>9. ASSUME NEW t \in Trade, BillFails(t) \/ BillAlready(t) PROVE SidesGo
  BY <1>1, <1>9, ToldSides DEF BillFails, BillAlready
<1>10. ASSUME NEW os \in SUBSET Order, CounterSettle(os) PROVE SidesGo
  BY <1>1, <1>10 DEF CounterSettle
<1> QED BY <1>2, <1>3, <1>4, <1>5, <1>6, <1>7, <1>8, <1>9, <1>10 DEF Requests

LEMMA WorkerSides ==
    ASSUME Inv, NEW w \in Worker, AutoOK(w), Sweep(w) \/ LinePay(w) \/ TablePay(w) \/ Refunding(w) \/ Crash(w)
    PROVE  SidesGo
<1> DEFINE t == job[w].trade
<1>1. job[w] \in Job
  BY JobOf
<1>2. /\ job[w].op = "sweep" => job[w].ref \in Trade \cup {NoTrade}
      /\ job[w].op \in {"charge", "bill"} => t \in Trade
  BY <1>1, JobFields
<1>3. ASSUME UNCHANGED trade PROVE SidesGo
  BY <1>3, SameSides
<1>4. CASE Sweep(w)
  <2>1. CASE SweepPaid(w)
    BY <1>2, <2>1, ToldSides DEF SweepPaid, MarkPaid
  <2> QED BY <1>3, <1>4, <2>1
          DEF Sweep, SweepSelect, SweepUnpaid, SweepUnknown, SweepExpire, SweepTooLate, SweepCancel
<1>5. CASE LinePay(w)
  <2>1. ASSUME NEW o \in Order, NEW u \in Trade, PlaceLinePay(w, o, u) PROVE SidesGo
    <3>1. {o} \in SUBSET Order /\ Total \in Nat
      BY AmountAssumption
    <3> QED BY <2>1, <3>1, StartSides DEF PlaceLinePay
  <2>2. ASSUME NEW s, s # "pay", Charging(w, "pay"), Goto(w, s), SameBack(t) PROVE SideCharged(t)
    BY <2>2, GotoFields DEF SideCharged, OfCharge, Charging
  <2>3. CASE LinePaySucceeds(w)
    <3>1. trade' = [trade EXCEPT ![t].charged = TRUE, ![t].told = TRUE] /\ t \in Trade
      BY <1>2, <2>3 DEF LinePaySucceeds, Charging
    <3>2. SameBack(t) => SideCharged(t)
      BY <2>2, <2>3 DEF LinePaySucceeds
    <3> QED BY <3>1, <3>2, ChargedSides
  <2>4. CASE LinePayBroken(w)
    <3>1. trade' = [trade EXCEPT ![t].charged = TRUE] /\ t \in Trade
      BY <1>2, <2>4 DEF LinePayBroken, Charging
    <3>2. SameBack(t) => SideCharged(t)
      BY <2>2, <2>4 DEF LinePayBroken
    <3> QED BY <3>1, <3>2, ChargedSides
  <2>5. ASSUME NEW b \in BOOLEAN, LinePayUnknown(w, b) PROVE SidesGo
    <3>1. trade' = [trade EXCEPT ![t].charged = b, ![t].told = b] /\ t \in Trade
      BY <1>2, <2>5 DEF LinePayUnknown, Charging
    <3>2. SameBack(t) => SideCharged(t)
      BY <2>2, <2>5 DEF LinePayUnknown
    <3> QED BY <3>1, <3>2, ChargedSides
  <2>6. CASE ChargeReturned(w)
    <3>1. /\ t \in Trade /\ trade' = [trade EXCEPT ![t].back = trade[t].amount]
          /\ OfCharge(w, t) /\ job[w].step \in {"giveback", "undo"}
      BY <1>2, <2>6 DEF ChargeReturned, Charging, OfCharge
    <3>2. job'[w].op = "charge" => job'[w].step = "cancel"
      BY <2>6, EndFields, GotoFields DEF ChargeReturned, Charging
    <3>3. SameCharge(t) /\ trade'[t].back = trade[t].amount => SideUndone(t)
      BY <3>1, <3>2 DEF SideUndone
    <3> HIDE DEF t
    <3> QED BY <3>1, <3>3, BackSides
  <2> QED BY <1>3, <1>5, <2>1, <2>3, <2>4, <2>5, <2>6
          DEF LinePay, LinePayRefuses, ChargeClaim, ChargeLost, ChargeStays, ChargeCancel
<1>6. CASE TablePay(w)
  <2>1. ASSUME NEW u \in Trade, BillClaim(w, u) PROVE SidesGo
    BY <2>1, ToldSides DEF BillClaim
  <2> QED BY <1>3, <1>6, <2>1 DEF TablePay, BillSettle, BillRefused, BillWrite
<1>7. CASE Refunding(w)
  <2>1. CASE ProviderReturns(w) \/ ProviderAnswerLost(w)
    <3>1. job' = [job EXCEPT ![w].answer = "ok"] \/ faults' > 0
      BY <2>1, AmountAssumption DEF ProviderReturns, ProviderAnswerLost, Fault, Inv, TypeOK
    <3> QED BY <2>1, <3>1, ReturnSides DEF ProviderReturns, ProviderAnswerLost
  <2> QED BY <1>3, <1>7, <2>1
          DEF Refunding, RefundClaim, AutoStart, ProviderRefuses, RefundWrite, AutoWrite, AutoFailed
<1>8. CASE Crash(w)
  BY <1>3, <1>8 DEF Crash
<1> QED BY <1>4, <1>5, <1>6, <1>7, <1>8

LEMMA NextSides ==
    ASSUME Inv, BackBounded, \A w \in Worker : AutoOK(w), [Next]_vars
    PROVE  SidesGo
<1>1. CASE UNCHANGED vars
  BY <1>1, SameSides DEF vars
<1> QED BY <1>1, RequestsSides, WorkerSides DEF Next

-----------------------------------------------------------------------------
\* The charges of LINE Pay.

IsCharge(w) == job[w].op = "charge"

ChargeStarts(w) ==
    /\ ~IsCharge(w) /\ IsCharge(w)'
    /\ job'[w].trade \in Trade /\ Unused(job'[w].trade) /\ job'[w].step = "pay"
    /\ ~trade'[job'[w].trade].charged /\ trade'[job'[w].trade].back = 0
    /\ ord'[job'[w].order].by = NoTrade

ChargeGoesOn(w) ==
    LET t == job[w].trade
    IN  /\ IsCharge(w) /\ IsCharge(w)' /\ job'[w].trade = t /\ job'[w].order = job[w].order
        /\ job'[w].step # "pay"
        /\ job'[w].step = "claim" => job[w].step = "pay" /\ trade'[t].back = trade[t].back
        /\ job'[w].step = "cancel" =>
              \/ job[w].step = "pay" /\ trade'[t].charged = trade[t].charged
              \/ trade'[t].back = trade[t].amount
              \/ faults' > 0

ChargeOver(w) ==
    /\ IsCharge(w) /\ ~IsCharge(w)'
    /\ \/ job[w].step = "cancel"
       \/ ord'[job[w].order].by = job[w].trade
       \/ trade'[job[w].trade].back = trade[job[w].trade].amount
       \/ ord'[job[w].order].alert
       \/ faults' > 0

ChargeGoes(w) ==
    \/ job'[w] = job[w] \/ (~IsCharge(w) /\ ~IsCharge(w)')
    \/ ChargeStarts(w) \/ ChargeGoesOn(w) \/ ChargeOver(w)

\* A step is taken by one worker.
OneWorker == \A v, w \in Worker : job'[v] # job[v] /\ job'[w] # job[w] => v = w

ChargesGo == OneWorker /\ faults' >= faults /\ \A w \in Worker : ChargeGoes(w)

LEMMA SameCharges ==
    ASSUME Inv, UNCHANGED <<job, faults>>
    PROVE  ChargesGo
  BY AmountAssumption DEF ChargesGo, OneWorker, ChargeGoes, Inv, TypeOK

LEMMA OneChargeGoes ==
    ASSUME Inv, NEW w \in Worker, ChargeGoes(w), \A v \in Worker \ {w} : job'[v] = job[v],
           UNCHANGED faults \/ Fault
    PROVE  ChargesGo
<1>1. faults' >= faults
  BY AmountAssumption DEF Fault, Inv, TypeOK
<1> QED BY <1>1 DEF ChargesGo, OneWorker, ChargeGoes

LEMMA OtherJob ==
    ASSUME Inv, NEW w \in Worker, ~IsCharge(w), UNCHANGED faults \/ Fault,
           \/ End(w)
           \/ \E s : Goto(w, s) /\ job[w].op = "sweep"
           \/ \E a : job' = [job EXCEPT ![w].answer = a] /\ job[w].op \in {"bill", "refund", "auto"}
           \/ \E j : Start(w, j) /\ j.op # "charge"
    PROVE  ChargesGo
<1>1. ~IsCharge(w)' /\ \A v \in Worker \ {w} : job'[v] = job[v]
  BY EndFields, GotoFields, AnswerFields, StartFields DEF IsCharge
<1> QED BY <1>1, OneChargeGoes DEF ChargeGoes

LEMMA RequestsCharges ==
    ASSUME Inv, Requests
    PROVE  ChargesGo
<1>1. UNCHANGED <<job, faults>>
  BY DEF Requests, PlaceOnline, PlaceAtTable, DuePasses, VoidUnpaid, StaffCancel, OnlineRefundDone,
         PartialRefund, MarkRefundDone, OpenPage, PaymentInfo, Notify, CustomerPays, StartBill, BillFails,
         BillAlready, CounterSettle
<1> QED BY <1>1, SameCharges

LEMMA LinePayCharges ==
    ASSUME Inv, NEW w \in Worker, LinePay(w)
    PROVE  ChargesGo
<1> DEFINE t == job[w].trade
           o == job[w].order
<1>1. /\ job[w] \in Job
      /\ IsCharge(w) => t \in Trade /\ o \in Order /\ ord[o].via = "linepay"
      /\ IsCharge(w) => trade[t] \in TradeRow /\ ord[o] \in OrderRow
  BY JobOf, JobFields DEF IsCharge, JobOK, Inv, TypeOK
<1>2. ASSUME NEW p \in Order, NEW u \in Trade, PlaceLinePay(w, p, u) PROVE ChargesGo
  <2> DEFINE j == [op |-> "charge", order |-> p, trade |-> u, step |-> "pay"]
  <2>1. /\ job'[w] = j /\ job[w].op = "idle" /\ \A v \in Worker \ {w} : job'[v] = job[v]
    BY <1>2, StartFields DEF PlaceLinePay
  <2>2. ord'[p].by = NoTrade
    <3>1. "linepay" \in Channel /\ "authorizing" \in PayStatus
      BY DEF Channel, PayStatus
    <3>2. Placed("linepay", "authorizing").by = NoTrade
      BY <3>1, PlacedRow, Zenon
    <3>3. ord'[p] = Placed("linepay", "authorizing")
      BY <1>2 DEF PlaceLinePay, Inv, TypeOK
    <3> QED BY <3>2, <3>3
  <2>3. trade'[u] = NewTrade({p}, Total)
    BY <1>2 DEF PlaceLinePay, Inv, TypeOK
  <2>4. ~trade'[u].charged /\ trade'[u].back = 0
    BY <2>3 DEF NewTrade
  <2>5. ChargeStarts(w)
    BY <1>2, <2>1, <2>2, <2>4 DEF ChargeStarts, IsCharge, PlaceLinePay
  <2> QED BY <1>2, <2>1, <2>5, OneChargeGoes DEF ChargeGoes, PlaceLinePay
<1>3. ASSUME IsCharge(w), NEW s, Goto(w, s), s # "pay", UNCHANGED faults \/ Fault,
             s = "claim" => job[w].step = "pay" /\ trade'[t].back = trade[t].back,
             s = "cancel" => \/ job[w].step = "pay" /\ trade'[t].charged = trade[t].charged
                             \/ trade'[t].back = trade[t].amount
                             \/ faults' > 0
      PROVE  ChargesGo
  <2>1. /\ job'[w].op = "charge" /\ job'[w].order = o /\ job'[w].step = s /\ job'[w].trade = t
        /\ \A v \in Worker \ {w} : job'[v] = job[v]
    BY <1>3, GotoFields DEF IsCharge
  <2>2. ChargeGoesOn(w)
    BY <1>3, <2>1 DEF ChargeGoesOn, IsCharge
  <2> QED BY <1>3, <2>1, <2>2, OneChargeGoes DEF ChargeGoes
<1>4. ASSUME IsCharge(w), End(w), UNCHANGED faults, ~IsCharge(w)' => ChargeOver(w)
      PROVE  ChargesGo
  <2>1. job'[w].op = "idle" /\ \A v \in Worker \ {w} : job'[v] = job[v]
    BY <1>4, EndFields
  <2> QED BY <1>4, <2>1, OneChargeGoes DEF ChargeGoes, IsCharge
<1>5. CASE LinePaySucceeds(w)
  <2>1. IsCharge(w) /\ trade'[t].back = trade[t].back /\ job[w].step = "pay"
    BY <1>1, <1>5 DEF LinePaySucceeds, Charging, IsCharge, TradeRow, Inv, TypeOK
  <2> QED BY <1>3, <1>5, <2>1 DEF LinePaySucceeds
<1>6. CASE LinePayRefuses(w)
  BY <1>3, <1>6 DEF LinePayRefuses, Charging, IsCharge
<1>7. CASE \E b \in BOOLEAN : LinePayUnknown(w, b)
  BY <1>3, <1>7 DEF LinePayUnknown, Charging, IsCharge
<1>8. CASE LinePayBroken(w)
  <2>1. faults' > 0
    BY <1>8, AmountAssumption DEF LinePayBroken, Fault, Inv, TypeOK
  <2> QED BY <1>3, <1>8, <2>1 DEF LinePayBroken, Charging, IsCharge
<1>9. CASE ChargeLost(w)
  BY <1>3, <1>9 DEF ChargeLost, Charging, IsCharge
<1>10. CASE ChargeReturned(w)
  <2>1. IsCharge(w) /\ trade'[t].back = trade[t].amount
    BY <1>1, <1>10 DEF ChargeReturned, Charging, IsCharge, TradeRow, Inv, TypeOK
  <2>2. ~IsCharge(w)' => ChargeOver(w)
    BY <2>1 DEF ChargeOver
  <2> QED BY <1>3, <1>4, <1>10, <2>1, <2>2 DEF ChargeReturned
<1>11. CASE ChargeClaim(w)
  <2>1. IsCharge(w) /\ ord'[o].by = t
    BY <1>1, <1>11 DEF ChargeClaim, Charging, IsCharge, OrderRow, Inv, TypeOK
  <2> QED BY <1>4, <1>11, <2>1 DEF ChargeClaim, ChargeOver
<1>12. CASE ChargeStays(w)
  <2>1. IsCharge(w) /\ ord'[o].alert
    BY <1>1, <1>12 DEF ChargeStays, Charging, IsCharge, OrderRow, Inv, TypeOK
  <2> QED BY <1>4, <1>12, <2>1 DEF ChargeStays, ChargeOver
<1>13. CASE ChargeCancel(w)
  <2>1. IsCharge(w) /\ job[w].step = "cancel"
    BY <1>13 DEF ChargeCancel, Charging, IsCharge
  <2> QED BY <1>4, <1>13, <2>1 DEF ChargeCancel, ChargeOver
<1> QED BY <1>2, <1>5, <1>6, <1>7, <1>8, <1>9, <1>10, <1>11, <1>12, <1>13 DEF LinePay

LEMMA WorkerCharges ==
    ASSUME Inv, NEW w \in Worker, Sweep(w) \/ TablePay(w) \/ Refunding(w) \/ Crash(w)
    PROVE  ChargesGo
<1>1. CASE Sweep(w)
  <2>1. ASSUME NEW o \in Order, SweepSelect(w, o) PROVE ChargesGo
    <3> DEFINE j == [op |-> "sweep", order |-> o, ref |-> ord[o].ref, step |-> "ask"]
    <3>1. Start(w, j) /\ j.op # "charge" /\ UNCHANGED faults
      BY <2>1 DEF SweepSelect
    <3> HIDE DEF j
    <3> QED BY <3>1, StartFields, OtherJob DEF IsCharge
  <2>2. CASE SweepPaid(w) \/ SweepUnknown(w) \/ SweepTooLate(w) \/ SweepCancel(w)
    BY <2>2, OtherJob DEF SweepPaid, SweepUnknown, SweepTooLate, SweepCancel, IsCharge
  <2>3. CASE SweepUnpaid(w) \/ SweepExpire(w)
    BY <2>3, OtherJob DEF SweepUnpaid, SweepExpire, IsCharge
  <2> QED BY <1>1, <2>1, <2>2, <2>3 DEF Sweep
<1>2. CASE TablePay(w)
  <2>1. ASSUME NEW u \in Trade, BillClaim(w, u) PROVE ChargesGo
    <3> DEFINE j == [op |-> "bill", trade |-> u, answer |-> "none"]
    <3>1. Start(w, j) /\ j.op # "charge" /\ UNCHANGED faults
      BY <2>1 DEF BillClaim
    <3> HIDE DEF j
    <3> QED BY <3>1, StartFields, OtherJob DEF IsCharge
  <2>2. CASE BillSettle(w) \/ BillRefused(w) \/ BillWrite(w)
    BY <2>2, OtherJob DEF BillSettle, BillRefused, BillWrite, IsCharge
  <2> QED BY <1>2, <2>1, <2>2 DEF TablePay
<1>3. CASE Refunding(w)
  <2>1. ASSUME NEW o \in Order, NEW k \in Kind, RefundClaim(w, o, k) PROVE ChargesGo
    <3> DEFINE j == [op |-> "refund", order |-> o, kind |-> k, answer |-> "none"]
    <3>1. Start(w, j) /\ j.op # "charge" /\ UNCHANGED faults
      BY <2>1 DEF RefundClaim
    <3> HIDE DEF j
    <3> QED BY <3>1, StartFields, OtherJob DEF IsCharge
  <2>2. ASSUME NEW o \in Order, AutoStart(w, o) PROVE ChargesGo
    <3> DEFINE j == [op |-> "auto", order |-> o, amount |-> AutoAmount(o), answer |-> "none"]
    <3>1. Start(w, j) /\ j.op # "charge" /\ UNCHANGED faults
      BY <2>2 DEF AutoStart
    <3> HIDE DEF j
    <3> QED BY <3>1, StartFields, OtherJob DEF IsCharge
  <2>3. CASE ProviderReturns(w) \/ ProviderRefuses(w) \/ ProviderAnswerLost(w)
    BY <2>3, OtherJob DEF ProviderReturns, ProviderRefuses, ProviderAnswerLost, Asking, IsCharge
  <2>4. CASE RefundWrite(w) \/ AutoWrite(w) \/ AutoFailed(w)
    BY <2>4, OtherJob DEF RefundWrite, AutoWrite, AutoFailed, IsCharge
  <2> QED BY <1>3, <2>1, <2>2, <2>3, <2>4 DEF Refunding
<1>4. CASE Crash(w)
  <2>1. faults' > 0
    BY <1>4, AmountAssumption DEF Crash, Fault, Inv, TypeOK
  <2>2. ChargeGoes(w) /\ \A v \in Worker \ {w} : job'[v] = job[v]
    BY <1>4, <2>1, EndFields DEF Crash, ChargeGoes, ChargeOver, IsCharge
  <2> QED BY <1>4, <2>2, OneChargeGoes DEF Crash
<1> QED BY <1>1, <1>2, <1>3, <1>4

LEMMA NextCharges ==
    ASSUME Inv, [Next]_vars
    PROVE  ChargesGo
<1>1. CASE UNCHANGED vars
  BY <1>1, SameCharges DEF vars
<1> QED BY <1>1, RequestsCharges, LinePayCharges, WorkerCharges DEF Next

-----------------------------------------------------------------------------
\* Why no charge goes unwatched.

\* An order's payment is a trade number of its own.
ByOK(o) ==
    LET t == ord[o].by
    IN  t # NoTrade => o \in trade[t].orders /\ (ord[o].via # "table" => trade[t].orders = {o})

\* No more goes back than was paid, and nothing for an online order of another payment.
SideOK(t) ==
    /\ Shape(t) /\ trade[t].back <= trade[t].amount
    /\ \A o \in trade[t].orders : ord[o].via = "ecpay" /\ ord[o].by # t => trade[t].back = 0

\* A charge has a trade number that nobody else works at, and knows how far it got:
\* it cancels its order when nothing was taken, or all has gone back.
ChargeOK(w) ==
    LET t == job[w].trade
    IN  IsCharge(w) =>
          /\ \A v \in Worker : OfCharge(v, t) => v = w
          /\ ord[job[w].order].by # t
          /\ job[w].step = "pay" => ~trade[t].charged
          /\ job[w].step \in {"pay", "claim"} => trade[t].back = 0
          /\ job[w].step = "cancel" => ~trade[t].charged \/ trade[t].back = trade[t].amount \/ faults > 0

Watched(t) ==
    \A o \in trade[t].orders :
        ord[o].via = "linepay" /\ trade[t].charged =>
            \/ ord[o].by = t \/ trade[t].back = trade[t].amount \/ ord[o].alert
            \/ \E w \in Worker : OfCharge(w, t)
            \/ faults > 0

WatchInv ==
    /\ \A o \in Order : ByOK(o)
    /\ \A t \in Trade : SideOK(t) /\ Watched(t)
    /\ \A w \in Worker : ChargeOK(w)

\* What a step has been shown to do.
Moves == RowsOK /\ RowsGo /\ BysGo /\ SidesGo /\ ChargesGo

LEMMA MoveFacts ==
    ASSUME Inv, Moves
    PROVE  /\ \A t \in Trade : trade[t].orders # {} => SameOrders(t)
           /\ \A t \in Trade : \A o \in trade[t].orders : o \in Order /\ ord[o].via # "none"
           /\ \A o \in Order : /\ ord[o].via # "none" => ord'[o].via = ord[o].via
                               /\ ord[o].by \in Trade \cup {NoTrade}
                               /\ ord[o].by # NoTrade => ord'[o].by = ord[o].by /\ ord[o].via # "none"
<1>1. \A t \in Trade : trade[t].orders # {} => SameOrders(t)
  BY DEF Moves, SidesGo, SideGoes, SideStarts, SidePaid, SideCharged, SideUndone, SideReturns, SameBack,
         SameCharge, Unused
<1>2. \A t \in Trade : \A o \in trade[t].orders : o \in Order /\ ord[o].via # "none"
  BY DEF Inv, TypeOK, TradeRow, TradeOK
<1>3. \A o \in Order : /\ ord[o].via # "none" => ord'[o].via = ord[o].via
                       /\ ord[o].by \in Trade \cup {NoTrade}
                       /\ ord[o].by # NoTrade => ord'[o].by = ord[o].by /\ ord[o].via # "none"
  BY DEF Moves, RowsOK, RowsGo, RowGoes, RowOK, Inv, TypeOK, OrderRow
<1> QED BY <1>1, <1>2, <1>3

LEMMA ByKeeps ==
    ASSUME Inv, Moves, WatchInv, NEW o \in Order
    PROVE  ByOK(o)'
<1> SUFFICES ASSUME ord'[o].by # NoTrade
             PROVE  /\ o \in trade'[ord'[o].by].orders
                    /\ ord'[o].via # "table" => trade'[ord'[o].by].orders = {o}
  BY DEF ByOK
<1> DEFINE t == ord'[o].by
<1>1. CASE ord[o].by # NoTrade
  <2>1. t = ord[o].by /\ t \in Trade /\ ord'[o].via = ord[o].via
    BY <1>1, MoveFacts
  <2>2. o \in trade[t].orders /\ (ord[o].via # "table" => trade[t].orders = {o})
    BY <1>1, <2>1 DEF WatchInv, ByOK
  <2> QED BY <2>1, <2>2, MoveFacts DEF SameOrders
<1>2. CASE ord[o].by = NoTrade
  <2>1. t \in Trade /\ o \in trade[t].orders /\ (ord[o].via # "table" => trade[t].orders = {o})
    BY <1>2 DEF Moves, BysGo, ByGoes
  <2> QED BY <2>1, MoveFacts DEF SameOrders
<1> QED BY <1>1, <1>2

\* Nothing but its own charge touches the trade number of a charge.
LEMMA OwnCharge ==
    ASSUME Inv, Moves, WatchInv, NEW w \in Worker, IsCharge(w)
    PROVE  LET t == job[w].trade
           IN  /\ t \in Trade /\ job[w].order \in Order /\ trade[t].orders = {job[w].order}
               /\ ord[job[w].order].via = "linepay"
               /\ ~SideStarts(t) /\ ~SidePaid(t) /\ ~SideReturns(t)
               /\ SideCharged(t) => job[w].step = "pay" /\ IsCharge(w)' /\ job'[w].step # "pay"
               /\ SideUndone(t) => /\ job[w].step \in {"giveback", "undo"}
                                   /\ IsCharge(w)' => job'[w].step = "cancel"
               /\ ord'[job[w].order].by = t => ~IsCharge(w)'
<1> DEFINE t == job[w].trade
           o == job[w].order
<1>1. job[w] \in Job /\ JobOK(job[w]) /\ ChargeOK(w)
  BY JobOf DEF WatchInv
<1>2. t \in Trade /\ o \in Order /\ trade[t].orders = {o} /\ ord[o].via = "linepay"
  BY <1>1, JobFields DEF IsCharge, JobOK
<1>3. ord[o].by # t /\ \A v \in Worker : OfCharge(v, t) => v = w
  BY <1>1 DEF ChargeOK
<1>4. ~SideStarts(t) /\ ~SidePaid(t)
  BY <1>2 DEF SideStarts, SidePaid, Unused
<1>5. ~SideReturns(t)
  <2>1. ASSUME NEW p \in Order, ord[p].by = t PROVE FALSE
    <3>1. p \in trade[t].orders
      BY <1>2, <2>1, NoTradeAssumption DEF WatchInv, ByOK
    <3> QED BY <1>2, <1>3, <2>1, <3>1
  <2> QED BY <2>1 DEF SideReturns
<1>6. SideCharged(t) => job[w].step = "pay" /\ IsCharge(w)' /\ job'[w].step # "pay"
  BY <1>3 DEF SideCharged, IsCharge
<1>7. SideUndone(t) => job[w].step \in {"giveback", "undo"} /\ (IsCharge(w)' => job'[w].step = "cancel")
  BY <1>3 DEF SideUndone, IsCharge
<1>8. ord'[o].by = t => ~IsCharge(w)'
  BY <1>2, <1>3, NoTradeAssumption DEF Moves, BysGo, ByGoes, IsCharge
<1> QED BY <1>2, <1>4, <1>5, <1>6, <1>7, <1>8

LEMMA SideKeeps ==
    ASSUME Inv, Inv', Moves, WatchInv, NEW t \in Trade
    PROVE  SideOK(t)'
<1>1. trade[t] \in TradeRow /\ trade'[t] \in TradeRow
  BY DEF Inv, TypeOK
<1>2. CASE SideStarts(t)
  <2>1. Shape(t)' /\ trade'[t].back = 0 /\ trade'[t].amount >= 0
    BY <1>1, <1>2 DEF SideStarts, TradeRow
  <2> QED BY <2>1 DEF SideOK
<1>3. CASE ~SideStarts(t)
  <2>1. SameOrders(t) /\ SideOK(t) /\ trade[t].back \in Nat /\ trade[t].amount \in Nat
    BY <1>1, <1>3 DEF Moves, SidesGo, SideGoes, SidePaid, SideCharged, SideUndone, SideReturns, SameBack,
                      SameCharge, WatchInv, TradeRow
  <2>2. \A o \in trade[t].orders : ord'[o].via = ord[o].via /\ (ord[o].by = t => ord'[o].by = t)
    BY MoveFacts, NoTradeAssumption
  <2>3. Shape(t)'
    BY <2>1, <2>2 DEF SameOrders, SideOK, Shape
  <2>4. CASE SameBack(t)
    BY <2>1, <2>2, <2>3, <2>4 DEF SameBack, SameOrders, SideOK
  <2>5. CASE SideUndone(t)
    <3>1. PICK w \in Worker : OfCharge(w, t)
      BY <2>5 DEF SideUndone
    <3>2. \A o \in trade[t].orders : ord[o].via = "linepay"
      BY <3>1, OwnCharge DEF OfCharge, IsCharge
    <3> QED BY <2>1, <2>2, <2>3, <2>5, <3>2 DEF SideOK, SideUndone, SameOrders
  <2>6. CASE SideReturns(t)
    <3>1. PICK p \in Order : ord[p].by = t
      BY <2>6 DEF SideReturns
    <3>2. p \in trade[t].orders
      BY <3>1, NoTradeAssumption DEF WatchInv, ByOK
    <3>3. \A o \in trade[t].orders : ord[o].via = "ecpay" => ord'[o].by = t
      BY <2>1, <2>2, <3>1, <3>2 DEF SideOK, Shape
    <3> QED BY <2>1, <2>2, <2>3, <2>6, <3>3 DEF SideOK, SideReturns, SameOrders
  <2> QED BY <1>3, <2>4, <2>5, <2>6 DEF Moves, SidesGo, SideGoes, SidePaid, SideCharged
<1> QED BY <1>2, <1>3

LEMMA ChargeKeeps ==
    ASSUME Inv, Inv', Moves, WatchInv, NEW w \in Worker
    PROVE  ChargeOK(w)'
<1> SUFFICES ASSUME IsCharge(w)' PROVE ChargeOK(w)'
  BY DEF ChargeOK
<1> DEFINE t == job[w].trade
           o == job[w].order
<1>1. \A v \in Worker \ {w} : job'[w] # job[w] => job'[v] = job[v]
  BY DEF Moves, ChargesGo, OneWorker
<1>2. CASE job'[w] = job[w]
  <2>1. IsCharge(w) /\ ChargeOK(w)
    BY <1>2 DEF IsCharge, WatchInv
  <2>2. t \in Trade /\ SameBack(t) /\ SameCharge(t) /\ ord'[o].by # t
    <3>1. /\ t \in Trade /\ SideGoes(t) /\ ~SideStarts(t) /\ ~SidePaid(t) /\ ~SideReturns(t)
          /\ ord'[o].by # t
      BY <2>1, OwnCharge DEF Moves, SidesGo
    <3>2. ~SideCharged(t) /\ ~SideUndone(t)
      BY <1>2, <2>1, OwnCharge
    <3> QED BY <3>1, <3>2 DEF SideGoes
  <2>3. \A v \in Worker : job'[v].op = "charge" /\ job'[v].trade = t => v = w
    <3>1. ASSUME NEW v \in Worker, job'[v].op = "charge", job'[v].trade = t, v # w PROVE FALSE
      <4>1. ~OfCharge(v, t)
        BY <2>1, <3>1 DEF ChargeOK
      <4>2. ChargeGoes(v) /\ IsCharge(v)' /\ job'[v].trade = t
        BY <3>1 DEF Moves, ChargesGo, OfCharge, IsCharge
      <4>3. ChargeStarts(v)
        BY <4>1, <4>2 DEF ChargeGoes, ChargeGoesOn, ChargeOver, OfCharge, IsCharge
      <4>4. trade[t].orders = {}
        BY <4>2, <4>3 DEF ChargeStarts, Unused
      <4>5. trade[t].orders = {o}
        BY <2>1, OwnCharge
      <4> QED BY <4>4, <4>5
    <3> QED BY <3>1
  <2>4. faults > 0 => faults' > 0
    BY AmountAssumption DEF Moves, ChargesGo, Inv, TypeOK
  <2> QED BY <1>2, <2>1, <2>2, <2>3, <2>4 DEF ChargeOK, SameBack, SameCharge, SameOrders, OfCharge, IsCharge
<1>3. CASE ChargeStarts(w)
  <2>1. ASSUME NEW v \in Worker, job'[v].op = "charge", job'[v].trade = job'[w].trade, v # w PROVE FALSE
    <3>1. job'[v] = job[v]
      BY <1>1, <1>3, <2>1 DEF ChargeStarts, IsCharge
    <3>2. IsCharge(v) /\ job[v].trade = job'[w].trade
      BY <2>1, <3>1 DEF IsCharge
    <3>3. trade[job'[w].trade].orders = {job[v].order}
      BY <3>2, OwnCharge
    <3> QED BY <1>3, <3>3 DEF ChargeStarts, Unused
  <2>2. NoTrade # job'[w].trade
    BY <1>3, NoTradeAssumption DEF ChargeStarts
  <2> QED BY <1>3, <2>1, <2>2 DEF ChargeStarts, ChargeOK, OfCharge, IsCharge
<1>4. CASE ChargeGoesOn(w) /\ job'[w] # job[w]
  <2>1. IsCharge(w) /\ ChargeOK(w)
    BY <1>4 DEF ChargeGoesOn, WatchInv
  <2>2. t \in Trade /\ SameOrders(t) /\ ord'[o].by # t
    <3>1. t \in Trade /\ trade[t].orders = {o} /\ ord'[o].by # t
      BY <2>1, OwnCharge
    <3> QED BY <3>1, MoveFacts
  <2>3. \A v \in Worker : job'[v].op = "charge" /\ job'[v].trade = t => v = w
    BY <1>1, <1>4, <2>1 DEF ChargeOK, OfCharge
  <2>4. faults > 0 => faults' > 0
    BY AmountAssumption DEF Moves, ChargesGo, Inv, TypeOK
  <2> QED BY <1>4, <2>1, <2>2, <2>3, <2>4 DEF ChargeGoesOn, ChargeOK, SameOrders, OfCharge, IsCharge
<1> QED BY <1>2, <1>3, <1>4 DEF Moves, ChargesGo, ChargeGoes, ChargeOver

LEMMA WatchKeeps ==
    ASSUME Inv, Inv', Moves, WatchInv, NEW t \in Trade
    PROVE  Watched(t)'
<1> SUFFICES ASSUME NEW o \in trade'[t].orders, ord'[o].via = "linepay", trade'[t].charged
             PROVE  \/ ord'[o].by = t \/ trade'[t].back = trade'[t].amount \/ ord'[o].alert
                    \/ \E w \in Worker : OfCharge(w, t)'
                    \/ faults' > 0
  BY DEF Watched
<1>1. /\ trade[t].back \in Nat /\ trade[t].amount \in Nat /\ faults \in Nat /\ faults' \in Nat
      /\ trade'[t].back \in Nat /\ trade'[t].amount \in Nat /\ faults' >= faults
  BY AmountAssumption DEF Inv, TypeOK, TradeRow, Moves, ChargesGo
<1>2. SameOrders(t) /\ SideOK(t)
  <2>1. ~SideStarts(t) /\ SideGoes(t)
    BY DEF SideStarts, Moves, SidesGo
  <2> QED BY <2>1 DEF SideGoes, SidePaid, SideCharged, SideUndone, SideReturns, SameBack, SameCharge, WatchInv
<1>3. o \in trade[t].orders /\ o \in Order /\ ord[o].via = "linepay" /\ trade[t].orders = {o}
  <2>1. o \in trade[t].orders
    BY <1>2 DEF SameOrders
  <2>2. o \in Order /\ ord[o].via = "linepay"
    BY <2>1, MoveFacts
  <2> QED BY <1>2, <2>1, <2>2 DEF SideOK, Shape
<1>4. ~SidePaid(t) /\ ~SideStarts(t)
  BY <1>3 DEF SidePaid, SideStarts
<1>5. CASE SideCharged(t)
  BY <1>5 DEF SideCharged, OfCharge
<1>6. CASE SideUndone(t)
  BY <1>2, <1>6 DEF SideUndone, SameOrders
<1>7. ASSUME SameCharge(t), trade[t].back = trade[t].amount => trade'[t].back = trade[t].amount
      PROVE  \/ ord'[o].by = t \/ trade'[t].back = trade'[t].amount \/ ord'[o].alert
             \/ \E w \in Worker : OfCharge(w, t)'
             \/ faults' > 0
  <2>1. trade[t].charged /\ Watched(t)
    BY <1>7 DEF SameCharge, WatchInv
  <2>2. CASE ord[o].by = t
    BY <1>3, <2>2, MoveFacts, NoTradeAssumption
  <2>3. CASE trade[t].back = trade[t].amount
    BY <1>2, <1>7, <2>3 DEF SameOrders
  <2>4. CASE ord[o].alert
    BY <1>3, <2>4 DEF Moves, RowsGo, RowGoes
  <2>5. CASE faults > 0
    BY <1>1, <2>5
  <2>6. ASSUME NEW w \in Worker, OfCharge(w, t), ~OfCharge(w, t)'
        PROVE  \/ ord'[o].by = t \/ trade'[t].back = trade'[t].amount \/ ord'[o].alert
               \/ faults' > 0
    <3>1. IsCharge(w) /\ job[w].trade = t /\ job[w].order = o /\ ChargeOK(w)
      BY <1>3, <2>6, OwnCharge DEF OfCharge, IsCharge, WatchInv
    <3>2. ChargeOver(w)
      BY <2>6, <3>1 DEF Moves, ChargesGo, ChargeGoes, ChargeStarts, ChargeGoesOn, OfCharge, IsCharge
    <3>3. job[w].step = "cancel" => trade[t].back = trade[t].amount \/ faults > 0
      BY <2>1, <3>1 DEF ChargeOK
    <3> QED BY <1>1, <1>2, <1>7, <3>1, <3>2, <3>3 DEF ChargeOver, SameOrders
  <2> QED BY <1>3, <2>1, <2>2, <2>3, <2>4, <2>5, <2>6 DEF Watched
<1>8. CASE SideReturns(t)
  BY <1>1, <1>7, <1>8 DEF SideReturns
<1>9. CASE SameBack(t) /\ SameCharge(t)
  BY <1>7, <1>9 DEF SameBack
<1> QED BY <1>4, <1>5, <1>6, <1>8, <1>9 DEF Moves, SidesGo, SideGoes

\* What a worker that returns money by itself has read stays true.
LEMMA AutoKeeps ==
    ASSUME Inv, RowsGo, \A w \in Worker : AutoOK(w), [Next]_vars
    PROVE  \A w \in Worker : AutoOK(w)'
<1> SUFFICES ASSUME NEW w \in Worker, job'[w].op = "auto" PROVE ord'[job'[w].order].pay \in GoesBack
  BY DEF AutoOK
<1>1. ASSUME job[w].op = "auto", job'[w].order = job[w].order PROVE ord'[job'[w].order].pay \in GoesBack
  <2>1. job[w].order \in Order
    BY <1>1, JobOf, JobFields
  <2> QED BY <1>1, <2>1 DEF AutoOK, RowsGo, RowGoes
<1>2. CASE job'[w] = job[w]
  BY <1>1, <1>2
<1>3. ASSUME NEW v \in Worker, v # w, Sweep(v) \/ LinePay(v) \/ TablePay(v) \/ Refunding(v) \/ Crash(v)
      PROVE  job'[w] = job[w]
  BY <1>3 DEF Sweep, SweepSelect, SweepPaid, SweepUnpaid, SweepUnknown, SweepExpire, SweepTooLate, SweepCancel,
              LinePay, PlaceLinePay, LinePaySucceeds, LinePayRefuses, LinePayBroken, LinePayUnknown, ChargeClaim,
              ChargeLost, ChargeReturned, ChargeStays, ChargeCancel, TablePay, BillClaim, BillSettle, BillRefused,
              BillWrite, Refunding, RefundClaim, AutoStart, ProviderReturns, ProviderRefuses, ProviderAnswerLost,
              RefundWrite, AutoWrite, AutoFailed, Crash, Start, End, Goto, Inv, TypeOK
<1>4. CASE Requests
  BY <1>2, <1>4 DEF Requests, PlaceOnline, PlaceAtTable, DuePasses, VoidUnpaid, StaffCancel, OnlineRefundDone,
         PartialRefund, MarkRefundDone, OpenPage, PaymentInfo, Notify, CustomerPays, StartBill, BillFails,
         BillAlready, CounterSettle
<1>5. ~Sweep(w) /\ ~LinePay(w) /\ ~TablePay(w)
  <2>1. ASSUME NEW o \in Order PROVE ~SweepSelect(w, o) /\ \A t \in Trade : ~PlaceLinePay(w, o, t)
    <3>1. ~SweepSelect(w, o)
      BY StartFields DEF SweepSelect
    <3>2. \A t \in Trade : ~PlaceLinePay(w, o, t)
      BY StartFields DEF PlaceLinePay
    <3> QED BY <3>1, <3>2
  <2>2. ASSUME NEW t \in Trade, BillClaim(w, t) PROVE FALSE
    BY <2>2, StartFields DEF BillClaim
  <2>3. ~SweepPaid(w) /\ ~SweepUnknown(w) /\ ~SweepTooLate(w) /\ ~SweepCancel(w) /\ ~ChargeClaim(w)
        /\ ~ChargeStays(w) /\ ~ChargeCancel(w) /\ ~BillWrite(w)
    BY EndFields DEF SweepPaid, SweepUnknown, SweepTooLate, SweepCancel, ChargeClaim, ChargeStays, ChargeCancel,
                     BillWrite
  <2>4. ASSUME SweepUnpaid(w) \/ SweepExpire(w) PROVE FALSE
    BY <2>4, GotoFields DEF SweepUnpaid, SweepExpire
  <2>5. ASSUME NEW s, Goto(w, s), job[w].op = "charge" PROVE FALSE
    BY <2>5, GotoFields
  <2>6. ~LinePaySucceeds(w) /\ ~LinePayRefuses(w) /\ ~LinePayBroken(w) /\ ~ChargeLost(w) /\ ~ChargeReturned(w)
        /\ \A b \in BOOLEAN : ~LinePayUnknown(w, b)
    BY <2>5, EndFields DEF LinePaySucceeds, LinePayRefuses, LinePayBroken, ChargeLost, ChargeReturned,
                           LinePayUnknown, Charging
  <2>7. ~BillSettle(w) /\ ~BillRefused(w)
    BY AnswerFields DEF BillSettle, BillRefused
  <2>8. ~Sweep(w)
    BY <2>1, <2>3, <2>4 DEF Sweep
  <2>9. ~LinePay(w)
    BY <2>1, <2>3, <2>6 DEF LinePay
  <2>10. ~TablePay(w)
    BY <2>2, <2>3, <2>7 DEF TablePay
  <2> QED BY <2>8, <2>9, <2>10
<1>6. CASE Refunding(w)
  <2>1. ASSUME NEW o \in Order, AutoStart(w, o) PROVE ord'[job'[w].order].pay \in GoesBack
    <3>1. job'[w].order = o /\ ord'[o].pay = "refund_required"
      BY <2>1, StartFields DEF AutoStart, AutoRefundable
    <3> QED BY <3>1 DEF GoesBack
  <2>2. CASE ProviderReturns(w) \/ ProviderRefuses(w) \/ ProviderAnswerLost(w)
    BY <1>1, <2>2, AnswerFields DEF ProviderReturns, ProviderRefuses, ProviderAnswerLost, Asking
  <2>3. ASSUME NEW o \in Order, NEW k \in Kind PROVE ~RefundClaim(w, o, k)
    BY StartFields DEF RefundClaim
  <2>4. ~RefundWrite(w) /\ ~AutoWrite(w) /\ ~AutoFailed(w)
    BY EndFields DEF RefundWrite, AutoWrite, AutoFailed
  <2> QED BY <1>6, <2>1, <2>2, <2>3, <2>4 DEF Refunding
<1>7. ~Crash(w)
  BY EndFields DEF Crash
<1>8. CASE UNCHANGED vars
  BY <1>2, <1>8 DEF vars
<1> QED BY <1>2, <1>3, <1>4, <1>5, <1>6, <1>7, <1>8 DEF Next

-----------------------------------------------------------------------------
\* All of it together is inductive.
Watching == Inv /\ RowsOK /\ (\A w \in Worker : AutoOK(w)) /\ WatchInv

LEMMA NextWatch ==
    ASSUME Watching, [Next]_vars
    PROVE  Moves /\ Watching'
<1>1. Inv' /\ RowsGo
  BY NextInv, NextRows DEF Watching, Keeps
<1>2. BackBounded
  BY DEF Watching, WatchInv, SideOK, BackBounded
<1>3. Moves
  BY <1>1, <1>2, NextBys, NextSides, NextCharges DEF Watching, Moves
<1>4. RowsOK'
  BY <1>1 DEF RowsGo, RowGoes, RowsOK
<1>5. \A w \in Worker : AutoOK(w)'
  BY <1>1, AutoKeeps DEF Watching
<1>6. WatchInv'
  BY <1>1, <1>3, ByKeeps, SideKeeps, ChargeKeeps, WatchKeeps DEF Watching, WatchInv
<1> QED BY <1>1, <1>3, <1>4, <1>5, <1>6 DEF Watching

LEMMA InitWatch ==
    ASSUME Init
    PROVE  Watching
<1>1. \A o \in Order : ord[o] = NoOrder
  BY DEF Init
<1>2. \A t \in Trade : trade[t].orders = {} /\ trade[t].back = 0 /\ trade[t].amount = 0
  BY DEF Init, NewTrade
<1>3. \A w \in Worker : job[w].op = "idle"
  BY DEF Init, Idle
<1>4. NoOrder.by = NoTrade /\ ~NoOrder.alert /\ NoOrder.pay = "none"
  BY DEF NoOrder
<1>5. RowsOK /\ \A w \in Worker : AutoOK(w)
  BY <1>1, <1>3, <1>4 DEF RowsOK, RowOK, AutoOK
<1>6. WatchInv
  BY <1>1, <1>2, <1>3, <1>4 DEF WatchInv, ByOK, SideOK, Shape, Watched, ChargeOK, IsCharge
<1> QED BY <1>5, <1>6, InitInv DEF Watching

\* Every worker knows how far its charge got, and shares its trade number with nobody,
\* at any time.
THEOREM WatchingHolds == Spec => []Watching
<1>1. Init => Watching
  BY InitWatch
<1>2. Watching /\ [Next]_vars => Watching'
  BY NextWatch
<1> QED BY <1>1, <1>2, PTL DEF Spec

\* Money that LINE Pay took is the order's payment, has gone back, is being dealt
\* with, or staff have been told, unless a process crashed or a connection broke
\* (payment_service.charge_linepay).
THEOREM ChargesWatched == Spec => []ChargeWatched
<1>1. Watching => ChargeWatched
  BY DEF Watching, WatchInv, Watched, ChargeWatched, OfCharge
<1> QED BY <1>1, WatchingHolds, PTL

-----------------------------------------------------------------------------
\* Why a bill settles once: who takes it up has it alone, and while nobody settles
\* it no order has it for its payment.

NoneBy(t) == \A o \in Order : ord[o].by # t

SettledBy(t) == (\A o \in trade[t].orders : ord[o].by = t) /\ Due(trade[t].orders) = trade[t].amount

BillOK(t) ==
    /\ bill[t] \in {"pending", "failed", "conflict"} => NoneBy(t)
    /\ bill[t] = "paid" => SettledBy(t)

BillJobOK(w) ==
    LET t == job[w].trade
    IN  job[w].op = "bill" =>
          /\ bill[t] = "processing"
          /\ IF job[w].answer = "ok" THEN SettledBy(t) ELSE NoneBy(t)
          /\ \A v \in Worker : Settling(v, t) => v = w

BillInvariant == (\A t \in Trade : BillOK(t)) /\ \A w \in Worker : BillJobOK(w)

\* What a step may do to the status of a table payment.
BillGoes(t) ==
    \/ bill'[t] = bill[t]
    \/ bill'[t] = "pending" /\ Unused(t) /\ UNCHANGED ord
    \/ bill[t] = "pending" /\ bill'[t] \in {"failed", "processing"} /\ UNCHANGED ord
    \/ /\ bill'[t] \in {"paid", "conflict"} /\ UNCHANGED ord
       /\ \E w \in Worker : /\ Settling(w, t) /\ job'[w].op # "bill"
                            /\ bill'[t] = "paid" <=> job[w].answer = "ok"

\* And to a job that settles one.
BillJobGoes(w) ==
    LET t == job'[w].trade
    IN  job'[w].op = "bill" =>
          \/ job'[w] = job[w]
          \/ /\ job[w].op # "bill" /\ t \in Trade /\ job'[w].answer = "none" /\ UNCHANGED ord
             /\ bill[t] = "pending" /\ bill'[t] = "processing"
          \/ Settling(w, t) /\ job'[w].answer # "ok" /\ job[w].answer = "none" /\ UNCHANGED ord
          \/ Settling(w, t) /\ job'[w].answer = "ok" /\ SettledBy(job[w].trade)'

BillsGo == (\A t \in Trade : BillGoes(t)) /\ \A w \in Worker : BillJobGoes(w)

LEMMA SameBills ==
    ASSUME UNCHANGED bill, \A w \in Worker : job'[w] = job[w] \/ job'[w].op # "bill"
    PROVE  BillsGo
  BY DEF BillsGo, BillGoes, BillJobGoes

LEMMA OneBillGoes ==
    ASSUME Inv, NEW t \in Trade, NEW b, bill' = [bill EXCEPT ![t] = b], BillGoes(t),
           \A w \in Worker : BillJobGoes(w)
    PROVE  BillsGo
<1>1. \A u \in Trade \ {t} : bill'[u] = bill[u]
  BY DEF Inv, TypeOK
<1> QED BY <1>1 DEF BillsGo, BillGoes

LEMMA RequestsBills ==
    ASSUME Inv, Requests
    PROVE  BillsGo
<1>1. UNCHANGED job
  BY DEF Requests, PlaceOnline, PlaceAtTable, DuePasses, VoidUnpaid, StaffCancel, OnlineRefundDone,
         PartialRefund, MarkRefundDone, OpenPage, PaymentInfo, Notify, CustomerPays, StartBill, BillFails,
         BillAlready, CounterSettle
<1>2. \A w \in Worker : BillJobGoes(w)
  BY <1>1 DEF BillJobGoes
<1>3. ASSUME NEW t \in Trade, StartBill(t) PROVE BillsGo
  <2>1. BillGoes(t) /\ bill' = [bill EXCEPT ![t] = "pending"]
    BY <1>3 DEF StartBill, BillGoes, Inv, TypeOK
  <2> QED BY <1>2, <2>1, OneBillGoes
<1>4. ASSUME NEW t \in Trade, BillFails(t) PROVE BillsGo
  <2>1. BillGoes(t) /\ bill' = [bill EXCEPT ![t] = "failed"]
    BY <1>4 DEF BillFails, BillGoes, Inv, TypeOK
  <2> QED BY <1>2, <2>1, OneBillGoes
<1>5. CASE UNCHANGED bill
  BY <1>1, <1>5, SameBills
<1> QED BY <1>3, <1>4, <1>5
    DEF Requests, PlaceOnline, PlaceAtTable, DuePasses, VoidUnpaid, StaffCancel, OnlineRefundDone,
        PartialRefund, MarkRefundDone, OpenPage, PaymentInfo, Notify, CustomerPays,
        BillAlready, CounterSettle

LEMMA TablePayBills ==
    ASSUME Inv, NEW w \in Worker, TablePay(w)
    PROVE  BillsGo
<1> DEFINE t == job[w].trade
<1>1. job[w].op = "bill" => t \in Trade /\ trade[t].orders \in SUBSET Order
  BY JobOf, JobFields DEF Inv, TypeOK, TradeRow
<1>2. ASSUME NEW u \in Trade, BillClaim(w, u) PROVE BillsGo
  <2> DEFINE j == [op |-> "bill", trade |-> u, answer |-> "none"]
  <2>1. job'[w] = j /\ job[w].op = "idle" /\ \A v \in Worker \ {w} : job'[v] = job[v]
    BY <1>2, StartFields DEF BillClaim
  <2>2. bill' = [bill EXCEPT ![u] = "processing"] /\ bill[u] = "pending" /\ bill'[u] = "processing"
        /\ UNCHANGED ord
    BY <1>2 DEF BillClaim, MayTakeBill, Inv, TypeOK
  <2>3. BillGoes(u)
    BY <2>2 DEF BillGoes
  <2>4. \A v \in Worker : BillJobGoes(v)
    BY <2>1, <2>2 DEF BillJobGoes
  <2> QED BY <2>2, <2>3, <2>4, OneBillGoes
<1>3. CASE BillSettle(w)
  <2>1. /\ job'[w].op = "bill" /\ job'[w].trade = t /\ job'[w].answer = "ok" /\ Settling(w, t) /\ t \in Trade
        /\ \A v \in Worker \ {w} : job'[v] = job[v]
    BY <1>1, <1>3, AnswerFields DEF BillSettle, Settling
  <2>2. /\ UNCHANGED <<trade, bill>> /\ ord' = Settled(trade[t].orders, t)
        /\ Due(trade[t].orders) = trade[t].amount
    BY <1>3 DEF BillSettle, BillStands
  <2>3. \A o \in trade[t].orders : o \in Order /\ ord'[o].by = t /\ ord'[o].total = ord[o].total
    <3>1. \A o \in trade[t].orders : /\ o \in Order /\ ord[o] \in OrderRow
                                     /\ ord'[o] = [ord[o] EXCEPT !.pay = "settled", !.by = t]
      BY <1>1, <2>1, <2>2 DEF Settling, Settled, Inv, TypeOK
    <3> QED BY <3>1 DEF OrderRow
  <2>4. [o \in trade'[t].orders |-> ord'[o].total] = [o \in trade[t].orders |-> ord[o].total]
    BY <2>2, <2>3
  <2>5. /\ \A o \in trade'[t].orders : ord'[o].by = t
        /\ Summed([o \in trade'[t].orders |-> ord'[o].total]) = trade'[t].amount
    BY <2>2, <2>3, <2>4 DEF Due
  <2>6. BillJobGoes(w)
    <3>1. SettledBy(job[w].trade)'
      BY <2>1, <2>5 DEF SettledBy, Due
    <3> QED BY <2>1, <3>1 DEF BillJobGoes
  <2>7. \A v \in Worker : BillJobGoes(v)
    BY <2>1, <2>6 DEF BillJobGoes
  <2> QED BY <2>2, <2>7 DEF BillsGo, BillGoes
<1>4. CASE BillRefused(w)
  <2>1. /\ job'[w].op = "bill" /\ job'[w].trade = t /\ job'[w].answer = "error" /\ Settling(w, t)
        /\ \A v \in Worker \ {w} : job'[v] = job[v]
        /\ UNCHANGED <<ord, bill>> /\ job[w].answer = "none"
    BY <1>4, AnswerFields DEF BillRefused, Settling
  <2>2. \A v \in Worker : BillJobGoes(v)
    BY <2>1 DEF BillJobGoes
  <2> QED BY <2>1, <2>2 DEF BillsGo, BillGoes
<1>5. CASE BillWrite(w)
  <2> DEFINE b == IF job[w].answer = "ok" THEN "paid" ELSE "conflict"
  <2>1. /\ t \in Trade /\ Settling(w, t) /\ job'[w].op # "bill" /\ \A v \in Worker \ {w} : job'[v] = job[v]
        /\ bill' = [bill EXCEPT ![t] = b] /\ bill'[t] = b /\ UNCHANGED ord
    BY <1>1, <1>5, EndFields DEF BillWrite, Settling, Inv, TypeOK
  <2>2. BillGoes(t)
    BY <2>1 DEF BillGoes
  <2>3. \A v \in Worker : BillJobGoes(v)
    BY <2>1 DEF BillJobGoes
  <2> QED BY <2>1, <2>2, <2>3, OneBillGoes
<1> QED BY <1>2, <1>3, <1>4, <1>5 DEF TablePay

LEMMA WorkerBills ==
    ASSUME Inv, NEW w \in Worker, Sweep(w) \/ LinePay(w) \/ Refunding(w) \/ Crash(w)
    PROVE  BillsGo
<1>1. ASSUME job'[w].op # "bill", \A v \in Worker \ {w} : job'[v] = job[v], UNCHANGED bill PROVE BillsGo
  BY <1>1, SameBills
<1>2. ASSUME End(w), UNCHANGED bill PROVE BillsGo
  BY <1>1, <1>2, EndFields
<1>3. ASSUME NEW s, Goto(w, s), job[w].op \in {"sweep", "charge"}, UNCHANGED bill PROVE BillsGo
  BY <1>1, <1>3, GotoFields
<1>4. ASSUME NEW a, job' = [job EXCEPT ![w].answer = a], job[w].op \in {"refund", "auto"}, UNCHANGED bill
      PROVE  BillsGo
  BY <1>1, <1>4, AnswerFields
<1>5. ASSUME NEW j, Start(w, j), j.op # "bill", UNCHANGED bill PROVE BillsGo
  BY <1>1, <1>5, StartFields
<1>6. CASE Sweep(w)
  <2>1. ASSUME NEW o \in Order, SweepSelect(w, o) PROVE BillsGo
    <3> DEFINE j == [op |-> "sweep", order |-> o, ref |-> ord[o].ref, step |-> "ask"]
    <3>1. Start(w, j) /\ j.op # "bill" /\ UNCHANGED bill
      BY <2>1 DEF SweepSelect
    <3> HIDE DEF j
    <3> QED BY <1>5, <3>1
  <2>2. CASE SweepPaid(w) \/ SweepUnknown(w) \/ SweepTooLate(w) \/ SweepCancel(w)
    BY <1>2, <2>2 DEF SweepPaid, SweepUnknown, SweepTooLate, SweepCancel
  <2>3. CASE SweepUnpaid(w) \/ SweepExpire(w)
    BY <1>3, <2>3 DEF SweepUnpaid, SweepExpire
  <2> QED BY <1>6, <2>1, <2>2, <2>3 DEF Sweep
<1>7. CASE LinePay(w)
  <2>1. ASSUME NEW o \in Order, NEW t \in Trade, PlaceLinePay(w, o, t) PROVE BillsGo
    <3> DEFINE j == [op |-> "charge", order |-> o, trade |-> t, step |-> "pay"]
    <3>1. Start(w, j) /\ j.op # "bill" /\ UNCHANGED bill
      BY <2>1 DEF PlaceLinePay
    <3> HIDE DEF j
    <3> QED BY <1>5, <3>1
  <2>2. CASE LinePaySucceeds(w) \/ LinePayRefuses(w) \/ LinePayBroken(w) \/ ChargeLost(w)
             \/ \E taken \in BOOLEAN : LinePayUnknown(w, taken)
    BY <1>3, <2>2 DEF LinePaySucceeds, LinePayRefuses, LinePayBroken, ChargeLost, LinePayUnknown, Charging
  <2>3. CASE ChargeClaim(w) \/ ChargeStays(w) \/ ChargeCancel(w) \/ ChargeReturned(w)
    BY <1>2, <1>3, <2>3 DEF ChargeClaim, ChargeStays, ChargeCancel, ChargeReturned, Charging
  <2> QED BY <1>7, <2>1, <2>2, <2>3 DEF LinePay
<1>8. CASE Refunding(w)
  <2>1. ASSUME NEW o \in Order, NEW k \in Kind, RefundClaim(w, o, k) PROVE BillsGo
    <3> DEFINE j == [op |-> "refund", order |-> o, kind |-> k, answer |-> "none"]
    <3>1. Start(w, j) /\ j.op # "bill" /\ UNCHANGED bill
      BY <2>1 DEF RefundClaim
    <3> HIDE DEF j
    <3> QED BY <1>5, <3>1
  <2>2. ASSUME NEW o \in Order, AutoStart(w, o) PROVE BillsGo
    <3> DEFINE j == [op |-> "auto", order |-> o, amount |-> AutoAmount(o), answer |-> "none"]
    <3>1. Start(w, j) /\ j.op # "bill" /\ UNCHANGED bill
      BY <2>2 DEF AutoStart
    <3> HIDE DEF j
    <3> QED BY <1>5, <3>1
  <2>3. CASE ProviderReturns(w) \/ ProviderRefuses(w) \/ ProviderAnswerLost(w)
    BY <1>4, <2>3 DEF ProviderReturns, ProviderRefuses, ProviderAnswerLost, Asking
  <2>4. CASE RefundWrite(w) \/ AutoWrite(w) \/ AutoFailed(w)
    BY <1>2, <2>4 DEF RefundWrite, AutoWrite, AutoFailed
  <2> QED BY <1>8, <2>1, <2>2, <2>3, <2>4 DEF Refunding
<1>9. CASE Crash(w)
  BY <1>2, <1>9 DEF Crash
<1> QED BY <1>6, <1>7, <1>8, <1>9

LEMMA NextBills ==
    ASSUME Inv, [Next]_vars
    PROVE  BillsGo
<1>1. CASE UNCHANGED vars
  BY <1>1, SameBills DEF vars
<1> QED BY <1>1, RequestsBills, TablePayBills, WorkerBills DEF Next

LEMMA SettledStays ==
    ASSUME Inv, Moves, NEW t \in Trade, trade[t].orders # {}, SettledBy(t)
    PROVE  /\ \A o \in trade'[t].orders : ord'[o].by = t
           /\ Summed([o \in trade'[t].orders |-> ord'[o].total]) = trade'[t].amount
<1>1. SameOrders(t)
  BY MoveFacts
<1>2. \A o \in trade[t].orders : o \in Order /\ ord[o].by = t /\ ord'[o].by = t /\ ord'[o].total = ord[o].total
  BY MoveFacts, NoTradeAssumption DEF SettledBy, Moves, RowsGo, RowGoes
<1>3. [o \in trade'[t].orders |-> ord'[o].total] = [o \in trade[t].orders |-> ord[o].total]
  BY <1>1, <1>2 DEF SameOrders
<1> QED BY <1>1, <1>2, <1>3 DEF SettledBy, Due, SameOrders

LEMMA NoneStays ==
    ASSUME Inv, Moves, NEW t \in Trade, bill[t] # "none", NoneBy(t), \A w \in Worker : ~BillAnswered(w, t)
    PROVE  NoneBy(t)'
<1> SUFFICES ASSUME NEW o \in Order, ord'[o].by = t PROVE FALSE
  BY DEF NoneBy
<1>1. t # NoTrade /\ ord[o].by # t
  BY NoTradeAssumption DEF NoneBy
<1>2. ByGoes(o)
  BY DEF Moves, BysGo
<1>3. o \in trade[t].orders
  BY <1>1, <1>2 DEF ByGoes
<1>4. ord[o].via = "table"
  BY <1>3, MoveFacts DEF Inv, TradeOK
<1> QED BY <1>1, <1>2, <1>4 DEF ByGoes

LEMMA BillKeeps ==
    ASSUME Watching, Moves, BillInvariant, BillsGo, NEW t \in Trade
    PROVE  BillOK(t)'
<1>1. BillOK(t) /\ BillGoes(t) /\ Inv /\ (bill[t] # "none" => trade[t].orders # {})
  BY DEF BillInvariant, BillsGo, Watching, Inv, TradeOK
<1>2. \A w \in Worker : Settling(w, t) => bill[t] = "processing" /\ BillJobOK(w)
  BY DEF BillInvariant, BillJobOK, Settling
<1>3. CASE bill'[t] = bill[t]
  <2>1. CASE bill[t] \in {"pending", "failed", "conflict"}
    <3>1. \A w \in Worker : ~BillAnswered(w, t)
      BY <1>2, <2>1 DEF BillAnswered
    <3>2. NoneBy(t)'
      BY <1>1, <2>1, <3>1, NoneStays DEF BillOK
    <3> QED BY <1>3, <2>1, <3>2 DEF BillOK
  <2>2. CASE bill[t] = "paid"
    <3>1. SettledBy(t)'
      BY <1>1, <2>2, SettledStays DEF BillOK, SettledBy, Due
    <3> QED BY <1>3, <2>2, <3>1 DEF BillOK
  <2> QED BY <1>3, <2>1, <2>2 DEF BillOK
<1>4. CASE bill'[t] = "pending" /\ Unused(t) /\ UNCHANGED ord
  <2>1. NoneBy(t)
    BY <1>4, NoTradeAssumption DEF NoneBy, Unused, Watching, WatchInv, ByOK
  <2> QED BY <1>4, <2>1 DEF BillOK, NoneBy
<1>5. CASE bill[t] = "pending" /\ bill'[t] \in {"failed", "processing"} /\ UNCHANGED ord
  BY <1>1, <1>5 DEF BillOK, NoneBy
<1>6. ASSUME NEW w \in Worker, Settling(w, t), bill'[t] \in {"paid", "conflict"}, UNCHANGED ord,
             bill'[t] = "paid" <=> job[w].answer = "ok"
      PROVE  BillOK(t)'
  <2>1. bill[t] = "processing" /\ (IF job[w].answer = "ok" THEN SettledBy(t) ELSE NoneBy(t))
    BY <1>2, <1>6 DEF BillJobOK, Settling
  <2>2. CASE job[w].answer = "ok"
    <3>1. SettledBy(t)'
      BY <1>1, <2>1, <2>2, SettledStays DEF SettledBy, Due
    <3> QED BY <1>6, <2>2, <3>1 DEF BillOK
  <2>3. CASE job[w].answer # "ok"
    BY <1>6, <2>1, <2>3 DEF BillOK, NoneBy
  <2> QED BY <2>2, <2>3
<1> QED BY <1>1, <1>3, <1>4, <1>5, <1>6 DEF BillGoes

LEMMA BillJobKeeps ==
    ASSUME Watching, Watching', Moves, BillInvariant, BillsGo, NEW w \in Worker
    PROVE  BillJobOK(w)'
<1> SUFFICES ASSUME job'[w].op = "bill" PROVE BillJobOK(w)'
  BY DEF BillJobOK
<1>1. BillJobGoes(w) /\ Inv /\ \A v \in Worker \ {w} : job'[w] # job[w] => job'[v] = job[v]
  BY DEF BillsGo, Watching, Moves, ChargesGo, OneWorker
<1> DEFINE u == job'[w].trade
<1>2. \A v \in Worker, t \in Trade : Settling(v, t) =>
          bill[t] = "processing" /\ BillJobOK(v) /\ \A x \in Worker : Settling(x, t) => x = v
  BY DEF BillInvariant, BillJobOK, Settling
<1>3. u \in Trade
  <2>1. job'[w] \in Job
    BY DEF Watching, Inv, TypeOK
  <2> QED BY <2>1, JobFields
<1>4. ASSUME Settling(w, u)
      PROVE  /\ bill'[u] = "processing"
             /\ \A v \in Worker : job'[v].op = "bill" /\ job'[v].trade = u => v = w
  <2>1. bill[u] = "processing" /\ \A x \in Worker : Settling(x, u) => x = w
    BY <1>2, <1>3, <1>4
  <2>2. trade[u].orders # {}
    BY <1>1, <1>3, <2>1 DEF Inv, TradeOK
  <2>3. BillGoes(u)
    BY <1>3 DEF BillsGo
  <2>4. bill'[u] = bill[u]
    BY <2>1, <2>2, <2>3 DEF BillGoes, Unused
  <2>5. ASSUME NEW v \in Worker, job'[v].op = "bill", job'[v].trade = u PROVE v = w
    <3>1. BillJobGoes(v)
      BY DEF BillsGo
    <3>2. Settling(v, u)
      BY <2>1, <2>5, <3>1 DEF BillJobGoes, Settling
    <3> QED BY <2>1, <3>2
  <2> QED BY <2>1, <2>4, <2>5
<1>5. CASE job'[w] = job[w]
  <2>1. Settling(w, u) /\ job[w].trade = u
    BY <1>5 DEF Settling
  <2>2. BillJobOK(w) /\ bill[u] # "none" /\ trade[u].orders # {}
    BY <1>1, <1>2, <1>3, <2>1 DEF Inv, TradeOK
  <2>3. CASE job[w].answer = "ok"
    <3>1. SettledBy(u)
      BY <2>1, <2>2, <2>3 DEF BillJobOK, Settling
    <3>2. /\ \A o \in trade'[u].orders : ord'[o].by = u
          /\ Summed([o \in trade'[u].orders |-> ord'[o].total]) = trade'[u].amount
      BY <1>1, <1>3, <2>2, <3>1, SettledStays
    <3> QED BY <1>4, <1>5, <2>1, <2>3, <3>2 DEF BillJobOK, SettledBy, Due, Settling
  <2>4. CASE job[w].answer # "ok"
    <3>1. NoneBy(u)
      BY <2>1, <2>2, <2>4 DEF BillJobOK, Settling
    <3>2. \A v \in Worker : ~BillAnswered(v, u)
      BY <1>2, <1>3, <1>5, <2>1, <2>4 DEF BillAnswered
    <3>3. \A o \in Order : ord'[o].by # u
      <4>1. ASSUME NEW t \in Trade, t = u PROVE NoneBy(t)'
        BY <1>1, <2>2, <3>1, <3>2, <4>1, NoneStays
      <4> QED BY <1>3, <4>1 DEF NoneBy
    <3> QED BY <1>4, <1>5, <2>1, <2>4, <3>3 DEF BillJobOK, NoneBy, Settling
  <2> QED BY <2>3, <2>4
<1>6. CASE /\ job[w].op # "bill" /\ job'[w].answer = "none" /\ UNCHANGED ord
           /\ bill[u] = "pending" /\ bill'[u] = "processing"
  <2>1. \A o \in Order : ord'[o].by # u
    BY <1>3, <1>6 DEF BillInvariant, BillOK, NoneBy
  <2>2. ASSUME NEW v \in Worker, job'[v].op = "bill", job'[v].trade = u, v # w PROVE FALSE
    <3>1. Settling(v, u)
      BY <1>1, <1>6, <2>2 DEF Settling
    <3> QED BY <1>2, <1>3, <1>6, <3>1
  <2> QED BY <1>6, <2>1, <2>2 DEF BillJobOK, NoneBy, Settling
<1>7. CASE Settling(w, u) /\ job'[w].answer # "ok" /\ job[w].answer = "none" /\ UNCHANGED ord
  <2>1. \A o \in Order : ord'[o].by # u
    BY <1>2, <1>3, <1>7 DEF BillJobOK, NoneBy, Settling
  <2> QED BY <1>4, <1>7, <2>1 DEF BillJobOK, NoneBy, Settling
<1>8. CASE Settling(w, u) /\ job'[w].answer = "ok" /\ SettledBy(job[w].trade)'
  BY <1>4, <1>8 DEF BillJobOK, Settling
<1> QED BY <1>1, <1>5, <1>6, <1>7, <1>8 DEF BillJobGoes

\* A table payment that counts as paid has settled its orders for what they cost,
\* and one that staff are sent to refund has settled nothing, though notification
\* and browser come together (table_pay_service.mark_paid, settle_table).
THEOREM BillsSettleOnce == Spec => []BillSettlesOnce
<1>1. Init => Watching /\ BillInvariant
  BY InitWatch DEF Init, BillInvariant, BillOK, BillJobOK, Idle
<1>2. Watching /\ BillInvariant /\ [Next]_vars => (Watching /\ BillInvariant)'
  <2> SUFFICES ASSUME Watching, BillInvariant, [Next]_vars PROVE Watching' /\ BillInvariant'
    OBVIOUS
  <2>1. Watching' /\ Moves
    BY NextWatch
  <2>2. BillsGo
    BY NextBills DEF Watching
  <2> QED BY <2>1, <2>2, BillKeeps, BillJobKeeps DEF BillInvariant
<1>3. ASSUME Inv, Attended, BillInvariant PROVE BillSettlesOnce
  <2>1. faults = 0 \/ faults > 0
    BY <1>3, AmountAssumption DEF Inv, TypeOK
  <2> QED BY <1>3, <2>1 DEF Attended, BillInvariant, BillOK, BillSettlesOnce, SettledBy, NoneBy
<1> QED BY <1>1, <1>2, <1>3, SomebodyAttends, PTL DEF Spec

-----------------------------------------------------------------------------
\* What a step does to a refund.

RefundStarts(o, k) ==
    /\ refund[o][k].status = "none" /\ refund'[o][k].status # "none" /\ ord[o].pay \notin Open
    /\ refund'[o][k].amount + ord[o].refunded <= ord'[o].refunded
    /\ \A m \in Kind \ {k} : refund'[o][m] = refund[o][m]

RefundWritten(o, k) ==
    \E w \in Worker : /\ Carrying(w, o, k) /\ job'[w].op # "refund"
                      /\ refund'[o][k].status = IF job[w].answer = "ok" THEN "done" ELSE "failed"

RefundGoes(o, k) ==
    \/ refund'[o][k] = refund[o][k]
    \/ RefundStarts(o, k)
    \/ /\ refund'[o][k].amount = refund[o][k].amount
       /\ refund[o][k].status # "none" /\ refund'[o][k].status # "none"
       /\ \/ refund[o][k].status \in {"pending", "failed", "manual"} /\ refund'[o][k].status \in {"processing", "done"}
          \/ RefundWritten(o, k)
          \/ ord[o].pay \in GoesBack

\* And to a job that carries a refund out.
RefundJobGoes(w) ==
    LET o == job[w].order
        k == job[w].kind
    IN  \/ job'[w] = job[w]
        \/ job[w].op # "refund" /\ job'[w].op # "refund"
        \/ job[w].op # "refund" /\ job'[w].answer = "none"
              /\ refund'[job'[w].order][job'[w].kind].status = "processing"
        \/ /\ job[w].op = "refund" /\ job'[w].op = "refund" /\ job'[w].order = o /\ job'[w].kind = k
           /\ job[w].answer = "none"
        \/ /\ job[w].op = "refund" /\ job'[w].op # "refund"
           /\ faults' > 0 \/ refund'[o][k].status = IF job[w].answer = "ok" THEN "done" ELSE "failed"

RefundsGo ==
    /\ \A o \in Order, k \in Kind : RefundGoes(o, k)
    /\ \A w \in Worker : RefundJobGoes(w)

LEMMA SameRefunds ==
    ASSUME UNCHANGED refund, \A w \in Worker : RefundJobGoes(w)
    PROVE  RefundsGo
  BY DEF RefundsGo, RefundGoes

LEMMA OneRefundGoes ==
    ASSUME Inv, NEW o \in Order, NEW k \in Kind, NEW s, refund' = [refund EXCEPT ![o][k].status = s],
           \A w \in Worker : RefundJobGoes(w),
           refund'[o][k].amount = refund[o][k].amount /\ refund'[o][k].status = s => RefundGoes(o, k)
    PROVE  RefundsGo
<1>1. refund[o][k] \in RefundRow
  BY DEF Inv, TypeOK
<1>2. refund'[o][k].amount = refund[o][k].amount /\ refund'[o][k].status = s
  BY <1>1 DEF RefundRow, Inv, TypeOK
<1>3. \A p \in Order, m \in Kind : ~(p = o /\ m = k) => refund'[p][m] = refund[p][m]
  BY DEF Inv, TypeOK
<1> QED BY <1>2, <1>3 DEF RefundsGo, RefundGoes

LEMMA CancelRefunds ==
    ASSUME Inv, RefundsOK, NEW o \in Order, SystemCancel(o), \A w \in Worker : RefundJobGoes(w)
    PROVE  RefundsGo
<1>1. CASE UNCHANGED refund
  BY <1>1, SameRefunds
<1>2. CASE Cancel(o) /\ Owed(o) > 0
  <2>1. /\ \A p \in Order \ {o} : refund'[p] = refund[p]
        /\ refund'[o]["cancel"] = CancelRow(o) /\ refund'[o]["partial"] = refund[o]["partial"]
    BY <1>2 DEF Cancel, Inv, TypeOK, Kind
  <2>2. CancelRow(o).amount = Owed(o) /\ CancelRow(o).status # "none"
    BY DEF CancelRow
  <2>3. ord'[o].refunded = ord[o].refunded + Owed(o) /\ Owed(o) \in 0..Total /\ ord[o].refunded \in 0..Total
    BY <1>2, CancelGood DEF Cancel, Inv, TypeOK, OrderRow
  <2>4. refund[o]["cancel"].status = "none"
    BY <1>2 DEF Cancel, RefundsOK, CancelOK
  <2>5. ord[o].pay \notin Open
    BY <1>2 DEF Owed, PayAfterCancel, Open
  <2>6. RefundStarts(o, "cancel")
    BY <2>1, <2>2, <2>3, <2>4, <2>5, AmountAssumption DEF RefundStarts, Kind
  <2> QED BY <2>1, <2>6 DEF RefundsGo, RefundGoes, Kind
<1>3. CASE Cancel(o) /\ ~(Owed(o) > 0)
  BY <1>1, <1>3 DEF Cancel, Inv, TypeOK, Kind
<1> QED BY <1>1, <1>2, <1>3 DEF SystemCancel

LEMMA PartialRefunds ==
    ASSUME Inv, NEW o \in Order, NEW n \in 1..Total, PartialRefund(o, n)
    PROVE  RefundsGo
<1> DEFINE row == [amount |-> n, status |-> PartialStatus(o)]
<1>1. /\ \A p \in Order \ {o} : refund'[p] = refund[p]
      /\ refund'[o]["partial"] = row /\ refund'[o]["cancel"] = refund[o]["cancel"]
  BY DEF PartialRefund, Inv, TypeOK, Kind
<1>2. ord[o].via \in Channel /\ ord[o].pay \notin Open
  BY DEF PartialRefund, IsPaid, Open, Inv, TypeOK, OrderRow, OrdersSound, Sound
<1>3. PartialStatus(o) # "none"
  BY <1>2 DEF PartialStatus, Channel
<1>4. ord'[o].refunded = ord[o].refunded + n /\ ord[o].refunded \in 0..Total
  BY DEF PartialRefund, Inv, TypeOK, OrderRow
<1>5. RefundStarts(o, "partial")
  BY <1>1, <1>2, <1>3, <1>4, AmountAssumption DEF RefundStarts, Kind, PartialRefund, NoRefund
<1> QED BY <1>1, <1>5 DEF RefundsGo, RefundGoes, RefundJobGoes, Kind, PartialRefund

LEMMA RequestsRefundsGo ==
    ASSUME Inv, RefundsOK, Requests
    PROVE  RefundsGo
<1>1. \A w \in Worker : RefundJobGoes(w)
  <2>1. UNCHANGED job
    BY DEF Requests, PlaceOnline, PlaceAtTable, DuePasses, VoidUnpaid, StaffCancel, OnlineRefundDone,
           PartialRefund, MarkRefundDone, OpenPage, PaymentInfo, Notify, CustomerPays, StartBill, BillFails,
           BillAlready, CounterSettle
  <2> QED BY <2>1 DEF RefundJobGoes
<1>2. CASE UNCHANGED refund
  BY <1>1, <1>2, SameRefunds
<1>3. ASSUME NEW o \in Order, StaffCancel(o) PROVE RefundsGo
  BY <1>1, <1>3, CancelRefunds DEF StaffCancel, SystemCancel
<1>4. ASSUME NEW o \in Order, NEW k \in Kind, MarkRefundDone(o, k) PROVE RefundsGo
  <2>1. refund' = [refund EXCEPT ![o][k].status = "done"] /\ refund[o][k].status \in {"manual", "failed"}
    BY <1>4 DEF MarkRefundDone
  <2>2. refund'[o][k].amount = refund[o][k].amount /\ refund'[o][k].status = "done" => RefundGoes(o, k)
    BY <2>1 DEF RefundGoes
  <2> QED BY <1>1, <2>1, <2>2, OneRefundGoes
<1>5. ASSUME NEW o \in Order, NEW k \in Kind, ord[o].pay = "refund_required", refund[o][k].status # "none",
             refund' = [refund EXCEPT ![o][k].status = "done"]
      PROVE  RefundsGo
  <2>1. refund'[o][k].amount = refund[o][k].amount /\ refund'[o][k].status = "done" => RefundGoes(o, k)
    BY <1>5 DEF RefundGoes, GoesBack
  <2> QED BY <1>1, <1>5, <2>1, OneRefundGoes
<1>6. ASSUME NEW o \in Order, OnlineRefundDone(o) PROVE RefundsGo
  BY <1>2, <1>5, <1>6 DEF OnlineRefundDone
<1> QED BY <1>2, <1>3, <1>4, <1>6, PartialRefunds
    DEF Requests, PlaceOnline, PlaceAtTable, DuePasses, VoidUnpaid, OpenPage, PaymentInfo, Notify, CustomerPays,
        StartBill, BillFails, BillAlready, CounterSettle

LEMMA OtherWork ==
    ASSUME Inv, NEW w \in Worker, Sweep(w) \/ LinePay(w) \/ TablePay(w)
    PROVE  \A v \in Worker : RefundJobGoes(v)
<1>1. ASSUME job'[w].op # "refund", job[w].op # "refund", \A v \in Worker \ {w} : job'[v] = job[v]
      PROVE  \A v \in Worker : RefundJobGoes(v)
  BY <1>1 DEF RefundJobGoes
<1>2. ASSUME End(w), job[w].op # "refund" PROVE \A v \in Worker : RefundJobGoes(v)
  BY <1>1, <1>2, EndFields
<1>3. ASSUME NEW s, Goto(w, s), job[w].op \in {"sweep", "charge"} PROVE \A v \in Worker : RefundJobGoes(v)
  BY <1>1, <1>3, GotoFields
<1>4. ASSUME NEW a, job' = [job EXCEPT ![w].answer = a], job[w].op = "bill"
      PROVE  \A v \in Worker : RefundJobGoes(v)
  BY <1>1, <1>4, AnswerFields
<1>5. ASSUME NEW j, Start(w, j), j.op # "refund" PROVE \A v \in Worker : RefundJobGoes(v)
  BY <1>1, <1>5, StartFields
<1>6. CASE Sweep(w)
  <2>1. ASSUME NEW o \in Order, SweepSelect(w, o) PROVE \A v \in Worker : RefundJobGoes(v)
    <3> DEFINE j == [op |-> "sweep", order |-> o, ref |-> ord[o].ref, step |-> "ask"]
    <3>1. Start(w, j) /\ j.op # "refund"
      BY <2>1 DEF SweepSelect
    <3> HIDE DEF j
    <3> QED BY <1>5, <3>1
  <2>2. CASE SweepPaid(w) \/ SweepUnknown(w) \/ SweepTooLate(w) \/ SweepCancel(w)
    BY <1>2, <2>2 DEF SweepPaid, SweepUnknown, SweepTooLate, SweepCancel
  <2>3. CASE SweepUnpaid(w) \/ SweepExpire(w)
    BY <1>3, <2>3 DEF SweepUnpaid, SweepExpire
  <2> QED BY <1>6, <2>1, <2>2, <2>3 DEF Sweep
<1>7. CASE LinePay(w)
  <2>1. ASSUME NEW o \in Order, NEW t \in Trade, PlaceLinePay(w, o, t) PROVE \A v \in Worker : RefundJobGoes(v)
    <3> DEFINE j == [op |-> "charge", order |-> o, trade |-> t, step |-> "pay"]
    <3>1. Start(w, j) /\ j.op # "refund"
      BY <2>1 DEF PlaceLinePay
    <3> HIDE DEF j
    <3> QED BY <1>5, <3>1
  <2>2. CASE LinePaySucceeds(w) \/ LinePayRefuses(w) \/ LinePayBroken(w) \/ ChargeLost(w)
             \/ \E taken \in BOOLEAN : LinePayUnknown(w, taken)
    BY <1>3, <2>2 DEF LinePaySucceeds, LinePayRefuses, LinePayBroken, ChargeLost, LinePayUnknown, Charging
  <2>3. CASE ChargeClaim(w) \/ ChargeStays(w) \/ ChargeCancel(w) \/ ChargeReturned(w)
    BY <1>2, <1>3, <2>3 DEF ChargeClaim, ChargeStays, ChargeCancel, ChargeReturned, Charging
  <2> QED BY <1>7, <2>1, <2>2, <2>3 DEF LinePay
<1>8. CASE TablePay(w)
  <2>1. ASSUME NEW t \in Trade, BillClaim(w, t) PROVE \A v \in Worker : RefundJobGoes(v)
    <3> DEFINE j == [op |-> "bill", trade |-> t, answer |-> "none"]
    <3>1. Start(w, j) /\ j.op # "refund"
      BY <2>1 DEF BillClaim
    <3> HIDE DEF j
    <3> QED BY <1>5, <3>1
  <2>2. CASE BillSettle(w) \/ BillRefused(w)
    BY <1>4, <2>2 DEF BillSettle, BillRefused
  <2>3. CASE BillWrite(w)
    BY <1>2, <2>3 DEF BillWrite
  <2> QED BY <1>8, <2>1, <2>2, <2>3 DEF TablePay
<1> QED BY <1>6, <1>7, <1>8

LEMMA WorkRefunds ==
    ASSUME Inv, RefundsOK, NEW w \in Worker, Sweep(w) \/ LinePay(w) \/ TablePay(w)
    PROVE  RefundsGo
<1>1. \A v \in Worker : RefundJobGoes(v)
  BY OtherWork
<1>2. ASSUME NEW o \in Order, SystemCancel(o) PROVE RefundsGo
  BY <1>1, <1>2, CancelRefunds
<1>3. CASE SweepCancel(w) \/ ChargeCancel(w)
  <2>1. job[w].order \in Order
    BY <1>3, JobOf, JobFields DEF SweepCancel, ChargeCancel, Charging
  <2> QED BY <1>2, <1>3, <2>1 DEF SweepCancel, ChargeCancel
<1>4. CASE UNCHANGED refund
  BY <1>1, <1>4, SameRefunds
<1> QED BY <1>3, <1>4
    DEF Sweep, SweepSelect, SweepPaid, SweepUnpaid, SweepUnknown, SweepExpire, SweepTooLate,
        LinePay, PlaceLinePay, LinePaySucceeds, LinePayRefuses, LinePayBroken, LinePayUnknown, ChargeClaim,
        ChargeLost, ChargeReturned, ChargeStays, TablePay, BillClaim, BillSettle, BillRefused, BillWrite

LEMMA RefundingRefundsGo ==
    ASSUME Inv, RefundsOK, NEW w \in Worker, AutoOK(w), Refunding(w) \/ Crash(w)
    PROVE  RefundsGo
<1>1. job[w] \in Job
  BY JobOf
<1>2. ASSUME UNCHANGED refund, \A v \in Worker \ {w} : job'[v] = job[v], RefundJobGoes(w) PROVE RefundsGo
  BY <1>2, SameRefunds DEF RefundJobGoes
<1>3. ASSUME NEW o \in Order, NEW k \in Kind, RefundClaim(w, o, k) PROVE RefundsGo
  <2> DEFINE j == [op |-> "refund", order |-> o, kind |-> k, answer |-> "none"]
  <2>1. job'[w] = j /\ job[w].op = "idle" /\ \A v \in Worker \ {w} : job'[v] = job[v]
    BY <1>3, StartFields DEF RefundClaim
  <2>2. /\ refund' = [refund EXCEPT ![o][k].status = "processing"] /\ refund'[o][k].status = "processing"
        /\ refund[o][k].status \in {"pending", "failed"}
    BY <1>3 DEF RefundClaim, MayProcess, Inv, TypeOK, RefundRow
  <2>3. \A v \in Worker : RefundJobGoes(v)
    BY <2>1, <2>2 DEF RefundJobGoes
  <2>4. refund'[o][k].amount = refund[o][k].amount /\ refund'[o][k].status = "processing" => RefundGoes(o, k)
    BY <2>2 DEF RefundGoes
  <2> QED BY <2>2, <2>3, <2>4, OneRefundGoes
<1>4. ASSUME NEW o \in Order, AutoStart(w, o) PROVE RefundsGo
  <2> DEFINE j == [op |-> "auto", order |-> o, amount |-> AutoAmount(o), answer |-> "none"]
  <2>1. job'[w].op = "auto" /\ job[w].op = "idle" /\ \A v \in Worker \ {w} : job'[v] = job[v]
    BY <1>4, StartFields DEF AutoStart
  <2> QED BY <1>2, <1>4, <2>1 DEF AutoStart, RefundJobGoes
<1>5. CASE ProviderReturns(w) \/ ProviderRefuses(w) \/ ProviderAnswerLost(w)
  <2>1. PICK a : job' = [job EXCEPT ![w].answer = a]
    BY <1>5 DEF ProviderReturns, ProviderRefuses, ProviderAnswerLost
  <2>2. job[w].op \in {"refund", "auto"} /\ job[w].answer = "none" /\ UNCHANGED refund
    BY <1>5 DEF ProviderReturns, ProviderRefuses, ProviderAnswerLost, Asking
  <2>3. RefundJobGoes(w) /\ \A v \in Worker \ {w} : job'[v] = job[v]
    BY <2>1, <2>2, AnswerFields DEF RefundJobGoes
  <2> QED BY <1>2, <2>2, <2>3
<1>6. CASE RefundWrite(w)
  <2> DEFINE s == IF job[w].answer = "ok" THEN "done" ELSE "failed"
  <2>1. PICK o \in Order, k \in Kind : Carrying(w, o, k)
    BY <1>1, <1>6, JobFields DEF RefundWrite, Carrying
  <2>2. refund' = [refund EXCEPT ![o][k].status = s] /\ refund'[o][k].status = s
    BY <1>6, <2>1 DEF RefundWrite, Carrying, Inv, TypeOK, RefundRow
  <2>3. job'[w].op # "refund" /\ \A v \in Worker \ {w} : job'[v] = job[v]
    BY <1>6, EndFields DEF RefundWrite
  <2>4. \A v \in Worker : RefundJobGoes(v)
    BY <2>1, <2>2, <2>3 DEF RefundJobGoes, Carrying
  <2>5. refund[o][k].status # "none"
    BY <2>1 DEF RefundsOK, ClaimOK
  <2>6. RefundWritten(o, k)
    BY <2>1, <2>2, <2>3 DEF RefundWritten
  <2>7. s # "none"
    OBVIOUS
  <2> HIDE DEF s
  <2>8. refund'[o][k].amount = refund[o][k].amount /\ refund'[o][k].status = s => RefundGoes(o, k)
    BY <2>5, <2>6, <2>7 DEF RefundGoes
  <2> QED BY <2>2, <2>4, <2>8, OneRefundGoes
<1>7. CASE AutoWrite(w)
  <2>1. PICK o \in Order : job[w].order = o
    BY <1>1, <1>7, JobFields DEF AutoWrite
  <2>2. refund' = [refund EXCEPT ![o] = [k \in Kind |-> Done(refund[o][k])]] /\ ord[o].pay \in GoesBack
    BY <1>7, <2>1 DEF AutoWrite, AutoOK
  <2>3. job'[w].op # "refund" /\ job[w].op # "refund" /\ \A v \in Worker \ {w} : job'[v] = job[v]
    BY <1>7, EndFields DEF AutoWrite
  <2>4. \A p \in Order \ {o} : refund'[p] = refund[p]
    BY <2>2 DEF Inv, TypeOK
  <2>5. ASSUME NEW k \in Kind PROVE RefundGoes(o, k)
    <3>1. refund'[o][k] = Done(refund[o][k]) /\ refund[o][k] \in RefundRow
      BY <2>2 DEF Inv, TypeOK
    <3>2. CASE refund[o][k].status = "none"
      BY <3>1, <3>2 DEF Done, RefundGoes
    <3>3. CASE refund[o][k].status # "none"
      BY <2>2, <3>1, <3>3 DEF Done, RefundGoes, RefundRow
    <3> QED BY <3>2, <3>3
  <2> QED BY <2>3, <2>4, <2>5 DEF RefundsGo, RefundGoes, RefundJobGoes
<1>8. CASE AutoFailed(w)
  <2>1. job'[w].op # "refund" /\ job[w].op # "refund" /\ \A v \in Worker \ {w} : job'[v] = job[v]
    BY <1>8, EndFields DEF AutoFailed
  <2> QED BY <1>2, <1>8, <2>1 DEF AutoFailed, RefundJobGoes
<1>9. CASE Crash(w)
  <2>1. job'[w].op # "refund" /\ faults' > 0 /\ \A v \in Worker \ {w} : job'[v] = job[v]
    BY <1>9, EndFields, AmountAssumption DEF Crash, Fault, Inv, TypeOK
  <2> QED BY <1>2, <1>9, <2>1 DEF Crash, RefundJobGoes
<1> QED BY <1>3, <1>4, <1>5, <1>6, <1>7, <1>8, <1>9 DEF Refunding

LEMMA NextRefundsGo ==
    ASSUME Inv, RefundsOK, \A w \in Worker : AutoOK(w), [Next]_vars
    PROVE  RefundsGo
<1>1. CASE UNCHANGED vars
  BY <1>1, SameRefunds DEF vars, RefundJobGoes
<1> QED BY <1>1, RequestsRefundsGo, WorkRefunds, RefundingRefundsGo DEF Next

-----------------------------------------------------------------------------
\* Why no more is returned than the order's refunds say.  Of a payment that counts,
\* money goes back only for a refund: one that is marked done, or one whose worker
\* has the provider's answer and has not written it down yet.  Given is what those
\* two make of a refund.

IsOk(o, k) == \E w \in Worker : Carrying(w, o, k) /\ job[w].answer = "ok"

Given(o, k) == IF refund[o][k].status = "done" \/ IsOk(o, k) THEN refund[o][k].amount ELSE 0

\* The refunds of an order were taken from it, and start when it has been paid.
RefundOK(o) ==
    /\ refund[o]["partial"].amount + refund[o]["cancel"].amount <= ord[o].refunded
    /\ \A k \in Kind : refund[o][k].status = "none" => refund[o][k].amount = 0
    /\ ord[o].pay \in Open => \A k \in Kind : refund[o][k].status = "none"

\* Nobody marks a refund done that a worker has claimed, while its payment counts.
PaidJobOK(w) ==
    job[w].op = "refund" /\ ord[job[w].order].pay \in Counted =>
        refund[job[w].order][job[w].kind].status = "processing"

GivenOK(o) ==
    faults = 0 /\ ord[o].by # NoTrade /\ ord[o].pay \in Counted =>
        trade[ord[o].by].back <= Given(o, "partial") + Given(o, "cancel")

RefundInvariant ==
    /\ RefundsOK
    /\ \A o \in Order : RefundOK(o) /\ GivenOK(o)
    /\ \A w \in Worker : PaidJobOK(w)

LEMMA Amounts ==
    ASSUME Inv, NEW o \in Order, NEW k \in Kind
    PROVE  refund[o][k].amount \in Nat /\ Given(o, k) \in Nat
<1>1. refund[o][k] \in RefundRow
  BY DEF Inv, TypeOK
<1> QED BY <1>1, AmountAssumption DEF RefundRow, Given

LEMMA AmountsNext ==
    ASSUME Inv', NEW o \in Order, NEW k \in Kind
    PROVE  Given(o, k)' \in Nat
<1>1. refund'[o][k] \in RefundRow
  BY DEF Inv, TypeOK
<1> QED BY <1>1, AmountAssumption DEF RefundRow, Given

LEMMA AmountKept ==
    ASSUME RefundsGo, NEW o \in Order, NEW k \in Kind, refund[o][k].status # "none"
    PROVE  refund'[o][k].amount = refund[o][k].amount
  BY DEF RefundsGo, RefundGoes, RefundStarts

LEMMA RefundKeeps ==
    ASSUME Inv, Inv', RowsGo, RefundsGo, NEW o \in Order, RefundOK(o)
    PROVE  RefundOK(o)'
<1>1. /\ ord[o].refunded \in Nat /\ ord'[o].refunded \in Nat
      /\ \A k \in Kind : refund[o][k].amount \in Nat /\ refund'[o][k].amount \in Nat
  <2>1. \A k \in Kind : refund[o][k] \in RefundRow /\ refund'[o][k] \in RefundRow
    BY DEF Inv, TypeOK
  <2>2. ord[o] \in OrderRow /\ ord'[o] \in OrderRow
    BY DEF Inv, TypeOK
  <2> QED BY <2>1, <2>2, AmountAssumption DEF RefundRow, OrderRow
<1>2. ASSUME NEW k \in Kind
      PROVE  \/ refund'[o][k].amount = refund[o][k].amount
             \/ /\ refund[o][k].amount = 0 /\ refund'[o][k].amount + ord[o].refunded <= ord'[o].refunded
                /\ \A m \in Kind \ {k} : refund'[o][m] = refund[o][m]
  BY DEF RefundsGo, RefundGoes, RefundStarts, RefundOK
<1>3. ord[o].refunded <= ord'[o].refunded \/ \A k \in Kind : refund[o][k].status = "none" /\ ord[o].pay \in Open
  BY <1>1 DEF RowsGo, RowGoes, Inv, OrdersSound, Sound, RefundOK, Open
<1>4. (\A k \in Kind : refund[o][k].status = "none" /\ ord[o].pay \in Open) =>
         \A k \in Kind : refund'[o][k].amount = 0
  BY DEF RefundsGo, RefundGoes, RefundStarts, RefundOK
<1>5. refund'[o]["partial"].amount + refund'[o]["cancel"].amount <= ord'[o].refunded
  <2>1. "partial" \in Kind /\ "cancel" \in Kind /\ Kind = {"partial", "cancel"}
    BY DEF Kind
  <2>2. refund[o]["partial"].amount + refund[o]["cancel"].amount <= ord[o].refunded
    BY DEF RefundOK
  <2>3. CASE \A k \in Kind : refund'[o][k].amount = 0
    BY <1>1, <2>1, <2>3
  <2>4. CASE ord[o].refunded <= ord'[o].refunded
    <3>1. CASE refund'[o]["partial"].amount = refund[o]["partial"].amount
               /\ refund'[o]["cancel"].amount = refund[o]["cancel"].amount
      BY <1>1, <2>1, <2>2, <2>4, <3>1
    <3>2. CASE refund'[o]["partial"].amount # refund[o]["partial"].amount
      BY <1>1, <1>2, <2>1, <2>2, <3>2
    <3>3. CASE refund'[o]["cancel"].amount # refund[o]["cancel"].amount
      BY <1>1, <1>2, <2>1, <2>2, <3>3
    <3> QED BY <3>1, <3>2, <3>3
  <2> QED BY <1>3, <1>4, <2>3, <2>4
<1>6. \A k \in Kind : refund'[o][k].status = "none" => refund'[o][k].amount = 0
  BY DEF RefundsGo, RefundGoes, RefundStarts, RefundOK
<1>7. ord'[o].pay \in Open => \A k \in Kind : refund'[o][k].status = "none"
  <2>1. ord'[o].pay \in Open => ord[o].pay \in Open
    BY DEF RowsGo, RowGoes
  <2> QED BY <2>1 DEF RefundsGo, RefundGoes, RefundStarts, RefundOK
<1> QED BY <1>5, <1>6, <1>7 DEF RefundOK

\* The order of a refund has been paid, before the step as well as after it.
LEMMA PaidBefore ==
    ASSUME Watching, RowsGo, NEW o \in Order, ord'[o].pay \in Counted,
           ord[o].by # NoTrade \/ \E k \in Kind : RefundOK(o) /\ refund[o][k].status # "none"
    PROVE  ord[o].pay \in Counted
<1>1. ord[o].pay \in Counted \cup {"pending", "authorizing"}
  BY DEF RowsGo, RowGoes
<1>2. Sound(ord[o]) /\ RowOK(ord[o]) /\ ord[o].via \in Channel \cup {"none"}
  BY DEF Watching, Inv, TypeOK, OrderRow, OrdersSound, RowsOK
<1>3. ord[o].by # NoTrade => ord[o].pay \notin {"pending", "authorizing"}
  BY <1>2 DEF Sound, RowOK, Channel
<1>4. (\E k \in Kind : RefundOK(o) /\ refund[o][k].status # "none") => ord[o].pay \notin {"pending", "authorizing"}
  BY DEF RefundOK, Open
<1> QED BY <1>1, <1>3, <1>4

LEMMA PaidJobKeeps ==
    ASSUME Watching, Watching', RowsGo, RefundInvariant, RefundsGo, NEW w \in Worker
    PROVE  PaidJobOK(w)'
<1> SUFFICES ASSUME job'[w].op = "refund", ord'[job'[w].order].pay \in Counted
             PROVE  refund'[job'[w].order][job'[w].kind].status = "processing"
  BY DEF PaidJobOK
<1>1. PICK o \in Order, k \in Kind : job'[w].order = o /\ job'[w].kind = k
  <2>1. job'[w] \in Job
    BY DEF Watching, Inv, TypeOK
  <2> QED BY <2>1, JobFields
<1>2. CASE Carrying(w, o, k)
  <2>1. refund[o][k].status # "none" /\ \A v \in Worker : Carrying(v, o, k) => v = w
    BY <1>2 DEF RefundInvariant, RefundsOK, ClaimOK
  <2>2. ord[o].pay \in Counted
    BY <1>1, <2>1, PaidBefore DEF RefundInvariant
  <2>3. refund[o][k].status = "processing"
    BY <1>2, <2>2 DEF RefundInvariant, PaidJobOK, Carrying
  <2>4. ~RefundWritten(o, k)
    BY <2>1 DEF RefundWritten
  <2>5. RefundGoes(o, k)
    BY DEF RefundsGo
  <2>6. refund'[o][k].status = "processing"
    BY <2>2, <2>3, <2>4, <2>5 DEF RefundGoes, RefundStarts, Counted, GoesBack
  <2> QED BY <1>1, <2>6
<1>3. CASE ~Carrying(w, o, k)
  BY <1>1, <1>3 DEF RefundsGo, RefundJobGoes, Carrying
<1> QED BY <1>2, <1>3

\* While the payment counts, what a refund has given stays given.
LEMMA GivenStays ==
    ASSUME Inv, RefundInvariant, RefundsGo, faults' = 0, NEW o \in Order, NEW k \in Kind, ord[o].pay \in Counted,
           refund[o][k].status = "done" \/ IsOk(o, k)
    PROVE  /\ Given(o, k)' = refund[o][k].amount /\ Given(o, k) = refund[o][k].amount
           /\ refund[o][k].status # "none"
<1>1. RefundGoes(o, k) /\ ord[o].pay \notin GoesBack
  BY DEF RefundsGo, Counted, GoesBack
<1>2. CASE IsOk(o, k)
  <2>1. PICK w \in Worker : Carrying(w, o, k) /\ job[w].answer = "ok"
    BY <1>2 DEF IsOk
  <2>2. refund[o][k].status = "processing"
    BY <2>1 DEF RefundInvariant, PaidJobOK, Carrying
  <2>3. refund'[o][k].amount = refund[o][k].amount
    BY <2>2, AmountKept
  <2>4. refund'[o][k].status = "done" \/ (job'[w] = job[w])
    <3>1. RefundJobGoes(w)
      BY DEF RefundsGo
    <3> QED BY <2>1, <3>1 DEF RefundJobGoes, Carrying
  <2>5. refund'[o][k].status = "done" \/ IsOk(o, k)'
    BY <2>1, <2>4 DEF IsOk, Carrying
  <2> QED BY <1>2, <2>2, <2>3, <2>5 DEF Given
<1>3. CASE refund[o][k].status = "done"
  <2>1. ~RefundWritten(o, k)
    <3>1. ASSUME NEW w \in Worker, Carrying(w, o, k) PROVE FALSE
      BY <1>3, <3>1 DEF RefundInvariant, PaidJobOK, Carrying
    <3> QED BY <3>1 DEF RefundWritten
  <2>2. refund'[o][k] = refund[o][k]
    BY <1>1, <1>3, <2>1 DEF RefundGoes, RefundStarts
  <2> QED BY <1>3, <2>2 DEF Given
<1> QED BY <1>2, <1>3

LEMMA GivenGrows ==
    ASSUME Inv, Inv', RefundInvariant, RefundsGo, faults' = 0, NEW o \in Order, NEW k \in Kind, ord[o].pay \in Counted
    PROVE  Given(o, k) <= Given(o, k)'
<1>1. refund[o][k].amount \in Nat /\ Given(o, k) \in Nat
  BY Amounts
<1>2. Given(o, k)' \in Nat
  BY AmountsNext
<1>3. CASE refund[o][k].status = "done" \/ IsOk(o, k)
  BY <1>1, <1>3, GivenStays
<1>4. CASE ~(refund[o][k].status = "done" \/ IsOk(o, k))
  <2>1. Given(o, k) = 0
    BY <1>4 DEF Given
  <2> QED BY <1>2, <2>1
<1> QED BY <1>3, <1>4

\* A payment that counts goes back only by what one refund comes to give.
LEMMA ReturnGiven ==
    ASSUME Inv, RefundInvariant, RefundsGo, faults' = 0, NEW o \in Order, ord[o].pay \in Counted, Returned(o)
    PROVE  \E k \in Kind : /\ Given(o, k) = 0
                           /\ trade'[ord[o].by].back <= trade[ord[o].by].back + Given(o, k)'
<1> DEFINE t == ord[o].by
<1>1. ord[o].pay \notin GoesBack
  BY DEF Counted, GoesBack
<1>2. ASSUME NEW k \in Kind, refund[o][k].status \in {"manual", "failed"}, refund'[o][k].status = "done",
             trade'[t].back <= trade[t].back + refund[o][k].amount
      PROVE  Given(o, k) = 0 /\ trade'[t].back <= trade[t].back + Given(o, k)'
  <2>1. ~IsOk(o, k)
    BY <1>2 DEF RefundInvariant, PaidJobOK, Carrying, IsOk
  <2>2. refund'[o][k].amount = refund[o][k].amount
    BY <1>2, AmountKept
  <2>3. Given(o, k) = 0
    BY <1>2, <2>1 DEF Given
  <2>4. Given(o, k)' = refund[o][k].amount
    BY <1>2, <2>2 DEF Given
  <2> QED BY <1>2, <2>3, <2>4
<1>3. ASSUME NEW w \in Worker, NEW k \in Kind, Carrying(w, o, k), job[w].answer = "none", Carrying(w, o, k)',
             job'[w].answer = "ok", trade'[t].back <= trade[t].back + refund[o][k].amount
      PROVE  Given(o, k) = 0 /\ trade'[t].back <= trade[t].back + Given(o, k)'
  <2>1. refund[o][k].status = "processing" /\ \A v \in Worker : Carrying(v, o, k) => v = w
    BY <1>3 DEF RefundInvariant, PaidJobOK, RefundsOK, ClaimOK, Carrying
  <2>2. ~IsOk(o, k)
    BY <1>3, <2>1 DEF IsOk
  <2>3. refund'[o][k].amount = refund[o][k].amount
    BY <2>1, AmountKept
  <2>4. IsOk(o, k)'
    BY <1>3 DEF IsOk
  <2>5. Given(o, k) = 0
    BY <2>1, <2>2 DEF Given
  <2>6. Given(o, k)' = refund[o][k].amount
    BY <2>3, <2>4 DEF Given
  <2> QED BY <1>3, <2>5, <2>6
<1> QED BY <1>1, <1>2, <1>3 DEF Returned

\* An order gets its payment from a trade number of which nothing has gone back.
LEMMA NewPayment ==
    ASSUME Watching, Watching', Moves, NEW o \in Order, ord[o].by = NoTrade, ord'[o].by # NoTrade,
           ord'[o].pay \in Counted
    PROVE  trade'[ord'[o].by].back = 0
<1>0. PICK t \in Trade : t = ord'[o].by
  BY DEF Moves, BysGo, ByGoes
<1>1. /\ t \in Trade /\ o \in trade[t].orders /\ (ord[o].via # "table" => trade[t].orders = {o})
      /\ ord[o].via = "linepay" => \E w \in Worker : OfCharge(w, t) /\ job[w].step = "claim"
  BY <1>0 DEF Moves, BysGo, ByGoes
<1>2. ord[o].via \in {"ecpay", "linepay"} /\ trade[t].orders = {o}
  <2>1. ord'[o].via = ord[o].via /\ ord[o].via # "none"
    BY <1>0, <1>1, MoveFacts DEF Watching
  <2>2. ord'[o].via \in {"ecpay", "linepay"}
    BY <2>1 DEF Watching, Inv, TypeOK, OrderRow, OrdersSound, Sound, Channel, Counted
  <2> QED BY <1>1, <2>1, <2>2
<1>3. ASSUME NEW w \in Worker, OfCharge(w, t)
      PROVE  ord[o].via = "linepay" /\ (job[w].step \notin {"giveback", "undo"})
  <2>1. ord[o].via = "linepay"
    BY <1>2, <1>3, OwnCharge DEF OfCharge, IsCharge, Watching
  <2>2. \A v \in Worker : OfCharge(v, t) => v = w
    BY <1>3 DEF Watching, WatchInv, ChargeOK, OfCharge, IsCharge
  <2> QED BY <1>1, <2>1, <2>2
<1>4. trade[t].back = 0
  <2>1. CASE ord[o].via = "ecpay"
    BY <1>1, <2>1, NoTradeAssumption DEF Watching, WatchInv, SideOK
  <2>2. CASE ord[o].via = "linepay"
    BY <1>1, <2>2 DEF Watching, WatchInv, ChargeOK, OfCharge, IsCharge
  <2> QED BY <1>2, <2>1, <2>2
<1>5. ~SideUndone(t)
  BY <1>3 DEF SideUndone
<1>6. ~SideReturns(t)
  <2>1. ASSUME NEW p \in Order, ord[p].by = t PROVE FALSE
    <3>1. p \in trade[t].orders
      BY <1>1, <2>1, NoTradeAssumption DEF Watching, WatchInv, ByOK
    <3> QED BY <1>1, <1>2, <2>1, <3>1, NoTradeAssumption
  <2> QED BY <2>1 DEF SideReturns
<1>7. SideGoes(t)
  BY <1>1 DEF Moves, SidesGo
<1> QED BY <1>0, <1>4, <1>5, <1>6, <1>7 DEF SideGoes, SameBack, SideStarts, SidePaid, SideCharged

LEMMA GivenKeeps ==
    ASSUME Watching, Watching', Moves, RefundInvariant, RefundsGo, NEW o \in Order
    PROVE  GivenOK(o)'
<1> SUFFICES ASSUME faults' = 0, ord'[o].by # NoTrade, ord'[o].pay \in Counted
             PROVE  trade'[ord'[o].by].back <= Given(o, "partial")' + Given(o, "cancel")'
  BY DEF GivenOK
<1>0. PICK t \in Trade : t = ord'[o].by
  <2>1. ord' \in [Order -> OrderRow]'
    BY DEF Watching, Inv, TypeOK
  <2>2. ord'[o].by \in Trade \cup {NoTrade}
    BY <2>1 DEF OrderRow
  <2> QED BY <2>2
<1>1. faults = 0 /\ t \in Trade /\ Inv /\ Inv'
  BY <1>0 DEF Moves, ChargesGo, Watching, Inv, TypeOK, OrderRow
<1>2. /\ Kind = {"partial", "cancel"} /\ trade[t].back \in Nat /\ trade'[t].back \in Nat
      /\ \A k \in Kind : Given(o, k) \in Nat
      /\ \A k \in Kind : Given(o, k)' \in Nat
  <2>1. \A k \in Kind : Given(o, k) \in Nat
    BY <1>1, Amounts
  <2>2. ASSUME NEW k \in Kind PROVE Given(o, k)' \in Nat
    BY <1>1, AmountsNext
  <2>3. trade[t] \in TradeRow /\ trade'[t] \in TradeRow
    BY <1>1 DEF Inv, TypeOK
  <2> QED BY <2>1, <2>2, <2>3 DEF Kind, TradeRow
<1>3. CASE ord[o].by = NoTrade
  <2>1. trade'[t].back = 0
    BY <1>0, <1>3, NewPayment
  <2> QED BY <1>2, <2>1, <1>0
<1>4. CASE ord[o].by # NoTrade
  <2>1. t = ord[o].by /\ ord[o].pay \in Counted /\ ord[o].via \in {"ecpay", "linepay"}
    <3>1. t = ord[o].by /\ ord[o].pay \in Counted
      BY <1>0, <1>1, <1>4, MoveFacts, PaidBefore DEF Moves
    <3>2. ord[o].via \in {"ecpay", "linepay"}
      BY <1>1, <3>1 DEF Inv, TypeOK, OrderRow, OrdersSound, Sound, Channel, Counted
    <3> QED BY <3>1, <3>2
  <2>2. trade[t].orders = {o}
    BY <1>4, <2>1 DEF Watching, WatchInv, ByOK
  <2>3. trade[t].back <= Given(o, "partial") + Given(o, "cancel")
    BY <1>1, <1>4, <2>1 DEF RefundInvariant, GivenOK
  <2>4. \A k \in Kind : Given(o, k) <= Given(o, k)'
    BY <1>1, <2>1, GivenGrows
  <2>5. CASE trade'[t].back = trade[t].back
    <3> QED BY <1>2, <2>3, <2>4, <2>5, <1>0
  <2>6. CASE SideReturns(t)
    <3>1. PICK p \in Order : ord[p].by = t /\ Returned(p)
      BY <2>6 DEF SideReturns
    <3>2. p = o
      <4>1. p \in trade[t].orders
        BY <1>4, <2>1, <3>1 DEF Watching, WatchInv, ByOK
      <4> QED BY <2>2, <4>1
    <3>3. \E k \in Kind : Given(o, k) = 0 /\ trade'[t].back <= trade[t].back + Given(o, k)'
      BY <1>1, <2>1, <3>1, <3>2, ReturnGiven
    <3>4. \/ Given(o, "partial") = 0 /\ trade'[t].back <= trade[t].back + Given(o, "partial")'
          \/ Given(o, "cancel") = 0 /\ trade'[t].back <= trade[t].back + Given(o, "cancel")'
      BY <3>3 DEF Kind
    <3> QED BY <1>2, <2>3, <2>4, <3>4, <1>0
  <2>7. ~SideUndone(t)
    <3>1. ASSUME NEW w \in Worker, OfCharge(w, t) PROVE FALSE
      <4>1. job[w].order = o
        BY <1>1, <2>2, <3>1, OwnCharge DEF OfCharge, IsCharge, Watching
      <4> QED BY <2>1, <3>1, <4>1 DEF Watching, WatchInv, ChargeOK, OfCharge, IsCharge
    <3> QED BY <3>1 DEF SideUndone
  <2>8. SideGoes(t)
    BY <1>1 DEF Moves, SidesGo
  <2> QED BY <2>2, <2>5, <2>6, <2>7, <2>8 DEF SideGoes, SameBack, SideStarts, SidePaid, SideCharged, Unused
<1> QED BY <1>3, <1>4

LEMMA InitRefunds ==
    ASSUME Init
    PROVE  RefundInvariant
<1>1. \A o \in Order : ord[o] = NoOrder /\ \A k \in Kind : refund[o][k] = NoRefund
  BY DEF Init
<1>2. \A w \in Worker : job[w].op = "idle"
  BY DEF Init, Idle
<1>3. NoOrder.by = NoTrade /\ NoOrder.refunded = 0 /\ NoRefund.amount = 0 /\ NoRefund.status = "none"
  BY DEF NoOrder, NoRefund
<1> QED BY <1>1, <1>2, <1>3 DEF RefundInvariant, RefundsOK, ClaimOK, CancelOK, Carrying, RefundOK, GivenOK, PaidJobOK, Kind

LEMMA NextRefundInvariant ==
    ASSUME Watching, RefundInvariant, [Next]_vars
    PROVE  Watching' /\ RefundInvariant'
<1>1. Watching' /\ Moves /\ Inv /\ Inv' /\ RowsGo
  BY NextWatch DEF Watching, Moves
<1>2. RefundsOK'
  BY NextInv, NextRefunds DEF Watching, RefundInvariant, RefundsKept
<1>3. RefundsGo
  BY NextRefundsGo DEF Watching, RefundInvariant
<1>4. \A o \in Order : RefundOK(o)' /\ GivenOK(o)'
  BY <1>1, <1>3, RefundKeeps, GivenKeeps DEF RefundInvariant
<1>5. \A w \in Worker : PaidJobOK(w)'
  BY <1>1, <1>3, PaidJobKeeps
<1> QED BY <1>1, <1>2, <1>4, <1>5 DEF RefundInvariant

\* The provider has returned no more of a payment that counts than the order's
\* refunds say, however often they were taken up, if nothing crashed and no answer
\* was lost (payment_service.process_refund).
THEOREM ReturnedOnce == Spec => []NotReturnedTwice
<1>1. Init => Watching /\ RefundInvariant
  BY InitWatch, InitRefunds
<1>2. Watching /\ RefundInvariant /\ [Next]_vars => (Watching /\ RefundInvariant)'
  BY NextRefundInvariant
<1>3. Watching /\ RefundInvariant /\ Attended => NotReturnedTwice
  <2> SUFFICES ASSUME Watching, RefundInvariant, Attended, NEW o \in Order, faults = 0, ord[o].by # NoTrade,
                      ord[o].pay \in {"paid", "at_once"}
               PROVE  trade[ord[o].by].back <= ord[o].refunded
    BY DEF NotReturnedTwice, Attended
  <2>1. /\ trade[ord[o].by].back <= Given(o, "partial") + Given(o, "cancel")
        /\ refund[o]["partial"].amount + refund[o]["cancel"].amount <= ord[o].refunded
    BY DEF RefundInvariant, GivenOK, RefundOK, Counted
  <2>2. ASSUME NEW k \in Kind PROVE Given(o, k) \in Nat /\ Given(o, k) <= refund[o][k].amount
                                    /\ refund[o][k].amount \in Nat
    <3>1. Given(o, k) \in Nat /\ refund[o][k].amount \in Nat
      BY Amounts DEF Watching
    <3> QED BY <3>1 DEF Given
  <2>3. "partial" \in Kind /\ "cancel" \in Kind
    BY DEF Kind
  <2>4. trade[ord[o].by].back \in Nat /\ ord[o].refunded \in Nat
    BY AmountAssumption DEF Watching, Inv, TypeOK, OrderRow, TradeRow
  <2> QED BY <2>1, <2>2, <2>3, <2>4
<1> QED BY <1>1, <1>2, <1>3, SomebodyAttends, PTL DEF Spec

=============================================================================
