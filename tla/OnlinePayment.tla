---------------------------- MODULE OnlinePayment ----------------------------
(***************************************************************************)
(* Orders that are paid through a payment provider: online orders on an    *)
(* ECPay page (payment_ecpay), a table's bill on an ECPay page             *)
(* (table_pay_service) and POS orders charged by LINE Pay                  *)
(* (payment_service.charge_linepay), and the refunds that go back the same *)
(* way (payment_service, routes/finance).                                  *)
(*                                                                         *)
(* An action is one transaction, or one call of the provider.  Work that   *)
(* commits and then goes on - the expiry sweep, a charge, a claimed table  *)
(* payment, a claimed refund - is a job of a worker: a request, a deferred *)
(* task or a background thread.  A job keeps what it read; it dies with    *)
(* its process.                                                            *)
(*                                                                         *)
(* The provider is outside: it takes a payment for a trade number, tells   *)
(* of it as often as it likes, and returns money up to what it took.       *)
(***************************************************************************)
EXTENDS Integers, FiniteSets, FiniteSetsExt, TLC

CONSTANTS
    Order,       \* orders
    Trade,       \* merchant trade numbers
    Worker,      \* requests, deferred tasks and background threads
    Channels,    \* [Order -> the ways it may be paid]
    Total,       \* amount of an order
    AutoRefund,  \* setting ecpay_auto_refund
    MaxFault,    \* bound: crashes and provider answers that got lost
    NoTrade      \* no trade number yet

Channel == {"ecpay", "linepay", "table"}

ASSUME ChannelAssumption == Channels \in [Order -> SUBSET Channel]
ASSUME AmountAssumption == Total \in Nat \ {0} /\ MaxFault \in Nat /\ AutoRefund \in BOOLEAN
ASSUME NoTradeAssumption == NoTrade \notin Trade

VARIABLES
    ord,         \* the order rows
    trade,       \* the provider's side of each trade number
    bill,        \* table_payment.status
    refund,      \* the refund rows of an order: one of each kind
    job,         \* what each worker is doing
    faults       \* crashes and lost answers so far

vars == <<ord, trade, bill, refund, job, faults>>

\* payment_status; the code's empty string is "at_once".
PayStatus ==
    {"pending", "paid", "expired", "authorizing", "at_once", "unpaid", "settled",
     "refund_required", "refunded"}

\* ref is payment_ref, the trade number of the page opened last; by the payment
\* the order was marked paid with; due whether a payment deadline is running;
\* alert whether staff have been told to look into it.
OrderRow ==
    [via: Channel \cup {"none"}, live: BOOLEAN, pay: PayStatus \cup {"none"}, total: 0..Total,
     ref: Trade \cup {NoTrade}, by: Trade \cup {NoTrade}, due: BOOLEAN, refunded: 0..Total,
     alert: BOOLEAN]

NoOrder ==
    [via |-> "none", live |-> FALSE, pay |-> "none", total |-> 0, ref |-> NoTrade,
     by |-> NoTrade, due |-> FALSE, refunded |-> 0, alert |-> FALSE]

Placed(via, pay) == [NoOrder EXCEPT !.via = via, !.live = TRUE, !.pay = pay, !.total = Total]

\* told: the program has heard of the payment; back: what was returned of it.
TradeRow ==
    [orders: SUBSET Order, amount: Nat, charged: BOOLEAN, told: BOOLEAN, back: Nat]

NewTrade(orders, amount) ==
    [orders |-> orders, amount |-> amount, charged |-> FALSE, told |-> FALSE, back |-> 0]

BillStatus == {"none", "pending", "processing", "paid", "conflict", "failed"}

Kind == {"partial", "cancel"}
RefundStatus == {"none", "manual", "pending", "processing", "failed", "done"}
RefundRow == [amount: 0..Total, status: RefundStatus]
NoRefund == [amount |-> 0, status |-> "none"]

Idle == [op |-> "idle"]
Answer == {"none", "ok", "error"}

Job ==
    {Idle}
    \cup [op: {"sweep"}, order: Order, ref: Trade \cup {NoTrade}, step: {"ask", "expire", "cancel"}]
    \cup [op: {"charge"}, order: Order, trade: Trade, step: {"pay", "claim", "giveback", "undo", "cancel"}]
    \cup [op: {"bill"}, trade: Trade, answer: Answer]
    \cup [op: {"refund"}, order: Order, kind: Kind, answer: Answer]
    \cup [op: {"auto"}, order: Order, amount: 0..Total, answer: Answer]

TypeOK ==
    /\ ord \in [Order -> OrderRow]
    /\ trade \in [Trade -> TradeRow]
    /\ bill \in [Trade -> BillStatus]
    /\ refund \in [Order -> [Kind -> RefundRow]]
    /\ job \in [Worker -> Job]
    /\ faults \in 0..MaxFault

-----------------------------------------------------------------------------
\* What the actions share.

IsPaid(o) == ord[o].pay \in {"at_once", "settled", "paid"}
Left(o) == ord[o].total - ord[o].refunded
Unused(t) == trade[t].orders = {}
Start(w, j) == job[w] = Idle /\ job' = [job EXCEPT ![w] = j]
Goto(w, step) == job' = [job EXCEPT ![w].step = step]
End(w) == job' = [job EXCEPT ![w] = Idle]
Fault == faults < MaxFault /\ faults' = faults + 1

\* Slip: an order that has expired is not looked for.
PayAfterPaymentInTime(o) ==
    IF ord[o].pay = "pending" THEN IF ord[o].live THEN "paid" ELSE "refund_required"
    ELSE ord[o].pay

\* mark_paid: the first UPDATE takes a pending order that is not cancelled, the
\* second one that has been cancelled or has expired.
PayAfterPayment(o) ==
    IF ord[o].pay = "pending" /\ ord[o].live THEN "paid"
    ELSE IF ord[o].pay \in {"pending", "expired"} THEN "refund_required"
    ELSE ord[o].pay

MarkPaid(o, t) ==
    /\ ord' = [ord EXCEPT ![o].pay = PayAfterPayment(o),
                          ![o].by = IF PayAfterPayment(o) = ord[o].pay THEN @ ELSE t]
    /\ trade' = [trade EXCEPT ![t].told = TRUE]

\* flag_refund_if_paid.
PayAfterCancel(o) ==
    IF ord[o].pay \in {"paid", "settled"} THEN "refund_required" ELSE ord[o].pay

\* Slip: what was refunded before is owed again.
OwedInFull(o) ==
    IF PayAfterCancel(o) \in {"at_once", "refund_required"} THEN ord[o].total ELSE 0

\* What a cancellation owes: all that was not refunded yet, if it was paid.
Owed(o) == IF PayAfterCancel(o) \in {"at_once", "refund_required"} THEN Left(o) ELSE 0

CancelRow(o) ==
    [amount |-> Owed(o),
     status |-> IF PayAfterCancel(o) = "refund_required" THEN "manual" ELSE "pending"]

Cancel(o) ==
    /\ ord[o].live
    /\ ord' = [ord EXCEPT ![o].live = FALSE, ![o].pay = PayAfterCancel(o),
                          ![o].refunded = @ + Owed(o)]
    /\ refund' = [refund EXCEPT ![o]["cancel"] = IF Owed(o) > 0 THEN CancelRow(o) ELSE @]

\* system_cancel swallows the error when somebody has cancelled before.
SystemCancel(o) == Cancel(o) \/ (~ord[o].live /\ UNCHANGED <<ord, refund>>)

-----------------------------------------------------------------------------
\* Online orders on an ECPay page.

PlaceOnline(o) ==
    /\ ord[o].via = "none" /\ "ecpay" \in Channels[o]
    /\ ord' = [ord EXCEPT ![o] = Placed("ecpay", "pending")]
    /\ UNCHANGED <<trade, bill, refund, job, faults>>

\* Every time the page is opened the order gets a new trade number.
OpenPage(o, t) ==
    /\ ord[o].via = "ecpay" /\ ord[o].pay = "pending"
    /\ Unused(t)
    /\ trade' = [trade EXCEPT ![t] = NewTrade({o}, ord[o].total)]
    /\ ord' = [ord EXCEPT ![o].ref = t]
    /\ UNCHANGED <<bill, refund, job, faults>>

\* The customer asked for an ATM account or a store code on this page.
PaymentInfo(o, t) ==
    /\ ord[o].via = "ecpay" /\ ord[o].pay = "pending"
    /\ ord[o].ref = t
    /\ ord' = [ord EXCEPT ![o].due = TRUE]
    /\ UNCHANGED <<trade, bill, refund, job, faults>>

\* The deadline and the 30 minutes of grace pass.
DuePasses(o) ==
    /\ ord[o].due
    /\ ord' = [ord EXCEPT ![o].due = FALSE]
    /\ UNCHANGED <<trade, bill, refund, job, faults>>

\* The provider takes the money; a page that was opened stays payable.
CustomerPays(t) ==
    /\ ~Unused(t) /\ ~trade[t].charged
    /\ \E o \in trade[t].orders : ord[o].via # "linepay"
    /\ trade' = [trade EXCEPT ![t].charged = TRUE]
    /\ UNCHANGED <<ord, bill, refund, job, faults>>

\* The provider's notification, or the customer's browser coming back.
Notify(o, t) ==
    /\ trade[t].charged /\ trade[t].orders = {o} /\ bill[t] = "none"
    /\ ord[o].via = "ecpay"
    /\ MarkPaid(o, t)
    /\ UNCHANGED <<bill, refund, job, faults>>

\* Slip: an order whose page was never opened is left out.
SweepSelectPaged(w, o) ==
    /\ ord[o].via = "ecpay" /\ ord[o].pay = "pending" /\ ~ord[o].due /\ ord[o].ref # NoTrade
    /\ Start(w, [op |-> "sweep", order |-> o, ref |-> ord[o].ref, step |-> "ask"])
    /\ UNCHANGED <<ord, trade, bill, refund, faults>>

\* The sweep reads the overdue orders, then asks the provider about each.
SweepSelect(w, o) ==
    /\ ord[o].via = "ecpay" /\ ord[o].pay = "pending" /\ ~ord[o].due
    /\ Start(w, [op |-> "sweep", order |-> o, ref |-> ord[o].ref, step |-> "ask"])
    /\ UNCHANGED <<ord, trade, bill, refund, faults>>

SweepPaid(w) ==
    /\ job[w].op = "sweep" /\ job[w].step = "ask" /\ job[w].ref # NoTrade
    /\ trade[job[w].ref].charged
    /\ MarkPaid(job[w].order, job[w].ref)
    /\ End(w)
    /\ UNCHANGED <<bill, refund, faults>>

SweepUnpaid(w) ==
    /\ job[w].op = "sweep" /\ job[w].step = "ask"
    /\ job[w].ref # NoTrade => ~trade[job[w].ref].charged
    /\ Goto(w, "expire")
    /\ UNCHANGED <<ord, trade, bill, refund, faults>>

\* query_trade fails: the order is left for the next sweep.
SweepUnknown(w) ==
    /\ job[w].op = "sweep" /\ job[w].step = "ask" /\ job[w].ref # NoTrade
    /\ End(w)
    /\ UNCHANGED <<ord, trade, bill, refund, faults>>

\* Slip: the status that was read is trusted.
MayExpireAnyway(o) == TRUE

MayExpire(o) == ord[o].pay = "pending"

SweepExpire(w) ==
    /\ job[w].op = "sweep" /\ job[w].step = "expire"
    /\ MayExpire(job[w].order)
    /\ ord' = [ord EXCEPT ![job[w].order].pay = "expired"]
    /\ Goto(w, "cancel")
    /\ UNCHANGED <<trade, bill, refund, faults>>

SweepTooLate(w) ==
    /\ job[w].op = "sweep" /\ job[w].step = "expire"
    /\ ~MayExpire(job[w].order)
    /\ End(w)
    /\ UNCHANGED <<ord, trade, bill, refund, faults>>

SweepCancel(w) ==
    /\ job[w].op = "sweep" /\ job[w].step = "cancel"
    /\ SystemCancel(job[w].order)
    /\ End(w)
    /\ UNCHANGED <<trade, bill, faults>>

-----------------------------------------------------------------------------
\* POS orders charged by LINE Pay.

PlaceLinePay(w, o, t) ==
    /\ ord[o].via = "none" /\ "linepay" \in Channels[o]
    /\ Unused(t)
    /\ ord' = [ord EXCEPT ![o] = Placed("linepay", "authorizing")]
    /\ trade' = [trade EXCEPT ![t] = NewTrade({o}, Total)]
    /\ Start(w, [op |-> "charge", order |-> o, trade |-> t, step |-> "pay"])
    /\ UNCHANGED <<bill, refund, faults>>

Charging(w, step) == job[w].op = "charge" /\ job[w].step = step

LinePaySucceeds(w) ==
    /\ Charging(w, "pay")
    /\ trade' = [trade EXCEPT ![job[w].trade].charged = TRUE, ![job[w].trade].told = TRUE]
    /\ Goto(w, "claim")
    /\ UNCHANGED <<ord, bill, refund, faults>>

LinePayRefuses(w) ==
    /\ Charging(w, "pay")
    /\ Goto(w, "cancel")
    /\ UNCHANGED <<ord, trade, bill, refund, faults>>

\* The call and the query after it time out: the money may have been taken.
LinePayUnknown(w, taken) ==
    /\ Charging(w, "pay")
    /\ trade' = [trade EXCEPT ![job[w].trade].charged = taken, ![job[w].trade].told = taken]
    /\ Goto(w, "undo")
    /\ UNCHANGED <<ord, bill, refund, faults>>

\* The connection breaks after the money was taken; that reads as a refusal.
LinePayBroken(w) ==
    /\ Charging(w, "pay")
    /\ Fault
    /\ trade' = [trade EXCEPT ![job[w].trade].charged = TRUE]
    /\ Goto(w, "cancel")
    /\ UNCHANGED <<ord, bill, refund>>

\* Slip: whether the order was cancelled meanwhile is not asked.
MayClaimAnyway(o) == ord[o].pay = "authorizing"

MayClaim(o) == ord[o].pay = "authorizing" /\ ord[o].live

ChargeClaim(w) ==
    /\ Charging(w, "claim")
    /\ MayClaim(job[w].order)
    /\ ord' = [ord EXCEPT ![job[w].order].pay = "at_once", ![job[w].order].by = job[w].trade]
    /\ End(w)
    /\ UNCHANGED <<trade, bill, refund, faults>>

\* Slip: a charge that lost its order is left at that.
ChargeLostForGood(w) ==
    /\ Charging(w, "claim")
    /\ ~MayClaim(job[w].order)
    /\ End(w)
    /\ UNCHANGED <<ord, trade, bill, refund, faults>>

ChargeLost(w) ==
    /\ Charging(w, "claim")
    /\ ~MayClaim(job[w].order)
    /\ Goto(w, "giveback")
    /\ UNCHANGED <<ord, trade, bill, refund, faults>>

\* linepay.refund of the whole charge, after a lost claim or an unknown result.
ChargeReturned(w) ==
    /\ Charging(w, "giveback") \/ Charging(w, "undo")
    /\ trade[job[w].trade].charged
    /\ trade' = [trade EXCEPT ![job[w].trade].back = trade[job[w].trade].amount]
    /\ IF job[w].step = "undo" THEN Goto(w, "cancel") ELSE End(w)
    /\ UNCHANGED <<ord, bill, refund, faults>>

\* Staff are told to look at the provider's console.
ChargeStays(w) ==
    /\ Charging(w, "giveback") \/ Charging(w, "undo")
    /\ ord' = [ord EXCEPT ![job[w].order].alert = TRUE]
    /\ End(w)
    /\ UNCHANGED <<trade, bill, refund, faults>>

ChargeCancel(w) ==
    /\ Charging(w, "cancel")
    /\ SystemCancel(job[w].order)
    /\ End(w)
    /\ UNCHANGED <<trade, bill, faults>>

-----------------------------------------------------------------------------
\* A table's bill on an ECPay page.

PlaceAtTable(o) ==
    /\ ord[o].via = "none" /\ "table" \in Channels[o]
    /\ ord' = [ord EXCEPT ![o] = Placed("table", "unpaid")]
    /\ UNCHANGED <<trade, bill, refund, job, faults>>

Unpaid == {o \in Order : ord[o].pay = "unpaid" /\ ord[o].live}

Summed(cost) == MapThenSumSet(LAMBDA o : cost[o], DOMAIN cost)

Due(orders) == Summed([o \in orders |-> ord[o].total])

\* Not without an order, nor for nothing (that the sum is a number at all is said
\* for the provers).
StartBill(t) ==
    /\ Unused(t)
    /\ Unpaid # {}
    /\ Due(Unpaid) \in 1..(Total * Cardinality(Order))
    /\ trade' = [trade EXCEPT ![t] = NewTrade(Unpaid, Due(Unpaid))]
    /\ bill' = [bill EXCEPT ![t] = "pending"]
    /\ UNCHANGED <<ord, refund, job, faults>>

\* The provider says that a payment failed; its page may be tried again.
BillFails(t) ==
    /\ bill[t] = "pending" /\ ~trade[t].charged
    /\ bill' = [bill EXCEPT ![t] = "failed"]
    /\ UNCHANGED <<ord, trade, refund, job, faults>>

\* Slip: whoever hears of the payment settles.
MayTakeAnyBill(t) == bill[t] \in {"pending", "processing"}

\* Notification and browser come at the same time: only one settles.
MayTakeBill(t) == bill[t] = "pending"

BillClaim(w, t) ==
    /\ bill[t] # "none" /\ trade[t].charged
    /\ MayTakeBill(t)
    /\ bill' = [bill EXCEPT ![t] = "processing"]
    /\ trade' = [trade EXCEPT ![t].told = TRUE]
    /\ Start(w, [op |-> "bill", trade |-> t, answer |-> "none"])
    /\ UNCHANGED <<ord, refund, faults>>

\* Anybody else is answered 'already'.
BillAlready(t) ==
    /\ bill[t] # "none" /\ trade[t].charged
    /\ ~MayTakeBill(t)
    /\ trade' = [trade EXCEPT ![t].told = TRUE]
    /\ UNCHANGED <<ord, bill, refund, job, faults>>

\* settle_table: all orders of the bill are still unpaid, and cost what was paid.
\* (It is one step here; what a void can do in the middle of it is Shop's subject.)
BillStands(t) == trade[t].orders \subseteq Unpaid /\ Due(trade[t].orders) = trade[t].amount

Settled(orders, t) ==
    [o \in Order |-> IF o \in orders THEN [ord[o] EXCEPT !.pay = "settled", !.by = t] ELSE ord[o]]

BillSettle(w) ==
    /\ job[w].op = "bill" /\ job[w].answer = "none"
    /\ BillStands(job[w].trade)
    /\ ord' = Settled(trade[job[w].trade].orders, job[w].trade)
    /\ job' = [job EXCEPT ![w].answer = "ok"]
    /\ UNCHANGED <<trade, bill, refund, faults>>

BillRefused(w) ==
    /\ job[w].op = "bill" /\ job[w].answer = "none"
    /\ ~BillStands(job[w].trade)
    /\ job' = [job EXCEPT ![w].answer = "error"]
    /\ UNCHANGED <<ord, trade, bill, refund, faults>>

\* Settled is one transaction, the table payment's own row the next.
BillWrite(w) ==
    /\ job[w].op = "bill" /\ job[w].answer # "none"
    /\ bill' = [bill EXCEPT ![job[w].trade] = IF job[w].answer = "ok" THEN "paid" ELSE "conflict"]
    /\ End(w)
    /\ UNCHANGED <<ord, trade, refund, faults>>

\* The same orders are settled at the counter.
CounterSettle(orders) ==
    /\ orders # {} /\ orders \subseteq Unpaid
    /\ ord' = Settled(orders, NoTrade)
    /\ UNCHANGED <<trade, bill, refund, job, faults>>

\* A voided line lowers what an unpaid order costs.
VoidUnpaid(o) ==
    /\ o \in Unpaid
    /\ ord[o].total > 0
    /\ ord' = [ord EXCEPT ![o].total = @ - 1]
    /\ UNCHANGED <<trade, bill, refund, job, faults>>

-----------------------------------------------------------------------------
\* Cancellations and refunds.

StaffCancel(o) ==
    /\ Cancel(o)
    /\ UNCHANGED <<trade, bill, job, faults>>

\* By provider if it can, else by hand: cash is handed out at once.
PartialStatus(o) ==
    CASE ord[o].via = "linepay"                 -> "pending"
      [] ord[o].via = "ecpay"                   -> IF AutoRefund THEN "pending" ELSE "manual"
      [] ord[o].via = "table"                   -> IF ord[o].by = NoTrade THEN "done" ELSE "manual"

PartialRefund(o, n) ==
    /\ ord[o].live /\ IsPaid(o)
    /\ 0 < n /\ n <= Left(o)
    /\ refund[o]["partial"] = NoRefund
    /\ ord' = [ord EXCEPT ![o].refunded = @ + n]
    /\ refund' = [refund EXCEPT ![o]["partial"] = [amount |-> n, status |-> PartialStatus(o)]]
    /\ UNCHANGED <<trade, bill, job, faults>>

\* Slip: the status is set without asking what it is.
MayProcessAny(o, k) == refund[o][k].status \in {"pending", "failed", "processing"}

MayProcess(o, k) == refund[o][k].status \in {"pending", "failed"}

\* process_refund claims a refund before it calls the provider.
RefundClaim(w, o, k) ==
    /\ MayProcess(o, k)
    /\ refund' = [refund EXCEPT ![o][k].status = "processing"]
    /\ Start(w, [op |-> "refund", order |-> o, kind |-> k, answer |-> "none"])
    /\ UNCHANGED <<ord, trade, bill, faults>>

\* A table payment is not refunded through the provider, nor one not known.
AutoRefundable(o) ==
    ord[o].via = "ecpay" /\ ord[o].pay = "refund_required" /\ ord[o].by # NoTrade

AutoAmount(o) == IF refund[o]["cancel"].amount > 0 THEN refund[o]["cancel"].amount ELSE ord[o].total

\* By the scheduler or by staff; nothing is claimed first.
AutoStart(w, o) ==
    /\ AutoRefundable(o)
    /\ Start(w, [op |-> "auto", order |-> o, amount |-> AutoAmount(o), answer |-> "none"])
    /\ UNCHANGED <<ord, trade, bill, refund, faults>>

Asking(w) == job[w].op \in {"refund", "auto"} /\ job[w].answer = "none"

Asked(w) ==
    IF job[w].op = "auto" THEN job[w].amount ELSE refund[job[w].order][job[w].kind].amount

\* The provider knows the payment by the trade number it was made with, while
\* the code sends the one of the page opened last.
CanReturn(o, n) ==
    /\ ord[o].by # NoTrade
    /\ ord[o].via = "ecpay" => ord[o].ref = ord[o].by
    /\ trade[ord[o].by].back + n <= trade[ord[o].by].amount

Return(w) ==
    LET o == job[w].order
    IN  /\ CanReturn(o, Asked(w))
        /\ trade' = [trade EXCEPT ![ord[o].by].back = @ + Asked(w)]

ProviderReturns(w) ==
    /\ Asking(w)
    /\ Return(w)
    /\ job' = [job EXCEPT ![w].answer = "ok"]
    /\ UNCHANGED <<ord, bill, refund, faults>>

ProviderRefuses(w) ==
    /\ Asking(w)
    /\ job' = [job EXCEPT ![w].answer = "error"]
    /\ UNCHANGED <<ord, trade, bill, refund, faults>>

\* The money is returned, the answer does not arrive.
ProviderAnswerLost(w) ==
    /\ Asking(w)
    /\ Fault
    /\ Return(w)
    /\ job' = [job EXCEPT ![w].answer = "error"]
    /\ UNCHANGED <<ord, bill, refund>>

\* Slip: an error leaves the refund as it was claimed.
RefundWriteOnlyDone(w) ==
    /\ job[w].op = "refund" /\ job[w].answer # "none"
    /\ refund' = [refund EXCEPT ![job[w].order][job[w].kind].status =
                      IF job[w].answer = "ok" THEN "done" ELSE @]
    /\ End(w)
    /\ UNCHANGED <<ord, trade, bill, faults>>

RefundWrite(w) ==
    /\ job[w].op = "refund" /\ job[w].answer # "none"
    /\ refund' = [refund EXCEPT ![job[w].order][job[w].kind].status =
                      IF job[w].answer = "ok" THEN "done" ELSE "failed"]
    /\ End(w)
    /\ UNCHANGED <<ord, trade, bill, faults>>

Done(row) == IF row.status = "none" THEN row ELSE [row EXCEPT !.status = "done"]

\* All refunds of the order are marked done with the one that was made.
AutoWrite(w) ==
    /\ job[w].op = "auto" /\ job[w].answer = "ok"
    /\ ord' = [ord EXCEPT ![job[w].order].pay = "refunded"]
    /\ refund' = [refund EXCEPT ![job[w].order] = [k \in Kind |-> Done(refund[job[w].order][k])]]
    /\ End(w)
    /\ UNCHANGED <<trade, bill, faults>>

AutoFailed(w) ==
    /\ job[w].op = "auto" /\ job[w].answer = "error"
    /\ ord' = [ord EXCEPT ![job[w].order].alert = TRUE]
    /\ End(w)
    /\ UNCHANGED <<trade, bill, refund, faults>>

\* Staff return n on the provider's console, as far as there is something left.
ByHand(o, n) ==
    IF ord[o].by = NoTrade THEN trade
    ELSE LET t == ord[o].by
         IN  [trade EXCEPT ![t].back = IF @ + n > trade[t].amount THEN trade[t].amount ELSE @ + n]

MarkRefundDone(o, k) ==
    /\ refund[o][k].status \in {"manual", "failed"}
    /\ refund' = [refund EXCEPT ![o][k].status = "done"]
    /\ ord' = [ord EXCEPT ![o].pay = IF @ = "refund_required" THEN "refunded" ELSE @]
    /\ trade' = ByHand(o, refund[o][k].amount)
    /\ UNCHANGED <<bill, job, faults>>

\* A refund row is marked done with the order, if there is one.
OnlineRefundDone(o) ==
    /\ ord[o].pay = "refund_required"
    /\ ord' = [ord EXCEPT ![o].pay = "refunded"]
    /\ \/ \E k \in Kind : /\ refund[o][k].status \notin {"none", "done"}
                          /\ refund' = [refund EXCEPT ![o][k].status = "done"]
       \/ /\ \A k \in Kind : refund[o][k].status \in {"none", "done"}
          /\ UNCHANGED refund
    /\ trade' = ByHand(o, ord[o].total)
    /\ UNCHANGED <<bill, job, faults>>

\* The process dies: its job is gone, what it committed stays.
Crash(w) ==
    /\ job[w] # Idle
    /\ Fault
    /\ End(w)
    /\ UNCHANGED <<ord, trade, bill, refund>>

-----------------------------------------------------------------------------

Init ==
    /\ ord = [o \in Order |-> NoOrder]
    /\ trade = [t \in Trade |-> NewTrade({}, 0)]
    /\ bill = [t \in Trade |-> "none"]
    /\ refund = [o \in Order |-> [k \in Kind |-> NoRefund]]
    /\ job = [w \in Worker |-> Idle]
    /\ faults = 0

Sweep(w) ==
    \/ \E o \in Order : SweepSelect(w, o)
    \/ SweepPaid(w) \/ SweepUnpaid(w) \/ SweepUnknown(w)
    \/ SweepExpire(w) \/ SweepTooLate(w) \/ SweepCancel(w)

LinePay(w) ==
    \/ \E o \in Order, t \in Trade : PlaceLinePay(w, o, t)
    \/ LinePaySucceeds(w) \/ LinePayRefuses(w) \/ LinePayBroken(w)
    \/ \E taken \in BOOLEAN : LinePayUnknown(w, taken)
    \/ ChargeClaim(w) \/ ChargeLost(w) \/ ChargeReturned(w) \/ ChargeStays(w) \/ ChargeCancel(w)

TablePay(w) ==
    \/ \E t \in Trade : BillClaim(w, t)
    \/ BillSettle(w) \/ BillRefused(w) \/ BillWrite(w)

Refunding(w) ==
    \/ \E o \in Order, k \in Kind : RefundClaim(w, o, k)
    \/ \E o \in Order : AutoStart(w, o)
    \/ ProviderReturns(w) \/ ProviderRefuses(w) \/ ProviderAnswerLost(w)
    \/ RefundWrite(w) \/ AutoWrite(w) \/ AutoFailed(w)

\* What customers, staff and the provider do.
Requests ==
    \/ \E o \in Order :
          \/ PlaceOnline(o) \/ PlaceAtTable(o) \/ DuePasses(o) \/ VoidUnpaid(o)
          \/ StaffCancel(o) \/ OnlineRefundDone(o)
          \/ \E n \in 1..Total : PartialRefund(o, n)
          \/ \E k \in Kind : MarkRefundDone(o, k)
          \/ \E t \in Trade : OpenPage(o, t) \/ PaymentInfo(o, t) \/ Notify(o, t)
    \/ \E t \in Trade : CustomerPays(t) \/ StartBill(t) \/ BillFails(t) \/ BillAlready(t)
    \/ \E orders \in SUBSET Order : CounterSettle(orders)

Next ==
    \/ Requests
    \/ \E w \in Worker : Sweep(w) \/ LinePay(w) \/ TablePay(w) \/ Refunding(w) \/ Crash(w)

(***************************************************************************)
(* Fairness.  The sweep has a thread of its own that asks about every      *)
(* overdue order once a minute, and the provider answers a query in the    *)
(* end (strong: any one of them may fail); the scheduler takes up every    *)
(* pending refund; what a job goes on with it does, unless it crashes.     *)
(* Nothing is assumed of customers, notifications or staff.                *)
(***************************************************************************)
SweepAnswered(w) == SweepPaid(w) \/ SweepUnpaid(w)

JobGoesOn(w) ==
    \/ SweepExpire(w) \/ SweepTooLate(w) \/ SweepCancel(w)
    \/ LinePaySucceeds(w) \/ LinePayRefuses(w)
    \/ ChargeClaim(w) \/ ChargeLost(w) \/ ChargeReturned(w) \/ ChargeStays(w) \/ ChargeCancel(w)
    \/ BillSettle(w) \/ BillRefused(w) \/ BillWrite(w)
    \/ ProviderReturns(w) \/ ProviderRefuses(w) \/ RefundWrite(w) \/ AutoWrite(w) \/ AutoFailed(w)

Fairness ==
    /\ \A w \in Worker : SF_vars(SweepAnswered(w)) /\ WF_vars(JobGoesOn(w))
    /\ \A o \in Order : SF_vars(\E w \in Worker : SweepSelect(w, o))
    /\ \A o \in Order, k \in Kind :
          SF_vars(refund[o][k].status = "pending" /\ \E w \in Worker : RefundClaim(w, o, k))

Spec == Init /\ [][Next]_vars

FairSpec == Spec /\ Fairness

-----------------------------------------------------------------------------
\* Properties.

\* A payment of an online order that the program has heard of is on the order's
\* record, unless that has another one - after an expiry, a cancellation or a
\* crash as well (payment_ecpay.mark_paid).
OnlinePaymentRecorded ==
    \A t \in Trade : \A o \in trade[t].orders :
        trade[t].told /\ ord[o].via = "ecpay" =>
            ord[o].by # NoTrade /\ ord[o].pay \in {"paid", "refund_required", "refunded"}

Cancelling(w, o) == job[w].op = "sweep" /\ job[w].step = "cancel" /\ job[w].order = o
Settling(w, t) == job[w].op = "bill" /\ job[w].trade = t
Carrying(w, o, k) == job[w].op = "refund" /\ job[w].order = o /\ job[w].kind = k

\* A cancelled order keeps no money: it needs a refund, or everything it took
\* has been put on refund rows (order_lifecycle._rollback_cancelled_order,
\* charge_linepay's claim).  And an order that has expired keeps no goods: it is
\* cancelled, or being cancelled by who made it expire; only after a crash it may
\* be left as it is (payment_ecpay.expire_unpaid_orders).
CancelledKeepsNothing ==
    \A o \in Order :
        /\ ord[o].via # "none" /\ ~ord[o].live =>
               /\ ord[o].pay \notin {"paid", "settled"}
               /\ ord[o].pay = "at_once" => ord[o].refunded = ord[o].total
        /\ ord[o].pay = "expired" /\ ord[o].live => faults > 0 \/ \E w \in Worker : Cancelling(w, o)

\* Money that LINE Pay took is the order's payment, has been returned, is still
\* being dealt with, or staff have been told; only a crash or a connection that
\* broke leaves it unknown (payment_service.charge_linepay).
ChargeWatched ==
    \A t \in Trade : \A o \in trade[t].orders :
        ord[o].via = "linepay" /\ trade[t].charged =>
            \/ ord[o].by = t
            \/ trade[t].back = trade[t].amount
            \/ ord[o].alert
            \/ \E w \in Worker : job[w].op = "charge" /\ job[w].trade = t
            \/ faults > 0

\* A table payment settles its orders once and for what they cost: when it counts
\* as paid they were settled by it, and staff are never sent to refund one that
\* has settled anything, though notification and browser come together.  One that
\* is being settled has somebody who does it; only a crash leaves it at that, and
\* then nobody takes it up (table_pay_service.mark_paid, table_service.settle_table).
BillSettlesOnce ==
    \A t \in Trade :
        /\ bill[t] = "paid" =>
              /\ \A o \in trade[t].orders : ord[o].by = t
              /\ Due(trade[t].orders) = trade[t].amount
        /\ bill[t] = "conflict" => \A o \in Order : ord[o].by # t
        /\ bill[t] = "processing" => faults > 0 \/ \E w \in Worker : Settling(w, t)

\* The provider returns no more than the order's refunds say, however often a
\* refund is taken up; a lost answer may make a retry return it again.  And a
\* refund that is being made has somebody who makes it; only a crash leaves it at
\* that, and then nobody takes it up (payment_service.process_refund).
NotReturnedTwice ==
    faults = 0 =>
        \A o \in Order :
            /\ ord[o].by # NoTrade /\ ord[o].pay \in {"paid", "at_once"} =>
                   trade[ord[o].by].back <= ord[o].refunded
            /\ \A k \in Kind : refund[o][k].status = "processing" => \E w \in Worker : Carrying(w, o, k)

\* An overdue online order does not stay pending: it is paid, or given up, or has
\* got a payment deadline (payment_ecpay.expire_unpaid_orders).
PendingEnds ==
    \A o \in Order :
        ord[o].pay = "pending" /\ ~ord[o].due ~> ord[o].pay # "pending" \/ ord[o].due

\* A pending refund is made or fails, unless its process died on the way
\* (maintenance_service's loop, payment_service.process_refund).
RefundEnds ==
    \A o \in Order, k \in Kind :
        refund[o][k].status = "pending" ~> refund[o][k].status \in {"done", "failed"} \/ faults > 0

Marked(o) == MapThenSumSet(LAMBDA k : IF refund[o][k].status = "done" THEN refund[o][k].amount ELSE 0, Kind)

\* What counts as refunded has been returned to the customer (the status list of
\* models/payment.py: done means refunded).
DoneMeansReturned ==
    \A o \in Order :
        faults = 0 /\ ord[o].by # NoTrade /\ ord[o].via # "table" =>
            Marked(o) <= trade[ord[o].by].back

\* A payment of an order that the program was told of is the order's or is returned.
\* It does not hold: a second page that is paid is answered 'already' (mark_paid).
EveryPaymentCounts ==
    \A t \in Trade : \A o \in trade[t].orders :
        ord[o].via = "ecpay" /\ trade[t].told => ord[o].by = t \/ trade[t].back = trade[t].amount

\* The promise this implements: how an order's money stands.
MoneyOf(o) ==
    CASE ord[o].pay \in {"paid", "settled"}           -> "kept"
      [] ord[o].pay = "at_once" /\ ord[o].live        -> "kept"
      [] ord[o].pay = "at_once" /\ ~ord[o].live       ->
            IF \A k \in Kind : refund[o][k].status \in {"none", "done"} THEN "returned" ELSE "owed"
      [] ord[o].pay = "refund_required"               -> "owed"
      [] ord[o].pay = "refunded"                      -> "returned"
      [] ord[o].pay = "none"                          -> "waiting"
      [] ord[o].pay = "expired"                       -> "given_up"
      [] ord[o].pay \in {"pending", "authorizing", "unpaid"} ->
            IF ord[o].live THEN "waiting" ELSE "given_up"

Promise == INSTANCE PaymentPromise WITH money <- [o \in Order |-> MoneyOf(o)]

\* Money that is taken is kept or owed, and nothing is kept for an order that
\* expired or was cancelled.
KeepsPromise == Promise!Spec

-----------------------------------------------------------------------------
\* The instance that is checked: one order may be paid in any way, the others are a table's;
\* those that are placed are placed in one way.
MCChannels == LET first == CHOOSE o \in Order : TRUE
              IN  [o \in Order |-> IF o = first THEN Channel ELSE {"table"}]
Symmetry == Permutations(Trade) \cup Permutations(Worker)
SameChannel ==
    \A o, p \in Order : ord[o].via # "none" /\ ord[p].via # "none" => ord[o].via = ord[p].via

=============================================================================
