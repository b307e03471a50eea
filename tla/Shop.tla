-------------------------------- MODULE Shop --------------------------------
(***************************************************************************)
(* One shop database and the staff requests that change its orders         *)
(* (order_checkout, order_stock, order_lifecycle, table_service.settle_table *)
(* and payment_service under src/app/services).                            *)
(*                                                                         *)
(* A request has two phases.  Begin... is what the handler reads before    *)
(* its first write: the checks it makes and the values it keeps in its     *)
(* SQLAlchemy session.  Commit... is the transaction that follows, atomic  *)
(* because both databases serialise it (SQLite has one writer, PostgreSQL  *)
(* locks the order and the stock rows); it sees what other requests        *)
(* committed in between only where the code reads again or makes its       *)
(* UPDATE conditional.                                                     *)
(*                                                                         *)
(* One menu item, one kind of chargeable line and one of promotion gift    *)
(* line, both of that item; one table, cash.                               *)
(***************************************************************************)
EXTENDS Integers, FiniteSets

CONSTANTS
    Order,       \* client order ids (order.client_order_id), each ordered at most once
    Terminal,    \* POS, kiosk and kitchen screens, one request at a time each
    Role,        \* [Terminal -> role of who uses it]
    Stock0,      \* portions on sale at the start
    MaxQty,      \* bound: portions of one checkout
    MaxGift,     \* bound: gift portions a promotion adds to it
    Price,       \* price of a portion; a gift is free
    Discount,    \* order discounts a checkout may come with
    Charges,     \* service charges in percent: 0, or the shop's where it applies
    Fees,        \* delivery fees of the zones it delivers to
    Restock,     \* what the setting restock_on_cancel may be when it is read
    MaxRefund,   \* bound: amount of one partial refund
    MaxPickup    \* pickup numbers run 1..MaxPickup (999 in the code)

Roles == {"owner", "manager", "staff", "kitchen", "guest"}   \* guest: a kiosk

ASSUME RoleAssumption == Role \in [Terminal -> Roles]
ASSUME StockAssumption == Stock0 \in Nat /\ MaxQty \in Nat \ {0} /\ MaxGift \in Nat
ASSUME PriceAssumption == Price \in Nat /\ Discount \subseteq Nat /\ MaxRefund \in Nat
ASSUME ChargeAssumption == Charges \subseteq 0..30 /\ Fees \subseteq Nat
ASSUME RestockAssumption == Restock \subseteq BOOLEAN
ASSUME PickupAssumption == MaxPickup \in Nat \ {0}

VARIABLES
    stock,       \* menu_item.stock
    soldOut,     \* menu_item.is_sold_out
    counter,     \* daily_counter.value of the pickup counter
    ord,         \* the order rows, with their lines and what they took from stock
    till,        \* payment_record.amount summed per order (a settlement's by its bill)
    req          \* the request each terminal has in flight

vars == <<stock, soldOut, counter, ord, till, req>>

Line == {"base", "gift"}
Status == {"Pending", "Completed", "PickedUp", "Cancelled"}
\* payment_status; the code's empty string, paid at the counter, is "at_once".
PayStatus == {"at_once", "unpaid", "settled", "refund_required", "refunded"}

(***************************************************************************)
(* An order row.  "none" is the id of an order nobody placed yet.  qty is  *)
(* what its lines still hold and voided what was voided of them; service   *)
(* and fee are the part of the total that is service charge and delivery   *)
(* fee.  taken and returned are the portions its transactions ever took    *)
(* from the stock and put back, wasted those voided or cancelled while the *)
(* shop's setting was not to put them back.                                *)
(***************************************************************************)
OrderRow ==
    [status: Status \cup {"none"}, pay: PayStatus \cup {"none"}, qty: [Line -> Nat],
     voided: [Line -> Nat], taken: Nat, returned: Nat, wasted: Nat, pickup: 0..MaxPickup,
     total: Nat, service: Nat, fee: Nat, received: Nat, refunded: Nat]

NoOrder ==
    [status |-> "none", pay |-> "none", qty |-> [l \in Line |-> 0],
     voided |-> [l \in Line |-> 0], taken |-> 0, returned |-> 0, wasted |-> 0, pickup |-> 0,
     total |-> 0, service |-> 0, fee |-> 0, received |-> 0, refunded |-> 0]

Idle == [op |-> "idle"]

\* Requests in flight, with what each handler remembers of its reads: the
\* status and the total a status change loaded, the bill a settlement added up.
Request ==
    {Idle}
    \cup [op: {"checkout"}, order: Order, base: 1..MaxQty, gift: 0..MaxGift,
          discount: Discount, table: BOOLEAN, percent: Charges, fee: Fees]
    \cup [op: {"status"}, order: Order, from: Status, to: Status, total: Nat]
    \cup [op: {"void"}, order: Order, line: Line, n: 1..MaxQty]
    \cup [op: {"settle"}, orders: SUBSET Order, bill: [Order -> Nat]]
    \cup [op: {"refund"}, order: Order, amount: 1..MaxRefund]

TypeOK ==
    /\ stock \in Nat
    /\ soldOut \in BOOLEAN
    /\ counter \in 0..MaxPickup
    /\ ord \in [Order -> OrderRow]
    /\ till \in [Order -> Int]
    /\ req \in [Terminal -> Request]

-----------------------------------------------------------------------------
\* The order status machine and who may drive it.

Legal ==
    {<<"Pending", "Completed">>, <<"Pending", "Cancelled">>, <<"Completed", "PickedUp">>,
     <<"Completed", "Cancelled">>, <<"PickedUp", "Cancelled">>}

MayDo(role) ==
    CASE role \in {"owner", "manager"} -> Legal
      [] role = "staff"                -> Legal \ {<<"PickedUp", "Cancelled">>}
      [] role = "kitchen"              -> {<<"Pending", "Completed">>}
      [] role = "guest"                -> {}

Placed(o) == ord[o].status # "none"
Live(o) == ord[o].status \in {"Pending", "Completed", "PickedUp"}
IsPaid(o) == ord[o].pay \in {"at_once", "settled"}
Held(o) == ord[o].qty["base"] + ord[o].qty["gift"]

LinePrice(l) == IF l = "base" THEN Price ELSE 0
Subtotal(o) == Price * ord[o].qty["base"]

Lesser(a, b) == IF a < b THEN a ELSE b
AtLeast0(a) == IF a < 0 THEN 0 ELSE a

\* Slip: the voided portions are counted twice in the whole.
ProrateOfMore(share, base, whole) ==
    IF whole = 0 THEN 0 ELSE (2 * share * base + whole + share) \div (2 * (whole + share))

\* floor(share * base / whole + 0.5): the part of base that share is of whole.
Prorate(share, base, whole) ==
    IF whole = 0 THEN 0 ELSE (2 * share * base + whole) \div (2 * whole)

-----------------------------------------------------------------------------
\* The stock counter.

\* Slip: only the flag is looked at.
CanTakeUnlessFlagged(n) == ~soldOut

CanTake(n) == stock >= n /\ ~soldOut

Take(n) ==
    /\ CanTake(n)
    /\ stock' = stock - n
    /\ soldOut' = (stock - n = 0)

\* Slip: one portion per line comes back, whatever its quantity.
PutBackOne(n) ==
    /\ stock' = stock + 1
    /\ soldOut' = (soldOut /\ stock > 0)

\* Slip: any stock put back clears the flag.
PutBackOnSale(n) ==
    /\ stock' = stock + n
    /\ soldOut' = FALSE

\* Only a flag the counter itself set on reaching zero is cleared.
PutBack(n) ==
    /\ stock' = stock + n
    /\ soldOut' = (soldOut /\ stock > 0)

\* What a void or a cancellation does about its n portions.
Restocked(n, restock) == IF restock THEN PutBack(n) ELSE UNCHANGED <<stock, soldOut>>

\* Gifts are dropped when the stock does not reach for them as well.
GiftsGiven(base, gift) == IF gift > 0 /\ CanTake(base + gift) THEN gift ELSE 0

NextPickup == (counter % MaxPickup) + 1

-----------------------------------------------------------------------------
\* Requests.

Start(t, r) == req[t] = Idle /\ req' = [req EXCEPT ![t] = r]
Finish(t) == req' = [req EXCEPT ![t] = Idle]
AtCounter(t) == Role[t] \in {"owner", "manager", "staff"}

\* A new order, paid at once or put on the table's bill (table).  The id is
\* looked up first; an id already placed is answered with its order.  Only an
\* order eaten in has a service charge, only one taken home a delivery fee.
BeginCheckout(t, o, base, gift, discount, table, percent, fee) ==
    /\ ~Placed(o)
    /\ fee > 0 => ~table /\ percent = 0
    /\ Start(t, [op |-> "checkout", order |-> o, base |-> base, gift |-> gift,
                 discount |-> discount, table |-> table, percent |-> percent, fee |-> fee])
    /\ UNCHANGED <<stock, soldOut, counter, ord, till>>

Discounted(r) == AtLeast0(Price * r.base - r.discount)

\* floor(discounted * percent / 100 + 0.5)
Service(r) == (2 * Discounted(r) * r.percent + 100) \div 200

Amount(r) == Discounted(r) + Service(r) + r.fee
Cash(r) == IF r.table THEN 0 ELSE Amount(r)

\* Slip: a gift the stock did not reach for stays on the order.
NewOrderWithGift(r, gift) ==
    [status |-> "Pending", pay |-> IF r.table THEN "unpaid" ELSE "at_once",
     qty |-> [l \in Line |-> IF l = "base" THEN r.base ELSE r.gift],
     voided |-> [l \in Line |-> 0],
     taken |-> r.base + gift, returned |-> 0, wasted |-> 0, pickup |-> NextPickup,
     total |-> Amount(r), service |-> Service(r), fee |-> r.fee,
     received |-> Cash(r), refunded |-> 0]

NewOrder(r, gift) ==
    [status |-> "Pending", pay |-> IF r.table THEN "unpaid" ELSE "at_once",
     qty |-> [l \in Line |-> IF l = "base" THEN r.base ELSE gift],
     voided |-> [l \in Line |-> 0],
     taken |-> r.base + gift, returned |-> 0, wasted |-> 0, pickup |-> NextPickup,
     total |-> Amount(r), service |-> Service(r), fee |-> r.fee,
     received |-> Cash(r), refunded |-> 0]

\* The unique index on the id admits one order; the others replay it (Rollback).
CommitCheckout(t) ==
    LET r == req[t]
        gift == GiftsGiven(r.base, r.gift)
    IN  /\ r.op = "checkout"
        /\ ~Placed(r.order)
        /\ Take(r.base + gift)
        /\ counter' = NextPickup
        /\ ord' = [ord EXCEPT ![r.order] = NewOrder(r, gift)]
        /\ till' = [till EXCEPT ![r.order] = @ + Cash(r)]
        /\ Finish(t)

BeginStatus(t, o, to) ==
    /\ Placed(o)
    /\ <<ord[o].status, to>> \in MayDo(Role[t])
    /\ Start(t, [op |-> "status", order |-> o, from |-> ord[o].status, to |-> to,
                 total |-> IF to = "Cancelled" THEN ord[o].total ELSE 0])
    /\ UNCHANGED <<stock, soldOut, counter, ord, till>>

\* Slip: the swap does not compare.
SwapAnyway(r) == TRUE

\* The status is swapped only if it is still the one that was read.
StillAsRead(r) == ord[r.order].status = r.from

CommitStatus(t) ==
    LET r == req[t]
    IN  /\ r.op = "status"
        /\ r.to # "Cancelled"
        /\ StillAsRead(r)
        /\ ord' = [ord EXCEPT ![r.order].status = r.to]
        /\ Finish(t)
        /\ UNCHANGED <<stock, soldOut, counter, till>>

Cancelled(o, refund, restock) ==
    [ord[o] EXCEPT !.status = "Cancelled",
                   !.pay = IF @ = "settled" THEN "refund_required" ELSE @,
                   !.returned = IF restock THEN @ + Held(o) ELSE @,
                   !.wasted = IF restock THEN @ ELSE @ + Held(o),
                   !.refunded = @ + refund]

\* A cancellation puts back what the lines still hold, if the shop wants that,
\* and refunds what was paid.  pay and refunded are read again after the swap,
\* the total is not.
CommitCancel(t, restock) ==
    LET r == req[t]
        o == r.order
        amount == IF IsPaid(o) THEN AtLeast0(r.total - ord[o].refunded) ELSE 0
    IN  /\ r.op = "status"
        /\ r.to = "Cancelled"
        /\ StillAsRead(r)
        /\ ord' = [ord EXCEPT ![o] = Cancelled(o, amount, restock)]
        /\ Restocked(Held(o), restock)
        /\ till' = [till EXCEPT ![o] = @ - amount]
        /\ Finish(t)
        /\ UNCHANGED counter

\* Voiding n portions of one line of an order that is not cancelled.
BeginVoid(t, o, l, n) ==
    /\ AtCounter(t)
    /\ Live(o)
    /\ ord[o].pay \notin {"refund_required", "refunded"}
    /\ Start(t, [op |-> "void", order |-> o, line |-> l, n |-> n])
    /\ UNCHANGED <<stock, soldOut, counter, ord, till>>

Fewer(qty, l, n) == [qty EXCEPT ![l] = @ - n]
More(qty, l, n) == [qty EXCEPT ![l] = @ + n]

\* n portions fewer of a line: an unpaid order owes less, a paid one is refunded.
Voided(o, l, n, less, refund, restock) ==
    [ord[o] EXCEPT !.qty = Fewer(@, l, n),
                   !.voided = More(@, l, n),
                   !.returned = IF restock THEN @ + n ELSE @,
                   !.wasted = IF restock THEN @ ELSE @ + n,
                   !.total = IF ord[o].pay = "unpaid" THEN @ - less ELSE @,
                   !.refunded = @ + refund]

\* The portions are claimed by a conditional UPDATE and the order is read
\* again, so the amount is right: the portions' part of what is left to pay
\* apart from the delivery fee.  That the order is not cancelled is not asked
\* again (only partial_refund, for a paid order with an amount to refund, does).
CommitVoid(t, restock) ==
    LET r == req[t]
        o == r.order
        due == AtLeast0(ord[o].total - ord[o].refunded)
        base == AtLeast0(ord[o].total - ord[o].fee - ord[o].refunded)
        amount == Lesser(Prorate(LinePrice(r.line) * r.n, base, Subtotal(o)), due)
        refund == IF IsPaid(o) THEN amount ELSE 0
    IN  /\ r.op = "void"
        /\ ord[o].qty[r.line] >= r.n
        /\ Held(o) > r.n
        /\ refund > 0 => Live(o)
        /\ ord' = [ord EXCEPT ![o] = Voided(o, r.line, r.n, amount - refund, refund, restock)]
        /\ Restocked(r.n, restock)
        /\ till' = [till EXCEPT ![o] = @ - refund]
        /\ Finish(t)
        /\ UNCHANGED counter

\* Slip: a cancelled order can still be on the bill.
OnBillThoughCancelled(o) == ord[o].pay = "unpaid"

\* The table's unpaid orders, or some of them, and the bill they add up to.
OnBill(o) == ord[o].pay = "unpaid" /\ ord[o].status # "Cancelled"

BeginSettle(t, orders) ==
    /\ AtCounter(t)
    /\ orders # {}
    /\ \A o \in orders : OnBill(o)
    /\ Start(t, [op |-> "settle", orders |-> orders,
                 bill |-> [o \in Order |-> IF o \in orders THEN ord[o].total ELSE 0]])
    /\ UNCHANGED <<stock, soldOut, counter, ord, till>>

\* Slip: the order notes its total of now, the payment record the bill of then.
SettledAtTotal(o, bill) == [ord[o] EXCEPT !.pay = "settled", !.received = ord[o].total]

Settled(o, bill) == [ord[o] EXCEPT !.pay = "settled", !.received = bill]

\* All of them or none; what is collected is the bill as it was read.
CommitSettle(t) ==
    LET r == req[t]
    IN  /\ r.op = "settle"
        /\ \A o \in r.orders : OnBill(o)
        /\ ord' = [o \in Order |-> IF o \in r.orders THEN Settled(o, r.bill[o]) ELSE ord[o]]
        /\ till' = [o \in Order |-> IF o \in r.orders THEN till[o] + r.bill[o] ELSE till[o]]
        /\ Finish(t)
        /\ UNCHANGED <<stock, soldOut, counter>>

BeginRefund(t, o, amount) ==
    /\ AtCounter(t)
    /\ Live(o)
    /\ IsPaid(o)
    /\ Start(t, [op |-> "refund", order |-> o, amount |-> amount])
    /\ UNCHANGED <<stock, soldOut, counter, ord, till>>

\* Slip: the amount is checked against the total alone.
ClaimableOfTotal(r) == ord[r.order].total >= r.amount

\* The claim asks for the amount only, not for the status again.
Claimable(r) == ord[r.order].total - ord[r.order].refunded >= r.amount

CommitRefund(t) ==
    LET r == req[t]
    IN  /\ r.op = "refund"
        /\ Claimable(r)
        /\ ord' = [ord EXCEPT ![r.order].refunded = @ + r.amount]
        /\ till' = [till EXCEPT ![r.order] = @ - r.amount]
        /\ Finish(t)
        /\ UNCHANGED <<stock, soldOut, counter>>

\* Slip: the pickup number of a failed checkout is used up.
RollbackButNumber(t) ==
    /\ req[t] # Idle
    /\ Finish(t)
    /\ counter' = IF req[t].op = "checkout" THEN NextPickup ELSE counter
    /\ UNCHANGED <<stock, soldOut, ord, till>>

\* A request whose check or conditional UPDATE fails, that replays an order
\* already placed, or whose process dies: the transaction leaves nothing.
Rollback(t) ==
    /\ req[t] # Idle
    /\ Finish(t)
    /\ UNCHANGED <<stock, soldOut, counter, ord, till>>

-----------------------------------------------------------------------------
\* Single statements and requests that write nothing they read before.

\* Slip: the UPDATE does not ask for the status again.
CompleteAllAnyway(orders) ==
    /\ \E o \in orders : ord[o].status = "Pending"
    /\ ord' = [o \in Order |->
                 IF o \in orders /\ Placed(o) THEN [ord[o] EXCEPT !.status = "Completed"] ELSE ord[o]]
    /\ UNCHANGED <<stock, soldOut, counter, till, req>>

\* The kitchen completes what its screen shows; the day's change completes
\* what was forgotten: one UPDATE of the orders still pending.
CompleteAll(orders) ==
    /\ \E o \in orders : ord[o].status = "Pending"
    /\ ord' = [o \in Order |->
                 IF o \in orders /\ ord[o].status = "Pending"
                 THEN [ord[o] EXCEPT !.status = "Completed"]
                 ELSE ord[o]]
    /\ UNCHANGED <<stock, soldOut, counter, till, req>>

\* A manager notes that the money of a cancelled order went back.
RefundDone(o) ==
    /\ ord[o].pay = "refund_required"
    /\ ord' = [ord EXCEPT ![o].pay = "refunded"]
    /\ UNCHANGED <<stock, soldOut, counter, till, req>>

\* Staff, or a partner's API key, set the sold-out flag by hand.
SetSoldOut(flag) ==
    /\ soldOut' = flag
    /\ soldOut' # soldOut
    /\ UNCHANGED <<stock, counter, ord, till, req>>

-----------------------------------------------------------------------------
Init ==
    /\ stock = Stock0
    /\ soldOut = (Stock0 = 0)
    /\ counter = 0
    /\ ord = [o \in Order |-> NoOrder]
    /\ till = [o \in Order |-> 0]
    /\ req = [t \in Terminal |-> Idle]

Begin(t) ==
    \/ \E o \in Order, base \in 1..MaxQty, gift \in 0..MaxGift, d \in Discount,
          table \in BOOLEAN, percent \in Charges, fee \in Fees :
          BeginCheckout(t, o, base, gift, d, table, percent, fee)
    \/ \E o \in Order, to \in Status : BeginStatus(t, o, to)
    \/ \E o \in Order, l \in Line, n \in 1..MaxQty : BeginVoid(t, o, l, n)
    \/ \E orders \in SUBSET Order : BeginSettle(t, orders)
    \/ \E o \in Order, amount \in 1..MaxRefund : BeginRefund(t, o, amount)

Commit(t) ==
    \/ CommitCheckout(t)
    \/ CommitStatus(t)
    \/ \E restock \in Restock : CommitCancel(t, restock) \/ CommitVoid(t, restock)
    \/ CommitSettle(t)
    \/ CommitRefund(t)

Next ==
    \/ \E t \in Terminal : Begin(t) \/ Commit(t) \/ Rollback(t)
    \/ \E orders \in SUBSET Order : CompleteAll(orders)
    \/ \E o \in Order : RefundDone(o)
    \/ \E flag \in BOOLEAN : SetSoldOut(flag)

Spec == Init /\ [][Next]_vars

-----------------------------------------------------------------------------
\* The portions that were counted for each order.
Portions(count) == UNION {{o} \X (1..count[o]) : o \in Order}
Took == Portions([o \in Order |-> ord[o].taken])
GaveBack == Portions([o \in Order |-> ord[o].returned])

\* No portion is taken for two orders and none disappears: what the orders took and did
\* not give back, with what is on the shelf, is what there was (the conditional
\* UPDATEs of _change_stock, and the rollback of a checkout that fails).
StockConserved == stock + Cardinality(Took) = Stock0 + Cardinality(GaveBack)

\* What a live order took is what its lines hold, through voids and dropped
\* gifts, and a cancelled order has put everything back that it was to put back
\* (void_item and _rollback_cancelled_order agree on the portions).
LinesMatchStock ==
    \A o \in Order :
        LET gone == ord[o].returned + ord[o].wasted
        IN  /\ Live(o) => ord[o].taken = gone + Held(o)
            /\ ord[o].status = "Cancelled" => gone >= ord[o].taken

\* An order that counts as paid collected at least its total and refunded no
\* more than that while it lives; one that is not paid collected nothing.
PaidMeansCollected ==
    \A o \in Order :
        /\ IsPaid(o) => ord[o].received >= ord[o].total
        /\ Live(o) => ord[o].refunded <= ord[o].total
        /\ ord[o].pay = "unpaid" => ord[o].received = 0 /\ ord[o].refunded = 0

\* Settling a bill and cancelling one of its orders never both win, and a
\* cancelled order that had been paid has all of its total refunded: a settled
\* one is flagged for the counter until somebody says it is done.
CancelledIsRefunded ==
    \A o \in Order :
        /\ ord[o].pay \in {"refund_required", "refunded"} => ord[o].status = "Cancelled"
        /\ ord[o].status = "Cancelled" =>
             /\ ord[o].pay # "settled"
             /\ ord[o].pay # "unpaid" => ord[o].refunded >= ord[o].total

\* The payment records add up to what the orders say was received and refunded.
TillBalances == \A o \in Order : till[o] = ord[o].received - ord[o].refunded

\* However often lines are voided and however the discount is rounded, a live
\* order never keeps more money, its delivery fee apart, than the portions it
\* still has are worth; with a service charge, than they are worth with their
\* part of that charge, and half a dollar for each portion that was voided,
\* which is what the rounding may cost (void_item).
Net(o) == ord[o].total - ord[o].fee - ord[o].refunded
Ordered(o) == Price * (ord[o].qty["base"] + ord[o].voided["base"])

NetWithinItems ==
    \A o \in Order : Live(o) =>
        /\ ord[o].service = 0 => Net(o) <= Subtotal(o)
        /\ 2 * Net(o) * Ordered(o) <= 2 * Subtotal(o) * (Ordered(o) + ord[o].service)
                                       + ord[o].voided["base"] * Ordered(o)

\* Pickup numbers go round without a gap: a checkout that fails gives its number
\* back, so a number has been given as often as a higher one, or once more.
Bearers(n) == Cardinality({o \in Order : Placed(o) /\ ord[o].pickup = n})

PickupInTurn ==
    \A m, n \in 1..MaxPickup : m < n => Bearers(m) - Bearers(n) \in {0, 1}

\* A status never goes back, whatever was read before it changed.
StatusForward ==
    [][\A o \in Order :
         Placed(o) /\ ord'[o].status # ord[o].status
             => <<ord[o].status, ord'[o].status>> \in Legal]_vars

\* An order that has been picked up is cancelled only by a manager or the owner,
\* also when somebody else asked to cancel it before it was picked up.
OnlyManagersUndoPickup ==
    [][\A o \in Order :
         ord[o].status = "PickedUp" /\ ord'[o].status = "Cancelled"
             => \E t \in Terminal :
                  /\ Role[t] \in {"owner", "manager"}
                  /\ req[t] # Idle
                  /\ req[t].op = "status"
                  /\ req[t].order = o
                  /\ req'[t] = Idle]_vars

\* An item somebody marked as sold out while there was stock stays so: no
\* cancellation or void brings it back on the menu.
ManualSoldOutStays ==
    [][soldOut /\ stock > 0 /\ stock' # stock => soldOut']_vars

-----------------------------------------------------------------------------
\* What the manual promises, and the races in the code break.

\* A cancelled order puts back what it took once (docs/MANUAL_TEST.txt: no
\* portion is put back twice after a void).
ReturnedOnce == \A o \in Order : ord[o].returned <= ord[o].taken

\* What a settled order collected is what it owes (the amount of a table that
\* changed while it was being paid is a conflict, table_pay_service).
SettledAmountIsDue == \A o \in Order : ord[o].pay = "settled" => ord[o].received = ord[o].total

\* The refunds of an order never exceed it (the conditional claim of
\* partial_refund says so of refunds made at the same time).
RefundWithinTotal == \A o \in Order : IsPaid(o) \/ ord[o].pay = "refund_required" => ord[o].refunded <= ord[o].total

=============================================================================
