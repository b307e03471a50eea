------------------------------ MODULE Vouchers ------------------------------
(***************************************************************************)
(* A member's points and the vouchers for meals bought with them           *)
(* (voucher_service.py, reward_service.py, customer_session.py, the        *)
(* checkout's and the cancellation's part of order_checkout.py and         *)
(* order_lifecycle.py), on one database.                                   *)
(*                                                                         *)
(* A voucher costs one point.  A transaction holds the rows it has changed *)
(* until it ends: a checkout first the member's, then the vouchers', which *)
(* it takes in ascending order; a refund the vouchers', some of them in    *)
(* descending order, and last the member's.  PostgreSQL ends a deadlock by *)
(* aborting one of the transactions.                                       *)
(***************************************************************************)
EXTENDS Naturals, Sequences, FiniteSets, FiniteSetsExt

CONSTANTS
    Worker,         \* requests being served at the same time
    Order,          \* the orders the member may place
    Points,         \* what the member has at first
    MaxVoucher,     \* vouchers that are ever made
    MaxMeal         \* meals for points in one order

VARIABLES
    points,     \* the member's points
    voucher,    \* the vouchers' rows, by number
    meals,      \* the meals for points each order has
    txn         \* what each worker has read and changed, not yet committed

vars == <<points, voucher, meals, txn>>

NoOrder == "none"
Status == {"open", "used", "refunded"}
Idle == [doing |-> "idle", order |-> NoOrder, wanted |-> 0, todo |-> {}, got |-> {}]

TypeOK ==
    /\ points \in 0..Points
    /\ Len(voucher) <= MaxVoucher
    /\ \A v \in DOMAIN voucher :
           voucher[v] \in [status : Status, order : Order \cup {NoOrder}]
    /\ meals \in [Order -> 0..MaxMeal]
    /\ \A w \in Worker :
           /\ txn[w].doing \in {"idle", "checkout", "refund"}
           /\ txn[w].got \cup txn[w].todo \subseteq DOMAIN voucher

Init ==
    /\ points = Points /\ voucher = <<>>
    /\ meals = [o \in Order |-> 0]
    /\ txn = [w \in Worker |-> Idle]

Open == {v \in DOMAIN voucher : voucher[v].status = "open"}
\* The first n of the open vouchers, or all of them.
First(n) ==
    {some \in SUBSET Open :
        /\ Cardinality(some) = n \/ (some = Open /\ Cardinality(some) < n)
        /\ \A v \in some, u \in Open \ some : v < u}

\* The voucher that transaction t takes next: some refunds begin with the latest.
LatestFirst(t) == t.doing = "refund" /\ t.wanted > 0
IsNext(t, v) == \A u \in t.todo : IF LatestFirst(t) THEN u <= v ELSE v <= u

\* Whether another worker holds the member's row, or a voucher's.
MemberHeld(w) == \E u \in Worker \ {w} : txn[u].doing = "checkout"
Held(w, v) == \E u \in Worker \ {w} : v \in txn[u].got

Done(w) == txn' = [txn EXCEPT ![w] = Idle]
NewVouchers(n, status, order) == [i \in 1..n |-> [status |-> status, order |-> order]]

-----------------------------------------------------------------------------

\* A voucher is bought.
RedeemItem(w) ==
    /\ txn[w] = Idle /\ ~MemberHeld(w) /\ points > 0 /\ Len(voucher) < MaxVoucher
    /\ points' = points - 1
    /\ voucher' = voucher \o NewVouchers(1, "open", NoOrder)
    /\ UNCHANGED <<meals, txn>>

\* A checkout with meals for points locks the member, then looks for open vouchers.
StartCheckout(w, o, n) ==
    /\ txn[w] = Idle /\ ~MemberHeld(w)
    /\ meals[o] = 0 /\ \A v \in DOMAIN voucher : voucher[v].order # o
    /\ \E some \in First(n) :
           txn' = [txn EXCEPT ![w] = [Idle EXCEPT !.doing = "checkout", !.order = o, !.wanted = n,
                                                  !.todo = some]]
    /\ UNCHANGED <<points, voucher, meals>>

\* A refund of some meals, the latest first, or of all that is open when the member signs in
\* or out (wanted is then 0).
StartRefund(w, n) ==
    /\ txn[w] = Idle /\ Open # {}
    /\ txn' = [txn EXCEPT ![w] = [Idle EXCEPT !.doing = "refund", !.wanted = n, !.todo = Open]]
    /\ UNCHANGED <<points, voucher, meals>>

\* Slip: the voucher's status is not part of the condition.
StillAny(v) == voucher[v].status \in Status

\* A voucher is taken only where it still is open.
StillOpen(v) == voucher[v].status = "open"

\* A refund that has as many as were asked for stops.
HasEnough(w) == txn[w].doing = "refund" /\ txn[w].wanted > 0 /\ Cardinality(txn[w].got) = txn[w].wanted

Take(w) ==
    /\ ~HasEnough(w)
    /\ \E v \in txn[w].todo :
       /\ IsNext(txn[w], v) /\ ~Held(w, v)
       /\ txn' = [txn EXCEPT ![w].todo = @ \ {v},
                             ![w].got = IF StillOpen(v) THEN @ \cup {v} ELSE @]
    /\ UNCHANGED <<points, voucher, meals>>

\* Meals without a voucher are paid with points at once; if there are too few, nothing is
\* changed.
CommitCheckout(w) ==
    LET t == txn[w]
        missing == t.wanted - Cardinality(t.got)
    IN  /\ t.doing = "checkout" /\ t.todo = {}
        /\ missing <= points /\ Len(voucher) + missing <= MaxVoucher
        /\ points' = points - missing
        /\ voucher' = [v \in DOMAIN voucher |->
                           IF v \in t.got THEN [status |-> "used", order |-> t.order] ELSE voucher[v]]
                      \o NewVouchers(missing, "used", t.order)
        /\ meals' = [meals EXCEPT ![t.order] = t.wanted]
        /\ Done(w)

\* A refund of fewer than were asked for is refused.
CommitRefund(w) ==
    LET t == txn[w] IN
    /\ t.doing = "refund" /\ (t.todo = {} \/ HasEnough(w))
    /\ ~MemberHeld(w)
    /\ IF Cardinality(t.got) >= t.wanted
       THEN /\ points' = points + Cardinality(t.got)
            /\ voucher' = [v \in DOMAIN voucher |->
                   IF v \in t.got THEN [voucher[v] EXCEPT !.status = "refunded"] ELSE voucher[v]]
       ELSE UNCHANGED <<points, voucher>>
    /\ Done(w)
    /\ UNCHANGED meals

\* An error, a deadlock or the end of the process undoes what was not committed.
Rollback(w) == txn[w] # Idle /\ Done(w) /\ UNCHANGED <<points, voucher, meals>>

\* A cancelled order gives its meals' points back.
CancelOrder(w, o) ==
    LET used == {v \in DOMAIN voucher : voucher[v].order = o /\ voucher[v].status = "used"} IN
    /\ txn[w] = Idle /\ ~MemberHeld(w) /\ meals[o] > 0
    /\ points' = points + Cardinality(used)
    /\ voucher' = [v \in DOMAIN voucher |->
           IF v \in used THEN [voucher[v] EXCEPT !.status = "refunded"] ELSE voucher[v]]
    /\ meals' = [meals EXCEPT ![o] = 0]
    /\ UNCHANGED txn

Next ==
    \E w \in Worker :
        \/ RedeemItem(w) \/ Take(w) \/ CommitCheckout(w) \/ CommitRefund(w) \/ Rollback(w)
        \/ \E o \in Order :
               CancelOrder(w, o) \/ \E n \in 1..MaxMeal : StartCheckout(w, o, n)
        \/ \E n \in 0..MaxMeal : StartRefund(w, n)

Spec == Init /\ [][Next]_vars

-----------------------------------------------------------------------------

\* A point is with the member, in an open voucher or eaten, and never two of them: "nobody
\* gets the meal and the points back" (voucher_service.py:4).
MealOrPoints ==
    points + Cardinality(Open) + MapThenSumSet(LAMBDA o : meals[o], Order) = Points

=============================================================================
