----------------------------- MODULE OnlineStock -----------------------------
(***************************************************************************)
(* A branch and the hub that takes online orders for it.  The hub sells    *)
(* from a shelf (NodeStock), its copy of the branch's stock; the branch    *)
(* sells at the counter and takes the portions of an online order off its  *)
(* own stock when the order arrives (node._apply).  Two threads at the     *)
(* branch keep them together: push sends orders that changed and then the  *)
(* stock (node.push, hub.push), pull fetches orders (node.pull, hub.pull). *)
(*                                                                         *)
(* An action is one transaction at one end.  A push or a pull is several   *)
(* of them; any call may fail, and is then made again from the start.      *)
(* What a request carries is a page that holds an order with its lines;    *)
(* which changes it carries is ChangeFeed's subject.  Completed and        *)
(* picked-up orders are like live ones here.                               *)
(***************************************************************************)
EXTENDS Integers, FiniteSets

CONSTANTS
    Order,       \* online orders
    Qty,         \* [Order -> portions it takes]
    Stock,       \* portions the branch starts with
    Prepaid,     \* setting ONLINE_PAYMENT
    MaxSold      \* bound: portions sold at the counter

ASSUME QtyAssumption == Qty \in [Order -> Nat \ {0}]
ASSUME StockAssumption == Stock \in Nat /\ MaxSold \in Nat /\ Prepaid \in BOOLEAN

VARIABLES
    hub,         \* the hub's order rows
    node,        \* the branch's order rows
    shelf,       \* NodeStock at the hub
    stock,       \* the branch's own stock
    sold,        \* portions sold at the branch's counter
    short,       \* portions of online orders that were not there on arrival
    down,        \* orders the hub has to send
    up,          \* orders the branch has to send
    sent,        \* stock that was reported last (stock_hash)
    push,        \* the push under way
    pull,        \* the pull under way
    told,        \* sold when the report on the shelf was taken
    missed       \* portions the report on the shelf did not hold back

hubVars == <<hub, shelf, down>>
nodeVars == <<node, stock, sold, short, up>>
vars == <<hub, node, shelf, stock, sold, short, down, up, sent, push, pull, told, missed>>

Status == {"none", "live", "cancelled"}
Pay == {"none", "pending", "paid", "expired", "at_once", "refund_required"}
Row == [status: Status, pay: Pay, number: BOOLEAN]
NoRow == [status |-> "none", pay |-> "none", number |-> FALSE]

\* hub.UNPAID: not sent to the branch.
UNPAID == {"pending", "expired"}

PushStep == {"idle", "open", "counted", "read"}
PullStep == {"idle", "read"}

TypeOK ==
    /\ hub \in [Order -> Row] /\ node \in [Order -> Row]
    /\ shelf \in Nat /\ stock \in Nat /\ short \in Nat
    /\ sold \in 0..MaxSold /\ told \in 0..MaxSold
    /\ down \subseteq Order /\ up \subseteq Order
    /\ sent \in Nat /\ missed \in Nat
    /\ push \in [step: PushStep, orders: SUBSET Order, stock: Nat, sold: 0..MaxSold,
                seen: SUBSET Order, rows: [Order -> Row]]
    /\ pull \in [step: PullStep, orders: SUBSET Order, rows: [Order -> Row]]

NoRows == [o \in Order |-> NoRow]
NoPush == [step |-> "idle", orders |-> {}, stock |-> 0, sold |-> 0, seen |-> {}, rows |-> NoRows]
NoPull == [step |-> "idle", orders |-> {}, rows |-> NoRows]

\* The portions that orders take, counted one by one.
Portions(orders) == Cardinality(UNION {{o} \X (1..Qty[o]) : o \in orders})

Less(n, m) == IF n < m THEN 0 ELSE n - m

Init ==
    /\ hub = NoRows /\ node = NoRows
    /\ shelf = Stock /\ stock = Stock /\ sent = Stock
    /\ sold = 0 /\ short = 0 /\ told = 0
    /\ down = {} /\ up = {} /\ missed = 0
    /\ push = NoPush /\ pull = NoPull

-----------------------------------------------------------------------------
\* The hub.

\* The shelf is lowered by one conditional UPDATE.
Place(o) ==
    /\ hub[o].status = "none"
    /\ shelf >= Qty[o]
    /\ shelf' = shelf - Qty[o]
    /\ hub' = [hub EXCEPT ![o].status = "live", ![o].pay = IF Prepaid THEN "pending" ELSE "at_once"]
    /\ down' = down \cup {o}
    /\ UNCHANGED <<nodeVars, sent, push, pull, told, missed>>

\* mark_paid of ECPay.
Paid(o) ==
    /\ hub[o].pay \in {"pending", "expired"}
    /\ hub' = [hub EXCEPT ![o].pay =
                  IF @ = "pending" /\ hub[o].status = "live" THEN "paid" ELSE "refund_required"]
    /\ down' = down \cup {o}
    /\ UNCHANGED <<nodeVars, shelf, sent, push, pull, told, missed>>

\* The sweep gives an order up, and cancels it in the next transaction.
Expire(o) ==
    /\ hub[o].pay = "pending"
    /\ hub' = [hub EXCEPT ![o].pay = "expired"]
    /\ down' = down \cup {o}
    /\ UNCHANGED <<nodeVars, shelf, sent, push, pull, told, missed>>

AfterCancel(pay) == IF pay = "paid" THEN "refund_required" ELSE pay

HubCancel(o) ==
    /\ hub[o].status = "live"
    /\ hub' = [hub EXCEPT ![o].status = "cancelled", ![o].pay = AfterCancel(@)]
    /\ shelf' = shelf + Qty[o]
    /\ down' = down \cup {o}
    /\ UNCHANGED <<nodeVars, sent, push, pull, told, missed>>

-----------------------------------------------------------------------------
\* The branch.

CounterSale ==
    /\ sold < MaxSold /\ stock > 0
    /\ stock' = stock - 1
    /\ sold' = sold + 1
    /\ UNCHANGED <<hubVars, node, short, up, sent, push, pull, told, missed>>

\* The setting restock_on_cancel is on; where it is off, staff's cancellation is this
\* step and the counter sale of as many portions (a pull puts back in any case).
NodeCancel(o) ==
    /\ node[o].status = "live"
    /\ node' = [node EXCEPT ![o].status = "cancelled", ![o].pay = AfterCancel(@)]
    /\ stock' = stock + Qty[o]
    /\ up' = up \cup {o}
    /\ UNCHANGED <<hubVars, sold, short, sent, push, pull, told, missed>>

-----------------------------------------------------------------------------
\* Push: the revision to send up to, the stock, the rows, then the request.

PushOpen ==
    /\ push.step = "idle"
    /\ push' = [NoPush EXCEPT !.step = "open", !.orders = up]
    /\ up' = {}
    /\ UNCHANGED <<hubVars, node, stock, sold, short, sent, pull, told, missed>>

PushCount ==
    /\ push.step = "open"
    /\ push' = [push EXCEPT !.step = "counted", !.stock = stock, !.sold = sold,
                         !.seen = {o \in Order : node[o].status = "live"}]
    /\ UNCHANGED <<hubVars, nodeVars, sent, pull, told, missed>>

\* collect_changes: rows that have changed since have a later revision and wait.
PushRead ==
    /\ push.step = "counted"
    /\ push' = [push EXCEPT !.step = "read",
                         !.rows = [o \in Order |-> IF o \in push.orders \ up THEN node[o] ELSE NoRow]]
    /\ UNCHANGED <<hubVars, nodeVars, sent, pull, told, missed>>

Carried == {o \in Order : push.rows[o] # NoRow}

\* Slip: the hub takes a cancellation over, and forgets the refund.
HubMergedUnflagged(o) ==
    [hub[o] EXCEPT !.status = IF push.rows[o].status = "cancelled" /\ @ = "live" THEN "cancelled" ELSE @,
                   !.number = @ \/ push.rows[o].number]

\* engine._merge_order at the hub, then flag_refund_if_paid.
HubMerged(o) ==
    LET cancels == push.rows[o].status = "cancelled" /\ hub[o].status = "live"
    IN  [status |-> IF cancels THEN "cancelled" ELSE hub[o].status,
         pay |-> IF cancels THEN AfterCancel(hub[o].pay) ELSE hub[o].pay,
         number |-> hub[o].number \/ push.rows[o].number]

HubAfterPush == [o \in Order |-> IF o \in Carried THEN HubMerged(o) ELSE hub[o]]

\* _in_flight_demands: orders that stand and have no pickup number yet.
HeldStatus == {"pending", "paid"}

\* Slip: an order that is not paid yet holds nothing back.
HeldIfPaid(rows) ==
    {o \in Order : rows[o].status = "live" /\ rows[o].pay = "paid" /\ ~rows[o].number}

Held(rows) ==
    {o \in Order : rows[o].status = "live" /\ rows[o].pay \in HeldStatus /\ ~rows[o].number}

\* What the report does not hold back: orders that stand here but have expired or
\* are cancelled at the branch, and what it would have to fall below zero for.
Unreported(rows) ==
    {o \in Order : rows[o].status = "live" /\ (rows[o].pay \in HeldStatus => rows[o].number)}

NotHeldBack(rows) ==
    Portions(Unreported(rows) \ push.seen) + Less(Portions(Held(rows)), push.stock)

ShelfAfter(rows) == Less(push.stock, Portions(Held(rows)))

\* One transaction at the hub: the rows first, then _save_stock_snapshot.  When
\* its answer is lost the branch does not know, and sends it all again.
PushApply(answered) ==
    /\ push.step = "read"
    /\ hub' = HubAfterPush
    /\ down' = down \cup {o \in Carried : HubMerged(o) # hub[o]}
    /\ IF push.stock # sent
       THEN /\ shelf' = ShelfAfter(HubAfterPush)
            /\ told' = push.sold
            /\ missed' = NotHeldBack(HubAfterPush)
       ELSE UNCHANGED <<shelf, told, missed>>
    /\ push' = NoPush
    /\ IF answered THEN sent' = push.stock /\ UNCHANGED up
                   ELSE up' = up \cup push.orders /\ UNCHANGED sent
    /\ UNCHANGED <<node, stock, sold, short, pull>>

\* Slip: what a push that failed was to carry is forgotten.
PushForgets ==
    /\ push.step # "idle"
    /\ push' = NoPush
    /\ UNCHANGED <<hubVars, nodeVars, sent, pull, told, missed>>

PushFails ==
    /\ push.step # "idle"
    /\ push' = NoPush
    /\ up' = up \cup push.orders
    /\ UNCHANGED <<hubVars, node, stock, sold, short, sent, pull, told, missed>>

-----------------------------------------------------------------------------
\* Pull: a page is read, applied, and then the cursor moves.

\* Slip: what has been paid and needs a refund is not sent either.
SendableUnpaidOnly == {o \in down : hub[o].pay \in {"pending", "at_once"}}

Sendable == {o \in down : hub[o].pay \notin UNPAID}

PullRead ==
    /\ pull.step = "idle"
    /\ Sendable # {}
    /\ pull' = [step |-> "read", orders |-> Sendable,
                rows |-> [o \in Order |-> IF o \in Sendable THEN hub[o] ELSE NoRow]]
    /\ down' = down \ Sendable
    /\ UNCHANGED <<hub, shelf, nodeVars, sent, push, told, missed>>

\* Orders that come for the first time, and orders that were cancelled.
New == {o \in pull.orders : node[o].status = "none"}

\* Slip: a page that comes again is taken for new.
ArrivingAgain == {o \in pull.orders : pull.rows[o].status = "live"}

Arriving == {o \in New : pull.rows[o].status = "live"}
Cancelled == {o \in pull.orders \ New : node[o].status = "live" /\ pull.rows[o].status = "cancelled"}

NodeMerged(o) ==
    CASE o \in Arriving           -> [pull.rows[o] EXCEPT !.number = TRUE]
      [] o \in New \ Arriving     -> pull.rows[o]
      [] o \in Cancelled          ->
             [node[o] EXCEPT !.status = "cancelled", !.pay = AfterCancel(@)]
      [] OTHER                    -> node[o]

\* consume_stock_unchecked: never below zero.
Consumed == Less(stock, Portions(Arriving))

\* One transaction at the branch; the cursor moves in the next one.  When it does
\* not, the same rows come again.
PullApply(saved) ==
    /\ pull.step = "read"
    /\ node' = [o \in Order |-> IF o \in pull.orders THEN NodeMerged(o) ELSE node[o]]
    /\ stock' = Consumed + Portions(Cancelled)
    /\ short' = short + Less(Portions(Arriving), stock)
    /\ up' = up \cup Arriving
              \cup {o \in Cancelled : node[o].pay = "paid"}
    /\ pull' = NoPull
    /\ down' = IF saved THEN down ELSE down \cup pull.orders
    /\ UNCHANGED <<hub, shelf, sold, sent, push, told, missed>>

PullFails ==
    /\ pull.step # "idle"
    /\ pull' = NoPull
    /\ down' = down \cup pull.orders
    /\ UNCHANGED <<hub, shelf, nodeVars, sent, push, told, missed>>

-----------------------------------------------------------------------------

Next ==
    \/ \E o \in Order :
          Place(o) \/ Paid(o) \/ Expire(o) \/ HubCancel(o) \/ NodeCancel(o)
    \/ CounterSale
    \/ PushOpen \/ PushCount \/ PushRead \/ (\E answered \in BOOLEAN : PushApply(answered)) \/ PushFails
    \/ PullRead \/ (\E saved \in BOOLEAN : PullApply(saved)) \/ PullFails

(***************************************************************************)
(* Fairness: both threads start over as long as the program runs and there *)
(* is something to send, and a call gets through in the end (strong: any   *)
(* one of them may fail once it was begun).                                *)
(***************************************************************************)
Fairness ==
    /\ WF_vars((up # {} \/ stock # sent) /\ PushOpen)
    /\ SF_vars(PushCount) /\ SF_vars(PushRead) /\ SF_vars(PushApply(TRUE))
    /\ WF_vars(PullRead) /\ SF_vars(PullApply(TRUE))

Spec == Init /\ [][Next]_vars
FairSpec == Spec /\ Fairness

-----------------------------------------------------------------------------
\* Properties.

\* Online orders that stand and have not reached the branch.
InFlight == {o \in Order : hub[o].status = "live" /\ node[o].status = "none"}

\* Orders the hub has cancelled and the branch still has.
Returning == {o \in Order : hub[o].status = "cancelled" /\ node[o].status = "live"}

\* The hub sells no portion twice: what it has on its shelf and what is under way
\* to the branch is there, but for portions sold at the counter since the report,
\* orders on their way back, and orders the report did not hold back - they have
\* expired and are not cancelled yet (hub._save_stock_snapshot, _in_flight_demands).
NotSoldTwice ==
    shelf > 0 =>
        shelf + Portions(InFlight) <= stock + (sold - told) + missed + Portions(Returning)

\* The branch's stock is what it started with less what was sold and what it holds
\* for online orders, however often a page comes and whoever cancels; a portion
\* that was not there on arrival is the only one that can be given back too often
\* (node._apply, consume_stock_unchecked).
BranchStockConserved ==
    stock + sold + Portions({o \in Order : node[o].status = "live"}) = Stock + short

\* When neither end has anything to send, both know the same of an order the
\* branch has: status, pickup number and whether it has to be refunded
\* (engine._merge_order, flag_refund_if_paid at both ends).
Quiet == down \cap Sendable = {} /\ up = {} /\ push.step = "idle" /\ pull.step = "idle"

BothAgree ==
    Quiet => \A o \in Order : node[o].status # "none" => node[o] = hub[o]

\* A paid order reaches the branch, unless it is cancelled before (node.pull).
PaidArrives ==
    \A o \in Order : hub[o].pay = "paid" ~> node[o].status # "none" \/ hub[o].status = "cancelled"

\* A paid order that the branch cancels gets its refund at the hub, which alone can
\* make it (hub.push, flag_refund_if_paid).
CancelReachesHub ==
    \A o \in Order :
        node[o].status = "cancelled" ~> hub[o].pay \notin {"pending", "paid"}

\* A report puts no portion on the shelf that an order which stands and has not
\* reached the branch has taken (hub._save_stock_snapshot: they must be held back,
\* or the hub sells them once more).
InFlightHeldBack ==
    shelf > 0 => shelf + Portions(InFlight) <= stock + (sold - told) + Portions(Returning)

=============================================================================
