------------------------------- MODULE MCHosts -------------------------------
(***************************************************************************)
(* What two databases that work on their own do to each other when their   *)
(* rows are exchanged: orders of a branch, online orders and the branch's  *)
(* stock, transfers between sites, and what a member has.  The four models *)
(* share no state; which of them runs is chosen at first (part), and the   *)
(* others stay as they are.                                                *)
(***************************************************************************)
EXTENDS Integers, FiniteSets, TLC

CONSTANTS
    Order, Total,                                 \* OrderSync
    OnlineOrder, Qty, Stock, Prepaid, MaxSold,    \* OnlineStock
    Transfer, Node, HQ, NoSite, Goods,            \* StockTransfer
    Shop, Online, MaxOrder, Concurrent            \* Members

ASSUME OrderAssumption == Total \in Nat
ASSUME OnlineAssumption ==
    /\ IsFiniteSet(OnlineOrder) /\ Qty \in [OnlineOrder -> Nat \ {0}]
    /\ Stock \in Nat /\ MaxSold \in Nat /\ Prepaid \in BOOLEAN
ASSUME TransferAssumption ==
    /\ IsFiniteSet(Node) /\ IsFiniteSet(Transfer)
    /\ HQ \notin Node /\ NoSite \notin Node \cup {HQ} /\ Goods \in Nat
ASSUME MemberAssumption == Online \notin Shop /\ MaxOrder \in Nat /\ Concurrent \in BOOLEAN

VARIABLES
    part,
    orderRow, back, dirty, page,
    hub, node, shelf, stock, sold, short, down, up, sent, push, pull, told, missed,
    transferRow, goods, out, in, pushed, pulled, revokedAt, revoked, alerted,
    form, order, ledger, points, coupon, clock, marked, pushing, warned

orderVars == <<orderRow, back, dirty, page>>
sellingVars == <<hub, node, shelf, stock, sold, short, down, up, sent, push, pull, told, missed>>
sendingVars == <<transferRow, goods, out, in, pushed, pulled, revokedAt, revoked, alerted>>
memberVars == <<form, order, ledger, points, coupon, clock, marked, pushing, warned>>
all == <<part, orderVars, sellingVars, sendingVars, memberVars>>

Orders == INSTANCE OrderSync WITH row <- orderRow

Selling == INSTANCE OnlineStock WITH Order <- OnlineOrder

Sending == INSTANCE StockTransfer WITH
    Stock <- Goods, row <- transferRow, stock <- goods, clock <- revokedAt, told <- alerted

Member == INSTANCE Members WITH Branch <- Shop, Hub <- Online

Init ==
    /\ part \in {"orders", "stock", "transfers", "members"}
    /\ Orders!Init /\ Selling!Init /\ Sending!Init /\ Member!Init

Next ==
    \/ part = "orders" /\ Orders!Next /\ UNCHANGED <<part, sellingVars, sendingVars, memberVars>>
    \/ part = "stock" /\ Selling!Next /\ UNCHANGED <<part, orderVars, sendingVars, memberVars>>
    \/ part = "transfers" /\ Sending!Next /\ UNCHANGED <<part, orderVars, sellingVars, memberVars>>
    \/ part = "members" /\ Member!Next /\ UNCHANGED <<part, orderVars, sellingVars, sendingVars>>

Spec == Init /\ [][Next]_all

\* One portion for each online order.
OnePortion == [o \in OnlineOrder |-> 1]

Symmetry == Permutations(OnlineOrder)

-----------------------------------------------------------------------------

\* Every variable holds what it should (the models' type invariants).
TypesOK ==
    /\ part = "orders" => Orders!TypeOK
    /\ part = "stock" => Selling!TypeOK
    /\ part = "transfers" => Sending!TypeOK
    /\ part = "members" => Member!TypeOK

\* With nothing under way the two hosts have the same: of an order (OrderSync:
\* engine._merge_order), of an online order and its shelf (OnlineStock), of a transfer
\* (StockTransfer: engine._merge_transfer).
HostsAgree ==
    /\ part = "orders" => Orders!RowsAgree
    /\ part = "stock" => Selling!BothAgree
    /\ part = "transfers" => Sending!EndsAgree

\* Portions and ingredients are neither lost nor made on their way (OnlineStock:
\* node._apply_online_stock; StockTransfer: branch_service.ship and receive).
GoodsConserved ==
    /\ part = "stock" => Selling!BranchStockConserved
    /\ part = "transfers" => Sending!GoodsConserved

\* What the hub still sells of a branch is there, but for what the branch sold since
\* it reported and what the report could not hold back (OnlineStock:
\* hub._save_stock_snapshot).
NotSoldTwice == part = "stock" => Selling!NotSoldTwice

\* A receiver that cancelled is told when the goods were sent nevertheless
\* (StockTransfer: engine._merge_transfer).
ReceiverTold == part = "transfers" => Sending!ReceiverTold

\* Only one order has earned the new member's bonus (Members:
\* hub._undo_duplicate_referrals).
BonusOnce == part = "members" => Member!BonusOnce

\* The shop knows of a coupon that was used twice (Members:
\* hub._reconcile_coupon_use).
CouponTold == part = "members" => Member!CouponTold

=============================================================================
