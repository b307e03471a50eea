------------------------------ MODULE OrderSync ------------------------------
(***************************************************************************)
(* An order of a branch in two databases, the branch's and the hub's.      *)
(* Staff work on both (order_lifecycle, table_service, payment_service)    *)
(* while the line between them may be down; engine._merge_order brings the *)
(* two rows together again.  Pages may be late or come twice.              *)
(***************************************************************************)
EXTENDS Integers, FiniteSets

CONSTANTS
    Order,       \* orders of the branch
    Total        \* what an order costs, above zero; one unit for each item

Branch == "branch"
Hub == "hub"
Site == {Branch, Hub}

VARIABLES
    row,         \* [Site -> the order rows it has]
    back,        \* [Site -> refunds it made of an order]
    dirty,       \* [Site -> orders it has to send]
    page         \* [Site -> rows on their way to it]

vars == <<row, back, dirty, page>>

Status == {"Pending", "Completed", "PickedUp", "Cancelled"}

\* ORDER_RANK.
Rank(status) ==
    CASE status = "none" -> -1
      [] status = "Pending" -> 0
      [] status = "Completed" -> 1
      [] status = "PickedUp" -> 2
      [] status = "Cancelled" -> 3

\* payment_status; the code's empty string is "at_once".
Pay == {"none", "at_once", "unpaid", "authorizing", "settled", "refund_required", "refunded"}
Row == [status: Status \cup {"none"}, pay: Pay, total: 0..Total, voided: 0..Total, refunded: 0..Total]
NoRow == [status |-> "none", pay |-> "none", total |-> 0, voided |-> 0, refunded |-> 0]
NoPage == [o \in Order |-> NoRow]

TypeOK ==
    /\ row \in [Site -> [Order -> Row]]
    /\ back \in [Site -> [Order -> 0..Total]]
    /\ dirty \in [Site -> SUBSET Order]
    /\ page \in [Site -> [Order -> Row]]

Init ==
    /\ row = [s \in Site |-> NoPage]
    /\ back = [s \in Site |-> [o \in Order |-> 0]]
    /\ dirty = [s \in Site |-> {}]
    /\ page = [s \in Site |-> NoPage]

-----------------------------------------------------------------------------
\* What staff do.  A request that changes a row marks it.

IsPaid(r) == r.pay \in {"at_once", "settled"}

Change(s, o, r) ==
    /\ row' = [row EXCEPT ![s][o] = r]
    /\ dirty' = [dirty EXCEPT ![s] = @ \cup {o}]
    /\ UNCHANGED page

Place(o, pay) ==
    /\ row[Branch][o] = NoRow
    /\ Change(Branch, o, [status |-> "Pending", pay |-> pay, total |-> Total, voided |-> 0, refunded |-> 0])
    /\ UNCHANGED back

Advance(s, o, status) ==
    /\ row[s][o].status \in {"Pending", "Completed"}
    /\ Rank(status) = Rank(row[s][o].status) + 1
    /\ Change(s, o, [row[s][o] EXCEPT !.status = status])
    /\ UNCHANGED back

\* flag_refund_if_paid.
Flagged(pay) == IF pay = "settled" THEN "refund_required" ELSE pay

\* Slip: a partial refund made before is forgotten.
OwedInFull(r) == IF Flagged(r.pay) \in {"at_once", "refund_required"} THEN r.total ELSE 0

\* What was paid and not refunded yet is refunded by the host that cancels.
Owed(r) == IF Flagged(r.pay) \in {"at_once", "refund_required"} THEN r.total - r.refunded ELSE 0

Cancel(s, o) ==
    LET r == row[s][o]
    IN  /\ r.status \in Status \ {"Cancelled"}
        /\ Change(s, o, [r EXCEPT !.status = "Cancelled", !.pay = Flagged(@), !.refunded = @ + Owed(r)])
        /\ back' = [back EXCEPT ![s][o] = @ + Owed(r)]

\* settle_table.  Tables are known at the branch only.
Settle(o) ==
    /\ row[Branch][o].pay = "unpaid" /\ row[Branch][o].status # "Cancelled"
    /\ Change(Branch, o, [row[Branch][o] EXCEPT !.pay = "settled"])
    /\ UNCHANGED back

\* charge_linepay has the money.
Charged(o) ==
    /\ row[Branch][o].pay = "authorizing" /\ row[Branch][o].status # "Cancelled"
    /\ Change(Branch, o, [row[Branch][o] EXCEPT !.pay = "at_once"])
    /\ UNCHANGED back

Refundable(r) == IsPaid(r) /\ r.status \in Status \ {"Cancelled"} /\ r.refunded < r.total

PartialRefund(s, o) ==
    /\ Refundable(row[s][o])
    /\ Change(s, o, [row[s][o] EXCEPT !.refunded = @ + 1])
    /\ back' = [back EXCEPT ![s][o] = @ + 1]

\* void_item, by the branch that makes the order (owns_stock).
Void(o) ==
    LET r == row[Branch][o]
    IN  /\ r.status \in Status \ {"Cancelled"} /\ r.voided < Total
        /\ \/ /\ r.pay = "unpaid"
              /\ Change(Branch, o, [r EXCEPT !.voided = @ + 1, !.total = @ - 1])
              /\ UNCHANGED back
           \/ /\ Refundable(r)
              /\ Change(Branch, o, [r EXCEPT !.voided = @ + 1, !.refunded = @ + 1])
              /\ back' = [back EXCEPT ![Branch][o] = @ + 1]

\* mark_refund_done, online_refund_done.
RefundDone(s, o) ==
    /\ row[s][o].pay = "refund_required"
    /\ Change(s, o, [row[s][o] EXCEPT !.pay = "refunded"])
    /\ UNCHANGED back

-----------------------------------------------------------------------------
\* Synchronisation.

Larger(m, n) == IF m < n THEN n ELSE m

StatusAfter(mine, new) == IF Rank(new.status) > Rank(mine.status) THEN new.status ELSE mine.status

RefundedAfter(mine, new) == Larger(mine.refunded, new.refunded)

\* Slip: a settlement is taken over although the order is cancelled here.
PayAfterAnyway(mine, new) ==
    IF new.pay \in {"settled", "refund_required"} /\ mine.pay \in {"unpaid", "settled"} THEN new.pay
    ELSE IF mine.pay = "authorizing" /\ new.pay = "at_once" THEN "at_once"
    ELSE IF new.pay = "refunded" /\ mine.pay = "refund_required" THEN "refunded"
    ELSE mine.pay

\* An order that is settled at one end and cancelled at the other has to be
\* refunded; flag_refund_if_paid follows a cancellation at either end.
PayAfter(mine, new) ==
    LET cancelled == StatusAfter(mine, new) = "Cancelled"
        taken ==
            IF new.pay \in {"settled", "refund_required"} /\ mine.pay \in {"unpaid", "settled"}
            THEN IF new.pay = "refund_required" \/ cancelled THEN "refund_required" ELSE "settled"
            ELSE IF mine.pay = "authorizing" /\ new.pay = "at_once" THEN "at_once"
            ELSE mine.pay
        done == IF new.pay = "refunded" /\ taken = "refund_required" THEN "refunded" ELSE taken
    IN  IF cancelled /\ mine.status # "Cancelled" THEN Flagged(done) ELSE done

TotalAfter(mine, new) ==
    IF mine.pay = "unpaid" /\ new.total < mine.total THEN new.total ELSE mine.total

Merged(mine, new) ==
    IF mine = NoRow THEN new
    ELSE [status |-> StatusAfter(mine, new), pay |-> PayAfter(mine, new),
          total |-> TotalAfter(mine, new), voided |-> Larger(mine.voided, new.voided),
          refunded |-> RefundedAfter(mine, new)]

OnPage(p) == {o \in Order : p[o] # NoRow}
Other(s) == IF s = Hub THEN Branch ELSE Hub

Send(s) ==
    /\ dirty[s] # {} /\ page[Other(s)] = NoPage
    /\ page' = [page EXCEPT ![Other(s)] = [o \in Order |-> IF o \in dirty[s] THEN row[s][o] ELSE NoRow]]
    /\ dirty' = [dirty EXCEPT ![s] = {}]
    /\ UNCHANGED <<row, back>>

\* The hub marks what a merge changed, a branch does not (tracking.suppressed),
\* but for a flag_refund_if_paid, which comes after the merge.
MergedRow(s, o) == Merged(row[s][o], page[s][o])

Marked(s) ==
    IF s = Hub THEN {o \in OnPage(page[s]) : MergedRow(s, o) # row[s][o]}
    ELSE {o \in OnPage(page[s]) :
            /\ MergedRow(s, o).status = "Cancelled" /\ row[s][o].status # "Cancelled"
            /\ row[s][o].pay = "settled" /\ page[s][o].pay # "refund_required"}

\* A page whose answer is lost, or whose cursor is not saved, comes again.
Receive(s, saved) ==
    /\ OnPage(page[s]) # {}
    /\ row' = [row EXCEPT ![s] = [o \in Order |->
                  IF o \in OnPage(page[s]) THEN MergedRow(s, o) ELSE row[s][o]]]
    /\ dirty' = [dirty EXCEPT ![s] = @ \cup Marked(s),
                              ![Other(s)] = IF saved THEN @ ELSE @ \cup OnPage(page[s])]
    /\ page' = [page EXCEPT ![s] = NoPage]
    /\ UNCHANGED back

Next ==
    \/ \E o \in Order :
          \/ \E pay \in {"at_once", "unpaid", "authorizing"} : Place(o, pay)
          \/ Settle(o) \/ Charged(o) \/ Void(o)
          \/ \E s \in Site :
                \/ \E status \in {"Completed", "PickedUp"} : Advance(s, o, status)
                \/ Cancel(s, o) \/ PartialRefund(s, o) \/ RefundDone(s, o)
    \/ \E s \in Site : Send(s) \/ \E saved \in BOOLEAN : Receive(s, saved)

Spec == Init /\ [][Next]_vars

-----------------------------------------------------------------------------
\* Properties.

Travelling(o) == o \in dirty[Branch] \cup dirty[Hub] \cup OnPage(page[Branch]) \cup OnPage(page[Hub])

\* When nothing of an order is under way the hub has what the branch has: status,
\* total, voided items and refunds, and the same payment until one of them marks the
\* refund as done; and neither keeps the money of an order that the other cancelled
\* while it was settled (engine._merge_order, flag_refund_if_paid).
RowsAgree ==
    \A o \in Order : ~Travelling(o) =>
        LET here == row[Branch][o]
            there == row[Hub][o]
        IN  /\ [here EXCEPT !.pay = there.pay] = there
            /\ here.pay = there.pay \/ "refunded" \in {here.pay, there.pay}
            /\ here.status = "Cancelled" => "settled" \notin {here.pay, there.pay}

\* The hosts together refund no more than an order cost (engine._merge_order:
\* partial refunds are made by the host that took the order).
RefundedOnce == \A o \in Order : back[Branch][o] + back[Hub][o] <= Total

=============================================================================
