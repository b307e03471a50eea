------------------------------- MODULE Pricing -------------------------------
(***************************************************************************)
(* What a cart costs: promotions, coupon, member's tier, the cashier's     *)
(* discount, points, service charge and delivery fee, one stage after the  *)
(* other (promotion_service.evaluate, order_pricing.py,                    *)
(* order_checkout._price).                                                 *)
(*                                                                         *)
(* A dollar is Unit parts, so that three discounts by half leave whole     *)
(* parts: money is exact until the code rounds it.                         *)
(***************************************************************************)
EXTENDS Integers, Sequences, FiniteSetsExt, SequencesExt

CONSTANTS
    Carts,      \* lines of [price, quantity, kind]: kind is regular, addon, reward or pass
    Deals,      \* sequences of promotions, in the order of their priority
    Percents,   \* what a coupon, a tier, a discount takes off, and the service charge, in percent
    MaxPoints,  \* points offered; one is worth a dollar
    Caps,       \* the most dollars points may pay of an order, or Uncapped
    Fees        \* delivery fees, 0 among them

Unit == 8
Uncapped == 0

VARIABLES
    cart, deals,    \* the cart and the promotions that are active
    stage,          \* the next stage of the price
    used,           \* units that already take part in a promotion
    off,            \* what promotions of single items took off each line
    promotion,      \* what all promotions take off, in whole dollars
    noCoupon,       \* a promotion that a coupon cannot be added to
    remaining,      \* what is left to pay
    offered,        \* the points offered, and the cap on what they pay of an order
    paidByPoints,
    bill            \* the order's amounts in dollars: total, service charge, fee, discount

vars == <<cart, deals, stage, used, off, promotion, noCoupon, remaining, offered, paidByPoints, bill>>

NoBill == [total |-> 0, service |-> 0, fee |-> 0, discount |-> 0]
NoOffer == [points |-> 0, cap |-> Uncapped]

Init ==
    /\ cart = <<>> /\ deals = <<>>
    /\ stage = <<"cart", 1>>
    /\ used = {} /\ off = <<>>
    /\ promotion = 0 /\ noCoupon = FALSE
    /\ remaining = 0 /\ offered = NoOffer /\ paidByPoints = 0
    /\ bill = NoBill

\* The cart as it is sent, and the promotions that are active at that moment.
Send ==
    /\ stage[1] = "cart" /\ stage' = <<"items", 1>>
    /\ cart' \in Carts /\ deals' \in Deals
    /\ off' = [i \in DOMAIN cart' |-> 0]
    /\ UNCHANGED <<used, promotion, noCoupon, remaining, offered, paidByPoints, bill>>

Least(x, y) == IF x < y THEN x ELSE y
Positive(x) == IF x > 0 THEN x ELSE 0

\* Half a dollar is rounded up.
Round(money) == (money + Unit \div 2) \div Unit
RoundDown(money) == money \div Unit
Share(money, percent) == (money * percent) \div 100

\* A reward and a stored cup are free.
UnitPrice(line) == IF line.kind \in {"reward", "pass"} THEN 0 ELSE line.price
LineTotal(i) == UnitPrice(cart[i]) * cart[i].quantity * Unit
Sum(f(_), S) == MapThenSumSet(f, S)
Subtotal == Sum(LineTotal, DOMAIN cart)

\* Only regular lines take part in promotions, a unit at a time: a unit is its line and its
\* number in the line.
Regular == {i \in DOMAIN cart : cart[i].kind = "regular"}
Units == UNION {{<<i, n>> : n \in 1..cart[i].quantity} : i \in Regular}
Price(u) == cart[u[1]].price * Unit

\* Dearer units first, and units of the same price in the order of the cart.
Dearer(u, v) ==
    \/ Price(u) > Price(v)
    \/ Price(u) = Price(v) /\ (u[1] < v[1] \/ (u[1] = v[1] /\ u[2] < v[2]))
Pool(done) == SetToSortSeq(Units \ done, Dearer)

\* Whole groups of the pool, and the place of a unit in its group.
Grouped(pool, size) == (Len(pool) \div size) * size
InGroup(k, size) == ((k - 1) % size) + 1

\* What a promotion of single items takes off the k-th unit of the pool: of a group of
\* buy + get the cheapest are free; of every n the last one costs a part.
UnitOff(deal, pool, k) ==
    CASE deal.kind = "bogo" ->
            IF InGroup(k, deal.buy + deal.get) > deal.buy THEN Price(pool[k]) ELSE 0
      [] deal.kind = "nth" ->
            IF InGroup(k, deal.n) = deal.n THEN Share(Price(pool[k]), 100 - deal.percent) ELSE 0

GroupSize(deal) == IF deal.kind = "bogo" THEN deal.buy + deal.get ELSE deal.n

ItemLevel == {"bogo", "nth"}
\* Slip: the lines of a bundle take part in the next promotion as well.
TakesPartAgain == {}
TakesPart == used

Blocks(deal, amount) == noCoupon' = (noCoupon \/ (amount > 0 /\ ~deal.withCoupon))

NextDeal ==
    stage' = IF stage[2] < Len(deals) THEN <<stage[1], stage[2] + 1>>
             ELSE IF stage[1] = "items" THEN <<"thresholds", 1>> ELSE <<"coupon", 1>>

\* The stage's next promotion, if there is one of this stage's kind.
Current(kinds) == stage[2] \in DOMAIN deals /\ deals[stage[2]].kind \in kinds

ItemDeal ==
    /\ stage[1] = "items" /\ NextDeal
    /\ IF ~Current(ItemLevel) THEN UNCHANGED <<used, off, promotion, noCoupon>>
       ELSE LET deal == deals[stage[2]]
                pool == Pool(TakesPart)
                taken == 1..Grouped(pool, GroupSize(deal))
                Off(k) == UnitOff(deal, pool, k)
                amount == Round(Sum(Off, taken))
            IN  /\ used' = used \cup {pool[k] : k \in taken}
                /\ off' = [i \in DOMAIN cart |->
                              off[i] + Sum(Off, {k \in taken : pool[k][1] = i})]
                /\ promotion' = promotion + amount
                /\ Blocks(deal, amount)
    /\ UNCHANGED <<cart, deals, remaining, offered, paidByPoints, bill>>

\* What a threshold is measured by: regular lines less what the promotions of single items
\* took off them.
LessItems(i) == LineTotal(i) - off[i]
Base == Positive(Sum(LessItems, Regular))

ThresholdDeal ==
    /\ stage[1] = "thresholds" /\ NextDeal
    /\ IF ~Current({"threshold"}) \/ Base = 0 \/ Base < deals[stage[2]].threshold * Unit
       THEN UNCHANGED <<promotion, noCoupon>>
       ELSE LET deal == deals[stage[2]]
                less == IF deal.amount > 0 THEN deal.amount * Unit ELSE Share(Base, 100 - deal.percent)
                amount == Least(Round(less), Round(Base))
            IN  promotion' = promotion + amount /\ Blocks(deal, amount)
    /\ UNCHANGED <<cart, deals, used, off, remaining, offered, paidByPoints, bill>>

Rest == UNCHANGED <<cart, deals, used, off, promotion, noCoupon, bill>>

\* Slip: the promotions take off what they add up to.
PromotionsTakeAll == promotion * Unit

\* The promotions never take off more than there is.
PromotionsTakeOff == Least(promotion * Unit, Subtotal)

Coupon ==
    /\ stage[1] = "coupon" /\ stage' = <<"tier", 1>>
    /\ LET left == Subtotal - PromotionsTakeOff
       IN  \E percent \in IF noCoupon THEN {0} ELSE Percents : remaining' = left - Share(left, percent)
    /\ UNCHANGED <<offered, paidByPoints>> /\ Rest

\* A delivery platform's order has neither.
TierAndManual ==
    /\ stage[1] = "tier" /\ stage' = <<"points", 1>>
    /\ \E tier, manual \in Percents :
           LET left == remaining - Share(remaining, tier)
           IN  remaining' = left - Share(left, manual)
    /\ UNCHANGED <<offered, paidByPoints>> /\ Rest

\* Slip: cents are rounded down before points are counted.
PointsPayDollars(offer) ==
    LET due == RoundDown(remaining)
    IN  Least(offer.points, IF offer.cap = Uncapped THEN due ELSE Least(due, offer.cap))

\* Points pay whole dollars, as many as are due after rounding and the cap allows.
PointsPay(offer) ==
    LET due == Round(remaining)
    IN  Least(offer.points, IF offer.cap = Uncapped THEN due ELSE Least(due, offer.cap))

Points ==
    /\ stage[1] = "points" /\ stage' = <<"total", 1>>
    /\ offered' \in [points: 0..MaxPoints, cap: Caps]
    /\ paidByPoints' = PointsPay(offered')
    /\ remaining' = Positive(remaining - PointsPay(offered') * Unit)
    /\ Rest

\* The discount is what the subtotal, the service charge and the delivery fee exceed the total
\* by.  Only an order eaten in has a service charge, only one brought home a fee.
Total ==
    /\ stage[1] = "total" /\ stage' = <<"done", 1>>
    /\ \E percent \in Percents, fee \in Fees :
           LET service == Round(Share(remaining, percent))
               total == Round(remaining) + service + fee
           IN  /\ fee > 0 => percent = 0
               /\ bill' = [total |-> total, service |-> service, fee |-> fee,
                           discount |-> Positive(RoundDown(Subtotal) + service + fee - total)]
    /\ UNCHANGED <<cart, deals, used, off, promotion, noCoupon, remaining, offered, paidByPoints>>

Next == Send \/ ItemDeal \/ ThresholdDeal \/ Coupon \/ TierAndManual \/ Points \/ Total

Spec == Init /\ [][Next]_vars

-----------------------------------------------------------------------------

\* The amounts of an order add up, whatever was rounded on the way: subtotal, service
\* charge and delivery fee less the discount are the total, and no discount is negative or
\* takes off more than the goods cost (order_checkout._price: total_discount).
AmountsAddUp ==
    stage[1] = "done" =>
        /\ bill.total = RoundDown(Subtotal) + bill.service + bill.fee - bill.discount
        /\ bill.discount \in 0..RoundDown(Subtotal) /\ bill.service >= 0

\* Enough points pay everything but the delivery fee, unless they pay what the cap allows: no
\* dollar remains that cannot be paid (order_checkout._price: "否則永遠剩 $1 折不掉").
PointsPayAll ==
    stage[1] = "done" /\ offered.points > paidByPoints =>
        bill.total = bill.fee \/ (offered.cap # Uncapped /\ paidByPoints = offered.cap)

\* However many promotions of single items there are, they take off no line more than it
\* costs (promotion_service.evaluate: a unit takes part in one of them).
LinesStayPositive == \A i \in DOMAIN cart : off[i] <= LineTotal(i)

\* Promotions leave the price of add-ons alone.  It does not hold: each threshold promotion
\* is measured by the whole of the regular lines, two of them may take off more than that.
AddonsNotReduced ==
    stage[1] = "coupon" => Subtotal - PromotionsTakeOff >= Subtotal - Sum(LineTotal, Regular)

=============================================================================
