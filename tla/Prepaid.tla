------------------------------- MODULE Prepaid -------------------------------
(***************************************************************************)
(* What customers have paid for in advance: one gift card                  *)
(* (giftcard_service.py) and one pass for so many cups (pass_service.py),  *)
(* used at several tills at once, refunded, voided and cancelled.          *)
(*                                                                         *)
(* A checkout looks at the card or the pass before its transaction writes  *)
(* anything; what it does to them when it commits is one step, for the     *)
(* card's row is locked and the pass is changed by a conditional update.   *)
(* Cancelling the sale of a pass reads it after the order's row has been   *)
(* written: on SQLite nothing comes in between (see SaleCancelled).        *)
(***************************************************************************)
EXTENDS Integers

CONSTANTS
    Counter,    \* the tills
    Issued,     \* what the gift card was sold for
    Cups,       \* what the pass was sold for
    MaxUse      \* bound: what an order takes from either

VARIABLES
    card,       \* the gift card: its status and its balance, the sum of its ledger
    cupPass,    \* the pass: its status, what remains, the sum of its ledger
    paidBy,     \* what orders that are not refunded have taken from the card
    drunk,      \* cups that orders which are not cancelled have redeemed
    counter     \* what each till is in the middle of, how much of it and the balance it saw

vars == <<card, cupPass, paidBy, drunk, counter>>

Idle == [doing |-> "idle", amount |-> 0, saw |-> 0]

TypeOK ==
    /\ card \in [status : {"active", "void"}, balance : Int]
    /\ cupPass \in [status : {"active", "void"}, remaining : Int, ledger : Int]
    /\ paidBy \in Nat /\ drunk \in Nat
    /\ counter \in [Counter -> [doing : {"idle", "charging", "voiding", "redeeming"},
                                amount : 0..MaxUse, saw : Int]]

Init ==
    /\ card = [status |-> "active", balance |-> Issued]
    /\ cupPass = [status |-> "active", remaining |-> Cups, ledger |-> Cups]
    /\ paidBy = 0 /\ drunk = 0
    /\ counter = [c \in Counter |-> Idle]

Begin(c, what, n, saw) ==
    /\ counter[c] = Idle
    /\ counter' = [counter EXCEPT ![c] = [doing |-> what, amount |-> n, saw |-> saw]]
    /\ UNCHANGED <<card, cupPass, paidBy, drunk>>
End(c, what) == counter[c].doing = what /\ counter' = [counter EXCEPT ![c] = Idle]

StartCharge(c, n) == card.status = "active" /\ Begin(c, "charging", n, card.balance)

\* Slip: the balance is the one that was read before the card was locked.
LeftBefore(c) == counter[c].saw

\* What is left on the card, counted when its row is locked.
LeftOn(c) == card.balance

Charge(c) ==
    /\ End(c, "charging")
    /\ LET n == counter[c].amount IN
       IF LeftOn(c) < n THEN UNCHANGED <<card, paidBy>>
       ELSE card' = [card EXCEPT !.balance = @ - n] /\ paidBy' = paidBy + n
    /\ UNCHANGED <<cupPass, drunk>>

\* An order is refunded, whole or in part: the money goes back on the card, which may have
\* been voided.
Refund(n) ==
    /\ paidBy >= n /\ paidBy' = paidBy - n
    /\ card' = [card EXCEPT !.balance = @ + n]
    /\ UNCHANGED <<cupPass, drunk, counter>>

StartVoid(c) == card.status = "active" /\ Begin(c, "voiding", 0, card.balance)

\* What is on the card is taken off when it is voided.
Void(c) ==
    /\ End(c, "voiding")
    /\ card' = [status |-> "void", balance |-> card.balance - LeftOn(c)]
    /\ UNCHANGED <<cupPass, paidBy, drunk>>

StartRedeem(c, n) == cupPass.status = "active" /\ Begin(c, "redeeming", n, 0)

\* Slip: that the pass was there is enough.
PassExists(n) == TRUE

\* Cups are redeemed where that many remain.
Remain(n) == cupPass.remaining >= n

Redeem(c) ==
    /\ End(c, "redeeming")
    /\ LET n == counter[c].amount IN
       IF Remain(n)
       THEN /\ cupPass' = [cupPass EXCEPT !.remaining = @ - n, !.ledger = @ - n]
            /\ drunk' = drunk + n
       ELSE UNCHANGED <<cupPass, drunk>>
    /\ UNCHANGED <<card, paidBy>>

\* The order that redeemed n cups is cancelled.
RedeemCancelled(n) ==
    /\ drunk >= n /\ drunk' = drunk - n
    /\ cupPass' = [cupPass EXCEPT !.remaining = @ + n, !.ledger = @ + n]
    /\ UNCHANGED <<card, paidBy, counter>>

\* The order that sold the pass is cancelled and its price paid back, unless cups were used.
SaleCancelled ==
    /\ cupPass.status = "active" /\ cupPass.remaining >= Cups
    /\ cupPass' = [status |-> "void", remaining |-> 0, ledger |-> cupPass.ledger - cupPass.remaining]
    /\ UNCHANGED <<card, paidBy, drunk, counter>>

Next ==
    \/ \E c \in Counter :
           \/ \E n \in 1..MaxUse : StartCharge(c, n) \/ StartRedeem(c, n)
           \/ Charge(c) \/ StartVoid(c) \/ Void(c) \/ Redeem(c)
    \/ \E n \in 1..MaxUse : Refund(n) \/ RedeemCancelled(n)
    \/ SaleCancelled

Spec == Init /\ [][Next]_vars

-----------------------------------------------------------------------------

\* Tills that use one gift card or one pass at the same time never take more than is on it
\* (giftcard_service._lock, pass_service.redeem).
NeverOverdrawn == card.balance >= 0 /\ cupPass.remaining >= 0

\* A pass whose price was paid back has no cup redeemed, whatever a till was about to do
\* (pass_service.on_sale_order_cancelled); and what remains is what its ledger says.
RefundedPassUnused ==
    /\ cupPass.status = "void" => drunk = 0
    /\ cupPass.remaining = cupPass.ledger

\* A voided card is worth nothing.  It does not hold: an order that it paid may be refunded
\* to it afterwards (giftcard_service.void: the balance becomes zero).
VoidedIsEmpty == card.status = "void" => card.balance = 0

=============================================================================
