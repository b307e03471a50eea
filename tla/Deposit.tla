------------------------------- MODULE Deposit -------------------------------
(***************************************************************************)
(* The deposit of one reservation, paid online on the provider's page      *)
(* (deposit_service.py; reservation_service.set_reservation_status; the    *)
(* routes of routes/reservations.py that open the page and cancel).        *)
(*                                                                         *)
(* A change of status and what it makes of the deposit, the call to the    *)
(* provider included, is one transaction that holds the reservation's row  *)
(* from its first conditional update on: it is one step, which an          *)
(* interruption undoes except for what the provider has done.              *)
(***************************************************************************)
EXTENDS Naturals

CONSTANTS
    Trade,          \* trade numbers: a new one whenever the payment page is opened
    Worker,         \* requests for the payment page being served at the same time
    NoTrade,
    MaxCrash        \* interruptions

VARIABLES
    row,        \* the reservation: its status, the deposit's status and trade number
    payment,    \* the trade whose provider number the row has
    late,       \* whether a cancellation no longer gives the deposit back
    opening,    \* workers that have seen the deposit pending and will write a new trade
    page,       \* trades whose payment page has been opened
    taken,      \* trades the provider has taken the money of
    answered,   \* trades whose notification was answered
    given,      \* trades the provider has given the money back of
    told,       \* trades the shop was told to pay back by hand
    crashes

vars == <<row, payment, late, opening, page, taken, answered, given, told, crashes>>

Over == {"seated", "cancelled", "no_show"}
DepositStatus == {"pending", "paid", "expired", "refunded", "refund_failed", "applied", "forfeited"}

TypeOK ==
    /\ row \in [status : Over \cup {"booked"}, deposit : DepositStatus, trade : Trade \cup {NoTrade}]
    /\ payment \in Trade \cup {NoTrade} /\ late \in BOOLEAN
    /\ opening \subseteq Worker
    /\ page \subseteq Trade /\ taken \subseteq page /\ answered \subseteq taken /\ given \subseteq taken
    /\ told \subseteq taken
    /\ crashes \in 0..MaxCrash

Init ==
    /\ row = [status |-> "booked", deposit |-> "pending", trade |-> NoTrade]
    /\ payment = NoTrade /\ late = FALSE
    /\ opening = {} /\ page = {} /\ taken = {} /\ answered = {} /\ given = {} /\ told = {}
    /\ crashes = 0

\* The customer opens the payment page: a new trade number is written, whatever the deposit
\* has become since it was seen pending.
OpenPage(w) ==
    /\ w \notin opening /\ row.deposit = "pending"
    /\ opening' = opening \cup {w}
    /\ UNCHANGED <<row, payment, late, page, taken, answered, given, told, crashes>>

NewAttempt(w) ==
    /\ w \in opening
    /\ opening' = opening \ {w}
    /\ \E t \in Trade \ page :
           /\ page' = page \cup {t}
           /\ row' = [row EXCEPT !.trade = t]
    /\ UNCHANGED <<payment, late, taken, answered, given, told, crashes>>

\* The customer pays, on one page or on two.
Pay(t) ==
    /\ t \in page \ taken
    /\ taken' = taken \cup {t}
    /\ UNCHANGED <<row, payment, late, opening, page, answered, given, told, crashes>>

\* Row r is written, having asked the provider to give back what trade number r.trade and
\* the provider number of trade t name: the provider does so once, when the two belong
\* together; otherwise the shop is told to do it by hand.
GiveBack(r, t) ==
    \/ /\ r.trade = t /\ t \notin given
       /\ row' = [r EXCEPT !.deposit = "refunded"]
       /\ given' = given \cup {t}
       /\ UNCHANGED told
    \/ /\ row' = [r EXCEPT !.deposit = "refund_failed"]
       /\ told' = told \cup {t}
       /\ UNCHANGED given

\* The process dies after the provider has paid back and before the transaction commits.
Crash(r, t) ==
    /\ crashes < MaxCrash /\ crashes' = crashes + 1
    /\ r.trade = t /\ given' = given \cup {t}
    /\ UNCHANGED <<row, told>>

\* An expired deposit that is paid nevertheless goes back at once.
PaidLate(t) ==
    /\ row.deposit = "expired"
    /\ LET r == [row EXCEPT !.trade = t] IN
       \/ /\ GiveBack(r, t)
          /\ payment' = t /\ answered' = answered \cup {t}
          /\ UNCHANGED crashes
       \/ Crash(r, t) /\ UNCHANGED <<payment, answered>>

\* The provider's notification, or the customer coming back from its page; it may come
\* again at any time.
MarkPaid(t) ==
    /\ t \in taken
    /\ \/ /\ row.deposit = "pending"
          /\ row' = [row EXCEPT !.deposit = "paid", !.trade = t]
          /\ payment' = t /\ answered' = answered \cup {t}
          /\ UNCHANGED <<given, told, crashes>>
       \/ PaidLate(t)
       \/ /\ row.deposit \notin {"pending", "expired"}
          /\ told' = IF t # row.trade /\ t # payment THEN told \cup {t} ELSE told
          /\ answered' = answered \cup {t}
          /\ UNCHANGED <<row, payment, given, crashes>>
    /\ UNCHANGED <<late, opening, page, taken>>

\* What becomes of the deposit when the reservation's status does; "refund" is given back.
\* The setting deposit_on_seat is read at that moment.
DepositAfter(status, onSeat) ==
    CASE row.deposit = "pending" /\ status \in {"cancelled", "no_show"} -> "expired"
      [] row.deposit = "paid" /\ status = "seated" -> onSeat
      [] row.deposit = "paid" /\ status = "cancelled" -> (IF late THEN "forfeited" ELSE "refund")
      [] row.deposit = "paid" /\ status = "no_show" -> "forfeited"
      [] OTHER -> row.deposit

\* Staff set any status (also back to booked); a customer may cancel a booked reservation.
SetStatus(status) ==
    /\ row.status # status
    /\ ~(row.deposit = "pending" /\ status = "seated")
    /\ \E onSeat \in {"refund", "applied"} :
       LET changed == [row EXCEPT !.status = status]
           after == DepositAfter(status, onSeat)
       IN  \/ after = "refund" /\ GiveBack(changed, payment) /\ UNCHANGED crashes
           \/ after = "refund" /\ Crash(changed, payment)
           \/ /\ after # "refund"
              /\ row' = [changed EXCEPT !.deposit = after]
              /\ UNCHANGED <<given, told, crashes>>
    /\ UNCHANGED <<payment, late, opening, page, taken, answered>>

\* Half an hour without a payment: the deposit expires and the seats are free again.
ExpirePending ==
    /\ row.deposit = "pending"
    /\ row' = [row EXCEPT !.deposit = "expired", !.status = IF @ = "booked" THEN "cancelled" ELSE @]
    /\ UNCHANGED <<payment, late, opening, page, taken, answered, given, told, crashes>>

RefundHoursPass ==
    /\ ~late /\ late' = TRUE
    /\ UNCHANGED <<row, payment, opening, page, taken, answered, given, told, crashes>>

Next ==
    \/ \E w \in Worker : OpenPage(w) \/ NewAttempt(w)
    \/ \E t \in Trade : Pay(t) \/ MarkPaid(t)
    \/ \E status \in Over \cup {"booked"} : SetStatus(status)
    \/ ExpirePending \/ RefundHoursPass

Spec == Init /\ [][Next]_vars

-----------------------------------------------------------------------------

\* A reservation that is over has decided about its deposit: no payment that comes while it
\* is cancelled, seated or marked leaves the deposit paid or waiting
\* (deposit_service.mark_paid, on_status).
OverIsDecided == row.status \in Over => row.deposit \notin {"pending", "paid"}

\* The shop keeps a deposit it may keep, and of every other payment whose notification was
\* answered the customer has the money back or the shop was told
\* (deposit_service.mark_paid: "duplicate").
EveryPaymentSettled ==
    \A t \in answered :
        \/ t \in given \cup told
        \/ t = payment /\ row.deposit \in {"paid", "applied", "forfeited"}

=============================================================================
