---------------------------- MODULE MCEventually ----------------------------
(***************************************************************************)
(* What the background jobs must bring about in the end.  The five models  *)
(* share no state: which of them runs is chosen at first (part), and in    *)
(* the others nothing is ever to be done.  The variables of OnlineStock    *)
(* are those this module extends.                                          *)
(***************************************************************************)
EXTENDS OnlineStock

CONSTANTS PaidOrder, Trade, Worker, Total, MaxFault, NoTrade, NoWorker, Scheduler

VARIABLES
    part,
    ord, trade, bill, refund, job, faults,
    group, entry, ordered, time, auto, worker, interrupted,
    order, seen, queue, delivery, sender, crashes,
    ticket, pass, asked, printed, deaths

payVars == <<ord, trade, bill, refund, job, faults>>
groupVars == <<group, entry, ordered, time, auto, worker, interrupted>>
webhookVars == <<order, seen, queue, delivery, sender, crashes>>
printVars == <<ticket, pass, asked, printed, deaths>>
all == <<part, vars, payVars, groupVars, webhookVars, printVars>>

MCQty == [o \in Order |-> 1]
MCChannels == [o \in PaidOrder |-> {"ecpay", "linepay", "table"}]

Paying ==
    INSTANCE OnlinePayment WITH Order <- PaidOrder, Channels <- MCChannels, AutoRefund <- TRUE

Together ==
    INSTANCE GroupOrder WITH
        Person <- {1}, Worker <- Worker \cup {Scheduler}, MaxCrash <- 1, crashes <- interrupted

Telling == INSTANCE Webhook WITH Worker <- {1}, MaxAttempt <- 2, MaxCrash <- 1

Printer ==
    INSTANCE PrintQueue WITH
        Printing <- Worker, Tickets <- 1, MaxSend <- 2, MaxReprint <- 1, MaxDeath <- 1, job <- ticket

AllInit ==
    /\ part \in {"stock", "payment", "group", "webhook", "print"}
    /\ Init /\ Paying!Init /\ Together!Init /\ Telling!Init /\ Printer!Init
    /\ part # "group" => ~auto
    /\ part # "webhook" => order.payment = "" /\ delivery.place = 1

AllNext ==
    \/ /\ part = "stock" /\ Next
       /\ UNCHANGED <<part, payVars, groupVars, webhookVars, printVars>>
    \/ /\ part = "payment" /\ Paying!Next
       /\ UNCHANGED <<part, vars, groupVars, webhookVars, printVars>>
    \/ /\ part = "group" /\ Together!Next
       /\ UNCHANGED <<part, vars, payVars, webhookVars, printVars>>
    \/ /\ part = "webhook" /\ Telling!Next
       /\ UNCHANGED <<part, vars, payVars, groupVars, printVars>>
    \/ /\ part = "print" /\ Printer!Next
       /\ UNCHANGED <<part, vars, payVars, groupVars, webhookVars>>

\* In a part that was not chosen no job has anything to do.
AllSpec ==
    /\ AllInit /\ [][AllNext]_all
    /\ Fairness /\ Paying!Fairness /\ Together!Fairness /\ Telling!Fairness /\ Printer!Fairness

-----------------------------------------------------------------------------

\* An overdue online order does not stay pending, and a pending refund is made or fails
\* (OnlinePayment: payment_ecpay.expire_unpaid_orders, payment_service.process_refund).
PaymentsEnd == Paying!PendingEnds /\ Paying!RefundEnds

\* What happened to an order at one end reaches the other: its payment the branch, its
\* cancellation the hub (OnlineStock: node.pull_once, node.push_once).
NewsArrives == PaidArrives /\ CancelReachesHub

JobWaits == Together!Unfinished \/ Telling!Unfinished \/ Printer!Unfinished

\* No job stays half done: GroupEnds, DeliveryEnds and TicketsEnd of the part that runs.
JobsEnd == JobWaits ~> ~JobWaits

=============================================================================
