------------------------------- MODULE Webhook -------------------------------
(***************************************************************************)
(* Telling another system about one order: the scan that compares the      *)
(* order with what was seen last time, and the deliveries it queues        *)
(* (webhook_service.py).  How an order comes by its payment status and its *)
(* status is the other modules'; here they take the values those allow, in *)
(* the order those allow, between any two scans.                           *)
(*                                                                         *)
(* One scan at a time: the background jobs run in one process.  While that *)
(* process hands over, two may deliver (Worker).                           *)
(***************************************************************************)
EXTENDS Naturals, Sequences

CONSTANTS
    Worker,         \* processes that deliver
    NoWorker,
    MaxAttempt,     \* attempts before a delivery is given up (MAX_ATTEMPTS)
    MaxCrash        \* interruptions

VARIABLES
    order,      \* the order: its status and payment status
    seen,       \* webhook_order_state: what the last scan saw
    queue,      \* the events queued for delivery, oldest first
    delivery,   \* one of the deliveries, any: its place in the queue, status, attempts
    sender,     \* the process that works on that delivery, or NoWorker
    crashes

vars == <<order, seen, queue, delivery, sender, crashes>>

Hidden == {"pending", "authorizing", "expired"}
Paid == {"", "paid", "settled", "refund_required", "refunded"}
PaymentStatus == Hidden \cup Paid \cup {"unpaid"}
OrderStatus == {"waiting", "ready", "cancelled"}
Event == {"order.created", "order.paid", "order.status_changed", "order.cancelled"}
MaxQueue == 4
NotSeen == [status |-> "none", payment |-> "none"]

TypeOK ==
    /\ order \in [status : OrderStatus, payment : PaymentStatus]
    /\ seen \in [status : OrderStatus, payment : PaymentStatus] \cup {NotSeen}
    /\ queue \in Seq(Event) /\ Len(queue) <= MaxQueue
    /\ delivery \in [place : 1..MaxQueue, status : {"pending", "sending", "sent", "failed"},
                     attempts : 0..MaxAttempt]
    /\ sender \in Worker \cup {NoWorker}
    /\ crashes \in 0..MaxCrash

Init ==
    /\ order \in [status : {"waiting"}, payment : {"", "pending", "authorizing", "unpaid"}]
    /\ seen = NotSeen
    /\ queue = <<>>
    /\ delivery \in [place : 1..MaxQueue, status : {"pending"}, attempts : {0}]
    /\ sender = NoWorker
    /\ crashes = 0

\* The order's payment: an online or LINE Pay order is paid or not, one that has expired may
\* be paid too late, what is paid may be refunded, a table settles.
NextPayment ==
    {<<"pending", "paid">>, <<"pending", "expired">>, <<"expired", "refund_required">>,
     <<"authorizing", "paid">>, <<"authorizing", "expired">>, <<"unpaid", "settled">>,
     <<"paid", "refunded">>, <<"settled", "refunded">>, <<"refund_required", "refunded">>,
     <<"", "refunded">>}

PaymentChanges ==
    /\ \E pay \in PaymentStatus :
           /\ <<order.payment, pay>> \in NextPayment
           /\ order' = [status |-> IF pay = "expired" THEN "cancelled" ELSE order.status, payment |-> pay]
    /\ UNCHANGED <<seen, queue, delivery, sender, crashes>>

StatusChanges ==
    /\ order.payment \notin Hidden /\ order.status # "cancelled"
    /\ \E status \in OrderStatus \ {order.status, "waiting"} : order' = [order EXCEPT !.status = status]
    /\ UNCHANGED <<seen, queue, delivery, sender, crashes>>

StatusEvent == IF order.status = "cancelled" THEN "order.cancelled" ELSE "order.status_changed"

\* The events of a scan that finds the order for the first time.
FirstEvents ==
    IF order.payment \in Hidden THEN <<>>
    ELSE <<"order.created">> \o IF order.status = "cancelled" THEN <<"order.cancelled">> ELSE <<>>

\* The events of a scan that has seen it before.  An order that was hidden until now is
\* told as created; one that is still hidden is not told of at all.
LaterEvents ==
    LET shown == seen.payment \in Hidden /\ order.payment \notin Hidden
        paid == order.payment \in Paid /\ seen.payment \in Hidden \cup {"unpaid"}
    IN  IF order.payment \in Hidden THEN <<>>
        ELSE (IF shown THEN <<"order.created">> ELSE <<>>)
             \o (IF paid THEN <<"order.paid">> ELSE <<>>)
             \o (IF seen.status # order.status THEN <<StatusEvent>> ELSE <<>>)

Events == IF seen = NotSeen THEN FirstEvents ELSE LaterEvents

Scan ==
    /\ seen # order /\ seen' = order
    /\ Len(queue \o Events) <= MaxQueue /\ queue' = queue \o Events
    /\ UNCHANGED <<order, delivery, sender, crashes>>

\* A delivery is claimed by a conditional update before it is sent.
Claim(w) ==
    /\ sender = NoWorker /\ delivery.place \in DOMAIN queue
    /\ delivery.status = "pending"
    /\ delivery' = [delivery EXCEPT !.status = "sending"]
    /\ sender' = w
    /\ UNCHANGED <<order, seen, queue, crashes>>

\* The endpoint answers that it has it; or it does not, and after the last attempt the
\* delivery is given up.
Deliver ==
    /\ sender # NoWorker
    /\ \E answer \in {"sent", IF delivery.attempts + 1 >= MaxAttempt THEN "failed" ELSE "pending"} :
           delivery' = [delivery EXCEPT !.status = answer, !.attempts = @ + 1]
    /\ sender' = NoWorker
    /\ UNCHANGED <<order, seen, queue, crashes>>

\* The process dies; whether the endpoint has the delivery nobody knows.
Crash ==
    /\ sender # NoWorker /\ crashes < MaxCrash
    /\ crashes' = crashes + 1 /\ sender' = NoWorker
    /\ UNCHANGED <<order, seen, queue, delivery>>

\* Ten minutes after it was claimed a delivery is put back; a process that still works on
\* it takes seconds.
PutBack ==
    /\ delivery.status = "sending" /\ sender = NoWorker
    /\ delivery' = [delivery EXCEPT !.status = "pending"]
    /\ UNCHANGED <<order, seen, queue, sender, crashes>>

Next ==
    \/ PaymentChanges \/ StatusChanges \/ Scan
    \/ \E w \in Worker : Claim(w)
    \/ Deliver \/ Crash \/ PutBack

\* The background job runs every fifteen seconds.
Fairness ==
    /\ WF_vars(Deliver) /\ WF_vars(PutBack) /\ WF_vars(\E w \in Worker : Claim(w))

Spec == Init /\ [][Next]_vars

-----------------------------------------------------------------------------

Told(event) == {i \in DOMAIN queue : queue[i] = event}

\* The other system is told of an order before anything else about it, and once; of its
\* payment and its cancellation at most once; and of nothing while the order waits for its
\* first payment (webhook_service.scan).
ToldInOrder ==
    /\ Len(queue) > 0 => Told("order.created") = {1}
    /\ \A event \in {"order.paid", "order.cancelled"} : \A i, j \in Told(event) : i = j

Unfinished == delivery.place \in DOMAIN queue /\ delivery.status \in {"pending", "sending"}

\* Every delivery arrives or is given up after its last attempt (webhook_service.deliver_due).
DeliveryEnds == Unfinished ~> ~Unfinished

=============================================================================
