---------------------------- MODULE HomeDelivery ----------------------------
(***************************************************************************)
(* One order that is delivered by the shop's own drivers                   *)
(* (own_delivery_service.py, delivery_tracking_service.py,                 *)
(* routes/dispatch.py).  Whoever dispatches reads the order and writes     *)
(* later what is different from what was read; nothing is locked, except   *)
(* that the order's status is swapped only where it is what was read.      *)
(***************************************************************************)
EXTENDS Naturals

CONSTANTS
    Dispatcher,     \* requests being served at the same time
    Driver,
    Nobody,
    MaxToken        \* links that are ever made

VARIABLES
    order,      \* its status, its delivery's, the driver and the driver's link
    desk,       \* what each dispatcher is doing with the order as it was read
    holder,     \* the driver each link was made for
    position    \* the drivers whose positions the customer's page may show

vars == <<order, desk, holder, position>>

NoToken == 0
OrderRow ==
    [status : {"Pending", "Completed", "PickedUp", "Cancelled"},
     delivery : {"pending", "assigned", "out", "delivered", "failed"},
     driver : Driver \cup {Nobody}, token : 0..MaxToken]
New == [status |-> "Pending", delivery |-> "pending", driver |-> Nobody, token |-> NoToken]
Idle == [doing |-> "idle", read |-> New, driver |-> Nobody]

TypeOK ==
    /\ order \in OrderRow
    /\ desk \in [Dispatcher ->
           [doing : {"idle", "assign", "depart", "fail", "complete", "handOver", "deliver"},
            read : OrderRow, driver : Driver \cup {Nobody}]]
    /\ holder \in [1..MaxToken -> Driver \cup {Nobody}]
    /\ position \subseteq Driver

Init ==
    /\ order = New
    /\ desk = [w \in Dispatcher |-> Idle]
    /\ holder = [t \in 1..MaxToken |-> Nobody]
    /\ position = {}

RequireOpen(o) == o.status # "Cancelled" /\ o.delivery \notin {"delivered", "failed"}
IsActive(o) == o.delivery \in {"assigned", "out"} /\ o.status # "Cancelled"

Done(w) == desk' = [desk EXCEPT ![w] = Idle]
Goes(w, to) == desk' = [desk EXCEPT ![w].doing = to]

-----------------------------------------------------------------------------

\* The order is read, and looked at whether the step is allowed.
Choose(w, what, driver) ==
    /\ desk[w] = Idle /\ RequireOpen(order)
    /\ what = "assign" <=> driver # Nobody
    /\ what = "assign" => order.delivery # "out"
    /\ what = "depart" => order.driver # Nobody
    /\ desk' = [desk EXCEPT ![w] = [doing |-> what, read |-> order, driver |-> driver]]
    /\ UNCHANGED <<order, holder, position>>

\* Slip: the link of the driver before stays the order's.
NeedsTokenAtFirst(read, driver) == read.token = NoToken

\* Another driver gets another link.
NeedsToken(read, driver) == read.token = NoToken \/ (read.driver # Nobody /\ read.driver # driver)

FreshToken == CHOOSE t \in 1..MaxToken : holder[t] = Nobody

\* Only what is different from what was read is written.
Assign(w) ==
    LET read == desk[w].read
        driver == desk[w].driver
        renew == NeedsToken(read, driver)
    IN  /\ desk[w].doing = "assign"
        /\ renew => \E t \in 1..MaxToken : holder[t] = Nobody
        /\ order' = [order EXCEPT
               !.driver = IF read.driver = driver THEN @ ELSE driver,
               !.delivery = IF read.delivery = "assigned" THEN @ ELSE "assigned",
               !.token = IF renew THEN FreshToken ELSE @]
        /\ holder' = IF renew THEN [holder EXCEPT ![FreshToken] = driver] ELSE holder
        /\ position' = IF renew /\ read.token # NoToken THEN {} ELSE position
        /\ Done(w)

Depart(w) ==
    /\ desk[w].doing = "depart"
    /\ order' = [order EXCEPT !.delivery = IF desk[w].read.delivery = "out" THEN @ ELSE "out"]
    /\ Done(w) /\ UNCHANGED <<holder, position>>

Fail(w) ==
    /\ desk[w].doing = "fail"
    /\ order' = [order EXCEPT !.delivery = "failed"]
    /\ Done(w) /\ UNCHANGED <<holder, position>>

\* An order that is still in preparation is completed at first; if its status has changed since
\* it was read, nothing more happens.
Complete(w) ==
    /\ desk[w].doing = "complete"
    /\ IF desk[w].read.status = "Pending"
       THEN IF order.status = "Pending"
            THEN Goes(w, "handOver") /\ order' = [order EXCEPT !.status = "Completed"]
            ELSE Done(w) /\ UNCHANGED order
       ELSE Goes(w, "handOver") /\ UNCHANGED order
    /\ UNCHANGED <<holder, position>>

\* Then it is read again, and a completed one is picked up.
HandOver(w) ==
    /\ desk[w].doing = "handOver"
    /\ order' = [order EXCEPT !.status = IF @ = "Completed" THEN "PickedUp" ELSE @]
    /\ Goes(w, "deliver") /\ UNCHANGED <<holder, position>>

\* The delivery is marked whatever the order has become in the meantime.
Deliver(w) ==
    /\ desk[w].doing = "deliver"
    /\ order' = [order EXCEPT !.delivery = "delivered"]
    /\ Done(w) /\ UNCHANGED <<holder, position>>

-----------------------------------------------------------------------------

\* A driver's telephone reports where it is, while the link is the order's.
RecordPosition(d) ==
    /\ order.token # NoToken /\ holder[order.token] = d /\ IsActive(order)
    /\ position' = position \cup {d}
    /\ UNCHANGED <<order, desk, holder>>

\* The kitchen completes the order, or somebody cancels it.
ChangeStatus ==
    /\ \/ order.status = "Pending" /\ order' = [order EXCEPT !.status = "Completed"]
       \/ order.status \in {"Pending", "Completed"} /\ order' = [order EXCEPT !.status = "Cancelled"]
    /\ UNCHANGED <<desk, holder, position>>

Next ==
    \/ ChangeStatus
    \/ \E d \in Driver : RecordPosition(d)
    \/ \E w \in Dispatcher :
           \/ \E what \in {"assign", "depart", "fail", "complete"}, d \in Driver \cup {Nobody} :
                  Choose(w, what, d)
           \/ Assign(w) \/ Depart(w) \/ Fail(w) \/ Complete(w) \/ HandOver(w) \/ Deliver(w)

Spec == Init /\ [][Next]_vars

-----------------------------------------------------------------------------

\* The link that works is the driver's to whom the order is given, however many dispatchers give
\* it away at the same time: "the old link is of no use any more"
\* (delivery_tracking_service.py:39).
LinkIsDrivers == order.token # NoToken => holder[order.token] = order.driver

\* What is marked as delivered was handed over, or cancelled behind the dispatcher's back.
DeliveredIsOver == order.delivery = "delivered" => order.status \in {"PickedUp", "Cancelled"}

\* Does not hold: an order that is cancelled while it is being handed over is delivered too.
CancelledNotDelivered == ~(order.status = "Cancelled" /\ order.delivery = "delivered")

\* Does not hold: where two dispatchers give the order to its first driver at the same time,
\* what the one reported stays when the other's link replaces his.
ShownIsDriver == position \subseteq {order.driver}

=============================================================================
