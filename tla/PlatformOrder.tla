--------------------------- MODULE PlatformOrder ---------------------------
(***************************************************************************)
(* Orders that come from a delivery platform (delivery_service.py,         *)
(* routes/delivery.py) or that the staff types in from the platform's      *)
(* tablet (routes/pos.py).  Uber announces an order and is told whether it *)
(* is accepted; foodpanda gets the answer to its call.  An announcement is *)
(* delivered any number of times, also twice at the same time.             *)
(*                                                                         *)
(* A reference is a ticket and how its letters are written; the platform   *)
(* writes "plain", the staff may type "other".                             *)
(***************************************************************************)
EXTENDS Naturals, Sequences

CONSTANTS
    Request,        \* requests being served at the same time
    Ticket,         \* the platform's orders
    NoTicket,
    MaxCall         \* calls that are ever made

VARIABLES
    orders,     \* the orders, as their reference and their key (client_order_id)
    open,       \* whether a checkout would go through (stock, opening hours)
    request,    \* what each request is at, and for which reference
    told,       \* what Uber was told about each ticket
    calls       \* calls that were made

vars == <<orders, open, request, told, calls>>

Writing == {"plain", "other"}
Reference == [ticket : Ticket, written : Writing]
NoReference == [ticket |-> NoTicket, written |-> "plain"]
Idle == [at |-> "idle", by |-> "uber", ref |-> NoReference]

\* Slip: the key is made of the reference as it was typed.
KeyAsTyped(ref) == <<ref.ticket, ref.written>>

\* The key does not depend on how the letters are written.
Key(ref) == <<ref.ticket, "plain">>

TypeOK ==
    /\ \A i \in DOMAIN orders : orders[i].ref \in Reference
    /\ open \in BOOLEAN
    /\ request \in [Request -> [at : {"idle", "look", "checkout", "failed", "accept", "deny"},
                                by : {"uber", "panda", "staff"}, ref : Reference \cup {NoReference}]]
    /\ told \in [Ticket -> SUBSET {"accepted", "denied"}]
    /\ calls \in 0..MaxCall

Init ==
    /\ orders = <<>> /\ open \in BOOLEAN
    /\ request = [r \in Request |-> Idle]
    /\ told = [t \in Ticket |-> {}]
    /\ calls = 0

\* Whether the order is found by its key, or by the reference as it is written.
FindPlatformOrder(ref) == \E i \in DOMAIN orders : orders[i].key = Key(ref) \/ orders[i].ref = ref

Becomes(r, at) == request' = [request EXCEPT ![r].at = at]
Ends(r) == request' = [request EXCEPT ![r] = Idle]

-----------------------------------------------------------------------------

\* A call: the platforms write the reference in one way, the staff in any.
Call(r, by, ref) ==
    /\ request[r] = Idle /\ calls < MaxCall
    /\ by # "staff" => ref.written = "plain"
    /\ request' = [request EXCEPT ![r] = [at |-> "look", by |-> by, ref |-> ref]]
    /\ calls' = calls + 1
    /\ UNCHANGED <<orders, open, told>>

\* Uber's order cannot be fetched, or has a dish nobody knows, which is denied.
CannotMap(r) ==
    /\ request[r].at = "look" /\ request[r].by # "staff"
    /\ Ends(r) \/ (request[r].by = "uber" /\ Becomes(r, "deny"))
    /\ UNCHANGED <<orders, open, told, calls>>

\* Only Uber is told afterwards.
Made(r) == IF request[r].by = "uber" THEN Becomes(r, "accept") ELSE Ends(r)

Look(r) ==
    /\ request[r].at = "look"
    /\ IF FindPlatformOrder(request[r].ref) THEN Made(r) ELSE Becomes(r, "checkout")
    /\ UNCHANGED <<orders, open, told, calls>>

\* The checkout finds an order with the same key, at first or by the unique index; it answers
\* with that order or, where somebody else has placed it, with an error.
SameKey(ref) == \E i \in DOMAIN orders : orders[i].key = Key(ref)

ProcessCheckout(r) ==
    LET ref == request[r].ref IN
    /\ request[r].at = "checkout"
    /\ \/ SameKey(ref) /\ (Made(r) \/ Becomes(r, "failed")) /\ UNCHANGED orders
       \/ ~SameKey(ref) /\ open /\ Made(r) /\ orders' = Append(orders, [ref |-> ref, key |-> Key(ref)])
       \/ ~SameKey(ref) /\ ~open /\ Becomes(r, "failed") /\ UNCHANGED orders
    /\ UNCHANGED <<open, told, calls>>

\* After an error the order is looked for once more: another request may have made it.
LookAgain(r) ==
    /\ request[r].at = "failed"
    /\ CASE FindPlatformOrder(request[r].ref) -> Made(r)
         [] request[r].by = "uber" /\ ~FindPlatformOrder(request[r].ref) -> Becomes(r, "deny")
         [] OTHER -> Ends(r)
    /\ UNCHANGED <<orders, open, told, calls>>

\* Uber is told, where orders are accepted automatically; the answer is not looked at.
Tell(r) ==
    /\ request[r].at \in {"accept", "deny"}
    /\ told' = [told EXCEPT ![request[r].ref.ticket] =
           @ \cup {IF request[r].at = "accept" THEN "accepted" ELSE "denied"}]
    /\ Ends(r)
    /\ UNCHANGED <<orders, open, calls>>

\* A process dies at any time; the platform will call again.
Die(r) == request[r] # Idle /\ Ends(r) /\ UNCHANGED <<orders, open, told, calls>>

\* Something is sold out, or there is more of it; the shop opens or closes.
Change == open' = ~open /\ UNCHANGED <<orders, request, told, calls>>

Next ==
    \/ Change
    \/ \E r \in Request :
           \/ \E by \in {"uber", "panda", "staff"}, ref \in Reference : Call(r, by, ref)
           \/ CannotMap(r) \/ Look(r) \/ ProcessCheckout(r) \/ LookAgain(r) \/ Tell(r) \/ Die(r)

Spec == Init /\ [][Next]_vars

-----------------------------------------------------------------------------

\* A ticket has one order, however often it was announced and whoever typed it in
\* (delivery_service.py:72).
OneOrder ==
    \A i, j \in DOMAIN orders : orders[i].ref.ticket = orders[j].ref.ticket => i = j

\* What Uber was told is accepted has an order.
AcceptedIsMade ==
    \A t \in Ticket : "accepted" \in told[t] => \E i \in DOMAIN orders : orders[i].ref.ticket = t

\* Does not hold: an order that was denied while something was sold out is made when it is
\* announced again, and Uber is told both.
ToldOnce == \A t \in Ticket : told[t] # {"accepted", "denied"}

=============================================================================
