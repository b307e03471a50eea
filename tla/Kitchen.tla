------------------------------ MODULE Kitchen ------------------------------
(***************************************************************************)
(* An order in a kitchen with several stations: each marks its own items   *)
(* as prepared, and the one that finds nothing left to do completes the    *)
(* order (kitchen_service.complete_station, routes/kitchen.py), while      *)
(* others complete or cancel it (order_lifecycle.py).                      *)
(*                                                                         *)
(* PostgreSQL locks the order's row before anything is looked at; SQLite   *)
(* only from the first write on.  The model lets others commit between the *)
(* first look and the lock, which is both.                                 *)
(***************************************************************************)
EXTENDS Naturals, FiniteSets

CONSTANTS
    Item,           \* the order's items
    Station,        \* the kitchen's stations
    StationOf,      \* the station that resolves for an item, or NoStation
    NoStation,
    Press,          \* requests being served at the same time
    MaxDeath        \* processes that die

VARIABLES
    status,     \* of the order
    prepared,   \* the items that are marked
    press,      \* what each request is at, for which station, and what it first read
    ready,      \* times the customer was told that the order is ready
    deaths      \* processes that died

vars == <<status, prepared, press, ready, deaths>>

Status == {"Pending", "Completed", "Cancelled"}
Idle == [at |-> "idle", station |-> NoStation, seen |-> {}]

TypeOK ==
    /\ status \in Status /\ prepared \subseteq Item
    /\ press \in [Press -> [at : {"idle", "pressed", "marked"},
                            station : Station \cup {NoStation}, seen : SUBSET Item]]
    /\ ready \in Nat /\ deaths \in 0..MaxDeath

Init ==
    /\ status = "Pending" /\ prepared = {}
    /\ press = [p \in Press |-> Idle]
    /\ ready = 0 /\ deaths = 0

ItemsFor(s) == {i \in Item : StationOf[i] = s}

\* Slip: what is left is taken from what the request read before it had the lock.
LeftAsRead(mine, before, now) == {i \in Item \ (before \cup mine) : StationOf[i] # NoStation}

\* Items of no station do not hold an order back.
Left(mine, before, now) == {i \in Item \ (now \cup mine) : StationOf[i] # NoStation}

\* A station presses "done": the order has to be in preparation.
PressDone(p, s) ==
    /\ press[p] = Idle /\ status = "Pending"
    /\ press' = [press EXCEPT ![p] = [at |-> "pressed", station |-> s, seen |-> prepared]]
    /\ UNCHANGED <<status, prepared, ready, deaths>>

\* Under the order's lock the station's items are marked, and the others are read again.
MarkItems(p) ==
    LET mine == ItemsFor(press[p].station) \ prepared IN
    /\ press[p].at = "pressed"
    /\ prepared' = prepared \cup mine
    /\ press' = [press EXCEPT ![p] =
           IF Left(mine, press[p].seen, prepared) = {} THEN [@ EXCEPT !.at = "marked"] ELSE Idle]
    /\ UNCHANGED <<status, ready, deaths>>

\* The status is swapped only where it is what was read; whoever swaps tells the customer.
Complete ==
    /\ status' = IF status = "Pending" THEN "Completed" ELSE status
    /\ ready' = IF status = "Pending" THEN ready + 1 ELSE ready

CompleteOrder(p) ==
    /\ press[p].at = "marked"
    /\ Complete
    /\ press' = [press EXCEPT ![p] = Idle]
    /\ UNCHANGED <<prepared, deaths>>

\* The whole order is completed from another screen, one order or all that are shown.
CompleteAll == Complete /\ UNCHANGED <<prepared, press, deaths>>

Cancel ==
    /\ status \in {"Pending", "Completed"}
    /\ status' = "Cancelled"
    /\ UNCHANGED <<prepared, press, ready, deaths>>

Die(p) ==
    /\ press[p] # Idle /\ deaths < MaxDeath
    /\ press' = [press EXCEPT ![p] = Idle] /\ deaths' = deaths + 1
    /\ UNCHANGED <<status, prepared, ready>>

Next ==
    \/ \E p \in Press :
           (\E s \in Station : PressDone(p, s)) \/ MarkItems(p) \/ CompleteOrder(p) \/ Die(p)
    \/ CompleteAll \/ Cancel

Spec == Init /\ [][Next]_vars

-----------------------------------------------------------------------------

\* When the last station is done the order is completed, or the request that found it so is
\* about to: two stations that press at the same time do not both leave it to the other
\* (kitchen_service.py:56).  A process that dies in between leaves such an order behind.
LastCompletes ==
    status = "Pending" /\ prepared # {} /\ (\A i \in Item : StationOf[i] # NoStation => i \in prepared)
        => deaths > 0 \/ \E p \in Press : press[p].at = "marked"

\* The customer is told once, by the request that completed the order, however many screens
\* press at the same time (order_lifecycle.py:296).
ReadyOnce == ready <= 1 /\ (status = "Completed" => ready = 1)

=============================================================================
