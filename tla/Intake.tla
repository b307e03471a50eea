------------------------------- MODULE Intake -------------------------------
(***************************************************************************)
(* Pausing and limiting the orders that are taken (intake_service.py).     *)
(* Orders are limited per window of time; those for as soon as possible    *)
(* count where they were placed, those for later where they are picked up. *)
(* The check comes before the checkout's transaction, so that others may   *)
(* be counted or cancelled in between.                                     *)
(*                                                                         *)
(* The counter's orders are neither checked nor counted.  What a kiosk has *)
(* taken while it was offline is counted and not checked.                  *)
(***************************************************************************)
EXTENDS Naturals, FiniteSets

CONSTANTS
    Request,        \* checkouts at the same time
    MaxOrders,      \* the limit of a window
    MaxTime,        \* one unit of time is one window
    MaxOffline      \* orders that were taken offline

VARIABLES
    now,        \* the window the time is in
    pause,      \* whether orders are paused, and until when; 0 is until somebody ends it
    request,    \* what each request has passed the check for
    taken,      \* the orders of each kind and window that were checked
    offline     \* those that were not

vars == <<now, pause, request, taken, offline>>

Kind == {"soon", "later"}
Window == 1..MaxTime
Slot == Kind \X Window
NoSlot == <<>>
NotPaused == [paused |-> FALSE, until |-> 0]

TypeOK ==
    /\ now \in Window
    /\ pause \in [paused : BOOLEAN, until : 0..MaxTime + 1]
    /\ request \in [Request -> Slot \cup {NoSlot}]
    /\ taken \in [Slot -> Nat]
    /\ offline \in [Slot -> 0..MaxOffline]

Init ==
    /\ now = 1 /\ pause = NotPaused
    /\ request = [r \in Request |-> NoSlot]
    /\ taken = [s \in Slot |-> 0]
    /\ offline = [s \in Slot |-> 0]

\* A pause that was to end is over by itself.
IsPaused == pause.paused /\ (pause.until = 0 \/ pause.until > now)

\* Slip: one order more than the limit.
IsFullAfter(slot) == taken[slot] + offline[slot] > MaxOrders

IsFull(slot) == taken[slot] + offline[slot] >= MaxOrders

-----------------------------------------------------------------------------

Tick == now < MaxTime /\ now' = now + 1 /\ UNCHANGED <<pause, request, taken, offline>>

SetPaused(minutes) ==
    /\ now + minutes <= MaxTime + 1
    /\ pause' = [paused |-> TRUE, until |-> IF minutes = 0 THEN 0 ELSE now + minutes]
    /\ UNCHANGED <<now, request, taken, offline>>

Resume == pause' = NotPaused /\ UNCHANGED <<now, request, taken, offline>>

\* An order for now, or for now or later.
Check(r, slot) ==
    /\ request[r] = NoSlot /\ ~IsPaused /\ ~IsFull(slot)
    /\ IF slot[1] = "soon" THEN slot[2] = now ELSE slot[2] >= now
    /\ request' = [request EXCEPT ![r] = slot]
    /\ UNCHANGED <<now, pause, taken, offline>>

\* The checkout commits the order, or fails; it keeps the time it began with.
Commit(r) ==
    /\ request[r] # NoSlot
    /\ taken' = [taken EXCEPT ![request[r]] = @ + 1]
    /\ request' = [request EXCEPT ![r] = NoSlot]
    /\ UNCHANGED <<now, pause, offline>>

Abort(r) ==
    /\ request[r] # NoSlot
    /\ request' = [request EXCEPT ![r] = NoSlot]
    /\ UNCHANGED <<now, pause, taken, offline>>

\* A kiosk sends what it has taken offline; pause and limit are skipped.
SendOffline ==
    /\ offline[<<"soon", now>>] < MaxOffline
    /\ offline' = [offline EXCEPT ![<<"soon", now>>] = @ + 1]
    /\ UNCHANGED <<now, pause, request, taken>>

CancelOrder(slot) ==
    /\ taken[slot] > 0
    /\ taken' = [taken EXCEPT ![slot] = @ - 1]
    /\ UNCHANGED <<now, pause, request, offline>>

Next ==
    \/ Tick \/ Resume \/ SendOffline
    \/ \E minutes \in 0..MaxTime : SetPaused(minutes)
    \/ \E slot \in Slot : CancelOrder(slot) \/ \E r \in Request : Check(r, slot)
    \/ \E r \in Request : Commit(r) \/ Abort(r)

Spec == Init /\ [][Next]_vars

-----------------------------------------------------------------------------

\* "Orders that are sent at the same time may exceed the limit by a little"
\* (intake_service.py:6): by one less than there are requests at the same time, and no more.
LimitNearlyKept == \A slot \in Slot : taken[slot] < MaxOrders + Cardinality(Request)

=============================================================================
