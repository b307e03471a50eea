------------------------------- MODULE Booking -------------------------------
(***************************************************************************)
(* The seats of one time slot and the numbers of one day's waiting list    *)
(* (reservation_service.py).  A customer who books online sees the seats   *)
(* that are free, and they are counted again when the tenant is locked and *)
(* the reservation is added; staff book what they like.  Two who join the  *)
(* waiting list at once may take the same number: a unique index refuses   *)
(* the second, who tries again.                                            *)
(***************************************************************************)
EXTENDS Naturals, FiniteSetsExt

CONSTANTS
    Guest,      \* who books or waits
    Seats,      \* capacity_per_slot
    MaxParty,   \* max_party_size
    MaxTries    \* attempts to take a number

VARIABLES
    booking,    \* [Guest -> the reservation: its party, status and who made it]
    asking,     \* [Guest -> the party of the booking that the guest is about to make]
    number,     \* [Guest -> the number on the waiting list, or 0]
    drawing     \* [Guest -> the number about to be taken, and the attempt]

vars == <<booking, asking, number, drawing>>

NoBooking == [party |-> 0, status |-> "none", source |-> "none"]
NoNumber == [number |-> 0, attempt |-> 0]
Takes == {"booked", "seated"}

TypeOK ==
    /\ booking \in [Guest -> [party : 0..MaxParty, status : Takes \cup {"none", "cancelled", "no_show"},
                              source : {"none", "online", "staff"}]]
    /\ asking \in [Guest -> 0..MaxParty]
    /\ number \in [Guest -> 0..Cardinality(Guest)]
    /\ drawing \in [Guest -> [number : 0..(Cardinality(Guest) + 1), attempt : 0..MaxTries]]

Init ==
    /\ booking = [g \in Guest |-> NoBooking]
    /\ asking = [g \in Guest |-> 0]
    /\ number = [g \in Guest |-> 0]
    /\ drawing = [g \in Guest |-> NoNumber]

Taken == MapThenSumSet(LAMBDA g : booking[g].party, {g \in Guest : booking[g].status \in Takes})

\* The slot has room for the party when the customer looks.
StartBooking(g, party) ==
    /\ booking[g] = NoBooking /\ asking[g] = 0
    /\ Taken + party <= Seats
    /\ asking' = [asking EXCEPT ![g] = party]
    /\ UNCHANGED <<booking, number, drawing>>

\* Slip: the customer has looked, which is enough.
RoomBefore(party) == TRUE

\* The slot still has room when the reservation is added.
Room(party) == Taken + party <= Seats

\* The reservation is added and counted, or taken back.
Book(g) ==
    /\ asking[g] > 0
    /\ booking' = IF Room(asking[g])
                  THEN [booking EXCEPT ![g] = [party |-> asking[g], status |-> "booked", source |-> "online"]]
                  ELSE booking
    /\ asking' = [asking EXCEPT ![g] = 0]
    /\ UNCHANGED <<number, drawing>>

StaffBook(g, party) ==
    /\ booking[g] = NoBooking /\ asking[g] = 0
    /\ booking' = [booking EXCEPT ![g] = [party |-> party, status |-> "booked", source |-> "staff"]]
    /\ UNCHANGED <<asking, number, drawing>>

\* Any status may be set, also back to booked.
SetStatus(g, status) ==
    /\ booking[g] # NoBooking /\ booking[g].status # status
    /\ booking' = [booking EXCEPT ![g].status = status]
    /\ UNCHANGED <<asking, number, drawing>>

Last == Max({number[g] : g \in Guest})

Look(g, attempt) == drawing' = [drawing EXCEPT ![g] = [number |-> Last + 1, attempt |-> attempt]]

JoinWaitlist(g) ==
    /\ number[g] = 0 /\ drawing[g] = NoNumber
    /\ Look(g, 1)
    /\ UNCHANGED <<booking, asking, number>>

\* Slip: no index keeps the numbers apart.
FreeAnyway(n) == TRUE

\* The unique index takes a number once.
FreeNumber(n) == \A g \in Guest : number[g] # n

TakeNumber(g) ==
    /\ drawing[g] # NoNumber
    /\ IF FreeNumber(drawing[g].number)
       THEN /\ number' = [number EXCEPT ![g] = drawing[g].number]
            /\ drawing' = [drawing EXCEPT ![g] = NoNumber]
       ELSE /\ IF drawing[g].attempt < MaxTries THEN Look(g, drawing[g].attempt + 1)
               ELSE drawing' = [drawing EXCEPT ![g] = NoNumber]
            /\ UNCHANGED number
    /\ UNCHANGED <<booking, asking>>

Next == \E g \in Guest :
    \/ \E party \in 1..MaxParty : StartBooking(g, party) \/ StaffBook(g, party)
    \/ Book(g)
    \/ \E status \in Takes \cup {"cancelled", "no_show"} : SetStatus(g, status)
    \/ JoinWaitlist(g) \/ TakeNumber(g)

Spec == Init /\ [][Next]_vars

-----------------------------------------------------------------------------

\* A slot that has more guests than seats got there by staff: by a booking of theirs, or by
\* setting a cancelled one back.  Customers booking at the same time do not overfill it
\* (reservation_service.create_reservation).
OnlineBookingFits ==
    \A g \in Guest : booking[g] = NoBooking /\ booking'[g].source = "online" => Taken' <= Seats

OnlineFits == [][OnlineBookingFits]_vars

\* No two parties wait with the same number, and the numbers have no gap
\* (reservation_service.join_waitlist).
NumbersApart ==
    /\ \A g, h \in Guest : number[g] = number[h] /\ number[g] # 0 => g = h
    /\ \A n \in 1..Last : \E g \in Guest : number[g] = n

=============================================================================
