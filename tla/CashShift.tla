------------------------------ MODULE CashShift ------------------------------
(***************************************************************************)
(* Opening and closing the drawer's shift while other tills take money     *)
(* (shift_service.py; payment_service.record_payment; the two reads of the *)
(* open shift in order_checkout.py).  A record of money has the shift that *)
(* it belongs to and no amount: what a closed shift says it should hold is *)
(* the set of records its report has summed.                               *)
(*                                                                         *)
(* On PostgreSQL (Locks) the shift of a record is read FOR SHARE and stays *)
(* locked until the record is committed.  On SQLite there is no such lock: *)
(* a transaction has the database to itself from its first write on.  A    *)
(* checkout has written before it reads the shift (the pickup number, the  *)
(* stock), a movement of petty cash has not.                               *)
(***************************************************************************)
EXTENDS Naturals, Sequences

CONSTANTS
    Till,           \* the tills (terminals of the shop)
    MaxShift,       \* shifts that may be opened
    MaxRecord,      \* records of money
    RequireShift,   \* setting pos.require_shift: no sale without an open shift
    Locks           \* PostgreSQL's row locks, rather than SQLite's single writer

VARIABLES
    shift,      \* the shifts so far, oldest first: open or closed, and the records reported
    record,     \* the records so far: their kind, and their shift (0 is none)
    till        \* what each till is in the middle of, and the shift it has read

vars == <<shift, record, till>>

Kind == {"sale", "movement"}
Doing == {"idle", "opening", "selling", "moving", "recording", "closing"}

TypeOK ==
    /\ shift \in Seq([status : {"open", "closed"}, reported : SUBSET (1..MaxRecord)])
    /\ Len(shift) <= MaxShift
    /\ record \in Seq([kind : Kind, at : 0..MaxShift]) /\ Len(record) <= MaxRecord
    /\ till \in [Till -> [doing : Doing, seen : 0..MaxShift]]

Init ==
    /\ shift = <<>> /\ record = <<>>
    /\ till = [t \in Till |-> [doing |-> "idle", seen |-> 0]]

OpenShifts == {i \in DOMAIN shift : shift[i].status = "open"}

\* The open shift of the greatest number, 0 when there is none.
CurrentShift ==
    IF OpenShifts = {} THEN 0 ELSE CHOOSE i \in OpenShifts : \A j \in OpenShifts : i >= j

Begin(t, what) == till' = [till EXCEPT ![t] = [doing |-> what, seen |-> CurrentShift]]
Finish(t) == till' = [till EXCEPT ![t] = [doing |-> "idle", seen |-> 0]]

\* Slip: nobody counts again.
OpenUnchecked == TRUE

\* Whether a shift just added is the only open one: counted again after the tenant is
\* locked (or, on SQLite, with the database to itself).
OnlyOpen == OpenShifts = {}

OpenShift(t) ==
    /\ till[t].doing = "idle" /\ CurrentShift = 0 /\ Len(shift) < MaxShift
    /\ Begin(t, "opening")
    /\ UNCHANGED <<shift, record>>

InsertShift(t) ==
    /\ till[t].doing = "opening"
    /\ Finish(t)
    /\ IF OnlyOpen /\ Len(shift) < MaxShift
       THEN shift' = Append(shift, [status |-> "open", reported |-> {}])
       ELSE UNCHANGED shift
    /\ UNCHANGED record

\* The records that a report of shift i sums.
RecordsOf(i) == {k \in DOMAIN record : record[k].at = i}

CloseShift(t) ==
    /\ till[t].doing = "idle" /\ CurrentShift # 0
    /\ Begin(t, "closing")
    /\ UNCHANGED <<shift, record>>

\* The shift is closed by a conditional update, and what it should hold is summed after
\* it; another till's close comes too late.
ClaimClose(t) ==
    /\ till[t].doing = "closing"
    /\ Finish(t)
    /\ shift' = [shift EXCEPT ![till[t].seen] =
           IF @.status = "open"
           THEN [status |-> "closed", reported |-> RecordsOf(till[t].seen)] ELSE @]
    /\ UNCHANGED record

AddRecord(kind, at) ==
    /\ Len(record) < MaxRecord
    /\ record' = Append(record, [kind |-> kind, at |-> at])

\* The checkout's first look at the open shift, before its transaction has written.
StartSale(t) ==
    /\ till[t].doing = "idle" /\ Len(record) < MaxRecord
    /\ RequireShift => CurrentShift # 0
    /\ Begin(t, "selling")
    /\ UNCHANGED <<shift, record>>

\* Slip: the shift is the one that was open when the sale began.
ShiftSeen(t) == till[t].seen

\* The shift that a sale counts in: read again within the transaction.
ShiftOfSale(t) == CurrentShift

CommitSale(t) ==
    /\ till[t].doing = "selling"
    /\ Finish(t)
    /\ IF RequireShift /\ ShiftOfSale(t) = 0
       THEN UNCHANGED record ELSE AddRecord("sale", ShiftOfSale(t))
    /\ UNCHANGED shift

\* Petty cash put in or taken out: refused unless a shift is open.
StartMovement(t) ==
    /\ till[t].doing = "idle" /\ CurrentShift # 0 /\ Len(record) < MaxRecord
    /\ Begin(t, "moving")
    /\ UNCHANGED <<shift, record>>

\* record_payment: with row locks the shift cannot close before the record is there;
\* without them it can.
ReadShiftOfMovement(t) ==
    /\ till[t].doing = "moving"
    /\ \/ Locks /\ AddRecord("movement", CurrentShift) /\ Finish(t)
       \/ ~Locks /\ Begin(t, "recording") /\ UNCHANGED record
    /\ UNCHANGED shift

InsertMovement(t) ==
    /\ till[t].doing = "recording"
    /\ AddRecord("movement", till[t].seen)
    /\ Finish(t)
    /\ UNCHANGED shift

Next == \E t \in Till :
    \/ OpenShift(t) \/ InsertShift(t)
    \/ CloseShift(t) \/ ClaimClose(t)
    \/ StartSale(t) \/ CommitSale(t)
    \/ StartMovement(t) \/ ReadShiftOfMovement(t) \/ InsertMovement(t)

Spec == Init /\ [][Next]_vars

-----------------------------------------------------------------------------

\* Two tills never have two shifts open (shift_service.open_shift).
OneShiftOpen == \A i, j \in OpenShifts : i = j

ClosedWith(kinds) ==
    \A i \in DOMAIN shift : shift[i].status = "closed" =>
        \A k \in RecordsOf(i) : record[k].kind \in kinds => k \in shift[i].reported

\* The report of a closed shift has every sale that is booked on it: one committed at the
\* moment of closing is either in the report or on no shift (close_shift's comment).
SalesReported == ClosedWith({"sale"})

\* The report of a closed shift has everything that is booked on it, petty cash too.
EverythingReported == ClosedWith(Kind)

=============================================================================
