------------------------------ MODULE ShiftPlan ------------------------------
(***************************************************************************)
(* The shifts that a day needs, from how many people are missing at every  *)
(* hour (staffing_service.suggest_shifts): hour by hour a shift is opened  *)
(* until nobody is missing; one that would end after the last hour is      *)
(* moved forward.                                                          *)
(***************************************************************************)
EXTENDS Naturals, Sequences, FiniteSetsExt

CONSTANTS
    Opening, Closing,   \* the first hour of the day, and the hour it ends at
    MaxNeed,            \* bound: people missing at an hour
    MaxHours            \* bound: hours of a shift

Hour == Opening..(Closing - 1)

VARIABLES
    need,       \* [Hour -> how many are missing]
    hours,      \* setting staffing.shift_hours
    hour,       \* the hour that is being looked at
    cover,      \* [Hour -> how many the shifts so far bring]
    shifts      \* the shifts so far: <<start, end>>

vars == <<need, hours, hour, cover, shifts>>

Init ==
    /\ need = [h \in Hour |-> 0] /\ cover = [h \in Hour |-> 0]
    /\ hours = 0 /\ hour = Opening /\ shifts = <<>>

Busy(n) == {h \in Hour : n[h] > 0}

Plan ==
    /\ hours = 0
    /\ need' \in [Hour -> 0..MaxNeed] /\ Busy(need') # {}
    /\ hours' \in 1..MaxHours
    /\ hour' = Min(Busy(need'))
    /\ UNCHANGED <<cover, shifts>>

First == Min(Busy(need))
Last == Max(Busy(need))
Working == hours > 0 /\ hour <= Last

\* Slip: the shift starts at this hour and is cut short.
CutStart == hour

\* Where a shift starts that is opened at this hour.
Start ==
    IF hour + hours <= Last + 1 THEN hour
    ELSE IF Last + 1 >= First + hours THEN Last + 1 - hours ELSE First

End == IF hour + hours <= Last + 1 THEN hour + hours ELSE Last + 1

OpenShift ==
    /\ Working /\ cover[hour] < need[hour]
    /\ shifts' = Append(shifts, <<Start, End>>)
    /\ cover' = [h \in Hour |-> IF h \in Start..(End - 1) THEN cover[h] + 1 ELSE cover[h]]
    /\ UNCHANGED <<need, hours, hour>>

NextHour ==
    /\ Working /\ cover[hour] >= need[hour]
    /\ hour' = hour + 1
    /\ UNCHANGED <<need, hours, cover, shifts>>

Next == Plan \/ OpenShift \/ NextHour

Spec == Init /\ [][Next]_vars

-----------------------------------------------------------------------------

\* When the plan is made nobody is missing at any hour; every shift is as long as the
\* settings say unless the day is shorter, and none is longer than the day
\* (staffing_service.suggest_shifts).
ShiftsFit ==
    hours > 0 =>
        /\ hour > Last => \A h \in Hour : cover[h] >= need[h]
        /\ \A k \in DOMAIN shifts :
               LET length == shifts[k][2] - shifts[k][1] IN
               /\ shifts[k][1] >= First /\ shifts[k][2] <= Last + 1
               /\ length = hours \/ (length < hours /\ length = Last + 1 - First)

=============================================================================
