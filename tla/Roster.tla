-------------------------------- MODULE Roster --------------------------------
(***************************************************************************)
(* The automatic roster of one week (scheduling_service.generate): shift   *)
(* by shift the person with the fewest hours is taken of those who may     *)
(* work then.  Shifts that are in the roster already count, those of the   *)
(* weeks before and after too.                                             *)
(*                                                                         *)
(* Days are numbered; the week is FirstDay .. LastDay.                     *)
(***************************************************************************)
EXTENDS Integers, FiniteSetsExt

CONSTANTS
    Staff,          \* numbered in the order of their user names
    FirstDay, LastDay,
    MaxRow,         \* max_consecutive_days
    MaxDay,         \* max_hours_day
    MaxWeek,        \* max_hours_week
    MaxLength       \* bound: hours of a shift

Day == (FirstDay - MaxRow)..(LastDay + MaxRow)
Week == FirstDay..LastDay
Slot == Staff \X Day

VARIABLES
    worked,     \* [Slot -> hours in the roster, 0 for a free day]
    given,      \* the shifts that were given out, as slots
    today       \* the day being filled, 0 before the start

vars == <<worked, given, today>>

TypeOK ==
    /\ worked \in [Slot -> 0..MaxLength]
    /\ given \subseteq Slot
    /\ today \in {0} \cup FirstDay..(LastDay + 1)

Init ==
    /\ worked = [slot \in Slot |-> 0]
    /\ given = {}
    /\ today = 0

\* The roster as it is: one hour a shift is enough to tell a day off from a working day.
Begin ==
    /\ today = 0 /\ today' = FirstDay
    /\ \E taken \in SUBSET Slot : worked' = [slot \in Slot |-> IF slot \in taken THEN 1 ELSE 0]
    /\ UNCHANGED given

WeekHours(s) == MapThenSumSet(LAMBDA d : worked[<<s, d>>], Week)
Given(s) == Cardinality({slot \in given : slot[1] = s})

\* Days worked without a day off, up to the day before d and from the day after it.
WorksAll(s, days) == \A d \in days : d \in Day /\ worked[<<s, d>>] > 0
Before(s, d) == Max({n \in 0..(LastDay + MaxRow) : WorksAll(s, (d - n)..(d - 1))})
After(s, d) == Max({n \in 0..(LastDay + MaxRow) : WorksAll(s, (d + 1)..(d + n))})

\* Slip: only the days before count.
RowBefore(s, d) == Before(s, d) + 1

\* The days in a row that a shift on day d makes.
Row(s, d) == Before(s, d) + 1 + After(s, d)

\* Who may work a shift of so many hours; who has time then is taken to be any of them.
Candidates(length) ==
    {s \in Staff :
        /\ worked[<<s, today>>] = 0
        /\ length <= MaxDay /\ WeekHours(s) + length <= MaxWeek
        /\ Row(s, today) <= MaxRow}

\* Fewer hours first, then fewer shifts, then the name.
Sooner(s, t) ==
    \/ WeekHours(s) < WeekHours(t)
    \/ WeekHours(s) = WeekHours(t) /\ Given(s) < Given(t)
    \/ WeekHours(s) = WeekHours(t) /\ Given(s) = Given(t) /\ s <= t

\* A shift of the day is given to the first of those who can; with nobody it stays open.
Assign ==
    /\ today \in Week
    /\ \E length \in 1..MaxLength : \E able \in SUBSET Candidates(length) :
           \E s \in able :
               /\ \A t \in able : Sooner(s, t)
               /\ worked' = [worked EXCEPT ![<<s, today>>] = length]
               /\ given' = given \cup {<<s, today>>}
    /\ UNCHANGED today

\* All shifts of the day are given out or stay open.
NextDay ==
    /\ today \in Week /\ today' = today + 1
    /\ UNCHANGED <<worked, given>>

Next == Begin \/ Assign \/ NextDay

Spec == Init /\ [][Next]_vars

-----------------------------------------------------------------------------

\* Nobody who is given a shift works more days in a row or more hours a week than the
\* settings allow, whatever was in the roster on either side of the week
\* (scheduling_service.generate; its rules are those of the labour law).
RestKept ==
    \A slot \in given :
        /\ WeekHours(slot[1]) <= MaxWeek /\ worked[slot] <= MaxDay
        /\ \A d \in Day : slot[2] \in d..(d + MaxRow) => ~WorksAll(slot[1], d..(d + MaxRow))

=============================================================================
