----------------------------- MODULE Scheduler -----------------------------
(***************************************************************************)
(* The background jobs of several server processes                         *)
(* (maintenance_service.py): a lease in the database elects the process    *)
(* whose turn it is, and a marker per job and day keeps a job from being   *)
(* run again.                                                              *)
(*                                                                         *)
(* One unit of time is what a process sleeps between two turns.  A turn    *)
(* is assumed to take no longer than the lease: nothing in the code ends   *)
(* or extends one that does.  The jobs can also be started by hand         *)
(* (cli.py), without the lease.                                            *)
(***************************************************************************)
EXTENDS Naturals

CONSTANTS
    Process,        \* the server processes
    Shell,          \* who starts the jobs by hand
    NoProcess,
    Jobs,           \* how many daily jobs there are
    DueAt,          \* the time of the day at which they are due
    DayLength,
    Lease,          \* how long a lease is good for
    MaxTime,        \* the time at which the model stops
    MaxDeath        \* processes that die

VARIABLES
    now,        \* the time
    lease,      \* who holds the lease, and since when it does
    turn,       \* what each process is at
    marked,     \* the last day each job was marked for, at first 0
    ran,        \* the times each job was run on each day
    byHand,     \* whether the jobs were ever started by hand
    deaths      \* processes that died

vars == <<now, lease, turn, marked, ran, byHand, deaths>>

Runner == Process \cup {Shell}
DayOf(time) == 1 + time \div DayLength
Days == 1..DayOf(MaxTime)
Asleep == [at |-> "asleep", job |-> 0, begun |-> 0]

TypeOK ==
    /\ now \in 0..MaxTime
    /\ lease \in [holder : Process \cup {NoProcess}, at : 0..MaxTime]
    /\ turn \in [Runner -> [at : {"asleep", "look", "mark", "run"}, job : 0..Jobs + 1, begun : 0..MaxTime]]
    /\ marked \in [1..Jobs -> {0} \cup Days]
    /\ ran \in [Days -> [1..Jobs -> Nat]]
    /\ byHand \in BOOLEAN /\ deaths \in 0..MaxDeath

\* The lease has run out a while ago; the row is made by the first process that needs it.
Init ==
    /\ now = Lease + 1
    /\ lease = [holder |-> NoProcess, at |-> 0]
    /\ turn = [p \in Runner |-> Asleep]
    /\ marked = [j \in 1..Jobs |-> 0]
    /\ ran = [d \in Days |-> [j \in 1..Jobs |-> 0]]
    /\ byHand = FALSE /\ deaths = 0

Working(p) == turn[p].at # "asleep"

-----------------------------------------------------------------------------

\* Time passes, but no turn outlasts the lease it began with.
Tick ==
    /\ now < MaxTime
    /\ \A p \in Process : Working(p) => now < turn[p].begun + Lease
    /\ now' = now + 1
    /\ UNCHANGED <<lease, turn, marked, ran, byHand, deaths>>

\* Slip: the lease is taken over at the moment it ends.
EndedAlready == lease.at + Lease <= now

RunOut == lease.at + Lease < now

\* A process that wakes up renews its own lease, or takes one that has run out.
HoldLeadership(p) ==
    /\ ~Working(p)
    /\ lease.holder = p \/ RunOut
    /\ lease' = [holder |-> p, at |-> now]
    /\ turn' = [turn EXCEPT ![p] = [at |-> "look", job |-> 1, begun |-> now]]
    /\ UNCHANGED <<now, marked, ran, byHand, deaths>>

StartByHand ==
    /\ ~Working(Shell) /\ ~byHand
    /\ byHand' = TRUE
    /\ turn' = [turn EXCEPT ![Shell] = [at |-> "look", job |-> 1, begun |-> now]]
    /\ UNCHANGED <<now, lease, marked, ran, deaths>>

NextJob(p) ==
    turn' = [turn EXCEPT ![p] =
        IF @.job = Jobs THEN Asleep ELSE [at |-> "look", job |-> @.job + 1, begun |-> @.begun]]

\* Due: the time has come and the job is not marked for the day the turn began.
DueToday(p) ==
    LET job == turn[p].job IN
    /\ turn[p].at = "look"
    /\ IF turn[p].begun % DayLength >= DueAt /\ marked[job] # DayOf(turn[p].begun)
       THEN turn' = [turn EXCEPT ![p].at = "mark"]
       ELSE NextJob(p)
    /\ UNCHANGED <<now, lease, marked, ran, byHand, deaths>>

\* The marker is committed before the job is run.
Mark(p) ==
    /\ turn[p].at = "mark"
    /\ marked' = [marked EXCEPT ![turn[p].job] = DayOf(turn[p].begun)]
    /\ turn' = [turn EXCEPT ![p].at = "run"]
    /\ UNCHANGED <<now, lease, ran, byHand, deaths>>

\* A job that raises ends the turn: the later ones come in the next, this one not again.
Run(p) ==
    /\ turn[p].at = "run"
    /\ ran' = [ran EXCEPT ![DayOf(turn[p].begun)][turn[p].job] = @ + 1]
    /\ NextJob(p) \/ turn' = [turn EXCEPT ![p] = Asleep]
    /\ UNCHANGED <<now, lease, marked, byHand, deaths>>

\* A process that is started again has another token.
Die(p) ==
    /\ deaths < MaxDeath
    /\ deaths' = deaths + 1
    /\ turn' = [turn EXCEPT ![p] = Asleep]
    /\ lease' = [lease EXCEPT !.holder = IF @ = p THEN NoProcess ELSE @]
    /\ UNCHANGED <<now, marked, ran, byHand>>

Next ==
    \/ Tick \/ StartByHand
    \/ \E p \in Process : HoldLeadership(p) \/ Die(p)
    \/ \E p \in Runner : DueToday(p) \/ Mark(p) \/ Run(p)

Spec == Init /\ [][Next]_vars

-----------------------------------------------------------------------------

\* "Only one process at a time does the scheduled work" (maintenance_service.py:36), as long as
\* a turn is not longer than the lease: a process that takes over after 30 seconds finds that
\* the one before it has finished or died.
OneAtWork == \A p, q \in Process : Working(p) /\ Working(q) => p = q

\* A job is run at most once on a day, even where a process dies in the middle of it or it
\* raises an error, unless somebody has started the jobs by hand.
DailyOnce == byHand \/ \A d \in Days : \A j \in 1..Jobs : ran[d][j] <= 1

=============================================================================
