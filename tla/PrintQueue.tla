----------------------------- MODULE PrintQueue -----------------------------
(***************************************************************************)
(* Kitchen tickets and receipts on their way to one printer                *)
(* (print_service.py; "reprint" of routes/printing.py).  A checkout and    *)
(* the background job of every process work on the queue at the same time. *)
(*                                                                         *)
(* A job that is being sent for two minutes is taken to be interrupted;    *)
(* that a process which is alive takes less is assumed (RecoverStuck).     *)
(***************************************************************************)
EXTENDS Naturals, FiniteSetsExt

CONSTANTS
    Printing,       \* the processes that work on the queue
    Tickets,        \* bound: tickets, numbered in the order they were made
    MaxSend,        \* attempts before a ticket is given up (MAX_ATTEMPTS)
    MaxReprint,     \* bound: reprints asked for
    MaxDeath        \* bound: processes that die

Job == 1..Tickets

VARIABLES
    job,        \* [Job -> its status and attempts]
    pass,       \* [Printing -> the jobs that its pass still has before it, the oldest in hand,
                \*              and that job's attempts as they were read at the claim]
    asked,      \* [Job -> how often its print was asked for]
    printed,    \* [Job -> how often it came out of the printer]
    deaths

vars == <<job, pass, asked, printed, deaths>>

Nothing == [todo |-> {}, sending |-> FALSE, attempts |-> 0]

TypeOK ==
    /\ job \in [Job -> [status : {"none", "queued", "sending", "done", "failed"}, attempts : Nat]]
    /\ pass \in [Printing -> [todo : SUBSET Job, sending : BOOLEAN, attempts : Nat]]
    /\ \A p \in Printing : pass[p].sending => pass[p].todo # {}
    /\ asked \in [Job -> Nat] /\ printed \in [Job -> Nat]
    /\ deaths \in 0..MaxDeath

Init ==
    /\ job = [j \in Job |-> [status |-> "none", attempts |-> 0]]
    /\ pass = [p \in Printing |-> Nothing]
    /\ asked = [j \in Job |-> 0] /\ printed = [j \in Job |-> 0]
    /\ deaths = 0

Queued == {j \in Job : job[j].status = "queued"}

\* A checkout commits its order's ticket.
Enqueue(j) ==
    /\ job[j].status = "none" /\ \A k \in 1..(j - 1) : job[k].status # "none"
    /\ job' = [job EXCEPT ![j].status = "queued"]
    /\ asked' = [asked EXCEPT ![j] = 1]
    /\ UNCHANGED <<pass, printed, deaths>>

\* Staff ask for a ticket again, whatever has become of it.
Retry(j) ==
    /\ job[j].status # "none" /\ asked[j] <= MaxReprint
    /\ job' = [job EXCEPT ![j] = [status |-> "queued", attempts |-> 0]]
    /\ asked' = [asked EXCEPT ![j] = @ + 1]
    /\ UNCHANGED <<pass, printed, deaths>>

\* A pass over the queue starts with a look at the jobs that wait.
StartPass(p) ==
    /\ pass[p] = Nothing /\ Queued # {}
    /\ pass' = [pass EXCEPT ![p].todo = Queued]
    /\ UNCHANGED <<job, asked, printed, deaths>>

InHand(p) == Min(pass[p].todo)
GoOn(p) == pass' = [pass EXCEPT ![p] = [Nothing EXCEPT !.todo = pass[p].todo \ {InHand(p)}]]

\* Slip: the job is taken as it was read.
AsRead(j) == TRUE

\* The job is taken only if it still waits.
StillQueued(j) == job[j].status = "queued"

\* The claim is committed and the job read again: one step here, nothing is done in between.
Claim(p) ==
    /\ pass[p].todo # {} /\ ~pass[p].sending
    /\ IF StillQueued(InHand(p))
       THEN LET attempts == job[InHand(p)].attempts + 1
            IN  /\ job' = [job EXCEPT ![InHand(p)] = [status |-> "sending", attempts |-> attempts]]
                /\ pass' = [pass EXCEPT ![p] = [todo |-> @.todo, sending |-> TRUE, attempts |-> attempts]]
       ELSE GoOn(p) /\ UNCHANGED job
    /\ UNCHANGED <<asked, printed, deaths>>

\* The ticket is printed and the job done, over whatever was made of it meanwhile.
PrintTicket(p) ==
    /\ pass[p].sending
    /\ printed' = [printed EXCEPT ![InHand(p)] = @ + 1]
    /\ job' = [job EXCEPT ![InHand(p)].status = "done"]
    /\ GoOn(p)
    /\ UNCHANGED <<asked, deaths>>

\* The printer does not answer: the job is tried again by a later pass or is given up, as its
\* attempts were at the claim, even if it was asked for again meanwhile.  This pass leaves the
\* printer's other jobs alone.
Fail(p) ==
    /\ pass[p].sending
    /\ job' = [job EXCEPT ![InHand(p)].status = IF pass[p].attempts >= MaxSend THEN "failed" ELSE "queued"]
    /\ pass' = [pass EXCEPT ![p] = Nothing]
    /\ UNCHANGED <<asked, printed, deaths>>

\* A process dies; the ticket it was sending may have been printed.
Die(p) ==
    /\ pass[p] # Nothing /\ deaths < MaxDeath
    /\ deaths' = deaths + 1
    /\ pass' = [pass EXCEPT ![p] = Nothing]
    /\ \/ UNCHANGED printed
       \/ pass[p].sending /\ printed' = [printed EXCEPT ![InHand(p)] = @ + 1]
    /\ UNCHANGED <<job, asked>>

\* Slip: nobody looks for interrupted jobs.
NeverCutOff(j) == TRUE

InSending(j) == \E p \in Printing : pass[p].sending /\ InHand(p) = j

\* An interrupted job fails rather than being printed a second time unasked.
RecoverStuck(j) ==
    /\ job[j].status = "sending" /\ ~InSending(j)
    /\ job' = [job EXCEPT ![j].status = "failed"]
    /\ UNCHANGED <<pass, asked, printed, deaths>>

Work(p) == Claim(p) \/ PrintTicket(p) \/ Fail(p)

Next ==
    \/ \E j \in Job : Enqueue(j) \/ Retry(j) \/ RecoverStuck(j)
    \/ \E p \in Printing : StartPass(p) \/ Work(p) \/ Die(p)

\* Every process goes over the queue every five seconds.
Fairness ==
    /\ \A p \in Printing : WF_vars(StartPass(p)) /\ WF_vars(Work(p))
    /\ \A j \in Job : WF_vars(RecoverStuck(j))

Spec == Init /\ [][Next]_vars /\ Fairness

-----------------------------------------------------------------------------

\* A ticket comes out of the printer at most as often as it was asked for, however many
\* processes work on the queue, and after an interruption too (print_service.process_queue,
\* recover_stuck_jobs).
PrintedAsAsked == \A j \in Job : printed[j] <= asked[j]

Unfinished == \E j \in Job : job[j].status \in {"queued", "sending"}

\* No ticket is lost: in the end each is printed or shown as failed
\* (print_service.recover_stuck_jobs finds what was cut off).
TicketsEnd == Unfinished ~> ~Unfinished

=============================================================================
