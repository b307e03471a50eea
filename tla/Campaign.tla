------------------------------ MODULE Campaign ------------------------------
(***************************************************************************)
(* One campaign, which gives members a coupon, a message or both           *)
(* (marketing_service.py, routes/marketing.py): a broadcast once, a        *)
(* winback at most once in a member's cooldown.  Staff run, pause and      *)
(* delete it while the scheduler runs it; a run claims the row first, and  *)
(* what it writes is visible when it commits.                              *)
(*                                                                         *)
(* A run takes less than the half hour after which run_due takes it for    *)
(* interrupted.                                                            *)
(***************************************************************************)
EXTENDS Naturals, FiniteSets

CONSTANTS
    Member,         \* who can be reached and has not refused advertising
    Worker,         \* requests being served at the same time, and the scheduler
    Scheduler,
    MaxBroken,      \* runs that end with an error or with their process
    Many            \* where counting stops

VARIABLES
    campaign,   \* its kind and whether there is a coupon
    status,     \* of its row
    ended,      \* the coupon's period is over
    run,        \* what each worker is at and has read
    sends,      \* records of having sent, by member, within the cooldown
    told,       \* messages each member got, within the cooldown
    broken,     \* runs that did not end well
    overtaken   \* a status was written that was decided on before a run claimed the row

vars == <<campaign, status, ended, run, sends, told, broken, overtaken>>

Status == {"active", "paused", "running", "done", "deleted"}
Idle == [at |-> "idle", previous |-> "active", picked |-> {}, pushed |-> {}]
InRun == {"claimed", "selected", "pushed"}

TypeOK ==
    /\ campaign \in [kind : {"winback", "broadcast"}, coupon : BOOLEAN]
    /\ status \in Status /\ {ended, overtaken} \subseteq BOOLEAN
    /\ run \in [Worker -> [at : {"idle", "looked", "toggling", "pausing"} \cup InRun,
                           previous : {"active", "paused"},
                           picked : SUBSET Member, pushed : SUBSET Member]]
    /\ {sends, told} \subseteq [Member -> 0..Many] /\ broken \in 0..MaxBroken

Init ==
    /\ campaign \in [kind : {"winback", "broadcast"}, coupon : BOOLEAN]
    /\ status = "active" /\ ended = FALSE
    /\ run = [w \in Worker |-> Idle]
    /\ sends = [m \in Member |-> 0] /\ told = [m \in Member |-> 0]
    /\ broken = 0 /\ overtaken = FALSE

At(w, at) == run' = [run EXCEPT ![w].at = at]
Finished(w) == run' = [run EXCEPT ![w] = Idle]
OneMore(count, members) ==
    [m \in Member |-> IF m \in members /\ count[m] < Many THEN count[m] + 1 ELSE count[m]]

\* Writing without looking; a deleted row stays deleted.
Write(new) == status' = IF status = "deleted" THEN status ELSE new
NoteOvertaken == overtaken' = (overtaken \/ status \in {"running", "done"})

-----------------------------------------------------------------------------

\* Staff run a campaign whether or not it is paused; the scheduler only what is active.
Look(w) ==
    /\ run[w] = Idle
    /\ status \in IF w = Scheduler THEN {"active"} ELSE {"active", "paused"}
    /\ run' = [run EXCEPT ![w].at = "looked", ![w].previous = status]
    /\ UNCHANGED <<campaign, status, ended, sends, told, broken, overtaken>>

\* Slip: the row is claimed whatever its status has become.
ClaimAny(w) == status # "deleted"

\* It is claimed only where the status still is what was read; else somebody else has it.
Unchanged(w) == status = run[w].previous

Claim(w) ==
    /\ run[w].at = "looked"
    /\ IF Unchanged(w) THEN status' = "running" /\ At(w, "claimed")
                       ELSE UNCHANGED status /\ Finished(w)
    /\ UNCHANGED <<campaign, ended, sends, told, broken, overtaken>>

\* Slip: a winback goes to who has had it as well.
EveryMember == Member

\* A winback leaves out who had it within the cooldown.
Targets ==
    IF campaign.kind = "winback" THEN {m \in Member : sends[m] = 0} ELSE Member

Select(w) ==
    /\ run[w].at = "claimed" /\ ~(campaign.coupon /\ ended)
    /\ run' = [run EXCEPT ![w].at = "selected", ![w].picked = Targets]
    /\ UNCHANGED <<campaign, status, ended, sends, told, broken, overtaken>>

\* The messages leave before the transaction ends, one by one or in batches.  Where a later
\* batch is refused, all are taken to have been reached.
Push(w) ==
    /\ run[w].at = "selected"
    /\ \E reached \in SUBSET run[w].picked :
           /\ told' = OneMore(told, reached)
           /\ \E pushed \in {reached} \cup {run[w].picked : m \in reached} :
                  run' = [run EXCEPT ![w].at = "pushed", ![w].pushed = pushed]
    /\ UNCHANGED <<campaign, status, ended, sends, broken, overtaken>>

\* Coupon and record are committed with the campaign's status; without a coupon only who got
\* the message is recorded.
Commit(w) ==
    /\ run[w].at = "pushed" /\ status # "deleted"
    /\ sends' = OneMore(sends, IF campaign.coupon THEN run[w].picked ELSE run[w].pushed)
    /\ status' = IF campaign.kind = "broadcast" THEN "done" ELSE run[w].previous
    /\ Finished(w)
    /\ UNCHANGED <<campaign, ended, told, broken, overtaken>>

\* An error: the status from before is put back.  The scheduler pauses a campaign whose coupon
\* has ended, in another transaction.
Fail(w) ==
    LET refused == run[w].at = "claimed" /\ campaign.coupon /\ ended IN
    /\ run[w].at \in InRun
    /\ broken' = IF refused THEN broken ELSE broken + 1
    /\ broken' <= MaxBroken
    /\ Write(run[w].previous)
    /\ IF refused /\ w = Scheduler THEN At(w, "pausing") ELSE Finished(w)
    /\ UNCHANGED <<campaign, ended, sends, told, overtaken>>

Pause(w) ==
    /\ run[w].at = "pausing"
    /\ Write("paused") /\ Finished(w)
    /\ NoteOvertaken
    /\ UNCHANGED <<campaign, ended, sends, told, broken>>

Crash(w) ==
    /\ run[w].at \in InRun /\ broken < MaxBroken
    /\ broken' = broken + 1 /\ Finished(w)
    /\ UNCHANGED <<campaign, status, ended, sends, told, overtaken>>

\* What has been running for half an hour was interrupted; it becomes active, also where staff
\* had paused it.
Recover ==
    /\ status = "running" /\ \A w \in Worker : run[w].at \notin InRun
    /\ status' = "active"
    /\ UNCHANGED <<campaign, ended, run, sends, told, broken, overtaken>>

\* Staff pause or resume: the status is read, and the other one written.
LookToToggle(w) ==
    /\ run[w] = Idle /\ w # Scheduler /\ status \in {"active", "paused"}
    /\ run' = [run EXCEPT ![w].at = "toggling", ![w].previous = status]
    /\ UNCHANGED <<campaign, status, ended, sends, told, broken, overtaken>>

Toggle(w) ==
    /\ run[w].at = "toggling"
    /\ Write(IF run[w].previous = "active" THEN "paused" ELSE "active")
    /\ NoteOvertaken
    /\ Finished(w)
    /\ UNCHANGED <<campaign, ended, sends, told, broken>>

\* The campaign's records go with it.
Delete ==
    /\ status # "deleted" /\ status' = "deleted"
    /\ sends' = [m \in Member |-> 0]
    /\ UNCHANGED <<campaign, ended, run, told, broken, overtaken>>

\* The coupon's period ends or is extended; a member's cooldown is over.
ChangePeriod ==
    /\ ended' = ~ended
    /\ UNCHANGED <<campaign, status, run, sends, told, broken, overtaken>>

EndCooldown(m) ==
    /\ campaign.kind = "winback" /\ sends[m] > 0
    /\ sends' = [sends EXCEPT ![m] = 0] /\ told' = [told EXCEPT ![m] = 0]
    /\ UNCHANGED <<campaign, status, ended, run, broken, overtaken>>

Next ==
    \/ \E w \in Worker :
           \/ Look(w) \/ Claim(w) \/ Select(w) \/ Push(w) \/ Commit(w) \/ Fail(w) \/ Pause(w)
           \/ Crash(w) \/ LookToToggle(w) \/ Toggle(w)
    \/ Recover \/ Delete \/ ChangePeriod
    \/ \E m \in Member : EndCooldown(m)

Spec == Init /\ [][Next]_vars

-----------------------------------------------------------------------------

\* However many press "run now" while the scheduler runs the campaign, a member gets it once,
\* and within the cooldown not again; only an interrupted run repeats a message
\* (marketing_service.py:197, models/marketing.py:14).
SentOnce ==
    ~overtaken /\ status # "deleted" => \A m \in Member : sends[m] <= 1 /\ told[m] <= 1 + broken

\* Not checked: the same when a campaign is paused or resumed in the moment it is claimed; the
\* status is then written without looking again, and another run may claim the row.
AlwaysSentOnce == \A m \in Member : sends[m] <= 1

=============================================================================
