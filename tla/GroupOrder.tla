----------------------------- MODULE GroupOrder -----------------------------
(***************************************************************************)
(* One group purchase: people put in what they want until a deadline, and  *)
(* the organiser or the scheduler turns it into one order                  *)
(* (group_order_service.py, routes/group_orders.py).                       *)
(*                                                                         *)
(* A submission commits three times: it claims the group, it makes the     *)
(* order, it links the order to the group.  It may be interrupted between  *)
(* them, and is called stuck five minutes later; that a submission that is *)
(* still at work takes less than that is assumed (Stuck).                  *)
(***************************************************************************)
EXTENDS Naturals

CONSTANTS
    Person,         \* who may put in an order
    Worker,         \* requests being served at the same time
    Scheduler,      \* the worker that runs the due jobs
    MaxCrash        \* interruptions

VARIABLES
    group,      \* the group's row: its status and whether it has the order's number
    entry,      \* the people whose entries it has
    ordered,    \* the people in the order made for it, and whether it is made
    time,       \* before the deadline, after it, after the pickup time
    auto,       \* whether the group is submitted at its deadline
    worker,     \* what each worker is in the middle of
    crashes     \* interruptions so far

vars == <<group, entry, ordered, time, auto, worker, crashes>>

Status == {"open", "submitting", "submitted", "failed", "cancelled"}
Doing == {<<d>> : d \in {"idle", "cancelling", "claimed", "made"}}
             \cup ({"saving", "dropping"} \X Person)

TypeOK ==
    /\ group \in [status : Status, linked : BOOLEAN]
    /\ entry \subseteq Person
    /\ ordered \in [made : BOOLEAN, people : SUBSET Person]
    /\ time \in {"taking", "due", "late"} /\ auto \in BOOLEAN
    /\ worker \in [Worker -> Doing]
    /\ crashes \in 0..MaxCrash

Init ==
    /\ group = [status |-> "open", linked |-> FALSE]
    /\ entry = {}
    /\ ordered = [made |-> FALSE, people |-> {}]
    /\ time = "taking" /\ auto \in BOOLEAN
    /\ worker = [w \in Worker |-> <<"idle">>]
    /\ crashes = 0

Become(w, doing) == worker' = [worker EXCEPT ![w] = doing]
Begin(w, doing) == worker[w] = <<"idle">> /\ Become(w, doing)

\* Slip: the status is not part of the condition.
LockAny(statuses) == group.status \in Status

\* The group's row is updated only where its status still is one of these.
LockOpen(statuses) == group.status \in statuses

\* A person's entry is saved: the form is checked, then the row is locked and written.
StartSave(w, p) ==
    /\ Begin(w, <<"saving", p>>) /\ w # Scheduler
    /\ group.status = "open" /\ time = "taking"
    /\ UNCHANGED <<group, entry, ordered, time, auto, crashes>>

SaveEntry(w, p) ==
    /\ worker[w] = <<"saving", p>>
    /\ entry' = IF LockOpen({"open"}) THEN entry \cup {p} ELSE entry
    /\ Become(w, <<"idle">>)
    /\ UNCHANGED <<group, ordered, time, auto, crashes>>

\* An entry is deleted, by its owner while the group is open or by the organiser, who
\* may do so after a failed submission too.
StartDrop(w, p) ==
    /\ Begin(w, <<"dropping", p>>) /\ w # Scheduler
    /\ p \in entry
    /\ UNCHANGED <<group, entry, ordered, time, auto, crashes>>

DropEntry(w, p) ==
    /\ worker[w] = <<"dropping", p>>
    /\ entry' = IF LockOpen({"open", "failed"}) THEN entry \ {p} ELSE entry
    /\ Become(w, <<"idle">>)
    /\ UNCHANGED <<group, ordered, time, auto, crashes>>

ToggleAuto == auto' = ~auto /\ UNCHANGED <<group, entry, ordered, time, worker, crashes>>

Pass ==
    /\ \/ time = "taking" /\ time' = "due"
       \/ time = "due" /\ time' = "late"
    /\ UNCHANGED <<group, entry, ordered, auto, worker, crashes>>

\* The organiser or a member of staff submits; the scheduler does at the deadline.
Claim(w) ==
    /\ Begin(w, <<"claimed">>)
    /\ w = Scheduler => group.status = "open" /\ time # "taking" /\ auto
    /\ group.status \in {"open", "failed"}
    /\ group' = [group EXCEPT !.status = "submitting"]
    /\ UNCHANGED <<entry, ordered, time, auto, crashes>>

\* An order made for this group before is linked; otherwise one is made of all entries,
\* unless there are none or it is too late, or the checkout refuses it.
FindOrMake(w) ==
    /\ worker[w] = <<"claimed">>
    /\ \/ /\ ordered.made \/ (entry # {} /\ time # "late")
          /\ ordered' = IF ordered.made THEN ordered ELSE [made |-> TRUE, people |-> entry]
          /\ Become(w, <<"made">>)
          /\ UNCHANGED group
       \/ /\ ~ordered.made
          /\ group' = [group EXCEPT !.status = "failed"]
          /\ Become(w, <<"idle">>)
          /\ UNCHANGED ordered
    /\ UNCHANGED <<entry, time, auto, crashes>>

Link(w) ==
    /\ worker[w] = <<"made">>
    /\ group' = [status |-> "submitted", linked |-> TRUE]
    /\ Become(w, <<"idle">>)
    /\ UNCHANGED <<entry, ordered, time, auto, crashes>>

\* The organiser or staff cancels, or the scheduler once the pickup time is over: the
\* status is looked at first, and written later whatever it has become.
StartCancel(w) ==
    /\ Begin(w, <<"cancelling">>)
    /\ group.status \in {"open", "failed"}
    /\ w = Scheduler => group.status = "open" /\ time = "late" /\ ~auto
    /\ UNCHANGED <<group, entry, ordered, time, auto, crashes>>

Cancel(w) ==
    /\ worker[w] = <<"cancelling">>
    /\ group' = [group EXCEPT !.status = "cancelled"]
    /\ Become(w, <<"idle">>)
    /\ UNCHANGED <<entry, ordered, time, auto, crashes>>

\* A worker dies: what it has committed stays.
Crash(w) ==
    /\ worker[w] # <<"idle">> /\ crashes < MaxCrash
    /\ Become(w, <<"idle">>) /\ crashes' = crashes + 1
    /\ UNCHANGED <<group, entry, ordered, time, auto>>

\* The scheduler finds a submission that was interrupted.
Stuck ==
    /\ group.status = "submitting" /\ \A w \in Worker : worker[w] \notin {<<"claimed">>, <<"made">>}
    /\ group' = [group EXCEPT !.status = "failed"]
    /\ UNCHANGED <<entry, ordered, time, auto, worker, crashes>>

Finish(w) ==
    \/ \E p \in Person : SaveEntry(w, p) \/ DropEntry(w, p)
    \/ FindOrMake(w) \/ Link(w) \/ Cancel(w)

Next ==
    \/ \E w \in Worker :
           \/ \E p \in Person : StartSave(w, p) \/ StartDrop(w, p)
           \/ Claim(w) \/ StartCancel(w) \/ Finish(w) \/ Crash(w)
    \/ ToggleAuto \/ Pass \/ Stuck

\* What the scheduler does about a group that is due: submit it or call it off.
RunDue == Claim(Scheduler) \/ StartCancel(Scheduler)

\* Requests that were begun are finished, and the scheduler's jobs run again and again.
Fairness ==
    /\ \A w \in Worker : WF_vars(Finish(w))
    /\ WF_vars(Stuck) /\ WF_vars(RunDue)

Spec == Init /\ [][Next]_vars

-----------------------------------------------------------------------------

\* A submitted group has an order, and everybody whose entry it shows is in it: nothing is
\* saved behind the submission, and after an interrupted one only removals are allowed
\* (group_order_service.lock_open, _submit_claimed).
EveryoneOrdered ==
    group.status = "submitted" => ordered.made /\ group.linked /\ entry \subseteq ordered.people

\* A cancelled group has no order.  It does not hold: group_order_service.cancel writes the
\* status without looking at it again, and a submission may have been made in between.
CancelledHasNoOrder == group.status = "cancelled" => ~ordered.made

\* A submission is under way, or nobody submitted the group until its pickup time.
Unfinished == group.status = "submitting" \/ (time = "late" /\ group.status = "open")

\* A group does not stay in submission, and one that nobody submits is submitted or
\* cancelled after its pickup time (group_order_service.run_due).
GroupEnds == Unfinished ~> ~Unfinished

=============================================================================
