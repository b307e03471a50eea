------------------------------ MODULE EventBus ------------------------------
(***************************************************************************)
(* The live updates of the screens within one process (event_bus.py,       *)
(* orders_stream in routes/pickup.py): every connected screen has a queue, *)
(* a change puts a notice into each, and a screen that gets one reads its  *)
(* data again.  The set of queues is under a lock; taking a notice out of  *)
(* a queue is not.                                                         *)
(*                                                                         *)
(* Screens come from one address and one shop: the limits per address and  *)
(* for all are one, Limit.                                                 *)
(***************************************************************************)
EXTENDS Naturals, Sequences, SequencesExt

CONSTANTS
    Screen,         \* the connections
    Notifier,       \* requests that change something
    NoThread,
    Limit,          \* connections that are kept
    QueueSize,      \* notices a queue can hold
    MaxChange       \* changes that are ever made

VARIABLES
    subscribers,    \* the screens whose queues are known, the oldest first
    queued,         \* the notices in each queue
    screen,         \* what each connection is at
    stale,          \* the screens that do not show the last change
    notifier,       \* the screens each notifier has not told yet
    full,           \* whether the notifier with the lock has just found a queue full
    lock,           \* who holds the lock
    changes         \* changes that were made

vars == <<subscribers, queued, screen, stale, notifier, full, lock, changes>>

Notice == {"changed", "end"}

TypeOK ==
    /\ IsInjective(subscribers) /\ ToSet(subscribers) \subseteq Screen
    /\ \A s \in Screen : Len(queued[s]) <= QueueSize /\ ToSet(queued[s]) \subseteq Notice
    /\ screen \in [Screen -> {"away", "first", "reading", "gone"}]
    /\ stale \subseteq Screen
    /\ \A n \in Notifier : ToSet(notifier[n].left) \subseteq Screen
    /\ full \in BOOLEAN /\ lock \in Notifier \cup {NoThread}
    /\ changes \in 0..MaxChange

Resting == [at |-> "rest", left |-> <<>>]

Init ==
    /\ subscribers = <<>>
    /\ queued = [s \in Screen |-> <<>>]
    /\ screen = [s \in Screen |-> "away"]
    /\ stale = {}
    /\ notifier = [n \in Notifier |-> Resting]
    /\ full = FALSE /\ lock = NoThread /\ changes = 0

-----------------------------------------------------------------------------

\* The oldest connections are evicted; an end is put into a full queue in place of a notice.
\* Evictions run to their end at once.
EndOf(queue) == Append(IF Len(queue) = QueueSize THEN Tail(queue) ELSE queue, "end")

\* A queue is known no more; one that is not known stays so.
Forget(s) ==
    IF s \in ToSet(subscribers)
    THEN RemoveAt(subscribers, CHOOSE i \in DOMAIN subscribers : subscribers[i] = s)
    ELSE subscribers

\* A screen connects, under the lock; what it reads first it reads afterwards.
Subscribe(s) ==
    LET evicted == IF Len(subscribers) >= Limit THEN {Head(subscribers)} ELSE {} IN
    /\ screen[s] = "away" /\ lock = NoThread
    /\ subscribers' = Append(IF evicted = {} THEN subscribers ELSE Tail(subscribers), s)
    /\ queued' = [q \in Screen |->
           CASE q = s -> <<>> [] q \in evicted -> EndOf(queued[q]) [] OTHER -> queued[q]]
    /\ screen' = [screen EXCEPT ![s] = "first"]
    /\ UNCHANGED <<stale, notifier, full, lock, changes>>

\* The first notice of a connection comes without a change.
FirstRead(s) ==
    /\ screen[s] = "first"
    /\ screen' = [screen EXCEPT ![s] = "reading"]
    /\ stale' = stale \ {s}
    /\ UNCHANGED <<subscribers, queued, notifier, full, lock, changes>>

\* A notice is taken without the lock; an end ends the stream, and the browser connects again.
Get(s) ==
    /\ screen[s] = "reading" /\ queued[s] # <<>>
    /\ queued' = [queued EXCEPT ![s] = Tail(@)]
    /\ IF Head(queued[s]) = "end"
       THEN screen' = [screen EXCEPT ![s] = "gone"] /\ UNCHANGED stale
       ELSE stale' = stale \ {s} /\ UNCHANGED screen
    /\ UNCHANGED <<subscribers, notifier, full, lock, changes>>

\* The connection breaks off, at any time.
Disconnect(s) ==
    /\ screen[s] \in {"first", "reading"}
    /\ screen' = [screen EXCEPT ![s] = "gone"]
    /\ UNCHANGED <<subscribers, queued, stale, notifier, full, lock, changes>>

Unsubscribe(s) ==
    /\ screen[s] = "gone" /\ lock = NoThread
    /\ subscribers' = Forget(s)
    /\ screen' = [screen EXCEPT ![s] = "away"]
    /\ queued' = [queued EXCEPT ![s] = <<>>]
    /\ stale' = stale \ {s}
    /\ UNCHANGED <<notifier, full, lock, changes>>

-----------------------------------------------------------------------------

\* Something is changed and committed; the notice comes afterwards.
Commit(n) ==
    /\ notifier[n] = Resting /\ changes < MaxChange
    /\ changes' = changes + 1
    /\ stale' = {s \in Screen : screen[s] \in {"first", "reading"}}
    /\ notifier' = [notifier EXCEPT ![n].at = "notify"]
    /\ UNCHANGED <<subscribers, queued, screen, full, lock>>

Fanout(n) ==
    /\ notifier[n].at = "notify" /\ lock = NoThread
    /\ lock' = n
    /\ notifier' = [notifier EXCEPT ![n] = [at |-> "put", left |-> subscribers]]
    /\ UNCHANGED <<subscribers, queued, screen, stale, full, changes>>

PassOn(n) == notifier' = [notifier EXCEPT ![n].left = Tail(@)] /\ full' = FALSE

\* Of a full queue the oldest notice is thrown away.
MakeRoom(n, s) ==
    /\ queued' = [queued EXCEPT ![s] = Append(Tail(@), "changed")]
    /\ PassOn(n) /\ UNCHANGED subscribers

\* A queue that was found full may be empty by now, as nobody keeps the screen from reading: it
\* is dropped then, without an end.
Put(n) ==
    LET s == Head(notifier[n].left) IN
    /\ lock = n /\ notifier[n].left # <<>>
    /\ CASE ~full /\ Len(queued[s]) < QueueSize ->
              /\ queued' = [queued EXCEPT ![s] = Append(@, "changed")]
              /\ PassOn(n) /\ UNCHANGED subscribers
         [] ~full /\ Len(queued[s]) = QueueSize ->
              full' = TRUE /\ UNCHANGED <<subscribers, queued, notifier>>
         [] full /\ queued[s] # <<>> -> MakeRoom(n, s)
         [] full /\ queued[s] = <<>> ->
              subscribers' = Forget(s) /\ PassOn(n) /\ UNCHANGED queued
    /\ UNCHANGED <<screen, stale, lock, changes>>

Release(n) ==
    /\ lock = n /\ notifier[n].left = <<>>
    /\ lock' = NoThread /\ notifier' = [notifier EXCEPT ![n] = Resting]
    /\ UNCHANGED <<subscribers, queued, screen, stale, full, changes>>

Next ==
    \/ \E s \in Screen : Subscribe(s) \/ FirstRead(s) \/ Get(s) \/ Disconnect(s) \/ Unsubscribe(s)
    \/ \E n \in Notifier : Commit(n) \/ Fanout(n) \/ Put(n) \/ Release(n)

Spec == Init /\ [][Next]_vars

-----------------------------------------------------------------------------

Waiting(s) == \E n \in Notifier : notifier[n].at = "notify" \/ s \in ToSet(notifier[n].left)

\* A known screen that does not show the last change finds a notice in its queue, or is about to:
\* throwing away the oldest notice of a full queue loses no change (event_bus.py:141).
ChangeIsNoticed ==
    \A s \in ToSet(subscribers) :
        screen[s] = "reading" /\ s \in stale => Waiting(s) \/ queued[s] # <<>>

\* A screen whose queue was evicted finds the end in it, unless it is known or has read it.
\* Does not hold: a queue that is emptied between being found full and being made room in is
\* dropped without an end, and its screen waits for ever.
EvictedIsTold ==
    \A s \in Screen :
        screen[s] = "reading" /\ s \notin ToSet(subscribers) => "end" \in ToSet(queued[s])

=============================================================================
