----------------------------- MODULE AddonQuota -----------------------------
(***************************************************************************)
(* Whether every add-on of a cart can be matched with a regular dish of    *)
(* its own that it qualifies for (order_pricing._validate_addon_quota):    *)
(* add-ons and dishes are grouped by item, and the flow from the add-ons   *)
(* to the dishes is augmented along one shortest path after the other.     *)
(* Which of several shortest paths is found depends on the order of sets.  *)
(***************************************************************************)
EXTENDS Naturals, Sequences, FiniteSetsExt

CONSTANTS Main, Addon, Source, Sink, MaxUnits

Node == Main \cup Addon \cup {Source, Sink}

VARIABLES
    units,      \* [item -> how many of it are in the cart]
    fits,       \* pairs of an add-on and a dish it qualifies for
    cap,        \* the residual capacity of every edge
    flow,
    verdict     \* none yet, accepted or refused

vars == <<units, fits, cap, flow, verdict>>

NoCap == [e \in Node \X Node |-> 0]

Init ==
    /\ units = [i \in Main \cup Addon |-> 0] /\ fits = {}
    /\ cap = NoCap
    /\ flow = 0 /\ verdict = "none"

Count(items) == MapThenSumSet(LAMBDA i : units[i], items)

\* Capacities at first: of an add-on as many as there are, and the same along every edge to
\* a dish that it qualifies for; of a dish as many as there are.
Capacity(n, pairs) ==
    [e \in Node \X Node |->
        CASE e[1] = Source /\ e[2] \in Addon -> n[e[2]]
          [] e \in pairs -> n[e[1]]
          [] e[1] \in Main /\ e[2] = Sink -> n[e[1]]
          [] OTHER -> 0]

Begin ==
    /\ verdict = "none" /\ cap = NoCap
    /\ units' \in [Main \cup Addon -> 0..MaxUnits]
    /\ fits' \in SUBSET (Addon \X Main)
    /\ cap' = Capacity(units', fits')
    /\ LET count(items) == MapThenSumSet(LAMBDA i : units'[i], items)
       IN  verdict' = CASE count(Addon) = 0 -> "accepted"
                        [] count(Addon) > count(Main) -> "refused"
                        [] OTHER -> "looking"
    /\ UNCHANGED flow

Edges(path) == {<<path[k], path[k + 1]>> : k \in 1..(Len(path) - 1)}
NoNodeTwice(path) == \A j, k \in DOMAIN path : path[j] = path[k] => j = k

\* Paths from the source to the sink with capacity left; the search finds a shortest one.
Inner(n) == UNION {[1..k -> Main \cup Addon] : k \in 0..n}
Paths ==
    {path \in {<<Source>> \o p \o <<Sink>> : p \in Inner(Cardinality(Main \cup Addon))} :
        NoNodeTwice(path) /\ \A e \in Edges(path) : cap[e] > 0}
Shortest == {path \in Paths : \A other \in Paths : Len(path) <= Len(other)}

Back(e) == <<e[2], e[1]>>
Bottleneck(path) == Min({cap[e] : e \in Edges(path)})

\* Slip: what flows back along the path is not taken off.
AugmentedForward(path, n) ==
    [e \in DOMAIN cap |-> IF e \in Edges(path) THEN cap[e] - n ELSE cap[e]]

\* What flows along an edge may be taken back along it.
Augmented(path, n) ==
    [e \in DOMAIN cap |->
        IF e \in Edges(path) THEN cap[e] - n
        ELSE IF Back(e) \in Edges(path) THEN cap[e] + n ELSE cap[e]]

Augment ==
    /\ verdict = "looking"
    /\ \E path \in Shortest :
           /\ cap' = Augmented(path, Bottleneck(path))
           /\ flow' = flow + Bottleneck(path)
    /\ UNCHANGED <<units, fits, verdict>>

Decide ==
    /\ verdict = "looking" /\ Paths = {}
    /\ verdict' = IF flow >= Count(Addon) THEN "accepted" ELSE "refused"
    /\ UNCHANGED <<units, fits, cap, flow>>

Next == Begin \/ Augment \/ Decide

Spec == Init /\ [][Next]_vars

-----------------------------------------------------------------------------

\* A cart is accepted exactly when its add-ons can be matched (Hall's condition): any of the
\* add-ons are together no more than the dishes that qualify for some of them.
Matchable ==
    \A some \in SUBSET Addon :
        Count(some) <= Count({m \in Main : \E a \in some : <<a, m>> \in fits})

QuotaExact == verdict \in {"accepted", "refused"} => (verdict = "accepted") = Matchable

=============================================================================
