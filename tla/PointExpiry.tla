----------------------------- MODULE PointExpiry -----------------------------
(***************************************************************************)
(* Points that expire, of one member who collects and spends at the hub    *)
(* and at branches that may be offline (loyalty_service.py, hub.push).     *)
(* The hub alone expires points, from the rows it has; when a branch later *)
(* uploads what it spent before, the hub replays the ledger and corrects   *)
(* what it has expired too much or too little (expire_fix).                *)
(*                                                                         *)
(* The n-th row of the ledger is written at time n; a row of kind "none"   *)
(* only lets time pass.  Hosts agree on the time.                          *)
(***************************************************************************)
EXTENDS Integers, Sequences, FiniteSetsExt

CONSTANTS
    Branch,
    Hub,
    Valid,      \* how long points are valid (points_expire_months)
    MaxTime,    \* bound: rows of the ledger
    MaxPoints   \* bound: points collected or spent at a time

Host == Branch \cup {Hub}
Time == 1..MaxTime

VARIABLES
    row,        \* point_ledger: every row written so far, wherever, oldest first
    known       \* [Host -> the rows it has]

vars == <<row, known>>

Earned == {"earn"}
Used == {"spend", "expire"}
Kind == Earned \cup Used \cup {"expire_fix", "none"}

TypeOK ==
    /\ row \in Seq([kind : Kind, delta : Int]) /\ Len(row) <= MaxTime
    /\ known \in [Host -> SUBSET (DOMAIN row)]

Init == row = <<>> /\ known = [h \in Host |-> {}]

Now == Len(row) + 1
RowsOf(times, kinds) == {i \in times : row[i].kind \in kinds}
Total(times) == MapThenSumSet(LAMBDA i : row[i].delta, times)

\* user.points at a host: always the sum of the rows it has.
Points(h) == Total(known[h])

Write(h, kind, delta) ==
    /\ Now \in Time
    /\ row' = Append(row, [kind |-> kind, delta |-> delta])
    /\ known' = [known EXCEPT ![h] = @ \cup {Now}]

Earn(h) == \E n \in 1..MaxPoints : Write(h, "earn", n)

\* Points are spent only where they are known to be enough.
Spend(h) == \E n \in 1..MaxPoints : Points(h) >= n /\ Write(h, "spend", -n)

Wait == Now \in Time /\ row' = Append(row, [kind |-> "none", delta |-> 0]) /\ UNCHANGED known

\* Lots by the time they were collected, and what is left of them when n points are used,
\* oldest first.
Positive(x) == IF x > 0 THEN x ELSE 0
Before(lots, i) == MapThenSumSet(LAMBDA j : lots[j], {j \in DOMAIN lots : j < i})
UseUp(lots, n) ==
    [i \in DOMAIN lots |-> Positive(lots[i] - Positive(n - Before(lots, i)))]

\* Slip: a correction of an expiry is not part of what was used.
UsedUpFixesLeft == -Total(RowsOf(known[Hub], Used))

\* What the hub takes as used: a correction of an expiry counts with it, and is no new lot.
UsedUp == -Total(RowsOf(known[Hub], Used)) - Total(RowsOf(known[Hub], {"expire_fix"}))

Lots == UseUp([i \in RowsOf(known[Hub], Earned) |-> row[i].delta], UsedUp)

Expiring(cutoff) == Before(Lots, cutoff)

Least(x, y) == IF x < y THEN x ELSE y

\* The daily job: at most down to zero.
Expire ==
    LET amount == Least(Expiring(Now - Valid), Positive(Points(Hub)))
    IN  amount > 0 /\ Write(Hub, "expire", -amount)

\* The i-th row replayed on what came before it: what is left of each lot, points used that
\* were not there, and what should have expired so far.
Replayed(b, i) ==
    LET left == Before(b.lots, Now)
        n == -row[i].delta
    IN  CASE row[i].kind = "expire" ->
               [b EXCEPT !.correct = @ + Before(b.lots, i - Valid),
                         !.lots = [j \in DOMAIN @ |-> IF j < i - Valid THEN 0 ELSE @[j]]]
          [] row[i].kind = "spend" ->
               [b EXCEPT !.lots = UseUp(@, n), !.debt = @ + Positive(n - left)]
          [] row[i].kind = "earn" ->
               [b EXCEPT !.lots[i] = Positive(row[i].delta - b.debt),
                         !.debt = Positive(@ - row[i].delta)]
          [] OTHER -> b

Replay(rows) ==
    LET s[i \in 0..Len(row)] ==
            IF i = 0 THEN [lots |-> [j \in RowsOf(rows, Earned) |-> 0], debt |-> 0, correct |-> 0]
            ELSE IF i \in rows THEN Replayed(s[i - 1], i)
            ELSE s[i - 1]
    IN  s[Len(row)]

Recorded(rows) == -Total(RowsOf(rows, {"expire", "expire_fix"}))

\* What the correction adds, once any points have expired.
Correction(rows) ==
    IF RowsOf(rows, {"expire"}) = {} THEN 0 ELSE Recorded(rows) - Replay(rows).correct

\* A branch uploads: the hub takes the rows it does not have and corrects the expiry in the
\* same request.
Push(b) ==
    LET rows == known[Hub] \cup known[b]
        fix == Correction(rows)
    IN  /\ rows # known[Hub]
        /\ IF fix = 0
           THEN known' = [known EXCEPT ![Hub] = rows] /\ UNCHANGED row
           ELSE /\ Now \in Time
                /\ row' = Append(row, [kind |-> "expire_fix", delta |-> fix])
                /\ known' = [known EXCEPT ![Hub] = rows \cup {Now}]

\* A branch fetches what it does not have.
Pull(b) ==
    /\ known[Hub] \ known[b] # {}
    /\ known' = [known EXCEPT ![b] = @ \cup known[Hub]]
    /\ UNCHANGED row

Next ==
    \/ \E h \in Host : Earn(h) \/ Spend(h)
    \/ \E b \in Branch : Push(b) \/ Pull(b)
    \/ Expire \/ Wait

Spec == Init /\ [][Next]_vars

-----------------------------------------------------------------------------

\* What should have expired by each expiry, said without replaying: of all points collected
\* before the time limit those that were neither spent before this expiry nor expired by an
\* earlier one.
Unspent(i) ==
    Total({j \in RowsOf(known[Hub], Earned) : j < i - Valid})
    + Total({j \in RowsOf(known[Hub], {"spend"}) : j < i})

Due ==
    LET due[i \in 0..Len(row)] ==
            IF i = 0 THEN 0
            ELSE IF i \in RowsOf(known[Hub], {"expire"}) /\ Unspent(i) > due[i - 1] THEN Unspent(i)
            ELSE due[i - 1]
    IN  due[Len(row)]

\* However late a branch uploads what was collected and spent there, the hub has expired
\* exactly the points that were due: none is both spent and expired
\* (loyalty_service.true_up_expiry).
ExpiryExact == Recorded(known[Hub]) = Due

=============================================================================
