---------------------------- MODULE StockTransfer ----------------------------
(***************************************************************************)
(* Ingredients sent from one site to another (branch_service): a request   *)
(* of the receiving site, or a transfer the sending site makes on its own. *)
(* Every site has a row of its own for it and changes its own stock; the   *)
(* rows travel through the hub, which is a site too (HQ), and are merged   *)
(* by engine._merge_transfer.  The two ends can act at the same time.      *)
(***************************************************************************)
EXTENDS Integers, FiniteSets

CONSTANTS
    Transfer,    \* transfer numbers
    Node,        \* branches
    HQ,          \* the hub
    Stock,       \* what every site has at first
    NoSite       \* not known yet

Site == Node \cup {HQ}

VARIABLES
    row,         \* [Site -> the stock_transfer rows it has]
    stock,       \* [Site -> its ingredient]
    out,         \* [Node -> rows it has to push]
    in,          \* [Node -> rows it has to pull]
    pushed,      \* [Node -> the page it is pushing]
    pulled,      \* [Node -> the page it is pulling]
    clock,       \* time of the last cancellation or rejection
    revoked,     \* requests that were cancelled
    told         \* [Site -> transfers it got an alert for]

vars == <<row, stock, out, in, pushed, pulled, clock, revoked, told>>

Status == {"none", "requested", "cancelled", "rejected", "shipped", "received"}

\* TRANSFER_RANK.
Rank(status) ==
    CASE status = "none" -> -1
      [] status = "requested" -> 0
      [] status \in {"cancelled", "rejected"} -> 1
      [] status = "shipped" -> 2
      [] status = "received" -> 3

\* at is updated_at, kept where the merge looks at it.
Row ==
    [status: Status, kind: {"none", "request", "transfer"}, from: Site \cup {NoSite},
     to: Site \cup {NoSite}, shipped: Nat, received: Nat, at: Nat]
NoRow ==
    [status |-> "none", kind |-> "none", from |-> NoSite, to |-> NoSite, shipped |-> 0,
     received |-> 0, at |-> 0]
NoPage == [t \in Transfer |-> NoRow]

TypeOK ==
    /\ row \in [Site -> [Transfer -> Row]]
    /\ stock \in [Site -> Nat]
    /\ out \in [Node -> SUBSET Transfer] /\ in \in [Node -> SUBSET Transfer]
    /\ pushed \in [Node -> [Transfer -> Row]] /\ pulled \in [Node -> [Transfer -> Row]]
    /\ clock \in Nat /\ revoked \subseteq Transfer
    /\ told \in [Site -> SUBSET Transfer]

Init ==
    /\ row = [s \in Site |-> NoPage]
    /\ stock = [s \in Site |-> Stock]
    /\ out = [n \in Node |-> {}] /\ in = [n \in Node |-> {}]
    /\ pushed = [n \in Node |-> NoPage] /\ pulled = [n \in Node |-> NoPage]
    /\ clock = 0 /\ revoked = {}
    /\ told = [s \in Site |-> {}]

-----------------------------------------------------------------------------
\* What the sites do.

\* A changed row is marked: the hub sends it to both ends, a branch to the hub.
Mark(s, t, r) ==
    IF s = HQ
    THEN /\ in' = [n \in Node |-> IF n \in {r.from, r.to} THEN in[n] \cup {t} ELSE in[n]]
         /\ UNCHANGED out
    ELSE /\ out' = [out EXCEPT ![s] = @ \cup {t}]
         /\ UNCHANGED in

Write(s, t, r) ==
    /\ row' = [row EXCEPT ![s][t] = r]
    /\ Mark(s, t, r)
    /\ UNCHANGED <<pushed, pulled, told>>

New(t) == \A s \in Site : row[s][t] = NoRow

CreateRequest(s, from, t) ==
    /\ New(t) /\ from # s
    /\ Write(s, t, [NoRow EXCEPT !.status = "requested", !.kind = "request", !.from = from, !.to = s])
    /\ UNCHANGED <<stock, clock, revoked>>

\* _deduct_for: a conditional UPDATE of the stock, which fails the whole request.
Deduct(s, q) == stock[s] >= q /\ stock' = [stock EXCEPT ![s] = @ - q]

CreateTransfer(s, to, t, q) ==
    /\ New(t) /\ to # s
    /\ Deduct(s, q)
    /\ Write(s, t, [NoRow EXCEPT !.status = "shipped", !.kind = "transfer", !.from = s,
                                 !.to = to, !.shipped = q])
    /\ UNCHANGED <<clock, revoked>>

\* Slip: whoever sees the request on the page may ship it once more.
ClaimableAgain(s, t) == row[s][t].status \in {"requested", "shipped"}

Claimable(s, t) == row[s][t].status = "requested"

Ship(s, t, q) ==
    /\ row[s][t].from = s /\ Claimable(s, t)
    /\ Deduct(s, q)
    /\ Write(s, t, [row[s][t] EXCEPT !.status = "shipped", !.shipped = q])
    /\ UNCHANGED <<clock, revoked>>

Reject(s, t) ==
    /\ row[s][t].from = s /\ Claimable(s, t)
    /\ clock' = clock + 1
    /\ Write(s, t, [row[s][t] EXCEPT !.status = "rejected", !.at = clock + 1])
    /\ UNCHANGED <<stock, revoked>>

Cancel(s, t) ==
    /\ row[s][t].to = s /\ row[s][t].kind = "request" /\ Claimable(s, t)
    /\ clock' = clock + 1
    /\ revoked' = revoked \cup {t}
    /\ Write(s, t, [row[s][t] EXCEPT !.status = "cancelled", !.at = clock + 1])
    /\ UNCHANGED stock

\* What arrived is counted, and may differ from what was sent.
Receive(s, t, q) ==
    /\ row[s][t].to = s /\ row[s][t].status = "shipped"
    /\ stock' = [stock EXCEPT ![s] = @ + q]
    /\ Write(s, t, [row[s][t] EXCEPT !.status = "received", !.received = q])
    /\ UNCHANGED <<clock, revoked>>

-----------------------------------------------------------------------------
\* Merging.  A branch that pulls has no source.

\* Slip: of a cancellation and a rejection each end keeps its own.
ForwardByRank(mine, new) == Rank(new.status) > Rank(mine.status)

Forward(mine, new) ==
    \/ Rank(new.status) > Rank(mine.status)
    \/ Rank(new.status) = Rank(mine.status) /\ new.status # mine.status /\ new.at > mine.at

\* The hub lets the sender ship and reject, and the receiver cancel and receive.
Actor(r, status) == IF status \in {"shipped", "rejected"} THEN r.from ELSE r.to

\* _transfer_insert_error.
MayInsert(src, new) ==
    \/ new.kind = "request" /\ new.to = src /\ new.status \in {"requested", "cancelled"}
    \/ new.kind = "transfer" /\ new.from = src /\ new.status = "shipped"

MayMerge(src, mine, new) ==
    IF mine = NoRow THEN src \in Node => MayInsert(src, new)
    ELSE Forward(mine, new) /\ (src \in Node => Actor(mine, new.status) = src)

\* Rows that a merge writes get a new updated_at, rows it inserts keep theirs.
Merged(src, mine, new) ==
    IF ~MayMerge(src, mine, new) THEN mine
    ELSE IF mine = NoRow THEN new
    ELSE [mine EXCEPT !.status = new.status, !.shipped = new.shipped, !.received = new.received,
                      !.at = IF Rank(new.status) = 1 THEN clock + 1 ELSE 0]

\* Slip: only a cancellation that comes late is told of.
AlertsOfCancel(src, mine, new) ==
    /\ new.status = "cancelled" /\ mine.status \in {"shipped", "received"}
    /\ src \in Node => src = mine.to

\* A cancellation and a shipment have crossed.
Alerts(src, mine, new) ==
    \/ /\ new.status = "cancelled" /\ mine.status \in {"shipped", "received"}
       /\ src \in Node => src = mine.to
    \/ mine.status = "cancelled" /\ new.status \in {"shipped", "received"} /\ MayMerge(src, mine, new)

OnPage(page) == {t \in Transfer : page[t] # NoRow}

MergePage(s, src, page) ==
    /\ row' = [row EXCEPT ![s] = [t \in Transfer |->
                  IF t \in OnPage(page) THEN Merged(src, row[s][t], page[t]) ELSE row[s][t]]]
    /\ clock' = IF \E t \in OnPage(page) : Merged(src, row[s][t], page[t]).at > clock
                THEN clock + 1 ELSE clock
    /\ told' = [told EXCEPT ![s] = @ \cup {t \in OnPage(page) : Alerts(src, row[s][t], page[t])}]

\* node.push: the rows that changed are read and sent.
PushRead(n) ==
    /\ pushed[n] = NoPage /\ out[n] # {}
    /\ pushed' = [pushed EXCEPT ![n] = [t \in Transfer |-> IF t \in out[n] THEN row[n][t] ELSE NoRow]]
    /\ out' = [out EXCEPT ![n] = {}]
    /\ UNCHANGED <<row, stock, in, pulled, clock, revoked, told>>

\* hub.push: one transaction.  Its answer may be lost, then all is sent again.
PushApply(n, answered) ==
    /\ OnPage(pushed[n]) # {}
    /\ MergePage(HQ, n, pushed[n])
    /\ in' = [m \in Node |->
                in[m] \cup {t \in OnPage(pushed[n]) :
                              row'[HQ][t] # row[HQ][t] /\ m \in {row'[HQ][t].from, row'[HQ][t].to}}]
    /\ out' = IF answered THEN out ELSE [out EXCEPT ![n] = @ \cup OnPage(pushed[n])]
    /\ pushed' = [pushed EXCEPT ![n] = NoPage]
    /\ UNCHANGED <<stock, pulled, revoked>>

\* hub.pull: only rows the branch is an end of are sent.
PullRead(n) ==
    /\ pulled[n] = NoPage /\ in[n] # {}
    /\ pulled' = [pulled EXCEPT ![n] = [t \in Transfer |-> IF t \in in[n] THEN row[HQ][t] ELSE NoRow]]
    /\ in' = [in EXCEPT ![n] = {}]
    /\ UNCHANGED <<row, stock, out, pushed, clock, revoked, told>>

\* node._apply, and the cursor after it: what a pull writes is not pushed.
PullApply(n, saved) ==
    /\ OnPage(pulled[n]) # {}
    /\ MergePage(n, NoSite, pulled[n])
    /\ in' = IF saved THEN in ELSE [in EXCEPT ![n] = @ \cup OnPage(pulled[n])]
    /\ pulled' = [pulled EXCEPT ![n] = NoPage]
    /\ UNCHANGED <<stock, out, pushed, revoked>>

-----------------------------------------------------------------------------

Next ==
    \/ \E s \in Site, t \in Transfer :
          \/ \E p \in Site : CreateRequest(s, p, t)
          \/ \E p \in Site, q \in 1..(Stock + 1) : CreateTransfer(s, p, t, q)
          \/ \E q \in 1..(Stock + 1) : Ship(s, t, q)
          \/ Reject(s, t) \/ Cancel(s, t)
          \/ \E q \in 0..Stock : Receive(s, t, q)
    \/ \E n \in Node :
          \/ PushRead(n) \/ PullRead(n)
          \/ \E done \in BOOLEAN : PushApply(n, done) \/ PullApply(n, done)

Spec == Init /\ [][Next]_vars

-----------------------------------------------------------------------------
\* Properties.

\* What the sender has sent, and the receiver counted in.
Sent ==
    [x \in Site \X Transfer |->
        LET r == row[x[1]][x[2]]
        IN  IF r.from = x[1] /\ r.status \in {"shipped", "received"} THEN r.shipped ELSE 0]
Arrived ==
    [x \in Site \X Transfer |->
        LET r == row[x[1]][x[2]]
        IN  IF r.to = x[1] /\ r.status = "received" THEN r.received ELSE 0]

\* The sum of f, counted one by one.
Sum(f) == Cardinality(UNION {{x} \X (1..f[x]) : x \in DOMAIN f})

\* Ingredients are neither lost nor made: what a site sent is under way until the
\* other end has counted it in, once, whatever pages come again or late
\* (branch_service.ship and receive, engine._merge_transfer).
GoodsConserved == Sum(stock) + Sum(Sent) = Stock * Cardinality(Site) + Sum(Arrived)

Travelling(t) ==
    \E n \in Node : t \in out[n] \cup in[n] \cup OnPage(pushed[n]) \cup OnPage(pulled[n])

\* When no row of a transfer is under way both ends and the hub have it in the
\* same state, whoever acted first (engine._merge_transfer, TRANSFER_RANK).
EndsAgree ==
    \A t \in Transfer : ~Travelling(t) =>
        \A s \in {row[HQ][t].from, row[HQ][t].to} \ {NoSite} :
            /\ row[s][t].status = row[HQ][t].status
            /\ row[s][t].shipped = row[HQ][t].shipped
            /\ row[s][t].received = row[HQ][t].received

\* When goods were sent for a request that its receiver had cancelled, the receiver
\* is told (engine._merge_transfer, transfer_alerts).
Overtaken(t) == t \in revoked /\ row[HQ][t].status \in {"shipped", "received"} /\ ~Travelling(t)

ReceiverTold == \A t \in Transfer : Overtaken(t) => t \in told[row[HQ][t].to]

\* docs/SYNC.txt says so of the hub as well.
HubTold == \A t \in Transfer : Overtaken(t) => t \in told[HQ]

=============================================================================
