------------------------------ MODULE Members ------------------------------
(***************************************************************************)
(* A member's points, referral bonus and coupon in several databases: the  *)
(* hub's and those of the branches, which work while the line is down.     *)
(* Points are a ledger that only grows; the balance is kept beside it.     *)
(* The hub repairs what two hosts did before they knew of each other.      *)
(*                                                                         *)
(* What a branch still has to send or to fetch is what the other side does *)
(* not have yet; only orders are marked, since an upload has an effect of  *)
(* its own.  Applying a row twice changes nothing (insert_only, rank,      *)
(* updated_at), so lost answers need no step.                              *)
(***************************************************************************)
EXTENDS Integers, FiniteSets

CONSTANTS
    Branch,
    Hub,
    MaxOrder,    \* bound: orders of the member
    Concurrent   \* the hub's database lets two transactions overlap (PostgreSQL)

Site == Branch \cup {Hub}

\* Orders in the sequence in which they are made.
Purchase == 1..MaxOrder

VARIABLES
    form,        \* what an order was made with
    order,       \* [Site -> status of the orders it has]
    ledger,      \* [Site -> point_ledger of the member]
    points,      \* [Site -> user.points]
    coupon,      \* [Site -> the member's coupon, with its updated_at]
    clock,
    marked,      \* [Branch -> orders to upload]
    pushing,     \* [Branch -> the upload the hub works on]
    warned       \* the shop was told of a coupon used twice

vars == <<form, order, ledger, points, coupon, clock, marked, pushing, warned>>

Status == {"none", "active", "done", "cancelled"}

\* ORDER_RANK.
Rank(status) ==
    CASE status = "none" -> 0 [] status = "active" -> 1 [] status = "done" -> 2 [] status = "cancelled" -> 3

Higher(mine, new) == IF Rank(new) > Rank(mine) THEN new ELSE mine
Stands(status) == status \in {"active", "done"}
Reason == {"earn", "redeem", "cancel", "referred", "referred_dup", "referred_cancel"}
Entry == [order : Purchase, reason : Reason, site : Site, delta : Int]
Form == [home : Site, coupon : BOOLEAN, points : 0..1]
Coupon == [used : BOOLEAN, at : Nat]

NoForm == [home |-> Hub, coupon |-> FALSE, points |-> 0]
NewCoupon == [used |-> FALSE, at |-> 0]
NoPush ==
    [on |-> FALSE, orders |-> [o \in Purchase |-> "none"], entries |-> {}, coupon |-> NewCoupon, base |-> {}]

Push ==
    [on : BOOLEAN, orders : [Purchase -> Status], entries : SUBSET Entry, coupon : Coupon,
     base : SUBSET Entry]

TypeOK ==
    /\ form \in [Purchase -> Form]
    /\ order \in [Site -> [Purchase -> Status]]
    /\ ledger \in [Site -> SUBSET Entry]
    /\ points \in [Site -> Int]
    /\ coupon \in [Site -> Coupon]
    /\ clock \in Nat
    /\ marked \in [Branch -> SUBSET Purchase]
    /\ pushing \in [Branch -> Push]
    /\ warned \in BOOLEAN

Init ==
    /\ form = [o \in Purchase |-> NoForm]
    /\ order = [s \in Site |-> [o \in Purchase |-> "none"]]
    /\ ledger = [s \in Site |-> {}]
    /\ points = [s \in Site |-> 0]
    /\ coupon = [s \in Site |-> NewCoupon]
    /\ clock = 0
    /\ marked = [b \in Branch |-> {}]
    /\ pushing = [b \in Branch |-> NoPush]
    /\ warned = FALSE

-----------------------------------------------------------------------------
\* What a host does on its own, each in one transaction.

\* The points that entries give and take, one by one.
Gives(entries) == UNION {{e} \X (1..e.delta) : e \in entries}
Takes(entries) == UNION {{e} \X (1..(-e.delta)) : e \in entries}
Sum(entries) == Cardinality(Gives(entries)) - Cardinality(Takes(entries))
Of(s, o, reasons) == {e \in ledger[s] : e.order = o /\ e.reason \in reasons}

\* A transaction of the hub that overlaps an upload has to be possible there.
Free(s) == s = Hub /\ ~Concurrent => \A b \in Branch : ~pushing[b].on

\* atomic_change: nothing is entered when nothing changes.
Posted(s, new) ==
    /\ ledger' = [ledger EXCEPT ![s] = @ \cup {e \in new : e.delta # 0}]
    /\ points' = [points EXCEPT ![s] = @ + Sum(new)]

Mark(s, o) ==
    marked' = IF s = Hub THEN marked ELSE [marked EXCEPT ![s] = @ \cup {o}]

\* award_referral: once for a new member, as far as this database knows.
FirstPurchase(s) == \A e \in ledger[s] : e.reason # "referred"

Place(s, b, o, f) ==
    /\ Free(s) /\ form[o] = NoForm /\ order[Hub][o] = "none" /\ order[b][o] = "none"
    /\ \A p \in Purchase : p < o => \E t \in Site : order[t][p] # "none"
    /\ f.home = b /\ (f.coupon => ~coupon[s].used) /\ f.points <= points[s]
    /\ form' = [form EXCEPT ![o] = f]
    /\ order' = [order EXCEPT ![s][o] = "active"]
    /\ coupon' = IF f.coupon THEN [coupon EXCEPT ![s] = [used |-> TRUE, at |-> clock + 1]] ELSE coupon
    /\ clock' = IF f.coupon THEN clock + 1 ELSE clock
    /\ Posted(s, {[order |-> o, reason |-> "redeem", site |-> s, delta |-> -f.points],
                  [order |-> o, reason |-> "earn", site |-> s, delta |-> 1 - f.points],
                  [order |-> o, reason |-> "referred", site |-> s,
                   delta |-> IF FirstPurchase(s) THEN 1 ELSE 0]})
    /\ Mark(s, o)
    /\ UNCHANGED <<pushing, warned>>

\* change_points with clamp: no more is taken back than the member has.
Clamped(has, delta) == IF delta < 0 /\ has < -delta THEN -(IF has < 0 THEN 0 ELSE has) ELSE delta

Bonus == {"referred", "referred_dup", "referred_cancel"}

\* _rollback_cancelled_order and loyalty_service.on_order_cancelled.
Cancel(s, o) ==
    LET settled == Clamped(points[s], form[o].points - Sum(Of(s, o, {"earn"})))
        net == Sum(Of(s, o, Bonus))
        taken == Clamped(points[s] + settled, -net)
    IN  /\ Free(s) /\ Stands(order[s][o])
        /\ order' = [order EXCEPT ![s][o] = "cancelled"]
        /\ Posted(s, {[order |-> o, reason |-> "cancel", site |-> s, delta |-> settled],
                      [order |-> o, reason |-> "referred_cancel", site |-> s,
                       delta |-> IF net > 0 THEN taken ELSE 0]})
        /\ IF form[o].coupon /\ coupon[s].used
           THEN /\ coupon' = [coupon EXCEPT ![s] = [used |-> FALSE, at |-> clock + 1]]
                /\ clock' = clock + 1
           ELSE UNCHANGED <<coupon, clock>>
        /\ Mark(s, o)
        /\ UNCHANGED <<form, pushing, warned>>

\* The branch makes the order and hands it over.
Finish(b, o) ==
    /\ order[b][o] = "active" /\ form[o].home = b
    /\ order' = [order EXCEPT ![b][o] = "done"]
    /\ Mark(b, o)
    /\ UNCHANGED <<form, ledger, points, coupon, clock, pushing, warned>>

-----------------------------------------------------------------------------
\* Uploads.  The hub adds the ledger up with one UPDATE, whose view of the ledger is
\* older than the row it then waits for.

Newer(mine, new) == IF new.at > mine.at THEN new ELSE mine

PushRead(b, full) ==
    /\ ~pushing[b].on
    /\ Concurrent \/ \A c \in Branch : ~pushing[c].on
    /\ \/ marked[b] # {}
       \/ full /\ ~(ledger[b] \subseteq ledger[Hub])
       \/ coupon[b].at > coupon[Hub].at
    /\ pushing' = [pushing EXCEPT ![b] =
          [on |-> TRUE, orders |-> [o \in Purchase |-> IF o \in marked[b] THEN order[b][o] ELSE "none"],
           entries |-> IF full THEN ledger[b] ELSE {},
           coupon |-> coupon[b], base |-> ledger[Hub]]]
    /\ marked' = [marked EXCEPT ![b] = {}]
    /\ UNCHANGED <<form, order, ledger, points, coupon, clock, warned>>

Uploaded(p) == {o \in Purchase : p.orders[o] # "none"}

Counts(known, e) == e.reason = "referred" /\ known[e.order] # "cancelled"

\* Slip: only the awards of one host are compared.
DuplicatesOfHost(known, entries) ==
    LET awards == {e \in entries : Counts(known, e)}
    IN  {e \in awards : \E first \in awards : first.order < e.order /\ first.site = e.site}

\* _undo_duplicate_referrals: the earliest bonus stays.
Duplicates(known, entries) ==
    LET awards == {e \in entries : Counts(known, e)}
    IN  {e \in awards :
           /\ \E first \in awards : first.order < e.order
           /\ \A u \in entries : ~(u.reason = "referred_dup" /\ u.order = e.order)}

Undone(dups) == {[order |-> e.order, reason |-> "referred_dup", site |-> Hub, delta |-> -e.delta] : e \in dups}

UsingCoupon(known) == {o \in Purchase : form[o].coupon /\ Stands(known[o])}

\* The orders of an upload that used the coupon are looked at.
Involved(p) == {o \in Uploaded(p) : form[o].coupon}

\* Slip: only the orders of the upload are counted.
UsedTwiceInUpload(p, known) == Cardinality(UsingCoupon(known) \cap Involved(p)) > 1

UsedTwice(p, known) == Involved(p) # {} /\ Cardinality(UsingCoupon(known)) > 1

\* _reconcile_coupon_use: an order that is not cancelled keeps its coupon used.
Reclaims(p, known, c) ==
    Involved(p) # {} /\ UsingCoupon(known) # {} /\ ~c.used

PushWrite(b) ==
    LET p == pushing[b]
        known == [o \in Purchase |-> Higher(order[Hub][o], p.orders[o])]
        merged == ledger[Hub] \cup p.entries
        touched == ~(p.entries \subseteq ledger[Hub])
        undone == IF touched THEN Undone(Duplicates(known, merged)) ELSE {}
        newest == Newer(coupon[Hub], p.coupon)
    IN  /\ p.on
        /\ order' = [order EXCEPT ![Hub] = known]
        /\ ledger' = [ledger EXCEPT ![Hub] = merged \cup undone]
        /\ points' = [points EXCEPT ![Hub] =
              IF undone # {} THEN Sum(merged \cup undone)
              ELSE IF touched THEN Sum(p.base \cup p.entries) ELSE @]
        /\ coupon' = [coupon EXCEPT ![Hub] =
              IF Reclaims(p, known, newest) THEN [used |-> TRUE, at |-> clock + 1] ELSE newest]
        /\ clock' = IF Reclaims(p, known, newest) THEN clock + 1 ELSE clock
        /\ warned' = (warned \/ UsedTwice(p, known))
        /\ pushing' = [pushing EXCEPT ![b] = NoPush]
        /\ UNCHANGED <<form, marked>>

\* hub.pull and node._apply: a branch gets the orders it makes, and all of the ledger;
\* an order that is new to it gets its pickup number, and with that goes up again.
Known(b) ==
    [o \in Purchase |-> IF form[o].home = b THEN Higher(order[b][o], order[Hub][o]) ELSE order[b][o]]

Ahead(b) ==
    \/ ~(ledger[Hub] \subseteq ledger[b])
    \/ coupon[Hub].at > coupon[b].at
    \/ Known(b) # order[b]

Pull(b) ==
    /\ Ahead(b)
    /\ order' = [order EXCEPT ![b] = Known(b)]
    /\ marked' = [marked EXCEPT ![b] =
          @ \cup {o \in Purchase : order[b][o] = "none" /\ Stands(Known(b)[o])}]
    /\ ledger' = [ledger EXCEPT ![b] = @ \cup ledger[Hub]]
    /\ points' = [points EXCEPT ![b] =
          IF ledger[Hub] \subseteq ledger[b] THEN @ ELSE Sum(ledger[b] \cup ledger[Hub])]
    /\ coupon' = [coupon EXCEPT ![b] = Newer(@, coupon[Hub])]
    /\ UNCHANGED <<form, clock, pushing, warned>>

Next ==
    \/ \E s \in Site, o \in Purchase :
          \/ \E b \in Branch, f \in Form : (s \in {Hub, b}) /\ Place(s, b, o, f)
          \/ Cancel(s, o)
    \/ \E b \in Branch :
          \/ \E full \in BOOLEAN : PushRead(b, full)
          \/ PushWrite(b) \/ Pull(b)
          \/ \E o \in Purchase : Finish(b, o)

Spec == Init /\ [][Next]_vars

-----------------------------------------------------------------------------
\* Properties.

Quiet ==
    \A b \in Branch :
        /\ ~pushing[b].on /\ marked[b] = {}
        /\ ledger[b] = ledger[Hub] /\ coupon[b].at = coupon[Hub].at /\ ~Ahead(b)

\* The balance every host works with is the sum of the ledger it has
\* (points_service: user.points is the total of point_ledger).
BalanceIsLedger == \A s \in Site : points[s] = Sum(ledger[s])

\* Whatever is still under way, at the hub only one order that stands has earned the
\* new member's bonus (_undo_duplicate_referrals).
Earned(o) == Stands(order[Hub][o]) /\ Sum(Of(Hub, o, Bonus)) > 0

BonusOnce ==
    \A o, p \in Purchase : Earned(o) /\ Earned(p) => o = p

\* Then a coupon that an order uses cannot be used again (_reconcile_coupon_use) ...
CouponHeld == Quiet /\ UsingCoupon(order[Hub]) # {} => coupon[Hub].used

\* ... and the shop knows of a coupon that was used twice.
CouponTold == Quiet /\ Cardinality(UsingCoupon(order[Hub])) > 1 => warned

=============================================================================
