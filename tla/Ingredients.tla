----------------------------- MODULE Ingredients -----------------------------
(***************************************************************************)
(* One ingredient of a shop: used by orders, put back by voids and         *)
(* cancellations, bought, counted and thrown away, and the purchase order  *)
(* it comes with (inventory_service.py, purchasing_service.py).            *)
(*                                                                         *)
(* It is data of the shop's own SQLite database: a request has the         *)
(* database to itself from its first write on, and what it has read before *)
(* may be out of date by then.  Such a request is two steps.               *)
(***************************************************************************)
EXTENDS Integers, Sequences, SequencesExt, FiniteSetsExt

CONSTANTS
    Order,
    Worker,         \* requests that have read and not yet written
    Stock0,
    MaxLot,         \* bound: batches
    MaxRecipe,      \* bound: what a portion needs
    BlockShort,     \* setting block_when_short: no sale without the ingredient
    Restock         \* what the setting restock_on_cancel may be: it can change at any time

VARIABLES
    stock,      \* ingredient.stock
    moved,      \* the sum of the stock movements
    lots,       \* batches in the order received: what is left, and when it expires
    recipe,     \* what a portion needs
    order,      \* [Order -> its status, its portions, and whether its cancellation put back]
    net,        \* [Order -> what its movements have used and not put back]
    purchase,   \* the purchase order's status
    received,   \* how often its goods were put in
    doing,      \* what each worker has read
    overtaken   \* a stocktake or a disposal wrote over what others had done since it read

vars == <<stock, moved, lots, recipe, order, net, purchase, received, doing, overtaken>>

Never == 2
Idle == <<"idle">>
Counts == 0..(Stock0 + 1)

TypeOK ==
    /\ stock \in Int /\ moved \in Int /\ recipe \in 1..MaxRecipe
    /\ lots \in Seq([left : Nat, expires : 1..Never]) /\ Len(lots) <= MaxLot
    /\ order \in [Order -> [status : {"none", "active", "cancelled"}, portions : 0..2, restocked : BOOLEAN]]
    /\ net \in [Order -> Int]
    /\ purchase \in {"draft", "sent", "received", "cancelled"} /\ received \in Nat
    /\ overtaken \in BOOLEAN

Init ==
    /\ stock = Stock0 /\ moved = 0 /\ lots = <<>> /\ recipe = 1
    /\ order = [o \in Order |-> [status |-> "none", portions |-> 0, restocked |-> FALSE]]
    /\ net = [o \in Order |-> 0]
    /\ purchase = "draft" /\ received = 0
    /\ doing = [w \in Worker |-> Idle] /\ overtaken = FALSE

Become(w, what) == doing' = [doing EXCEPT ![w] = what]
Move(delta) == stock' = stock + delta /\ moved' = moved + delta

\* The batches when qty of them is used: those that expire first, then those received first.
Sooner(i, j) ==
    \/ lots[i].expires < lots[j].expires
    \/ lots[i].expires = lots[j].expires /\ i < j
Positive(x) == IF x > 0 THEN x ELSE 0
Drawn(qty) ==
    [i \in DOMAIN lots |->
        LET sooner == MapThenSumSet(LAMBDA j : lots[j].left, {j \in DOMAIN lots : Sooner(j, i)})
        IN  [lots[i] EXCEPT !.left = Positive(@ - Positive(qty - sooner))]]

DrawLots(qty) == lots' = Drawn(qty)
AddLot(qty, expires) ==
    /\ Len(lots) < MaxLot
    /\ lots' = Append(lots, [left |-> qty, expires |-> expires])

\* Checkout: what the recipe asks for is taken, if need be below zero.
Consume(o) ==
    /\ order[o].status = "none"
    /\ \E n \in 1..2 :
           LET qty == recipe * n IN
           /\ BlockShort => stock >= qty
           /\ Move(-qty) /\ DrawLots(qty)
           /\ order' = [order EXCEPT ![o] = [status |-> "active", portions |-> n, restocked |-> FALSE]]
           /\ net' = [net EXCEPT ![o] = qty]
    /\ UNCHANGED <<recipe, purchase, received, doing, overtaken>>

\* With restock_on_cancel off nothing is put back.
Restocked(qty, restock) == IF restock THEN qty ELSE 0

PutBack(o, qty) ==
    /\ IF qty > 0 THEN Move(qty) /\ AddLot(qty, Never) ELSE UNCHANGED <<stock, moved, lots>>
    /\ net' = [net EXCEPT ![o] = @ - qty]

\* Slip: whatever the order has used.
RestoredByRecipe(o) == recipe

\* What a void puts back: as much as the recipe says now, and no more than the order has
\* used and not got back.
Restored(o) == IF recipe < net[o] THEN recipe ELSE Positive(net[o])

StartVoid(w, o) ==
    /\ doing[w] = Idle /\ order[o].status = "active" /\ order[o].portions > 0
    /\ Become(w, <<"voiding", o>>)
    /\ UNCHANGED <<stock, moved, lots, recipe, order, net, purchase, received, overtaken>>

\* The portion is taken off the line only if it is still there.
Void(w, o) ==
    /\ doing[w] = <<"voiding", o>> /\ Become(w, Idle)
    /\ IF order[o].portions > 0
       THEN /\ \E restock \in Restock : PutBack(o, Restocked(Restored(o), restock))
            /\ order' = [order EXCEPT ![o].portions = @ - 1]
       ELSE UNCHANGED <<stock, moved, lots, order, net>>
    /\ UNCHANGED <<recipe, purchase, received, overtaken>>

\* A cancellation puts back what is left of the order's movements.
Cancel(o) ==
    /\ order[o].status = "active"
    /\ \E restock \in Restock :
           /\ order' = [order EXCEPT ![o].status = "cancelled", ![o].restocked = restock]
           /\ PutBack(o, Restocked(Positive(net[o]), restock))
    /\ UNCHANGED <<recipe, purchase, received, doing, overtaken>>

ChangeRecipe ==
    /\ recipe' \in (1..MaxRecipe) \ {recipe}
    /\ UNCHANGED <<stock, moved, lots, order, net, purchase, received, doing, overtaken>>

\* Stock bought and put in by hand, or thrown away.
Buy ==
    /\ Move(1) /\ \E expires \in 1..Never : AddLot(1, expires)
    /\ UNCHANGED <<recipe, order, net, purchase, received, doing, overtaken>>

Waste ==
    /\ stock > 0 /\ Move(-1) /\ DrawLots(1)
    /\ UNCHANGED <<recipe, order, net, purchase, received, doing, overtaken>>

\* Stocktaking: the difference to what was read is written down, and the count over whatever
\* the stock has become.
StartCount(w) ==
    /\ doing[w] = Idle /\ Become(w, <<"counting", stock>>)
    /\ UNCHANGED <<stock, moved, lots, recipe, order, net, purchase, received, overtaken>>

Stocktake(w) ==
    /\ doing[w][1] = "counting" /\ Become(w, Idle)
    /\ LET read == doing[w][2] IN
       \E counted \in Counts :
           /\ counted # read
           /\ stock' = counted /\ moved' = moved + counted - read
           /\ IF counted > read THEN AddLot(counted - read, Never) ELSE DrawLots(read - counted)
           /\ overtaken' = (overtaken \/ stock # read)
    /\ UNCHANGED <<recipe, order, net, purchase, received>>

\* A batch is thrown away whole.
StartDiscard(w, i) ==
    /\ doing[w] = Idle /\ lots[i].left > 0
    /\ Become(w, <<"discarding", i, lots[i].left>>)
    /\ UNCHANGED <<stock, moved, lots, recipe, order, net, purchase, received, overtaken>>

Discard(w, i) ==
    /\ Len(doing[w]) = 3 /\ doing[w][1] = "discarding" /\ doing[w][2] = i /\ Become(w, Idle)
    /\ Move(-doing[w][3])
    /\ lots' = [lots EXCEPT ![i].left = 0]
    /\ overtaken' = (overtaken \/ lots[i].left # doing[w][3])
    /\ UNCHANGED <<recipe, order, net, purchase, received>>

\* A purchase order is sent, received or cancelled: its status is read, then changed where
\* it still is one of these.
Open == {"draft", "sent"}
ClaimPurchase(allowed) == purchase \in allowed

StartPurchase(w) ==
    /\ doing[w] = Idle /\ purchase \in Open /\ Become(w, <<"purchase">>)
    /\ UNCHANGED <<stock, moved, lots, recipe, order, net, purchase, received, overtaken>>

FinishPurchase(w) ==
    /\ doing[w] = <<"purchase">> /\ Become(w, Idle)
    /\ \/ /\ ClaimPurchase(Open) /\ purchase' = "received" /\ received' = received + 1
          /\ Move(2) /\ \E expires \in 1..Never : AddLot(2, expires)
       \/ /\ ClaimPurchase(Open) /\ purchase' = "cancelled"
          /\ UNCHANGED <<stock, moved, lots, received>>
       \/ /\ ClaimPurchase({"draft"}) /\ purchase' = "sent"
          /\ UNCHANGED <<stock, moved, lots, received>>
       \/ /\ ~ClaimPurchase(Open)
          /\ UNCHANGED <<stock, moved, lots, purchase, received>>
    /\ UNCHANGED <<recipe, order, net, overtaken>>

\* Bound: what happens after such a stocktake is not looked at.
Next ==
    /\ ~overtaken
    /\ \/ \E o \in Order : Consume(o) \/ Cancel(o) \/ \E w \in Worker : StartVoid(w, o) \/ Void(w, o)
       \/ \E w \in Worker :
              \/ StartCount(w) \/ Stocktake(w) \/ StartPurchase(w) \/ FinishPurchase(w)
              \/ \E i \in DOMAIN lots : StartDiscard(w, i) \/ Discard(w, i)
       \/ ChangeRecipe \/ Buy \/ Waste

Spec == Init /\ [][Next]_vars

-----------------------------------------------------------------------------

\* No more is put back for an order than it has used, and all of it once it is cancelled with
\* restock_on_cancel on, whatever the recipe has become, however voids and the cancellation
\* follow each other and whatever the setting was at the voids (inventory_service.restore,
\* restore_items).
RestoredExactly ==
    \A o \in Order : net[o] >= 0 /\ (order[o].restocked => net[o] = 0)

\* The goods of a purchase order are put in once when it is received, and only then
\* (purchasing_service.receive).
ReceivedOnce == received = IF purchase = "received" THEN 1 ELSE 0

\* The stock is what the movements say, as long as no stocktake wrote over others' work.
StockIsMovements == ~overtaken => stock = Stock0 + moved

\* The stock is always what the movements say.  It does not hold: a sale between a
\* stocktake's reading and its writing is lost (inventory_service.stocktake).
StockAlwaysMovements == stock = Stock0 + moved

=============================================================================
