----------------------------- MODULE MenuStock -----------------------------
(***************************************************************************)
(* A dish's stock and its "sold out" while staff edit the dish             *)
(* (menu_service.apply_menu_form), an integrator or an imported file sets  *)
(* them (api_v1.menu_availability, upsert_menu_items_from_rows) and orders *)
(* take from it (order_stock.py).                                          *)
(*                                                                         *)
(* A request reads the row and commits later; it writes a column only if   *)
(* it differs from what was read, the stock of the form as a difference,   *)
(* for which the row is locked and the stock, not the flag, read again.    *)
(***************************************************************************)
EXTENDS Integers

CONSTANTS
    Request,        \* forms and calls being worked on at the same time
    Stock0,         \* the dish's stock at first
    MaxStock        \* the largest stock that is considered

VARIABLES
    stock,      \* menu_item.stock
    soldOut,    \* menu_item.is_sold_out
    edit,       \* what each request was opened with, has read and is to write
    counted,    \* the stock according to what was sold, returned, counted and changed by hand
    said,       \* what staff or an integrator last said of the dish: "sold", "open" or "nothing"
    overtaken   \* whether the last save was decided on a row that has changed since

vars == <<stock, soldOut, edit, counted, said, overtaken>>

Keep == -1
Idle == [at |-> "idle"]
Row == [stock |-> stock, soldOut |-> soldOut]
Rows == [stock : 0..MaxStock, soldOut : BOOLEAN]

TypeOK ==
    /\ Row \in Rows /\ counted \in 0..MaxStock
    /\ edit \in [Request ->
           {Idle} \cup [at : {"open"}, shown : 0..MaxStock]
           \cup [at : {"form"}, read : Rows, change : -MaxStock..MaxStock, tick : BOOLEAN]
           \cup [at : {"set"}, read : Rows, stock : {Keep} \cup 0..MaxStock,
                 flag : {"keep", "sold", "open"}]]
    /\ said \in {"sold", "open", "nothing"} /\ overtaken \in BOOLEAN

Init ==
    /\ stock = Stock0 /\ soldOut = (Stock0 = 0) /\ counted = Stock0
    /\ edit = [r \in Request |-> Idle]
    /\ said = "nothing" /\ overtaken = FALSE

AtLeastZero(n) == IF n < 0 THEN 0 ELSE n
Finished(r) == edit' = [edit EXCEPT ![r] = Idle]

\* The flag is written where it differs from what the request has read.
WriteFlag(flag, read) == soldOut' = IF flag # read.soldOut THEN flag ELSE soldOut

-----------------------------------------------------------------------------

\* The form is opened; it carries the stock it shows.
OpenForm(r) ==
    /\ edit[r] = Idle
    /\ edit' = [edit EXCEPT ![r] = [at |-> "open", shown |-> stock]]
    /\ UNCHANGED <<stock, soldOut, counted, said, overtaken>>

\* It is sent; the server reads the row.
SendForm(r, n, tick) ==
    /\ edit[r].at = "open"
    /\ edit' = [edit EXCEPT ![r] =
           [at |-> "form", read |-> Row, change |-> n - edit[r].shown, tick |-> tick]]
    /\ UNCHANGED <<stock, soldOut, counted, said, overtaken>>

\* Slip: the stock that was read, not the row's, is changed.
ChangeWhatWasRead(e) == AtLeastZero(e.read.stock + e.change)

\* The stock after the difference is applied; without one it is what was read.
NewStock(e) == AtLeastZero((IF e.change = 0 THEN e.read.stock ELSE stock) + e.change)

SaveForm(r) ==
    LET e == edit[r]
        flag == e.tick \/ NewStock(e) = 0
    IN  /\ e.at = "form"
        /\ NewStock(e) <= MaxStock
        /\ stock' = IF e.change = 0 THEN stock ELSE NewStock(e)
        /\ counted' = AtLeastZero(counted + e.change)
        /\ WriteFlag(flag, e.read)
        /\ said' = IF e.tick THEN "sold" ELSE "nothing"
        /\ overtaken' = (IF e.change = 0 THEN Row # e.read ELSE soldOut # e.read.soldOut)
        /\ Finished(r)

\* A price or a point value that does not fit, a picture that is broken: nothing is saved.
Refuse(r) ==
    /\ edit[r] # Idle /\ Finished(r)
    /\ UNCHANGED <<stock, soldOut, counted, said, overtaken>>

\* An integrator sends a stock, a flag or both; an imported file a stock, and the flag with it.
ReadToSet(r, n, flag) ==
    /\ edit[r] = Idle /\ (n # Keep \/ flag # "keep")
    /\ edit' = [edit EXCEPT ![r] = [at |-> "set", read |-> Row, stock |-> n, flag |-> flag]]
    /\ UNCHANGED <<stock, soldOut, counted, said, overtaken>>

Set(r) ==
    LET e == edit[r]
        counts == e.stock # Keep /\ e.stock # e.read.stock
    IN  /\ e.at = "set"
        /\ stock' = IF counts THEN e.stock ELSE stock
        /\ counted' = IF counts THEN e.stock ELSE counted
        /\ WriteFlag(IF e.flag = "keep" THEN e.read.soldOut ELSE e.flag = "sold", e.read)
        /\ said' = IF soldOut' THEN "sold" ELSE "open"
        /\ overtaken' = (Row # e.read)
        /\ Finished(r)

\* An order takes what is there; the last one marks the dish sold out.
Sell(n) ==
    /\ stock >= n /\ ~soldOut
    /\ stock' = stock - n /\ counted' = counted - n
    /\ soldOut' = (stock = n)
    /\ UNCHANGED <<edit, said, overtaken>>

\* A branch takes the order the hub accepted, down to nothing.
SellUnchecked(n) ==
    /\ stock' = AtLeastZero(stock - n) /\ counted' = AtLeastZero(counted - n)
    /\ soldOut' = (soldOut \/ stock <= n)
    /\ UNCHANGED <<edit, said, overtaken>>

\* A cancelled order's are put back; a dish that had run out can be ordered again.
PutBack(n) ==
    /\ stock + n <= MaxStock
    /\ stock' = stock + n /\ counted' = counted + n
    /\ soldOut' = (soldOut /\ stock > 0)
    /\ UNCHANGED <<edit, said, overtaken>>

Next ==
    \/ \E r \in Request :
           \/ OpenForm(r) \/ SaveForm(r) \/ Refuse(r) \/ Set(r)
           \/ \E n \in 0..MaxStock, tick \in BOOLEAN : SendForm(r, n, tick)
           \/ \E n \in {Keep} \cup 0..MaxStock, flag \in {"keep", "sold", "open"} :
                  ReadToSet(r, n, flag)
    \/ \E n \in 1..MaxStock : Sell(n) \/ SellUnchecked(n) \/ PutBack(n)

Spec == Init /\ [][Next]_vars

-----------------------------------------------------------------------------

\* Whatever is sold and returned while a form is open, saving it changes the stock by what
\* staff changed (menu_service.py:43, test_member_accounts.py:147).
StockCounted == stock = counted

\* A dish is sold out when there is none or somebody said so, and only somebody who said it
\* is not lets it be offered with none; unless the last save read the row before another one
\* changed it.
FlagHasReason ==
    ~overtaken =>
        /\ soldOut => stock = 0 \/ said = "sold"
        /\ stock = 0 => soldOut \/ said = "open"

\* Not checked: the same with every save; a dish that sells out between the form's reading the
\* row and its adding more stock stays sold out (menu_service.py:70, 90).
RestockedIsOffered == soldOut => stock = 0 \/ said = "sold"

=============================================================================
