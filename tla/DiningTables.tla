---------------------------- MODULE DiningTables ----------------------------
(***************************************************************************)
(* The tables of a shop, the telephones that scanned their codes and the   *)
(* orders placed at them (table_service.py, routes/tables.py, the table's  *)
(* part of routes/customer.py and order_checkout.py).                      *)
(*                                                                         *)
(* A telephone keeps the table's number and the token of its code; a       *)
(* request looks at them first and commits later.  The amounts of a bill   *)
(* are those of Shop and left out here.                                    *)
(***************************************************************************)
EXTENDS Naturals, FiniteSets

CONSTANTS
    Table, NoTable,
    Order,
    Phone,
    Request,        \* requests being served at the same time
    MaxToken        \* codes a table may have one after the other

VARIABLES
    table,      \* the token of each table's code, 0 when there is no such table
    active,     \* the tables that are in use
    session,    \* what each telephone is bound to
    order,      \* the orders' rows: their table and whether they are paid or cancelled
    scanned,    \* the telephones that ever scanned a code
    fromTable,  \* the orders last submitted by such a telephone
    request     \* what each request is in the middle of

vars == <<table, active, session, order, scanned, fromTable, request>>

Unbound == [table |-> NoTable, token |-> 0]
Expired == [table |-> NoTable, token |-> MaxToken + 1]

PaymentStatus == {"none", "unpaid", "at_once", "settled", "cancelled"}
NotPlaced == [pay |-> "none", table |-> NoTable]
Step == {"idle", "submit", "move", "delete", "settle"}
Idle == [step |-> "idle", table |-> NoTable, to |-> NoTable, clear |-> FALSE, orders |-> {}]

TypeOK ==
    /\ table \in [Table -> 0..MaxToken] /\ active \subseteq Table
    /\ session \in [Phone -> [table : Table \cup {NoTable}, token : 0..MaxToken + 1]]
    /\ order \in [Order -> [pay : PaymentStatus, table : Table \cup {NoTable}]]
    /\ scanned \subseteq Phone /\ fromTable \subseteq Order
    /\ request \in [Request -> [step : Step, table : Table \cup {NoTable},
           to : Table \cup {NoTable}, clear : BOOLEAN, orders : SUBSET Order]]

Init ==
    /\ table = [t \in Table |-> 1] /\ active = Table
    /\ session = [p \in Phone |-> Unbound]
    /\ order = [o \in Order |-> NotPlaced]
    /\ scanned = {} /\ fromTable = {}
    /\ request = [r \in Request |-> Idle]

Exists(t) == t \in Table /\ table[t] > 0
Unpaid(t) == {o \in Order : order[o].pay = "unpaid" /\ order[o].table = t}

Begin(r, doing) == request[r] = Idle /\ request' = [request EXCEPT ![r] = doing]
Done(r) == request' = [request EXCEPT ![r] = Idle]

-----------------------------------------------------------------------------

Scan(p, t) ==
    /\ Exists(t) /\ t \in active
    /\ session' = [session EXCEPT ![p] = [table |-> t, token |-> table[t]]]
    /\ scanned' = scanned \cup {p}
    /\ UNCHANGED <<table, active, order, fromTable, request>>

\* The table a telephone is at, if its binding is still good.
Current(p) ==
    LET s == session[p] IN
    IF Exists(s.table) /\ s.table \in active /\ s.token = table[s.table] THEN s.table ELSE NoTable

\* Slip: a binding that is no longer good is forgotten.
Forgotten(p) == Unbound

\* A binding that is no longer good is marked, so that the telephone has to scan again.
AfterExpiry(p) == Expired

\* An order is submitted: at the table, refused because the binding is no longer good, or
\* from a telephone that never scanned, which pays at once.  Hours may pass: the binding
\* may have expired by itself.
Submit(r, p, o) ==
    /\ order[o] = NotPlaced /\ \A q \in Request : o \notin request[q].orders
    /\ \/ /\ Current(p) # NoTable
          /\ Begin(r, [Idle EXCEPT !.step = "submit", !.table = Current(p), !.orders = {o}])
          /\ fromTable' = fromTable \cup {o}
          /\ UNCHANGED session
       \/ /\ session[p] # Unbound
          /\ session' = [session EXCEPT ![p] = AfterExpiry(p)]
          /\ UNCHANGED <<fromTable, request>>
       \/ /\ session[p] = Unbound
          /\ Begin(r, [Idle EXCEPT !.step = "submit", !.orders = {o}])
          /\ fromTable' = IF p \in scanned THEN fromTable \cup {o} ELSE fromTable \ {o}
          /\ UNCHANGED session
    /\ UNCHANGED <<table, active, order, scanned>>

\* The order's row refers to the table's: without it the checkout fails.
CommitSubmit(r) ==
    LET doing == request[r] IN
    /\ doing.step = "submit"
    /\ order' = [o \in Order |->
           IF o \in doing.orders /\ (doing.table = NoTable \/ Exists(doing.table))
           THEN [pay |-> IF doing.table = NoTable THEN "at_once" ELSE "unpaid",
                 table |-> doing.table]
           ELSE order[o]]
    /\ Done(r)
    /\ UNCHANGED <<table, active, session, scanned, fromTable>>

\* Unpaid orders are moved to another table; one paid meanwhile stays.
StartMove(r, t, u) ==
    /\ Exists(t) /\ Exists(u) /\ t # u /\ Unpaid(t) # {}
    /\ \E some \in SUBSET Unpaid(t) :
           some # {} /\ Begin(r, [Idle EXCEPT !.step = "move", !.to = u, !.orders = some])
    /\ UNCHANGED <<table, active, session, order, scanned, fromTable>>

CommitMove(r) ==
    LET doing == request[r] IN
    /\ doing.step = "move"
    /\ order' = [o \in Order |->
           IF o \in doing.orders /\ Exists(doing.to) /\ order[o].pay = "unpaid"
           THEN [order[o] EXCEPT !.table = doing.to] ELSE order[o]]
    /\ Done(r)
    /\ UNCHANGED <<table, active, session, scanned, fromTable>>

\* A table's bill is settled: all the orders of it, or none if one is paid or cancelled.
StartSettle(r, t) ==
    /\ Exists(t) /\ Unpaid(t) # {}
    /\ Begin(r, [Idle EXCEPT !.step = "settle", !.table = t, !.orders = Unpaid(t)])
    /\ UNCHANGED <<table, active, session, order, scanned, fromTable>>

CommitSettle(r) ==
    LET doing == request[r] IN
    /\ doing.step = "settle"
    /\ order' = IF \A o \in doing.orders : order[o].pay = "unpaid"
                THEN [o \in Order |-> IF o \in doing.orders
                                      THEN [order[o] EXCEPT !.pay = "settled"] ELSE order[o]]
                ELSE order
    /\ Done(r)
    /\ UNCHANGED <<table, active, session, scanned, fromTable>>

CancelOrder(o) ==
    /\ order[o].pay \in {"unpaid", "at_once", "settled"}
    /\ order' = [order EXCEPT ![o].pay = "cancelled"]
    /\ UNCHANGED <<table, active, session, scanned, fromTable, request>>

\* Slip: whether the table owes anything is looked up before its row is locked.
ClearBefore(t, before) == before

\* Whether nobody owes anything at the table is looked up under the lock of its row.
Clear(t, before) == Unpaid(t) = {}

StartDelete(r, t) ==
    /\ Exists(t)
    /\ Begin(r, [Idle EXCEPT !.step = "delete", !.table = t, !.clear = (Unpaid(t) = {})])
    /\ UNCHANGED <<table, active, session, order, scanned, fromTable>>

\* The database takes the table out of the rows that still refer to it.
CommitDelete(r) ==
    LET t == request[r].table IN
    /\ request[r].step = "delete"
    /\ IF Clear(t, request[r].clear)
       THEN /\ table' = [table EXCEPT ![t] = 0]
            /\ order' = [o \in Order |->
                   IF order[o].table = t THEN [order[o] EXCEPT !.table = NoTable] ELSE order[o]]
       ELSE UNCHANGED <<table, order>>
    /\ Done(r)
    /\ UNCHANGED <<active, session, scanned, fromTable>>

\* A new code makes the bindings of the old one void.
RotateToken(t) ==
    /\ Exists(t) /\ table[t] < MaxToken
    /\ table' = [table EXCEPT ![t] = @ + 1]
    /\ UNCHANGED <<active, session, order, scanned, fromTable, request>>

Toggle(t) ==
    /\ Exists(t)
    /\ active' = IF t \in active THEN active \ {t} ELSE active \cup {t}
    /\ UNCHANGED <<table, session, order, scanned, fromTable, request>>

Next ==
    \/ \E p \in Phone, t \in Table : Scan(p, t)
    \/ \E r \in Request :
           \/ \E p \in Phone, o \in Order : Submit(r, p, o)
           \/ \E t, u \in Table : StartMove(r, t, u)
           \/ \E t \in Table : StartSettle(r, t) \/ StartDelete(r, t)
           \/ CommitSubmit(r) \/ CommitMove(r) \/ CommitSettle(r) \/ CommitDelete(r)
    \/ \E o \in Order : CancelOrder(o)
    \/ \E t \in Table : RotateToken(t) \/ Toggle(t)

Spec == Init /\ [][Next]_vars

-----------------------------------------------------------------------------

\* An order that is still to be paid at a table has one: no table is deleted under it, however
\* the deletion meets orders being placed or moved (table_service.delete_table).
NoOrphan == \A o \in Order : order[o].pay = "unpaid" => Exists(order[o].table)

\* A telephone that scanned a code places no order without a table, which nobody would ask
\* to be paid (table_service.current_table).
ScannedPaysAtTable == \A o \in fromTable : order[o].pay # "at_once"

=============================================================================
