------------------------------ MODULE Archive ------------------------------
(***************************************************************************)
(* Orders that are over are copied to a file and deleted from the          *)
(* database, batch by batch (archive_service.run), and what their member   *)
(* spent is kept (wallet_service.recompute_spent).                         *)
(*                                                                         *)
(* The file commits before the database does; a process may die between    *)
(* the two.  The tenant's row is locked for a batch (PostgreSQL; with      *)
(* SQLite one process archives).  Assumed: nobody refunds an order of a    *)
(* batch, months old, in the moment it is archived (Refund).               *)
(***************************************************************************)
EXTENDS Naturals, FiniteSets, FiniteSetsExt

CONSTANTS
    Order,          \* the orders of one member
    Id,             \* the database's numbers for them
    Process,        \* processes that archive
    Batch,          \* orders archived in one transaction
    Value,          \* what an order is worth at first
    MaxDeath        \* processes that die

VARIABLES
    id,         \* the number of each order in the database, None when it is not there
    over,       \* the orders that are over and paid
    value,      \* what each order counts for its member, refunds taken off
    made,       \* the orders that were ever made
    file,       \* the file: its rows by their key
    spent,      \* the member's archived_spent
    archiving,  \* what each process is doing: the batch, and what it read of it
    deaths

vars == <<id, over, value, made, file, spent, archiving, deaths>>

None == 0
Idle == [at |-> "idle", batch |-> {}, worth |-> 0]
Row == [order : Order, value : 0..Value]

TypeOK ==
    /\ id \in [Order -> Id \cup {None}] /\ over \subseteq Order /\ made \subseteq Order
    /\ value \in [Order -> 0..Value]
    /\ DOMAIN file \subseteq Order \cup Id /\ \A k \in DOMAIN file : file[k] \in Row
    /\ spent \in Nat /\ deaths \in 0..MaxDeath
    /\ archiving \in [Process -> [at : {"idle", "read", "copied"}, batch : SUBSET Order,
                                  worth : Nat]]

Init ==
    /\ id = [o \in Order |-> None] /\ over = {} /\ made = {}
    /\ value = [o \in Order |-> 0]
    /\ file = [k \in {} |-> 0]
    /\ spent = 0 /\ deaths = 0
    /\ archiving = [p \in Process |-> Idle]

InDatabase == {o \in Order : id[o] # None}
Worth(orders) == MapThenSumSet(LAMBDA o : value[o], orders)
InBatch(o) == \E p \in Process : o \in archiving[p].batch

-----------------------------------------------------------------------------

\* A number that was deleted may be given again.
MakeOrder(o, n) ==
    /\ o \notin made /\ \A q \in InDatabase : id[q] # n
    /\ made' = made \cup {o}
    /\ id' = [id EXCEPT ![o] = n] /\ value' = [value EXCEPT ![o] = Value]
    /\ UNCHANGED <<over, file, spent, archiving, deaths>>

Finish(o) ==
    /\ o \in InDatabase \ over
    /\ over' = over \cup {o}
    /\ UNCHANGED <<id, value, made, file, spent, archiving, deaths>>

\* An old order is still given money back for, or cancelled.
Refund(o, left) ==
    /\ o \in InDatabase /\ ~InBatch(o) /\ left < value[o]
    /\ value' = [value EXCEPT ![o] = left]
    /\ UNCHANGED <<id, over, made, file, spent, archiving, deaths>>

\* A batch is read under the tenant's lock: its rows, and what they are worth to the member.
ReadBatch(p) ==
    /\ \A q \in Process : archiving[q] = Idle
    /\ \E batch \in SUBSET (over \cap InDatabase) :
           /\ batch # {} /\ Cardinality(batch) <= Batch
           /\ archiving' = [archiving EXCEPT ![p] =
                  [at |-> "read", batch |-> batch, worth |-> Worth(batch)]]
    /\ UNCHANGED <<id, over, value, made, file, spent, deaths>>

\* Slip: a row is filed under its number.
NumberOf(o) == id[o]

\* A row is filed under its uuid.
Key(o) == o

\* Slip: a row the file has already is left as it is.
FiledFirst(k, o) == IF k \in DOMAIN file THEN file[k] ELSE [order |-> o, value |-> value[o]]

\* A row the file has already is replaced.
Filed(k, o) == [order |-> o, value |-> value[o]]

CopyBatch(p) ==
    LET rows == {Key(o) : o \in archiving[p].batch}
    IN  /\ archiving[p].at = "read"
        /\ file' = [k \in DOMAIN file \cup rows |->
               IF k \in rows THEN Filed(k, CHOOSE o \in archiving[p].batch : Key(o) = k)
               ELSE file[k]]
        /\ archiving' = [archiving EXCEPT ![p].at = "copied"]
        /\ UNCHANGED <<id, over, value, made, spent, deaths>>

DeleteBatch(p) ==
    /\ archiving[p].at = "copied"
    /\ id' = [o \in Order |-> IF o \in archiving[p].batch THEN None ELSE id[o]]
    /\ spent' = spent + archiving[p].worth
    /\ archiving' = [archiving EXCEPT ![p] = Idle]
    /\ UNCHANGED <<over, value, made, file, deaths>>

\* The lock and what was not committed are gone; the file keeps what it has.
Die(p) ==
    /\ archiving[p] # Idle /\ deaths < MaxDeath
    /\ archiving' = [archiving EXCEPT ![p] = Idle] /\ deaths' = deaths + 1
    /\ UNCHANGED <<id, over, value, made, file, spent>>

Next ==
    \/ \E o \in Order :
           \/ \E n \in Id : MakeOrder(o, n)
           \/ Finish(o)
           \/ \E left \in 0..Value : Refund(o, left)
    \/ \E p \in Process : ReadBatch(p) \/ CopyBatch(p) \/ DeleteBatch(p) \/ Die(p)

Spec == Init /\ [][Next]_vars

-----------------------------------------------------------------------------

Archived == made \ InDatabase

\* An order that is no longer in the database is in the file, as it was last, although the
\* file was written before, by a process that died, and its number is used again.
NothingLost == \A o \in Archived : o \in DOMAIN file /\ file[o] = [order |-> o, value |-> value[o]]

\* What a member spent counts every order once, in the database or as archived_spent, so no
\* tier changes when orders are archived.
SpentKept == spent = Worth(Archived)

=============================================================================
