------------------------------- MODULE Stamps -------------------------------
(***************************************************************************)
(* A member's stamp card on one database: a checkout adds the order's      *)
(* stamps to the ledger and turns a full card into a reward, a             *)
(* cancellation takes them back (loyalty_service.earn_stamps,              *)
(* on_order_cancelled).  The member's row is locked by both, after other   *)
(* rows were read.                                                         *)
(***************************************************************************)
EXTENDS Integers, Sequences, FiniteSetsExt

CONSTANTS
    Order,          \* the member's orders
    CardSize,       \* stamps of a full card
    MaxStamps       \* stamps of one order

VARIABLES
    order,      \* what became of each order
    earned,     \* the stamps each order earned, less those taken back
    ledger,     \* the sum of the ledger
    seen,       \* that sum when an order's checkout began
    cards       \* rewards given for full cards

vars == <<order, earned, ledger, seen, cards>>

TypeOK ==
    /\ order \in [Order -> {"none", "begun", "placed", "cancelled"}]
    /\ earned \in [Order -> 0..MaxStamps]
    /\ ledger \in Int /\ seen \in [Order -> Int] /\ cards \in Nat

Init ==
    /\ order = [o \in Order |-> "none"] /\ earned = [o \in Order |-> 0]
    /\ ledger = 0 /\ seen = [o \in Order |-> 0] /\ cards = 0

StampCount(sum) == IF sum > 0 THEN sum ELSE 0

\* A checkout begins; others may commit until it has the member's row.
Begin(o) ==
    /\ order[o] = "none"
    /\ order' = [order EXCEPT ![o] = "begun"] /\ seen' = [seen EXCEPT ![o] = ledger]
    /\ UNCHANGED <<earned, ledger, cards>>

\* Slip: the ledger is added up before the member's row is locked.
SumBefore(o) == seen[o]

\* The ledger is added up when the member's row is locked.
Sum(o) == ledger

\* The order's stamps, and as many full cards as there are now.
EarnStamps(o, n) ==
    LET total == StampCount(Sum(o) + n)
        completed == total \div CardSize
    IN  /\ order[o] = "begun"
        /\ order' = [order EXCEPT ![o] = "placed"]
        /\ earned' = [earned EXCEPT ![o] = n]
        /\ ledger' = ledger + n - completed * CardSize
        /\ cards' = cards + completed
        /\ UNCHANGED seen

\* What the order earned is taken back as far as it is still there; rewards stay.
Cancel(o) ==
    LET back == Min({earned[o], StampCount(ledger)}) IN
    /\ order[o] = "placed"
    /\ order' = [order EXCEPT ![o] = "cancelled"]
    /\ earned' = [earned EXCEPT ![o] = @ - back]
    /\ ledger' = ledger - back
    /\ UNCHANGED <<seen, cards>>

Next == \E o \in Order : Begin(o) \/ Cancel(o) \/ \E n \in 0..MaxStamps : EarnStamps(o, n)

Spec == Init /\ [][Next]_vars

-----------------------------------------------------------------------------

\* A card is filled once: whatever was earned and not taken back is on the card or was given
\* as a reward, and the card is never full or below nothing after a commit.
CardsExact ==
    /\ ledger \in 0..CardSize - 1
    /\ cards * CardSize + ledger = MapThenSumSet(LAMBDA o : earned[o], Order)

=============================================================================
