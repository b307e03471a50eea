---------------------- MODULE MCServicesAdvances_proofs ----------------------
(***************************************************************************)
(* What is proved of what customers have paid for or collected in advance: *)
(* gift cards, passes, deposits, stamp cards, vouchers and points          *)
(* (AdvancesKept).  The longest part is the expiry of points: that a       *)
(* replay of the ledger, lot by lot, arrives at a sum over its rows.       *)
(***************************************************************************)
EXTENDS MCServicesMoney_proofs

-----------------------------------------------------------------------------
\* Gift cards and passes (Prepaid).

PrepaidCard == [status : {"active", "void"}, balance : Int]
PrepaidPass == [status : {"active", "void"}, remaining : Int, ledger : Int]
CounterRow ==
    [doing : {"idle", "charging", "voiding", "redeeming"}, amount : 0..MaxUse, saw : Int]

\* Of a pass that is not void each cup remains or is drunk.
AdvanceInv ==
    /\ x1 \in PrepaidCard /\ x2 \in PrepaidPass /\ x3 \in Nat /\ x4 \in Nat
    /\ x5 \in [Three -> CounterRow]
    /\ x1.balance >= 0 /\ x2.remaining >= 0 /\ x2.remaining = x2.ledger
    /\ x2.status = "active" => x2.remaining + x4 = Cups
    /\ x2.status = "void" => x2.remaining = 0 /\ x4 = 0

LEMMA AdvanceNumbers == Issued \in Nat /\ Cups \in Nat /\ MaxUse \in Nat /\ 0 \in 0..MaxUse
  BY AdvanceAssumption

LEMMA AdvanceInit == Advance!Init => AdvanceInv
<1> SUFFICES ASSUME Advance!Init PROVE AdvanceInv
  OBVIOUS
<1>1. /\ x1 = [status |-> "active", balance |-> Issued]
      /\ x2 = [status |-> "active", remaining |-> Cups, ledger |-> Cups]
      /\ x3 = 0 /\ x4 = 0 /\ x5 = [c \in Three |-> Advance!Idle]
  BY DEF Advance!Init
<1>2. Advance!Idle \in CounterRow
  BY AdvanceNumbers DEF Advance!Idle, CounterRow
<1>3. x1 \in PrepaidCard /\ x2 \in PrepaidPass /\ x5 \in [Three -> CounterRow]
  BY <1>1, <1>2, AdvanceNumbers DEF PrepaidCard, PrepaidPass
<1>4. x3 \in Nat /\ x4 \in Nat /\ x1.balance >= 0 /\ x2.remaining >= 0 /\ x2.remaining = x2.ledger
  BY <1>1, AdvanceNumbers
<1>5. x2.status = "active" /\ x2.remaining + x4 = Cups
  BY <1>1, AdvanceNumbers
<1> QED BY <1>3, <1>4, <1>5 DEF AdvanceInv

LEMMA AdvanceNext == AdvanceInv /\ Advance!Next => AdvanceInv'
<1> SUFFICES ASSUME AdvanceInv, Advance!Next PROVE AdvanceInv'
  OBVIOUS
<1>1. /\ x1 \in PrepaidCard /\ x2 \in PrepaidPass /\ x3 \in Nat /\ x4 \in Nat
      /\ x5 \in [Three -> CounterRow]
      /\ x1.balance >= 0 /\ x2.remaining >= 0 /\ x2.remaining = x2.ledger
      /\ x2.status = "active" => x2.remaining + x4 = Cups
      /\ x2.status = "void" => x2.remaining = 0 /\ x4 = 0
  BY DEF AdvanceInv
<1>2. /\ x1.balance \in Int /\ x1.status \in {"active", "void"}
      /\ x2.remaining \in Int /\ x2.ledger \in Int /\ x2.status \in {"active", "void"}
  BY <1>1 DEF PrepaidCard, PrepaidPass
<1>3. Advance!Idle \in CounterRow
  BY AdvanceNumbers DEF Advance!Idle, CounterRow
<1>4. ASSUME NEW c \in Three, NEW n \in 1..MaxUse, NEW what \in {"charging", "redeeming"},
             Advance!Begin(c, what, n, IF what = "charging" THEN x1.balance ELSE 0)
      PROVE  AdvanceInv'
  <2>1. x1' = x1 /\ x2' = x2 /\ x3' = x3 /\ x4' = x4
    BY <1>4 DEF Advance!Begin
  <2>2. x5' \in [Three -> CounterRow]
    BY <1>1, <1>2, <1>4, AdvanceNumbers DEF Advance!Begin, CounterRow
  <2> QED BY <1>1, <2>1, <2>2 DEF AdvanceInv
<1>5. ASSUME NEW c \in Three, Advance!StartVoid(c) PROVE AdvanceInv'
  <2>1. x1' = x1 /\ x2' = x2 /\ x3' = x3 /\ x4' = x4
    BY <1>5 DEF Advance!StartVoid, Advance!Begin
  <2>2. x5' \in [Three -> CounterRow]
    BY <1>1, <1>2, <1>5, AdvanceNumbers DEF Advance!StartVoid, Advance!Begin, CounterRow
  <2> QED BY <1>1, <2>1, <2>2 DEF AdvanceInv
<1>6. ASSUME NEW c \in Three, Advance!Charge(c) PROVE AdvanceInv'
  <2>1. PICK n \in 0..MaxUse : n = x5[c].amount
    BY <1>1 DEF CounterRow
  <2>2. x2' = x2 /\ x4' = x4 /\ x5' \in [Three -> CounterRow]
    BY <1>1, <1>3, <1>6 DEF Advance!Charge, Advance!End
  <2>3. CASE x1.balance < n
    <3>1. x1' = x1 /\ x3' = x3
      BY <1>6, <2>1, <2>3 DEF Advance!Charge, Advance!LeftOn
    <3> QED BY <1>1, <2>2, <3>1 DEF AdvanceInv
  <2>4. CASE ~(x1.balance < n)
    <3>1. x1' = [x1 EXCEPT !.balance = x1.balance - n] /\ x3' = x3 + n
      BY <1>6, <2>1, <2>4 DEF Advance!Charge, Advance!LeftOn
    <3>2. x1' \in PrepaidCard /\ x1'.balance = x1.balance - n /\ x3' \in Nat
      BY <1>1, <1>2, <3>1, AdvanceNumbers DEF PrepaidCard
    <3>3. x1'.balance >= 0
      BY <1>2, <2>4, <3>2, AdvanceNumbers
    <3> QED BY <1>1, <2>2, <3>2, <3>3 DEF AdvanceInv
  <2> QED BY <2>3, <2>4
<1>7. ASSUME NEW c \in Three, Advance!Void(c) PROVE AdvanceInv'
  <2>1. x2' = x2 /\ x3' = x3 /\ x4' = x4 /\ x5' \in [Three -> CounterRow]
    BY <1>1, <1>3, <1>7 DEF Advance!Void, Advance!End
  <2>2. x1' = [status |-> "void", balance |-> x1.balance - x1.balance]
    BY <1>7 DEF Advance!Void, Advance!LeftOn
  <2>3. x1' \in PrepaidCard /\ x1'.balance >= 0
    BY <1>2, <2>2 DEF PrepaidCard
  <2> QED BY <1>1, <2>1, <2>3 DEF AdvanceInv
<1>8. ASSUME NEW c \in Three, Advance!Redeem(c) PROVE AdvanceInv'
  <2>1. PICK n \in 0..MaxUse : n = x5[c].amount
    BY <1>1 DEF CounterRow
  <2>2. x1' = x1 /\ x3' = x3 /\ x5' \in [Three -> CounterRow]
    BY <1>1, <1>3, <1>8 DEF Advance!Redeem, Advance!End
  <2>3. CASE x2.remaining >= n
    <3>1. /\ x2' = [x2 EXCEPT !.remaining = x2.remaining - n, !.ledger = x2.ledger - n]
          /\ x4' = x4 + n
      BY <1>1, <1>8, <2>1, <2>3 DEF Advance!Redeem, Advance!Remain, PrepaidPass
    <3>6. x2' = [status |-> x2.status, remaining |-> x2.remaining - n, ledger |-> x2.ledger - n]
      BY <1>1, <3>1 DEF PrepaidPass
    <3>7. x2.remaining - n \in Int /\ x2.ledger - n \in Int /\ x4 + n \in Nat
      BY <1>1, <1>2, AdvanceNumbers
    <3>2. /\ x2' \in PrepaidPass /\ x4' \in Nat /\ x2'.status = x2.status
          /\ x2'.remaining = x2.remaining - n /\ x2'.ledger = x2.ledger - n
      BY <1>2, <3>1, <3>6, <3>7 DEF PrepaidPass
    <3>3. x2'.remaining >= 0 /\ x2'.remaining = x2'.ledger
      BY <1>1, <1>2, <2>3, <3>2, AdvanceNumbers
    <3>4. x2.status = "active" => x2'.remaining + x4' = Cups
      BY <1>1, <1>2, <3>1, <3>2, AdvanceNumbers
    <3>5. x2.status = "void" => x2'.remaining = 0 /\ x4' = 0
      BY <1>1, <1>2, <2>3, <3>1, <3>2, AdvanceNumbers
    <3> QED BY <1>1, <2>2, <3>2, <3>3, <3>4, <3>5 DEF AdvanceInv
  <2>4. CASE ~(x2.remaining >= n)
    <3>1. x2' = x2 /\ x4' = x4
      BY <1>8, <2>1, <2>4 DEF Advance!Redeem, Advance!Remain
    <3> QED BY <1>1, <2>2, <3>1 DEF AdvanceInv
  <2> QED BY <2>3, <2>4
<1>9. ASSUME NEW n \in 1..MaxUse, Advance!Refund(n) PROVE AdvanceInv'
  <2>1. /\ x2' = x2 /\ x4' = x4 /\ x5' = x5 /\ x3 >= n /\ x3' = x3 - n
        /\ x1' = [x1 EXCEPT !.balance = x1.balance + n]
    BY <1>9 DEF Advance!Refund
  <2>2. x1' \in PrepaidCard /\ x1'.balance = x1.balance + n /\ x3' \in Nat
    BY <1>1, <1>2, <2>1, AdvanceNumbers DEF PrepaidCard
  <2>3. x1'.balance >= 0
    BY <1>1, <1>2, <2>2, AdvanceNumbers
  <2> QED BY <1>1, <2>1, <2>2, <2>3 DEF AdvanceInv
<1>10. ASSUME NEW n \in 1..MaxUse, Advance!RedeemCancelled(n) PROVE AdvanceInv'
  <2>1. /\ x1' = x1 /\ x3' = x3 /\ x5' = x5 /\ x4 >= n /\ x4' = x4 - n
        /\ x2' = [x2 EXCEPT !.remaining = x2.remaining + n, !.ledger = x2.ledger + n]
    BY <1>1, <1>10 DEF Advance!RedeemCancelled, PrepaidPass
  <2>5. x2' = [status |-> x2.status, remaining |-> x2.remaining + n, ledger |-> x2.ledger + n]
    BY <1>1, <2>1 DEF PrepaidPass
  <2>6. x2.remaining + n \in Int /\ x2.ledger + n \in Int /\ x4 - n \in Nat
    BY <1>1, <1>2, <2>1, AdvanceNumbers
  <2>2. /\ x2' \in PrepaidPass /\ x4' \in Nat /\ x2'.status = x2.status
        /\ x2'.remaining = x2.remaining + n /\ x2'.ledger = x2.ledger + n
    BY <1>2, <2>1, <2>5, <2>6 DEF PrepaidPass
  <2>3. x2.status # "void" /\ x2'.remaining >= 0 /\ x2'.remaining = x2'.ledger
    BY <1>1, <1>2, <2>1, <2>2, AdvanceNumbers
  <2>4. x2.status = "active" => x2'.remaining + x4' = Cups
    BY <1>1, <1>2, <2>1, <2>2, AdvanceNumbers
  <2> QED BY <1>1, <2>1, <2>2, <2>3, <2>4 DEF AdvanceInv
<1>11. ASSUME Advance!SaleCancelled PROVE AdvanceInv'
  <2>1. /\ x1' = x1 /\ x3' = x3 /\ x4' = x4 /\ x5' = x5
        /\ x2.status = "active" /\ x2.remaining >= Cups
        /\ x2' = [status |-> "void", remaining |-> 0, ledger |-> x2.ledger - x2.remaining]
    BY <1>11 DEF Advance!SaleCancelled
  <2>2. x4 = 0 /\ x2.ledger - x2.remaining = 0
    BY <1>1, <1>2, <2>1, AdvanceNumbers
  <2>3. /\ x2' \in PrepaidPass /\ x2'.remaining >= 0 /\ x2'.remaining = x2'.ledger
        /\ x2'.status = "void" /\ x2'.remaining = 0
    BY <2>1, <2>2 DEF PrepaidPass
  <2> QED BY <1>1, <2>1, <2>2, <2>3 DEF AdvanceInv
<1>12. ASSUME NEW c \in Three, NEW n \in 1..MaxUse, Advance!StartCharge(c, n) PROVE AdvanceInv'
  BY <1>4, <1>12 DEF Advance!StartCharge
<1>13. ASSUME NEW c \in Three, NEW n \in 1..MaxUse, Advance!StartRedeem(c, n) PROVE AdvanceInv'
  BY <1>4, <1>13 DEF Advance!StartRedeem
<1> QED BY <1>5, <1>6, <1>7, <1>8, <1>9, <1>10, <1>11, <1>12, <1>13 DEF Advance!Next

LEMMA AdvanceHolds ==
    AdvanceInv => Advance!TypeOK /\ Advance!NeverOverdrawn /\ Advance!RefundedPassUnused
  BY DEF AdvanceInv, Advance!TypeOK, Advance!NeverOverdrawn, Advance!RefundedPassUnused,
         PrepaidCard, PrepaidPass, CounterRow

-----------------------------------------------------------------------------
\* A reservation's deposit (Deposit).

DepositRow ==
    [status : Reserve!Over \cup {"booked"}, deposit : Reserve!DepositStatus, trade : Trade \cup {NoTrade}]

\* A deposit that is paid was taken in the trade the row names.
ReserveInv ==
    /\ x1 \in DepositRow /\ x2 \in Trade \cup {NoTrade} /\ x3 \in BOOLEAN
    /\ x4 \subseteq Request /\ x5 \subseteq Trade
    /\ x6 \subseteq x5 /\ x7 \subseteq x6 /\ x8 \subseteq x6 /\ x9 \subseteq x6
    /\ x10 \in 0..MaxCrash
    /\ x1.status \in Reserve!Over => x1.deposit \notin {"pending", "paid"}
    /\ x1.deposit = "paid" => x2 \in x6

LEMMA ReserveInit == Reserve!Init => ReserveInv
<1> SUFFICES ASSUME Reserve!Init PROVE ReserveInv
  OBVIOUS
<1>1. /\ x1 = [status |-> "booked", deposit |-> "pending", trade |-> NoTrade]
      /\ x2 = NoTrade /\ x3 = FALSE
      /\ x4 = {} /\ x5 = {} /\ x6 = {} /\ x7 = {} /\ x8 = {} /\ x9 = {} /\ x10 = 0
  BY DEF Reserve!Init
<1>2. x1 \in DepositRow /\ x1.status \notin Reserve!Over /\ x1.deposit # "paid"
  BY <1>1 DEF DepositRow, Reserve!Over, Reserve!DepositStatus
<1>4. MaxCrash \in Nat
  BY BoundAssumption
<1>5. 0 \in 0..MaxCrash
  BY <1>4
<1>3. x10 \in 0..MaxCrash /\ x3 \in BOOLEAN
  BY <1>1, <1>5
<1> QED BY <1>1, <1>2, <1>3 DEF ReserveInv

\* The provider is asked about a trade it has taken the money of, for a row that is sound.
LEMMA ReserveGives ==
    ASSUME NEW r \in DepositRow, NEW t \in x6, x8 \subseteq x6, x9 \subseteq x6, Reserve!GiveBack(r, t)
    PROVE  /\ x1' \in DepositRow /\ x1'.deposit \in {"refunded", "refund_failed"}
           /\ x8' \subseteq x6 /\ x9' \subseteq x6
<1>1. CASE /\ t \notin x8 /\ x1' = [r EXCEPT !.deposit = "refunded"]
           /\ x8' = x8 \cup {t} /\ x9' = x9
  BY <1>1 DEF DepositRow, Reserve!DepositStatus
<1>2. CASE x1' = [r EXCEPT !.deposit = "refund_failed"] /\ x9' = x9 \cup {t} /\ x8' = x8
  BY <1>2 DEF DepositRow, Reserve!DepositStatus
<1> QED BY <1>1, <1>2 DEF Reserve!GiveBack

LEMMA ReserveNext == ReserveInv /\ Reserve!Next => ReserveInv'
<1> SUFFICES ASSUME ReserveInv, Reserve!Next PROVE ReserveInv'
  OBVIOUS
<1>1. /\ x1 \in DepositRow /\ x2 \in Trade \cup {NoTrade} /\ x3 \in BOOLEAN
      /\ x4 \subseteq Request /\ x5 \subseteq Trade
      /\ x6 \subseteq x5 /\ x7 \subseteq x6 /\ x8 \subseteq x6 /\ x9 \subseteq x6
      /\ x10 \in 0..MaxCrash
      /\ x1.status \in Reserve!Over => x1.deposit \notin {"pending", "paid"}
      /\ x1.deposit = "paid" => x2 \in x6
  BY DEF ReserveInv
<1>2. /\ x1.status \in Reserve!Over \cup {"booked"} /\ x1.deposit \in Reserve!DepositStatus
      /\ x1.trade \in Trade \cup {NoTrade} /\ MaxCrash \in Nat
  BY <1>1, BoundAssumption DEF DepositRow
<1>3. ASSUME NEW w \in Request, Reserve!OpenPage(w) PROVE ReserveInv'
  BY <1>1, <1>3 DEF Reserve!OpenPage, ReserveInv
<1>4. ASSUME NEW w \in Request, Reserve!NewAttempt(w) PROVE ReserveInv'
  <2>1. PICK t \in Trade \ x5 : x5' = x5 \cup {t} /\ x1' = [x1 EXCEPT !.trade = t]
    BY <1>4 DEF Reserve!NewAttempt
  <2>2. /\ x4' = x4 \ {w} /\ x2' = x2 /\ x3' = x3 /\ x6' = x6 /\ x7' = x7 /\ x8' = x8 /\ x9' = x9
        /\ x10' = x10
    BY <1>4 DEF Reserve!NewAttempt
  <2>3. x1' \in DepositRow /\ x1'.status = x1.status /\ x1'.deposit = x1.deposit
    BY <1>1, <2>1 DEF DepositRow
  <2> QED BY <1>1, <2>1, <2>2, <2>3 DEF ReserveInv
<1>5. ASSUME NEW t \in Trade, Reserve!Pay(t) PROVE ReserveInv'
  <2>1. /\ t \in x5 /\ x6' = x6 \cup {t} /\ x1' = x1 /\ x2' = x2 /\ x3' = x3 /\ x4' = x4 /\ x5' = x5
        /\ x7' = x7 /\ x8' = x8 /\ x9' = x9 /\ x10' = x10
    BY <1>5 DEF Reserve!Pay
  <2> QED BY <1>1, <2>1 DEF ReserveInv
<1>6. ASSUME NEW t \in Trade, Reserve!MarkPaid(t) PROVE ReserveInv'
  <2>1. t \in x6 /\ x3' = x3 /\ x4' = x4 /\ x5' = x5 /\ x6' = x6
    BY <1>6 DEF Reserve!MarkPaid
  <2>2. CASE /\ x1.deposit = "pending"
             /\ x1' = [x1 EXCEPT !.deposit = "paid", !.trade = t]
             /\ x2' = t /\ x7' = x7 \cup {t} /\ x8' = x8 /\ x9' = x9 /\ x10' = x10
    <3>1. x1' \in DepositRow /\ x1'.status = x1.status /\ x1'.deposit = "paid"
      BY <1>1, <2>2 DEF DepositRow, Reserve!DepositStatus
    <3>2. x1.status \notin Reserve!Over
      BY <1>1, <2>2
    <3> QED BY <1>1, <2>1, <2>2, <3>1, <3>2 DEF ReserveInv
  <2>3. CASE Reserve!PaidLate(t)
    <3>1. PICK r \in DepositRow : r = [x1 EXCEPT !.trade = t]
      BY <1>1 DEF DepositRow
    <3>2. CASE Reserve!GiveBack(r, t) /\ x2' = t /\ x7' = x7 \cup {t} /\ x10' = x10
      <4>1. /\ x1' \in DepositRow /\ x1'.deposit \in {"refunded", "refund_failed"}
            /\ x8' \subseteq x6 /\ x9' \subseteq x6
        BY <1>1, <2>1, <3>2, ReserveGives
      <4> QED BY <1>1, <2>1, <3>2, <4>1 DEF ReserveInv
    <3>3. CASE Reserve!Crash(r, t) /\ x2' = x2 /\ x7' = x7
      <4>1. x1' = x1 /\ x9' = x9 /\ x8' = x8 \cup {t} /\ x10' \in 0..MaxCrash
        BY <1>1, <1>2, <3>3 DEF Reserve!Crash
      <4> QED BY <1>1, <2>1, <3>3, <4>1 DEF ReserveInv
    <3> QED BY <2>3, <3>1, <3>2, <3>3 DEF Reserve!PaidLate
  <2>4. CASE /\ x9' = IF t # x1.trade /\ t # x2 THEN x9 \cup {t} ELSE x9
             /\ x7' = x7 \cup {t} /\ x1' = x1 /\ x2' = x2 /\ x8' = x8 /\ x10' = x10
    BY <1>1, <2>1, <2>4 DEF ReserveInv
  <2> QED BY <1>6, <2>2, <2>3, <2>4 DEF Reserve!MarkPaid
<1>7. ASSUME NEW status \in Reserve!Over \cup {"booked"}, Reserve!SetStatus(status) PROVE ReserveInv'
  <2>1. /\ x1.status # status /\ ~(x1.deposit = "pending" /\ status = "seated")
        /\ x2' = x2 /\ x3' = x3 /\ x4' = x4 /\ x5' = x5 /\ x6' = x6 /\ x7' = x7
    BY <1>7 DEF Reserve!SetStatus
  <2>2. PICK r \in DepositRow : r = [x1 EXCEPT !.status = status]
    BY <1>1 DEF DepositRow
  <2>3. r.status = status
    BY <1>1, <2>2 DEF DepositRow
  <2>4. PICK onSeat \in {"refund", "applied"} :
            LET after == Reserve!DepositAfter(status, onSeat) IN
            \/ after = "refund" /\ Reserve!GiveBack(r, x2) /\ x10' = x10
            \/ after = "refund" /\ Reserve!Crash(r, x2)
            \/ /\ after # "refund"
               /\ x1' = [r EXCEPT !.deposit = after]
               /\ x8' = x8 /\ x9' = x9 /\ x10' = x10
    BY <1>7, <2>2 DEF Reserve!SetStatus
  <2>5. PICK after : after = Reserve!DepositAfter(status, onSeat)
    OBVIOUS
  <2>6. /\ after = "refund" => x1.deposit = "paid"
        /\ after # "refund" => after \in Reserve!DepositStatus
        /\ after = "paid" => x1.deposit = "paid"
        /\ status \in Reserve!Over => after \notin {"pending", "paid"}
    BY <1>2, <2>1, <2>5 DEF Reserve!DepositAfter, Reserve!DepositStatus, Reserve!Over
  <2>7. CASE after = "refund" /\ Reserve!GiveBack(r, x2) /\ x10' = x10
    <3>1. /\ x1' \in DepositRow /\ x1'.deposit \in {"refunded", "refund_failed"}
          /\ x8' \subseteq x6 /\ x9' \subseteq x6
      BY <1>1, <2>6, <2>7, ReserveGives
    <3> QED BY <1>1, <2>1, <2>7, <3>1 DEF ReserveInv
  <2>8. CASE after = "refund" /\ Reserve!Crash(r, x2)
    <3>1. x1' = x1 /\ x9' = x9 /\ x8' = x8 \cup {x2} /\ x10' \in 0..MaxCrash
      BY <1>1, <1>2, <2>8 DEF Reserve!Crash
    <3> QED BY <1>1, <2>1, <2>6, <2>8, <3>1 DEF ReserveInv
  <2>9. CASE after # "refund" /\ x1' = [r EXCEPT !.deposit = after] /\ x8' = x8 /\ x9' = x9 /\ x10' = x10
    <3>1. x1' \in DepositRow /\ x1'.status = status /\ x1'.deposit = after
      BY <2>3, <2>6, <2>9 DEF DepositRow
    <3> QED BY <1>1, <2>1, <2>6, <2>9, <3>1 DEF ReserveInv
  <2> QED BY <2>4, <2>5, <2>7, <2>8, <2>9
<1>8. ASSUME Reserve!ExpirePending PROVE ReserveInv'
  <2>1. /\ x1' = [x1 EXCEPT !.deposit = "expired",
                            !.status = IF x1.status = "booked" THEN "cancelled" ELSE x1.status]
        /\ x2' = x2 /\ x3' = x3 /\ x4' = x4 /\ x5' = x5 /\ x6' = x6 /\ x7' = x7 /\ x8' = x8
        /\ x9' = x9 /\ x10' = x10
    BY <1>1, <1>8 DEF Reserve!ExpirePending, DepositRow
  <2>2. PICK status \in Reserve!Over \cup {"booked"} :
            status = IF x1.status = "booked" THEN "cancelled" ELSE x1.status
    BY <1>2 DEF Reserve!Over
  <2>3. x1' \in DepositRow /\ x1'.deposit = "expired"
    BY <1>1, <2>1, <2>2 DEF DepositRow, Reserve!DepositStatus
  <2> QED BY <1>1, <2>1, <2>3 DEF ReserveInv
<1>9. ASSUME Reserve!RefundHoursPass PROVE ReserveInv'
  BY <1>1, <1>9 DEF Reserve!RefundHoursPass, ReserveInv
<1> QED BY <1>3, <1>4, <1>5, <1>6, <1>7, <1>8, <1>9 DEF Reserve!Next

LEMMA ReserveHolds == ReserveInv => Reserve!TypeOK /\ Reserve!OverIsDecided
  BY DEF ReserveInv, Reserve!TypeOK, Reserve!OverIsDecided, DepositRow

-----------------------------------------------------------------------------
\* A stamp card (Stamps).

\* Only an order that was placed has earned stamps.
StampsInv ==
    /\ x1 \in [Three -> {"none", "begun", "placed", "cancelled"}]
    /\ x2 \in [Three -> 0..MaxStamps]
    /\ x3 \in Int /\ x4 \in [Three -> Int] /\ x5 \in Nat
    /\ 0 <= x3 /\ x3 < CardSize
    /\ x5 * CardSize + x3 = Sum(x2, Three)
    /\ \A o \in Three : x1[o] \in {"none", "begun"} => x2[o] = 0

LEMMA StampNumbers == CardSize \in Nat /\ CardSize > 0 /\ MaxStamps \in Nat /\ IsFiniteSet(Three)
  BY AdvanceAssumption, FiniteAssumption

\* As many full cards as there are leave less than a card.
LEMMA FullCards ==
    ASSUME NEW n \in Nat, NEW size \in Nat, size > 0
    PROVE  /\ n \div size \in Nat
           /\ 0 <= n - (n \div size) * size /\ n - (n \div size) * size < size
<1>1. n = (n \div size) * size + (n % size) /\ 0 <= n % size /\ n % size < size
  OBVIOUS
<1>2. n \div size \in Nat
  OBVIOUS
<1> QED BY <1>1, <1>2

LEMMA StampsInit == StampCards!Init => StampsInv
<1> SUFFICES ASSUME StampCards!Init PROVE StampsInv
  OBVIOUS
<1>1. /\ x1 = [o \in Three |-> "none"] /\ x2 = [o \in Three |-> 0]
      /\ x3 = 0 /\ x4 = [o \in Three |-> 0] /\ x5 = 0
  BY DEF StampCards!Init
<1>2. 0 \in 0..MaxStamps
  BY StampNumbers
<1>3. Sum(x2, Three) = 0
  BY <1>1, StampNumbers, SumZero
<1>4. x5 * CardSize + x3 = 0 /\ 0 <= x3 /\ x3 < CardSize
  BY <1>1, StampNumbers
<1> QED BY <1>1, <1>2, <1>3, <1>4 DEF StampsInv

LEMMA StampsNext == StampsInv /\ StampCards!Next => StampsInv'
<1> SUFFICES ASSUME StampsInv, StampCards!Next PROVE StampsInv'
  OBVIOUS
<1>1. /\ x1 \in [Three -> {"none", "begun", "placed", "cancelled"}]
      /\ x2 \in [Three -> 0..MaxStamps]
      /\ x3 \in Int /\ x4 \in [Three -> Int] /\ x5 \in Nat
      /\ 0 <= x3 /\ x3 < CardSize
      /\ x5 * CardSize + x3 = Sum(x2, Three)
      /\ \A o \in Three : x1[o] \in {"none", "begun"} => x2[o] = 0
  BY DEF StampsInv
<1>2. \A o \in Three : x2[o] \in Int /\ x2[o] >= 0 /\ x2[o] <= MaxStamps
  BY <1>1, StampNumbers
<1>3. ASSUME NEW o \in Three, StampCards!Begin(o) PROVE StampsInv'
  <2>1. /\ x1[o] = "none" /\ x1' = [x1 EXCEPT ![o] = "begun"] /\ x4' = [x4 EXCEPT ![o] = x3]
        /\ x2' = x2 /\ x3' = x3 /\ x5' = x5
    BY <1>3 DEF StampCards!Begin
  <2>2. /\ x1' \in [Three -> {"none", "begun", "placed", "cancelled"}] /\ x4' \in [Three -> Int]
        /\ \A q \in Three : x1'[q] \in {"none", "begun"} => x2'[q] = 0
    BY <1>1, <2>1
  <2> QED BY <1>1, <2>1, <2>2 DEF StampsInv
\* The stamps of one order change by as many as the ledger and the cards together.
<1>4. ASSUME NEW o \in Three, NEW n \in 0..MaxStamps, NEW status \in {"placed", "cancelled"},
             x1' = [x1 EXCEPT ![o] = status], x2' = [x2 EXCEPT ![o] = n], x4' = x4,
             x3' \in Int, x5' \in Nat, 0 <= x3', x3' < CardSize,
             x5' * CardSize + x3' = x5 * CardSize + x3 - x2[o] + n
      PROVE  StampsInv'
  <2>1. /\ x1' \in [Three -> {"none", "begun", "placed", "cancelled"}]
        /\ x2' \in [Three -> 0..MaxStamps]
        /\ \A q \in Three : x2'[q] = IF q = o THEN n ELSE x2[q]
        /\ \A q \in Three : x1'[q] \in {"none", "begun"} => x2'[q] = 0
    BY <1>1, <1>4
  <2>2. n \in Int /\ x2'[o] = n /\ \A q \in Three : o # q => x2'[q] = x2[q]
    BY <2>1, StampNumbers
  <2>3. Sum(x2', Three) = Sum(x2, Three) - x2[o] + n
    BY <1>2, <2>2, StampNumbers, SumChange
  <2>5. Sum(x2, Three) \in Int
    BY <1>2, StampNumbers, SumInt
  <2>6. PICK before \in Int : before = x5 * CardSize + x3
    BY <1>1, <2>5
  <2>7. x5' * CardSize + x3' = before - x2[o] + n
    BY <1>1, <1>2, <1>4, <2>6, StampNumbers
  <2>4. x5' * CardSize + x3' = Sum(x2', Three)
    BY <1>1, <2>3, <2>6, <2>7
  <2> QED BY <1>1, <1>4, <2>1, <2>4 DEF StampsInv
<1>5. ASSUME NEW o \in Three, NEW n \in 0..MaxStamps, StampCards!EarnStamps(o, n) PROVE StampsInv'
  <2>1. n \in Nat
    BY StampNumbers
  <2>2. PICK total \in Nat : total = x3 + n
    BY <1>1, <2>1
  <2>3. StampCards!StampCount(StampCards!Sum(o) + n) = total
    BY <1>1, <2>1, <2>2 DEF StampCards!StampCount, StampCards!Sum
  <2>4. PICK completed \in Nat : completed = total \div CardSize
    BY <2>2, StampNumbers, FullCards
  <2>5. /\ x1[o] = "begun" /\ x1' = [x1 EXCEPT ![o] = "placed"] /\ x2' = [x2 EXCEPT ![o] = n]
        /\ x3' = x3 + n - completed * CardSize /\ x5' = x5 + completed /\ x4' = x4
    BY <1>5, <2>3, <2>4 DEF StampCards!EarnStamps
  <2>6. 0 <= total - completed * CardSize /\ total - completed * CardSize < CardSize
    BY <2>2, <2>4, StampNumbers, FullCards
  <2>7. PICK full \in Nat : full = completed * CardSize
    BY <2>4, StampNumbers
  <2>8. x3' \in Int /\ 0 <= x3' /\ x3' < CardSize /\ x5' \in Nat
    BY <1>1, <2>1, <2>2, <2>4, <2>5, <2>6, <2>7, StampNumbers
  <2>9. PICK given \in Nat : given = x5 * CardSize
    BY <1>1, StampNumbers
  <2>10. x5' * CardSize = given + full
    BY <1>1, <2>4, <2>5, <2>7, <2>9, StampNumbers
  <2>11. x2[o] = 0
    BY <1>1, <2>5
  <2>12. x5' * CardSize + x3' = x5 * CardSize + x3 - x2[o] + n
    BY <1>1, <2>1, <2>5, <2>7, <2>9, <2>10, <2>11
  <2> QED BY <1>4, <2>5, <2>8, <2>12
<1>6. ASSUME NEW o \in Three, StampCards!Cancel(o) PROVE StampsInv'
  <2>1. PICK back : back = StampCards!Min({x2[o], StampCards!StampCount(x3)})
    OBVIOUS
  <2>2. StampCards!StampCount(x3) = x3
    BY <1>1 DEF StampCards!StampCount
  <2>3. back \in Int /\ back >= 0 /\ back <= x2[o] /\ back <= x3
    <3>1. PICK S : S = {x2[o], x3}
      OBVIOUS
    <3>2. back = CHOOSE x \in S : \A y \in S : x <= y
      BY <2>1, <2>2, <3>1 DEF StampCards!Min
    <3>3. \E x \in S : \A y \in S : x <= y
      BY <1>1, <1>2, <3>1
    <3>4. back \in S /\ \A y \in S : back <= y
      BY <3>2, <3>3
    <3> QED BY <1>1, <1>2, <3>1, <3>4
  <2>4. /\ x1' = [x1 EXCEPT ![o] = "cancelled"] /\ x2' = [x2 EXCEPT ![o] = x2[o] - back]
        /\ x3' = x3 - back /\ x4' = x4 /\ x5' = x5
    BY <1>1, <1>6, <2>1 DEF StampCards!Cancel
  <2>5. PICK n \in 0..MaxStamps : n = x2[o] - back
    BY <1>2, <2>3, StampNumbers
  <2>6. x3' \in Int /\ 0 <= x3' /\ x3' < CardSize /\ x5' \in Nat
    BY <1>1, <2>3, <2>4, StampNumbers
  <2>7. PICK given \in Nat : given = x5 * CardSize
    BY <1>1, StampNumbers
  <2>8. x5' * CardSize + x3' = x5 * CardSize + x3 - x2[o] + n
    BY <1>1, <1>2, <2>3, <2>4, <2>5, <2>7
  <2> QED BY <1>4, <2>4, <2>5, <2>6, <2>8
<1> QED BY <1>3, <1>5, <1>6 DEF StampCards!Next

LEMMA StampsHolds == StampsInv => StampCards!TypeOK /\ StampCards!CardsExact
<1> SUFFICES ASSUME StampsInv PROVE StampCards!TypeOK /\ StampCards!CardsExact
  OBVIOUS
<1>1. StampCards!TypeOK
  BY DEF StampsInv, StampCards!TypeOK
<1>2. x3 \in 0..CardSize - 1
  BY StampNumbers DEF StampsInv
<1>3. StampCards!MapThenSumSet(LAMBDA o : x2[o], Three) = Sum(x2, Three)
  <2>1. PICK S : S = Three
    OBVIOUS
  <2>2. StampCards!MapThenSumSet(LAMBDA o : x2[o], S) = (CHOOSE g : Adds(x2, g, S))[S]
    BY DEF StampCards!MapThenSumSet, StampCards!MapThenFoldSet, Adds, Pick
  <2> QED BY <2>1, <2>2, SumAdds
<1>4. StampCards!CardsExact
  BY <1>2, <1>3 DEF StampsInv, StampCards!CardsExact
<1> QED BY <1>1, <1>4

-----------------------------------------------------------------------------
\* Points and vouchers (Vouchers).

VoucherRow == [status : Rewards!Status, order : Order \cup {"none"}]
VoucherTask ==
    [doing : {"idle", "checkout", "refund"}, order : Order \cup {"none"}, wanted : 0..MaxMeal,
     todo : SUBSET Nat, got : SUBSET Nat]

OpenIn(v) == {i \in DOMAIN v : v[i].status = "open"}
UsedIn(v, o) == {i \in DOMAIN v : v[i].order = o /\ v[i].status = "used"}

\* What a transaction has taken is open, and it looks at vouchers there are.
Claims(t, v) == t.todo \subseteq DOMAIN v /\ t.got \subseteq OpenIn(v)

\* A checkout's order has nothing yet, and will not get more vouchers than it has meals.
Serves(t, v, m) ==
    t.doing = "checkout" =>
        /\ t.order \in Order /\ m[t.order] = 0 /\ \A i \in DOMAIN v : v[i].order # t.order
        /\ Cardinality(t.todo) + Cardinality(t.got) <= t.wanted

Apart(t, u) == t.got \cap u.got = {} /\ (t.doing = "checkout" => u.doing # "checkout")

\* No voucher is taken by two transactions, one of them is a checkout at most, and the used
\* vouchers of an order are as many as its meals.
RewardsInv ==
    /\ x1 \in Nat /\ x2 \in Seq(VoucherRow) /\ Len(x2) <= MaxVoucher
    /\ x3 \in [Order -> 0..MaxMeal] /\ x4 \in [Request -> VoucherTask]
    /\ \A w \in Request : Claims(x4[w], x2) /\ Serves(x4[w], x2, x3)
    /\ \A w, u \in Request : w # u => Apart(x4[w], x4[u])
    /\ \A o \in Order : Cardinality(UsedIn(x2, o)) = x3[o]
    /\ x1 + Cardinality(OpenIn(x2)) + Sum(x3, Order) = FirstPoints

LEMMA VoucherNumbers ==
    /\ FirstPoints \in Nat /\ MaxVoucher \in Nat /\ MaxMeal \in Nat /\ IsFiniteSet(Order)
    /\ Rewards!Idle \in VoucherTask /\ Rewards!Idle.got = {} /\ Rewards!Idle.todo = {}
    /\ Rewards!Idle.doing = "idle"
    /\ \A S : Rewards!Cardinality(S) = Cardinality(S)
<1>1. MaxMeal \in Nat
  BY AdvanceAssumption
<1>2. 0 \in 0..MaxMeal
  BY <1>1
<1>3. /\ Rewards!Idle \in VoucherTask /\ Rewards!Idle.got = {} /\ Rewards!Idle.todo = {}
      /\ Rewards!Idle.doing = "idle"
  BY <1>2 DEF Rewards!Idle, Rewards!NoOrder, VoucherTask
<1>4. \A S : Rewards!Cardinality(S) = Cardinality(S)
  BY DEF Rewards!Cardinality, Cardinality
<1> QED BY <1>1, <1>3, <1>4, AdvanceAssumption

LEMMA VouchersFinite ==
    ASSUME NEW v \in Seq(VoucherRow)
    PROVE  /\ Len(v) \in Nat /\ DOMAIN v = 1..Len(v) /\ IsFiniteSet(DOMAIN v)
           /\ \A S \in SUBSET (DOMAIN v) : IsFiniteSet(S) /\ Cardinality(S) \in Nat
           /\ OpenIn(v) \in SUBSET (DOMAIN v) /\ \A o : UsedIn(v, o) \in SUBSET (DOMAIN v)
<1>1. Len(v) \in Nat /\ DOMAIN v = 1..Len(v)
  OBVIOUS
<1>2. IsFiniteSet(1..Len(v))
  BY <1>1, FS_Interval
<1>3. \A S \in SUBSET (DOMAIN v) : IsFiniteSet(S) /\ Cardinality(S) \in Nat
  BY <1>1, <1>2, FS_Subset, FS_CardinalityType
<1> QED BY <1>1, <1>2, <1>3 DEF OpenIn, UsedIn

\* Equal rows are added behind the others.
LEMMA VouchersAdded ==
    ASSUME NEW v \in Seq(VoucherRow), NEW n \in Nat, NEW r \in VoucherRow, NEW z,
           z = v \o [i \in 1..n |-> r]
    PROVE  /\ z \in Seq(VoucherRow) /\ Len(z) = Len(v) + n
           /\ \A i \in 1..Len(z) : z[i] = IF i <= Len(v) THEN v[i] ELSE r
<1>1. PICK s : s = [i \in 1..n |-> r]
  OBVIOUS
<1>2. s \in Seq(VoucherRow) /\ Len(s) = n /\ \A i \in 1..n : s[i] = r
  BY <1>1
<1>3. /\ z \in Seq(VoucherRow) /\ Len(z) = Len(v) + n
      /\ \A i \in 1..Len(v) + n : z[i] = IF i <= Len(v) THEN v[i] ELSE s[i - Len(v)]
  BY <1>1, <1>2, ConcatProperties
<1>4. Len(v) \in Nat
  OBVIOUS
<1>5. ASSUME NEW i \in 1..Len(z) PROVE z[i] = IF i <= Len(v) THEN v[i] ELSE r
  <2>1. CASE i <= Len(v)
    BY <1>3, <1>5, <2>1
  <2>2. CASE ~(i <= Len(v))
    <3>1. i - Len(v) \in 1..n
      BY <1>3, <1>4, <1>5, <2>2
    <3> QED BY <1>2, <1>3, <1>5, <2>2, <3>1
  <2> QED BY <2>1, <2>2
<1> QED BY <1>3, <1>5

LEMMA RewardsInit == Rewards!Init => RewardsInv
<1> SUFFICES ASSUME Rewards!Init PROVE RewardsInv
  OBVIOUS
<1>1. /\ x1 = FirstPoints /\ x2 = <<>> /\ x3 = [o \in Order |-> 0]
      /\ x4 = [w \in Request |-> Rewards!Idle]
  BY DEF Rewards!Init
<1>2. /\ x2 \in Seq(VoucherRow) /\ Len(x2) = 0 /\ DOMAIN x2 = {}
  BY <1>1
<1>3. 0 \in 0..MaxMeal
  BY VoucherNumbers
<1>4. OpenIn(x2) = {} /\ \A o \in Order : UsedIn(x2, o) = {}
  BY <1>2 DEF OpenIn, UsedIn
<1>5. Sum(x3, Order) = 0 /\ Cardinality({}) = 0
  BY <1>1, VoucherNumbers, SumZero, FS_EmptySet
<1>6. \A w \in Request : Claims(x4[w], x2) /\ Serves(x4[w], x2, x3)
  BY <1>1, VoucherNumbers DEF Claims, Serves
<1>7. \A w, u \in Request : Apart(x4[w], x4[u])
  BY <1>1, VoucherNumbers DEF Apart
<1>12. Cardinality(OpenIn(x2)) = 0
  BY <1>4, <1>5
<1>8. x1 + Cardinality(OpenIn(x2)) + Sum(x3, Order) = FirstPoints
  BY <1>1, <1>12, <1>5, AdvanceAssumption
<1>9. x3 \in [Order -> 0..MaxMeal] /\ x4 \in [Request -> VoucherTask]
  BY <1>1, <1>3, VoucherNumbers
<1>10. x1 \in Nat /\ Len(x2) <= MaxVoucher
  BY <1>1, <1>2, VoucherNumbers
<1>11. \A o \in Order : Cardinality(UsedIn(x2, o)) = x3[o]
  BY <1>1, <1>4, <1>5
<1> QED BY <1>2, <1>6, <1>7, <1>8, <1>9, <1>10, <1>11 DEF RewardsInv

\* A transaction goes on.
LEMMA RewardsTurn ==
    ASSUME RewardsInv, NEW w \in Request, NEW t \in VoucherTask, x4' = [x4 EXCEPT ![w] = t],
           x1' = x1, x2' = x2, x3' = x3, Claims(t, x2), Serves(t, x2, x3),
           \A u \in Request \ {w} : Apart(t, x4[u])
    PROVE  RewardsInv'
<1>1. x4 \in [Request -> VoucherTask]
  BY DEF RewardsInv
<1>2. x4' \in [Request -> VoucherTask] /\ \A u \in Request : x4'[u] = IF u = w THEN t ELSE x4[u]
  BY <1>1
<1>3. \A u \in Request : Claims(x4'[u], x2') /\ Serves(x4'[u], x2', x3')
  BY <1>2 DEF RewardsInv
<1>4. \A u \in Request \ {w} : Apart(x4[u], t)
  BY DEF Apart
<1>5. ASSUME NEW u \in Request, NEW q \in Request, u # q PROVE Apart(x4'[u], x4'[q])
  BY <1>2, <1>4, <1>5 DEF RewardsInv
<1> QED BY <1>2, <1>3, <1>5 DEF RewardsInv

\* Vouchers are written by a worker that is then at rest, while no other one is checking out;
\* what the others have taken stays open.
LEMMA RewardsWritten ==
    ASSUME RewardsInv, NEW w \in Request, NEW v \in Seq(VoucherRow), x2' = v,
           Len(x2) <= Len(v), Len(v) <= MaxVoucher, x4' = [x4 EXCEPT ![w] = Rewards!Idle],
           \A u \in Request \ {w} : /\ x4[u].doing # "checkout"
                                    /\ \A i \in x4[u].got : v[i].status = "open",
           x1' \in Nat, x3' \in [Order -> 0..MaxMeal],
           \A o \in Order : Cardinality(UsedIn(v, o)) = x3'[o],
           x1' + Cardinality(OpenIn(v)) + Sum(x3', Order) = FirstPoints
    PROVE  RewardsInv'
<1>1. x2 \in Seq(VoucherRow) /\ x4 \in [Request -> VoucherTask]
  BY DEF RewardsInv
<1>2. /\ x4' \in [Request -> VoucherTask]
      /\ \A u \in Request : x4'[u] = IF u = w THEN Rewards!Idle ELSE x4[u]
  BY <1>1, VoucherNumbers
<1>3. DOMAIN x2 \subseteq DOMAIN v
  <2>1. DOMAIN x2 = 1..Len(x2) /\ DOMAIN v = 1..Len(v) /\ Len(x2) \in Nat /\ Len(v) \in Nat
    BY <1>1, VouchersFinite
  <2> QED BY <2>1
<1>4. ASSUME NEW u \in Request PROVE Claims(x4'[u], v) /\ Serves(x4'[u], v, x3')
  <2>1. CASE u = w
    BY <1>2, <2>1, VoucherNumbers DEF Claims, Serves
  <2>2. CASE u # w
    <3>1. x4'[u] = x4[u] /\ x4[u].doing # "checkout" /\ \A i \in x4[u].got : v[i].status = "open"
      BY <1>2, <2>2
    <3>2. x4[u].todo \subseteq DOMAIN x2 /\ x4[u].got \subseteq DOMAIN x2
      BY DEF RewardsInv, Claims, OpenIn
    <3>3. Claims(x4[u], v)
      BY <1>3, <3>1, <3>2 DEF Claims, OpenIn
    <3> QED BY <3>1, <3>3 DEF Serves
  <2> QED BY <2>1, <2>2
<1>5. ASSUME NEW u \in Request, NEW q \in Request, u # q PROVE Apart(x4'[u], x4'[q])
  <2>1. Apart(x4[u], x4[q])
    BY <1>5 DEF RewardsInv
  <2>2. Apart(Rewards!Idle, x4[q]) /\ Apart(x4[u], Rewards!Idle)
    BY VoucherNumbers DEF Apart
  <2> QED BY <1>2, <1>5, <2>1, <2>2
<1> QED BY <1>2, <1>4, <1>5 DEF RewardsInv

LEMMA VoucherRefunded ==
    ASSUME NEW row \in VoucherRow, NEW new, new = [row EXCEPT !.status = "refunded"]
    PROVE  new \in VoucherRow /\ new.status = "refunded" /\ new.order = row.order
  BY DEF VoucherRow, Rewards!Status

LEMMA RewardsNext == RewardsInv /\ Rewards!Next => RewardsInv'
<1> SUFFICES ASSUME RewardsInv, Rewards!Next PROVE RewardsInv'
  OBVIOUS
<1>1. /\ x1 \in Nat /\ x2 \in Seq(VoucherRow) /\ Len(x2) <= MaxVoucher
      /\ x3 \in [Order -> 0..MaxMeal] /\ x4 \in [Request -> VoucherTask]
  BY DEF RewardsInv
<1>2. \A w \in Request : Claims(x4[w], x2) /\ Serves(x4[w], x2, x3)
  BY DEF RewardsInv
<1>3. \A w, u \in Request : w # u => Apart(x4[w], x4[u])
  BY DEF RewardsInv
<1>4. \A o \in Order : Cardinality(UsedIn(x2, o)) = x3[o]
  BY DEF RewardsInv
<1>5. x1 + Cardinality(OpenIn(x2)) + Sum(x3, Order) = FirstPoints
  BY DEF RewardsInv
<1>6. /\ Len(x2) \in Nat /\ DOMAIN x2 = 1..Len(x2) /\ IsFiniteSet(DOMAIN x2)
      /\ \A S \in SUBSET (DOMAIN x2) : IsFiniteSet(S) /\ Cardinality(S) \in Nat
      /\ OpenIn(x2) \in SUBSET (DOMAIN x2) /\ \A o : UsedIn(x2, o) \in SUBSET (DOMAIN x2)
  BY <1>1, VouchersFinite
<1>7. \A o \in Order : x3[o] \in Int
  BY <1>1, VoucherNumbers
<1>8. PICK eaten \in Int : eaten = Sum(x3, Order)
  BY <1>7, VoucherNumbers, SumInt
<1>9. PICK open \in Nat : open = Cardinality(OpenIn(x2))
  BY <1>6
<1>10. x1 + open + eaten = FirstPoints
  BY <1>5, <1>8, <1>9
<1>11. \A w \in Request : ~Rewards!MemberHeld(w) => \A u \in Request \ {w} : x4[u].doing # "checkout"
  BY DEF Rewards!MemberHeld
<1>12. \A i \in DOMAIN x2 : x2[i] \in VoucherRow
  BY <1>1, <1>6
<1>13. \A w \in Request : x4[w].got \subseteq OpenIn(x2)
  BY <1>2 DEF Claims
<1>14. ASSUME NEW w \in Request, Rewards!RedeemItem(w) PROVE RewardsInv'
  <2>1. /\ x4[w] = Rewards!Idle /\ ~Rewards!MemberHeld(w) /\ x1 > 0 /\ Len(x2) < MaxVoucher
        /\ x1' = x1 - 1 /\ x3' = x3 /\ x4' = x4
    BY <1>14 DEF Rewards!RedeemItem
  <2>2. PICK r \in VoucherRow : r = [status |-> "open", order |-> "none"]
    BY DEF VoucherRow, Rewards!Status
  <2>3. PICK v : v = x2 \o [i \in 1..1 |-> r]
    OBVIOUS
  <2>4. x2' = v
    BY <1>14, <2>2, <2>3 DEF Rewards!RedeemItem, Rewards!NewVouchers, Rewards!NoOrder
  <2>5. /\ v \in Seq(VoucherRow) /\ Len(v) = Len(x2) + 1
        /\ \A i \in 1..Len(v) : v[i] = IF i <= Len(x2) THEN x2[i] ELSE r
    BY <1>1, <2>3, VouchersAdded
  <2>6. DOMAIN v = 1..Len(v)
    BY <2>5
  <2>7. PICK last \in Nat : last = Len(x2) + 1
    BY <1>6
  <2>8. /\ last \notin DOMAIN x2 /\ DOMAIN v = DOMAIN x2 \cup {last} /\ v[last] = r
        /\ \A i \in DOMAIN x2 : v[i] = x2[i]
    BY <1>6, <2>5, <2>6, <2>7
  <2>9. OpenIn(v) = OpenIn(x2) \cup {last} /\ last \notin OpenIn(x2)
    BY <1>6, <2>2, <2>8 DEF OpenIn
  <2>10. \A o \in Order : UsedIn(v, o) = UsedIn(x2, o)
    BY <2>2, <2>8 DEF UsedIn
  <2>11. Cardinality(OpenIn(v)) = open + 1
    BY <1>6, <1>9, <2>9, FS_AddElement
  <2>12. x1' + Cardinality(OpenIn(v)) + Sum(x3', Order) = FirstPoints
    BY <1>1, <1>8, <1>10, <2>1, <2>11
  <2>13. \A u \in Request \ {w} : /\ x4[u].doing # "checkout"
                                  /\ \A i \in x4[u].got : v[i].status = "open"
    BY <1>6, <1>11, <1>13, <2>1, <2>8 DEF OpenIn
  <2>14. x4' = [x4 EXCEPT ![w] = Rewards!Idle]
    BY <1>1, <2>1
  <2>15. x1' \in Nat /\ Len(x2) <= Len(v) /\ Len(v) <= MaxVoucher
    BY <1>1, <1>6, <2>1, <2>5, VoucherNumbers
  <2>16. x3' \in [Order -> 0..MaxMeal] /\ \A o \in Order : Cardinality(UsedIn(v, o)) = x3'[o]
    BY <1>1, <1>4, <2>1, <2>10
  <2> QED BY <2>4, <2>5, <2>12, <2>13, <2>14, <2>15, <2>16, RewardsWritten
<1>15. ASSUME NEW w \in Request, NEW o \in Order, NEW n \in 1..MaxMeal, Rewards!StartCheckout(w, o, n)
       PROVE  RewardsInv'
  <2>1. /\ x4[w] = Rewards!Idle /\ ~Rewards!MemberHeld(w) /\ x3[o] = 0
        /\ \A i \in DOMAIN x2 : x2[i].order # o
        /\ x1' = x1 /\ x2' = x2 /\ x3' = x3
    BY <1>15 DEF Rewards!StartCheckout
  <2>2. PICK some \in Rewards!First(n) :
            x4' = [x4 EXCEPT ![w] = [Rewards!Idle EXCEPT !.doing = "checkout", !.order = o,
                                                         !.wanted = n, !.todo = some]]
    BY <1>15 DEF Rewards!StartCheckout
  <2>3. Rewards!Open = OpenIn(x2)
    BY DEF Rewards!Open, OpenIn
  <2>4. some \subseteq DOMAIN x2 /\ Cardinality(some) \in Nat /\ Cardinality(some) <= n
    <3>1. /\ some \in SUBSET OpenIn(x2)
          /\ Cardinality(some) = n \/ Cardinality(some) < n
      BY <2>2, <2>3, VoucherNumbers DEF Rewards!First
    <3>2. some \in SUBSET (DOMAIN x2)
      BY <1>6, <3>1
    <3>3. Cardinality(some) \in Nat
      BY <1>6, <3>2
    <3> QED BY <3>1, <3>2, <3>3, VoucherNumbers
  <2>5. PICK t : t = [Rewards!Idle EXCEPT !.doing = "checkout", !.order = o, !.wanted = n, !.todo = some]
    OBVIOUS
  <2>6. x4' = [x4 EXCEPT ![w] = t]
    BY <2>2, <2>5
  <2>7. n \in 0..MaxMeal /\ some \subseteq Nat
    BY <1>6, <2>4, VoucherNumbers
  <2>8. /\ t \in VoucherTask /\ t.doing = "checkout" /\ t.order = o /\ t.wanted = n /\ t.todo = some
        /\ t.got = {}
    BY <2>5, <2>7, VoucherNumbers DEF VoucherTask
  <2>9. Cardinality({}) = 0
    BY FS_EmptySet
  <2>10. Claims(t, x2) /\ Serves(t, x2, x3)
    BY <2>1, <2>4, <2>8, <2>9 DEF Claims, Serves
  <2>11. \A u \in Request \ {w} : Apart(t, x4[u])
    BY <1>11, <2>1, <2>8 DEF Apart
  <2> QED BY <2>1, <2>6, <2>8, <2>10, <2>11, RewardsTurn
<1>16. ASSUME NEW w \in Request, NEW n \in 0..MaxMeal, Rewards!StartRefund(w, n) PROVE RewardsInv'
  <2>1. Rewards!Open = OpenIn(x2)
    BY DEF Rewards!Open, OpenIn
  <2>2. PICK t : t = [Rewards!Idle EXCEPT !.doing = "refund", !.wanted = n, !.todo = Rewards!Open]
    OBVIOUS
  <2>3. x4' = [x4 EXCEPT ![w] = t] /\ x1' = x1 /\ x2' = x2 /\ x3' = x3
    BY <1>16, <2>2 DEF Rewards!StartRefund
  <2>4. OpenIn(x2) \subseteq Nat
    BY <1>6
  <2>5. t \in VoucherTask /\ t.doing = "refund" /\ t.todo = OpenIn(x2) /\ t.got = {}
    BY <2>1, <2>2, <2>4, VoucherNumbers DEF VoucherTask
  <2>6. Claims(t, x2) /\ Serves(t, x2, x3)
    BY <1>6, <2>5 DEF Claims, Serves
  <2>7. \A u \in Request \ {w} : Apart(t, x4[u])
    BY <2>5 DEF Apart
  <2> QED BY <2>3, <2>5, <2>6, <2>7, RewardsTurn
<1>17. ASSUME NEW w \in Request, Rewards!Take(w) PROVE RewardsInv'
  <2>1. PICK v \in x4[w].todo :
            /\ ~Rewards!Held(w, v)
            /\ x4' = [x4 EXCEPT ![w].todo = @ \ {v},
                                ![w].got = IF Rewards!StillOpen(v) THEN @ \cup {v} ELSE @]
    BY <1>17 DEF Rewards!Take
  <2>2. x1' = x1 /\ x2' = x2 /\ x3' = x3
    BY <1>17 DEF Rewards!Take
  <2>3. PICK got : got = IF Rewards!StillOpen(v) THEN x4[w].got \cup {v} ELSE x4[w].got
    OBVIOUS
  <2>4. PICK t : t = [x4[w] EXCEPT !.todo = x4[w].todo \ {v}, !.got = got]
    OBVIOUS
  <2>5. x4[w] \in VoucherTask /\ x4[w].todo \subseteq DOMAIN x2 /\ x4[w].got \subseteq OpenIn(x2)
    BY <1>1, <1>2 DEF Claims
  <2>6. x4' = [x4 EXCEPT ![w] = t]
    BY <1>1, <2>1, <2>3, <2>4, <2>5 DEF VoucherTask
  <2>7. got \subseteq OpenIn(x2) /\ got \subseteq x4[w].got \cup {v}
    BY <2>3, <2>5 DEF Rewards!StillOpen, OpenIn
  <2>8. x4[w].todo \subseteq Nat /\ got \subseteq Nat
    BY <1>6, <2>5, <2>7
  <2>9. /\ t \in VoucherTask /\ t.todo = x4[w].todo \ {v} /\ t.got = got
        /\ t.doing = x4[w].doing /\ t.order = x4[w].order /\ t.wanted = x4[w].wanted
    BY <2>4, <2>5, <2>8 DEF VoucherTask
  <2>10. Claims(t, x2)
    BY <2>5, <2>7, <2>9 DEF Claims
  <2>11. Cardinality(t.todo) + Cardinality(t.got) <= Cardinality(x4[w].todo) + Cardinality(x4[w].got)
    <3>1. /\ IsFiniteSet(x4[w].todo) /\ IsFiniteSet(x4[w].got) /\ IsFiniteSet(x4[w].got \cup {v})
          /\ Cardinality(x4[w].todo) \in Nat /\ Cardinality(x4[w].got) \in Nat
      BY <1>6, <2>5, FS_AddElement
    <3>2. Cardinality(t.todo) = Cardinality(x4[w].todo) - 1
      BY <2>1, <2>9, <3>1, FS_RemoveElement
    <3>3. /\ Cardinality(got) <= Cardinality(x4[w].got \cup {v}) /\ Cardinality(got) \in Nat
          /\ Cardinality(x4[w].got \cup {v}) \in Nat
      BY <2>7, <3>1, FS_Subset, FS_CardinalityType
    <3>4. Cardinality(x4[w].got \cup {v}) <= Cardinality(x4[w].got) + 1
      BY <3>1, FS_AddElement
    <3> QED BY <2>9, <3>1, <3>2, <3>3, <3>4
  <2>12. Serves(t, x2, x3)
    <3>1. Cardinality(t.todo) \in Nat /\ Cardinality(t.got) \in Nat
      BY <1>6, <2>10 DEF Claims
    <3>2. Cardinality(x4[w].todo) \in Nat /\ Cardinality(x4[w].got) \in Nat /\ x4[w].wanted \in Int
      BY <1>6, <2>5, VoucherNumbers DEF VoucherTask
    <3>3. Serves(x4[w], x2, x3)
      BY <1>2
    <3>4. ASSUME t.doing = "checkout" PROVE Cardinality(t.todo) + Cardinality(t.got) <= t.wanted
      BY <2>9, <2>11, <3>1, <3>2, <3>3, <3>4 DEF Serves
    <3> QED BY <2>9, <3>3, <3>4 DEF Serves
  <2>13. ASSUME NEW u \in Request \ {w} PROVE Apart(t, x4[u])
    <3>1. v \notin x4[u].got
      BY <2>1 DEF Rewards!Held
    <3>2. Apart(x4[w], x4[u])
      BY <1>3
    <3> QED BY <2>7, <2>9, <3>1, <3>2 DEF Apart
  <2> QED BY <2>2, <2>6, <2>9, <2>10, <2>12, <2>13, RewardsTurn
<1>18. ASSUME NEW w \in Request, Rewards!Rollback(w) PROVE RewardsInv'
  <2>1. x4' = [x4 EXCEPT ![w] = Rewards!Idle] /\ x1' = x1 /\ x2' = x2 /\ x3' = x3
    BY <1>18 DEF Rewards!Rollback, Rewards!Done
  <2>2. /\ Rewards!Idle \in VoucherTask /\ Claims(Rewards!Idle, x2) /\ Serves(Rewards!Idle, x2, x3)
        /\ \A u \in Request \ {w} : Apart(Rewards!Idle, x4[u])
    BY VoucherNumbers DEF Claims, Serves, Apart
  <2> QED BY <2>1, <2>2, RewardsTurn
<1>19. ASSUME NEW w \in Request, Rewards!CommitRefund(w) PROVE RewardsInv'
  <2>1. PICK got : got = x4[w].got
    OBVIOUS
  <2>2. /\ x4[w].doing = "refund" /\ ~Rewards!MemberHeld(w) /\ x3' = x3
        /\ x4' = [x4 EXCEPT ![w] = Rewards!Idle]
    BY <1>19 DEF Rewards!CommitRefund, Rewards!Done
  <2>3. CASE ~(Cardinality(got) >= x4[w].wanted)
    <3>1. x1' = x1 /\ x2' = x2
      BY <1>19, <2>1, <2>3, VoucherNumbers DEF Rewards!CommitRefund
    <3>2. /\ Rewards!Idle \in VoucherTask /\ Claims(Rewards!Idle, x2) /\ Serves(Rewards!Idle, x2, x3)
          /\ \A u \in Request \ {w} : Apart(Rewards!Idle, x4[u])
      BY VoucherNumbers DEF Claims, Serves, Apart
    <3> QED BY <2>2, <3>1, <3>2, RewardsTurn
  <2>4. CASE Cardinality(got) >= x4[w].wanted
    <3>1. PICK v : v = [i \in DOMAIN x2 |-> IF i \in got THEN [x2[i] EXCEPT !.status = "refunded"] ELSE x2[i]]
      OBVIOUS
    <3>2. x1' = x1 + Cardinality(got) /\ x2' = v
      BY <1>19, <2>1, <2>4, <3>1, VoucherNumbers DEF Rewards!CommitRefund
    <3>3. got \subseteq OpenIn(x2) /\ Cardinality(got) \in Nat
      BY <1>6, <1>13, <2>1
    <3>4. \A i \in DOMAIN x2 : [x2[i] EXCEPT !.status = "refunded"] \in VoucherRow
      BY <1>12, VoucherRefunded
    <3>5. v \in Seq(VoucherRow) /\ Len(v) = Len(x2) /\ DOMAIN v = DOMAIN x2
      <4>1. v \in [1..Len(x2) -> VoucherRow]
        BY <1>6, <1>12, <3>1, <3>4
      <4> QED BY <1>6, <4>1
    <3>6. /\ \A i \in got : v[i].status = "refunded" /\ v[i].order = x2[i].order
          /\ \A i \in DOMAIN x2 : i \notin got => v[i] = x2[i]
      <4>1. \A i \in got : i \in DOMAIN x2 /\ v[i] = [x2[i] EXCEPT !.status = "refunded"]
        BY <1>6, <3>1, <3>3
      <4>2. \A i \in DOMAIN x2 : i \notin got => v[i] = x2[i]
        BY <3>1
      <4>3. \A i \in got : v[i].status = "refunded" /\ v[i].order = x2[i].order
        <5> TAKE i \in got
        <5>1. x2[i] \in VoucherRow /\ v[i] = [x2[i] EXCEPT !.status = "refunded"]
          BY <1>12, <4>1
        <5> QED BY <5>1, VoucherRefunded
      <4> QED BY <4>2, <4>3
    <3>7. OpenIn(v) = OpenIn(x2) \ got
      BY <3>3, <3>5, <3>6 DEF OpenIn
    <3>8. \A o \in Order : UsedIn(v, o) = UsedIn(x2, o)
      BY <3>3, <3>5, <3>6 DEF UsedIn, OpenIn
    <3>9. Cardinality(OpenIn(v)) = open - Cardinality(got)
      <4>1. OpenIn(x2) \cap got = got
        BY <3>3
      <4> QED BY <1>6, <1>9, <3>7, <4>1, FS_Difference
    <3>10. x1' + Cardinality(OpenIn(v)) + Sum(x3', Order) = FirstPoints
      BY <1>1, <1>8, <1>10, <2>2, <3>2, <3>3, <3>9
    <3>11. \A u \in Request \ {w} : /\ x4[u].doing # "checkout"
                                    /\ \A i \in x4[u].got : v[i].status = "open"
      <4>1. \A u \in Request \ {w} : x4[u].got \cap got = {} /\ x4[u].got \subseteq OpenIn(x2)
        BY <1>3, <1>13, <2>1 DEF Apart
      <4> QED BY <1>11, <2>2, <3>6, <4>1 DEF OpenIn
    <3>12. x1' \in Nat /\ Len(x2) <= Len(v) /\ Len(v) <= MaxVoucher
      BY <1>1, <1>6, <3>2, <3>3, <3>5
    <3>13. x3' \in [Order -> 0..MaxMeal] /\ \A o \in Order : Cardinality(UsedIn(v, o)) = x3'[o]
      BY <1>1, <1>4, <2>2, <3>8
    <3> QED BY <2>2, <3>2, <3>5, <3>10, <3>11, <3>12, <3>13, RewardsWritten
  <2> QED BY <2>3, <2>4
<1>20. ASSUME NEW w \in Request, NEW o \in Order, Rewards!CancelOrder(w, o) PROVE RewardsInv'
  <2>1. PICK used : used = UsedIn(x2, o)
    OBVIOUS
  <2>2. used = {i \in DOMAIN x2 : x2[i].order = o /\ x2[i].status = "used"}
    BY <2>1 DEF UsedIn
  <2>3. PICK v : v = [i \in DOMAIN x2 |-> IF i \in used THEN [x2[i] EXCEPT !.status = "refunded"] ELSE x2[i]]
    OBVIOUS
  <2>4. /\ x4[w] = Rewards!Idle /\ ~Rewards!MemberHeld(w) /\ x3' = [x3 EXCEPT ![o] = 0] /\ x4' = x4
        /\ x1' = x1 + Cardinality(used) /\ x2' = v
    BY <1>20, <2>2, <2>3, VoucherNumbers DEF Rewards!CancelOrder
  <2>5. used \subseteq DOMAIN x2 /\ Cardinality(used) = x3[o] /\ x3[o] \in Nat
    BY <1>1, <1>4, <1>6, <2>1, VoucherNumbers
  <2>6. \A i \in DOMAIN x2 : [x2[i] EXCEPT !.status = "refunded"] \in VoucherRow
    BY <1>12, VoucherRefunded
  <2>7. v \in Seq(VoucherRow) /\ Len(v) = Len(x2) /\ DOMAIN v = DOMAIN x2
    <3>1. v \in [1..Len(x2) -> VoucherRow]
      BY <1>6, <1>12, <2>3, <2>6
    <3> QED BY <1>6, <3>1
  <2>8. /\ \A i \in used : v[i].status = "refunded" /\ v[i].order = x2[i].order
        /\ \A i \in DOMAIN x2 : i \notin used => v[i] = x2[i]
    <3>1. \A i \in used : i \in DOMAIN x2 /\ v[i] = [x2[i] EXCEPT !.status = "refunded"]
      BY <2>3, <2>5
    <3>2. \A i \in DOMAIN x2 : i \notin used => v[i] = x2[i]
      BY <2>3
    <3>3. \A i \in used : v[i].status = "refunded" /\ v[i].order = x2[i].order
      <4> TAKE i \in used
      <4>1. x2[i] \in VoucherRow /\ v[i] = [x2[i] EXCEPT !.status = "refunded"]
        BY <1>12, <3>1
      <4> QED BY <4>1, VoucherRefunded
    <3> QED BY <3>2, <3>3
  <2>9. \A i \in used : x2[i].status = "used" /\ x2[i].order = o
    BY <2>2
  <2>10. OpenIn(v) = OpenIn(x2)
    BY <2>7, <2>8, <2>9 DEF OpenIn
  <2>11. UsedIn(v, o) = {} /\ \A q \in Order : q # o => UsedIn(v, q) = UsedIn(x2, q)
    BY <2>2, <2>7, <2>8, <2>9 DEF UsedIn
  <2>12. x3' \in [Order -> 0..MaxMeal] /\ \A q \in Order : x3'[q] = IF q = o THEN 0 ELSE x3[q]
    <3>1. 0 \in 0..MaxMeal
      BY VoucherNumbers
    <3> QED BY <1>1, <2>4, <3>1
  <2>13. \A q \in Order : Cardinality(UsedIn(v, q)) = x3'[q]
    BY <1>4, <2>11, <2>12, FS_EmptySet
  <2>14. Sum(x3', Order) = eaten - x3[o] + 0
    <3>1. x3'[o] \in Int /\ x3'[o] = 0 /\ \A q \in Order : o # q => x3'[q] = x3[q]
      BY <2>12
    <3> QED BY <1>7, <1>8, <3>1, VoucherNumbers, SumChange
  <2>15. x1' + Cardinality(OpenIn(v)) + Sum(x3', Order) = FirstPoints
    BY <1>1, <1>8, <1>9, <1>10, <2>4, <2>5, <2>10, <2>14
  <2>16. \A u \in Request \ {w} : /\ x4[u].doing # "checkout"
                                  /\ \A i \in x4[u].got : v[i].status = "open"
    <3>1. \A u \in Request \ {w} : x4[u].got \subseteq OpenIn(v)
      BY <1>13, <2>10
    <3> QED BY <1>11, <2>4, <3>1 DEF OpenIn
  <2>17. x1' \in Nat /\ Len(x2) <= Len(v) /\ Len(v) <= MaxVoucher
    BY <1>1, <1>6, <2>4, <2>5, <2>7
  <2>18. x4' = [x4 EXCEPT ![w] = Rewards!Idle]
    BY <1>1, <2>4
  <2> QED BY <2>4, <2>7, <2>12, <2>13, <2>15, <2>16, <2>17, <2>18, RewardsWritten
<1>21. ASSUME NEW w \in Request, Rewards!CommitCheckout(w) PROVE RewardsInv'
  <2>1. PICK got : got = x4[w].got
    OBVIOUS
  <2>2. PICK o : o = x4[w].order
    OBVIOUS
  <2>3. PICK wanted \in 0..MaxMeal : wanted = x4[w].wanted
    BY <1>1 DEF VoucherTask
  <2>4. x4[w].doing = "checkout" /\ x4[w].todo = {} /\ x4' = [x4 EXCEPT ![w] = Rewards!Idle]
    BY <1>21 DEF Rewards!CommitCheckout, Rewards!Done
  <2>5. /\ o \in Order /\ x3[o] = 0 /\ \A i \in DOMAIN x2 : x2[i].order # o
        /\ Cardinality({}) + Cardinality(got) <= wanted
    BY <1>2, <2>1, <2>2, <2>3, <2>4 DEF Serves
  <2>6. got \subseteq OpenIn(x2) /\ got \subseteq DOMAIN x2 /\ IsFiniteSet(got) /\ Cardinality(got) \in Nat
    BY <1>6, <1>13, <2>1
  <2>7. PICK missing \in Nat : missing = wanted - Cardinality(got)
    BY <2>5, <2>6, VoucherNumbers, FS_EmptySet
  <2>8. PICK r : r = [status |-> "used", order |-> o]
    OBVIOUS
  <2>9. r \in VoucherRow
    BY <2>5, <2>8 DEF VoucherRow, Rewards!Status
  <2>10. PICK z : z = [i \in DOMAIN x2 |-> IF i \in got THEN r ELSE x2[i]]
    OBVIOUS
  <2>11. PICK v : v = z \o [i \in 1..missing |-> r]
    OBVIOUS
  <2>12. /\ missing <= x1 /\ Len(x2) + missing <= MaxVoucher /\ x1' = x1 - missing
         /\ x3' = [x3 EXCEPT ![o] = wanted]
    BY <1>21, <2>1, <2>2, <2>3, <2>7, VoucherNumbers DEF Rewards!CommitCheckout
  <2>13. x2' = v
    BY <1>21, <2>1, <2>2, <2>3, <2>7, <2>8, <2>10, <2>11, VoucherNumbers
       DEF Rewards!CommitCheckout, Rewards!NewVouchers
  <2>14. z \in Seq(VoucherRow) /\ Len(z) = Len(x2)
    <3>1. z \in [1..Len(x2) -> VoucherRow]
      BY <1>6, <1>12, <2>9, <2>10
    <3> QED BY <1>6, <3>1
  <2>15. /\ v \in Seq(VoucherRow) /\ Len(v) = Len(x2) + missing
         /\ \A i \in 1..Len(v) : v[i] = IF i <= Len(x2) THEN z[i] ELSE r
    BY <2>9, <2>11, <2>14, VouchersAdded
  <2>16. DOMAIN v = 1..Len(v)
    BY <2>15
  <2>17. PICK new : new = Len(x2) + 1 .. Len(x2) + missing
    OBVIOUS
  <2>18. /\ DOMAIN v = DOMAIN x2 \cup new /\ new \cap DOMAIN x2 = {}
         /\ \A i \in new : v[i] = r
         /\ \A i \in got : v[i] = r
         /\ \A i \in DOMAIN x2 : i \notin got => v[i] = x2[i]
    <3>1. DOMAIN v = DOMAIN x2 \cup new /\ new \cap DOMAIN x2 = {}
      BY <1>6, <2>15, <2>16, <2>17
    <3>2. \A i \in new : v[i] = r
      BY <1>6, <2>15, <2>17
    <3>3. \A i \in DOMAIN x2 : v[i] = z[i]
      BY <1>6, <2>15
    <3> QED BY <2>6, <2>10, <3>1, <3>2, <3>3
  <2>19. OpenIn(v) = OpenIn(x2) \ got
    BY <2>8, <2>18 DEF OpenIn
  <2>20. UsedIn(v, o) = got \cup new
    BY <2>5, <2>6, <2>8, <2>18 DEF UsedIn
  <2>21. \A q \in Order : q # o => UsedIn(v, q) = UsedIn(x2, q)
    BY <2>6, <2>8, <2>18 DEF UsedIn, OpenIn
  <2>22. IsFiniteSet(new) /\ Cardinality(new) = missing
    BY <1>6, <2>7, <2>17, FS_Interval
  <2>23. Cardinality(got \cup new) = wanted
    <3>1. got \cap new = {} /\ Cardinality({}) = 0
      BY <2>6, <2>18, FS_EmptySet
    <3>2. Cardinality(got \cup new) = Cardinality(got) + Cardinality(new) - Cardinality(got \cap new)
      BY <2>6, <2>22, FS_Union
    <3>3. wanted \in Int
      BY VoucherNumbers
    <3> QED BY <2>6, <2>7, <2>22, <3>1, <3>2, <3>3
  <2>24. Cardinality(OpenIn(v)) = open - Cardinality(got)
    <3>1. OpenIn(x2) \cap got = got
      BY <2>6
    <3> QED BY <1>6, <1>9, <2>19, <3>1, FS_Difference
  <2>25. x3' \in [Order -> 0..MaxMeal] /\ \A q \in Order : x3'[q] = IF q = o THEN wanted ELSE x3[q]
    BY <1>1, <2>12
  <2>26. \A q \in Order : Cardinality(UsedIn(v, q)) = x3'[q]
    BY <1>4, <2>20, <2>21, <2>23, <2>25
  <2>27. wanted \in Int
    BY VoucherNumbers
  <2>28. Sum(x3', Order) = eaten + wanted
    <3>1. x3'[o] \in Int /\ x3'[o] = wanted /\ \A q \in Order : o # q => x3'[q] = x3[q]
      BY <2>5, <2>25, <2>27
    <3>2. Sum(x3', Order) = Sum(x3, Order) - x3[o] + x3'[o]
      BY <1>7, <2>5, <3>1, VoucherNumbers, SumChange
    <3>3. Sum(x3', Order) = eaten - x3[o] + wanted
      BY <1>8, <3>1, <3>2
    <3> QED BY <1>8, <2>5, <2>27, <3>3
  <2>29. x1' + Cardinality(OpenIn(v)) + Sum(x3', Order) = FirstPoints
    <3>1. PICK n \in Nat : n = Cardinality(got)
      BY <2>6
    <3>2. x1 \in Int /\ x1' = x1 - missing /\ missing = wanted - n
      BY <1>1, <2>7, <2>12, <3>1
    <3>3. Cardinality(OpenIn(v)) = open - n
      BY <2>24, <3>1
    <3>4. x1' + (open - n) + (eaten + wanted) = FirstPoints
      BY <1>10, <2>27, <3>2
    <3> QED BY <2>28, <3>3, <3>4
  <2>30. \A u \in Request \ {w} : /\ x4[u].doing # "checkout"
                                  /\ \A i \in x4[u].got : v[i].status = "open"
    <3>1. \A u \in Request \ {w} : /\ x4[u].got \cap got = {} /\ x4[u].got \subseteq OpenIn(x2)
                                   /\ x4[u].doing # "checkout"
      BY <1>3, <1>13, <2>1, <2>4 DEF Apart
    <3> QED BY <2>18, <3>1 DEF OpenIn
  <2>31. x1' \in Nat /\ Len(x2) <= Len(v) /\ Len(v) <= MaxVoucher
    BY <1>1, <1>6, <2>7, <2>12, <2>15, VoucherNumbers
  <2> QED BY <2>4, <2>13, <2>15, <2>25, <2>26, <2>29, <2>30, <2>31, RewardsWritten
<1> QED BY <1>14, <1>15, <1>16, <1>17, <1>18, <1>19, <1>20, <1>21 DEF Rewards!Next

LEMMA RewardsHolds == RewardsInv => Rewards!TypeOK /\ Rewards!MealOrPoints
<1> SUFFICES ASSUME RewardsInv PROVE Rewards!TypeOK /\ Rewards!MealOrPoints
  OBVIOUS
<1>1. /\ x1 \in Nat /\ x2 \in Seq(VoucherRow) /\ Len(x2) <= MaxVoucher
      /\ x3 \in [Order -> 0..MaxMeal] /\ x4 \in [Request -> VoucherTask]
      /\ \A w \in Request : Claims(x4[w], x2)
      /\ x1 + Cardinality(OpenIn(x2)) + Sum(x3, Order) = FirstPoints
  BY DEF RewardsInv
<1>2. OpenIn(x2) \in SUBSET (DOMAIN x2) /\ Cardinality(OpenIn(x2)) \in Nat
  BY <1>1, VouchersFinite
<1>3. \A o \in Order : x3[o] \in Nat
  BY <1>1, VoucherNumbers
<1>4. Sum(x3, Order) \in Nat
  BY <1>3, VoucherNumbers, SumNat
<1>5. x1 \in 0..FirstPoints
  BY <1>1, <1>2, <1>4, VoucherNumbers
<1>6. \A v \in DOMAIN x2 : x2[v] \in VoucherRow
  BY <1>1
<1>7. \A w \in Request : /\ x4[w].doing \in {"idle", "checkout", "refund"}
                         /\ x4[w].got \cup x4[w].todo \subseteq DOMAIN x2
  BY <1>1, <1>2 DEF Claims, VoucherTask
<1>8. Rewards!TypeOK
  BY <1>1, <1>5, <1>6, <1>7 DEF Rewards!TypeOK, VoucherRow, Rewards!NoOrder
<1>9. Rewards!Open = OpenIn(x2)
  BY DEF Rewards!Open, OpenIn
<1>10. Rewards!MapThenSumSet(LAMBDA o : x3[o], Order) = Sum(x3, Order)
  <2>1. PICK S : S = Order
    OBVIOUS
  <2>2. Rewards!MapThenSumSet(LAMBDA o : x3[o], S) = (CHOOSE g : Adds(x3, g, S))[S]
    BY DEF Rewards!MapThenSumSet, Rewards!MapThenFoldSet, Adds, Pick
  <2> QED BY <2>1, <2>2, SumAdds
<1>11. Rewards!MealOrPoints
  BY <1>1, <1>9, <1>10, VoucherNumbers DEF Rewards!MealOrPoints
<1> QED BY <1>8, <1>11

-----------------------------------------------------------------------------
\* The expiry of points (PointExpiry).

LEMMA ExpiryNumbers == Valid \in Nat /\ MaxRows \in Nat /\ MaxPoints \in Nat
  BY AdvanceAssumption

\* What holds at 0 and goes on from each number to the next.
LEMMA Climb ==
    ASSUME NEW n \in Nat, NEW S, 0 \in S, \A i \in 1..n : i - 1 \in S => i \in S
    PROVE  \A i \in 0..n : i \in S
<1> SUFFICES ASSUME NEW i \in 0..n, i \notin S PROVE FALSE
  OBVIOUS
<1>0. PICK T : T = {k \in 0..n : k \notin S}
  OBVIOUS
<1>1. T \in SUBSET Nat /\ T # {}
  BY <1>0
<1>2. PICK m \in T : \A k \in T : <<k, m>> \notin OpToRel(<, Nat)
  BY <1>1, WFMin, NatLessThanWellFounded, Zenon
<1>3. m \in 1..n /\ m - 1 \in 0..n /\ m - 1 < m /\ m \notin S
  <2>1. m \in 0..n /\ m \notin S /\ m # 0
    BY <1>0
  <2> QED BY <2>1
<1>4. <<m - 1, m>> \in OpToRel(<, Nat)
  BY <1>3 DEF OpToRel
<1>5. m - 1 \notin T
  BY <1>2, <1>4
<1> QED BY <1>0, <1>3, <1>5

\* A step taken again and again.
Run(s, A, a, n, F) == s \in [0..n -> A] /\ s[0] = a /\ \A i \in 1..n : s[i] = F[<<s[i - 1], i>>]

LEMMA Iterated ==
    ASSUME NEW A, NEW a \in A, NEW n \in Nat, NEW F \in [A \X (1..n) -> A]
    PROVE  \E s : Run(s, A, a, n, F)
<1> DEFINE Runs(s, k) == s \in [0..k -> A] /\ s[0] = a /\ \A i \in 1..k : s[i] = F[<<s[i - 1], i>>]
           S == {k \in 0..n : \E s : Runs(s, k)}
<1>1. 0 \in S
  <2>1. PICK s : s = [i \in 0..0 |-> a]
    OBVIOUS
  <2>2. 0 \in 0..0 /\ 1..0 = {} /\ 0 \in 0..n
    OBVIOUS
  <2>3. Runs(s, 0)
    BY <2>1, <2>2
  <2> QED BY <2>2, <2>3
<1>2. ASSUME NEW k \in 1..n, k - 1 \in S PROVE k \in S
  <2>1. PICK s : Runs(s, k - 1)
    BY <1>2
  <2>2. s[k - 1] \in A /\ F[<<s[k - 1], k>>] \in A
    BY <2>1
  <2>3. PICK t : t = [i \in 0..k |-> IF i = k THEN F[<<s[k - 1], k>>] ELSE s[i]]
    OBVIOUS
  <2>4. t \in [0..k -> A] /\ \A i \in 0..(k - 1) : t[i] = s[i]
    BY <2>1, <2>2, <2>3
  <2>5. t[0] = a
    BY <2>1, <2>4
  <2>6. \A i \in 1..k : t[i] = F[<<t[i - 1], i>>]
    <3> TAKE i \in 1..k
    <3>1. t[i - 1] = s[i - 1]
      BY <2>4
    <3>2. CASE i = k
      <4>1. t[i] = F[<<s[i - 1], i>>]
        BY <2>3, <3>2
      <4> QED BY <3>1, <4>1
    <3>3. CASE i # k
      BY <2>1, <2>4, <3>1, <3>3
    <3> QED BY <3>2, <3>3
  <2>7. Runs(t, k)
    BY <2>4, <2>5, <2>6
  <2> QED BY <2>7
<1>3. \A i \in 0..n : i \in S
  <2> HIDE DEF S
  <2> QED BY <1>1, <1>2, Climb
<1>4. n \in S
  BY <1>3
<1> QED BY <1>4 DEF Run

\* A part of a sum of natural numbers, and what is not in it.
LEMMA SumPart ==
    ASSUME NEW T, IsFiniteSet(T), NEW S \in SUBSET T, NEW f, \A x \in T : f[x] \in Nat
    PROVE  Sum(f, S) <= Sum(f, T) /\ Sum(f, S) \in Nat /\ Sum(f, T) \in Nat
<1>1. IsFiniteSet(S) /\ IsFiniteSet(T \ S) /\ S \cup (T \ S) = T /\ S \cap (T \ S) = {}
  BY FS_Subset
<1>2. Sum(f, S) \in Nat /\ Sum(f, T \ S) \in Nat
  BY <1>1, SumNat
<1>3. Sum(f, T) = Sum(f, S) + Sum(f, T \ S)
  BY <1>1, SumUnion
<1> QED BY <1>2, <1>3

\* Of lots by the time they were collected, what is left of those before c.
Left(lots, c) == Sum(lots, {j \in DOMAIN lots : j < c})

LEMMA LeftStep ==
    ASSUME NEW N \in Nat, NEW L \in SUBSET (1..N), NEW f \in [L -> Nat], NEW c \in Int
    PROVE  /\ Left(f, c) \in Nat
           /\ c \in L => Left(f, c + 1) = Left(f, c) + f[c]
           /\ c \notin L => Left(f, c + 1) = Left(f, c)
<1>1. PICK S, T : S = {j \in L : j < c} /\ T = {j \in L : j < c + 1}
  OBVIOUS
<1>2. Left(f, c) = Sum(f, S) /\ Left(f, c + 1) = Sum(f, T)
  BY <1>1 DEF Left
<1>a. \A j \in L : j \in Int /\ (j < c + 1 <=> j < c \/ j = c)
  OBVIOUS
<1>3. S \subseteq L /\ T \subseteq L /\ \A x \in L : f[x] \in Nat /\ f[x] \in Int /\ x \in Int
  BY <1>1, <1>a
<1>4. IsFiniteSet(S) /\ IsFiniteSet(T)
  <2>1. IsFiniteSet(1..N)
    BY FS_Interval
  <2> QED BY <1>3, <2>1, FS_Subset
<1>5. Sum(f, S) \in Nat
  BY <1>3, <1>4, SumNat
<1>6. CASE c \in L
  <2>1. c \in T /\ c \notin S
    BY <1>1, <1>6
  <2>3. \A j \in L : j < c + 1 <=> j < c \/ j = c
    BY <1>a
  <2>4. T \ {c} = S
    BY <1>1, <2>1, <2>3
  <2>2. Sum(f, T) = f[c] + Sum(f, S)
    BY <1>3, <1>4, <2>1, <2>4, SumTake
  <2> QED BY <1>2, <1>3, <1>5, <1>6, <2>2
<1>7. CASE c \notin L
  <2>1. T = S
    BY <1>1, <1>a, <1>7
  <2> QED BY <1>2, <1>5, <1>7, <2>1
<1> QED BY <1>6, <1>7

LEMMA LeftEnds ==
    ASSUME NEW N \in Nat, NEW L \in SUBSET (1..N), NEW f \in [L -> Nat], NEW c \in Int
    PROVE  /\ c <= 1 => Left(f, c) = 0
           /\ c > N => Left(f, c) = Left(f, N + 1)
<1>a. \A j \in L : j \in Int /\ 1 <= j /\ j <= N
  OBVIOUS
<1>1. c <= 1 => {j \in L : j < c} = {}
  <2>1. c <= 1 => \A j \in L : ~(j < c)
    BY <1>a
  <2> QED BY <2>1
<1>2. c > N => {j \in L : j < c} = {j \in L : j < N + 1}
  <2>1. c > N => \A j \in L : j < c <=> j < N + 1
    BY <1>a
  <2> QED BY <2>1
<1> QED BY <1>1, <1>2, SumEmpty DEF Left

\* Of two collections of lots, what is left is compared lot by lot.
LEMMA LeftClimbs ==
    ASSUME NEW N \in Nat, NEW L \in SUBSET (1..N), NEW f \in [L -> Nat], NEW g \in [Int -> Int],
           \A c \in Int : c <= 1 => g[c] = 0,
           \A c \in Int : c > N => g[c] = g[N + 1],
           \A c \in 1..N : Left(f, c) = g[c] =>
                           /\ c \in L => Left(f, c) + f[c] = g[c + 1]
                           /\ c \notin L => Left(f, c) = g[c + 1]
    PROVE  \A c \in Int : Left(f, c) = g[c]
<1>0. ASSUME NEW c \in Int
      PROVE  /\ c <= 1 => Left(f, c) = 0
             /\ c > N => Left(f, c) = Left(f, N + 1)
  BY LeftEnds
<1>1. PICK S : S = {k \in 0..N : Left(f, k + 1) = g[k + 1]}
  OBVIOUS
<1>2. 0 \in S
  <2>1. Left(f, 1) = 0 /\ g[1] = 0
    <3>1. 1 \in Int /\ 1 <= 1
      OBVIOUS
    <3> QED BY <1>0, <3>1
  <2>2. 0 \in 0..N /\ 0 + 1 = 1
    OBVIOUS
  <2> QED BY <1>1, <2>1, <2>2
<1>3. ASSUME NEW k \in 1..N, k - 1 \in S PROVE k \in S
  <2>1. k \in Int /\ k - 1 + 1 = k /\ k \in 0..N
    OBVIOUS
  <2>2. Left(f, k) = g[k]
    BY <1>1, <1>3, <2>1
  <2>3. /\ k \in L => Left(f, k + 1) = Left(f, k) + f[k]
        /\ k \notin L => Left(f, k + 1) = Left(f, k)
    BY <2>1, LeftStep
  <2>4. Left(f, k + 1) = g[k + 1]
    BY <2>2, <2>3
  <2> QED BY <1>1, <2>1, <2>4
<1>4. \A k \in 0..N : k \in S
  BY <1>2, <1>3, Climb
<1>5. \A k \in 0..N : Left(f, k + 1) = g[k + 1]
  BY <1>1, <1>4
<1> TAKE c \in Int
<1>6. CASE c <= 1
  BY <1>0, <1>6
<1>7. CASE c > N
  <2>1. N \in 0..N
    OBVIOUS
  <2> QED BY <1>5, <1>7, <2>1, LeftEnds
<1>8. CASE c > 1 /\ c <= N
  <2>1. c - 1 \in 0..N /\ c - 1 + 1 = c
    BY <1>8
  <2> QED BY <1>5, <2>1
<1> QED BY <1>6, <1>7, <1>8

\* n points are used up, oldest first.
UsedFrom(lots, n) ==
    [i \in DOMAIN lots |-> Expiry!Positive(lots[i] - Expiry!Positive(n - Left(lots, i)))]

LEMMA UsedFromLeaves ==
    ASSUME NEW N \in Nat, NEW L \in SUBSET (1..N), NEW f \in [L -> Nat], NEW n \in Nat
    PROVE  /\ UsedFrom(f, n) \in [L -> Nat]
           /\ \A c \in Int : Left(UsedFrom(f, n), c) = Expiry!Positive(Left(f, c) - n)
<1>1. \A c \in Int : /\ Left(f, c) \in Nat
                     /\ c \in L => Left(f, c + 1) = Left(f, c) + f[c]
                     /\ c \notin L => Left(f, c + 1) = Left(f, c)
  BY LeftStep
<1>2. PICK u, g : u = UsedFrom(f, n) /\ g = [c \in Int |-> Expiry!Positive(Left(f, c) - n)]
  OBVIOUS
<1>3. \A i \in L : /\ i \in Int /\ f[i] \in Nat
                   /\ u[i] = Expiry!Positive(f[i] - Expiry!Positive(n - Left(f, i)))
  BY <1>2 DEF UsedFrom
<1>4. u \in [L -> Nat]
  <2>1. \A i \in L : u[i] \in Nat
    BY <1>1, <1>3 DEF Expiry!Positive
  <2>2. u = [i \in L |-> u[i]]
    BY <1>2 DEF UsedFrom
  <2> QED BY <2>1, <2>2
<1>5. \A c \in Int : g[c] = Expiry!Positive(Left(f, c) - n)
  BY <1>2
<1>6. g \in [Int -> Int]
  <2>1. \A c \in Int : g[c] \in Int
    BY <1>1, <1>5 DEF Expiry!Positive
  <2> QED BY <1>2, <2>1
<1>7. \A c \in Int : c <= 1 => g[c] = 0
  BY <1>5, LeftEnds DEF Expiry!Positive
<1>8. \A c \in Int : c > N => g[c] = g[N + 1]
  BY <1>5, LeftEnds
<1>9. ASSUME NEW c \in 1..N, Left(u, c) = g[c]
      PROVE  /\ c \in L => Left(u, c) + u[c] = g[c + 1]
             /\ c \notin L => Left(u, c) = g[c + 1]
  <2>1. c \in Int /\ c + 1 \in Int
    OBVIOUS
  <2>2. PICK a : a = Left(f, c)
    OBVIOUS
  <2>3. a \in Nat /\ g[c] = Expiry!Positive(a - n)
    BY <1>1, <1>5, <2>1, <2>2
  <2>4. g[c + 1] = Expiry!Positive(Left(f, c + 1) - n)
    BY <1>5, <2>1
  <2>5. CASE c \in L
    <3>1. f[c] \in Nat /\ u[c] = Expiry!Positive(f[c] - Expiry!Positive(n - a))
      BY <1>3, <2>2, <2>5
    <3>2. g[c + 1] = Expiry!Positive(a + f[c] - n)
      BY <1>1, <2>1, <2>2, <2>4, <2>5
    <3>3. Expiry!Positive(a - n) + Expiry!Positive(f[c] - Expiry!Positive(n - a))
            = Expiry!Positive(a + f[c] - n)
      BY <2>3, <3>1 DEF Expiry!Positive
    <3> QED BY <1>9, <2>3, <2>5, <3>1, <3>2, <3>3
  <2>6. CASE c \notin L
    <3>1. g[c + 1] = Expiry!Positive(a - n)
      BY <1>1, <2>1, <2>2, <2>3, <2>4, <2>6
    <3>2. g[c] \in Int
      BY <1>6, <2>1
    <3> QED BY <1>9, <2>3, <2>6, <3>1, <3>2
  <2> QED BY <2>5, <2>6
<1>10. \A c \in Int : Left(u, c) = g[c]
  BY <1>4, <1>6, <1>7, <1>8, <1>9, LeftClimbs
<1> QED BY <1>2, <1>4, <1>5, <1>10

\* A ledger: what is collected adds, what is spent takes away.
Ledger(r) ==
    /\ r \in Seq([kind : Expiry!Kind, delta : Int])
    /\ \A i \in 1..Len(r) :
           /\ r[i].kind = "earn" => r[i].delta > 0
           /\ r[i].kind = "spend" => r[i].delta < 0
           /\ r[i].kind = "none" => r[i].delta = 0

Deltas(r) == [i \in DOMAIN r |-> r[i].delta]
Of(r, K, kind) == {i \in K : r[i].kind = kind}

\* What the rows up to the i-th have collected before c, and spent.
Collected(r, K, i, c) == Sum(Deltas(r), {j \in Of(r, K, "earn") : j <= i /\ j < c})
Spent(r, K, i) == -Sum(Deltas(r), {j \in Of(r, K, "spend") : j <= i})

\* What was collected before the time limit of the i-th row and not spent before it.
OpenAt(r, K, i) ==
    Sum(Deltas(r), {j \in Of(r, K, "earn") : j < i - Valid})
    + Sum(Deltas(r), {j \in Of(r, K, "spend") : j < i})

LEMMA LedgerRow ==
    ASSUME NEW r, Ledger(r), NEW K \in SUBSET (1..Len(r))
    PROVE  /\ Len(r) \in Nat /\ DOMAIN r = 1..Len(r) /\ IsFiniteSet(K)
           /\ \A i \in K : /\ i \in 1..Len(r) /\ i \in Int /\ r[i].delta \in Int
                           /\ r[i].kind \in Expiry!Kind /\ Deltas(r)[i] = r[i].delta
<1>1. Len(r) \in Nat /\ DOMAIN r = 1..Len(r)
      /\ \A i \in 1..Len(r) : r[i] \in [kind : Expiry!Kind, delta : Int]
  <2>1. PICK S : S = [kind : Expiry!Kind, delta : Int]
    OBVIOUS
  <2>2. r \in Seq(S)
    BY <2>1 DEF Ledger
  <2>3. Len(r) \in Nat /\ DOMAIN r = 1..Len(r) /\ \A i \in 1..Len(r) : r[i] \in S
    BY <2>2
  <2> QED BY <2>1, <2>3
<1>2. IsFiniteSet(1..Len(r))
  BY <1>1, FS_Interval
<1>3. IsFiniteSet(K)
  BY <1>2, FS_Subset
<1>4. ASSUME NEW i \in K
      PROVE  /\ i \in 1..Len(r) /\ i \in Int /\ r[i].delta \in Int
             /\ r[i].kind \in Expiry!Kind /\ Deltas(r)[i] = r[i].delta
  <2>1. i \in 1..Len(r)
    OBVIOUS
  <2>2. i \in Int /\ i \in DOMAIN r /\ r[i] \in [kind : Expiry!Kind, delta : Int]
    BY <1>1, <2>1
  <2> QED BY <2>1, <2>2 DEF Deltas
<1> QED BY <1>1, <1>3, <1>4

LEMMA CollectedStep ==
    ASSUME NEW r, Ledger(r), NEW K \in SUBSET (1..Len(r)), NEW i \in 1..Len(r), NEW c \in Int
    PROVE  /\ Collected(r, K, i - 1, c) \in Nat
           /\ i \in Of(r, K, "earn") /\ i < c =>
                  Collected(r, K, i, c) = Collected(r, K, i - 1, c) + r[i].delta
           /\ ~(i \in Of(r, K, "earn") /\ i < c) => Collected(r, K, i, c) = Collected(r, K, i - 1, c)
<1>1. PICK S, T : /\ S = {j \in Of(r, K, "earn") : j <= i - 1 /\ j < c}
                  /\ T = {j \in Of(r, K, "earn") : j <= i /\ j < c}
  OBVIOUS
<1>2. Collected(r, K, i - 1, c) = Sum(Deltas(r), S) /\ Collected(r, K, i, c) = Sum(Deltas(r), T)
  BY <1>1 DEF Collected
<1>3. S \subseteq K /\ T \subseteq K
  BY <1>1 DEF Of
<1>4. IsFiniteSet(S) /\ IsFiniteSet(T)
  BY <1>3, LedgerRow, FS_Subset
<1>5. \A j \in S \cup T : Deltas(r)[j] \in Nat /\ Deltas(r)[j] \in Int
  <2> TAKE j \in S \cup T
  <2>1. j \in K /\ r[j].kind = "earn"
    BY <1>1 DEF Of
  <2>2. j \in 1..Len(r) /\ r[j].delta \in Int /\ Deltas(r)[j] = r[j].delta
    BY <2>1, LedgerRow
  <2>3. r[j].delta > 0
    BY <2>1, <2>2 DEF Ledger
  <2> QED BY <2>2, <2>3
<1>6. Sum(Deltas(r), S) \in Nat
  BY <1>4, <1>5, SumNat
<1>a. \A j \in K : j \in Int
  BY LedgerRow
<1>b. \A j \in K : j <= i <=> j <= i - 1 \/ j = i
  BY <1>a
<1>7. CASE i \in Of(r, K, "earn") /\ i < c
  <2>1. i \in K /\ i \in T /\ i \notin S
    BY <1>1, <1>7 DEF Of
  <2>2. T \ {i} = S
    BY <1>1, <1>b, <2>1 DEF Of
  <2>3. Sum(Deltas(r), T) = Deltas(r)[i] + Sum(Deltas(r), S)
    BY <1>4, <1>5, <2>1, <2>2, SumTake
  <2>4. Deltas(r)[i] = r[i].delta /\ r[i].delta \in Int
    BY <2>1, LedgerRow
  <2> QED BY <1>2, <1>6, <1>7, <2>3, <2>4
<1>8. CASE ~(i \in Of(r, K, "earn") /\ i < c)
  <2>1. T = S
    BY <1>1, <1>b, <1>8 DEF Of
  <2> QED BY <1>2, <1>6, <1>8, <2>1
<1> QED BY <1>7, <1>8

\* More is collected before a later time; nothing after the last row.
LEMMA CollectedMore ==
    ASSUME NEW r, Ledger(r), NEW K \in SUBSET (1..Len(r)), NEW i \in 0..Len(r), NEW c \in Int,
           NEW d \in Int, c <= d
    PROVE  /\ Collected(r, K, i, c) \in Nat /\ Collected(r, K, i, d) \in Nat
           /\ Collected(r, K, i, c) <= Collected(r, K, i, d)
           /\ c > i => Collected(r, K, i, c) = Collected(r, K, i, d)
<1>1. PICK S, T : /\ S = {j \in Of(r, K, "earn") : j <= i /\ j < c}
                  /\ T = {j \in Of(r, K, "earn") : j <= i /\ j < d}
  OBVIOUS
<1>2. Collected(r, K, i, c) = Sum(Deltas(r), S) /\ Collected(r, K, i, d) = Sum(Deltas(r), T)
  BY <1>1 DEF Collected
<1>a. \A j \in K : j \in Int
  BY LedgerRow
<1>b. \A j \in K : (j < c => j < d) /\ (c > i /\ j <= i => j < c)
  BY <1>a
<1>3. S \subseteq T /\ T \subseteq K
  BY <1>1, <1>b DEF Of
<1>4. IsFiniteSet(T)
  BY <1>3, LedgerRow, FS_Subset
<1>5. \A j \in T : Deltas(r)[j] \in Nat
  <2> TAKE j \in T
  <2>1. j \in K /\ r[j].kind = "earn"
    BY <1>1 DEF Of
  <2>2. j \in 1..Len(r) /\ r[j].delta \in Int /\ Deltas(r)[j] = r[j].delta
    BY <2>1, LedgerRow
  <2>3. r[j].delta > 0
    BY <2>1, <2>2 DEF Ledger
  <2> QED BY <2>2, <2>3
<1>6. Sum(Deltas(r), S) <= Sum(Deltas(r), T) /\ Sum(Deltas(r), S) \in Nat /\ Sum(Deltas(r), T) \in Nat
  BY <1>3, <1>4, <1>5, SumPart
<1>7. c > i => S = T
  BY <1>1, <1>b DEF Of
<1> QED BY <1>2, <1>6, <1>7

LEMMA SpentStep ==
    ASSUME NEW r, Ledger(r), NEW K \in SUBSET (1..Len(r)), NEW i \in 1..Len(r)
    PROVE  /\ Spent(r, K, i - 1) \in Int
           /\ i \in Of(r, K, "spend") => Spent(r, K, i) = Spent(r, K, i - 1) - r[i].delta
           /\ i \notin Of(r, K, "spend") => Spent(r, K, i) = Spent(r, K, i - 1)
<1>1. PICK S, T : /\ S = {j \in Of(r, K, "spend") : j <= i - 1}
                  /\ T = {j \in Of(r, K, "spend") : j <= i}
  OBVIOUS
<1>2. Spent(r, K, i - 1) = -Sum(Deltas(r), S) /\ Spent(r, K, i) = -Sum(Deltas(r), T)
  BY <1>1 DEF Spent
<1>3. S \subseteq K /\ T \subseteq K
  BY <1>1 DEF Of
<1>4. IsFiniteSet(S) /\ IsFiniteSet(T)
  BY <1>3, LedgerRow, FS_Subset
<1>5. \A j \in S \cup T : Deltas(r)[j] \in Int
  BY <1>3, LedgerRow
<1>6. Sum(Deltas(r), S) \in Int
  BY <1>4, <1>5, SumInt
<1>a. \A j \in K : j \in Int
  BY LedgerRow
<1>b. \A j \in K : j <= i <=> j <= i - 1 \/ j = i
  BY <1>a
<1>7. CASE i \in Of(r, K, "spend")
  <2>1. i \in K /\ i \in T /\ i \notin S
    BY <1>1, <1>7 DEF Of
  <2>2. T \ {i} = S
    BY <1>1, <1>b, <2>1 DEF Of
  <2>3. Sum(Deltas(r), T) = Deltas(r)[i] + Sum(Deltas(r), S)
    BY <1>4, <1>5, <2>1, <2>2, SumTake
  <2>4. Deltas(r)[i] = r[i].delta /\ r[i].delta \in Int
    BY <2>1, LedgerRow
  <2> QED BY <1>2, <1>6, <1>7, <2>3, <2>4
<1>8. CASE i \notin Of(r, K, "spend")
  <2>1. T = S
    BY <1>1, <1>b, <1>8 DEF Of
  <2> QED BY <1>2, <1>6, <1>8, <2>1
<1> QED BY <1>7, <1>8

LEMMA SpentNat ==
    ASSUME NEW r, Ledger(r), NEW K \in SUBSET (1..Len(r))
    PROVE  \A i \in 0..Len(r) : Spent(r, K, i) \in Nat
<1>1. PICK S : S = {i \in 0..Len(r) : Spent(r, K, i) \in Nat}
  OBVIOUS
<1>2. Len(r) \in Nat /\ 0 \in 0..Len(r)
  BY LedgerRow
<1>3. 0 \in S
  <2>1. \A j \in K : ~(j <= 0)
    <3>1. \A j \in K : j \in 1..Len(r)
      OBVIOUS
    <3> QED BY <1>2, <3>1
  <2>2. {j \in Of(r, K, "spend") : j <= 0} = {}
    BY <1>2, <2>1 DEF Of
  <2>3. Sum(Deltas(r), {}) = 0
    BY SumEmpty
  <2> QED BY <1>1, <1>2, <2>2, <2>3 DEF Spent
<1>4. ASSUME NEW i \in 1..Len(r), i - 1 \in S PROVE i \in S
  <2>1. Spent(r, K, i - 1) \in Nat
    BY <1>1, <1>4
  <2>2. CASE i \in Of(r, K, "spend")
    <3>1. r[i].delta \in Int /\ r[i].delta < 0
      BY <2>2, LedgerRow DEF Of, Ledger
    <3>2. Spent(r, K, i) = Spent(r, K, i - 1) - r[i].delta
      BY <2>2, SpentStep
    <3> QED BY <1>1, <1>2, <2>1, <3>1, <3>2
  <2>3. CASE i \notin Of(r, K, "spend")
    BY <1>1, <1>2, <2>1, <2>3, SpentStep
  <2> QED BY <2>2, <2>3
<1>5. \A i \in 0..Len(r) : i \in S
  BY <1>2, <1>3, <1>4, Climb
<1> QED BY <1>1, <1>5

LEMMA OpenIs ==
    ASSUME NEW r, Ledger(r), NEW K \in SUBSET (1..Len(r)), NEW i \in 1..(Len(r) + 1)
    PROVE  OpenAt(r, K, i) = Collected(r, K, i - 1, i - Valid) - Spent(r, K, i - 1)
<1>1. Valid \in Nat /\ Len(r) \in Nat /\ i \in Int
  BY ExpiryNumbers, LedgerRow
<1>a. \A j \in K : j \in Int
  BY LedgerRow
<1>b. \A j \in K : (j < i - Valid => j <= i - 1) /\ (j < i <=> j <= i - 1)
  BY <1>1, <1>a
<1>2. {j \in Of(r, K, "earn") : j < i - Valid} = {j \in Of(r, K, "earn") : j <= i - 1 /\ j < i - Valid}
  BY <1>b DEF Of
<1>3. {j \in Of(r, K, "spend") : j < i} = {j \in Of(r, K, "spend") : j <= i - 1}
  BY <1>b DEF Of
<1>4. PICK a, b : /\ a = Sum(Deltas(r), {j \in Of(r, K, "earn") : j <= i - 1 /\ j < i - Valid})
                  /\ b = Sum(Deltas(r), {j \in Of(r, K, "spend") : j <= i - 1})
  OBVIOUS
<1>5. Collected(r, K, i - 1, i - Valid) = a /\ Spent(r, K, i - 1) = -b /\ OpenAt(r, K, i) = a + b
  BY <1>2, <1>3, <1>4 DEF Collected, Spent, OpenAt
<1>6. i - 1 \in 0..Len(r) /\ i - Valid \in Int
  BY <1>1
<1>7. a \in Int
  BY <1>5, <1>6, CollectedMore
<1>8. b \in Int
  <2>1. {j \in Of(r, K, "spend") : j <= i - 1} \subseteq K
    BY DEF Of
  <2>2. IsFiniteSet({j \in Of(r, K, "spend") : j <= i - 1})
    BY <2>1, LedgerRow, FS_Subset
  <2> QED BY <1>4, <2>1, <2>2, LedgerRow, SumInt
<1> QED BY <1>5, <1>7, <1>8

\* What a replay of some rows keeps.
Rest(K) == [lots : [Of(x1, K, "earn") -> Nat], debt : Nat, correct : Nat]

\* What is left before the i-th row: of what was collected before each time what was neither
\* spent nor expired; a debt only when nothing is left.
Faithful(b, K, i) ==
    /\ b \in Rest(K)
    /\ \A j \in Of(x1, K, "earn") : j > i => b.lots[j] = 0
    /\ \A c \in Int : Left(b.lots, c)
                        = Expiry!Positive(Collected(x1, K, i, c) - Spent(x1, K, i) - b.correct)
    /\ b.debt = Expiry!Positive(Spent(x1, K, i) + b.correct - Collected(x1, K, i, Len(x1) + 1))

\* The row an expiry, a purchase and a collection leave.
AfterExpiry(b, i) ==
    [lots |-> [j \in DOMAIN b.lots |-> IF j < i - Valid THEN 0 ELSE b.lots[j]], debt |-> b.debt,
     correct |-> b.correct + Left(b.lots, i - Valid)]
AfterSpending(b, i) ==
    [lots |-> UsedFrom(b.lots, -x1[i].delta),
     debt |-> b.debt + Expiry!Positive(-x1[i].delta - Left(b.lots, Len(x1) + 1)),
     correct |-> b.correct]
AfterCollecting(b, i) ==
    [lots |-> [b.lots EXCEPT ![i] = Expiry!Positive(x1[i].delta - b.debt)],
     debt |-> Expiry!Positive(b.debt - x1[i].delta), correct |-> b.correct]

LEMMA BeforeIs == ASSUME NEW lots, NEW c PROVE Expiry!Before(lots, c) = Left(lots, c)
<1>1. PICK S : S = {j \in DOMAIN lots : j < c}
  OBVIOUS
<1>2. Expiry!Before(lots, c) = (CHOOSE g : Adds(lots, g, S))[S]
  BY <1>1 DEF Expiry!Before, Expiry!MapThenSumSet, Expiry!MapThenFoldSet, Adds, Pick
<1> QED BY <1>1, <1>2, SumAdds DEF Left

LEMMA UseUpIs == ASSUME NEW lots, NEW n PROVE Expiry!UseUp(lots, n) = UsedFrom(lots, n)
  BY BeforeIs DEF Expiry!UseUp, UsedFrom

LEMMA ReplayedIs ==
    ASSUME Ledger(x1), NEW K \in SUBSET (1..Len(x1)), NEW b \in Rest(K), NEW i \in K
    PROVE  /\ x1[i].kind = "expire" => Expiry!Replayed(b, i) = AfterExpiry(b, i)
           /\ x1[i].kind = "spend" => Expiry!Replayed(b, i) = AfterSpending(b, i)
           /\ x1[i].kind = "earn" => Expiry!Replayed(b, i) = AfterCollecting(b, i)
           /\ x1[i].kind \notin {"expire", "spend", "earn"} => Expiry!Replayed(b, i) = b
<1>1. PICK l, d, c : b = [lots |-> l, debt |-> d, correct |-> c]
  BY DEF Rest
<1>2. b.lots = l /\ b.debt = d /\ b.correct = c
  BY <1>1
<1>3. Expiry!Now = Len(x1) + 1
  BY DEF Expiry!Now
<1>4. ASSUME x1[i].kind = "expire" PROVE Expiry!Replayed(b, i) = AfterExpiry(b, i)
  <2>1. Expiry!Replayed(b, i) = [b EXCEPT !.correct = c + Left(l, i - Valid),
                                          !.lots = [j \in DOMAIN l |-> IF j < i - Valid THEN 0 ELSE l[j]]]
    BY <1>2, <1>4, BeforeIs DEF Expiry!Replayed
  <2>2. PICK m : m = [j \in DOMAIN l |-> IF j < i - Valid THEN 0 ELSE l[j]]
    OBVIOUS
  <2>3. Expiry!Replayed(b, i) = [lots |-> m, debt |-> d, correct |-> c + Left(l, i - Valid)]
    BY <1>1, <2>1, <2>2
  <2>4. AfterExpiry(b, i) = [lots |-> m, debt |-> d, correct |-> c + Left(l, i - Valid)]
    BY <1>2, <2>2 DEF AfterExpiry
  <2> QED BY <2>3, <2>4
<1>5. ASSUME x1[i].kind = "spend" PROVE Expiry!Replayed(b, i) = AfterSpending(b, i)
  <2>1. Expiry!Replayed(b, i)
          = [b EXCEPT !.lots = UsedFrom(l, -x1[i].delta),
                      !.debt = d + Expiry!Positive(-x1[i].delta - Left(l, Len(x1) + 1))]
    BY <1>2, <1>3, <1>5, BeforeIs, UseUpIs DEF Expiry!Replayed
  <2> QED BY <1>1, <1>2, <2>1 DEF AfterSpending
<1>6. ASSUME x1[i].kind = "earn" PROVE Expiry!Replayed(b, i) = AfterCollecting(b, i)
  <2>1. Expiry!Replayed(b, i) = [b EXCEPT !.lots[i] = Expiry!Positive(x1[i].delta - d),
                                          !.debt = Expiry!Positive(d - x1[i].delta)]
    BY <1>2, <1>6 DEF Expiry!Replayed
  <2> QED BY <1>1, <1>2, <2>1 DEF AfterCollecting
<1>7. ASSUME x1[i].kind \notin {"expire", "spend", "earn"} PROVE Expiry!Replayed(b, i) = b
  BY <1>7 DEF Expiry!Replayed
<1> QED BY <1>4, <1>5, <1>6, <1>7

\* What belongs to a row that is no purchase, collection or expiry.
LEMMA OtherRow ==
    ASSUME Ledger(x1), NEW K \in SUBSET (1..Len(x1)), NEW i \in 1..Len(x1), NEW b, Faithful(b, K, i - 1),
           i \notin Of(x1, K, "earn"), i \notin Of(x1, K, "spend")
    PROVE  Faithful(b, K, i)
<1>1. Len(x1) + 1 \in Int /\ \A c \in Int : Collected(x1, K, i, c) = Collected(x1, K, i - 1, c)
  BY CollectedStep, LedgerRow
<1>2. Spent(x1, K, i) = Spent(x1, K, i - 1)
  BY SpentStep
<1>3. \A j \in Of(x1, K, "earn") : j > i => j > i - 1
  <2>1. \A j \in Of(x1, K, "earn") : j \in Int
    BY LedgerRow DEF Of
  <2> QED BY <2>1
<1> QED BY <1>1, <1>2, <1>3 DEF Faithful

LEMMA SpendRow ==
    ASSUME Ledger(x1), NEW K \in SUBSET (1..Len(x1)), NEW i \in Of(x1, K, "spend"), NEW b,
           Faithful(b, K, i - 1)
    PROVE  Faithful(AfterSpending(b, i), K, i)
<1>1. /\ i \in K /\ i \in 1..Len(x1) /\ i \in Int /\ Len(x1) \in Nat /\ i \notin Of(x1, K, "earn")
      /\ x1[i].delta \in Int /\ x1[i].delta < 0
  <2>1. i \in K /\ x1[i].kind = "spend"
    BY DEF Of
  <2>2. i \in 1..Len(x1) /\ i \in Int /\ Len(x1) \in Nat /\ x1[i].delta \in Int
    BY <2>1, LedgerRow
  <2> QED BY <2>1, <2>2 DEF Ledger, Of
<1>2. PICK n : n = -x1[i].delta
  OBVIOUS
<1>3. PICK L : L = Of(x1, K, "earn")
  OBVIOUS
<1>4. n \in Nat /\ L \in SUBSET (1..Len(x1))
  <2>1. n \in Nat
    BY <1>1, <1>2
  <2> QED BY <1>3, <2>1 DEF Of
<1>5. b.lots \in [L -> Nat] /\ b.debt \in Nat /\ b.correct \in Nat
  BY <1>3 DEF Faithful, Rest
<1>6. PICK u : u = UsedFrom(b.lots, n)
  OBVIOUS
<1>7. u \in [L -> Nat] /\ \A c \in Int : Left(u, c) = Expiry!Positive(Left(b.lots, c) - n)
  BY <1>1, <1>4, <1>5, <1>6, UsedFromLeaves
<1>8. PICK s : s = Spent(x1, K, i - 1)
  OBVIOUS
<1>9. s \in Int /\ Spent(x1, K, i) = s + n
  BY <1>1, <1>2, <1>8, SpentStep
<1>10. \A c \in Int : Collected(x1, K, i, c) = Collected(x1, K, i - 1, c) /\ Collected(x1, K, i, c) \in Nat
  BY <1>1, CollectedStep
<1>11. PICK a : a = AfterSpending(b, i)
  OBVIOUS
<1>12. /\ a = [lots |-> u, debt |-> b.debt + Expiry!Positive(n - Left(b.lots, Len(x1) + 1)),
               correct |-> b.correct]
  BY <1>2, <1>6, <1>11 DEF AfterSpending
<1>13. ASSUME NEW c \in Int
       PROVE  Left(u, c) = Expiry!Positive(Collected(x1, K, i, c) - (s + n) - b.correct)
  <2>1. PICK e : e = Collected(x1, K, i, c)
    OBVIOUS
  <2>2. e \in Nat /\ Left(b.lots, c) = Expiry!Positive(e - s - b.correct)
    BY <1>8, <1>10, <2>1 DEF Faithful
  <2>3. Expiry!Positive(Expiry!Positive(e - s - b.correct) - n) = Expiry!Positive(e - (s + n) - b.correct)
    BY <1>4, <1>5, <1>9, <2>2 DEF Expiry!Positive
  <2> QED BY <1>7, <2>1, <2>2, <2>3
<1>14. /\ b.debt + Expiry!Positive(n - Left(b.lots, Len(x1) + 1))
            = Expiry!Positive((s + n) + b.correct - Collected(x1, K, i, Len(x1) + 1))
       /\ b.debt + Expiry!Positive(n - Left(b.lots, Len(x1) + 1)) \in Nat
  <2>1. PICK e : e = Collected(x1, K, i, Len(x1) + 1)
    OBVIOUS
  <2>2. Len(x1) + 1 \in Int
    BY <1>1
  <2>3. e \in Nat /\ Left(b.lots, Len(x1) + 1) = Expiry!Positive(e - s - b.correct)
    BY <1>8, <1>10, <2>1, <2>2 DEF Faithful
  <2>4. b.debt = Expiry!Positive(s + b.correct - e)
    BY <1>8, <1>10, <2>1, <2>2 DEF Faithful
  <2>5. Expiry!Positive(s + b.correct - e) + Expiry!Positive(n - Expiry!Positive(e - s - b.correct))
          = Expiry!Positive((s + n) + b.correct - e)
    <3>1. PICK k : k = s + b.correct
      OBVIOUS
    <3>2. /\ k \in Int /\ s + b.correct - e = k - e /\ e - s - b.correct = e - k
          /\ (s + n) + b.correct - e = k + n - e
      BY <1>4, <1>5, <1>9, <2>3, <3>1
    <3>3. n \in Nat /\ e \in Nat
      BY <1>4, <2>3
    <3>4. Expiry!Positive(k - e) + Expiry!Positive(n - Expiry!Positive(e - k)) = Expiry!Positive(k + n - e)
      BY <3>2, <3>3 DEF Expiry!Positive
    <3> QED BY <3>1, <3>2, <3>4
  <2>6. Expiry!Positive((s + n) + b.correct - e) \in Nat
    BY <1>4, <1>5, <1>9, <2>3 DEF Expiry!Positive
  <2> QED BY <2>1, <2>3, <2>4, <2>5, <2>6
<1>15. a \in Rest(K)
  BY <1>3, <1>5, <1>7, <1>12, <1>14 DEF Rest
<1>16. ASSUME NEW j \in L, j > i PROVE u[j] = 0
  <2>1. j \in Int /\ j > i - 1
    BY <1>1, <1>4, <1>16
  <2>2. b.lots[j] = 0
    BY <1>3, <2>1 DEF Faithful
  <2>3. Left(b.lots, j) \in Nat
    BY <1>1, <1>4, <1>5, <2>1, LeftStep
  <2>4. u[j] = Expiry!Positive(0 - Expiry!Positive(n - Left(b.lots, j)))
    BY <1>5, <1>6, <2>2 DEF UsedFrom
  <2> QED BY <1>4, <2>3, <2>4 DEF Expiry!Positive
<1> QED BY <1>3, <1>9, <1>11, <1>12, <1>13, <1>14, <1>15, <1>16 DEF Faithful

LEMMA ExpiryCounts ==
    ASSUME NEW early \in Int, NEW e \in Int, NEW k \in Int
    PROVE  /\ Expiry!Positive(early - k) \in Nat
           /\ early <= e => /\ Expiry!Positive(e - k) - Expiry!Positive(early - k)
                                = Expiry!Positive(e - (k + Expiry!Positive(early - k)))
                            /\ Expiry!Positive(k - e) = Expiry!Positive(k + Expiry!Positive(early - k) - e)
           /\ e <= early => Expiry!Positive(e - (k + Expiry!Positive(early - k))) = 0
  BY DEF Expiry!Positive

LEMMA ExpireRow ==
    ASSUME Ledger(x1), NEW K \in SUBSET (1..Len(x1)), NEW i \in Of(x1, K, "expire"), NEW b,
           Faithful(b, K, i - 1)
    PROVE  /\ Faithful(AfterExpiry(b, i), K, i)
           /\ AfterExpiry(b, i).correct
                = IF OpenAt(x1, K, i) > b.correct THEN OpenAt(x1, K, i) ELSE b.correct
<1>1. /\ i \in K /\ i \in 1..Len(x1) /\ i \in Int /\ Len(x1) \in Nat
      /\ i \notin Of(x1, K, "earn") /\ i \notin Of(x1, K, "spend")
  <2>1. i \in K /\ x1[i].kind = "expire"
    BY DEF Of
  <2> QED BY <2>1, LedgerRow DEF Of
<1>2. PICK limit : limit = i - Valid
  OBVIOUS
<1>3. limit \in Int /\ limit <= i /\ limit <= Len(x1) + 1 /\ Len(x1) + 1 \in Int /\ i - 1 \in 0..Len(x1)
  BY <1>1, <1>2, ExpiryNumbers
<1>4. PICK L, l, k, s, early :
          /\ L = Of(x1, K, "earn") /\ l = b.lots /\ s = Spent(x1, K, i - 1) /\ k = s + b.correct
          /\ early = Collected(x1, K, i - 1, limit)
  OBVIOUS
<1>5. L \in SUBSET (1..Len(x1)) /\ l \in [L -> Nat] /\ b.debt \in Nat /\ b.correct \in Nat
  BY <1>4 DEF Faithful, Rest, Of
<1>6. s \in Int /\ Spent(x1, K, i) = s /\ k \in Int
  BY <1>1, <1>4, <1>5, SpentStep
<1>7. \A c \in Int : Collected(x1, K, i, c) = Collected(x1, K, i - 1, c) /\ Collected(x1, K, i, c) \in Nat
  BY <1>1, CollectedStep
<1>8. ASSUME NEW c \in Int PROVE Left(l, c) = Expiry!Positive(Collected(x1, K, i, c) - k)
  <2>1. Left(l, c) = Expiry!Positive(Collected(x1, K, i, c) - s - b.correct)
    BY <1>4, <1>7 DEF Faithful
  <2>2. PICK e : e = Collected(x1, K, i, c)
    OBVIOUS
  <2>3. e \in Nat
    BY <1>7, <2>2
  <2>4. e - s - b.correct = e - k
    BY <1>4, <1>5, <1>6, <2>3
  <2> QED BY <2>1, <2>2, <2>4
<1>9. early \in Nat /\ early = Collected(x1, K, i, limit) /\ Left(l, limit) = Expiry!Positive(early - k)
  BY <1>3, <1>4, <1>7, <1>8
<1>10. ASSUME NEW c \in Int
       PROVE  /\ c <= limit => Collected(x1, K, i, c) <= early
              /\ limit <= c => early <= Collected(x1, K, i, c)
  BY <1>3, <1>4, <1>7, CollectedMore
<1>11. PICK m, a : m = [j \in DOMAIN l |-> IF j < limit THEN 0 ELSE l[j]] /\ a = AfterExpiry(b, i)
  OBVIOUS
<1>12. a = [lots |-> m, debt |-> b.debt, correct |-> b.correct + Expiry!Positive(early - k)]
  BY <1>2, <1>4, <1>9, <1>11 DEF AfterExpiry
<1>13. m \in [L -> Nat] /\ \A j \in L : m[j] = IF j < limit THEN 0 ELSE l[j]
  BY <1>5, <1>11
<1>14. Expiry!Positive(early - k) \in Nat
  BY <1>6, <1>9, ExpiryCounts
<1>15. a \in Rest(K)
  <2>1. b.correct + Expiry!Positive(early - k) \in Nat
    BY <1>5, <1>14
  <2> QED BY <1>4, <1>5, <1>12, <1>13, <2>1 DEF Rest
<1>16. ASSUME NEW c \in Int
       PROVE  Left(m, c) = Expiry!Positive(Collected(x1, K, i, c) - (k + Expiry!Positive(early - k)))
  <2>1. PICK S, T : S = {j \in L : j < c /\ j < limit} /\ T = {j \in L : j < c /\ ~(j < limit)}
    OBVIOUS
  <2>2. /\ IsFiniteSet(S) /\ IsFiniteSet(T) /\ S \cap T = {} /\ S \cup T = {j \in L : j < c}
        /\ S \cup T \subseteq L
    <3>1. IsFiniteSet(L)
      BY <1>4, LedgerRow, FS_Subset DEF Of
    <3>2. S \subseteq L /\ T \subseteq L
      BY <2>1
    <3>3. IsFiniteSet(S) /\ IsFiniteSet(T)
      BY <3>1, <3>2, FS_Subset
    <3> QED BY <2>1, <3>2, <3>3
  <2>3. \A j \in S \cup T : l[j] \in Int /\ m[j] \in Int
    BY <1>5, <1>13, <2>2
  <2>4. \A j \in S : m[j] = 0
    BY <1>13, <2>1
  <2>5. \A j \in T : m[j] = l[j]
    BY <1>13, <2>1
  <2>6. Sum(m, S) = 0 /\ Sum(m, T) = Sum(l, T) /\ Sum(l, S) \in Int /\ Sum(l, T) \in Int
    BY <2>2, <2>3, <2>4, <2>5, SumZero, SumSame, SumInt
  <2>7. Left(m, c) = Sum(m, S) + Sum(m, T) /\ Left(l, c) = Sum(l, S) + Sum(l, T)
    <3>1. Left(m, c) = Sum(m, S \cup T) /\ Left(l, c) = Sum(l, S \cup T)
      BY <1>5, <1>13, <2>2 DEF Left
    <3> QED BY <2>2, <2>3, <3>1, SumUnion
  <2>8. \A j \in L : j \in Int
    BY <1>5
  <2>9. PICK e : e = Collected(x1, K, i, c)
    OBVIOUS
  <2>10. e \in Nat /\ Left(l, c) = Expiry!Positive(e - k)
    BY <1>7, <1>8, <2>9
  <2>11. CASE c <= limit
    <3>1. \A j \in L : j < c => j < limit
      BY <1>3, <2>8, <2>11
    <3>2. T = {}
      BY <2>1, <3>1
    <3>3. Left(m, c) = 0
      BY <2>6, <2>7, <3>2, SumEmpty
    <3>4. e <= early
      BY <1>10, <2>9, <2>11
    <3> QED BY <1>6, <1>9, <2>9, <2>10, <3>3, <3>4, ExpiryCounts
  <2>12. CASE limit <= c
    <3>1. \A j \in L : j < limit => j < c
      BY <1>3, <2>8, <2>12
    <3>2. S = {j \in L : j < limit}
      BY <2>1, <3>1
    <3>3. Sum(l, S) = Expiry!Positive(early - k)
      BY <1>5, <1>9, <3>2 DEF Left
    <3>4. Left(m, c) = Expiry!Positive(e - k) - Expiry!Positive(early - k)
      BY <2>6, <2>7, <2>10, <3>3
    <3>5. early <= e
      BY <1>10, <2>9, <2>12
    <3> QED BY <1>6, <1>9, <2>9, <2>10, <3>4, <3>5, ExpiryCounts
  <2> QED BY <1>3, <2>11, <2>12
<1>17. b.debt = Expiry!Positive(k + Expiry!Positive(early - k) - Collected(x1, K, i, Len(x1) + 1))
  <2>1. PICK e : e = Collected(x1, K, i, Len(x1) + 1)
    OBVIOUS
  <2>2. e \in Nat /\ early <= e
    BY <1>3, <1>7, <1>10, <2>1
  <2>3. b.debt = Expiry!Positive(s + b.correct - e)
    BY <1>3, <1>4, <1>7, <2>1 DEF Faithful
  <2>4. s + b.correct - e = k - e
    BY <1>4, <1>5, <1>6, <2>2
  <2>5. b.debt = Expiry!Positive(k - e)
    BY <2>3, <2>4
  <2> QED BY <1>6, <1>9, <2>1, <2>2, <2>5, ExpiryCounts
<1>18. ASSUME NEW j \in L, j > i PROVE m[j] = 0
  <2>1. j \in Int /\ j > i - 1
    BY <1>1, <1>5, <1>18
  <2>2. l[j] = 0
    BY <1>4, <2>1 DEF Faithful
  <2> QED BY <1>13, <2>2
<1>19. PICK q : q = Expiry!Positive(early - k)
  OBVIOUS
<1>20. \A c \in Int : Left(a.lots, c) = Expiry!Positive(Collected(x1, K, i, c) - s - a.correct)
  <2> TAKE c \in Int
  <2>1. PICK e : e = Collected(x1, K, i, c)
    OBVIOUS
  <2>2. e \in Nat /\ q \in Nat
    BY <1>7, <1>14, <1>19, <2>1
  <2>3. e - s - (b.correct + q) = e - (k + q)
    BY <1>4, <1>5, <1>6, <2>2
  <2> QED BY <1>12, <1>16, <1>19, <2>1, <2>3
<1>21. a.debt = Expiry!Positive(s + a.correct - Collected(x1, K, i, Len(x1) + 1))
  <2>1. PICK e : e = Collected(x1, K, i, Len(x1) + 1)
    OBVIOUS
  <2>2. a.debt = Expiry!Positive(k + q - e) /\ a.correct = b.correct + q
    BY <1>12, <1>17, <1>19, <2>1
  <2>3. s \in Int /\ b.correct \in Nat /\ q \in Nat /\ e \in Nat /\ k = s + b.correct
    BY <1>3, <1>4, <1>5, <1>6, <1>7, <1>14, <1>19, <2>1
  <2>4. s + (b.correct + q) - e = k + q - e
    BY <2>3
  <2> QED BY <2>1, <2>2, <2>4
<1>22. Faithful(a, K, i)
  BY <1>4, <1>6, <1>12, <1>15, <1>18, <1>20, <1>21 DEF Faithful
<1>23. OpenAt(x1, K, i) = early - s
  <2>1. i \in 1..(Len(x1) + 1)
    BY <1>1
  <2> QED BY <1>2, <1>4, <2>1, OpenIs
<1>24. b.correct + Expiry!Positive(early - k) = IF early - s > b.correct THEN early - s ELSE b.correct
  BY <1>4, <1>5, <1>6, <1>9 DEF Expiry!Positive
<1> QED BY <1>11, <1>12, <1>22, <1>23, <1>24

LEMMA EarnRow ==
    ASSUME Ledger(x1), NEW K \in SUBSET (1..Len(x1)), NEW i \in Of(x1, K, "earn"), NEW b,
           Faithful(b, K, i - 1)
    PROVE  Faithful(AfterCollecting(b, i), K, i)
<1>1. /\ i \in K /\ i \in 1..Len(x1) /\ i \in Int /\ Len(x1) \in Nat /\ i \notin Of(x1, K, "spend")
      /\ x1[i].delta \in Int /\ x1[i].delta > 0
  <2>1. i \in K /\ x1[i].kind = "earn"
    BY DEF Of
  <2>2. i \in 1..Len(x1) /\ i \in Int /\ Len(x1) \in Nat /\ x1[i].delta \in Int
    BY <2>1, LedgerRow
  <2> QED BY <2>1, <2>2 DEF Ledger, Of
<1>2. PICK n, L, l, s, k, e :
          /\ n = x1[i].delta /\ L = Of(x1, K, "earn") /\ l = b.lots /\ s = Spent(x1, K, i - 1)
          /\ k = s + b.correct /\ e = Collected(x1, K, i - 1, Len(x1) + 1)
  OBVIOUS
<1>3. /\ L \in SUBSET (1..Len(x1)) /\ l \in [L -> Nat] /\ b.debt \in Nat /\ b.correct \in Nat
      /\ n \in Nat /\ i \in L
  <2>1. n \in Nat
    BY <1>1, <1>2
  <2> QED BY <1>2, <2>1 DEF Faithful, Rest, Of
<1>4. s \in Int /\ Spent(x1, K, i) = s /\ k \in Int
  BY <1>1, <1>2, <1>3, SpentStep
<1>5. ASSUME NEW c \in Int
      PROVE  /\ Collected(x1, K, i - 1, c) \in Nat
             /\ c > i => Collected(x1, K, i, c) = Collected(x1, K, i - 1, c) + n
             /\ ~(c > i) => Collected(x1, K, i, c) = Collected(x1, K, i - 1, c)
  <2>1. /\ Collected(x1, K, i - 1, c) \in Nat
        /\ i \in Of(x1, K, "earn") /\ i < c =>
               Collected(x1, K, i, c) = Collected(x1, K, i - 1, c) + x1[i].delta
        /\ ~(i \in Of(x1, K, "earn") /\ i < c) => Collected(x1, K, i, c) = Collected(x1, K, i - 1, c)
    BY <1>1, CollectedStep
  <2>2. i \in Int /\ (c > i <=> i < c)
    BY <1>1
  <2> QED BY <1>1, <1>2, <1>3, <2>1, <2>2
<1>6. \A c \in Int : c > i => Collected(x1, K, i - 1, c) = e
  <2> TAKE c \in Int
  <2> HAVE c > i
  <2>1. /\ i - 1 \in 0..Len(x1) /\ c > i - 1 /\ Len(x1) + 1 > i - 1 /\ Len(x1) + 1 \in Int
        /\ (c <= Len(x1) + 1 \/ Len(x1) + 1 <= c)
    BY <1>1
  <2> QED BY <1>2, <2>1, CollectedMore
<1>7. e \in Nat /\ Len(x1) + 1 \in Int /\ Len(x1) + 1 > i
  BY <1>1, <1>2, <1>5
<1>8. ASSUME NEW c \in Int PROVE Left(l, c) = Expiry!Positive(Collected(x1, K, i - 1, c) - k)
  <2>1. Left(l, c) = Expiry!Positive(Collected(x1, K, i - 1, c) - s - b.correct)
    BY <1>2 DEF Faithful
  <2>2. PICK f : f = Collected(x1, K, i - 1, c)
    OBVIOUS
  <2>3. f \in Nat
    BY <1>5, <2>2
  <2>4. f - s - b.correct = f - k
    BY <1>2, <1>3, <1>4, <2>3
  <2> QED BY <2>1, <2>2, <2>4
<1>9. b.debt = Expiry!Positive(k - e)
  <2>1. b.debt = Expiry!Positive(s + b.correct - e)
    BY <1>2, <1>7 DEF Faithful
  <2>2. s + b.correct - e = k - e
    BY <1>2, <1>3, <1>4, <1>7
  <2> QED BY <2>1, <2>2
<1>a. PICK f : f = e + n
  OBVIOUS
<1>b. e \in Int /\ k \in Int /\ n \in Nat
  BY <1>3, <1>4, <1>7
<1>c. /\ Expiry!Positive(e - k) + Expiry!Positive(n - Expiry!Positive(k - e)) = Expiry!Positive(f - k)
      /\ Expiry!Positive(Expiry!Positive(k - e) - n) = Expiry!Positive(k - f)
  <2>1. /\ Expiry!Positive(e - k) + Expiry!Positive(n - Expiry!Positive(k - e))
             = Expiry!Positive((e + n) - k)
        /\ Expiry!Positive(Expiry!Positive(k - e) - n) = Expiry!Positive(k - (e + n))
    BY <1>b DEF Expiry!Positive
  <2> QED BY <1>a, <2>1
<1>10. l[i] = 0
  <2>1. i > i - 1
    BY <1>1
  <2> QED BY <1>2, <1>3, <2>1 DEF Faithful
<1>11. PICK a, v, m : /\ a = AfterCollecting(b, i) /\ v = Expiry!Positive(n - b.debt)
                      /\ m = [l EXCEPT ![i] = v]
  OBVIOUS
<1>12. a = [lots |-> m, debt |-> Expiry!Positive(b.debt - n), correct |-> b.correct]
  BY <1>2, <1>11 DEF AfterCollecting
<1>13. v \in Nat /\ Expiry!Positive(b.debt - n) \in Nat
  BY <1>3, <1>11 DEF Expiry!Positive
<1>14. m \in [L -> Nat] /\ m[i] = v /\ \A j \in L : j # i => m[j] = l[j]
  BY <1>3, <1>11, <1>13
<1>15. a \in Rest(K)
  BY <1>2, <1>3, <1>12, <1>13, <1>14 DEF Rest
<1>16. ASSUME NEW c \in Int PROVE Left(m, c) = Expiry!Positive(Collected(x1, K, i, c) - k)
  <2>1. PICK S : S = {j \in L : j < c}
    OBVIOUS
  <2>2. IsFiniteSet(S) /\ S \subseteq L
    <3>1. IsFiniteSet(L)
      BY <1>2, LedgerRow, FS_Subset DEF Of
    <3>2. S \subseteq L
      BY <2>1
    <3> QED BY <3>1, <3>2, FS_Subset
  <2>3. Left(l, c) = Sum(l, S) /\ Left(m, c) = Sum(m, S)
    BY <1>3, <1>14, <2>1 DEF Left
  <2>4. CASE c > i
    <3>1. i \in S
      BY <1>1, <1>3, <2>1, <2>4
    <3>2. \A j \in S : l[j] \in Int /\ (i # j => m[j] = l[j])
      BY <1>3, <1>14, <2>2
    <3>3. Sum(m, S) = Sum(l, S) - l[i] + m[i]
      <4>1. m[i] \in Int
        BY <1>13, <1>14
      <4> QED BY <2>2, <3>1, <3>2, <4>1, SumChange
    <3>4. Sum(l, S) = Expiry!Positive(e - k) /\ Collected(x1, K, i, c) = f
      BY <1>5, <1>6, <1>8, <1>a, <2>3, <2>4
    <3>5. Expiry!Positive(e - k) \in Int
      BY <1>4, <1>7 DEF Expiry!Positive
    <3>6. Left(m, c) = Expiry!Positive(e - k) + v
      BY <1>10, <1>13, <1>14, <2>3, <3>3, <3>4, <3>5
    <3>7. v = Expiry!Positive(n - Expiry!Positive(k - e))
      BY <1>9, <1>11
    <3>8. Expiry!Positive(e - k) + v = Expiry!Positive(f - k)
      BY <1>c, <3>7
    <3> QED BY <3>4, <3>6, <3>8
  <2>5. CASE ~(c > i)
    <3>1. \A j \in S : m[j] = l[j]
      <4>1. \A j \in S : j # i
        BY <1>1, <2>1, <2>5
      <4> QED BY <1>14, <2>2, <4>1
    <3>2. Sum(m, S) = Sum(l, S)
      BY <2>2, <3>1, SumSame
    <3> QED BY <1>5, <1>8, <2>3, <2>5, <3>2
  <2> QED BY <2>4, <2>5
<1>17. ASSUME NEW j \in L, j > i PROVE m[j] = 0
  <2>1. j \in Int /\ j > i - 1 /\ j # i
    BY <1>1, <1>3, <1>17
  <2>2. l[j] = 0
    BY <1>2, <2>1 DEF Faithful
  <2> QED BY <1>14, <2>1, <2>2
<1>18. \A c \in Int : Left(a.lots, c) = Expiry!Positive(Collected(x1, K, i, c) - s - a.correct)
  <2> TAKE c \in Int
  <2>1. PICK h : h = Collected(x1, K, i, c)
    OBVIOUS
  <2>2. h \in Nat
    <3>1. i \in 0..Len(x1) /\ c <= c
      BY <1>1
    <3> QED BY <2>1, <3>1, CollectedMore
  <2>3. h - s - b.correct = h - k
    BY <1>2, <1>3, <1>4, <2>2
  <2> QED BY <1>12, <1>16, <2>1, <2>3
<1>19. a.debt = Expiry!Positive(s + a.correct - Collected(x1, K, i, Len(x1) + 1))
  <2>1. Collected(x1, K, i, Len(x1) + 1) = f
    BY <1>2, <1>5, <1>7, <1>a
  <2>2. a.debt = Expiry!Positive(Expiry!Positive(k - e) - n)
    BY <1>9, <1>12
  <2>3. a.debt = Expiry!Positive(k - f)
    BY <1>c, <2>2
  <2>4. s + a.correct - f = k - f
    <3>1. s + a.correct = k
      BY <1>2, <1>12
    <3>2. PICK d : d = a.correct
      OBVIOUS
    <3>3. s \in Int /\ d \in Int /\ f \in Int
      BY <1>3, <1>4, <1>a, <1>b, <1>12, <3>2
    <3>4. s + d - f = k - f
      BY <3>1, <3>2, <3>3
    <3> QED BY <3>2, <3>4
  <2> QED BY <2>1, <2>3, <2>4
<1>20. Faithful(a, K, i)
  BY <1>2, <1>4, <1>12, <1>15, <1>17, <1>18, <1>19 DEF Faithful
<1> QED BY <1>11, <1>20

\* What has been due at each row, with the expiries up to there.
IsDue(g, r, K) ==
    g = [i \in 0..Len(r) |->
            IF i = 0 THEN 0
            ELSE IF i \in Of(r, K, "expire") /\ OpenAt(r, K, i) > g[i - 1] THEN OpenAt(r, K, i)
            ELSE g[i - 1]]

TakeRow(b, K, i) == IF i \in K THEN Expiry!Replayed(b, i) ELSE b
AtFirst(K) == [lots |-> [j \in Of(x1, K, "earn") |-> 0], debt |-> 0, correct |-> 0]
IsReplay(s, K) == s = [i \in 0..Len(x1) |-> IF i = 0 THEN AtFirst(K) ELSE TakeRow(s[i - 1], K, i)]

LEMMA RowTaken ==
    ASSUME Ledger(x1), NEW K \in SUBSET (1..Len(x1)), NEW b \in Rest(K), NEW i \in 1..Len(x1)
    PROVE  TakeRow(b, K, i) \in Rest(K)
<1>1. PICK L : L = Of(x1, K, "earn")
  OBVIOUS
<1>2. L \in SUBSET (1..Len(x1)) /\ b.lots \in [L -> Nat] /\ b.debt \in Nat /\ b.correct \in Nat
      /\ Rest(K) = [lots : [L -> Nat], debt : Nat, correct : Nat] /\ Len(x1) \in Nat
  BY <1>1, LedgerRow DEF Rest, Of
<1>3. CASE i \notin K
  BY <1>3 DEF TakeRow
<1>4. CASE i \in K
  <2>1. TakeRow(b, K, i) = Expiry!Replayed(b, i) /\ x1[i].delta \in Int /\ i \in Int
    BY <1>4, LedgerRow DEF TakeRow
  <2>2. CASE x1[i].kind = "expire"
    <3>1. Left(b.lots, i - Valid) \in Nat
      <4>1. i - Valid \in Int
        BY <2>1, ExpiryNumbers
      <4> QED BY <1>2, <4>1, LeftStep
    <3>2. PICK m : m = [j \in DOMAIN b.lots |-> IF j < i - Valid THEN 0 ELSE b.lots[j]]
      OBVIOUS
    <3>3. m \in [L -> Nat]
      BY <1>2, <3>2
    <3>4. b.correct + Left(b.lots, i - Valid) \in Nat
      BY <1>2, <3>1
    <3>5. AfterExpiry(b, i) \in Rest(K)
      BY <1>2, <3>2, <3>3, <3>4 DEF AfterExpiry
    <3> QED BY <1>4, <2>1, <2>2, <3>5, ReplayedIs
  <2>3. CASE x1[i].kind = "spend"
    <3>1. -x1[i].delta \in Nat
      <4>1. i \in 1..Len(x1) /\ x1[i].delta < 0
        BY <2>3 DEF Ledger
      <4> QED BY <2>1, <4>1
    <3>2. UsedFrom(b.lots, -x1[i].delta) \in [L -> Nat]
      BY <1>2, <3>1, UsedFromLeaves
    <3>3. b.debt + Expiry!Positive(-x1[i].delta - Left(b.lots, Len(x1) + 1)) \in Nat
      <4>1. Len(x1) + 1 \in Int
        BY <1>2
      <4>2. PICK a : a = Left(b.lots, Len(x1) + 1)
        OBVIOUS
      <4>3. a \in Nat
        BY <1>2, <4>1, <4>2, LeftStep
      <4>4. Expiry!Positive(-x1[i].delta - a) \in Nat
        BY <3>1, <4>3 DEF Expiry!Positive
      <4> QED BY <1>2, <4>2, <4>4
    <3>4. AfterSpending(b, i) \in Rest(K)
      BY <1>2, <3>2, <3>3 DEF AfterSpending
    <3> QED BY <1>4, <2>1, <2>3, <3>4, ReplayedIs
  <2>4. CASE x1[i].kind = "earn"
    <3>1. PICK d, n : d = b.debt /\ n = x1[i].delta
      OBVIOUS
    <3>2. Expiry!Positive(n - d) \in Nat /\ Expiry!Positive(d - n) \in Nat
      BY <1>2, <2>1, <3>1 DEF Expiry!Positive
    <3>3. [b.lots EXCEPT ![i] = Expiry!Positive(n - d)] \in [L -> Nat]
      BY <1>2, <3>2
    <3>4. AfterCollecting(b, i) \in Rest(K)
      BY <1>2, <3>1, <3>2, <3>3 DEF AfterCollecting
    <3> QED BY <1>4, <2>1, <2>4, <3>4, ReplayedIs
  <2>5. CASE x1[i].kind \notin {"expire", "spend", "earn"}
    BY <1>4, <2>1, <2>5, ReplayedIs
  <2> QED BY <2>2, <2>3, <2>4, <2>5
<1> QED BY <1>3, <1>4

LEMMA RowFaithful ==
    ASSUME Ledger(x1), NEW K \in SUBSET (1..Len(x1)), NEW i \in 1..Len(x1), NEW b, Faithful(b, K, i - 1)
    PROVE  /\ Faithful(TakeRow(b, K, i), K, i)
           /\ TakeRow(b, K, i).correct
                = IF i \in Of(x1, K, "expire") /\ OpenAt(x1, K, i) > b.correct THEN OpenAt(x1, K, i)
                  ELSE b.correct
<1>1. b \in Rest(K)
  BY DEF Faithful
<1>2. CASE i \in Of(x1, K, "expire")
  <2>1. i \in K /\ x1[i].kind = "expire"
    BY <1>2 DEF Of
  <2>2. TakeRow(b, K, i) = AfterExpiry(b, i)
    BY <1>1, <2>1, ReplayedIs DEF TakeRow
  <2> QED BY <1>2, <2>2, ExpireRow
<1>3. CASE i \in Of(x1, K, "spend")
  <2>1. i \in K /\ x1[i].kind = "spend" /\ i \notin Of(x1, K, "expire")
    BY <1>3 DEF Of
  <2>2. TakeRow(b, K, i) = AfterSpending(b, i)
    BY <1>1, <2>1, ReplayedIs DEF TakeRow
  <2> QED BY <1>3, <2>1, <2>2, SpendRow DEF AfterSpending
<1>4. CASE i \in Of(x1, K, "earn")
  <2>1. i \in K /\ x1[i].kind = "earn" /\ i \notin Of(x1, K, "expire")
    BY <1>4 DEF Of
  <2>2. TakeRow(b, K, i) = AfterCollecting(b, i)
    BY <1>1, <2>1, ReplayedIs DEF TakeRow
  <2> QED BY <1>4, <2>1, <2>2, EarnRow DEF AfterCollecting
<1>5. CASE /\ i \notin Of(x1, K, "expire") /\ i \notin Of(x1, K, "spend")
           /\ i \notin Of(x1, K, "earn")
  <2>1. TakeRow(b, K, i) = b
    BY <1>1, <1>5, ReplayedIs DEF TakeRow, Of
  <2> QED BY <1>5, <2>1, OtherRow
<1> QED BY <1>2, <1>3, <1>4, <1>5

LEMMA FirstFaithful ==
    ASSUME Ledger(x1), NEW K \in SUBSET (1..Len(x1))
    PROVE  AtFirst(K) \in Rest(K) /\ Faithful(AtFirst(K), K, 0)
<1>1. Len(x1) \in Nat /\ IsFiniteSet(K) /\ \A j \in K : j \in 1..Len(x1) /\ j \in Int
  BY LedgerRow
<1>2. PICK L, l, b : L = Of(x1, K, "earn") /\ l = [j \in L |-> 0] /\ b = AtFirst(K)
  OBVIOUS
<1>3. b = [lots |-> l, debt |-> 0, correct |-> 0] /\ l \in [L -> Nat] /\ L \subseteq K
  BY <1>2 DEF AtFirst, Of
<1>4. b \in Rest(K)
  BY <1>2, <1>3 DEF Rest
<1>5. \A c \in Int : Collected(x1, K, 0, c) = 0
  <2> TAKE c \in Int
  <2>1. \A j \in K : ~(j <= 0)
    BY <1>1
  <2>2. {j \in Of(x1, K, "earn") : j <= 0 /\ j < c} = {}
    BY <2>1 DEF Of
  <2> QED BY <2>2, SumEmpty DEF Collected
<1>6. Spent(x1, K, 0) = 0
  <2>1. \A j \in K : ~(j <= 0)
    BY <1>1
  <2>2. {j \in Of(x1, K, "spend") : j <= 0} = {}
    BY <2>1 DEF Of
  <2>3. Sum(Deltas(x1), {}) = 0
    BY SumEmpty
  <2>4. PICK z : z = Sum(Deltas(x1), {})
    OBVIOUS
  <2>5. Spent(x1, K, 0) = -z
    BY <2>2, <2>4 DEF Spent
  <2>6. \A y \in Int : y <= 0 /\ y >= 0 => -y = 0
    OBVIOUS
  <2>7. z \in Int /\ z <= 0 /\ z >= 0
    BY <2>3, <2>4
  <2> QED BY <2>5, <2>6, <2>7
<1>7. \A c \in Int : Left(l, c) = 0
  <2> TAKE c \in Int
  <2>1. PICK S : S = {j \in L : j < c}
    OBVIOUS
  <2>2. S \subseteq K /\ \A j \in S : l[j] = 0
    BY <1>2, <1>3, <2>1
  <2>3. IsFiniteSet(S)
    BY <1>1, <2>2, FS_Subset
  <2>4. Left(l, c) = Sum(l, S)
    BY <1>2, <2>1 DEF Left
  <2> QED BY <2>2, <2>3, <2>4, SumZero
<1>8. Expiry!Positive(0 - 0 - 0) = 0 /\ Expiry!Positive(0 + 0 - 0) = 0
  BY DEF Expiry!Positive
<1>9. \A c \in Int : Left(b.lots, c)
                       = Expiry!Positive(Collected(x1, K, 0, c) - Spent(x1, K, 0) - b.correct)
  BY <1>3, <1>5, <1>6, <1>7, <1>8
<1>10. b.debt = Expiry!Positive(Spent(x1, K, 0) + b.correct - Collected(x1, K, 0, Len(x1) + 1))
  <2>1. Len(x1) + 1 \in Int
    BY <1>1
  <2> QED BY <1>3, <1>5, <1>6, <1>8, <2>1
<1>11. \A j \in L : b.lots[j] = 0
  BY <1>2, <1>3
<1> QED BY <1>2, <1>4, <1>9, <1>10, <1>11 DEF Faithful

\* Whatever rows are replayed, what should have expired is what was due.
LEMMA ReplayIsDue ==
    ASSUME Ledger(x1), NEW K \in SUBSET (1..Len(x1))
    PROVE  \E g : /\ IsDue(g, x1, K) /\ g[Len(x1)] \in Nat
                  /\ Expiry!Replay(K).correct = g[Len(x1)]
<1>1. Len(x1) \in Nat /\ 0 \in 0..Len(x1) /\ Len(x1) \in 0..Len(x1)
  BY LedgerRow
<1>2. PICK n : n = Len(x1)
  OBVIOUS
<1>3. \E s : IsReplay(s, K)
  <2>1. PICK F : F = [z \in Rest(K) \X (1..n) |-> TakeRow(z[1], K, z[2])]
    OBVIOUS
  <2>2. \A b \in Rest(K) : \A i \in 1..n : TakeRow(b, K, i) \in Rest(K)
    BY <1>2, RowTaken
  <2>3. F \in [Rest(K) \X (1..n) -> Rest(K)]
    <3>1. \A z \in Rest(K) \X (1..n) : TakeRow(z[1], K, z[2]) \in Rest(K)
      BY <2>2
    <3> QED BY <2>1, <3>1
  <2>4. PICK s \in [0..n -> Rest(K)] : s[0] = AtFirst(K) /\ \A i \in 1..n : s[i] = F[<<s[i - 1], i>>]
    <3>1. PICK A, a : A = Rest(K) /\ a = AtFirst(K)
      OBVIOUS
    <3>2. a \in A /\ n \in Nat /\ F \in [A \X (1..n) -> A]
      BY <1>1, <1>2, <2>3, <3>1, FirstFaithful
    <3>3. \E s : Run(s, A, a, n, F)
      BY <3>2, Iterated
    <3> QED BY <3>1, <3>3 DEF Run
  <2>5. \A i \in 1..n : s[i] = TakeRow(s[i - 1], K, i)
    <3> TAKE i \in 1..n
    <3>1. i - 1 \in 0..n
      BY <1>1, <1>2
    <3>2. s[i - 1] \in Rest(K)
      BY <3>1
    <3>3. F[<<s[i - 1], i>>] = TakeRow(s[i - 1], K, i)
      BY <2>1, <3>2
    <3> QED BY <2>4, <3>3
  <2>6. s = [i \in 0..n |-> s[i]]
    OBVIOUS
  <2>7. \A i \in 0..n : s[i] = IF i = 0 THEN AtFirst(K) ELSE TakeRow(s[i - 1], K, i)
    <3> TAKE i \in 0..n
    <3>1. i = 0 \/ i \in 1..n
      BY <1>1, <1>2
    <3> QED BY <2>4, <2>5, <3>1
  <2>8. s = [i \in 0..n |-> IF i = 0 THEN AtFirst(K) ELSE TakeRow(s[i - 1], K, i)]
    BY <2>6, <2>7
  <2> QED BY <1>2, <2>8 DEF IsReplay
<1>4. PICK s : s = CHOOSE t : IsReplay(t, K)
  OBVIOUS
<1>5. IsReplay(s, K)
  BY <1>3, <1>4
<1>6. Expiry!Replay(K) = s[n]
  <2>1. Expiry!RowsOf(K, Expiry!Earned) = Of(x1, K, "earn")
    BY DEF Expiry!RowsOf, Expiry!Earned, Of
  <2>2. Expiry!Replay(K) = (CHOOSE t : IsReplay(t, K))[Len(x1)]
    BY <2>1 DEF Expiry!Replay, IsReplay, TakeRow, AtFirst
  <2> QED BY <1>2, <1>4, <2>2
<1>7. s[0] = AtFirst(K) /\ \A i \in 1..n : s[i] = TakeRow(s[i - 1], K, i)
  BY <1>1, <1>2, <1>5 DEF IsReplay
<1>8. PICK S : S = {i \in 0..n : Faithful(s[i], K, i)}
  OBVIOUS
<1>9. 0 \in S
  BY <1>1, <1>2, <1>7, <1>8, FirstFaithful
<1>10. ASSUME NEW i \in 1..n, i - 1 \in S PROVE i \in S
  <2>1. Faithful(s[i - 1], K, i - 1)
    BY <1>8, <1>10
  <2>2. Faithful(s[i], K, i)
    BY <1>2, <1>7, <2>1, RowFaithful
  <2> QED BY <1>8, <2>2
<1>11. \A i \in 0..n : Faithful(s[i], K, i)
  <2>1. \A i \in 0..n : i \in S
    BY <1>1, <1>2, <1>9, <1>10, Climb
  <2> QED BY <1>8, <2>1
<1>12. PICK g : g = [i \in 0..n |-> s[i].correct]
  OBVIOUS
<1>13. \A i \in 0..n : g[i] = IF i = 0 THEN 0
                             ELSE IF i \in Of(x1, K, "expire") /\ OpenAt(x1, K, i) > g[i - 1]
                                  THEN OpenAt(x1, K, i)
                             ELSE g[i - 1]
  <2> TAKE i \in 0..n
  <2>1. CASE i = 0
    BY <1>7, <1>12, <2>1 DEF AtFirst
  <2>2. CASE i # 0
    <3>1. i \in 1..n /\ i - 1 \in 0..n
      BY <1>1, <1>2, <2>2
    <3>2. Faithful(s[i - 1], K, i - 1) /\ s[i] = TakeRow(s[i - 1], K, i)
      BY <1>7, <1>11, <3>1
    <3>3. g[i] = s[i].correct /\ g[i - 1] = s[i - 1].correct
      BY <1>12, <3>1
    <3>4. s[i].correct = IF i \in Of(x1, K, "expire") /\ OpenAt(x1, K, i) > s[i - 1].correct
                         THEN OpenAt(x1, K, i) ELSE s[i - 1].correct
      <4>1. PICK t : t = s[i - 1]
        OBVIOUS
      <4>2. i \in 1..Len(x1) /\ Faithful(t, K, i - 1)
        BY <1>2, <3>1, <3>2, <4>1
      <4>3. TakeRow(t, K, i).correct = IF i \in Of(x1, K, "expire") /\ OpenAt(x1, K, i) > t.correct
                                       THEN OpenAt(x1, K, i) ELSE t.correct
        BY <4>2, RowFaithful
      <4> QED BY <3>2, <4>1, <4>3
    <3> QED BY <2>2, <3>3, <3>4
  <2> QED BY <2>1, <2>2
<1>14. IsDue(g, x1, K)
  BY <1>2, <1>12, <1>13 DEF IsDue
<1>15. g[n] = s[n].correct /\ s[n].correct \in Nat
  BY <1>1, <1>2, <1>11, <1>12 DEF Faithful, Rest
<1> QED BY <1>2, <1>6, <1>14, <1>15

AddsDelta(r, g, S) ==
    g = [s \in SUBSET S |-> IF s = {} THEN 0 ELSE r[Pick(s)].delta + g[s \ {Pick(s)}]]

LEMMA TotalIs ==
    ASSUME NEW S \in SUBSET (DOMAIN x1)
    PROVE  Expiry!Total(S) = Sum(Deltas(x1), S)
<1>1. PICK f : f = Deltas(x1)
  OBVIOUS
<1>2. ASSUME NEW g PROVE AddsDelta(x1, g, S) <=> Adds(f, g, S)
  <2>1. \A s \in SUBSET S : s # {} => f[Pick(s)] = x1[Pick(s)].delta
    <3> TAKE s \in SUBSET S
    <3> HAVE s # {}
    <3>1. Pick(s) \in DOMAIN x1
      BY PickIn
    <3> QED BY <1>1, <3>1 DEF Deltas
  <2>2. [s \in SUBSET S |-> IF s = {} THEN 0 ELSE x1[Pick(s)].delta + g[s \ {Pick(s)}]]
      = [s \in SUBSET S |-> IF s = {} THEN 0 ELSE f[Pick(s)] + g[s \ {Pick(s)}]]
    BY <2>1
  <2> QED BY <2>2 DEF Adds, AddsDelta
<1>3. (CHOOSE g : AddsDelta(x1, g, S)) = (CHOOSE g : Adds(f, g, S))
  BY <1>2, Zenon
<1>4. Expiry!Total(S) = (CHOOSE g : AddsDelta(x1, g, S))[S]
  BY DEF Expiry!Total, Expiry!MapThenSumSet, Expiry!MapThenFoldSet, AddsDelta, Pick
<1> QED BY <1>1, <1>3, <1>4, SumAdds

\* What was taken back as expired, corrections counted.
ExpiryRows(r, K) == {j \in K : r[j].kind \in {"expire", "expire_fix"}}
Expired(r, K) == -Sum(Deltas(r), ExpiryRows(r, K))

ExpiryInv ==
    /\ Ledger(x1) /\ Len(x1) <= MaxRows
    /\ x2 \in [Expiry!Host -> SUBSET (1..Len(x1))]
    /\ \A i \in 1..Len(x1) : x1[i].kind = "expire" => i \in x2[Hub]
    /\ \A i \in 1..Len(x1) : x1[i].kind = "expire_fix" => \E j \in 1..Len(x1) : x1[j].kind = "expire"
    /\ \E g : /\ IsDue(g, x1, x2[Hub]) /\ g[Len(x1)] \in Nat
              /\ Expired(x1, x2[Hub]) = g[Len(x1)]

\* A row is added to a ledger, and maybe to the rows a host has of it.
Extends(q, M, r, K, w) == q = Append(r, w) /\ (M = K \/ M = K \cup {Len(r) + 1})

LEMMA RowAppended ==
    ASSUME NEW r, Ledger(r), NEW w \in [kind : Expiry!Kind, delta : Int], NEW K, NEW q, NEW M,
           Extends(q, M, r, K, w)
    PROVE  /\ Len(r) \in Nat /\ Len(q) = Len(r) + 1 /\ q[Len(r) + 1] = w
           /\ \A i \in 1..Len(r) : q[i] = r[i] /\ Deltas(q)[i] = Deltas(r)[i]
           /\ q \in Seq([kind : Expiry!Kind, delta : Int])
<1>1. PICK R : R = [kind : Expiry!Kind, delta : Int]
  OBVIOUS
<1>2. r \in Seq(R) /\ w \in R /\ q = Append(r, w)
  BY <1>1 DEF Ledger, Extends
<1>3. /\ Len(r) \in Nat /\ q \in Seq(R) /\ Len(q) = Len(r) + 1 /\ q[Len(r) + 1] = w
      /\ \A i \in 1..Len(r) : q[i] = r[i]
      /\ DOMAIN r = 1..Len(r) /\ DOMAIN q = 1..(Len(r) + 1)
  BY <1>2
<1>4. \A i \in 1..Len(r) : Deltas(q)[i] = Deltas(r)[i]
  <2> TAKE i \in 1..Len(r)
  <2>1. i \in DOMAIN r /\ i \in DOMAIN q /\ q[i] = r[i]
    BY <1>3
  <2> QED BY <2>1 DEF Deltas
<1> QED BY <1>1, <1>3, <1>4

\* A new row changes nothing of what was open before it.
LEMMA OpenStays ==
    ASSUME NEW r, Ledger(r), NEW w \in [kind : Expiry!Kind, delta : Int], NEW q, NEW M,
           NEW K \in SUBSET (1..Len(r)), Extends(q, M, r, K, w),
           NEW i \in 1..(Len(r) + 1)
    PROVE  OpenAt(q, M, i) = OpenAt(r, K, i)
<1>1. Len(r) \in Nat /\ i \in Int /\ \A j \in K : j \in 1..Len(r) /\ j \in Int
  BY LedgerRow
<1>2. Valid \in Nat
  BY ExpiryNumbers
<1>3. \A j \in M : j \in K \/ j = Len(r) + 1
  BY DEF Extends
<1>a. K \subseteq M
  BY DEF Extends
<1>4. \A j \in M : (j < i => j \in K) /\ (j < i - Valid => j \in K)
  BY <1>1, <1>2, <1>3
<1>5. \A j \in K : j \in M /\ q[j] = r[j] /\ Deltas(q)[j] = Deltas(r)[j]
  <2>1. \A k \in 1..Len(r) : q[k] = r[k] /\ Deltas(q)[k] = Deltas(r)[k]
    BY RowAppended
  <2> QED BY <1>a, <2>1
<1>6. PICK S, T : /\ S = {j \in Of(r, K, "earn") : j < i - Valid}
                  /\ T = {j \in Of(r, K, "spend") : j < i}
  OBVIOUS
<1>7. S = {j \in Of(q, M, "earn") : j < i - Valid} /\ T = {j \in Of(q, M, "spend") : j < i}
  BY <1>4, <1>5, <1>6 DEF Of
<1>8. S \subseteq K /\ T \subseteq K
  BY <1>6 DEF Of
<1>9. IsFiniteSet(S) /\ IsFiniteSet(T)
  BY <1>8, LedgerRow, FS_Subset
<1>10. Sum(Deltas(q), S) = Sum(Deltas(r), S) /\ Sum(Deltas(q), T) = Sum(Deltas(r), T)
  BY <1>5, <1>8, <1>9, SumSame
<1> QED BY <1>6, <1>7, <1>10 DEF OpenAt

LEMMA DueGrows ==
    ASSUME NEW r, Ledger(r), NEW w \in [kind : Expiry!Kind, delta : Int], NEW q, NEW M,
           NEW K \in SUBSET (1..Len(r)), Extends(q, M, r, K, w),
           NEW g, IsDue(g, r, K), NEW n, n = Len(r) + 1
    PROVE  \E h : /\ IsDue(h, q, M)
                  /\ h[n] = IF n \in M /\ w.kind = "expire" /\ OpenAt(r, K, n) > g[Len(r)]
                            THEN OpenAt(r, K, n) ELSE g[Len(r)]
<1>1. Len(r) \in Nat /\ Len(q) = n /\ q[n] = w /\ \A i \in 1..Len(r) : q[i] = r[i]
  BY RowAppended
<1>2. PICK h : h = [i \in 0..n |-> IF i = n THEN IF n \in M /\ w.kind = "expire" /\ OpenAt(r, K, n) > g[Len(r)]
                                                 THEN OpenAt(r, K, n) ELSE g[Len(r)]
                                   ELSE g[i]]
  OBVIOUS
<1>3. n \in 0..n /\ n - 1 = Len(r) /\ n # 0 /\ \A i \in 0..Len(r) : i \in 0..n /\ i # n
  BY <1>1
<1>4. \A i \in 0..Len(r) : h[i] = g[i]
  BY <1>2, <1>3
<1>5. h[n] = IF n \in M /\ w.kind = "expire" /\ OpenAt(r, K, n) > g[Len(r)]
             THEN OpenAt(r, K, n) ELSE g[Len(r)]
  BY <1>2, <1>3
<1>6. \A i \in 1..n : OpenAt(q, M, i) = OpenAt(r, K, i)
  <2>1. \A i \in 1..(Len(r) + 1) : OpenAt(q, M, i) = OpenAt(r, K, i)
    BY OpenStays
  <2> QED BY <2>1
<1>7. \A i \in 1..Len(r) : i \in Of(q, M, "expire") <=> i \in Of(r, K, "expire")
  <2> TAKE i \in 1..Len(r)
  <2>1. i # n /\ q[i] = r[i]
    BY <1>1
  <2>2. i \in M <=> i \in K
    BY <2>1 DEF Extends
  <2> QED BY <2>1, <2>2 DEF Of
<1>8. n \in Of(q, M, "expire") <=> n \in M /\ w.kind = "expire"
  BY <1>1 DEF Of
<1>9. \A i \in 0..n : h[i] = IF i = 0 THEN 0
                            ELSE IF i \in Of(q, M, "expire") /\ OpenAt(q, M, i) > h[i - 1] THEN OpenAt(q, M, i)
                            ELSE h[i - 1]
  <2> TAKE i \in 0..n
  <2>1. CASE i = n
    <3>1. h[i - 1] = g[Len(r)] /\ OpenAt(q, M, i) = OpenAt(r, K, n)
      <4>1. Len(r) \in 0..Len(r) /\ n \in 1..n
        BY <1>1
      <4> QED BY <1>3, <1>4, <1>6, <2>1, <4>1
    <3> QED BY <1>3, <1>5, <1>8, <2>1, <3>1
  <2>2. CASE i = 0
    <3>1. 0 \in 0..Len(r)
      BY <1>1
    <3>2. g[0] = 0
      BY <3>1 DEF IsDue
    <3> QED BY <1>4, <2>2, <3>1, <3>2
  <2>3. CASE i # n /\ i # 0
    <3>1. i \in 1..Len(r) /\ i \in 0..Len(r) /\ i - 1 \in 0..Len(r) /\ i \in 1..n
      BY <1>1, <2>3
    <3>2. h[i] = g[i] /\ h[i - 1] = g[i - 1]
      BY <1>4, <3>1
    <3>3. g[i] = IF i \in Of(r, K, "expire") /\ OpenAt(r, K, i) > g[i - 1] THEN OpenAt(r, K, i)
                 ELSE g[i - 1]
      BY <2>3, <3>1 DEF IsDue
    <3> QED BY <1>6, <1>7, <2>3, <3>1, <3>2, <3>3
  <2> QED BY <2>1, <2>2, <2>3
<1>10. h = [i \in 0..n |-> h[i]]
  BY <1>2
<1>11. IsDue(h, q, M)
  BY <1>1, <1>9, <1>10 DEF IsDue
<1> QED BY <1>5, <1>11

LEMMA ExpiredGrows ==
    ASSUME NEW r, Ledger(r), NEW w \in [kind : Expiry!Kind, delta : Int], NEW q, NEW M,
           NEW K \in SUBSET (1..Len(r)), Extends(q, M, r, K, w),
           NEW n, n = Len(r) + 1
    PROVE  /\ Expired(r, K) \in Int
           /\ n \in M /\ w.kind \in {"expire", "expire_fix"} => Expired(q, M) = Expired(r, K) - w.delta
           /\ ~(n \in M /\ w.kind \in {"expire", "expire_fix"}) => Expired(q, M) = Expired(r, K)
<1>1. /\ Len(r) \in Nat /\ Len(q) = n /\ q[n] = w
      /\ \A i \in 1..Len(r) : q[i] = r[i] /\ Deltas(q)[i] = Deltas(r)[i]
  <2>1. /\ Len(r) \in Nat /\ Len(q) = Len(r) + 1 /\ q[Len(r) + 1] = w
        /\ \A i \in 1..Len(r) : q[i] = r[i] /\ Deltas(q)[i] = Deltas(r)[i]
    BY RowAppended
  <2> QED BY <2>1
<1>2. PICK S, T : S = ExpiryRows(r, K) /\ T = ExpiryRows(q, M)
  OBVIOUS
<1>3. S \subseteq K /\ n \notin K /\ \A j \in K : q[j] = r[j] /\ Deltas(q)[j] = Deltas(r)[j]
  BY <1>1, <1>2 DEF ExpiryRows
<1>4. IsFiniteSet(S) /\ \A j \in S : Deltas(r)[j] \in Int
  <2>1. IsFiniteSet(K) /\ \A j \in K : r[j].delta \in Int /\ Deltas(r)[j] = r[j].delta
    BY LedgerRow
  <2>2. IsFiniteSet(S)
    BY <1>3, <2>1, FS_Subset
  <2> QED BY <1>3, <2>1, <2>2
<1>5. Sum(Deltas(r), S) \in Int /\ Sum(Deltas(q), S) = Sum(Deltas(r), S)
  BY <1>3, <1>4, SumInt, SumSame
<1>6. Expired(r, K) = -Sum(Deltas(r), S) /\ Expired(q, M) = -Sum(Deltas(q), T)
  BY <1>2 DEF Expired
<1>a. \A j \in M : j \in K \/ j = n
  BY DEF Extends
<1>b. K \subseteq M
  BY DEF Extends
<1>7. CASE n \in M /\ w.kind \in {"expire", "expire_fix"}
  <2>1. n \in T /\ T \ {n} = S
    BY <1>1, <1>2, <1>3, <1>7, <1>a, <1>b DEF ExpiryRows
  <2>2. Deltas(q)[n] = w.delta /\ w.delta \in Int
    <3>1. n \in DOMAIN q
      BY <1>1, RowAppended
    <3> QED BY <1>1, <3>1 DEF Deltas
  <2>3. IsFiniteSet(T) /\ \A j \in T : Deltas(q)[j] \in Int
    <3>1. T = S \cup {n}
      BY <2>1
    <3> QED BY <1>3, <1>4, <2>2, <3>1, FS_AddElement
  <2>4. Sum(Deltas(q), T) = Deltas(q)[n] + Sum(Deltas(q), S)
    BY <2>1, <2>3, SumTake
  <2> QED BY <1>5, <1>6, <1>7, <2>2, <2>4
<1>8. CASE ~(n \in M /\ w.kind \in {"expire", "expire_fix"})
  <2>1. T = S
    BY <1>1, <1>2, <1>3, <1>8, <1>a, <1>b DEF ExpiryRows
  <2> QED BY <1>5, <1>6, <1>8, <2>1
<1> QED BY <1>7, <1>8

\* A row that says what its kind says.
Signed(w) ==
    /\ w \in [kind : Expiry!Kind, delta : Int]
    /\ w.kind = "earn" => w.delta > 0
    /\ w.kind = "spend" => w.delta < 0
    /\ w.kind = "none" => w.delta = 0

\* Every expiry is among the rows, and was before any correction.
ExpiriesIn(K) ==
    /\ \A i \in 1..Len(x1) : x1[i].kind = "expire" => i \in K
    /\ \A i \in 1..Len(x1) : x1[i].kind = "expire_fix" => \E j \in 1..Len(x1) : x1[j].kind = "expire"

\* What the row takes back is what it leaves due.
Balances(w, K, g, M, n) ==
    /\ w.kind = "expire" =>
           n \in M /\ OpenAt(x1, K, n) > g[Len(x1)] /\ Expired(x1, K) - w.delta = OpenAt(x1, K, n)
    /\ w.kind = "expire_fix" =>
           /\ n \in M /\ Expired(x1, K) - w.delta = g[Len(x1)]
           /\ \E j \in 1..Len(x1) : x1[j].kind = "expire"
    /\ w.kind \notin {"expire", "expire_fix"} => Expired(x1, K) = g[Len(x1)]

LEMMA LedgerGrows ==
    ASSUME Ledger(x1), Len(x1) < MaxRows, NEW K \in SUBSET (1..Len(x1)), ExpiriesIn(K),
           NEW g, IsDue(g, x1, K), g[Len(x1)] \in Nat, NEW w, Signed(w), NEW n, n = Len(x1) + 1,
           x1' = Append(x1, w), x2' \in [Expiry!Host -> SUBSET (1..n)],
           x2'[Hub] = K \/ x2'[Hub] = K \cup {n}, Balances(w, K, g, x2'[Hub], n)
    PROVE  ExpiryInv'
<1>1. PICK q, M : q = x1' /\ M = x2'[Hub]
  OBVIOUS
<1>2. w \in [kind : Expiry!Kind, delta : Int] /\ Extends(q, M, x1, K, w)
  BY <1>1 DEF Signed, Extends
<1>3. /\ Len(x1) \in Nat /\ Len(q) = n /\ q[n] = w
      /\ \A i \in 1..Len(x1) : q[i] = x1[i] /\ Deltas(q)[i] = Deltas(x1)[i]
      /\ q \in Seq([kind : Expiry!Kind, delta : Int])
  <2>1. /\ Len(x1) \in Nat /\ Len(q) = Len(x1) + 1 /\ q[Len(x1) + 1] = w
        /\ \A i \in 1..Len(x1) : q[i] = x1[i] /\ Deltas(q)[i] = Deltas(x1)[i]
        /\ q \in Seq([kind : Expiry!Kind, delta : Int])
    BY <1>2, RowAppended
  <2> QED BY <2>1
<1>4. \A i \in 1..n : i \in 1..Len(x1) \/ i = n
  BY <1>3
<1>5. Ledger(q)
  BY <1>3, <1>4 DEF Ledger, Signed
<1>6. Len(q) <= MaxRows
  BY <1>3, ExpiryNumbers
<1>7. K \subseteq M
  BY <1>1
<1>8. \A i \in 1..Len(q) : q[i].kind = "expire" => i \in M
  BY <1>1, <1>3, <1>4, <1>7 DEF ExpiriesIn, Balances
<1>9. \A i \in 1..Len(q) : q[i].kind = "expire_fix" => \E j \in 1..Len(q) : q[j].kind = "expire"
  <2>1. \A j \in 1..Len(x1) : j \in 1..Len(q)
    BY <1>3
  <2>2. (\E j \in 1..Len(x1) : x1[j].kind = "expire") => \E j \in 1..Len(q) : q[j].kind = "expire"
    BY <1>3, <2>1
  <2> QED BY <1>3, <1>4, <2>2 DEF ExpiriesIn, Balances
<1>10. PICK h : /\ IsDue(h, q, M)
                /\ h[n] = IF n \in M /\ w.kind = "expire" /\ OpenAt(x1, K, n) > g[Len(x1)]
                          THEN OpenAt(x1, K, n) ELSE g[Len(x1)]
  BY <1>2, DueGrows
<1>11. /\ Expired(x1, K) \in Int
       /\ n \in M /\ w.kind \in {"expire", "expire_fix"} => Expired(q, M) = Expired(x1, K) - w.delta
       /\ ~(n \in M /\ w.kind \in {"expire", "expire_fix"}) => Expired(q, M) = Expired(x1, K)
  BY <1>2, ExpiredGrows
<1>12. Expired(q, M) = h[n] /\ h[n] \in Nat
  <2>1. CASE w.kind = "expire"
    <3>1. /\ n \in M /\ OpenAt(x1, K, n) > g[Len(x1)] /\ Expired(x1, K) - w.delta = OpenAt(x1, K, n)
      BY <1>1, <2>1 DEF Balances
    <3>2. h[n] = OpenAt(x1, K, n) /\ Expired(q, M) = Expired(x1, K) - w.delta
      BY <1>10, <1>11, <2>1, <3>1
    <3>3. w.delta \in Int
      BY <1>2
    <3>4. OpenAt(x1, K, n) \in Int
      BY <1>11, <3>1, <3>3
    <3> QED BY <3>1, <3>2, <3>4
  <2>2. CASE w.kind = "expire_fix"
    <3>1. n \in M /\ Expired(x1, K) - w.delta = g[Len(x1)]
      BY <1>1, <2>2 DEF Balances
    <3> QED BY <1>10, <1>11, <2>2, <3>1
  <2>3. CASE w.kind \notin {"expire", "expire_fix"}
    <3>1. Expired(x1, K) = g[Len(x1)]
      BY <2>3 DEF Balances
    <3> QED BY <1>10, <1>11, <2>3, <3>1
  <2> QED BY <2>1, <2>2, <2>3
<1>13. x2' \in [Expiry!Host -> SUBSET (1..Len(q))]
  BY <1>3
<1>14. ExpiryInv' <=>
          /\ Ledger(q) /\ Len(q) <= MaxRows
          /\ x2' \in [Expiry!Host -> SUBSET (1..Len(q))]
          /\ \A i \in 1..Len(q) : q[i].kind = "expire" => i \in M
          /\ \A i \in 1..Len(q) : q[i].kind = "expire_fix" => \E j \in 1..Len(q) : q[j].kind = "expire"
          /\ \E f : IsDue(f, q, M) /\ f[Len(q)] \in Nat /\ Expired(q, M) = f[Len(q)]
  BY <1>1 DEF ExpiryInv
<1>15. \E f : IsDue(f, q, M) /\ f[Len(q)] \in Nat /\ Expired(q, M) = f[Len(q)]
  BY <1>3, <1>10, <1>12
<1> QED BY <1>5, <1>6, <1>8, <1>9, <1>13, <1>14, <1>15

\* A host writes a row that is no expiry, and the hub writes an expiry.
LEMMA RowWritten ==
    ASSUME ExpiryInv, NEW h \in Expiry!Host, NEW kind \in Expiry!Kind, NEW delta \in Int,
           Expiry!Write(h, kind, delta), Signed([kind |-> kind, delta |-> delta]),
           NEW g, IsDue(g, x1, x2[Hub]), g[Len(x1)] \in Nat, Expired(x1, x2[Hub]) = g[Len(x1)],
           \/ kind \notin {"expire", "expire_fix"}
           \/ /\ kind = "expire" /\ h = Hub
              /\ OpenAt(x1, x2[Hub], Len(x1) + 1) > g[Len(x1)]
              /\ g[Len(x1)] - delta = OpenAt(x1, x2[Hub], Len(x1) + 1)
    PROVE  ExpiryInv'
<1>1. PICK w, n, K : w = [kind |-> kind, delta |-> delta] /\ n = Len(x1) + 1 /\ K = x2[Hub]
  OBVIOUS
<1>2. /\ Ledger(x1) /\ Len(x1) \in Nat /\ Len(x1) <= MaxRows
      /\ x2 \in [Expiry!Host -> SUBSET (1..Len(x1))] /\ Hub \in Expiry!Host
  <2>1. Ledger(x1) /\ Len(x1) <= MaxRows /\ x2 \in [Expiry!Host -> SUBSET (1..Len(x1))]
    BY DEF ExpiryInv
  <2>2. Len(x1) \in Nat
    BY <2>1, LedgerRow
  <2> QED BY <2>1, <2>2 DEF Expiry!Host
<1>3. /\ n \in 1..MaxRows /\ x1' = Append(x1, w) /\ x2' = [x2 EXCEPT ![h] = @ \cup {n}]
  BY <1>1 DEF Expiry!Write, Expiry!Now, Expiry!Time
<1>4. Len(x1) < MaxRows /\ K \in SUBSET (1..Len(x1)) /\ ExpiriesIn(K)
  BY <1>1, <1>2, <1>3, ExpiryNumbers DEF ExpiryInv, ExpiriesIn
<1>5. x2' \in [Expiry!Host -> SUBSET (1..n)]
  <2>1. \A S \in SUBSET (1..Len(x1)) : S \in SUBSET (1..n) /\ S \cup {n} \in SUBSET (1..n)
    <3>1. \A i \in 1..Len(x1) : i \in 1..n
      BY <1>1, <1>2
    <3>2. n \in 1..n
      BY <1>1, <1>2
    <3> QED BY <3>1, <3>2
  <2> QED BY <1>2, <1>3, <2>1
<1>6. x2'[Hub] = IF h = Hub THEN K \cup {n} ELSE K
  BY <1>1, <1>2, <1>3
<1>7. w.kind = kind /\ w.delta = delta /\ Signed(w)
  BY <1>1
<1>8. Balances(w, K, g, x2'[Hub], n)
  BY <1>1, <1>6, <1>7 DEF Balances
<1> QED BY <1>1, <1>2, <1>3, <1>4, <1>5, <1>6, <1>7, <1>8, LedgerGrows

LEMMA DueSteps ==
    ASSUME NEW r, Len(r) \in Nat, NEW K, NEW g, IsDue(g, r, K)
    PROVE  /\ g[0] = 0
           /\ \A i \in 1..Len(r) :
                  g[i] = IF i \in Of(r, K, "expire") /\ OpenAt(r, K, i) > g[i - 1] THEN OpenAt(r, K, i)
                         ELSE g[i - 1]
<1>1. 0 \in 0..Len(r) /\ \A i \in 1..Len(r) : i \in 0..Len(r) /\ i # 0
  OBVIOUS
<1> QED BY <1>1 DEF IsDue

LEMMA DueOnce ==
    ASSUME NEW r, Len(r) \in Nat, NEW K, NEW f, IsDue(f, r, K), NEW g, IsDue(g, r, K)
    PROVE  f[Len(r)] = g[Len(r)]
<1>1. PICK S, n : S = {i \in 0..Len(r) : f[i] = g[i]} /\ n = Len(r)
  OBVIOUS
<1>2. 0 \in S
  <2>1. 0 \in 0..Len(r)
    OBVIOUS
  <2> QED BY <1>1, <2>1, DueSteps
<1>3. ASSUME NEW i \in 1..n, i - 1 \in S PROVE i \in S
  <2>1. f[i - 1] = g[i - 1] /\ i \in 0..Len(r)
    BY <1>1, <1>3
  <2>2. /\ f[i] = IF i \in Of(r, K, "expire") /\ OpenAt(r, K, i) > f[i - 1] THEN OpenAt(r, K, i)
                  ELSE f[i - 1]
        /\ g[i] = IF i \in Of(r, K, "expire") /\ OpenAt(r, K, i) > g[i - 1] THEN OpenAt(r, K, i)
                  ELSE g[i - 1]
    BY <1>1, DueSteps
  <2> QED BY <1>1, <2>1, <2>2
<1>4. \A i \in 0..n : i \in S
  BY <1>1, <1>2, <1>3, Climb
<1>5. n \in 0..n
  BY <1>1
<1> QED BY <1>1, <1>4, <1>5

\* Nothing is due before the first expiry.
LEMMA NothingDue ==
    ASSUME NEW r, Len(r) \in Nat, NEW K, NEW g, IsDue(g, r, K), Of(r, K, "expire") = {}
    PROVE  g[Len(r)] = 0
<1>1. PICK S, n : S = {i \in 0..Len(r) : g[i] = 0} /\ n = Len(r)
  OBVIOUS
<1>2. 0 \in S
  <2>1. 0 \in 0..Len(r)
    OBVIOUS
  <2> QED BY <1>1, <2>1, DueSteps
<1>3. ASSUME NEW i \in 1..n, i - 1 \in S PROVE i \in S
  <2>1. g[i - 1] = 0 /\ i \in 0..Len(r)
    BY <1>1, <1>3
  <2>2. g[i] = g[i - 1]
    BY <1>1, DueSteps
  <2> QED BY <1>1, <2>1, <2>2
<1>4. \A i \in 0..n : i \in S
  BY <1>1, <1>2, <1>3, Climb
<1>5. n \in 0..n
  BY <1>1
<1> QED BY <1>1, <1>4, <1>5

\* What a member has at a host: collected less spent less expired.
LEMMA LedgerParts ==
    ASSUME Ledger(x1), NEW K \in SUBSET (1..Len(x1))
    PROVE  /\ Sum(Deltas(x1), K) = Collected(x1, K, Len(x1), Len(x1) + 1) - Spent(x1, K, Len(x1))
                                     - Expired(x1, K)
           /\ Expiry!Total(Expiry!RowsOf(K, Expiry!Used)) + Expiry!Total(Expiry!RowsOf(K, {"expire_fix"}))
                = -Spent(x1, K, Len(x1)) - Expired(x1, K)
           /\ Expired(x1, K) \in Int
<1>1. PICK D, E, S, X, F, Z :
          /\ D = Deltas(x1) /\ E = Of(x1, K, "earn") /\ S = Of(x1, K, "spend")
          /\ X = Of(x1, K, "expire") /\ F = Of(x1, K, "expire_fix") /\ Z = Of(x1, K, "none")
  OBVIOUS
<1>2. /\ Len(x1) \in Nat /\ DOMAIN x1 = 1..Len(x1) /\ IsFiniteSet(K)
      /\ \A i \in K : i \in 1..Len(x1) /\ i \in Int /\ D[i] \in Int /\ D[i] = x1[i].delta
                      /\ x1[i].kind \in Expiry!Kind
  BY <1>1, LedgerRow
<1>3. \A T \in SUBSET K : IsFiniteSet(T) /\ Sum(D, T) \in Int /\ \A i \in T : D[i] \in Int
  BY <1>2, FS_Subset, SumInt
<1>4. /\ E \in SUBSET K /\ S \in SUBSET K /\ X \in SUBSET K /\ F \in SUBSET K /\ Z \in SUBSET K
      /\ K = ((E \cup S) \cup (X \cup F)) \cup Z
  <2>1. \A i \in K : x1[i].kind \in {"earn", "spend", "expire", "expire_fix", "none"}
    BY <1>2 DEF Expiry!Kind, Expiry!Earned, Expiry!Used
  <2> QED BY <1>1, <2>1 DEF Of
<1>5. /\ E \cap S = {} /\ X \cap F = {} /\ S \cap X = {} /\ (E \cup S) \cap (X \cup F) = {}
      /\ ((E \cup S) \cup (X \cup F)) \cap Z = {}
  BY <1>1 DEF Of
<1>6. \A A, B \in SUBSET K : A \cap B = {} => Sum(D, A \cup B) = Sum(D, A) + Sum(D, B)
  <2> TAKE A, B \in SUBSET K
  <2> HAVE A \cap B = {}
  <2>1. \A i \in A \cup B : D[i] \in Int
    BY <1>2
  <2> QED BY <1>3, <2>1, SumUnion
<1>7. Sum(D, Z) = 0
  <2>1. \A i \in Z : D[i] = 0
    BY <1>1, <1>2 DEF Of, Ledger
  <2> QED BY <1>3, <1>4, <2>1, SumZero
<1>8. PICK e, s, x, f : e = Sum(D, E) /\ s = Sum(D, S) /\ x = Sum(D, X) /\ f = Sum(D, F)
  OBVIOUS
<1>9. e \in Int /\ s \in Int /\ x \in Int /\ f \in Int
  BY <1>3, <1>4, <1>8
<1>10. Sum(D, E \cup S) = e + s /\ Sum(D, X \cup F) = x + f /\ Sum(D, S \cup X) = s + x
  BY <1>4, <1>5, <1>6, <1>8
<1>11. Sum(D, K) = (e + s) + (x + f)
  <2>1. Sum(D, (E \cup S) \cup (X \cup F)) = (e + s) + (x + f)
    BY <1>4, <1>5, <1>6, <1>10
  <2>2. Sum(D, K) = Sum(D, (E \cup S) \cup (X \cup F)) + Sum(D, Z)
    BY <1>4, <1>5, <1>6
  <2> QED BY <1>7, <1>9, <2>1, <2>2
<1>12. Collected(x1, K, Len(x1), Len(x1) + 1) = e
  <2>1. \A i \in K : i <= Len(x1) /\ i < Len(x1) + 1
    BY <1>2
  <2>2. {j \in E : j <= Len(x1) /\ j < Len(x1) + 1} = E
    BY <1>4, <2>1
  <2> QED BY <1>1, <1>8, <2>2 DEF Collected
<1>13. Spent(x1, K, Len(x1)) = -s
  <2>1. \A i \in K : i <= Len(x1)
    BY <1>2
  <2>2. {j \in S : j <= Len(x1)} = S
    BY <1>4, <2>1
  <2> QED BY <1>1, <1>8, <2>2 DEF Spent
<1>14. Expired(x1, K) = -(x + f)
  <2>1. ExpiryRows(x1, K) = X \cup F
    BY <1>1 DEF ExpiryRows, Of
  <2> QED BY <1>1, <1>10, <2>1 DEF Expired
<1>15. /\ Expiry!Total(Expiry!RowsOf(K, Expiry!Used)) = s + x
       /\ Expiry!Total(Expiry!RowsOf(K, {"expire_fix"})) = f
  <2>1. Expiry!RowsOf(K, Expiry!Used) = S \cup X /\ Expiry!RowsOf(K, {"expire_fix"}) = F
    BY <1>1 DEF Expiry!RowsOf, Expiry!Used, Of
  <2>2. S \cup X \in SUBSET (DOMAIN x1) /\ F \in SUBSET (DOMAIN x1)
    BY <1>2, <1>4
  <2> QED BY <1>1, <1>8, <1>10, <2>1, <2>2, TotalIs
<1>16. (e + s) + (x + f) = e - (-s) - (-(x + f)) /\ (s + x) + f = -(-s) - (-(x + f)) /\ -(x + f) \in Int
  BY <1>9
<1> QED BY <1>1, <1>11, <1>12, <1>13, <1>14, <1>15, <1>16

\* The hub expires what is due.
LEMMA ExpiresDue ==
    ASSUME ExpiryInv, Expiry!Expire
    PROVE  ExpiryInv'
<1>1. PICK K, n, limit : K = x2[Hub] /\ n = Len(x1) + 1 /\ limit = n - Valid
  OBVIOUS
<1>2. Ledger(x1) /\ K \in SUBSET (1..Len(x1)) /\ Hub \in Expiry!Host
  BY <1>1 DEF ExpiryInv, Expiry!Host
<1>3. PICK g : IsDue(g, x1, K) /\ g[Len(x1)] \in Nat /\ Expired(x1, K) = g[Len(x1)]
  BY <1>1 DEF ExpiryInv
<1>4. /\ Len(x1) \in Nat /\ n \in Nat /\ Len(x1) = n - 1 /\ limit \in Int /\ limit <= n /\ n \in Int
      /\ Len(x1) \in 0..Len(x1) /\ DOMAIN x1 = 1..Len(x1)
  BY <1>1, <1>2, LedgerRow, ExpiryNumbers
<1>5. PICK s, c, all0, d : /\ s = Spent(x1, K, Len(x1)) /\ c = Collected(x1, K, Len(x1), limit)
                           /\ all0 = Collected(x1, K, Len(x1), n) /\ d = g[Len(x1)]
  OBVIOUS
<1>6. s \in Nat /\ c \in Nat /\ all0 \in Nat /\ c <= all0 /\ d \in Nat
  BY <1>2, <1>3, <1>4, <1>5, SpentNat, CollectedMore
<1>7. OpenAt(x1, K, n) = c - s
  <2>1. n \in 1..(Len(x1) + 1)
    BY <1>1, <1>4
  <2> QED BY <1>1, <1>2, <1>4, <1>5, <2>1, OpenIs
<1>8. Expiry!Points(Hub) = all0 - s - d
  <2>1. Expiry!Points(Hub) = Sum(Deltas(x1), K)
    BY <1>1, <1>2, <1>4, TotalIs DEF Expiry!Points
  <2> QED BY <1>1, <1>2, <1>3, <1>5, <2>1, LedgerParts
<1>9. Expiry!UsedUp = s + d
  <2>1. PICK u, v : /\ u = Expiry!Total(Expiry!RowsOf(K, Expiry!Used))
                    /\ v = Expiry!Total(Expiry!RowsOf(K, {"expire_fix"}))
    OBVIOUS
  <2>2. u \in Int /\ v \in Int
    <3>1. Expiry!RowsOf(K, Expiry!Used) \in SUBSET K /\ Expiry!RowsOf(K, {"expire_fix"}) \in SUBSET K
      BY DEF Expiry!RowsOf
    <3>2. \A T \in SUBSET K : Expiry!Total(T) \in Int
      <4> TAKE T \in SUBSET K
      <4>1. T \in SUBSET (DOMAIN x1)
        BY <1>2, <1>4
      <4>2. IsFiniteSet(T) /\ \A i \in T : Deltas(x1)[i] \in Int
        BY <1>2, LedgerRow, FS_Subset
      <4> QED BY <4>1, <4>2, TotalIs, SumInt
    <3> QED BY <2>1, <3>1, <3>2
  <2>3. u + v = -s - d
    BY <1>2, <1>3, <1>5, <2>1, LedgerParts
  <2>4. Expiry!UsedUp = -u - v
    BY <1>1, <2>1 DEF Expiry!UsedUp
  <2> QED BY <1>6, <2>2, <2>3, <2>4
<1>10. Expiry!Expiring(limit) = Expiry!Positive(c - (s + d))
  <2>1. PICK L, e : L = Of(x1, K, "earn") /\ e = [i \in L |-> x1[i].delta]
    OBVIOUS
  <2>2. L \in SUBSET K /\ L \in SUBSET (1..Len(x1))
    BY <1>2, <2>1 DEF Of
  <2>3. e \in [L -> Nat] /\ \A i \in L : e[i] = Deltas(x1)[i]
    <3>1. \A i \in L : x1[i].delta \in Nat /\ Deltas(x1)[i] = x1[i].delta
      <4> TAKE i \in L
      <4>1. i \in K /\ x1[i].kind = "earn"
        BY <2>1 DEF Of
      <4>2. i \in 1..Len(x1) /\ x1[i].delta \in Int /\ Deltas(x1)[i] = x1[i].delta
        BY <1>2, <4>1, LedgerRow
      <4> QED BY <1>2, <4>1, <4>2 DEF Ledger
    <3> QED BY <2>1, <3>1
  <2>4. Expiry!RowsOf(x2[Hub], Expiry!Earned) = L
    BY <1>1, <2>1 DEF Expiry!RowsOf, Expiry!Earned, Of
  <2>5. Expiry!Lots = UsedFrom(e, s + d)
    BY <1>9, <2>1, <2>4, UseUpIs DEF Expiry!Lots
  <2>6. Expiry!Expiring(limit) = Left(UsedFrom(e, s + d), limit)
    BY <2>5, BeforeIs DEF Expiry!Expiring
  <2>7. PICK k : k = s + d
    OBVIOUS
  <2>8. k \in Nat
    BY <1>6, <2>7
  <2>9. Left(UsedFrom(e, k), limit) = Expiry!Positive(Left(e, limit) - k)
    <3>1. Len(x1) \in Nat /\ L \in SUBSET (1..Len(x1)) /\ e \in [L -> Nat]
      BY <1>4, <2>2, <2>3
    <3>2. \A a \in Int : Left(UsedFrom(e, k), a) = Expiry!Positive(Left(e, a) - k)
      BY <2>8, <3>1, UsedFromLeaves
    <3> QED BY <1>4, <3>2
  <2>10. Left(e, limit) = c
    <3>1. PICK T : T = {j \in L : j < limit}
      OBVIOUS
    <3>2. T \subseteq L /\ T \subseteq K
      BY <2>2, <3>1
    <3>3. IsFiniteSet(T)
      BY <1>2, <3>2, LedgerRow, FS_Subset
    <3>4. Sum(e, T) = Sum(Deltas(x1), T)
      BY <2>3, <3>2, <3>3, SumSame
    <3>5. \A j \in L : j <= Len(x1)
      BY <1>4, <2>2
    <3>6. T = {j \in L : j <= Len(x1) /\ j < limit}
      BY <3>1, <3>5
    <3>7. Left(e, limit) = Sum(e, T)
      BY <2>3, <3>1 DEF Left
    <3> QED BY <1>5, <2>1, <3>4, <3>6, <3>7 DEF Collected
  <2> QED BY <2>6, <2>7, <2>9, <2>10
<1>11. PICK amount : amount = Expiry!Least(Expiry!Expiring(limit), Expiry!Positive(Expiry!Points(Hub)))
  OBVIOUS
<1>12. amount > 0 /\ Expiry!Write(Hub, "expire", -amount)
  <2>1. Expiry!Now - Valid = limit
    BY <1>1 DEF Expiry!Now
  <2> QED BY <1>11, <2>1 DEF Expiry!Expire
<1>13. amount = c - s - d
  <2>1. amount = Expiry!Least(Expiry!Positive(c - (s + d)), Expiry!Positive(all0 - s - d))
    BY <1>8, <1>10, <1>11
  <2> QED BY <1>6, <1>12, <2>1 DEF Expiry!Least, Expiry!Positive
<1>14. -amount \in Int /\ c - s > d /\ d - (-amount) = c - s
  BY <1>6, <1>12, <1>13
<1>15. "expire" \in Expiry!Kind
  BY DEF Expiry!Kind, Expiry!Earned, Expiry!Used
<1>16. PICK delta : delta = -amount
  OBVIOUS
<1>17. Signed([kind |-> "expire", delta |-> delta])
  BY <1>14, <1>15, <1>16 DEF Signed
<1>18. d - delta = OpenAt(x1, K, n) /\ OpenAt(x1, K, n) > d
  BY <1>7, <1>14, <1>16
<1> QED BY <1>1, <1>2, <1>3, <1>5, <1>12, <1>14, <1>15, <1>16, <1>17, <1>18, RowWritten

LEMMA ExpiryInit == Expiry!Init => ExpiryInv
<1> SUFFICES ASSUME Expiry!Init PROVE ExpiryInv
  OBVIOUS
<1>1. x1 = <<>> /\ x2 = [h \in Expiry!Host |-> {}] /\ Hub \in Expiry!Host
  BY DEF Expiry!Init, Expiry!Host
<1>2. Len(x1) = 0 /\ 1..Len(x1) = {} /\ x2[Hub] = {} /\ x1 \in Seq([kind : Expiry!Kind, delta : Int])
  BY <1>1
<1>3. PICK g : g = [i \in 0..0 |-> 0]
  OBVIOUS
<1>4. 0 \in 0..0 /\ \A i \in 0..0 : i = 0
  OBVIOUS
<1>5. g[0] = 0 /\ IsDue(g, x1, x2[Hub])
  BY <1>2, <1>3, <1>4 DEF IsDue
<1>6. Expired(x1, x2[Hub]) = 0
  <2>1. PICK y : y = Sum(Deltas(x1), {})
    OBVIOUS
  <2>2. y \in Int /\ y <= 0 /\ y >= 0
    BY <2>1, SumEmpty
  <2>3. -y = 0
    BY <2>2
  <2>4. ExpiryRows(x1, x2[Hub]) = {}
    BY <1>2 DEF ExpiryRows
  <2> QED BY <2>1, <2>3, <2>4 DEF Expired
<1>7. Ledger(x1) /\ Len(x1) <= MaxRows
  BY <1>2, ExpiryNumbers DEF Ledger
<1>8. x2 \in [Expiry!Host -> SUBSET (1..Len(x1))]
  BY <1>1
<1>9. g[Len(x1)] \in Nat /\ Expired(x1, x2[Hub]) = g[Len(x1)]
  BY <1>2, <1>5, <1>6
<1> QED BY <1>2, <1>5, <1>7, <1>8, <1>9 DEF ExpiryInv

\* What is written at a host that is no expiry.
CollectsOrSpends(kind, delta, n) ==
    \/ kind = "earn" /\ delta = n
    \/ kind = "spend" /\ delta = -n

LEMMA HostWrites ==
    ASSUME ExpiryInv, NEW h \in Expiry!Host, NEW n \in 1..MaxPoints,
           NEW kind, NEW delta, CollectsOrSpends(kind, delta, n), Expiry!Write(h, kind, delta)
    PROVE  ExpiryInv'
<1>1. PICK g : IsDue(g, x1, x2[Hub]) /\ g[Len(x1)] \in Nat /\ Expired(x1, x2[Hub]) = g[Len(x1)]
  BY DEF ExpiryInv
<1>2. n \in Int /\ n > 0 /\ kind \in Expiry!Kind /\ delta \in Int /\ kind \notin {"expire", "expire_fix"}
  BY ExpiryNumbers DEF CollectsOrSpends, Expiry!Kind, Expiry!Earned, Expiry!Used
<1>3. /\ kind = "earn" => delta > 0
      /\ kind = "spend" => delta < 0
      /\ kind # "none"
  BY <1>2 DEF CollectsOrSpends
<1>4. Signed([kind |-> kind, delta |-> delta])
  BY <1>2, <1>3 DEF Signed
<1> QED BY <1>1, <1>2, <1>4, RowWritten

\* Time passes.
LEMMA TimePasses ==
    ASSUME ExpiryInv, Expiry!Wait
    PROVE  ExpiryInv'
<1>1. PICK w, n, K : w = [kind |-> "none", delta |-> 0] /\ n = Len(x1) + 1 /\ K = x2[Hub]
  OBVIOUS
<1>2. PICK g : IsDue(g, x1, K) /\ g[Len(x1)] \in Nat /\ Expired(x1, K) = g[Len(x1)]
  BY <1>1 DEF ExpiryInv
<1>3. /\ Ledger(x1) /\ Len(x1) \in Nat /\ x2 \in [Expiry!Host -> SUBSET (1..Len(x1))]
      /\ Hub \in Expiry!Host /\ K \in SUBSET (1..Len(x1))
  <2>1. Ledger(x1) /\ x2 \in [Expiry!Host -> SUBSET (1..Len(x1))]
    BY DEF ExpiryInv
  <2>2. Len(x1) \in Nat
    BY <2>1, LedgerRow
  <2> QED BY <1>1, <2>1, <2>2 DEF Expiry!Host
<1>4. n \in 1..MaxRows /\ x1' = Append(x1, w) /\ x2' = x2
  BY <1>1 DEF Expiry!Wait, Expiry!Now, Expiry!Time
<1>5. Len(x1) < MaxRows /\ ExpiriesIn(K)
  BY <1>1, <1>3, <1>4, ExpiryNumbers DEF ExpiryInv, ExpiriesIn
<1>6. \A i \in 1..Len(x1) : i \in 1..n
  BY <1>1, <1>3
<1>7. x2' \in [Expiry!Host -> SUBSET (1..n)] /\ x2'[Hub] = K
  BY <1>1, <1>3, <1>4, <1>6
<1>8. w.kind = "none" /\ w.delta = 0 /\ w \in [kind : Expiry!Kind, delta : Int]
  BY <1>1 DEF Expiry!Kind, Expiry!Earned, Expiry!Used
<1>9. Signed(w) /\ Balances(w, K, g, x2'[Hub], n)
  BY <1>2, <1>8 DEF Signed, Balances
<1> QED BY <1>1, <1>2, <1>3, <1>4, <1>5, <1>7, <1>9, LedgerGrows

\* A branch fetches rows: the hub's stay.
LEMMA BranchPulls ==
    ASSUME ExpiryInv, NEW b \in Branch, Expiry!Pull(b)
    PROVE  ExpiryInv'
<1>1. x1' = x1 /\ x2' = [x2 EXCEPT ![b] = @ \cup x2[Hub]]
  BY DEF Expiry!Pull
<1>2. Ledger(x1) /\ x2 \in [Expiry!Host -> SUBSET (1..Len(x1))] /\ Hub \in Expiry!Host /\ b \in Expiry!Host
  BY DEF ExpiryInv, Expiry!Host
<1>3. x2' \in [Expiry!Host -> SUBSET (1..Len(x1))] /\ x2'[Hub] = x2[Hub]
  BY <1>1, <1>2
<1> QED BY <1>1, <1>3 DEF ExpiryInv

\* A branch uploads rows: what the hub took back becomes what was due.
LEMMA BranchPushes ==
    ASSUME ExpiryInv, NEW b \in Branch, Expiry!Push(b)
    PROVE  ExpiryInv'
<1>1. PICK R, fix : R = x2[Hub] \cup x2[b] /\ fix = Expiry!Correction(R)
  OBVIOUS
<1>2. /\ Ledger(x1) /\ x2 \in [Expiry!Host -> SUBSET (1..Len(x1))] /\ Len(x1) <= MaxRows
      /\ Hub \in Expiry!Host /\ b \in Expiry!Host
  BY DEF ExpiryInv, Expiry!Host
<1>3. R \in SUBSET (1..Len(x1)) /\ Len(x1) \in Nat /\ DOMAIN x1 = 1..Len(x1)
  <2>1. R \in SUBSET (1..Len(x1))
    BY <1>1, <1>2
  <2> QED BY <1>2, <2>1, LedgerRow
<1>4. PICK g : /\ IsDue(g, x1, R) /\ g[Len(x1)] \in Nat
               /\ Expiry!Replay(R).correct = g[Len(x1)]
  BY <1>2, <1>3, ReplayIsDue
<1>5. Expiry!Recorded(R) = Expired(x1, R) /\ Expired(x1, R) \in Int
  <2>1. Expiry!RowsOf(R, {"expire", "expire_fix"}) = ExpiryRows(x1, R)
    BY DEF Expiry!RowsOf, ExpiryRows
  <2>2. ExpiryRows(x1, R) \in SUBSET (DOMAIN x1)
    BY <1>3 DEF ExpiryRows
  <2>3. Expiry!Total(ExpiryRows(x1, R)) = Sum(Deltas(x1), ExpiryRows(x1, R))
    BY <2>2, TotalIs
  <2>4. Expired(x1, R) \in Int
    BY <1>2, <1>3, LedgerParts
  <2> QED BY <2>1, <2>3, <2>4 DEF Expiry!Recorded, Expired
<1>6. /\ \A i \in 1..Len(x1) : x1[i].kind = "expire" => i \in R
      /\ \A i \in 1..Len(x1) : x1[i].kind = "expire_fix" => \E j \in 1..Len(x1) : x1[j].kind = "expire"
  BY <1>1 DEF ExpiryInv
<1>7. Expiry!RowsOf(R, {"expire"}) = Of(x1, R, "expire")
  BY DEF Expiry!RowsOf, Of
<1>8. Of(x1, R, "expire") = {} => fix = 0 /\ Expired(x1, R) = g[Len(x1)]
  <2> HAVE Of(x1, R, "expire") = {}
  <2>1. fix = 0
    BY <1>1, <1>7 DEF Expiry!Correction
  <2>2. ExpiryRows(x1, R) = {}
    <3>1. \A j \in 1..Len(x1) : x1[j].kind # "expire"
      BY <1>6 DEF Of
    <3>2. \A j \in R : j \in 1..Len(x1)
      BY <1>3
    <3> QED BY <1>6, <3>1, <3>2 DEF ExpiryRows
  <2>3. Expired(x1, R) = 0
    <3>1. PICK y : y = Sum(Deltas(x1), {})
      OBVIOUS
    <3>2. y \in Int /\ y <= 0 /\ y >= 0
      BY <3>1, SumEmpty
    <3>3. -y = 0
      BY <3>2
    <3> QED BY <2>2, <3>1, <3>3 DEF Expired
  <2>4. g[Len(x1)] = 0
    BY <1>3, <1>4, NothingDue
  <2> QED BY <2>1, <2>3, <2>4
<1>9. Of(x1, R, "expire") # {} => fix = Expired(x1, R) - g[Len(x1)]
  BY <1>1, <1>4, <1>5, <1>7 DEF Expiry!Correction
<1>10. CASE fix = 0
  <2>1. Expired(x1, R) = g[Len(x1)]
    <3>1. PICK x, y : x = Expired(x1, R) /\ y = g[Len(x1)]
      OBVIOUS
    <3>2. x \in Int /\ y \in Int /\ (Of(x1, R, "expire") = {} => x = y)
          /\ (Of(x1, R, "expire") # {} => x - y = 0)
      BY <1>4, <1>5, <1>8, <1>9, <1>10, <3>1
    <3> QED BY <3>1, <3>2
  <2>2. x1' = x1 /\ x2' = [x2 EXCEPT ![Hub] = R]
    BY <1>1, <1>10 DEF Expiry!Push
  <2>3. x2' \in [Expiry!Host -> SUBSET (1..Len(x1))] /\ x2'[Hub] = R
    BY <1>2, <1>3, <2>2
  <2> QED BY <1>2, <1>4, <1>6, <2>1, <2>2, <2>3 DEF ExpiryInv
<1>11. CASE fix # 0
  <2>1. PICK w, n : w = [kind |-> "expire_fix", delta |-> fix] /\ n = Len(x1) + 1
    OBVIOUS
  <2>2. n \in 1..MaxRows /\ x1' = Append(x1, w) /\ x2' = [x2 EXCEPT ![Hub] = R \cup {n}]
    BY <1>1, <1>11, <2>1 DEF Expiry!Push, Expiry!Now, Expiry!Time
  <2>3. Len(x1) < MaxRows /\ ExpiriesIn(R)
    BY <1>3, <1>6, <2>1, <2>2, ExpiryNumbers DEF ExpiriesIn
  <2>4. fix \in Int /\ Expired(x1, R) - fix = g[Len(x1)]
    <3>1. PICK x, y : x = Expired(x1, R) /\ y = g[Len(x1)]
      OBVIOUS
    <3>2. x \in Int /\ y \in Int /\ fix = x - y
      BY <1>4, <1>5, <1>8, <1>9, <1>11, <3>1
    <3> QED BY <3>1, <3>2
  <2>5. w.kind = "expire_fix" /\ w.delta = fix /\ w \in [kind : Expiry!Kind, delta : Int]
    BY <2>1, <2>4 DEF Expiry!Kind, Expiry!Earned, Expiry!Used
  <2>6. Signed(w)
    BY <2>5 DEF Signed
  <2>7. x2' \in [Expiry!Host -> SUBSET (1..n)] /\ x2'[Hub] = R \cup {n}
    <3>1. \A i \in 1..Len(x1) : i \in 1..n
      BY <1>3, <2>1
    <3>2. n \in 1..n
      BY <1>3, <2>1
    <3> QED BY <1>2, <1>3, <2>2, <3>1, <3>2
  <2>8. \E j \in 1..Len(x1) : x1[j].kind = "expire"
    <3>1. \A j \in R : j \in 1..Len(x1)
      BY <1>3
    <3>2. Of(x1, R, "expire") # {}
      BY <1>8, <1>11
    <3> QED BY <3>1, <3>2 DEF Of
  <2>9. Balances(w, R, g, x2'[Hub], n)
    BY <2>4, <2>5, <2>7, <2>8 DEF Balances
  <2> QED BY <1>2, <1>3, <1>4, <2>1, <2>2, <2>3, <2>6, <2>7, <2>9, LedgerGrows
<1> QED BY <1>10, <1>11

LEMMA ExpiryNext == ExpiryInv /\ Expiry!Next => ExpiryInv'
<1> SUFFICES ASSUME ExpiryInv, Expiry!Next PROVE ExpiryInv'
  OBVIOUS
<1>1. ASSUME NEW h \in Expiry!Host, Expiry!Earn(h) PROVE ExpiryInv'
  <2>1. PICK n \in 1..MaxPoints : Expiry!Write(h, "earn", n)
    BY <1>1 DEF Expiry!Earn
  <2>2. CollectsOrSpends("earn", n, n)
    BY DEF CollectsOrSpends
  <2> QED BY <2>1, <2>2, HostWrites
<1>2. ASSUME NEW h \in Expiry!Host, Expiry!Spend(h) PROVE ExpiryInv'
  <2>1. PICK n \in 1..MaxPoints : Expiry!Write(h, "spend", -n)
    BY <1>2 DEF Expiry!Spend
  <2>2. CollectsOrSpends("spend", -n, n)
    BY DEF CollectsOrSpends
  <2> QED BY <2>1, <2>2, HostWrites
<1> QED BY <1>1, <1>2, BranchPushes, BranchPulls, ExpiresDue, TimePasses DEF Expiry!Next

IsDueFor(f) ==
    f = [i \in 0..Len(x1) |->
            IF i = 0 THEN 0
            ELSE IF i \in Expiry!RowsOf(x2[Hub], {"expire"}) /\ Expiry!Unspent(i) > f[i - 1]
                 THEN Expiry!Unspent(i)
            ELSE f[i - 1]]

LEMMA ExpiryHolds == ExpiryInv => Expiry!TypeOK /\ Expiry!ExpiryExact
<1> SUFFICES ASSUME ExpiryInv PROVE Expiry!TypeOK /\ Expiry!ExpiryExact
  OBVIOUS
<1>1. PICK K : K = x2[Hub]
  OBVIOUS
<1>2. /\ Ledger(x1) /\ x2 \in [Expiry!Host -> SUBSET (1..Len(x1))] /\ Len(x1) <= MaxRows
      /\ Hub \in Expiry!Host
  BY DEF ExpiryInv, Expiry!Host
<1>3. K \in SUBSET (1..Len(x1)) /\ Len(x1) \in Nat /\ DOMAIN x1 = 1..Len(x1)
  <2>1. K \in SUBSET (1..Len(x1))
    BY <1>1, <1>2
  <2> QED BY <1>2, <2>1, LedgerRow
<1>4. PICK g : IsDue(g, x1, K) /\ g[Len(x1)] \in Nat /\ Expired(x1, K) = g[Len(x1)]
  BY <1>1 DEF ExpiryInv
<1>5. Expiry!TypeOK
  BY <1>2, <1>3 DEF Expiry!TypeOK, Ledger
<1>6. Expiry!Recorded(x2[Hub]) = g[Len(x1)]
  <2>1. Expiry!RowsOf(K, {"expire", "expire_fix"}) = ExpiryRows(x1, K)
    BY DEF Expiry!RowsOf, ExpiryRows
  <2>2. ExpiryRows(x1, K) \in SUBSET (DOMAIN x1)
    BY <1>3 DEF ExpiryRows
  <2>3. Expiry!Total(ExpiryRows(x1, K)) = Sum(Deltas(x1), ExpiryRows(x1, K))
    BY <2>2, TotalIs
  <2> QED BY <1>1, <1>4, <2>1, <2>3 DEF Expiry!Recorded, Expired
<1>7. ASSUME NEW i PROVE Expiry!Unspent(i) = OpenAt(x1, K, i)
  <2>1. PICK S, T : /\ S = {j \in Of(x1, K, "earn") : j < i - Valid}
                    /\ T = {j \in Of(x1, K, "spend") : j < i}
    OBVIOUS
  <2>2. S \in SUBSET (DOMAIN x1) /\ T \in SUBSET (DOMAIN x1)
    BY <1>3, <2>1 DEF Of
  <2>3. Expiry!Total(S) = Sum(Deltas(x1), S) /\ Expiry!Total(T) = Sum(Deltas(x1), T)
    BY <2>2, TotalIs
  <2>4. /\ S = {j \in Expiry!RowsOf(x2[Hub], Expiry!Earned) : j < i - Valid}
        /\ T = {j \in Expiry!RowsOf(x2[Hub], {"spend"}) : j < i}
    BY <1>1, <2>1 DEF Of, Expiry!RowsOf, Expiry!Earned
  <2> QED BY <2>1, <2>3, <2>4 DEF Expiry!Unspent, OpenAt
<1>8. ASSUME NEW f PROVE IsDueFor(f) <=> IsDue(f, x1, K)
  <2>1. Expiry!RowsOf(x2[Hub], {"expire"}) = Of(x1, K, "expire")
    BY <1>1 DEF Expiry!RowsOf, Of
  <2> QED BY <1>7, <2>1 DEF IsDueFor, IsDue
<1>9. Expiry!Due = (CHOOSE f : IsDueFor(f))[Len(x1)]
  BY DEF Expiry!Due, IsDueFor
<1>10. PICK f : f = (CHOOSE s : IsDueFor(s))
  OBVIOUS
<1>11. IsDue(f, x1, K)
  <2>1. IsDueFor(g)
    BY <1>4, <1>8
  <2>2. IsDueFor(f)
    BY <1>10, <2>1, Zenon
  <2> QED BY <1>8, <2>2
<1>12. f[Len(x1)] = g[Len(x1)]
  BY <1>3, <1>4, <1>11, DueOnce
<1> QED BY <1>5, <1>6, <1>9, <1>10, <1>12 DEF Expiry!ExpiryExact

-----------------------------------------------------------------------------
\* All of them.

AdvancesInv ==
    /\ part = "advance" => AdvanceInv
    /\ part = "expiry" => ExpiryInv
    /\ part = "reserve" => ReserveInv
    /\ part = "stampCards" => StampsInv
    /\ part = "rewards" => RewardsInv

LEMMA AdvancesInit == Init => AdvancesInv
<1> SUFFICES ASSUME Init PROVE AdvancesInv
  OBVIOUS
<1>1. /\ part = "advance" => Advance!Init
      /\ part = "expiry" => Expiry!Init
      /\ part = "reserve" => Reserve!Init
      /\ part = "stampCards" => StampCards!Init
      /\ part = "rewards" => Rewards!Init
  BY DEF Init
<1> QED BY <1>1, AdvanceInit, ExpiryInit, ReserveInit, StampsInit, RewardsInit DEF AdvancesInv

LEMMA AdvancesNext == AdvancesInv /\ Next => AdvancesInv'
<1> SUFFICES ASSUME AdvancesInv, Next PROVE AdvancesInv'
  OBVIOUS
<1>1. /\ part' = part
      /\ part = "advance" => Advance!Next
      /\ part = "expiry" => Expiry!Next
      /\ part = "reserve" => Reserve!Next
      /\ part = "stampCards" => StampCards!Next
      /\ part = "rewards" => Rewards!Next
  BY DEF Next
<1> QED BY <1>1, AdvanceNext, ExpiryNext, ReserveNext, StampsNext, RewardsNext DEF AdvancesInv

LEMMA AdvancesStays == AdvancesInv /\ UNCHANGED all => AdvancesInv'
<1> SUFFICES ASSUME AdvancesInv, UNCHANGED all PROVE AdvancesInv'
  OBVIOUS
<1>1. /\ part' = part /\ x1' = x1 /\ x2' = x2 /\ x3' = x3 /\ x4' = x4 /\ x5' = x5 /\ x6' = x6
      /\ x7' = x7 /\ x8' = x8 /\ x9' = x9 /\ x10' = x10 /\ x11' = x11
  BY DEF all
<1>2. AdvanceInv => AdvanceInv'
  BY <1>1 DEF AdvanceInv
<1>3. ReserveInv => ReserveInv'
  BY <1>1 DEF ReserveInv
<1>4. StampsInv => StampsInv'
  BY <1>1 DEF StampsInv
<1>5. RewardsInv => RewardsInv'
  BY <1>1 DEF RewardsInv
<1>6. ExpiryInv => ExpiryInv'
  BY <1>1 DEF ExpiryInv
<1> QED BY <1>1, <1>2, <1>3, <1>4, <1>5, <1>6 DEF AdvancesInv

LEMMA AdvancesAlways == AdvancesInv /\ [Next]_all => AdvancesInv'
  BY AdvancesNext, AdvancesStays

\* Gift cards and passes are never overdrawn and a pass that was paid back has no cup drunk, a
\* reservation that is over has decided about its deposit, a full stamp card is exchanged once,
\* nobody has the meal and its points, and the hub has expired exactly the points that were due,
\* whatever requests do at the same time and however late a branch uploads its rows
\* (giftcard_service, pass_service, deposit_service, loyalty_service, voucher_service).
THEOREM AdvancesHold == Spec => []AdvancesKept
<1>1. AdvancesInv => AdvancesKept
  BY AdvanceHolds, ExpiryHolds, ReserveHolds, StampsHolds, RewardsHolds DEF AdvancesInv, AdvancesKept
<1> QED BY AdvancesInit, AdvancesAlways, <1>1, PTL DEF Spec

=============================================================================
