---------------------------- MODULE MCHosts_proofs ----------------------------
(***************************************************************************)
(* Theorems about the databases that exchange rows, for any number of      *)
(* orders, transfers, branches and portions.                               *)
(*                                                                         *)
(* One invariant for each of the models.  They have in common that what is *)
(* not the same at two sites must be under way: what a page, a mark or a   *)
(* request of the one still carries to the other.                          *)
(***************************************************************************)
EXTENDS MCHosts, FiniteSetTheorems, TLAPS

-----------------------------------------------------------------------------
(***************************************************************************)
(* Counting one by one: f[x] units of each x in S.                         *)
(***************************************************************************)
Units(S, f) == UNION {{x} \X (1..f[x]) : x \in S}

LEMMA UnitsOf ==
    ASSUME NEW S, NEW f, NEW u
    PROVE  u \in Units(S, f) <=> \E x \in S : \E i \in 1..f[x] : u = <<x, i>>
  BY DEF Units

\* A finite set has finitely many units.
LEMMA UnitsFinite ==
    ASSUME NEW S, IsFiniteSet(S), NEW f, \A x \in S : f[x] \in Int
    PROVE  IsFiniteSet(Units(S, f)) /\ Cardinality(Units(S, f)) \in Nat
<1> DEFINE part1(x) == {x} \X (1..f[x])
           T == {part1(x) : x \in S}
           M == [x \in S |-> part1(x)]
<1>1. M \in Surjection(S, T)
  <2>1. M \in [S -> T]
    OBVIOUS
  <2>2. \A t \in T : \E x \in S : M[x] = t
    OBVIOUS
  <2> QED BY <2>1, <2>2 DEF Surjection
<1>2. IsFiniteSet(T)
  <2> HIDE DEF M, T
  <2> QED BY <1>1, FS_Surjection
<1>3. ASSUME NEW t \in T PROVE IsFiniteSet(t)
  <2>1. PICK x \in S : t = {x} \X (1..f[x])
    OBVIOUS
  <2>2. 1 \in Int /\ f[x] \in Int
    OBVIOUS
  <2>3. IsFiniteSet({x}) /\ IsFiniteSet(1..f[x])
    BY <2>2, FS_Singleton, FS_Interval
  <2> QED BY <2>1, <2>3, FS_Product
<1>4. IsFiniteSet(UNION T)
  <2> HIDE DEF T
  <2> QED BY <1>2, <1>3, FS_UNION
<1> QED BY <1>4, FS_CardinalityType DEF Units

-----------------------------------------------------------------------------
(***************************************************************************)
(* What a member has (Members).                                            *)
(*                                                                         *)
(* Every ledger is finite and only grows; what the hub works on of a       *)
(* branch's ledger is part of it.  A referral bonus is one point, given    *)
(* once for an order, and what undoes it takes points.                     *)
(***************************************************************************)
Sites == Shop \cup {Online}
Purchases == 1..MaxOrder
Referred(e) == e.reason = "referred"

EntryOK(e) ==
    /\ Referred(e) => e.delta = 1 /\ form[e.order] # Member!NoForm
    /\ e.reason \in {"referred_dup", "referred_cancel"} => e.delta < 0

LedgersOK ==
    /\ \A s \in Sites : IsFiniteSet(ledger[s])
    /\ \A s \in Sites : \A e \in ledger[s] : EntryOK(e)
    /\ \A s, t \in Sites : \A e \in ledger[s], g \in ledger[t] :
          Referred(e) /\ Referred(g) /\ e.order = g.order => e = g
    /\ \A b \in Shop : /\ pushing[b].entries \subseteq ledger[b]
                       /\ pushing[b].base \subseteq ledger[Online]

\* A branch knows the orders it makes; only those it marks and uploads.
OrdersKnown ==
    /\ \A s \in Sites, o \in Purchases : order[s][o] # "none" => form[o] # Member!NoForm
    /\ \A o \in Purchases : form[o] # Member!NoForm => form[o].home \in Shop
    /\ \A b \in Shop, o \in Purchases :
          /\ order[b][o] # "none" => form[o].home = b
          /\ o \in marked[b] \/ pushing[b].orders[o] # "none" => order[b][o] # "none"
          /\ ~pushing[b].on => pushing[b].orders[o] = "none"

\* Of two bonuses that count at the hub the later one is undone.
Dup(o) == \E u \in ledger[Online] : u.reason = "referred_dup" /\ u.order = o

LaterUndone ==
    \A e, g \in ledger[Online] :
        /\ Referred(e) /\ Referred(g) /\ e.order < g.order
        /\ order[Online][e.order] # "cancelled" /\ order[Online][g.order] # "cancelled"
        => Dup(g.order)

\* Of two orders that use the coupon one still comes up, or the shop knows.
Uses(o) == form[o].coupon /\ Member!Stands(order[Online][o])

ComesUp(o) ==
    \E b \in Shop :
        /\ form[o].home = b
        /\ \/ order[b][o] = "none"
           \/ o \in marked[b]
           \/ pushing[b].orders[o] # "none"

CouponsTold == \A o, p \in Purchases : Uses(o) /\ Uses(p) /\ o # p => warned \/ ComesUp(o) \/ ComesUp(p)

MemberInv == Member!TypeOK /\ LedgersOK /\ OrdersKnown /\ LaterUndone /\ CouponsTold

\* The same names for the sets of the model.
LEMMA MemberSets ==
    /\ Member!Site = Sites /\ Member!Purchase = Purchases
    /\ Purchases \subseteq Nat /\ Online \in Sites /\ Shop \subseteq Sites /\ Online \notin Shop
  BY MemberAssumption DEF Member!Site, Member!Purchase, Sites, Purchases

-----------------------------------------------------------------------------
\* The models count as this module does.
LEMMA MemberCounts ==
    ASSUME NEW S
    PROVE  Member!Cardinality(S) = Cardinality(S)
  BY DEF Member!Cardinality, Cardinality

\* The points of finitely many entries, counted one by one, are an integer.
LEMMA SumInt ==
    ASSUME NEW E, IsFiniteSet(E), E \subseteq Member!Entry
    PROVE  /\ Member!Sum(E) \in Int
           /\ IsFiniteSet(Member!Gives(E)) /\ IsFiniteSet(Member!Takes(E))
           /\ Cardinality(Member!Gives(E)) \in Nat /\ Cardinality(Member!Takes(E)) \in Nat
<1> DEFINE gives == [e \in E |-> e.delta]
           takes == [e \in E |-> -e.delta]
<1>1. \A e \in E : e.delta \in Int
  BY DEF Member!Entry
<1>2. Member!Gives(E) = Units(E, gives) /\ Member!Takes(E) = Units(E, takes)
  BY DEF Member!Gives, Member!Takes, Units
<1>3. (\A e \in E : gives[e] \in Int) /\ (\A e \in E : takes[e] \in Int)
  BY <1>1
<1> HIDE DEF gives, takes
<1>4. IsFiniteSet(Units(E, gives)) /\ Cardinality(Units(E, gives)) \in Nat
  BY <1>3, UnitsFinite
<1>5. IsFiniteSet(Units(E, takes)) /\ Cardinality(Units(E, takes)) \in Nat
  BY <1>3, UnitsFinite
<1> QED BY <1>2, <1>4, <1>5, MemberCounts DEF Member!Sum

\* A bonus that was undone gives nothing: entries of an order with one bonus,
\* one undoing and nothing else that gives do not add up to more than zero.
LEMMA UndoneSum ==
    ASSUME NEW E, IsFiniteSet(E), E \subseteq Member!Entry,
           \A e \in E : Referred(e) => e.delta = 1,
           \A e \in E : ~Referred(e) => e.delta < 0,
           \A e, g \in E : Referred(e) /\ Referred(g) => e = g
    PROVE  /\ Member!Sum(E) > 0 => \E e \in E : Referred(e)
           /\ Member!Sum(E) > 0 => \A e \in E : Referred(e)
<1>1. /\ Member!Sum(E) = Cardinality(Member!Gives(E)) - Cardinality(Member!Takes(E))
      /\ IsFiniteSet(Member!Gives(E)) /\ IsFiniteSet(Member!Takes(E))
      /\ Cardinality(Member!Gives(E)) \in Nat /\ Cardinality(Member!Takes(E)) \in Nat
  BY SumInt, MemberCounts DEF Member!Sum
<1>2. \A e \in E : e.delta \in Int
  BY DEF Member!Entry
<1>3. ASSUME NEW u \in Member!Gives(E) PROVE \E e \in E : Referred(e) /\ u = <<e, 1>>
  <2>1. PICK e \in E : u \in {e} \X (1..e.delta)
    BY DEF Member!Gives
  <2>2. PICK i \in 1..e.delta : u = <<e, i>>
    BY <2>1
  <2>3. Referred(e) /\ e.delta = 1
    BY <1>2, <2>2
  <2> QED BY <2>2, <2>3
<1>4. CASE \A e \in E : ~Referred(e)
  <2>1. Member!Gives(E) = {}
    BY <1>3, <1>4
  <2>2. Cardinality(Member!Gives(E)) = 0
    BY <2>1, FS_EmptySet
  <2> QED BY <1>1, <2>2
<1>5. ASSUME NEW e \in E, Referred(e) PROVE Member!Sum(E) > 0 => \A g \in E : Referred(g)
  <2>1. Member!Gives(E) \subseteq {<<e, 1>>}
    BY <1>3, <1>5
  <2>2. IsFiniteSet({<<e, 1>>}) /\ Cardinality({<<e, 1>>}) = 1
    BY FS_Singleton
  <2>3. Cardinality(Member!Gives(E)) <= 1
    BY <2>1, <2>2, FS_Subset
  <2>4. SUFFICES ASSUME NEW g \in E, ~Referred(g) PROVE ~(Member!Sum(E) > 0)
    OBVIOUS
  <2>5. <<g, 1>> \in Member!Takes(E)
    <3>1. 1 \in 1..(-g.delta)
      BY <1>2, <2>4
    <3> QED BY <3>1 DEF Member!Takes
  <2>6. Cardinality(Member!Takes(E)) # 0
    BY <1>1, <2>5, FS_EmptySet
  <2> QED BY <1>1, <2>3, <2>6
<1> QED BY <1>4, <1>5

-----------------------------------------------------------------------------
\* What an upload carries, and the order of the statuses.
LEMMA HigherStatus ==
    ASSUME NEW m \in Member!Status, NEW n \in Member!Status
    PROVE  /\ Member!Higher(m, n) \in {m, n}
           /\ Member!Higher(m, "none") = m /\ Member!Higher("none", n) = n
           /\ m = "cancelled" => Member!Higher(m, n) = "cancelled"
           /\ m # "none" => Member!Higher(m, n) # "none"
           /\ n # "none" => Member!Higher(m, n) # "none"
  BY DEF Member!Higher, Member!Rank, Member!Status

LEMMA MemberPushType ==
    ASSUME Member!TypeOK, NEW b \in Shop
    PROVE  /\ pushing[b] \in Member!Push /\ pushing[b].on \in BOOLEAN
           /\ pushing[b].orders \in [Purchases -> Member!Status]
           /\ pushing[b].entries \subseteq Member!Entry /\ pushing[b].base \subseteq Member!Entry
           /\ pushing[b].coupon \in Member!Coupon
  BY DEF Member!TypeOK, Member!Push, Member!Purchase, Purchases

LEMMA MemberType ==
    ASSUME Member!TypeOK
    PROVE  /\ form \in [Purchases -> Member!Form]
           /\ order \in [Sites -> [Purchases -> Member!Status]]
           /\ ledger \in [Sites -> SUBSET Member!Entry]
           /\ points \in [Sites -> Int]
           /\ coupon \in [Sites -> Member!Coupon]
           /\ clock \in Nat
           /\ marked \in [Shop -> SUBSET Purchases]
           /\ pushing \in [Shop -> Member!Push]
           /\ warned \in BOOLEAN
  BY MemberSets DEF Member!TypeOK

\* Ledgers that only grow, by entries another site has, by entries that give no
\* bonus, or by the one bonus r of an order that had none.
LEMMA LedgersGrow ==
    ASSUME LedgersOK, NEW r,
           \A s \in Sites : ledger[s] \subseteq ledger'[s] /\ IsFiniteSet(ledger'[s]),
           \A s \in Sites : \A e \in ledger'[s] :
              \/ \E t \in Sites : e \in ledger[t]
              \/ /\ EntryOK(e)'
                 /\ Referred(e) => /\ e = r
                                   /\ \A t \in Sites : \A g \in ledger[t] : Referred(g) => g.order # e.order,
           \A t \in Sites : \A g \in ledger[t] :
              Referred(g) /\ form[g.order] # Member!NoForm => form'[g.order] # Member!NoForm,
           \A b \in Shop : /\ pushing'[b].entries \subseteq ledger'[b]
                           /\ pushing'[b].base \subseteq ledger'[Online]
    PROVE  LedgersOK'
<1>1. ASSUME NEW s \in Sites, NEW e \in ledger'[s] PROVE EntryOK(e)'
  BY <1>1 DEF LedgersOK, EntryOK
<1>2. ASSUME NEW s \in Sites, NEW t \in Sites, NEW e \in ledger'[s], NEW g \in ledger'[t],
             Referred(e), Referred(g), e.order = g.order
      PROVE  e = g
  <2>1. CASE (\E u \in Sites : e \in ledger[u]) /\ (\E u \in Sites : g \in ledger[u])
    BY <1>2, <2>1 DEF LedgersOK
  <2>2. CASE ~(\E u \in Sites : e \in ledger[u])
    BY <1>2, <2>2
  <2>3. CASE ~(\E u \in Sites : g \in ledger[u])
    BY <1>2, <2>3
  <2> QED BY <2>1, <2>2, <2>3
<1>3. /\ \A s \in Sites : IsFiniteSet(ledger'[s])
      /\ \A b \in Shop : /\ pushing'[b].entries \subseteq ledger'[b]
                         /\ pushing'[b].base \subseteq ledger'[Online]
  OBVIOUS
<1> QED BY <1>1, <1>2, <1>3 DEF LedgersOK, Referred

\* Entries that a site posts: those that change something.
LEMMA PostedLedgers ==
    ASSUME Member!TypeOK, LedgersOK, NEW s \in Sites, NEW new, new \subseteq Member!Entry,
           IsFiniteSet(new), Member!Posted(s, new)
    PROVE  /\ ledger' \in [Sites -> SUBSET Member!Entry] /\ points' \in [Sites -> Int]
           /\ \A t \in Sites : ledger[t] \subseteq ledger'[t] /\ IsFiniteSet(ledger'[t])
           /\ \A t \in Sites : t # s => ledger'[t] = ledger[t]
           /\ \A e \in ledger'[s] : e \in ledger[s] \/ (e \in new /\ e.delta # 0)
           /\ \A e \in new : e.delta # 0 => e \in ledger'[s]
<1> DEFINE added == {e \in new : e.delta # 0}
<1>1. ledger' = [ledger EXCEPT ![s] = @ \cup added] /\ points' = [points EXCEPT ![s] = @ + Member!Sum(new)]
  BY DEF Member!Posted
<1>2. ledger \in [Sites -> SUBSET Member!Entry] /\ points \in [Sites -> Int]
  BY MemberType
<1>3. Member!Sum(new) \in Int
  BY SumInt
<1>4. IsFiniteSet(added)
  BY FS_Subset
<1>5. \A t \in Sites : IsFiniteSet(ledger[t])
  BY DEF LedgersOK
<1>6. ledger'[s] = ledger[s] \cup added /\ \A t \in Sites : t # s => ledger'[t] = ledger[t]
  BY <1>1, <1>2
<1>7. IsFiniteSet(ledger[s] \cup added)
  BY <1>4, <1>5, FS_Union
<1>8. points' \in [Sites -> Int]
  BY <1>1, <1>2, <1>3
<1>9. ledger' \in [Sites -> SUBSET Member!Entry]
  BY <1>1, <1>2
<1> QED BY <1>5, <1>6, <1>7, <1>8, <1>9

-----------------------------------------------------------------------------
\* No new bonus, and an order that is cancelled stays so.
LEMMA LaterKept ==
    ASSUME LaterUndone,
           \A e \in ledger'[Online] : Referred(e) => e \in ledger[Online],
           ledger[Online] \subseteq ledger'[Online],
           \A e \in ledger[Online] :
              Referred(e) /\ order[Online][e.order] = "cancelled" => order'[Online][e.order] = "cancelled"
    PROVE  LaterUndone'
<1> SUFFICES ASSUME NEW e \in ledger'[Online], NEW g \in ledger'[Online],
                    Referred(e), Referred(g), e.order < g.order,
                    order'[Online][e.order] # "cancelled", order'[Online][g.order] # "cancelled"
             PROVE  Dup(g.order)'
  BY DEF LaterUndone, Referred
<1>1. Dup(g.order)
  BY DEF LaterUndone
<1>2. PICK u \in ledger[Online] : u.reason = "referred_dup" /\ u.order = g.order
  BY <1>1 DEF Dup
<1> QED BY <1>2 DEF Dup

\* An order that uses the coupon still comes up, or comes up now.
LEMMA ToldKept ==
    ASSUME CouponsTold, warned => warned',
           \A o \in Purchases :
              Uses(o)' => (Uses(o) /\ (ComesUp(o) => ComesUp(o)')) \/ ComesUp(o)'
    PROVE  CouponsTold'
  BY DEF CouponsTold

LEMMA MemberPlace ==
    ASSUME MemberInv, NEW s \in Sites, NEW b \in Shop, NEW o \in Purchases, NEW f \in Member!Form,
           s \in {Online, b}, Member!Place(s, b, o, f)
    PROVE  MemberInv'
<1> DEFINE redeem == [order |-> o, reason |-> "redeem", site |-> s, delta |-> -f.points]
           earn == [order |-> o, reason |-> "earn", site |-> s, delta |-> 1 - f.points]
           bonus == [order |-> o, reason |-> "referred", site |-> s,
                     delta |-> IF Member!FirstPurchase(s) THEN 1 ELSE 0]
           new == {redeem, earn, bonus}
<1>1. Member!TypeOK /\ LedgersOK /\ OrdersKnown /\ LaterUndone /\ CouponsTold
  BY DEF MemberInv
<1>2. /\ form[o] = Member!NoForm /\ order[Online][o] = "none" /\ order[b][o] = "none"
      /\ f.home = b
      /\ form' = [form EXCEPT ![o] = f]
      /\ order' = [order EXCEPT ![s][o] = "active"]
      /\ Member!Posted(s, new)
      /\ Member!Mark(s, o)
      /\ UNCHANGED <<pushing, warned>>
  BY DEF Member!Place
<1>3. f.points \in 0..1 /\ f.home \in Sites /\ f.coupon \in BOOLEAN
  BY MemberSets DEF Member!Form
<1>4. new \subseteq Member!Entry
  <2>1. redeem \in Member!Entry
    BY <1>3, MemberSets DEF Member!Entry, Member!Reason
  <2>2. earn \in Member!Entry
    BY <1>3, MemberSets DEF Member!Entry, Member!Reason
  <2>3. bonus \in Member!Entry
    BY <1>3, MemberSets DEF Member!Entry, Member!Reason
  <2> QED BY <2>1, <2>2, <2>3
<1>5. IsFiniteSet(new)
  <2> HIDE DEF redeem, earn, bonus
  <2>1. IsFiniteSet({redeem})
    BY FS_Singleton
  <2>2. IsFiniteSet({redeem} \cup {earn})
    BY <2>1, FS_AddElement
  <2>3. IsFiniteSet(({redeem} \cup {earn}) \cup {bonus})
    BY <2>2, FS_AddElement
  <2>4. ({redeem} \cup {earn}) \cup {bonus} = new
    OBVIOUS
  <2> QED BY <2>3, <2>4
<1>6. \A e \in new : /\ e.order = o /\ e.reason \notin {"referred_dup", "referred_cancel"}
                     /\ Referred(e) => e = bonus
  BY DEF Referred
<1>7. bonus.delta # 0 => bonus.delta = 1 /\ \A e \in ledger[s] : ~Referred(e)
  BY DEF Member!FirstPurchase, Referred
<1>8. f # Member!NoForm
  BY <1>2, MemberSets DEF Member!NoForm
<1> HIDE DEF new, redeem, earn, bonus
<1>9. /\ ledger' \in [Sites -> SUBSET Member!Entry] /\ points' \in [Sites -> Int]
      /\ \A t \in Sites : ledger[t] \subseteq ledger'[t] /\ IsFiniteSet(ledger'[t])
      /\ \A t \in Sites : t # s => ledger'[t] = ledger[t]
      /\ \A e \in ledger'[s] : e \in ledger[s] \/ (e \in new /\ e.delta # 0)
  BY <1>1, <1>2, <1>4, <1>5, PostedLedgers
<1>10. /\ \A p \in Purchases : p # o => form'[p] = form[p]
       /\ form'[o] = f
       /\ \A t \in Sites, p \in Purchases : order'[t][p] = IF t = s /\ p = o THEN "active" ELSE order[t][p]
  BY <1>1, <1>2, MemberType
<1>11. /\ marked' \in [Shop -> SUBSET Purchases]
       /\ \A c \in Shop : marked[c] \subseteq marked'[c]
       /\ \A c \in Shop, p \in Purchases : p \in marked'[c] => p \in marked[c] \/ (p = o /\ c = s)
  BY <1>1, <1>2, MemberType DEF Member!Mark
<1>12. Member!TypeOK'
  <2>1. form' \in [Purchases -> Member!Form]
    BY <1>1, <1>2, MemberType
  <2>2. order' \in [Sites -> [Purchases -> Member!Status]]
    BY <1>1, <1>2, MemberType DEF Member!Status
  <2>3. coupon' \in [Sites -> Member!Coupon] /\ clock' \in Nat
    <3>1. coupon \in [Sites -> Member!Coupon] /\ clock \in Nat
      BY <1>1, MemberType
    <3>2. [used |-> TRUE, at |-> clock + 1] \in Member!Coupon
      BY <3>1 DEF Member!Coupon
    <3>3. /\ coupon' = coupon \/ coupon' = [coupon EXCEPT ![s] = [used |-> TRUE, at |-> clock + 1]]
          /\ clock' = clock \/ clock' = clock + 1
      BY DEF Member!Place
    <3>4. coupon' \in [Sites -> Member!Coupon]
      BY <3>1, <3>2, <3>3
    <3>5. clock' \in Nat
      BY <3>1, <3>3
    <3> QED BY <3>4, <3>5
  <2> QED BY <1>1, <1>2, <1>9, <1>11, <2>1, <2>2, <2>3, MemberType, MemberSets DEF Member!TypeOK
<1>13. LedgersOK'
  <2>1. \A t \in Sites : \A g \in ledger[t] : Referred(g) => form[g.order] # Member!NoForm
    BY <1>1 DEF LedgersOK, EntryOK
  <2>2. \A t \in Sites : \A g \in ledger[t] : Referred(g) => g.order # o
    BY <1>2, <2>1
  <2>3. \A t \in Sites : \A g \in ledger[t] :
           Referred(g) /\ form[g.order] # Member!NoForm => form'[g.order] # Member!NoForm
    <3>1. \A t \in Sites : \A g \in ledger[t] : g.order \in Purchases
      BY <1>1, MemberType, MemberSets DEF Member!Entry
    <3> QED BY <1>2, <1>10, <3>1
  <2>4. ASSUME NEW t \in Sites, NEW e \in ledger'[t], ~(\E u \in Sites : e \in ledger[u])
        PROVE  /\ EntryOK(e)'
               /\ Referred(e) => /\ e = bonus
                                 /\ \A u \in Sites : \A g \in ledger[u] : Referred(g) => g.order # e.order
    <3>1. e \in new /\ e.delta # 0
      BY <1>9, <2>4
    <3>2. Referred(e) => e = bonus /\ e.delta = 1
      BY <1>6, <1>7, <3>1
    <3>3. EntryOK(e)'
      BY <1>6, <1>8, <1>10, <3>1, <3>2 DEF EntryOK, Referred
    <3> QED BY <1>6, <2>2, <3>1, <3>2, <3>3
  <2>5. \A c \in Shop : pushing'[c].entries \subseteq ledger'[c] /\ pushing'[c].base \subseteq ledger'[Online]
    BY <1>1, <1>2, <1>9, MemberSets DEF LedgersOK
  <2> QED BY <1>1, <1>9, <2>3, <2>4, <2>5, LedgersGrow
<1>14. OrdersKnown'
  <2>1. \A t \in Sites : order[t][o] = "none"
    BY <1>1, <1>2 DEF OrdersKnown
  <2>2. ASSUME NEW t \in Sites, NEW p \in Purchases, order'[t][p] # "none"
        PROVE  form'[p] # Member!NoForm
    BY <1>1, <1>8, <1>10, <2>2 DEF OrdersKnown
  <2>3. ASSUME NEW p \in Purchases, form'[p] # Member!NoForm PROVE form'[p].home \in Shop
    BY <1>1, <1>2, <1>10, <2>3 DEF OrdersKnown
  <2>4. ASSUME NEW c \in Shop, NEW p \in Purchases
        PROVE  /\ order'[c][p] # "none" => form'[p].home = c
               /\ p \in marked'[c] \/ pushing'[c].orders[p] # "none" => order'[c][p] # "none"
               /\ ~pushing'[c].on => pushing'[c].orders[p] = "none"
    <3>1. c \in Sites /\ c # Online
      BY MemberSets
    <3>2. order'[c][p] # "none" => form'[p].home = c
      BY <1>1, <1>2, <1>10, <2>1, <3>1 DEF OrdersKnown
    <3>3. p \in marked'[c] \/ pushing'[c].orders[p] # "none" => order'[c][p] # "none"
      BY <1>1, <1>2, <1>10, <1>11, <3>1 DEF OrdersKnown
    <3>4. ~pushing'[c].on => pushing'[c].orders[p] = "none"
      BY <1>1, <1>2 DEF OrdersKnown
    <3> QED BY <3>2, <3>3, <3>4
  <2> QED BY <2>2, <2>3, <2>4 DEF OrdersKnown
<1>15. LaterUndone'
  <2>1. CASE \E e \in ledger'[Online] : Referred(e) /\ e \notin ledger[Online]
    <3>1. PICK e \in ledger'[Online] : Referred(e) /\ e \notin ledger[Online]
      BY <2>1
    <3>2. s = Online /\ e \in new /\ e.delta # 0
      BY <1>9, <3>1, MemberSets
    <3>3. e = bonus /\ \A g \in ledger[Online] : ~Referred(g)
      BY <1>6, <1>7, <3>1, <3>2
    <3>4. \A g \in ledger'[Online] : Referred(g) => g = e
      BY <1>6, <1>9, <3>2, <3>3
    <3>5. e.order = o /\ o \in Nat
      BY <1>6, <3>2, MemberSets
    <3> QED BY <3>4, <3>5 DEF LaterUndone, Referred
  <2>2. CASE \A e \in ledger'[Online] : Referred(e) => e \in ledger[Online]
    <3>1. \A e \in ledger[Online] :
             Referred(e) /\ order[Online][e.order] = "cancelled" => order'[Online][e.order] = "cancelled"
      <4>1. \A e \in ledger[Online] : e.order \in Purchases
        BY <1>1, MemberType, MemberSets DEF Member!Entry
      <4> QED BY <1>2, <1>10, <4>1, MemberSets
    <3> QED BY <1>1, <1>9, <2>2, <3>1, MemberSets, LaterKept
  <2> QED BY <2>1, <2>2
<1>16. CouponsTold'
  <2>1. ASSUME NEW p \in Purchases, Uses(p)'
        PROVE  (Uses(p) /\ (ComesUp(p) => ComesUp(p)')) \/ ComesUp(p)'
    <3>1. CASE p = o
      <4>1. s = Online
        BY <1>2, <1>10, <2>1, <3>1, MemberSets DEF Uses, Member!Stands
      <4>2. order'[b][o] = "none"
        BY <1>2, <1>10, <4>1, MemberSets
      <4> QED BY <1>2, <1>10, <3>1, <4>2 DEF ComesUp
    <3>2. CASE p # o
      <4>1. Uses(p)
        BY <1>10, <2>1, <3>2, MemberSets DEF Uses, Member!Stands
      <4>2. ASSUME ComesUp(p) PROVE ComesUp(p)'
        <5>1. PICK c \in Shop : /\ form[p].home = c
                                /\ \/ order[c][p] = "none" \/ p \in marked[c]
                                   \/ pushing[c].orders[p] # "none"
          BY <4>2 DEF ComesUp
        <5> QED BY <1>2, <1>10, <1>11, <3>2, <5>1, MemberSets DEF ComesUp
      <4> QED BY <4>1, <4>2
    <3> QED BY <3>1, <3>2
  <2> QED BY <1>1, <1>2, <2>1, ToldKept
<1> QED BY <1>12, <1>13, <1>14, <1>15, <1>16 DEF MemberInv

\* No more is taken than somebody has, and nothing is given instead.
LEMMA ClampedInt ==
    ASSUME NEW has \in Int, NEW delta \in Int
    PROVE  Member!Clamped(has, delta) \in Int /\ (delta < 0 => Member!Clamped(has, delta) <= 0)
  BY DEF Member!Clamped

LEMMA MemberCancel ==
    ASSUME MemberInv, NEW s \in Sites, NEW o \in Purchases, Member!Cancel(s, o)
    PROVE  MemberInv'
<1> DEFINE settled == Member!Clamped(points[s], form[o].points - Member!Sum(Member!Of(s, o, {"earn"})))
           net == Member!Sum(Member!Of(s, o, Member!Bonus))
           taken == Member!Clamped(points[s] + settled, -net)
           back1 == [order |-> o, reason |-> "cancel", site |-> s, delta |-> settled]
           bonus == [order |-> o, reason |-> "referred_cancel", site |-> s,
                     delta |-> IF net > 0 THEN taken ELSE 0]
           new == {back1, bonus}
<1>1. Member!TypeOK /\ LedgersOK /\ OrdersKnown /\ LaterUndone /\ CouponsTold
  BY DEF MemberInv
<1>2. /\ Member!Stands(order[s][o])
      /\ order' = [order EXCEPT ![s][o] = "cancelled"]
      /\ Member!Posted(s, new)
      /\ Member!Mark(s, o)
      /\ UNCHANGED <<form, pushing, warned>>
  BY DEF Member!Cancel
<1>3. net \in Int /\ Member!Sum(Member!Of(s, o, {"earn"})) \in Int
  <2>1. IsFiniteSet(ledger[s]) /\ ledger[s] \subseteq Member!Entry
    BY <1>1, MemberType DEF LedgersOK
  <2>2. ASSUME NEW R PROVE IsFiniteSet(Member!Of(s, o, R)) /\ Member!Of(s, o, R) \subseteq Member!Entry
    <3>1. Member!Of(s, o, R) \subseteq ledger[s]
      BY DEF Member!Of
    <3> QED BY <2>1, <3>1, FS_Subset
  <2> QED BY <2>2, SumInt
<1>4. points[s] \in Int /\ form[o].points \in 0..1
  BY <1>1, MemberType DEF Member!Form
<1>5. settled \in Int
  <2> HIDE DEF net
  <2>1. form[o].points - Member!Sum(Member!Of(s, o, {"earn"})) \in Int
    BY <1>3, <1>4
  <2> QED BY <1>4, <2>1, ClampedInt
<1>6. taken \in Int /\ (net > 0 => taken <= 0)
  <2> HIDE DEF net, settled
  <2>1. points[s] + settled \in Int /\ -net \in Int /\ (net > 0 => -net < 0)
    BY <1>3, <1>4, <1>5
  <2> QED BY <2>1, ClampedInt
<1> HIDE DEF net, settled, taken
<1>7. new \subseteq Member!Entry
  <2>1. back1 \in Member!Entry
    BY <1>5, MemberSets DEF Member!Entry, Member!Reason
  <2>2. bonus \in Member!Entry
    BY <1>6, MemberSets DEF Member!Entry, Member!Reason
  <2> QED BY <2>1, <2>2
<1>8. IsFiniteSet(new)
  <2> HIDE DEF back1, bonus
  <2>1. IsFiniteSet({back1})
    BY FS_Singleton
  <2>2. IsFiniteSet({back1} \cup {bonus})
    BY <2>1, FS_AddElement
  <2>3. {back1} \cup {bonus} = new
    OBVIOUS
  <2> QED BY <2>2, <2>3
<1>9. \A e \in new : e.delta # 0 =>
         ~Referred(e) /\ (e.reason \in {"referred_dup", "referred_cancel"} => e.delta < 0)
  BY <1>3, <1>6 DEF Referred
<1> HIDE DEF new
<1>10. /\ ledger' \in [Sites -> SUBSET Member!Entry] /\ points' \in [Sites -> Int]
       /\ \A t \in Sites : ledger[t] \subseteq ledger'[t] /\ IsFiniteSet(ledger'[t])
       /\ \A t \in Sites : t # s => ledger'[t] = ledger[t]
       /\ \A e \in ledger'[s] : e \in ledger[s] \/ (e \in new /\ e.delta # 0)
  BY <1>1, <1>2, <1>7, <1>8, PostedLedgers
<1>11. \A t \in Sites, p \in Purchases :
          order'[t][p] = IF t = s /\ p = o THEN "cancelled" ELSE order[t][p]
  BY <1>1, <1>2, MemberType
<1>12. /\ marked' \in [Shop -> SUBSET Purchases]
       /\ \A c \in Shop : marked[c] \subseteq marked'[c]
       /\ \A c \in Shop, p \in Purchases : p \in marked'[c] => p \in marked[c] \/ (p = o /\ c = s)
  BY <1>1, <1>2, MemberType DEF Member!Mark
<1>13. order[s][o] # "none"
  BY <1>2 DEF Member!Stands
<1>14. Member!TypeOK'
  <2>1. order' \in [Sites -> [Purchases -> Member!Status]]
    BY <1>1, <1>2, MemberType DEF Member!Status
  <2>2. coupon' \in [Sites -> Member!Coupon] /\ clock' \in Nat
    <3>1. coupon \in [Sites -> Member!Coupon] /\ clock \in Nat
      BY <1>1, MemberType
    <3>2. [used |-> FALSE, at |-> clock + 1] \in Member!Coupon
      BY <3>1 DEF Member!Coupon
    <3>3. /\ coupon' = coupon \/ coupon' = [coupon EXCEPT ![s] = [used |-> FALSE, at |-> clock + 1]]
          /\ clock' = clock \/ clock' = clock + 1
      BY DEF Member!Cancel
    <3>4. coupon' \in [Sites -> Member!Coupon]
      BY <3>1, <3>2, <3>3
    <3>5. clock' \in Nat
      BY <3>1, <3>3
    <3> QED BY <3>4, <3>5
  <2> QED BY <1>1, <1>2, <1>10, <1>12, <2>1, <2>2, MemberType, MemberSets DEF Member!TypeOK
<1>15. LedgersOK'
  <2>1. ASSUME NEW t \in Sites, NEW e \in ledger'[t], ~(\E u \in Sites : e \in ledger[u])
        PROVE  EntryOK(e)' /\ ~Referred(e)
    <3>1. e \in new /\ e.delta # 0
      BY <1>10, <2>1
    <3> QED BY <1>9, <3>1 DEF EntryOK, Referred
  <2>2. \A c \in Shop : pushing'[c].entries \subseteq ledger'[c] /\ pushing'[c].base \subseteq ledger'[Online]
    BY <1>1, <1>2, <1>10, MemberSets DEF LedgersOK
  <2> QED BY <1>1, <1>2, <1>10, <2>1, <2>2, LedgersGrow
<1>16. OrdersKnown'
  <2>1. ASSUME NEW t \in Sites, NEW p \in Purchases PROVE order'[t][p] = "none" <=> order[t][p] = "none"
    BY <1>11, <1>13
  <2>2. ASSUME NEW c \in Shop, NEW p \in Purchases, p \in marked'[c] PROVE order[c][p] # "none"
    BY <1>1, <1>12, <1>13, <2>2 DEF OrdersKnown
  <2> QED BY <1>1, <1>2, <2>1, <2>2, MemberSets DEF OrdersKnown
<1>17. LaterUndone'
  <2>1. \A e \in ledger'[Online] : Referred(e) => e \in ledger[Online]
    BY <1>9, <1>10, MemberSets
  <2>2. \A e \in ledger[Online] : e.order \in Purchases
    BY <1>1, MemberType, MemberSets DEF Member!Entry
  <2>3. \A e \in ledger[Online] :
           Referred(e) /\ order[Online][e.order] = "cancelled" => order'[Online][e.order] = "cancelled"
    BY <1>11, <2>2, MemberSets
  <2> QED BY <1>1, <1>10, <2>1, <2>3, MemberSets, LaterKept
<1>18. CouponsTold'
  <2>1. ASSUME NEW p \in Purchases, Uses(p)'
        PROVE  Uses(p) /\ (ComesUp(p) => ComesUp(p)')
    <3>1. Uses(p)
      BY <1>2, <1>11, <2>1, MemberSets DEF Uses, Member!Stands
    <3>2. ASSUME NEW c \in Shop PROVE order'[c][p] = "none" <=> order[c][p] = "none"
      BY <1>11, <1>13, MemberSets
    <3>3. ComesUp(p) => ComesUp(p)'
      BY <1>2, <1>12, <3>2 DEF ComesUp
    <3> QED BY <3>1, <3>3
  <2> QED BY <1>1, <1>2, <2>1, ToldKept
<1> QED BY <1>14, <1>15, <1>16, <1>17, <1>18 DEF MemberInv

\* What leaves the ledgers alone, and all orders known that were known: more is
\* marked, or what was marked is uploaded.
LEMMA LedgersSame ==
    ASSUME LedgersOK, UNCHANGED <<form, ledger>>,
           \A b \in Shop : /\ pushing'[b].entries \subseteq ledger[b]
                           /\ pushing'[b].base \subseteq ledger[Online]
    PROVE  LedgersOK'
  BY DEF LedgersOK, EntryOK, Referred

LEMMA MemberFinish ==
    ASSUME MemberInv, NEW b \in Shop, NEW o \in Purchases, Member!Finish(b, o)
    PROVE  MemberInv'
<1>1. Member!TypeOK /\ LedgersOK /\ OrdersKnown /\ LaterUndone /\ CouponsTold
  BY DEF MemberInv
<1>2. /\ order[b][o] = "active" /\ form[o].home = b
      /\ order' = [order EXCEPT ![b][o] = "done"]
      /\ marked' = [marked EXCEPT ![b] = @ \cup {o}]
      /\ UNCHANGED <<form, ledger, points, coupon, clock, pushing, warned>>
  BY MemberSets DEF Member!Finish, Member!Mark
<1>3. b \in Sites /\ b # Online
  BY MemberSets
<1>4. \A t \in Sites, p \in Purchases : order'[t][p] = IF t = b /\ p = o THEN "done" ELSE order[t][p]
  BY <1>1, <1>2, <1>3, MemberType
<1>5. /\ marked' \in [Shop -> SUBSET Purchases]
      /\ \A c \in Shop : marked'[c] = IF c = b THEN marked[c] \cup {o} ELSE marked[c]
  BY <1>1, <1>2, MemberType
<1>6. Member!TypeOK'
  <2>1. order' \in [Sites -> [Purchases -> Member!Status]]
    BY <1>1, <1>2, <1>3, MemberType DEF Member!Status
  <2> QED BY <1>1, <1>2, <1>5, <2>1, MemberType, MemberSets DEF Member!TypeOK
<1>7. LedgersOK'
  BY <1>1, <1>2, LedgersSame DEF LedgersOK
<1>8. \A t \in Sites, p \in Purchases : order'[t][p] = "none" <=> order[t][p] = "none"
  BY <1>2, <1>4
<1>9. OrdersKnown'
  <2>1. ASSUME NEW c \in Shop, NEW p \in Purchases, p \in marked'[c] PROVE order[c][p] # "none"
    BY <1>1, <1>2, <1>5, <2>1 DEF OrdersKnown
  <2> QED BY <1>1, <1>2, <1>8, <2>1, MemberSets DEF OrdersKnown
<1>10. order'[Online] = order[Online]
  BY <1>1, <1>2, <1>3, MemberType, MemberSets
<1>11. LaterUndone'
  BY <1>1, <1>2, <1>10 DEF LaterUndone, Dup, Referred
<1>12. CouponsTold'
  <2>1. ASSUME NEW p \in Purchases, Uses(p)' PROVE Uses(p) /\ (ComesUp(p) => ComesUp(p)')
    <3>1. Uses(p)
      BY <1>2, <1>10, <2>1 DEF Uses
    <3>2. \A c \in Shop : order'[c][p] = "none" <=> order[c][p] = "none"
      BY <1>8, MemberSets
    <3>3. ComesUp(p) => ComesUp(p)'
      BY <1>2, <1>5, <3>2 DEF ComesUp
    <3> QED BY <3>1, <3>3
  <2> QED BY <1>1, <1>2, <2>1, ToldKept
<1> QED BY <1>6, <1>7, <1>9, <1>11, <1>12 DEF MemberInv

LEMMA MemberPushRead ==
    ASSUME MemberInv, NEW b \in Shop, NEW full \in BOOLEAN, Member!PushRead(b, full)
    PROVE  MemberInv'
<1> DEFINE p == [on |-> TRUE,
                 orders |-> [o \in Purchases |-> IF o \in marked[b] THEN order[b][o] ELSE "none"],
                 entries |-> IF full THEN ledger[b] ELSE {},
                 coupon |-> coupon[b], base |-> ledger[Online]]
<1>1. Member!TypeOK /\ LedgersOK /\ OrdersKnown /\ LaterUndone /\ CouponsTold
  BY DEF MemberInv
<1>2. /\ ~pushing[b].on
      /\ pushing' = [pushing EXCEPT ![b] = p]
      /\ marked' = [marked EXCEPT ![b] = {}]
      /\ UNCHANGED <<form, order, ledger, points, coupon, clock, warned>>
  BY MemberSets DEF Member!PushRead
<1>3. b \in Sites /\ Online \in Sites
  BY MemberSets
<1>4. p \in Member!Push
  <2>1. p.orders \in [Purchases -> Member!Status]
    BY <1>1, <1>3, MemberType DEF Member!Status
  <2>2. p.entries \subseteq Member!Entry /\ p.base \subseteq Member!Entry /\ p.coupon \in Member!Coupon
    BY <1>1, <1>3, MemberType
  <2> QED BY <2>1, <2>2, MemberSets DEF Member!Push
<1>5. /\ p.on /\ p.entries \subseteq ledger[b] /\ p.base = ledger[Online]
      /\ \A o \in Purchases : p.orders[o] = IF o \in marked[b] THEN order[b][o] ELSE "none"
  OBVIOUS
<1> HIDE DEF p
<1>6. /\ \A c \in Shop : pushing'[c] = IF c = b THEN p ELSE pushing[c]
      /\ \A c \in Shop : marked'[c] = IF c = b THEN {} ELSE marked[c]
  BY <1>1, <1>2, MemberType
<1>7. Member!TypeOK'
  <2>1. pushing' \in [Shop -> Member!Push] /\ marked' \in [Shop -> SUBSET Purchases]
    BY <1>1, <1>2, <1>4, MemberType
  <2> QED BY <1>1, <1>2, <2>1, MemberType, MemberSets DEF Member!TypeOK
<1>8. LedgersOK'
  <2>1. \A c \in Shop : pushing'[c].entries \subseteq ledger[c] /\ pushing'[c].base \subseteq ledger[Online]
    BY <1>1, <1>5, <1>6 DEF LedgersOK
  <2> QED BY <1>1, <1>2, <2>1, LedgersSame
<1>9. OrdersKnown'
  <2>1. ASSUME NEW c \in Shop, NEW o \in Purchases
        PROVE  /\ order'[c][o] # "none" => form'[o].home = c
               /\ o \in marked'[c] \/ pushing'[c].orders[o] # "none" => order'[c][o] # "none"
               /\ ~pushing'[c].on => pushing'[c].orders[o] = "none"
    BY <1>1, <1>2, <1>5, <1>6 DEF OrdersKnown
  <2> QED BY <1>1, <1>2, <2>1 DEF OrdersKnown
<1>10. LaterUndone'
  BY <1>1, <1>2 DEF LaterUndone, Dup, Referred
<1>11. CouponsTold'
  <2>1. ASSUME NEW o \in Purchases, Uses(o)' PROVE Uses(o) /\ (ComesUp(o) => ComesUp(o)')
    <3>1. Uses(o)
      BY <1>2, <2>1 DEF Uses
    <3>2. ASSUME ComesUp(o) PROVE ComesUp(o)'
      <4>1. PICK c \in Shop : /\ form[o].home = c
                              /\ \/ order[c][o] = "none" \/ o \in marked[c]
                                 \/ pushing[c].orders[o] # "none"
        BY <3>2 DEF ComesUp
      <4>2. order'[c][o] = "none" \/ o \in marked'[c] \/ pushing'[c].orders[o] # "none"
        BY <1>1, <1>2, <1>5, <1>6, <4>1 DEF OrdersKnown
      <4> QED BY <1>2, <4>1, <4>2 DEF ComesUp
    <3> QED BY <3>1, <3>2
  <2> QED BY <1>1, <1>2, <2>1, ToldKept
<1> QED BY <1>7, <1>8, <1>9, <1>10, <1>11 DEF MemberInv

-----------------------------------------------------------------------------
\* An upload is written: what undoes a bonus takes one point of it.
LEMMA UndoneEntries ==
    ASSUME NEW known, NEW E, E \subseteq Member!Entry, IsFiniteSet(E),
           \A e \in E : Referred(e) => e.delta = 1
    PROVE  LET undone == Member!Undone(Member!Duplicates(known, E))
           IN  /\ undone \subseteq Member!Entry /\ IsFiniteSet(undone)
               /\ \A u \in undone : u.reason = "referred_dup" /\ u.delta = -1
<1> DEFINE dups == Member!Duplicates(known, E)
           taken(e) == [order |-> e.order, reason |-> "referred_dup", site |-> Online, delta |-> -e.delta]
           T == {taken(e) : e \in dups}
           M == [e \in dups |-> taken(e)]
<1>1. dups \subseteq E /\ \A e \in dups : Referred(e)
  BY DEF Member!Duplicates, Member!Counts, Referred
<1>2. Member!Undone(dups) = T
  BY DEF Member!Undone
<1>3. IsFiniteSet(dups)
  BY <1>1, FS_Subset
<1>4. M \in Surjection(dups, T)
  <2>1. M \in [dups -> T]
    OBVIOUS
  <2>2. \A t \in T : \E e \in dups : M[e] = t
    OBVIOUS
  <2> QED BY <2>1, <2>2 DEF Surjection
<1>5. IsFiniteSet(T)
  <2> HIDE DEF M, T, dups
  <2> QED BY <1>3, <1>4, FS_Surjection
<1>6. ASSUME NEW u \in T PROVE u \in Member!Entry /\ u.reason = "referred_dup" /\ u.delta = -1
  <2>1. PICK e \in dups : u = taken(e)
    OBVIOUS
  <2>2. e.delta = 1 /\ e \in Member!Entry
    BY <1>1
  <2>3. e.order \in Member!Purchase /\ Online \in Member!Site
    BY <2>2, MemberSets DEF Member!Entry
  <2> QED BY <2>1, <2>2, <2>3 DEF Member!Entry, Member!Reason
<1> QED BY <1>2, <1>5, <1>6

\* Two orders of a set with at most one member are the same.
LEMMA AtMostOne ==
    ASSUME NEW S, S \subseteq Purchases, ~(Cardinality(S) > 1), NEW o \in S, NEW p \in S
    PROVE  o = p
<1> SUFFICES ASSUME o # p PROVE FALSE
  OBVIOUS
<1>1. 1 \in Int /\ MaxOrder \in Int
  BY MemberAssumption
<1>2. IsFiniteSet(Purchases)
  BY <1>1, FS_Interval DEF Purchases
<1>3. IsFiniteSet(S) /\ Cardinality(S) \in Nat
  BY <1>2, FS_Subset, FS_CardinalityType
<1>4. IsFiniteSet({o}) /\ Cardinality({o}) = 1
  BY FS_Singleton
<1>5. Cardinality({o} \cup {p}) = 2
  <2>1. p \notin {o}
    OBVIOUS
  <2>2. Cardinality({o} \cup {p}) = IF p \in {o} THEN Cardinality({o}) ELSE Cardinality({o}) + 1
    BY <1>4, FS_AddElement
  <2> QED BY <1>4, <2>1, <2>2
<1>6. {o} \cup {p} \subseteq S
  OBVIOUS
<1>7. 2 <= Cardinality(S)
  BY <1>3, <1>5, <1>6, FS_Subset
<1> QED BY <1>3, <1>7

LEMMA MemberPushWrite ==
    ASSUME MemberInv, NEW b \in Shop, Member!PushWrite(b)
    PROVE  MemberInv'
<1> DEFINE p == pushing[b]
           known == [o \in Purchases |-> Member!Higher(order[Online][o], p.orders[o])]
           merged == ledger[Online] \cup p.entries
           touched == ~(p.entries \subseteq ledger[Online])
           dups == Member!Duplicates(known, merged)
           undone == IF touched THEN Member!Undone(dups) ELSE {}
           newest == Member!Newer(coupon[Online], p.coupon)
           reclaimed == Member!Reclaims(p, known, newest)
           twice == Member!UsedTwice(p, known)
<1>1. Member!TypeOK /\ LedgersOK /\ OrdersKnown /\ LaterUndone /\ CouponsTold
  BY DEF MemberInv
<1>2. /\ p.on
      /\ order' = [order EXCEPT ![Online] = known]
      /\ ledger' = [ledger EXCEPT ![Online] = merged \cup undone]
      /\ points' = [points EXCEPT ![Online] =
            IF undone # {} THEN Member!Sum(merged \cup undone)
            ELSE IF touched THEN Member!Sum(p.base \cup p.entries) ELSE @]
      /\ coupon' = [coupon EXCEPT ![Online] =
            IF reclaimed THEN [used |-> TRUE, at |-> clock + 1] ELSE newest]
      /\ clock' = IF reclaimed THEN clock + 1 ELSE clock
      /\ warned' = (warned \/ twice)
      /\ pushing' = [pushing EXCEPT ![b] = Member!NoPush]
      /\ UNCHANGED <<form, marked>>
  BY MemberSets DEF Member!PushWrite
<1>3. b \in Sites /\ Online \in Sites /\ b # Online
  BY MemberSets
<1>4. /\ p.orders \in [Purchases -> Member!Status] /\ p.entries \subseteq Member!Entry
      /\ p.base \subseteq Member!Entry /\ p.coupon \in Member!Coupon
      /\ p.entries \subseteq ledger[b] /\ p.base \subseteq ledger[Online]
  BY <1>1, MemberPushType DEF LedgersOK
<1>5. /\ order[Online] \in [Purchases -> Member!Status]
      /\ \A s \in Sites : ledger[s] \subseteq Member!Entry /\ IsFiniteSet(ledger[s])
  BY <1>1, <1>3, MemberType DEF LedgersOK
<1>6. \A o \in Purchases : known[o] = Member!Higher(order[Online][o], p.orders[o])
  OBVIOUS
<1>7. known \in [Purchases -> Member!Status]
  <2>1. ASSUME NEW o \in Purchases PROVE Member!Higher(order[Online][o], p.orders[o]) \in Member!Status
    BY <1>4, <1>5, HigherStatus
  <2> QED BY <2>1
<1>8. merged \subseteq Member!Entry /\ IsFiniteSet(merged)
  <2>1. IsFiniteSet(p.entries)
    BY <1>3, <1>4, <1>5, FS_Subset
  <2> QED BY <1>3, <1>4, <1>5, <2>1, FS_Union
<1>9. \A e \in merged : EntryOK(e)
  BY <1>1, <1>3, <1>4 DEF LedgersOK
<1>10. /\ undone \subseteq Member!Entry /\ IsFiniteSet(undone)
       /\ \A u \in undone : u.reason = "referred_dup" /\ u.delta = -1
  <2>1. \A e \in merged : Referred(e) => e.delta = 1
    BY <1>9 DEF EntryOK
  <2>2. CASE touched
    <3> HIDE DEF merged, known
    <3> QED BY <1>8, <2>1, <2>2, UndoneEntries
  <2>3. CASE ~touched
    BY <2>3, FS_EmptySet
  <2> QED BY <2>2, <2>3
<1>11. touched => \A e \in dups : \E u \in undone : u.reason = "referred_dup" /\ u.order = e.order
  <2> SUFFICES ASSUME touched, NEW e \in dups
               PROVE  \E u \in undone : u.reason = "referred_dup" /\ u.order = e.order
    OBVIOUS
  <2> HIDE DEF dups, touched
  <2>1. [order |-> e.order, reason |-> "referred_dup", site |-> Online, delta |-> -e.delta] \in undone
    BY DEF Member!Undone
  <2> HIDE DEF undone
  <2> QED BY <2>1
<1>12. ~touched => merged = ledger[Online]
  OBVIOUS
<1>13. \A e \in dups : Referred(e)
  BY DEF Member!Duplicates, Member!Counts, Referred
<1>14. ASSUME NEW e \in merged, NEW g \in merged, Referred(e), Referred(g), e.order < g.order,
              known[e.order] # "cancelled", known[g.order] # "cancelled"
       PROVE  g \in dups \/ \E u \in merged : u.reason = "referred_dup" /\ u.order = g.order
  BY <1>14 DEF Member!Duplicates, Member!Counts, Referred
<1>15. twice <=> Member!Involved(p) # {} /\ Cardinality(Member!UsingCoupon(known)) > 1
  BY MemberCounts DEF Member!UsedTwice
<1> HIDE DEF known, merged, dups, undone, newest, reclaimed, twice
<1>16. /\ \A s \in Sites : ledger'[s] = IF s = Online THEN merged \cup undone ELSE ledger[s]
       /\ \A s \in Sites : order'[s] = IF s = Online THEN known ELSE order[s]
       /\ \A c \in Shop : pushing'[c] = IF c = b THEN Member!NoPush ELSE pushing[c]
  BY <1>1, <1>2, MemberType
<1>17. ledger[Online] \subseteq merged /\ p.entries \subseteq merged
       /\ \A e \in merged : e \in ledger[Online] \/ e \in p.entries
  BY DEF merged
<1>18. /\ Member!NoPush \in Member!Push /\ ~Member!NoPush.on
       /\ Member!NoPush.entries = {} /\ Member!NoPush.base = {}
       /\ \A o \in Purchases : Member!NoPush.orders[o] = "none"
  BY MemberSets DEF Member!NoPush, Member!Push, Member!NewCoupon, Member!Coupon, Member!Status
<1>19. Member!TypeOK'
  <2>1. order' \in [Sites -> [Purchases -> Member!Status]]
    BY <1>1, <1>2, <1>7, MemberType
  <2>2. ledger' \in [Sites -> SUBSET Member!Entry]
    BY <1>1, <1>2, <1>8, <1>10, MemberType
  <2>3. points' \in [Sites -> Int]
    <3>1. IsFiniteSet(merged \cup undone) /\ merged \cup undone \subseteq Member!Entry
      BY <1>8, <1>10, FS_Union
    <3>2. IsFiniteSet(p.base \cup p.entries) /\ p.base \cup p.entries \subseteq Member!Entry
      <4>1. IsFiniteSet(p.base) /\ IsFiniteSet(p.entries)
        BY <1>3, <1>4, <1>5, FS_Subset
      <4> QED BY <1>4, <4>1, FS_Union
    <3>3. Member!Sum(merged \cup undone) \in Int /\ Member!Sum(p.base \cup p.entries) \in Int
      BY <3>1, <3>2, SumInt
    <3> QED BY <1>1, <1>2, <1>3, <3>3, MemberType
  <2>4. coupon' \in [Sites -> Member!Coupon] /\ clock' \in Nat
    <3>1. coupon \in [Sites -> Member!Coupon] /\ clock \in Nat
      BY <1>1, MemberType
    <3>2. [used |-> TRUE, at |-> clock + 1] \in Member!Coupon
      BY <3>1 DEF Member!Coupon
    <3>3. newest \in Member!Coupon
      BY <1>3, <1>4, <3>1 DEF newest, Member!Newer
    <3>4. coupon' \in [Sites -> Member!Coupon]
      BY <1>2, <1>3, <3>1, <3>2, <3>3
    <3>5. clock' \in Nat
      BY <1>2, <3>1
    <3> QED BY <3>4, <3>5
  <2>5. pushing' \in [Shop -> Member!Push]
    BY <1>1, <1>2, <1>18, MemberType
  <2>6. warned' \in BOOLEAN
    BY <1>1, <1>2, <1>15, MemberType
  <2> QED BY <1>1, <1>2, <2>1, <2>2, <2>3, <2>4, <2>5, <2>6, MemberType, MemberSets DEF Member!TypeOK
<1>20. LedgersOK'
  <2>1. \A s \in Sites : ledger[s] \subseteq ledger'[s] /\ IsFiniteSet(ledger'[s])
    <3>1. IsFiniteSet(merged \cup undone)
      BY <1>8, <1>10, FS_Union
    <3> QED BY <1>5, <1>16, <1>17, <3>1
  <2>2. ASSUME NEW s \in Sites, NEW e \in ledger'[s], ~(\E t \in Sites : e \in ledger[t])
        PROVE  EntryOK(e)' /\ ~Referred(e)
    <3>1. s = Online /\ e \in undone
      BY <1>3, <1>4, <1>16, <1>17, <2>2
    <3>2. e.reason = "referred_dup" /\ e.delta = -1
      BY <1>10, <3>1
    <3> QED BY <3>2 DEF EntryOK, Referred
  <2>3. \A c \in Shop : pushing'[c].entries \subseteq ledger'[c] /\ pushing'[c].base \subseteq ledger'[Online]
    BY <1>1, <1>3, <1>16, <1>18, <2>1, MemberSets DEF LedgersOK
  <2> QED BY <1>1, <1>2, <2>1, <2>2, <2>3, LedgersGrow
<1>21. OrdersKnown'
  <2>1. ASSUME NEW o \in Purchases, known[o] # "none" PROVE form[o] # Member!NoForm
    <3>1. order[Online][o] # "none" \/ p.orders[o] # "none"
      BY <1>4, <1>5, <1>6, <2>1, HigherStatus
    <3>2. order[Online][o] # "none" \/ order[b][o] # "none"
      BY <1>1, <3>1 DEF OrdersKnown
    <3> QED BY <1>1, <1>3, <3>2 DEF OrdersKnown
  <2>2. ASSUME NEW s \in Sites, NEW o \in Purchases, order'[s][o] # "none" PROVE form'[o] # Member!NoForm
    BY <1>1, <1>2, <1>16, <2>1, <2>2 DEF OrdersKnown
  <2>3. ASSUME NEW c \in Shop, NEW o \in Purchases
        PROVE  /\ order'[c][o] # "none" => form'[o].home = c
               /\ o \in marked'[c] \/ pushing'[c].orders[o] # "none" => order'[c][o] # "none"
               /\ ~pushing'[c].on => pushing'[c].orders[o] = "none"
    BY <1>1, <1>2, <1>16, <1>18, MemberSets DEF OrdersKnown
  <2> QED BY <1>1, <1>2, <2>2, <2>3 DEF OrdersKnown
<1>22. LaterUndone'
  <2> SUFFICES ASSUME NEW e \in ledger'[Online], NEW g \in ledger'[Online],
                      Referred(e), Referred(g), e.order < g.order,
                      known[e.order] # "cancelled", known[g.order] # "cancelled"
               PROVE  \E u \in ledger'[Online] : u.reason = "referred_dup" /\ u.order = g.order
    BY <1>3, <1>16 DEF LaterUndone, Dup, Referred
  <2>1. ledger'[Online] = merged \cup undone
    BY <1>3, <1>16
  <2>2. e \in merged /\ g \in merged
    BY <1>10, <2>1 DEF Referred
  <2>3. CASE touched
    BY <1>11, <1>14, <2>1, <2>2, <2>3
  <2>4. CASE ~touched
    <3>1. e \in ledger[Online] /\ g \in ledger[Online]
      BY <1>12, <2>2, <2>4
    <3>2. e.order \in Purchases /\ g.order \in Purchases
      BY <1>3, <1>5, <3>1, MemberSets DEF Member!Entry
    <3>3. order[Online][e.order] # "cancelled" /\ order[Online][g.order] # "cancelled"
      BY <1>4, <1>5, <1>6, <3>2, HigherStatus
    <3>4. Dup(g.order)
      BY <1>1, <3>1, <3>3 DEF LaterUndone
    <3> QED BY <1>17, <2>1, <3>4 DEF Dup
  <2> QED BY <2>3, <2>4
<1>23. CouponsTold'
  <2> SUFFICES ASSUME NEW o \in Purchases, NEW q \in Purchases, Uses(o)', Uses(q)', o # q, ~warned'
               PROVE  ComesUp(o)' \/ ComesUp(q)'
    BY DEF CouponsTold
  <2>1. o \in Member!UsingCoupon(known) /\ q \in Member!UsingCoupon(known)
    BY <1>2, <1>3, <1>16, MemberSets DEF Uses, Member!UsingCoupon
  <2>2. Member!UsingCoupon(known) \subseteq Purchases
    BY MemberSets DEF Member!UsingCoupon
  <2>3. Cardinality(Member!UsingCoupon(known)) > 1
    BY <2>1, <2>2, AtMostOne
  <2>4. Member!Involved(p) = {}
    BY <1>2, <1>15, <2>3
  <2>5. ASSUME NEW r \in Purchases, Uses(r)'
        PROVE  Uses(r) /\ p.orders[r] = "none" /\ (ComesUp(r) => ComesUp(r)')
    <3>1. form[r].coupon /\ Member!Stands(known[r])
      BY <1>2, <1>3, <1>16, <2>5 DEF Uses
    <3>2. p.orders[r] = "none"
      BY <2>4, <3>1, MemberSets DEF Member!Involved, Member!Uploaded
    <3>3. known[r] = order[Online][r]
      BY <1>5, <1>6, <3>2, HigherStatus DEF Member!Status
    <3>4. ASSUME ComesUp(r) PROVE ComesUp(r)'
      <4>1. PICK c \in Shop : /\ form[r].home = c
                              /\ \/ order[c][r] = "none" \/ r \in marked[c]
                                 \/ pushing[c].orders[r] # "none"
        BY <3>4 DEF ComesUp
      <4>2. order'[c][r] = "none" \/ r \in marked'[c] \/ pushing'[c].orders[r] # "none"
        BY <1>2, <1>16, <3>2, <4>1, MemberSets
      <4> QED BY <1>2, <4>1, <4>2 DEF ComesUp
    <3> QED BY <3>1, <3>2, <3>3, <3>4 DEF Uses
  <2>6. Uses(o) /\ Uses(q) /\ ~warned
    BY <1>2, <2>5
  <2> QED BY <1>1, <2>5, <2>6 DEF CouponsTold
<1> QED BY <1>19, <1>20, <1>21, <1>22, <1>23 DEF MemberInv

-----------------------------------------------------------------------------
\* A branch takes what the hub has.
LEMMA MemberPull ==
    ASSUME MemberInv, NEW b \in Shop, Member!Pull(b)
    PROVE  MemberInv'
<1> DEFINE known == [o \in Purchases |->
                       IF form[o].home = b THEN Member!Higher(order[b][o], order[Online][o]) ELSE order[b][o]]
           new == {o \in Purchases : order[b][o] = "none" /\ Member!Stands(known[o])}
           took == ledger[b] \cup ledger[Online]
<1>1. Member!TypeOK /\ LedgersOK /\ OrdersKnown /\ LaterUndone /\ CouponsTold
  BY DEF MemberInv
<1>2. /\ order' = [order EXCEPT ![b] = known]
      /\ marked' = [marked EXCEPT ![b] = @ \cup new]
      /\ ledger' = [ledger EXCEPT ![b] = @ \cup ledger[Online]]
      /\ points' = [points EXCEPT ![b] =
            IF ledger[Online] \subseteq ledger[b] THEN @ ELSE Member!Sum(took)]
      /\ coupon' = [coupon EXCEPT ![b] = Member!Newer(@, coupon[Online])]
      /\ UNCHANGED <<form, clock, pushing, warned>>
  BY MemberSets DEF Member!Pull, Member!Known
<1>3. b \in Sites /\ Online \in Sites /\ b # Online
  BY MemberSets
<1>4. /\ order[Online] \in [Purchases -> Member!Status] /\ order[b] \in [Purchases -> Member!Status]
      /\ \A s \in Sites : ledger[s] \subseteq Member!Entry /\ IsFiniteSet(ledger[s])
  BY <1>1, <1>3, MemberType DEF LedgersOK
<1>5. \A o \in Purchases :
         /\ known[o] \in Member!Status
         /\ form[o].home # b => known[o] = order[b][o]
         /\ known[o] = "none" => order[b][o] = "none"
         /\ known[o] # "none" => order[b][o] # "none" \/ (form[o].home = b /\ order[Online][o] # "none")
         /\ order[b][o] = "none" /\ form[o].home = b => known[o] = order[Online][o]
         /\ o \in new <=> order[b][o] = "none" /\ Member!Stands(known[o])
  <2> SUFFICES ASSUME NEW o \in Purchases
               PROVE  /\ known[o] \in Member!Status
                      /\ form[o].home # b => known[o] = order[b][o]
                      /\ known[o] = "none" => order[b][o] = "none"
                      /\ known[o] # "none" => \/ order[b][o] # "none"
                                              \/ form[o].home = b /\ order[Online][o] # "none"
                      /\ order[b][o] = "none" /\ form[o].home = b => known[o] = order[Online][o]
                      /\ o \in new <=> order[b][o] = "none" /\ Member!Stands(known[o])
    OBVIOUS
  <2>1. order[b][o] \in Member!Status /\ order[Online][o] \in Member!Status
    BY <1>4
  <2>2. known[o] = IF form[o].home = b THEN Member!Higher(order[b][o], order[Online][o]) ELSE order[b][o]
    OBVIOUS
  <2>3. o \in new <=> order[b][o] = "none" /\ Member!Stands(known[o])
    OBVIOUS
  <2> HIDE DEF known, new
  <2> QED BY <2>1, <2>2, <2>3, HigherStatus
<1>6. known \in [Purchases -> Member!Status] /\ new \subseteq Purchases
  BY <1>5
<1>7. took \subseteq Member!Entry /\ IsFiniteSet(took)
  BY <1>3, <1>4, FS_Union
<1> HIDE DEF known, new
<1>8. /\ \A s \in Sites : order'[s] = IF s = b THEN known ELSE order[s]
      /\ \A s \in Sites : ledger'[s] = IF s = b THEN took ELSE ledger[s]
      /\ \A c \in Shop : marked'[c] = IF c = b THEN marked[c] \cup new ELSE marked[c]
  BY <1>1, <1>2, MemberType
<1>9. Member!TypeOK'
  <2>1. order' \in [Sites -> [Purchases -> Member!Status]]
    BY <1>1, <1>2, <1>6, MemberType
  <2>2. ledger' \in [Sites -> SUBSET Member!Entry]
    BY <1>1, <1>2, <1>3, <1>7, MemberType
  <2>3. points' \in [Sites -> Int]
    <3>1. Member!Sum(took) \in Int
      BY <1>7, SumInt
    <3> HIDE DEF took
    <3> QED BY <1>1, <1>2, <1>3, <3>1, MemberType
  <2>4. coupon' \in [Sites -> Member!Coupon]
    <3>1. coupon \in [Sites -> Member!Coupon]
      BY <1>1, MemberType
    <3>2. Member!Newer(coupon[b], coupon[Online]) \in Member!Coupon
      BY <1>3, <3>1 DEF Member!Newer
    <3> QED BY <1>2, <3>1, <3>2
  <2>5. marked' \in [Shop -> SUBSET Purchases]
    BY <1>1, <1>2, <1>6, MemberType
  <2> QED BY <1>1, <1>2, <2>1, <2>2, <2>3, <2>4, <2>5, MemberType, MemberSets DEF Member!TypeOK
<1>10. LedgersOK'
  <2>1. \A s \in Sites : ledger[s] \subseteq ledger'[s] /\ IsFiniteSet(ledger'[s])
    BY <1>4, <1>7, <1>8
  <2>2. \A s \in Sites : \A e \in ledger'[s] : \E t \in Sites : e \in ledger[t]
    BY <1>3, <1>8
  <2>3. \A c \in Shop : pushing'[c].entries \subseteq ledger'[c] /\ pushing'[c].base \subseteq ledger'[Online]
    BY <1>1, <1>2, <1>3, <2>1, MemberSets DEF LedgersOK
  <2> QED BY <1>1, <1>2, <2>1, <2>2, <2>3, LedgersGrow
<1>11. OrdersKnown'
  <2>1. ASSUME NEW o \in Purchases, known[o] # "none" PROVE form[o] # Member!NoForm /\ form[o].home = b
    BY <1>1, <1>3, <1>5, <2>1 DEF OrdersKnown
  <2>2. ASSUME NEW s \in Sites, NEW o \in Purchases, order'[s][o] # "none" PROVE form'[o] # Member!NoForm
    BY <1>1, <1>2, <1>8, <2>1, <2>2 DEF OrdersKnown
  <2>3. ASSUME NEW c \in Shop, NEW o \in Purchases
        PROVE  /\ order'[c][o] # "none" => form'[o].home = c
               /\ o \in marked'[c] \/ pushing'[c].orders[o] # "none" => order'[c][o] # "none"
               /\ ~pushing'[c].on => pushing'[c].orders[o] = "none"
    <3>1. CASE c = b
      <4>1. o \in marked'[b] \/ pushing'[b].orders[o] # "none" => known[o] # "none"
        BY <1>1, <1>2, <1>3, <1>5, <1>8 DEF OrdersKnown, Member!Stands
      <4> QED BY <1>1, <1>2, <1>3, <1>8, <2>1, <3>1, <4>1 DEF OrdersKnown
    <3>2. CASE c # b
      BY <1>1, <1>2, <1>8, <3>2, MemberSets DEF OrdersKnown
    <3> QED BY <3>1, <3>2
  <2> QED BY <1>1, <1>2, <2>2, <2>3 DEF OrdersKnown
<1>12. order'[Online] = order[Online] /\ ledger'[Online] = ledger[Online]
  BY <1>3, <1>8
<1>13. LaterUndone'
  BY <1>1, <1>12 DEF LaterUndone, Dup, Referred
<1>14. CouponsTold'
  <2>1. ASSUME NEW r \in Purchases, Uses(r)' PROVE Uses(r) /\ (ComesUp(r) => ComesUp(r)')
    <3>1. Uses(r) /\ Member!Stands(order[Online][r])
      BY <1>2, <1>12, <2>1 DEF Uses
    <3>2. ASSUME ComesUp(r) PROVE ComesUp(r)'
      <4>1. PICK c \in Shop : /\ form[r].home = c
                              /\ \/ order[c][r] = "none" \/ r \in marked[c]
                                 \/ pushing[c].orders[r] # "none"
        BY <3>2 DEF ComesUp
      <4>2. CASE c = b /\ order[b][r] = "none"
        <5>1. r \in new
          BY <1>5, <3>1, <4>1, <4>2
        <5> QED BY <1>2, <1>8, <4>1, <4>2, <5>1 DEF ComesUp
      <4>3. CASE c # b /\ order[c][r] = "none"
        BY <1>2, <1>8, <4>1, <4>3, MemberSets DEF ComesUp
      <4>4. CASE r \in marked[c] \/ pushing[c].orders[r] # "none"
        BY <1>2, <1>8, <4>1, <4>4 DEF ComesUp
      <4> QED BY <4>1, <4>2, <4>3, <4>4
    <3> QED BY <3>1, <3>2
  <2> QED BY <1>1, <1>2, <2>1, ToldKept
<1> QED BY <1>9, <1>10, <1>11, <1>13, <1>14 DEF MemberInv

-----------------------------------------------------------------------------
LEMMA MemberInit ==
    ASSUME Member!Init
    PROVE  MemberInv
<1>1. /\ form = [o \in Purchases |-> Member!NoForm]
      /\ order = [s \in Sites |-> [o \in Purchases |-> "none"]]
      /\ ledger = [s \in Sites |-> {}] /\ points = [s \in Sites |-> 0]
      /\ coupon = [s \in Sites |-> Member!NewCoupon] /\ clock = 0
      /\ marked = [b \in Shop |-> {}] /\ pushing = [b \in Shop |-> Member!NoPush] /\ warned = FALSE
  BY MemberSets DEF Member!Init
<1>2. /\ Member!NoPush \in Member!Push /\ ~Member!NoPush.on
      /\ Member!NoPush.entries = {} /\ Member!NoPush.base = {}
      /\ \A o \in Purchases : Member!NoPush.orders[o] = "none"
  BY MemberSets DEF Member!NoPush, Member!Push, Member!NewCoupon, Member!Coupon, Member!Status
<1>3. Member!NoForm \in Member!Form /\ Member!NewCoupon \in Member!Coupon
  BY MemberSets DEF Member!NoForm, Member!Form, Member!NewCoupon, Member!Coupon
<1>4. Member!TypeOK
  <2>1. order \in [Sites -> [Purchases -> Member!Status]]
    BY <1>1 DEF Member!Status
  <2>2. form \in [Purchases -> Member!Form] /\ coupon \in [Sites -> Member!Coupon]
    BY <1>1, <1>3
  <2>3. ledger \in [Sites -> SUBSET Member!Entry] /\ points \in [Sites -> Int]
    BY <1>1
  <2>4. marked \in [Shop -> SUBSET Purchases] /\ pushing \in [Shop -> Member!Push]
    BY <1>1, <1>2
  <2>5. clock \in Nat /\ warned \in BOOLEAN
    BY <1>1
  <2> QED BY <2>1, <2>2, <2>3, <2>4, <2>5, MemberSets DEF Member!TypeOK
<1>5. LedgersOK
  BY <1>1, <1>2, FS_EmptySet, MemberSets DEF LedgersOK
<1>6. OrdersKnown
  BY <1>1, <1>2, MemberSets DEF OrdersKnown
<1>7. LaterUndone
  BY <1>1, MemberSets DEF LaterUndone
<1>8. CouponsTold
  BY <1>1, MemberSets DEF CouponsTold, Uses, Member!NoForm
<1> QED BY <1>4, <1>5, <1>6, <1>7, <1>8 DEF MemberInv

LEMMA MemberNext ==
    ASSUME MemberInv, Member!Next
    PROVE  MemberInv'
<1>1. CASE \E s \in Sites, o \in Purchases, b \in Shop, f \in Member!Form :
              s \in {Online, b} /\ Member!Place(s, b, o, f)
  BY <1>1, MemberPlace
<1>2. CASE \E s \in Sites, o \in Purchases : Member!Cancel(s, o)
  BY <1>2, MemberCancel
<1>3. CASE \E b \in Shop : \E full \in BOOLEAN : Member!PushRead(b, full)
  BY <1>3, MemberPushRead
<1>4. CASE \E b \in Shop : Member!PushWrite(b)
  BY <1>4, MemberPushWrite
<1>5. CASE \E b \in Shop : Member!Pull(b)
  BY <1>5, MemberPull
<1>6. CASE \E b \in Shop, o \in Purchases : Member!Finish(b, o)
  BY <1>6, MemberFinish
<1> QED BY <1>1, <1>2, <1>3, <1>4, <1>5, <1>6, MemberSets DEF Member!Next

LEMMA MemberSame ==
    ASSUME MemberInv, UNCHANGED memberVars
    PROVE  MemberInv'
<1>1. /\ form' = form /\ order' = order /\ ledger' = ledger /\ points' = points /\ coupon' = coupon
      /\ clock' = clock /\ marked' = marked /\ pushing' = pushing /\ warned' = warned
  BY DEF memberVars
<1>2. Member!TypeOK'
  BY <1>1 DEF MemberInv, Member!TypeOK
<1>3. LedgersOK' /\ OrdersKnown'
  BY <1>1 DEF MemberInv, LedgersOK, EntryOK, Referred, OrdersKnown
<1>4. LaterUndone' /\ CouponsTold'
  BY <1>1 DEF MemberInv, LaterUndone, Referred, Dup, CouponsTold, Uses, ComesUp
<1> QED BY <1>2, <1>3, <1>4 DEF MemberInv

\* Whatever runs, what the hosts have of a member is related as it should be
\* (points_service, hub._undo_duplicate_referrals, hub._reconcile_coupon_use).
THEOREM MembersHold == Spec => []MemberInv
<1>1. Init => MemberInv
  BY MemberInit DEF Init
<1>2. MemberInv /\ [Next]_all => MemberInv'
  <2> SUFFICES ASSUME MemberInv, [Next]_all PROVE MemberInv'
    OBVIOUS
  <2>1. CASE Member!Next
    BY <2>1, MemberNext
  <2>2. CASE UNCHANGED memberVars
    BY <2>2, MemberSame
  <2> QED BY <2>1, <2>2 DEF Next, all
<1> QED BY <1>1, <1>2, PTL DEF Spec

-----------------------------------------------------------------------------
\* What an order earned of the bonus: nothing, once it was undone.
LEMMA EarnedOnce ==
    ASSUME MemberInv, NEW o \in Purchases, Member!Earned(o)
    PROVE  /\ order[Online][o] # "cancelled"
           /\ \E e \in ledger[Online] : Referred(e) /\ e.order = o
           /\ ~Dup(o)
<1> DEFINE E == Member!Of(Online, o, Member!Bonus)
<1>1. Member!TypeOK /\ LedgersOK
  BY DEF MemberInv
<1>2. E \subseteq ledger[Online] /\ \A e \in E : e.order = o /\ e.reason \in Member!Bonus
  BY DEF Member!Of
<1>3. IsFiniteSet(ledger[Online]) /\ ledger[Online] \subseteq Member!Entry
  BY <1>1, MemberType, MemberSets DEF LedgersOK
<1>4. IsFiniteSet(E) /\ E \subseteq Member!Entry
  BY <1>2, <1>3, FS_Subset
<1>5. /\ \A e \in E : Referred(e) => e.delta = 1
      /\ \A e \in E : ~Referred(e) => e.delta < 0
      /\ \A e, g \in E : Referred(e) /\ Referred(g) => e = g
  BY <1>1, <1>2, MemberSets DEF LedgersOK, EntryOK, Referred, Member!Bonus
<1>6. Member!Stands(order[Online][o]) /\ Member!Sum(E) > 0
  BY DEF Member!Earned
<1>7. \A e \in ledger[Online] : e.order = o /\ e.reason \in Member!Bonus => e \in E
  BY DEF Member!Of
<1> HIDE DEF E
<1>8. (\E e \in E : Referred(e)) /\ (\A e \in E : Referred(e))
  BY <1>4, <1>5, <1>6, UndoneSum
<1>9. ~Dup(o)
  BY <1>7, <1>8 DEF Dup, Referred, Member!Bonus
<1>10. order[Online][o] # "cancelled"
  BY <1>6 DEF Member!Stands
<1> QED BY <1>2, <1>8, <1>9, <1>10

\* Of two orders that both count, the later has had its bonus undone: only one order
\* has earned it at the hub, whatever is under way (hub._undo_duplicate_referrals).
THEOREM BonusOnceHolds == Spec => []BonusOnce
<1>1. MemberInv => BonusOnce
  <2> SUFFICES ASSUME MemberInv, NEW o \in Purchases, NEW p \in Purchases,
                      Member!Earned(o), Member!Earned(p), o < p
               PROVE  FALSE
    <3>1. \A o, p \in Purchases : o # p => o < p \/ p < o
      BY MemberSets
    <3> QED BY <3>1, MemberSets DEF BonusOnce, Member!BonusOnce
  <2>1. PICK e \in ledger[Online] : Referred(e) /\ e.order = o
    BY EarnedOnce
  <2>2. PICK g \in ledger[Online] : Referred(g) /\ g.order = p
    BY EarnedOnce
  <2>3. order[Online][o] # "cancelled" /\ order[Online][p] # "cancelled" /\ ~Dup(p)
    BY EarnedOnce
  <2> QED BY <2>1, <2>2, <2>3 DEF MemberInv, LaterUndone
<1> QED BY <1>1, MembersHold, PTL

\* With nothing under way both orders that used the coupon are at the hub, and it has
\* warned when it got the second (hub._reconcile_coupon_use).
THEOREM CouponToldHolds == Spec => []CouponTold
<1>1. MemberInv => CouponTold
  <2> SUFFICES ASSUME MemberInv, Member!Quiet,
                      Member!Cardinality(Member!UsingCoupon(order[Online])) > 1
               PROVE  warned
    BY DEF CouponTold, Member!CouponTold
  <2> DEFINE using == Member!UsingCoupon(order[Online])
  <2>1. \E o, p \in using : o # p
    <3>1. Cardinality(using) > 1
      BY MemberCounts
    <3>2. using # {}
      <4> SUFFICES ASSUME using = {} PROVE FALSE
        OBVIOUS
      <4> QED BY <3>1, FS_EmptySet
    <3>3. PICK o \in using : TRUE
      BY <3>2
    <3>4. CASE using = {o}
      <4>1. Cardinality({o}) = 1
        BY FS_Singleton
      <4> QED BY <3>1, <3>4, <4>1
    <3>5. CASE using # {o}
      BY <3>3, <3>5
    <3> QED BY <3>4, <3>5
  <2>2. PICK o \in using, p \in using : o # p
    BY <2>1
  <2>3. o \in Purchases /\ p \in Purchases /\ Uses(o) /\ Uses(p)
    BY MemberSets DEF Member!UsingCoupon, Uses
  <2>4. ASSUME NEW r \in Purchases, Uses(r), ComesUp(r) PROVE FALSE
    <3>1. PICK c \in Shop : /\ form[r].home = c
                            /\ \/ order[c][r] = "none" \/ r \in marked[c]
                               \/ pushing[c].orders[r] # "none"
      BY <2>4 DEF ComesUp
    <3>2. marked[c] = {} /\ ~pushing[c].on /\ Member!Known(c) = order[c]
      BY DEF Member!Quiet, Member!Ahead
    <3>3. order[c][r] = "none"
      BY <3>1, <3>2 DEF MemberInv, OrdersKnown
    <3>4. order[Online][r] \in Member!Status /\ Member!Stands(order[Online][r])
      BY <2>4, MemberType, MemberSets DEF MemberInv, Uses
    <3>5. Member!Known(c)[r] = Member!Higher(order[c][r], order[Online][r])
      BY <3>1, MemberSets DEF Member!Known
    <3>6. order[c][r] = order[Online][r]
      BY <3>2, <3>3, <3>4, <3>5, HigherStatus
    <3> QED BY <3>3, <3>4, <3>6 DEF Member!Stands
  <2> QED BY <2>2, <2>3, <2>4 DEF MemberInv, CouponsTold
<1> QED BY <1>1, MembersHold, PTL

-----------------------------------------------------------------------------
(***************************************************************************)
(* Online orders and the branch's stock (OnlineStock).                     *)
(*                                                                         *)
(* The hub has every order the branch has; a page has the hub's row unless *)
(* the order is to be sent once more; a report has counted what the branch *)
(* had, but for counter sales and orders that came since.                  *)
(***************************************************************************)
P(orders) == Selling!Portions(orders)

HubLive == {o \in OnlineOrder : hub[o].status = "live"}
HubDropped == {o \in OnlineOrder : hub[o].status = "cancelled"}
NodeLive == {o \in OnlineOrder : node[o].status = "live"}
NodeDropped == {o \in OnlineOrder : node[o].status = "cancelled"}

RowsKnown ==
    \A o \in OnlineOrder :
        /\ hub[o].status = "none" =>
              hub[o].pay = "none" /\ node[o].status = "none" /\ o \notin down \cup pull.orders
        /\ o \in pull.orders =>
              /\ pull.rows[o].status # "none"
              /\ pull.rows[o].status = "cancelled" => hub[o].status = "cancelled"
        /\ push.rows[o].status = "cancelled" => node[o].status = "cancelled"
        /\ push.rows[o] # Selling!NoRow => node[o].status # "none"
        /\ o \in up \cup push.orders \cup push.seen => node[o].status # "none"

\* What a report says is there, or was taken since.
ReportCovered ==
    push.step \in {"counted", "read"} =>
        push.stock + push.sold + P(push.seen \cap NodeDropped)
            <= stock + sold + P(NodeLive \ push.seen)

\* The portions on the shelf and of orders that stand at the hub only are there.
ShelfCovered ==
    shelf + P(HubLive \ NodeLive) + told <= stock + sold + missed + P(HubDropped \cap NodeLive)

StockInv ==
    Selling!TypeOK /\ Selling!BranchStockConserved /\ RowsKnown /\ ReportCovered /\ ShelfCovered

\* The portions of orders are those of a function of this module.
LEMMA PortionsUnits ==
    ASSUME NEW S, S \subseteq OnlineOrder
    PROVE  /\ P(S) = Cardinality(Units(S, Qty))
           /\ IsFiniteSet(Units(S, Qty)) /\ P(S) \in Nat
<1>1. Selling!Cardinality(Units(S, Qty)) = Cardinality(Units(S, Qty))
  BY DEF Selling!Cardinality, Cardinality
<1>2. P(S) = Cardinality(Units(S, Qty))
  BY <1>1 DEF P, Selling!Portions, Units
<1>3. IsFiniteSet(S)
  BY OnlineAssumption, FS_Subset
<1>4. \A o \in S : Qty[o] \in Int
  BY OnlineAssumption
<1> QED BY <1>2, <1>3, <1>4, UnitsFinite

\* Portions of orders that are different are counted apart.
LEMMA PortionsSplit ==
    ASSUME NEW S, S \subseteq OnlineOrder, NEW T, T \subseteq OnlineOrder, S \cap T = {}
    PROVE  P(S \cup T) = P(S) + P(T)
<1>1. Units(S \cup T, Qty) = Units(S, Qty) \cup Units(T, Qty)
  BY DEF Units
<1>2. Units(S, Qty) \cap Units(T, Qty) = {}
  BY UnitsOf
<1>3. IsFiniteSet(Units(S, Qty)) /\ IsFiniteSet(Units(T, Qty))
  BY PortionsUnits
<1>4. Cardinality(Units(S, Qty) \cup Units(T, Qty))
        = Cardinality(Units(S, Qty)) + Cardinality(Units(T, Qty))
            - Cardinality(Units(S, Qty) \cap Units(T, Qty))
  BY <1>3, FS_Union
<1>5. Cardinality(Units(S, Qty) \cap Units(T, Qty)) = 0
  BY <1>2, FS_EmptySet
<1>6. S \cup T \subseteq OnlineOrder
  OBVIOUS
<1>7. /\ P(S) = Cardinality(Units(S, Qty)) /\ P(T) = Cardinality(Units(T, Qty))
      /\ P(S \cup T) = Cardinality(Units(S \cup T, Qty)) /\ P(S) \in Nat /\ P(T) \in Nat
  BY <1>6, PortionsUnits
<1> DEFINE s == Cardinality(Units(S, Qty))
           t == Cardinality(Units(T, Qty))
<1>8. P(S \cup T) = s + t - 0
  BY <1>1, <1>4, <1>5, <1>7
<1>9. s \in Nat /\ t \in Nat /\ P(S) = s /\ P(T) = t
  BY <1>7
<1>10. s + t - 0 = s + t
  <2> HIDE DEF s, t
  <2> QED BY <1>9
<1> QED BY <1>8, <1>9, <1>10

LEMMA PortionsOne ==
    ASSUME NEW o \in OnlineOrder
    PROVE  P({o}) = Qty[o] /\ Qty[o] \in Nat /\ Qty[o] > 0
<1>1. Qty[o] \in Nat /\ Qty[o] > 0
  BY OnlineAssumption
<1>2. Units({o}, Qty) = {o} \X (1..Qty[o])
  BY DEF Units
<1>3. 1 \in Int /\ Qty[o] \in Int
  BY <1>1
<1>4. IsFiniteSet(1..Qty[o]) /\ Cardinality(1..Qty[o]) = Qty[o]
  <2>1. IsFiniteSet(1..Qty[o])
    BY <1>3, FS_Interval
  <2>2. Cardinality(1..Qty[o]) = IF 1 > Qty[o] THEN 0 ELSE Qty[o] - 1 + 1
    BY <1>3, FS_Interval
  <2> QED BY <1>1, <2>1, <2>2
<1>5. IsFiniteSet({o}) /\ Cardinality({o}) = 1
  BY FS_Singleton
<1>6. Cardinality({o} \X (1..Qty[o])) = 1 * Qty[o]
  BY <1>4, <1>5, FS_Product
<1>7. P({o}) = Cardinality(Units({o}, Qty))
  BY PortionsUnits
<1> QED BY <1>1, <1>2, <1>6, <1>7

\* One order more or one less; and fewer orders take no more.
LEMMA PortionsChange ==
    ASSUME NEW S, S \subseteq OnlineOrder
    PROVE  /\ \A o \in OnlineOrder : o \notin S => P(S \cup {o}) = P(S) + Qty[o]
           /\ \A o \in OnlineOrder : o \in S => P(S \ {o}) = P(S) - Qty[o]
           /\ \A T : T \subseteq S => P(T) <= P(S)
<1>1. ASSUME NEW o \in OnlineOrder, o \notin S PROVE P(S \cup {o}) = P(S) + Qty[o]
  <2>1. S \cap {o} = {} /\ {o} \subseteq OnlineOrder
    BY <1>1
  <2> QED BY <2>1, PortionsSplit, PortionsOne
<1>2. ASSUME NEW o \in OnlineOrder, o \in S PROVE P(S \ {o}) = P(S) - Qty[o]
  <2>1. (S \ {o}) \cap {o} = {} /\ {o} \subseteq OnlineOrder /\ S \ {o} \subseteq OnlineOrder
    OBVIOUS
  <2>2. (S \ {o}) \cup {o} = S
    BY <1>2
  <2>3. P((S \ {o}) \cup {o}) = P(S \ {o}) + P({o})
    BY <2>1, PortionsSplit
  <2>4. P(S \ {o}) \in Nat /\ P({o}) = Qty[o] /\ Qty[o] \in Nat
    BY <2>1, PortionsUnits, PortionsOne
  <2>5. P(S) = P(S \ {o}) + Qty[o]
    BY <2>2, <2>3, <2>4
  <2> QED BY <2>4, <2>5
<1>3. ASSUME NEW T, T \subseteq S PROVE P(T) <= P(S)
  <2>1. T \cap (S \ T) = {} /\ T \subseteq OnlineOrder /\ S \ T \subseteq OnlineOrder /\ T \cup (S \ T) = S
    BY <1>3
  <2>2. P(T \cup (S \ T)) = P(T) + P(S \ T)
    BY <2>1, PortionsSplit
  <2>3. P(T) \in Nat /\ P(S \ T) \in Nat
    BY <2>1, PortionsUnits
  <2>4. P(S) = P(T) + P(S \ T)
    BY <2>1, <2>2
  <2> QED BY <2>3, <2>4
<1> QED BY <1>1, <1>2, <1>3

LEMMA PortionsNone == P({}) = 0
<1>1. Units({}, Qty) = {}
  BY DEF Units
<1>2. {} \subseteq OnlineOrder
  OBVIOUS
<1> QED BY <1>1, <1>2, PortionsUnits, FS_EmptySet

-----------------------------------------------------------------------------
\* Orders that only the hub has as standing, and only the branch; what a report has
\* counted and the branch got back, and what came after the report.
Above == HubLive \ NodeLive
Below == HubDropped \cap NodeLive
GivenBack == push.seen \cap NodeDropped
Came == NodeLive \ push.seen

LEMMA StockType ==
    ASSUME Selling!TypeOK
    PROVE  /\ hub \in [OnlineOrder -> Selling!Row] /\ node \in [OnlineOrder -> Selling!Row]
           /\ shelf \in Nat /\ stock \in Nat /\ short \in Nat /\ sent \in Nat /\ missed \in Nat
           /\ sold \in 0..MaxSold /\ told \in 0..MaxSold /\ sold \in Nat /\ told \in Nat
           /\ down \subseteq OnlineOrder /\ up \subseteq OnlineOrder
           /\ push.step \in Selling!PushStep /\ push.orders \subseteq OnlineOrder
           /\ push.stock \in Nat /\ push.sold \in 0..MaxSold /\ push.sold \in Nat
           /\ push.seen \subseteq OnlineOrder /\ push.rows \in [OnlineOrder -> Selling!Row]
           /\ pull.step \in Selling!PullStep /\ pull.orders \subseteq OnlineOrder
           /\ pull.rows \in [OnlineOrder -> Selling!Row]
  BY OnlineAssumption DEF Selling!TypeOK

LEMMA RowType ==
    ASSUME NEW r \in Selling!Row
    PROVE  /\ r.status \in Selling!Status /\ r.pay \in Selling!Pay /\ r.number \in BOOLEAN
           /\ r = [status |-> r.status, pay |-> r.pay, number |-> r.number]
  BY DEF Selling!Row

LEMMA PayAfterCancel ==
    ASSUME NEW p \in Selling!Pay
    PROVE  Selling!AfterCancel(p) \in Selling!Pay /\ Selling!AfterCancel(p) # "paid"
  BY DEF Selling!AfterCancel, Selling!Pay

\* The counts are numbers.
LEMMA StockCounts ==
    ASSUME StockInv
    PROVE  /\ P(HubLive) \in Nat /\ P(NodeLive) \in Nat /\ P(Above) \in Nat /\ P(Below) \in Nat
           /\ P(GivenBack) \in Nat /\ P(Came) \in Nat
           /\ stock + sold + P(NodeLive) = Stock + short
           /\ shelf + P(Above) + told <= stock + sold + missed + P(Below)
           /\ push.step \in {"counted", "read"} =>
                 push.stock + push.sold + P(GivenBack) <= stock + sold + P(Came)
<1>1. /\ HubLive \subseteq OnlineOrder /\ NodeLive \subseteq OnlineOrder /\ Above \subseteq OnlineOrder
      /\ Below \subseteq OnlineOrder /\ GivenBack \subseteq OnlineOrder /\ Came \subseteq OnlineOrder
  BY DEF HubLive, NodeLive, Above, Below, GivenBack, Came, NodeDropped
<1>2. stock + sold + P(NodeLive) = Stock + short
  BY DEF StockInv, Selling!BranchStockConserved, NodeLive, P
<1>3. shelf + P(Above) + told <= stock + sold + missed + P(Below)
  BY DEF StockInv, ShelfCovered, Above, Below
<1>4. push.step \in {"counted", "read"} =>
         push.stock + push.sold + P(GivenBack) <= stock + sold + P(Came)
  BY DEF StockInv, ReportCovered, GivenBack, Came
<1> QED BY <1>1, <1>2, <1>3, <1>4, PortionsUnits

\* The invariant of the next state, in these terms.
LEMMA StockKept ==
    ASSUME Selling!TypeOK', RowsKnown',
           stock' + sold' + P(NodeLive)' = Stock + short',
           shelf' + P(Above)' + told' <= stock' + sold' + missed' + P(Below)',
           push'.step \in {"counted", "read"} =>
              push'.stock + push'.sold + P(GivenBack)' <= stock' + sold' + P(Came)'
    PROVE  StockInv'
<1>1. Selling!BranchStockConserved'
  BY DEF Selling!BranchStockConserved, NodeLive, P
<1>2. ShelfCovered'
  BY DEF ShelfCovered, Above, Below
<1>3. ReportCovered'
  BY DEF ReportCovered, GivenBack, Came
<1> QED BY <1>1, <1>2, <1>3 DEF StockInv

-----------------------------------------------------------------------------
\* The hub: a portion taken off the shelf is one of an order that only the hub has.
LEMMA StockPlace ==
    ASSUME StockInv, NEW o \in OnlineOrder, Selling!Place(o)
    PROVE  StockInv'
<1> DEFINE pay == IF Prepaid THEN "pending" ELSE "at_once"
<1>1. Selling!TypeOK /\ RowsKnown
  BY DEF StockInv
<1>2. /\ hub[o].status = "none" /\ shelf >= Qty[o] /\ shelf' = shelf - Qty[o]
      /\ hub' = [hub EXCEPT ![o].status = "live", ![o].pay = pay]
      /\ down' = down \cup {o}
      /\ UNCHANGED <<node, stock, sold, short, up, sent, push, pull, told, missed>>
  BY DEF Selling!Place, Selling!nodeVars
<1>3. pay \in Selling!Pay /\ "live" \in Selling!Status
  BY DEF Selling!Pay, Selling!Status
<1> HIDE DEF pay
<1>4. /\ hub' \in [OnlineOrder -> Selling!Row]
      /\ hub'[o].status = "live" /\ hub'[o].pay = pay
      /\ \A x \in OnlineOrder : x # o => hub'[x] = hub[x]
  <2>1. hub \in [OnlineOrder -> Selling!Row]
    BY <1>1, StockType
  <2> QED BY <1>2, <1>3, <2>1 DEF Selling!Row
<1>5. Qty[o] \in Nat
  BY PortionsOne
<1>6. Selling!TypeOK'
  <2>1. shelf' \in Nat /\ down' \subseteq OnlineOrder
    BY <1>1, <1>2, <1>5, StockType
  <2> QED BY <1>1, <1>2, <1>4, <2>1 DEF Selling!TypeOK
<1>7. RowsKnown'
  BY <1>1, <1>2, <1>4 DEF RowsKnown
<1>8. NodeLive' = NodeLive /\ GivenBack' = GivenBack /\ Came' = Came
  BY <1>2 DEF NodeLive, GivenBack, Came, NodeDropped
<1>9. Above' = Above \cup {o} /\ o \notin Above /\ Below' = Below
  <2>1. node[o].status = "none"
    BY <1>1, <1>2 DEF RowsKnown
  <2> QED BY <1>2, <1>4, <1>8, <2>1 DEF Above, Below, HubLive, HubDropped, NodeLive
<1>10. P(Above') = P(Above) + Qty[o]
  <2>1. Above \subseteq OnlineOrder
    BY DEF Above, HubLive
  <2> QED BY <1>9, <2>1, PortionsChange
<1>11. shelf' + P(Above)' + told' <= stock' + sold' + missed' + P(Below)'
  BY <1>1, <1>2, <1>5, <1>9, <1>10, StockCounts, StockType
<1>12. /\ stock' + sold' + P(NodeLive)' = Stock + short'
       /\ push'.step \in {"counted", "read"} =>
             push'.stock + push'.sold + P(GivenBack)' <= stock' + sold' + P(Came)'
  BY <1>2, <1>8, StockCounts
<1> QED BY <1>6, <1>7, <1>11, <1>12, StockKept

\* Only what the hub knows of the payment changes.
LEMMA StockPay ==
    ASSUME StockInv, NEW o \in OnlineOrder, Selling!Paid(o) \/ Selling!Expire(o)
    PROVE  StockInv'
<1>1. Selling!TypeOK /\ RowsKnown
  BY DEF StockInv
<1>2. /\ hub[o].pay \in {"pending", "expired"}
      /\ down' = down \cup {o}
      /\ UNCHANGED <<shelf, node, stock, sold, short, up, sent, push, pull, told, missed>>
      /\ \E pay \in Selling!Pay : hub' = [hub EXCEPT ![o].pay = pay]
  BY DEF Selling!Paid, Selling!Expire, Selling!nodeVars, Selling!Pay
<1>3. PICK pay \in Selling!Pay : hub' = [hub EXCEPT ![o].pay = pay]
  BY <1>2
<1>4. /\ hub' \in [OnlineOrder -> Selling!Row]
      /\ \A x \in OnlineOrder : hub'[x].status = hub[x].status
  BY <1>1, <1>3, StockType DEF Selling!Row
<1>5. Selling!TypeOK'
  BY <1>1, <1>2, <1>4 DEF Selling!TypeOK
<1>6. hub[o].status # "none"
  BY <1>1, <1>2 DEF RowsKnown
<1>7. RowsKnown'
  BY <1>1, <1>2, <1>4, <1>6 DEF RowsKnown
<1>8. NodeLive' = NodeLive /\ GivenBack' = GivenBack /\ Came' = Came /\ Above' = Above /\ Below' = Below
  BY <1>2, <1>4 DEF NodeLive, GivenBack, Came, NodeDropped, Above, Below, HubLive, HubDropped
<1>9. /\ stock' + sold' + P(NodeLive)' = Stock + short'
      /\ shelf' + P(Above)' + told' <= stock' + sold' + missed' + P(Below)'
      /\ push'.step \in {"counted", "read"} =>
            push'.stock + push'.sold + P(GivenBack)' <= stock' + sold' + P(Came)'
  BY <1>2, <1>8, StockCounts
<1> QED BY <1>5, <1>7, <1>9, StockKept

\* An order that only the hub has gives its portions back to the shelf; one that the
\* branch has is then on its way back.
LEMMA StockHubCancel ==
    ASSUME StockInv, NEW o \in OnlineOrder, Selling!HubCancel(o)
    PROVE  StockInv'
<1>1. Selling!TypeOK /\ RowsKnown
  BY DEF StockInv
<1>2. /\ hub[o].status = "live" /\ shelf' = shelf + Qty[o]
      /\ hub' = [hub EXCEPT ![o].status = "cancelled", ![o].pay = Selling!AfterCancel(@)]
      /\ down' = down \cup {o}
      /\ UNCHANGED <<node, stock, sold, short, up, sent, push, pull, told, missed>>
  BY DEF Selling!HubCancel, Selling!nodeVars
<1>3. hub \in [OnlineOrder -> Selling!Row]
  BY <1>1, StockType
<1>4. /\ hub' \in [OnlineOrder -> Selling!Row]
      /\ hub'[o].status = "cancelled"
      /\ \A x \in OnlineOrder : x # o => hub'[x] = hub[x]
  <2>1. hub[o].pay \in Selling!Pay
    BY <1>3, RowType
  <2>2. Selling!AfterCancel(hub[o].pay) \in Selling!Pay /\ "cancelled" \in Selling!Status
    BY <2>1, PayAfterCancel DEF Selling!Status
  <2> QED BY <1>2, <1>3, <2>2 DEF Selling!Row
<1>5. Qty[o] \in Nat
  BY PortionsOne
<1>6. Selling!TypeOK'
  <2>1. shelf' \in Nat /\ down' \subseteq OnlineOrder
    BY <1>1, <1>2, <1>5, StockType
  <2> QED BY <1>1, <1>2, <1>4, <2>1 DEF Selling!TypeOK
<1>7. RowsKnown'
  BY <1>1, <1>2, <1>4 DEF RowsKnown
<1>8. NodeLive' = NodeLive /\ GivenBack' = GivenBack /\ Came' = Came
  BY <1>2 DEF NodeLive, GivenBack, Came, NodeDropped
<1>9. CASE o \in NodeLive
  <2>1. Above' = Above /\ Below' = Below \cup {o} /\ o \notin Below
    BY <1>2, <1>4, <1>8, <1>9 DEF Above, Below, HubLive, HubDropped
  <2>2. P(Below') = P(Below) + Qty[o]
    <3>1. Below \subseteq OnlineOrder
      BY DEF Below, HubDropped
    <3> QED BY <2>1, <3>1, PortionsChange
  <2> QED BY <1>1, <1>2, <1>5, <1>6, <1>7, <1>8, <2>1, <2>2, StockCounts, StockKept, StockType
<1>10. CASE o \notin NodeLive
  <2>1. Above' = Above \ {o} /\ Below' = Below /\ o \in Above
    BY <1>2, <1>4, <1>8, <1>10 DEF Above, Below, HubLive, HubDropped
  <2>2. P(Above') = P(Above) - Qty[o]
    <3>1. Above \subseteq OnlineOrder
      BY DEF Above, HubLive
    <3> QED BY <2>1, <3>1, PortionsChange
  <2> QED BY <1>1, <1>2, <1>5, <1>6, <1>7, <1>8, <2>1, <2>2, StockCounts, StockKept, StockType
<1> QED BY <1>9, <1>10

\* The branch: what is sold at the counter is no longer there, but known.
LEMMA StockCounterSale ==
    ASSUME StockInv, Selling!CounterSale
    PROVE  StockInv'
<1>1. Selling!TypeOK /\ RowsKnown
  BY DEF StockInv
<1>2. /\ sold < MaxSold /\ stock > 0 /\ stock' = stock - 1 /\ sold' = sold + 1
      /\ UNCHANGED <<hub, shelf, down, node, short, up, sent, push, pull, told, missed>>
  BY DEF Selling!CounterSale, Selling!hubVars
<1>3. Selling!TypeOK'
  <2>1. stock' \in Nat /\ sold' \in 0..MaxSold
    BY <1>1, <1>2, OnlineAssumption, StockType
  <2> QED BY <1>1, <1>2, <2>1 DEF Selling!TypeOK
<1>4. RowsKnown'
  BY <1>1, <1>2 DEF RowsKnown
<1>5. NodeLive' = NodeLive /\ GivenBack' = GivenBack /\ Came' = Came /\ Above' = Above /\ Below' = Below
  BY <1>2 DEF NodeLive, GivenBack, Came, NodeDropped, Above, Below, HubLive, HubDropped
<1>6. stock' + sold' + P(NodeLive)' = Stock + short'
  BY <1>1, <1>2, <1>5, OnlineAssumption, StockCounts, StockType
<1>7. shelf' + P(Above)' + told' <= stock' + sold' + missed' + P(Below)'
  BY <1>1, <1>2, <1>5, StockCounts, StockType
<1>8. push'.step \in {"counted", "read"} =>
         push'.stock + push'.sold + P(GivenBack)' <= stock' + sold' + P(Came)'
  BY <1>1, <1>2, <1>5, StockCounts, StockType
<1> QED BY <1>3, <1>4, <1>6, <1>7, <1>8, StockKept

LEMMA StockNodeCancel ==
    ASSUME StockInv, NEW o \in OnlineOrder, Selling!NodeCancel(o)
    PROVE  StockInv'
<1>1. Selling!TypeOK /\ RowsKnown
  BY DEF StockInv
<1>2. /\ node[o].status = "live" /\ stock' = stock + Qty[o] /\ up' = up \cup {o}
      /\ node' = [node EXCEPT ![o].status = "cancelled", ![o].pay = Selling!AfterCancel(@)]
      /\ UNCHANGED <<hub, shelf, down, sold, short, sent, push, pull, told, missed>>
  BY DEF Selling!NodeCancel, Selling!hubVars
<1>3. node \in [OnlineOrder -> Selling!Row]
  BY <1>1, StockType
<1>4. /\ node' \in [OnlineOrder -> Selling!Row]
      /\ node'[o].status = "cancelled"
      /\ \A x \in OnlineOrder : x # o => node'[x] = node[x]
  <2>1. node[o].pay \in Selling!Pay
    BY <1>3, RowType
  <2>2. Selling!AfterCancel(node[o].pay) \in Selling!Pay /\ "cancelled" \in Selling!Status
    BY <2>1, PayAfterCancel DEF Selling!Status
  <2> QED BY <1>2, <1>3, <2>2 DEF Selling!Row
<1>5. Qty[o] \in Nat
  BY PortionsOne
<1>6. Selling!TypeOK'
  <2>1. stock' \in Nat /\ up' \subseteq OnlineOrder
    BY <1>1, <1>2, <1>5, StockType
  <2> QED BY <1>1, <1>2, <1>4, <2>1 DEF Selling!TypeOK
<1>7. RowsKnown'
  BY <1>1, <1>2, <1>4 DEF RowsKnown
<1>8. NodeLive' = NodeLive \ {o} /\ o \in NodeLive /\ NodeDropped' = NodeDropped \cup {o} /\ o \notin NodeDropped
  BY <1>2, <1>4 DEF NodeLive, NodeDropped
<1>9. P(NodeLive') = P(NodeLive) - Qty[o]
  <2>1. NodeLive \subseteq OnlineOrder
    BY DEF NodeLive
  <2> QED BY <1>8, <2>1, PortionsChange
<1>10. stock' + sold' + P(NodeLive)' = Stock + short'
  BY <1>1, <1>2, <1>5, <1>9, OnlineAssumption, StockCounts, StockType
<1>11. HubLive' = HubLive /\ HubDropped' = HubDropped /\ push' = push
  BY <1>2 DEF HubLive, HubDropped
<1>12. /\ Above \subseteq OnlineOrder /\ Below \subseteq OnlineOrder
       /\ GivenBack \subseteq OnlineOrder /\ Came \subseteq OnlineOrder
  BY DEF Above, Below, GivenBack, Came, HubLive, HubDropped, NodeDropped, NodeLive
<1>13. /\ P(Above') <= P(Above) + Qty[o] /\ P(Above') \in Nat
       /\ P(Below') >= P(Below) - Qty[o] /\ P(Below') \in Nat
       /\ P(Above') - P(Above) <= Qty[o] + P(Below') - P(Below)
  <2>1. CASE o \in HubLive
    <3>1. Above' = Above \cup {o} /\ o \notin Above /\ Below' = Below
      BY <1>8, <1>11, <2>1 DEF Above, Below, HubLive, HubDropped
    <3>2. P(Above') = P(Above) + Qty[o]
      BY <1>12, <3>1, PortionsChange
    <3> QED BY <1>5, <3>1, <3>2, StockCounts
  <2>2. CASE o \in HubDropped
    <3>1. Above' = Above /\ Below' = Below \ {o} /\ o \in Below
      BY <1>8, <1>11, <2>2 DEF Above, Below, HubLive, HubDropped
    <3>2. P(Below') = P(Below) - Qty[o] /\ P(Below') \in Nat
      <4>1. P(Below') = P(Below) - Qty[o]
        BY <1>12, <3>1, PortionsChange
      <4>2. Below' \subseteq OnlineOrder
        BY <1>12, <3>1
      <4> QED BY <4>1, <4>2, PortionsUnits
    <3> QED BY <1>5, <3>1, <3>2, StockCounts
  <2>3. CASE o \notin HubLive /\ o \notin HubDropped
    <3>1. Above' = Above /\ Below' = Below
      BY <1>8, <1>11, <2>3 DEF Above, Below
    <3> QED BY <1>5, <3>1, StockCounts
  <2> QED BY <2>1, <2>2, <2>3
<1>14. shelf' + P(Above)' + told' <= stock' + sold' + missed' + P(Below)'
  BY <1>1, <1>2, <1>5, <1>13, StockCounts, StockType
<1>15. P(GivenBack') - P(GivenBack) <= Qty[o] + P(Came') - P(Came) /\ P(GivenBack') \in Nat /\ P(Came') \in Nat
  <2>1. CASE o \in push.seen
    <3>1. GivenBack' = GivenBack \cup {o} /\ o \notin GivenBack /\ Came' = Came
      BY <1>8, <1>11, <2>1 DEF GivenBack, Came
    <3>2. P(GivenBack') = P(GivenBack) + Qty[o]
      BY <1>12, <3>1, PortionsChange
    <3> QED BY <1>5, <3>1, <3>2, StockCounts
  <2>2. CASE o \notin push.seen
    <3>1. GivenBack' = GivenBack /\ Came' = Came \ {o} /\ o \in Came
      BY <1>8, <1>11, <2>2 DEF GivenBack, Came
    <3>2. P(Came') = P(Came) - Qty[o] /\ P(Came') \in Nat
      <4>1. P(Came') = P(Came) - Qty[o]
        BY <1>12, <3>1, PortionsChange
      <4>2. Came' \subseteq OnlineOrder
        BY <1>12, <3>1
      <4> QED BY <4>1, <4>2, PortionsUnits
    <3> QED BY <1>5, <3>1, <3>2, StockCounts
  <2> QED BY <2>1, <2>2
<1>16. push'.step \in {"counted", "read"} =>
          push'.stock + push'.sold + P(GivenBack)' <= stock' + sold' + P(Came)'
  BY <1>1, <1>2, <1>5, <1>15, StockCounts, StockType
<1> QED BY <1>6, <1>7, <1>10, <1>14, <1>16, StockKept

-----------------------------------------------------------------------------
\* What push and pull leave alone: the stock and the shelf, and who has what.
LEMMA StockSame ==
    ASSUME StockInv, Selling!TypeOK', RowsKnown',
           UNCHANGED <<hub, node, shelf, stock, sold, short, told, missed>>,
           push'.step \in {"counted", "read"} =>
              push'.stock + push'.sold + P(GivenBack)' <= stock + sold + P(Came)'
    PROVE  StockInv'
<1>1. NodeLive' = NodeLive /\ Above' = Above /\ Below' = Below
  BY DEF NodeLive, Above, Below, HubLive, HubDropped
<1>2. /\ stock' + sold' + P(NodeLive)' = Stock + short'
      /\ shelf' + P(Above)' + told' <= stock' + sold' + missed' + P(Below)'
  BY <1>1, StockCounts
<1> QED BY <1>2, StockKept

LEMMA EmptyRows ==
    /\ Selling!NoRow \in Selling!Row
    /\ Selling!NoRows \in [OnlineOrder -> Selling!Row]
    /\ \A o \in OnlineOrder : Selling!NoRows[o] = Selling!NoRow
    /\ Selling!NoRow.status = "none" /\ Selling!NoRow.pay = "none" /\ ~Selling!NoRow.number
  BY DEF Selling!NoRow, Selling!NoRows, Selling!Row, Selling!Status, Selling!Pay

LEMMA EmptyPush ==
    /\ Selling!NoPush \in [step: Selling!PushStep, orders: SUBSET OnlineOrder, stock: Nat,
                           sold: 0..MaxSold, seen: SUBSET OnlineOrder,
                           rows: [OnlineOrder -> Selling!Row]]
    /\ Selling!NoPush.step = "idle" /\ Selling!NoPush.orders = {} /\ Selling!NoPush.seen = {}
    /\ Selling!NoPush.rows = Selling!NoRows
  BY EmptyRows, OnlineAssumption DEF Selling!NoPush, Selling!PushStep

LEMMA EmptyPull ==
    /\ Selling!NoPull \in [step: Selling!PullStep, orders: SUBSET OnlineOrder,
                           rows: [OnlineOrder -> Selling!Row]]
    /\ Selling!NoPull.step = "idle" /\ Selling!NoPull.orders = {} /\ Selling!NoPull.rows = Selling!NoRows
  BY EmptyRows DEF Selling!NoPull, Selling!PullStep

LEMMA StockPushOpen ==
    ASSUME StockInv, Selling!PushOpen
    PROVE  StockInv'
<1>1. Selling!TypeOK /\ RowsKnown
  BY DEF StockInv
<1>2. /\ push' = [Selling!NoPush EXCEPT !.step = "open", !.orders = up] /\ up' = {}
      /\ UNCHANGED <<hub, shelf, down, node, stock, sold, short, sent, pull, told, missed>>
  BY DEF Selling!PushOpen, Selling!hubVars
<1>3. /\ push'.step = "open" /\ push'.orders = up /\ push'.seen = {} /\ push'.rows = Selling!NoRows
      /\ push' \in [step: Selling!PushStep, orders: SUBSET OnlineOrder, stock: Nat,
                    sold: 0..MaxSold, seen: SUBSET OnlineOrder, rows: [OnlineOrder -> Selling!Row]]
  BY <1>1, <1>2, EmptyPush, StockType DEF Selling!PushStep
<1>4. Selling!TypeOK'
  BY <1>1, <1>2, <1>3 DEF Selling!TypeOK
<1>5. RowsKnown'
  BY <1>1, <1>2, <1>3, EmptyRows DEF RowsKnown
<1> QED BY <1>2, <1>3, <1>4, <1>5, StockSame

LEMMA StockPushCount ==
    ASSUME StockInv, Selling!PushCount
    PROVE  StockInv'
<1>1. Selling!TypeOK /\ RowsKnown
  BY DEF StockInv
<1>2. /\ push' = [push EXCEPT !.step = "counted", !.stock = stock, !.sold = sold, !.seen = NodeLive]
      /\ UNCHANGED <<hub, shelf, down, node, stock, sold, short, up, sent, pull, told, missed>>
  BY DEF Selling!PushCount, Selling!hubVars, Selling!nodeVars, NodeLive
<1>3. /\ push'.step = "counted" /\ push'.orders = push.orders /\ push'.seen = NodeLive
      /\ push'.stock = stock /\ push'.sold = sold /\ push'.rows = push.rows
      /\ push' \in [step: Selling!PushStep, orders: SUBSET OnlineOrder, stock: Nat,
                    sold: 0..MaxSold, seen: SUBSET OnlineOrder, rows: [OnlineOrder -> Selling!Row]]
  <2>1. push \in [step: Selling!PushStep, orders: SUBSET OnlineOrder, stock: Nat,
                  sold: 0..MaxSold, seen: SUBSET OnlineOrder, rows: [OnlineOrder -> Selling!Row]]
    BY <1>1 DEF Selling!TypeOK
  <2>2. "counted" \in Selling!PushStep /\ NodeLive \subseteq OnlineOrder
    BY DEF Selling!PushStep, NodeLive
  <2> QED BY <1>1, <1>2, <2>1, <2>2, StockType
<1>4. Selling!TypeOK'
  BY <1>1, <1>2, <1>3 DEF Selling!TypeOK
<1>5. RowsKnown'
  BY <1>1, <1>2, <1>3 DEF RowsKnown, NodeLive
<1>6. GivenBack' = {} /\ Came' = {}
  BY <1>2, <1>3 DEF GivenBack, Came, NodeLive, NodeDropped
<1>7. push'.stock + push'.sold + P(GivenBack)' <= stock + sold + P(Came)'
  BY <1>1, <1>3, <1>6, PortionsNone, StockType
<1> QED BY <1>2, <1>4, <1>5, <1>7, StockSame

LEMMA StockPushRead ==
    ASSUME StockInv, Selling!PushRead
    PROVE  StockInv'
<1> DEFINE rows == [o \in OnlineOrder |-> IF o \in push.orders \ up THEN node[o] ELSE Selling!NoRow]
<1>1. Selling!TypeOK /\ RowsKnown
  BY DEF StockInv
<1>2. /\ push.step = "counted" /\ push' = [push EXCEPT !.step = "read", !.rows = rows]
      /\ UNCHANGED <<hub, shelf, down, node, stock, sold, short, up, sent, pull, told, missed>>
  BY DEF Selling!PushRead, Selling!hubVars, Selling!nodeVars
<1>3. /\ rows \in [OnlineOrder -> Selling!Row]
      /\ \A o \in OnlineOrder : rows[o] = Selling!NoRow \/ (o \in push.orders /\ rows[o] = node[o])
  BY <1>1, EmptyRows, StockType
<1> HIDE DEF rows
<1>4. /\ push'.step = "read" /\ push'.orders = push.orders /\ push'.seen = push.seen
      /\ push'.stock = push.stock /\ push'.sold = push.sold /\ push'.rows = rows
      /\ push' \in [step: Selling!PushStep, orders: SUBSET OnlineOrder, stock: Nat,
                    sold: 0..MaxSold, seen: SUBSET OnlineOrder, rows: [OnlineOrder -> Selling!Row]]
  <2>1. push \in [step: Selling!PushStep, orders: SUBSET OnlineOrder, stock: Nat,
                  sold: 0..MaxSold, seen: SUBSET OnlineOrder, rows: [OnlineOrder -> Selling!Row]]
    BY <1>1 DEF Selling!TypeOK
  <2>2. "read" \in Selling!PushStep
    BY DEF Selling!PushStep
  <2> QED BY <1>2, <1>3, <2>1, <2>2
<1>5. Selling!TypeOK'
  BY <1>1, <1>2, <1>4 DEF Selling!TypeOK
<1>6. RowsKnown'
  BY <1>1, <1>2, <1>3, <1>4, EmptyRows DEF RowsKnown
<1>7. GivenBack' = GivenBack /\ Came' = Came
  BY <1>2, <1>4 DEF GivenBack, Came, NodeLive, NodeDropped
<1>8. push'.stock + push'.sold + P(GivenBack)' <= stock + sold + P(Came)'
  BY <1>2, <1>4, <1>7, StockCounts
<1> QED BY <1>2, <1>5, <1>6, <1>8, StockSame

LEMMA StockPushFails ==
    ASSUME StockInv, Selling!PushFails
    PROVE  StockInv'
<1>1. Selling!TypeOK /\ RowsKnown
  BY DEF StockInv
<1>2. /\ push' = Selling!NoPush /\ up' = up \cup push.orders
      /\ UNCHANGED <<hub, shelf, down, node, stock, sold, short, sent, pull, told, missed>>
  BY DEF Selling!PushFails, Selling!hubVars
<1>3. Selling!TypeOK'
  BY <1>1, <1>2, EmptyPush, StockType DEF Selling!TypeOK
<1>4. RowsKnown'
  BY <1>1, <1>2, EmptyPush, EmptyRows DEF RowsKnown
<1> QED BY <1>2, <1>3, <1>4, EmptyPush, StockSame

LEMMA StockPullRead ==
    ASSUME StockInv, Selling!PullRead
    PROVE  StockInv'
<1> DEFINE rows == [o \in OnlineOrder |-> IF o \in Selling!Sendable THEN hub[o] ELSE Selling!NoRow]
<1>1. Selling!TypeOK /\ RowsKnown
  BY DEF StockInv
<1>2. /\ pull' = [step |-> "read", orders |-> Selling!Sendable, rows |-> rows]
      /\ down' = down \ Selling!Sendable
      /\ UNCHANGED <<hub, shelf, node, stock, sold, short, up, sent, push, told, missed>>
  BY DEF Selling!PullRead, Selling!nodeVars
<1>3. Selling!Sendable \subseteq down
  BY DEF Selling!Sendable
<1>4. rows \in [OnlineOrder -> Selling!Row] /\ \A o \in Selling!Sendable : rows[o] = hub[o]
  BY <1>1, <1>3, EmptyRows, StockType
<1> HIDE DEF rows
<1>5. Selling!TypeOK'
  <2>1. pull' \in [step: Selling!PullStep, orders: SUBSET OnlineOrder, rows: [OnlineOrder -> Selling!Row]]
    BY <1>1, <1>2, <1>3, <1>4, StockType DEF Selling!PullStep
  <2>2. down' \subseteq OnlineOrder
    BY <1>1, <1>2, StockType
  <2> QED BY <1>1, <1>2, <2>1, <2>2 DEF Selling!TypeOK
<1>6. RowsKnown'
  BY <1>1, <1>2, <1>3, <1>4 DEF RowsKnown
<1>7. GivenBack' = GivenBack /\ Came' = Came
  BY <1>2 DEF GivenBack, Came, NodeLive, NodeDropped
<1> QED BY <1>2, <1>5, <1>6, <1>7, StockCounts, StockSame

LEMMA StockPullFails ==
    ASSUME StockInv, Selling!PullFails
    PROVE  StockInv'
<1>1. Selling!TypeOK /\ RowsKnown
  BY DEF StockInv
<1>2. /\ pull' = Selling!NoPull /\ down' = down \cup pull.orders
      /\ UNCHANGED <<hub, shelf, node, stock, sold, short, up, sent, push, told, missed>>
  BY DEF Selling!PullFails, Selling!nodeVars
<1>3. Selling!TypeOK'
  BY <1>1, <1>2, EmptyPull, StockType DEF Selling!TypeOK
<1>4. RowsKnown'
  BY <1>1, <1>2, EmptyPull DEF RowsKnown
<1>5. GivenBack' = GivenBack /\ Came' = Came
  BY <1>2 DEF GivenBack, Came, NodeLive, NodeDropped
<1> QED BY <1>2, <1>3, <1>4, <1>5, StockCounts, StockSame

-----------------------------------------------------------------------------
LEMMA PortionsParts ==
    ASSUME NEW S, S \subseteq OnlineOrder, NEW T
    PROVE  P(S) = P(S \cap T) + P(S \ T) /\ P(S \cap T) \in Nat /\ P(S \ T) \in Nat
<1>1. S \cap T \subseteq OnlineOrder /\ S \ T \subseteq OnlineOrder /\ (S \cap T) \cap (S \ T) = {}
  OBVIOUS
<1>2. (S \cap T) \cup (S \ T) = S
  OBVIOUS
<1>3. P((S \cap T) \cup (S \ T)) = P(S \cap T) + P(S \ T)
  BY <1>1, PortionsSplit
<1>4. P(S) = P(S \cap T) + P(S \ T)
  BY <1>2, <1>3
<1> QED BY <1>1, <1>4, PortionsUnits

LEMMA PortionsOfBoth ==
    ASSUME NEW S, S \subseteq OnlineOrder, NEW T, T \subseteq OnlineOrder
    PROVE  P(S \cup T) <= P(S) + P(T) /\ P(S \cup T) \in Nat
<1>1. S \cap (T \ S) = {} /\ T \ S \subseteq OnlineOrder /\ S \cup T \subseteq OnlineOrder
  OBVIOUS
<1>2. S \cup (T \ S) = S \cup T
  OBVIOUS
<1>3. P(S \cup (T \ S)) = P(S) + P(T \ S)
  BY <1>1, PortionsSplit
<1>4. P(S \cup T) = P(S) + P(T \ S)
  BY <1>2, <1>3
<1>5. P(T \ S) <= P(T)
  BY PortionsChange
<1>6. P(S) \in Nat /\ P(T) \in Nat /\ P(T \ S) \in Nat /\ P(S \cup T) \in Nat
  BY <1>1, PortionsUnits
<1> QED BY <1>4, <1>5, <1>6

LEMMA LessNat ==
    ASSUME NEW n \in Nat, NEW m \in Nat
    PROVE  /\ Selling!Less(n, m) \in Nat /\ Selling!Less(m, n) \in Nat
           /\ Selling!Less(n, m) - Selling!Less(m, n) = n - m
           /\ n <= Selling!Less(n, m) + m
  BY DEF Selling!Less

\* What a page does to the branch's rows.
LEMMA PulledRows ==
    ASSUME StockInv, NEW saved, Selling!PullApply(saved)
    PROVE  /\ \A o \in OnlineOrder :
                 /\ o \in Selling!Arriving => node'[o] = [pull.rows[o] EXCEPT !.number = TRUE]
                 /\ o \in Selling!New \ Selling!Arriving => node'[o] = pull.rows[o]
                 /\ o \in Selling!Cancelled =>
                      node'[o] = [node[o] EXCEPT !.status = "cancelled", !.pay = Selling!AfterCancel(@)]
                 /\ o \notin Selling!New \cup Selling!Cancelled => node'[o] = node[o]
           /\ Selling!Arriving = {o \in pull.orders : node[o].status = "none" /\ pull.rows[o].status = "live"}
           /\ Selling!New = {o \in pull.orders : node[o].status = "none"}
           /\ Selling!Cancelled = {o \in pull.orders : node[o].status = "live" /\ pull.rows[o].status = "cancelled"}
           /\ node' \in [OnlineOrder -> Selling!Row]
<1>1. Selling!TypeOK
  BY DEF StockInv
<1>2. node' = [o \in OnlineOrder |-> IF o \in pull.orders THEN Selling!NodeMerged(o) ELSE node[o]]
  BY DEF Selling!PullApply
<1>3. /\ Selling!Arriving = {o \in pull.orders : node[o].status = "none" /\ pull.rows[o].status = "live"}
      /\ Selling!New = {o \in pull.orders : node[o].status = "none"}
      /\ Selling!Cancelled = {o \in pull.orders : node[o].status = "live" /\ pull.rows[o].status = "cancelled"}
  BY DEF Selling!Arriving, Selling!New, Selling!Cancelled
<1>4. /\ Selling!Arriving \subseteq Selling!New /\ Selling!New \cap Selling!Cancelled = {}
      /\ Selling!New \subseteq pull.orders /\ Selling!Cancelled \subseteq pull.orders
  BY <1>3
<1>5. ASSUME NEW o \in OnlineOrder
      PROVE  /\ o \in Selling!Arriving => node'[o] = [pull.rows[o] EXCEPT !.number = TRUE]
             /\ o \in Selling!New \ Selling!Arriving => node'[o] = pull.rows[o]
             /\ o \in Selling!Cancelled =>
                   node'[o] = [node[o] EXCEPT !.status = "cancelled", !.pay = Selling!AfterCancel(@)]
             /\ o \notin Selling!New \cup Selling!Cancelled => node'[o] = node[o]
  <2>1. node'[o] = IF o \in pull.orders THEN Selling!NodeMerged(o) ELSE node[o]
    BY <1>2
  <2>2. CASE o \in Selling!Arriving
    <3>1. Selling!NodeMerged(o) = [pull.rows[o] EXCEPT !.number = TRUE]
      BY <1>4, <2>2 DEF Selling!NodeMerged
    <3> QED BY <1>4, <2>1, <2>2, <3>1
  <2>3. CASE o \in Selling!New \ Selling!Arriving
    <3>1. Selling!NodeMerged(o) = pull.rows[o]
      BY <1>4, <2>3 DEF Selling!NodeMerged
    <3> QED BY <1>4, <2>1, <2>3, <3>1
  <2>4. CASE o \in Selling!Cancelled
    <3>1. Selling!NodeMerged(o) = [node[o] EXCEPT !.status = "cancelled", !.pay = Selling!AfterCancel(@)]
      BY <1>4, <2>4 DEF Selling!NodeMerged
    <3> QED BY <1>4, <2>1, <2>4, <3>1
  <2>5. CASE o \notin Selling!New \cup Selling!Cancelled
    <3>1. Selling!NodeMerged(o) = node[o]
      BY <1>4, <2>5 DEF Selling!NodeMerged
    <3> QED BY <1>4, <2>1, <2>5, <3>1
  <2> QED BY <1>4, <2>2, <2>3, <2>4, <2>5
<1>6. ASSUME NEW o \in OnlineOrder PROVE node'[o] \in Selling!Row
  <2>1. node[o] \in Selling!Row /\ pull.rows[o] \in Selling!Row
    BY <1>1, StockType
  <2>2. [pull.rows[o] EXCEPT !.number = TRUE] \in Selling!Row
    BY <2>1 DEF Selling!Row
  <2>3. [node[o] EXCEPT !.status = "cancelled", !.pay = Selling!AfterCancel(@)] \in Selling!Row
    <3>1. Selling!AfterCancel(node[o].pay) \in Selling!Pay /\ "cancelled" \in Selling!Status
      BY <2>1, PayAfterCancel, RowType DEF Selling!Status
    <3> QED BY <2>1, <3>1 DEF Selling!Row
  <2> QED BY <1>5, <2>1, <2>2, <2>3
<1> QED BY <1>2, <1>3, <1>5, <1>6

LEMMA StockPullApply ==
    ASSUME StockInv, NEW saved \in BOOLEAN, Selling!PullApply(saved)
    PROVE  StockInv'
<1> DEFINE A == Selling!Arriving
           C == Selling!Cancelled
           N == Selling!New
<1>1. Selling!TypeOK /\ RowsKnown
  BY DEF StockInv
<1>2. /\ stock' = Selling!Less(stock, P(A)) + P(C)
      /\ short' = short + Selling!Less(P(A), stock)
      /\ up' = up \cup A \cup {o \in C : node[o].pay = "paid"}
      /\ pull' = Selling!NoPull
      /\ down' = IF saved THEN down ELSE down \cup pull.orders
      /\ UNCHANGED <<hub, shelf, sold, sent, push, told, missed>>
  BY DEF Selling!PullApply, Selling!Consumed, P
<1>3. /\ A = {o \in pull.orders : node[o].status = "none" /\ pull.rows[o].status = "live"}
      /\ N = {o \in pull.orders : node[o].status = "none"}
      /\ C = {o \in pull.orders : node[o].status = "live" /\ pull.rows[o].status = "cancelled"}
      /\ node' \in [OnlineOrder -> Selling!Row]
  BY PulledRows
<1>4. pull.orders \subseteq OnlineOrder /\ pull.rows \in [OnlineOrder -> Selling!Row]
  BY <1>1, StockType
<1>5. ASSUME NEW o \in OnlineOrder
      PROVE  /\ o \in A => node'[o].status = "live"
             /\ o \in N \ A => node'[o].status = "cancelled"
             /\ o \in C => node'[o].status = "cancelled"
             /\ o \notin N \cup C => node'[o] = node[o]
  <2>1. o \in A => node'[o].status = "live"
    <3>1. pull.rows[o] \in Selling!Row
      BY <1>4
    <3>2. [pull.rows[o] EXCEPT !.number = TRUE].status = pull.rows[o].status
      BY <3>1 DEF Selling!Row
    <3> QED BY <1>3, <3>2, PulledRows
  <2>2. o \in N \ A => node'[o].status = "cancelled"
    <3>1. pull.rows[o].status \in {"none", "live", "cancelled"}
      BY <1>4, RowType DEF Selling!Status
    <3>2. o \in N \ A => pull.rows[o].status = "cancelled"
      BY <1>1, <1>3, <3>1 DEF RowsKnown
    <3> QED BY <3>2, PulledRows
  <2>3. o \in C => node'[o].status = "cancelled"
    <3>1. node[o] \in Selling!Row
      BY <1>1, StockType
    <3>2. [node[o] EXCEPT !.status = "cancelled", !.pay = Selling!AfterCancel(@)].status = "cancelled"
      BY <3>1 DEF Selling!Row
    <3> QED BY <3>2, PulledRows
  <2> QED BY <2>1, <2>2, <2>3, PulledRows
<1>6. A \subseteq OnlineOrder /\ C \subseteq OnlineOrder /\ A \subseteq N /\ N \cap C = {}
  BY <1>3, <1>4
<1>7. /\ C \subseteq HubDropped /\ C \subseteq NodeLive /\ N \cap NodeLive = {} /\ N \cap NodeDropped = {}
      /\ N \cap push.seen = {}
      /\ \A o \in A : hub[o].status # "none"
  <2>1. C \subseteq HubDropped /\ C \subseteq NodeLive
    BY <1>1, <1>3, <1>6 DEF RowsKnown, HubDropped, NodeLive
  <2>2. N \cap NodeLive = {} /\ N \cap NodeDropped = {}
    BY <1>3 DEF NodeLive, NodeDropped
  <2>3. N \cap push.seen = {}
    BY <1>1, <1>3, <1>4 DEF RowsKnown
  <2>4. \A o \in A : hub[o].status # "none"
    BY <1>1, <1>3, <1>4 DEF RowsKnown
  <2> QED BY <2>1, <2>2, <2>3, <2>4
<1> HIDE DEF A, C, N
<1>8. P(A) \in Nat /\ P(C) \in Nat
  BY <1>6, PortionsUnits
<1>9. Selling!TypeOK'
  <2>1. stock' \in Nat /\ short' \in Nat
    <3>1. Selling!Less(stock, P(A)) \in Nat /\ Selling!Less(P(A), stock) \in Nat
      BY <1>1, <1>8, LessNat, StockType
    <3> QED BY <1>1, <1>2, <1>8, <3>1, StockType
  <2>2. up' \subseteq OnlineOrder /\ down' \subseteq OnlineOrder
    BY <1>1, <1>2, <1>6, StockType
  <2> QED BY <1>1, <1>2, <1>3, <2>1, <2>2, EmptyPull DEF Selling!TypeOK
<1>10. RowsKnown'
  <2>1. ASSUME NEW o \in OnlineOrder, hub[o].status = "none" PROVE node'[o].status = "none" /\ o \notin down'
    BY <1>1, <1>2, <1>3, <1>5, <2>1 DEF RowsKnown
  <2>2. ASSUME NEW o \in OnlineOrder, node[o].status = "cancelled" PROVE node'[o].status = "cancelled"
    BY <1>3, <1>5, <2>2
  <2>3. ASSUME NEW o \in OnlineOrder, node[o].status # "none" PROVE node'[o].status # "none"
    BY <1>3, <1>5, <2>3
  <2>4. \A o \in OnlineOrder : o \in A \cup C => node'[o].status # "none"
    BY <1>5
  <2> QED BY <1>1, <1>2, <2>1, <2>2, <2>3, <2>4, EmptyPull DEF RowsKnown
<1>11. HubLive' = HubLive /\ HubDropped' = HubDropped /\ push' = push
  BY <1>2 DEF HubLive, HubDropped
<1>12. /\ NodeLive' = (NodeLive \cup A) \ C
       /\ push.seen \cap NodeDropped' = push.seen \cap (NodeDropped \cup C)
  <2>1. NodeLive' = (NodeLive \cup A) \ C
    BY <1>3, <1>5, <1>6, <1>7 DEF NodeLive
  <2>2. push.seen \cap NodeDropped' = push.seen \cap (NodeDropped \cup C)
    BY <1>3, <1>5, <1>6, <1>7 DEF NodeDropped
  <2> QED BY <2>1, <2>2
<1>13. /\ NodeLive \subseteq OnlineOrder /\ Above \subseteq OnlineOrder /\ Below \subseteq OnlineOrder
       /\ GivenBack \subseteq OnlineOrder /\ Came \subseteq OnlineOrder
  BY DEF NodeLive, Above, Below, GivenBack, Came, HubLive, HubDropped, NodeDropped
<1>14. P(NodeLive') = P(NodeLive) + P(A) - P(C)
  <2>1. NodeLive \cap A = {} /\ C \subseteq NodeLive \cup A /\ NodeLive \cup A \subseteq OnlineOrder
    BY <1>6, <1>7, <1>13
  <2>2. P(NodeLive \cup A) = P(NodeLive) + P(A)
    BY <1>6, <1>13, <2>1, PortionsSplit
  <2>3. (NodeLive \cup A) \cap C = C
    BY <2>1
  <2>4. P(NodeLive \cup A) = P(C) + P((NodeLive \cup A) \ C) /\ P((NodeLive \cup A) \ C) \in Nat
    BY <2>1, <2>3, PortionsParts
  <2> QED BY <1>8, <1>12, <2>2, <2>4, StockCounts
<1>15. stock' + sold' + P(NodeLive)' = Stock + short'
  <2>1. /\ Selling!Less(stock, P(A)) \in Nat /\ Selling!Less(P(A), stock) \in Nat
        /\ Selling!Less(stock, P(A)) - Selling!Less(P(A), stock) = stock - P(A)
    BY <1>1, <1>8, LessNat, StockType
  <2> QED BY <1>1, <1>2, <1>8, <1>14, <2>1, OnlineAssumption, StockCounts, StockType
<1>16. P(A) = P(A \cap HubLive) + P(A \ HubLive) /\ P(A \cap HubLive) \in Nat /\ P(A \ HubLive) \in Nat
  BY <1>6, PortionsParts
<1>17. P(Above') = P(Above) - P(A \cap HubLive)
  <2>1. Above \cap A = A \cap HubLive
    BY <1>6, <1>7 DEF Above
  <2>2. Above' = Above \ A
    BY <1>7, <1>11, <1>12 DEF Above, HubLive, HubDropped
  <2>3. P(Above) = P(Above \cap A) + P(Above \ A) /\ P(Above \ A) \in Nat
    BY <1>13, PortionsParts
  <2>4. P(Above) = P(A \cap HubLive) + P(Above')
    BY <2>1, <2>2, <2>3
  <2>5. P(Above') \in Nat
    BY <2>2, <2>3
  <2> QED BY <1>16, <2>4, <2>5, StockCounts
<1>18. P(Below') = P(Below) + P(A \ HubLive) - P(C)
  <2>1. A \ HubLive = A \cap HubDropped
    <3>1. \A o \in A : hub[o].status \in {"none", "live", "cancelled"}
      BY <1>1, <1>6, StockType, RowType DEF Selling!Status
    <3> QED BY <1>6, <1>7, <3>1 DEF HubLive, HubDropped
  <2>2. Below' = (Below \cup (A \ HubLive)) \ C
    BY <1>11, <1>12, <2>1 DEF Below
  <2>3. Below \cap (A \ HubLive) = {} /\ A \ HubLive \subseteq OnlineOrder
    BY <1>6, <1>7 DEF Below
  <2>4. P(Below \cup (A \ HubLive)) = P(Below) + P(A \ HubLive)
    BY <1>13, <2>3, PortionsSplit
  <2>5. (Below \cup (A \ HubLive)) \cap C = C /\ Below \cup (A \ HubLive) \subseteq OnlineOrder
    BY <1>7, <1>13, <2>3 DEF Below
  <2>6. /\ P(Below \cup (A \ HubLive)) = P(C) + P((Below \cup (A \ HubLive)) \ C)
        /\ P((Below \cup (A \ HubLive)) \ C) \in Nat
    BY <2>5, PortionsParts
  <2> QED BY <1>8, <1>16, <2>2, <2>4, <2>6, StockCounts
<1>19. stock <= Selling!Less(stock, P(A)) + P(A) /\ Selling!Less(stock, P(A)) \in Nat
  BY <1>1, <1>8, LessNat, StockType
<1>20. shelf' + P(Above)' + told' <= stock' + sold' + missed' + P(Below)'
  BY <1>1, <1>2, <1>8, <1>16, <1>17, <1>18, <1>19, StockCounts, StockType
<1>21. P(C) = P(C \cap push.seen) + P(C \ push.seen) /\ P(C \cap push.seen) \in Nat /\ P(C \ push.seen) \in Nat
  BY <1>6, PortionsParts
<1>22. P(GivenBack') = P(GivenBack) + P(C \cap push.seen)
  <2>1. GivenBack' = GivenBack \cup (C \cap push.seen) /\ GivenBack \cap (C \cap push.seen) = {}
    BY <1>7, <1>11, <1>12 DEF GivenBack, NodeLive, NodeDropped
  <2>2. C \cap push.seen \subseteq OnlineOrder
    BY <1>6
  <2> QED BY <1>13, <2>1, <2>2, PortionsSplit
<1>23. P(Came') = P(Came) + P(A) - P(C \ push.seen)
  <2>1. Came' = (Came \cup A) \ (C \ push.seen)
    BY <1>6, <1>7, <1>11, <1>12 DEF Came
  <2>2. Came \cap A = {} /\ Came \cup A \subseteq OnlineOrder /\ (Came \cup A) \cap (C \ push.seen) = C \ push.seen
    BY <1>6, <1>7, <1>13 DEF Came
  <2>3. P(Came \cup A) = P(Came) + P(A)
    BY <1>6, <1>13, <2>2, PortionsSplit
  <2>4. /\ P(Came \cup A) = P(C \ push.seen) + P((Came \cup A) \ (C \ push.seen))
        /\ P((Came \cup A) \ (C \ push.seen)) \in Nat
    BY <2>2, PortionsParts
  <2> QED BY <1>8, <1>21, <2>1, <2>3, <2>4, StockCounts
<1>24. push'.step \in {"counted", "read"} =>
          push'.stock + push'.sold + P(GivenBack)' <= stock' + sold' + P(Came)'
  BY <1>1, <1>2, <1>8, <1>11, <1>19, <1>21, <1>22, <1>23, StockCounts, StockType
<1> QED BY <1>9, <1>10, <1>15, <1>20, <1>24, StockKept

-----------------------------------------------------------------------------
\* What a report does to the hub's rows.
LEMMA PushedRows ==
    ASSUME StockInv, NEW o \in OnlineOrder
    PROVE  /\ Selling!HubAfterPush[o] \in Selling!Row
           /\ Selling!HubAfterPush[o].status =
                 IF push.rows[o].status = "cancelled" /\ hub[o].status = "live"
                 THEN "cancelled" ELSE hub[o].status
           /\ Selling!HubAfterPush[o].pay =
                 IF push.rows[o].status = "cancelled" /\ hub[o].status = "live"
                 THEN Selling!AfterCancel(hub[o].pay) ELSE hub[o].pay
           /\ Selling!HubAfterPush[o].number = (hub[o].number \/ push.rows[o].number)
           /\ o \notin Selling!Carried => Selling!HubAfterPush[o] = hub[o]
           /\ o \in Selling!Carried <=> push.rows[o] # Selling!NoRow
<1>1. hub[o] \in Selling!Row /\ push.rows[o] \in Selling!Row
  BY StockType DEF StockInv
<1>2. o \in Selling!Carried <=> push.rows[o] # Selling!NoRow
  BY DEF Selling!Carried
<1>3. Selling!HubAfterPush[o] = IF o \in Selling!Carried THEN Selling!HubMerged(o) ELSE hub[o]
  BY DEF Selling!HubAfterPush
<1>4. hub[o].pay \in Selling!Pay /\ hub[o].status \in Selling!Status /\ hub[o].number \in BOOLEAN
      /\ push.rows[o].number \in BOOLEAN
  BY <1>1, RowType
<1>5. CASE o \in Selling!Carried
  <2> DEFINE cancels == push.rows[o].status = "cancelled" /\ hub[o].status = "live"
             s == IF cancels THEN "cancelled" ELSE hub[o].status
             p == IF cancels THEN Selling!AfterCancel(hub[o].pay) ELSE hub[o].pay
             n == hub[o].number \/ push.rows[o].number
  <2>1. Selling!HubAfterPush[o] = [status |-> s, pay |-> p, number |-> n]
    BY <1>3, <1>5 DEF Selling!HubMerged
  <2>2. s \in Selling!Status /\ p \in Selling!Pay /\ n \in BOOLEAN
    BY <1>4, PayAfterCancel DEF Selling!Status
  <2> HIDE DEF s, p, n, cancels
  <2>3. [status |-> s, pay |-> p, number |-> n] \in Selling!Row
    BY <2>2 DEF Selling!Row
  <2> QED BY <1>2, <1>5, <2>1, <2>3 DEF s, p, n, cancels
<1>6. CASE o \notin Selling!Carried
  <2>1. push.rows[o] = Selling!NoRow /\ Selling!HubAfterPush[o] = hub[o]
    BY <1>2, <1>3, <1>6
  <2>2. push.rows[o].status = "none" /\ ~push.rows[o].number
    BY <2>1, EmptyRows
  <2> QED BY <1>1, <1>2, <1>4, <1>6, <2>1, <2>2
<1> QED BY <1>5, <1>6

\* Orders that only the hub has as standing, or that came since, are held back, not
\* reported, given back or on their way back.
LEMMA StockPushApply ==
    ASSUME StockInv, NEW answered \in BOOLEAN, Selling!PushApply(answered)
    PROVE  StockInv'
<1> DEFINE K == {o \in OnlineOrder : push.rows[o].status = "cancelled" /\ hub[o].status = "live"}
           H == Selling!Held(hub')
           U == Selling!Unreported(hub')
           less == Selling!Less(push.stock, P(H))
           more == Selling!Less(P(H), push.stock)
<1>1. Selling!TypeOK /\ RowsKnown
  BY DEF StockInv
<1>2. /\ push.step = "read"
      /\ hub' = Selling!HubAfterPush
      /\ down' = down \cup {o \in Selling!Carried : Selling!HubMerged(o) # hub[o]}
      /\ \/ /\ shelf' = Selling!ShelfAfter(hub') /\ told' = push.sold
            /\ missed' = Selling!NotHeldBack(hub')
         \/ UNCHANGED <<shelf, told, missed>>
      /\ push' = Selling!NoPush
      /\ (sent' = push.stock /\ up' = up) \/ (sent' = sent /\ up' = up \cup push.orders)
      /\ UNCHANGED <<node, stock, sold, short, pull>>
  <2>1. hub' = Selling!HubAfterPush
    BY DEF Selling!PushApply
  <2>2. \/ /\ shelf' = Selling!ShelfAfter(Selling!HubAfterPush) /\ told' = push.sold
           /\ missed' = Selling!NotHeldBack(Selling!HubAfterPush)
        \/ UNCHANGED <<shelf, told, missed>>
    BY DEF Selling!PushApply
  <2>3. \/ /\ shelf' = Selling!ShelfAfter(hub') /\ told' = push.sold
           /\ missed' = Selling!NotHeldBack(hub')
        \/ UNCHANGED <<shelf, told, missed>>
    BY <2>1, <2>2
  <2>4. /\ push.step = "read"
        /\ down' = down \cup {o \in Selling!Carried : Selling!HubMerged(o) # hub[o]}
        /\ push' = Selling!NoPush
        /\ (sent' = push.stock /\ up' = up) \/ (sent' = sent /\ up' = up \cup push.orders)
        /\ UNCHANGED <<node, stock, sold, short, pull>>
    BY DEF Selling!PushApply
  <2> QED BY <2>1, <2>3, <2>4
<1>3. \A o \in OnlineOrder :
         /\ hub'[o] \in Selling!Row
         /\ hub'[o].status = IF o \in K THEN "cancelled" ELSE hub[o].status
         /\ hub[o].status = "none" => hub'[o].pay = hub[o].pay
  BY <1>2, PushedRows
<1>4. hub' \in [OnlineOrder -> Selling!Row]
  <2>1. hub' = [o \in OnlineOrder |-> IF o \in Selling!Carried THEN Selling!HubMerged(o) ELSE hub[o]]
    BY <1>2 DEF Selling!HubAfterPush
  <2> QED BY <1>3, <2>1
<1>5. K \subseteq HubLive /\ K \subseteq NodeDropped
  BY <1>1 DEF RowsKnown, HubLive, NodeDropped
<1> HIDE DEF K
<1>6. HubLive' = HubLive \ K /\ HubDropped' = HubDropped \cup K /\ NodeLive' = NodeLive
  BY <1>2, <1>3, <1>5 DEF HubLive, HubDropped, NodeLive
<1>7. Above' = Above \ K /\ Below' = Below
  BY <1>5, <1>6 DEF Above, Below, NodeLive, NodeDropped
<1>8. /\ H \subseteq OnlineOrder /\ U \subseteq OnlineOrder /\ U \ push.seen \subseteq OnlineOrder
      /\ H \cup U = HubLive'
  BY <1>4, RowType DEF Selling!Held, Selling!Unreported, HubLive
<1>9. P(H) \in Nat /\ P(U \ push.seen) \in Nat
  BY <1>8, PortionsUnits
<1>10. Selling!ShelfAfter(hub') = less /\ Selling!NotHeldBack(hub') = P(U \ push.seen) + more
  BY DEF Selling!ShelfAfter, Selling!NotHeldBack, P
<1> HIDE DEF H, U
<1>11. less \in Nat /\ more \in Nat /\ less - more = push.stock - P(H)
  BY <1>1, <1>9, LessNat, StockType
<1> HIDE DEF less, more
<1>12. Selling!TypeOK'
  <2>1. shelf' \in Nat /\ missed' \in Nat /\ told' \in 0..MaxSold
    BY <1>1, <1>2, <1>9, <1>10, <1>11, StockType
  <2>2. sent' \in Nat /\ up' \subseteq OnlineOrder
    BY <1>1, <1>2, StockType
  <2>3. down' \subseteq OnlineOrder
    BY <1>1, <1>2, StockType DEF Selling!Carried
  <2> QED BY <1>1, <1>2, <1>4, <2>1, <2>2, <2>3, EmptyPush DEF Selling!TypeOK
<1>13. RowsKnown'
  <2>1. ASSUME NEW o \in OnlineOrder, hub'[o].status = "none"
        PROVE  hub'[o].pay = "none" /\ node[o].status = "none" /\ o \notin down' \cup pull.orders
    <3>1. hub[o].status = "none" /\ hub'[o].pay = hub[o].pay
      BY <1>3, <2>1
    <3>2. o \notin Selling!Carried
      BY <1>1, <3>1, PushedRows DEF RowsKnown
    <3> QED BY <1>1, <1>2, <3>1, <3>2 DEF RowsKnown
  <2>2. ASSUME NEW o \in OnlineOrder, hub[o].status = "cancelled" PROVE hub'[o].status = "cancelled"
    BY <1>3, <2>2
  <2>3. up' \subseteq up \cup push.orders
    BY <1>2
  <2> QED BY <1>1, <1>2, <2>1, <2>2, <2>3, EmptyPush, EmptyRows DEF RowsKnown
<1>14. stock' + sold' + P(NodeLive)' = Stock + short'
  BY <1>2, <1>6, StockCounts
<1>15. Above \subseteq OnlineOrder /\ Came \subseteq OnlineOrder /\ GivenBack \subseteq OnlineOrder /\ Below \subseteq OnlineOrder
  BY DEF Above, Came, GivenBack, Below, HubLive, HubDropped, NodeLive, NodeDropped
<1>16. P(Above') <= P(Above) /\ P(Above') \in Nat
  <2>1. Above' \subseteq Above /\ Above' \subseteq OnlineOrder
    BY <1>7, <1>15
  <2> QED BY <1>15, <2>1, PortionsChange, PortionsUnits
<1>17. P(Above') + P(Came) <= P(GivenBack) + P(H) + P(U \ push.seen) + P(Below')
  <2>1. Above' \cap Came = {} /\ Above' \subseteq OnlineOrder
    BY <1>7, <1>15 DEF Above, Came
  <2>2. P(Above' \cup Came) = P(Above') + P(Came)
    BY <1>15, <2>1, PortionsSplit
  <2>3. Above' \cup Came \subseteq ((GivenBack \cup H) \cup (U \ push.seen)) \cup Below'
    <3>1. ASSUME NEW o \in Above', o \notin H, o \in push.seen PROVE o \in GivenBack
      <4>1. o \in OnlineOrder /\ node[o].status # "live"
        BY <1>7, <1>15, <3>1 DEF Above, NodeLive
      <4>2. node[o].status \in {"none", "live", "cancelled"}
        BY <1>1, <4>1, StockType, RowType DEF Selling!Status
      <4>3. node[o].status # "none"
        BY <1>1, <3>1, <4>1 DEF RowsKnown
      <4> QED BY <3>1, <4>1, <4>2, <4>3 DEF GivenBack, NodeDropped
    <3>2. Above' \subseteq H \cup U
      BY <1>5, <1>6, <1>7, <1>8 DEF Above
    <3>3. ASSUME NEW o \in Came PROVE o \in HubLive' \/ o \in Below'
      <4>1. o \in OnlineOrder /\ o \in NodeLive /\ hub[o].status # "none"
        BY <1>1, <1>15 DEF Came, NodeLive, RowsKnown
      <4>2. hub'[o].status \in {"live", "cancelled"}
        BY <1>3, <4>1, RowType DEF Selling!Status
      <4> QED BY <1>6, <4>1, <4>2 DEF HubLive, HubDropped, Below
    <3>4. Came \cap push.seen = {}
      BY DEF Came
    <3> QED BY <1>8, <3>1, <3>2, <3>3, <3>4
  <2>4. GivenBack \cup H \subseteq OnlineOrder /\ (GivenBack \cup H) \cup (U \ push.seen) \subseteq OnlineOrder
        /\ Below' \subseteq OnlineOrder
    BY <1>7, <1>8, <1>15
  <2>5. /\ P(GivenBack \cup H) <= P(GivenBack) + P(H)
        /\ P((GivenBack \cup H) \cup (U \ push.seen)) <= P(GivenBack \cup H) + P(U \ push.seen)
        /\ P(((GivenBack \cup H) \cup (U \ push.seen)) \cup Below')
             <= P((GivenBack \cup H) \cup (U \ push.seen)) + P(Below')
    BY <1>8, <1>15, <2>4, PortionsOfBoth
  <2>6. /\ P(GivenBack \cup H) \in Nat /\ P((GivenBack \cup H) \cup (U \ push.seen)) \in Nat
        /\ P(((GivenBack \cup H) \cup (U \ push.seen)) \cup Below') \in Nat
        /\ P(Below') \in Nat /\ P(GivenBack) \in Nat /\ P(Came) \in Nat
    BY <1>8, <1>15, <2>4, PortionsOfBoth, PortionsUnits
  <2>7. P(Above' \cup Came) <= P(((GivenBack \cup H) \cup (U \ push.seen)) \cup Below')
    <3>1. ((GivenBack \cup H) \cup (U \ push.seen)) \cup Below' \subseteq OnlineOrder
      BY <1>8, <2>4
    <3> QED BY <2>3, <3>1, PortionsChange
  <2> QED BY <1>9, <1>16, <2>2, <2>5, <2>6, <2>7
<1>18. shelf' + P(Above)' + told' <= stock' + sold' + missed' + P(Below)'
  <2>1. CASE UNCHANGED <<shelf, told, missed>>
    BY <1>1, <1>2, <1>7, <1>16, <2>1, StockCounts, StockType
  <2>2. CASE shelf' = less /\ told' = push.sold /\ missed' = P(U \ push.seen) + more
    <3>1. push.stock + push.sold + P(GivenBack) <= stock + sold + P(Came)
      BY <1>2, StockCounts
    <3>2. P(Below') = P(Below) /\ stock' = stock /\ sold' = sold
      BY <1>2, <1>7
    <3>3. /\ push.stock \in Nat /\ push.sold \in Nat /\ stock \in Nat /\ sold \in Nat
          /\ P(GivenBack) \in Nat /\ P(Came) \in Nat /\ P(Below) \in Nat
      BY <1>1, StockCounts, StockType
    <3>4. less + P(Above') + push.sold <= stock + sold + (P(U \ push.seen) + more) + P(Below')
      BY <1>9, <1>11, <1>16, <1>17, <3>1, <3>2, <3>3
    <3> QED BY <2>2, <3>2, <3>4
  <2> QED BY <1>2, <1>10, <2>1, <2>2
<1> QED BY <1>2, <1>12, <1>13, <1>14, <1>18, EmptyPush, StockKept

-----------------------------------------------------------------------------
LEMMA StockInit ==
    ASSUME Selling!Init
    PROVE  StockInv
<1>1. /\ hub = Selling!NoRows /\ node = Selling!NoRows /\ shelf = Stock /\ stock = Stock /\ sent = Stock
      /\ sold = 0 /\ short = 0 /\ told = 0 /\ down = {} /\ up = {} /\ missed = 0
      /\ push = Selling!NoPush /\ pull = Selling!NoPull
  BY DEF Selling!Init
<1>2. Selling!TypeOK
  BY <1>1, EmptyRows, EmptyPush, EmptyPull, OnlineAssumption DEF Selling!TypeOK
<1>3. RowsKnown
  BY <1>1, EmptyRows, EmptyPush, EmptyPull DEF RowsKnown
<1>4. NodeLive = {} /\ Above = {} /\ Below = {}
  BY <1>1, EmptyRows DEF NodeLive, Above, Below, HubLive, HubDropped
<1>5. stock + sold + P(NodeLive) = Stock + short
  BY <1>1, <1>4, OnlineAssumption, PortionsNone
<1>6. shelf + P(Above) + told <= stock + sold + missed + P(Below)
  BY <1>1, <1>4, OnlineAssumption, PortionsNone
<1>7. Selling!BranchStockConserved
  BY <1>5 DEF Selling!BranchStockConserved, NodeLive, P
<1>8. ShelfCovered
  BY <1>6 DEF ShelfCovered, Above, Below
<1>9. ReportCovered
  BY <1>1, EmptyPush DEF ReportCovered
<1> QED BY <1>2, <1>3, <1>7, <1>8, <1>9 DEF StockInv

LEMMA StockNext ==
    ASSUME StockInv, Selling!Next
    PROVE  StockInv'
<1>1. CASE \E o \in OnlineOrder : Selling!Place(o)
  BY <1>1, StockPlace
<1>2. CASE \E o \in OnlineOrder : Selling!Paid(o) \/ Selling!Expire(o)
  BY <1>2, StockPay
<1>3. CASE \E o \in OnlineOrder : Selling!HubCancel(o)
  BY <1>3, StockHubCancel
<1>4. CASE \E o \in OnlineOrder : Selling!NodeCancel(o)
  BY <1>4, StockNodeCancel
<1>5. CASE Selling!CounterSale
  BY <1>5, StockCounterSale
<1>6. CASE Selling!PushOpen \/ Selling!PushCount \/ Selling!PushRead \/ Selling!PushFails
  BY <1>6, StockPushOpen, StockPushCount, StockPushRead, StockPushFails
<1>7. CASE \E answered \in BOOLEAN : Selling!PushApply(answered)
  BY <1>7, StockPushApply
<1>8. CASE Selling!PullRead \/ Selling!PullFails
  BY <1>8, StockPullRead, StockPullFails
<1>9. CASE \E saved \in BOOLEAN : Selling!PullApply(saved)
  BY <1>9, StockPullApply
<1> QED BY <1>1, <1>2, <1>3, <1>4, <1>5, <1>6, <1>7, <1>8, <1>9 DEF Selling!Next

LEMMA StockStays ==
    ASSUME StockInv, UNCHANGED sellingVars
    PROVE  StockInv'
<1>1. /\ hub' = hub /\ node' = node /\ shelf' = shelf /\ stock' = stock /\ sold' = sold /\ short' = short
      /\ down' = down /\ up' = up /\ sent' = sent /\ push' = push /\ pull' = pull /\ told' = told
      /\ missed' = missed
  BY DEF sellingVars
<1>2. Selling!TypeOK' /\ RowsKnown'
  BY <1>1 DEF StockInv, Selling!TypeOK, RowsKnown
<1>3. GivenBack' = GivenBack /\ Came' = Came
  BY <1>1 DEF GivenBack, Came, NodeLive, NodeDropped
<1> QED BY <1>1, <1>2, <1>3, StockCounts, StockSame

\* What the hub has on its shelf, what is under way and what the branch has are related
\* as they should be, whatever call fails (hub._save_stock_snapshot, node._apply).
THEOREM StockHolds == Spec => []StockInv
<1>1. Init => StockInv
  BY StockInit DEF Init
<1>2. StockInv /\ [Next]_all => StockInv'
  <2> SUFFICES ASSUME StockInv, [Next]_all PROVE StockInv'
    OBVIOUS
  <2>1. CASE Selling!Next
    BY <2>1, StockNext
  <2>2. CASE UNCHANGED sellingVars
    BY <2>2, StockStays
  <2> QED BY <2>1, <2>2 DEF Next, all
<1> QED BY <1>1, <1>2, PTL DEF Spec

\* The hub sells no portion that the branch does not have: what is on the shelf and what
\* is under way is there, but for counter sales since the report and what it did not
\* hold back (hub._save_stock_snapshot, _in_flight_demands).
THEOREM NotSoldTwiceHolds == Spec => []NotSoldTwice
<1>1. StockInv => NotSoldTwice
  <2> SUFFICES ASSUME StockInv, shelf > 0
               PROVE  shelf + P(Selling!InFlight)
                        <= stock + (sold - told) + missed + P(Selling!Returning)
    BY DEF NotSoldTwice, Selling!NotSoldTwice, P
  <2>1. Selling!InFlight \subseteq Above /\ Above \subseteq OnlineOrder
    BY DEF Selling!InFlight, Above, HubLive, NodeLive
  <2>2. Selling!Returning = Below
    BY DEF Selling!Returning, Below, HubDropped, NodeLive
  <2>3. P(Selling!InFlight) <= P(Above) /\ P(Selling!InFlight) \in Nat
    <3>1. Selling!InFlight \subseteq OnlineOrder
      BY <2>1
    <3> QED BY <2>1, <3>1, PortionsChange, PortionsUnits
  <2>4. /\ shelf \in Nat /\ stock \in Nat /\ sold \in Nat /\ told \in Nat /\ missed \in Nat
        /\ P(Above) \in Nat /\ P(Below) \in Nat
        /\ shelf + P(Above) + told <= stock + sold + missed + P(Below)
    BY StockCounts, StockType DEF StockInv
  <2>5. P(Selling!Returning) = P(Below)
    BY <2>2
  <2> QED BY <2>3, <2>4, <2>5
<1> QED BY <1>1, StockHolds, PTL

-----------------------------------------------------------------------------
\* What both ends have of an order.  The payment that the branch knows is the hub's,
\* or what a cancellation makes of it; and so is the one on a page.
SameMoney(r, s) ==
    /\ Selling!AfterCancel(r.pay) = Selling!AfterCancel(s.pay)
    /\ r.status = s.status => r.pay = s.pay

Settled == {"paid", "at_once", "refund_required"}

Alike(o) ==
    /\ hub[o].status # "none" => hub[o].pay # "none"
    /\ hub[o].status = "cancelled" => hub[o].pay # "paid"
    /\ node[o].status = "cancelled" => node[o].pay # "paid"
    /\ node[o].status # "none" => hub[o].pay \in Settled /\ SameMoney(node[o], hub[o])
    /\ o \in pull.orders =>
          /\ hub[o].pay \in Settled /\ SameMoney(pull.rows[o], hub[o])
          /\ o \notin down => pull.rows[o] = hub[o]
    /\ hub[o].number \/ pull.rows[o].number \/ push.rows[o].number => node[o].number
    /\ node[o].number => node[o].status # "none"

RowsAlike == \A o \in OnlineOrder : Alike(o)

\* A cancellation or a pickup number that the hub does not know goes up.
CancelGoesUp(o) ==
    \/ o \in up
    \/ push.step \in {"open", "counted"} /\ o \in push.orders
    \/ push.step = "read" /\ push.rows[o].status = "cancelled"

NumberGoesUp(o) ==
    \/ o \in up
    \/ push.step \in {"open", "counted"} /\ o \in push.orders
    \/ push.step = "read" /\ push.rows[o].number

RowsTold ==
    /\ pull.step = "idle" => pull.orders = {}
    /\ \A o \in OnlineOrder :
          /\ push.rows[o] # Selling!NoRow => o \in push.orders
          /\ hub[o].status = "cancelled" /\ node[o].status = "live" => o \in down \cup pull.orders
          /\ hub[o].status = "live" /\ node[o].status = "cancelled" => CancelGoesUp(o)
          /\ node[o].number /\ ~hub[o].number => NumberGoesUp(o)

AgreeInv == StockInv /\ RowsAlike /\ RowsTold

\* Actions of the hub on an order; the other orders stay as they are.
LEMMA AgreeHub ==
    ASSUME AgreeInv, NEW p \in OnlineOrder,
           Selling!Place(p) \/ Selling!Paid(p) \/ Selling!Expire(p) \/ Selling!HubCancel(p)
    PROVE  RowsAlike' /\ RowsTold'
<1>1. Selling!TypeOK /\ RowsKnown /\ RowsAlike /\ RowsTold
  BY DEF AgreeInv, StockInv
<1>2. hub \in [OnlineOrder -> Selling!Row] /\ hub[p] \in Selling!Row
  BY <1>1, StockType
<1>3. /\ down' = down \cup {p}
      /\ UNCHANGED <<node, up, push, pull>>
      /\ \A o \in OnlineOrder : o # p => hub'[o] = hub[o]
  BY <1>2 DEF Selling!Place, Selling!Paid, Selling!Expire, Selling!HubCancel, Selling!nodeVars
<1>4. hub'[p].number = hub[p].number
  BY <1>2 DEF Selling!Place, Selling!Paid, Selling!Expire, Selling!HubCancel, Selling!Row
<1>5. CASE Selling!Place(p)
  <2>1. hub[p].status = "none" /\ hub'[p].status = "live"
    BY <1>2, <1>5 DEF Selling!Place, Selling!Row
  <2>6. hub'[p].pay # "none"
    BY <1>2, <1>5 DEF Selling!Place, Selling!Row
  <2>2. node[p].status = "none" /\ p \notin pull.orders
    BY <1>1, <2>1 DEF RowsKnown
  <2>3. ASSUME NEW o \in OnlineOrder, o # p
        PROVE  o \in down' <=> o \in down
    BY <1>3, <2>3
  <2>4. RowsAlike'
    BY <1>1, <1>3, <1>4, <2>1, <2>2, <2>6 DEF RowsAlike, Alike, SameMoney
  <2>5. RowsTold'
    BY <1>1, <1>3, <1>4, <2>1, <2>2 DEF RowsTold, CancelGoesUp, NumberGoesUp
  <2> QED BY <2>4, <2>5
<1>6. CASE Selling!Paid(p) \/ Selling!Expire(p)
  <2>1. hub[p].pay \in {"pending", "expired"} /\ hub'[p].status = hub[p].status
    BY <1>2, <1>6 DEF Selling!Paid, Selling!Expire, Selling!Row
  <2>2. hub'[p].status = "cancelled" => hub'[p].pay # "paid"
    BY <1>2, <1>6 DEF Selling!Paid, Selling!Expire, Selling!Row
  <2>6. hub'[p].pay # "none"
    BY <1>2, <1>6 DEF Selling!Paid, Selling!Expire, Selling!Row
  <2>3. node[p].status = "none" /\ p \notin pull.orders
    BY <1>1, <2>1 DEF RowsAlike, Alike, Settled
  <2>4. RowsAlike'
    BY <1>1, <1>3, <1>4, <2>1, <2>2, <2>3, <2>6 DEF RowsAlike, Alike, SameMoney
  <2>5. RowsTold'
    BY <1>1, <1>3, <1>4, <2>1, <2>3 DEF RowsTold, CancelGoesUp, NumberGoesUp
  <2> QED BY <2>4, <2>5
<1>7. CASE Selling!HubCancel(p)
  <2>1. /\ hub[p].status = "live" /\ hub'[p].status = "cancelled"
        /\ hub'[p].pay = Selling!AfterCancel(hub[p].pay)
    BY <1>2, <1>7 DEF Selling!HubCancel, Selling!Row
  <2>2. RowsAlike'
    <3> SUFFICES ASSUME NEW o \in OnlineOrder PROVE Alike(o)'
      BY DEF RowsAlike
    <3>1. CASE o # p
      BY <1>1, <1>3, <3>1 DEF RowsAlike, Alike
    <3>2. CASE o = p
      <4>1. p \in pull.orders /\ pull.rows[p].status = "cancelled" => hub[p].status = "cancelled"
        BY <1>1 DEF RowsKnown
      <4> QED BY <1>1, <1>3, <1>4, <2>1, <3>2, <4>1 DEF RowsAlike, Alike, SameMoney, Settled, Selling!AfterCancel
    <3> QED BY <3>1, <3>2
  <2>3. RowsTold'
    BY <1>1, <1>3, <1>4, <2>1 DEF RowsTold, CancelGoesUp, NumberGoesUp
  <2> QED BY <2>2, <2>3
<1> QED BY <1>5, <1>6, <1>7

LEMMA AgreeBranch ==
    ASSUME AgreeInv, NEW p \in OnlineOrder, Selling!NodeCancel(p)
    PROVE  RowsAlike' /\ RowsTold'
<1>1. Selling!TypeOK /\ RowsKnown /\ RowsAlike /\ RowsTold
  BY DEF AgreeInv, StockInv
<1>2. node \in [OnlineOrder -> Selling!Row] /\ node[p] \in Selling!Row
  BY <1>1, StockType
<1>3. /\ up' = up \cup {p}
      /\ UNCHANGED <<hub, down, push, pull>>
      /\ \A o \in OnlineOrder : o # p => node'[o] = node[o]
      /\ node[p].status = "live" /\ node'[p].status = "cancelled"
      /\ node'[p].pay = Selling!AfterCancel(node[p].pay) /\ node'[p].number = node[p].number
  BY <1>2 DEF Selling!NodeCancel, Selling!hubVars, Selling!Row
<1>4. RowsAlike'
  BY <1>1, <1>3 DEF RowsAlike, Alike, SameMoney, Settled, Selling!AfterCancel
<1>5. RowsTold'
  BY <1>1, <1>3 DEF RowsTold, CancelGoesUp, NumberGoesUp
<1> QED BY <1>4, <1>5

\* What a report or a page is begun with, and what is put back when it fails.
LEMMA AgreeCalls ==
    ASSUME AgreeInv,
           \/ Selling!PushOpen \/ Selling!PushCount \/ Selling!PushRead \/ Selling!PushFails
           \/ Selling!PullRead \/ Selling!PullFails
    PROVE  RowsAlike' /\ RowsTold'
<1>1. Selling!TypeOK /\ RowsKnown /\ RowsAlike /\ RowsTold
  BY DEF AgreeInv, StockInv
<1>2. push \in [step: Selling!PushStep, orders: SUBSET OnlineOrder, stock: Nat, sold: 0..MaxSold,
                seen: SUBSET OnlineOrder, rows: [OnlineOrder -> Selling!Row]]
  BY <1>1 DEF Selling!TypeOK
<1>3. CASE Selling!PushOpen
  <2>1. /\ push.step = "idle" /\ push' = [Selling!NoPush EXCEPT !.step = "open", !.orders = up] /\ up' = {}
        /\ UNCHANGED <<hub, node, down, pull>>
    BY <1>3 DEF Selling!PushOpen, Selling!hubVars
  <2>2. push'.step = "open" /\ push'.orders = up /\ push'.rows = Selling!NoRows
    BY <2>1, EmptyPush
  <2>3. RowsAlike'
    BY <1>1, <2>1, <2>2, EmptyRows DEF RowsAlike, Alike
  <2>4. RowsTold'
    BY <1>1, <2>1, <2>2, EmptyRows DEF RowsTold, CancelGoesUp, NumberGoesUp
  <2> QED BY <2>3, <2>4
<1>4. CASE Selling!PushCount
  <2>1. /\ push.step = "open"
        /\ push' = [push EXCEPT !.step = "counted", !.stock = stock, !.sold = sold,
                                !.seen = {o \in OnlineOrder : node[o].status = "live"}]
        /\ UNCHANGED <<hub, node, down, up, pull>>
    BY <1>4 DEF Selling!PushCount, Selling!hubVars, Selling!nodeVars
  <2>2. push'.step = "counted" /\ push'.orders = push.orders /\ push'.rows = push.rows
    BY <1>2, <2>1
  <2>3. RowsAlike'
    BY <1>1, <2>1, <2>2 DEF RowsAlike, Alike
  <2>4. RowsTold'
    BY <1>1, <2>1, <2>2 DEF RowsTold, CancelGoesUp, NumberGoesUp
  <2> QED BY <2>3, <2>4
<1>5. CASE Selling!PushRead
  <2> DEFINE rows == [o \in OnlineOrder |-> IF o \in push.orders \ up THEN node[o] ELSE Selling!NoRow]
  <2>1. /\ push.step = "counted" /\ push' = [push EXCEPT !.step = "read", !.rows = rows]
        /\ UNCHANGED <<hub, node, down, up, pull>>
    BY <1>5 DEF Selling!PushRead, Selling!hubVars, Selling!nodeVars
  <2>2. \A o \in OnlineOrder : rows[o] = IF o \in push.orders \ up THEN node[o] ELSE Selling!NoRow
    OBVIOUS
  <2> HIDE DEF rows
  <2>3. push'.step = "read" /\ push'.orders = push.orders /\ push'.rows = rows
    BY <1>2, <2>1
  <2>4. RowsAlike'
    BY <1>1, <2>1, <2>2, <2>3, EmptyRows DEF RowsAlike, Alike
  <2>5. RowsTold'
    BY <1>1, <2>1, <2>2, <2>3, EmptyRows DEF RowsTold, CancelGoesUp, NumberGoesUp
  <2> QED BY <2>4, <2>5
<1>6. CASE Selling!PushFails
  <2>1. /\ push' = Selling!NoPush /\ up' = up \cup push.orders
        /\ UNCHANGED <<hub, node, down, pull>>
    BY <1>6 DEF Selling!PushFails, Selling!hubVars
  <2>2. RowsAlike'
    BY <1>1, <2>1, EmptyPush, EmptyRows DEF RowsAlike, Alike
  <2>3. RowsTold'
    BY <1>1, <2>1, EmptyPush, EmptyRows DEF RowsTold, CancelGoesUp, NumberGoesUp
  <2> QED BY <2>2, <2>3
<1>7. CASE Selling!PullRead
  <2> DEFINE rows == [o \in OnlineOrder |-> IF o \in Selling!Sendable THEN hub[o] ELSE Selling!NoRow]
  <2>1. /\ pull.step = "idle"
        /\ pull' = [step |-> "read", orders |-> Selling!Sendable, rows |-> rows]
        /\ down' = down \ Selling!Sendable
        /\ UNCHANGED <<hub, node, up, push>>
    BY <1>7 DEF Selling!PullRead, Selling!nodeVars
  <2>2. \A o \in OnlineOrder : rows[o] = IF o \in Selling!Sendable THEN hub[o] ELSE Selling!NoRow
    OBVIOUS
  <2>3. \A o \in OnlineOrder : o \in Selling!Sendable => hub[o].pay \in Settled /\ hub[o].status # "none"
    <3> SUFFICES ASSUME NEW o \in OnlineOrder, o \in Selling!Sendable
                 PROVE  hub[o].pay \in Settled /\ hub[o].status # "none"
      OBVIOUS
    <3>1. o \in down /\ hub[o].pay \notin {"pending", "expired"}
      BY DEF Selling!Sendable, Selling!UNPAID
    <3>2. hub[o].status # "none"
      BY <1>1, <3>1 DEF RowsKnown
    <3>3. hub[o].pay \in Selling!Pay
      BY <1>1, StockType, RowType
    <3>4. hub[o].pay # "none"
      BY <1>1, <3>2 DEF RowsAlike, Alike
    <3> QED BY <3>1, <3>2, <3>3, <3>4 DEF Selling!Pay, Settled
  <2> HIDE DEF rows
  <2>4. pull'.orders = Selling!Sendable /\ pull'.rows = rows
    BY <2>1
  <2>5. RowsAlike'
    <3>1. ASSUME NEW o \in OnlineOrder
          PROVE  /\ o \in pull'.orders => /\ hub[o].pay \in Settled
                                          /\ pull'.rows[o] = hub[o]
                 /\ pull'.rows[o].number => node[o].number
      <4>1. CASE o \in Selling!Sendable
        BY <1>1, <2>2, <2>3, <2>4, <4>1 DEF RowsAlike, Alike
      <4>2. CASE o \notin Selling!Sendable
        BY <2>2, <2>4, <4>2, EmptyRows
      <4> QED BY <4>1, <4>2
    <3>2. ASSUME NEW o \in OnlineOrder PROVE Alike(o)'
      <4>1. Alike(o)
        BY <1>1 DEF RowsAlike
      <4> QED BY <2>1, <3>1, <4>1 DEF Alike, SameMoney
    <3> QED BY <3>2 DEF RowsAlike
  <2>6. RowsTold'
    BY <1>1, <2>1, <2>4 DEF RowsTold, CancelGoesUp, NumberGoesUp
  <2> QED BY <2>5, <2>6
<1>8. CASE Selling!PullFails
  <2>1. /\ pull' = Selling!NoPull /\ down' = down \cup pull.orders
        /\ UNCHANGED <<hub, node, up, push>>
    BY <1>8 DEF Selling!PullFails, Selling!nodeVars
  <2>2. RowsAlike'
    BY <1>1, <2>1, EmptyPull, EmptyRows DEF RowsAlike, Alike
  <2>3. RowsTold'
    BY <1>1, <2>1, EmptyPull DEF RowsTold, CancelGoesUp, NumberGoesUp
  <2> QED BY <2>2, <2>3
<1> QED BY <1>3, <1>4, <1>5, <1>6, <1>7, <1>8

\* What the branch takes over of a page is what the hub has, or the hub sends it again.
LEMMA AgreePullApply ==
    ASSUME AgreeInv, NEW saved \in BOOLEAN, Selling!PullApply(saved)
    PROVE  RowsAlike' /\ RowsTold'
<1> DEFINE A == Selling!Arriving
           C == Selling!Cancelled
           N == Selling!New
<1>1. StockInv /\ Selling!TypeOK /\ RowsKnown /\ RowsAlike /\ RowsTold
  BY DEF AgreeInv, StockInv
<1>2. /\ pull.step = "read"
      /\ up' = up \cup A \cup {o \in C : node[o].pay = "paid"}
      /\ pull' = Selling!NoPull
      /\ down' = IF saved THEN down ELSE down \cup pull.orders
      /\ UNCHANGED <<hub, push>>
  BY DEF Selling!PullApply
<1>3. /\ A = {o \in pull.orders : node[o].status = "none" /\ pull.rows[o].status = "live"}
      /\ N = {o \in pull.orders : node[o].status = "none"}
      /\ C = {o \in pull.orders : node[o].status = "live" /\ pull.rows[o].status = "cancelled"}
  BY <1>1, PulledRows
<1>4. ASSUME NEW o \in OnlineOrder
      PROVE  /\ o \in A => /\ node'[o].status = "live" /\ node'[o].pay = pull.rows[o].pay
                           /\ node'[o].number
             /\ o \in N \ A => node'[o] = pull.rows[o] /\ pull.rows[o].status = "cancelled"
             /\ o \in C => /\ node'[o].status = "cancelled" /\ node'[o].number = node[o].number
                           /\ node'[o].pay = Selling!AfterCancel(node[o].pay)
             /\ o \notin N \cup C => node'[o] = node[o]
  <2>1. pull.rows[o] \in Selling!Row /\ node[o] \in Selling!Row
    BY <1>1, StockType
  <2>2. [pull.rows[o] EXCEPT !.number = TRUE].status = pull.rows[o].status
        /\ [pull.rows[o] EXCEPT !.number = TRUE].pay = pull.rows[o].pay
        /\ [pull.rows[o] EXCEPT !.number = TRUE].number
    BY <2>1 DEF Selling!Row
  <2>3. o \in A => node'[o].status = "live" /\ node'[o].pay = pull.rows[o].pay /\ node'[o].number
    BY <1>1, <1>3, <2>2, PulledRows
  <2>4. pull.rows[o].status \in {"none", "live", "cancelled"}
    BY <2>1, RowType DEF Selling!Status
  <2>5. o \in N \ A => pull.rows[o].status = "cancelled"
    BY <1>1, <1>3, <2>4 DEF RowsKnown
  <2>6. o \in N \ A => node'[o] = pull.rows[o]
    BY <1>1, PulledRows
  <2> DEFINE new == [node[o] EXCEPT !.status = "cancelled", !.pay = Selling!AfterCancel(@)]
  <2>7. new.status = "cancelled" /\ new.number = node[o].number /\ new.pay = Selling!AfterCancel(node[o].pay)
    BY <2>1 DEF Selling!Row
  <2>8. o \in C => node'[o] = new
    BY <1>1, PulledRows
  <2>9. o \notin N \cup C => node'[o] = node[o]
    BY <1>1, PulledRows
  <2> HIDE DEF A, C, N, new
  <2> QED BY <2>3, <2>5, <2>6, <2>7, <2>8, <2>9
<1> HIDE DEF A, C, N
<1>5. pull'.orders = {} /\ pull'.step = "idle" /\ \A o \in OnlineOrder : ~pull'.rows[o].number
  BY <1>2, EmptyPull, EmptyRows
<1>6. ASSUME NEW o \in OnlineOrder PROVE Alike(o)'
  <2>1. Alike(o) /\ hub'[o] = hub[o] /\ push'.rows[o] = push.rows[o]
    BY <1>1, <1>2 DEF RowsAlike
  <2>2. /\ o \in pull.orders /\ pull.rows[o].status = "cancelled" => hub[o].status = "cancelled"
        /\ hub[o].status \in {"none", "live", "cancelled"}
        /\ pull.rows[o].status \in {"none", "live", "cancelled"}
    BY <1>1, StockType, RowType DEF RowsKnown, Selling!Status
  <2>3. CASE o \in A
    <3>1. /\ node'[o].status = "live" /\ node'[o].pay = pull.rows[o].pay /\ node'[o].number
          /\ o \in pull.orders /\ pull.rows[o].status = "live"
      BY <1>3, <1>4, <2>3
    <3>2. SameMoney(node'[o], hub[o])
      BY <2>1, <3>1 DEF Alike, SameMoney
    <3> QED BY <1>5, <2>1, <3>1, <3>2 DEF Alike
  <2>4. CASE o \in N \ A
    <3>1. /\ node'[o] = pull.rows[o] /\ pull.rows[o].status = "cancelled"
          /\ o \in pull.orders /\ node[o].status = "none" /\ hub[o].status = "cancelled"
      BY <1>3, <1>4, <2>2, <2>4
    <3>2. ~node[o].number
      BY <2>1, <3>1 DEF Alike
    <3>3. node'[o].pay # "paid" /\ SameMoney(node'[o], hub[o])
      BY <2>1, <3>1 DEF Alike, SameMoney
    <3>4. ~hub[o].number /\ ~push.rows[o].number /\ ~pull.rows[o].number
      BY <2>1, <3>2 DEF Alike
    <3> QED BY <1>5, <2>1, <3>1, <3>3, <3>4 DEF Alike
  <2>5. CASE o \in C
    <3>1. /\ node'[o].status = "cancelled" /\ node'[o].number = node[o].number
          /\ node'[o].pay = Selling!AfterCancel(node[o].pay)
          /\ node[o].status = "live" /\ hub[o].status = "cancelled"
      BY <1>3, <1>4, <2>2, <2>5
    <3>2. node'[o].pay # "paid" /\ SameMoney(node'[o], hub[o])
      BY <2>1, <3>1 DEF Alike, SameMoney, Selling!AfterCancel
    <3> QED BY <1>5, <2>1, <3>1, <3>2 DEF Alike
  <2>6. CASE o \notin N \cup C
    <3>1. node'[o] = node[o]
      BY <1>4, <2>6
    <3> QED BY <1>5, <2>1, <3>1 DEF Alike
  <2> QED BY <2>3, <2>4, <2>5, <2>6
<1>7. ASSUME NEW o \in OnlineOrder
      PROVE  /\ push'.rows[o] # Selling!NoRow => o \in push'.orders
             /\ hub'[o].status = "cancelled" /\ node'[o].status = "live" => o \in down' \cup pull'.orders
             /\ hub'[o].status = "live" /\ node'[o].status = "cancelled" => CancelGoesUp(o)'
             /\ node'[o].number /\ ~hub'[o].number => NumberGoesUp(o)'
  <2>1. Alike(o) /\ hub'[o] = hub[o] /\ push' = push
    BY <1>1, <1>2 DEF RowsAlike
  <2>2. /\ o \in pull.orders /\ pull.rows[o].status = "cancelled" => hub[o].status = "cancelled"
        /\ pull.rows[o].status \in {"none", "live", "cancelled"}
        /\ o \in pull.orders => pull.rows[o].status # "none"
    BY <1>1, StockType, RowType DEF RowsKnown, Selling!Status
  <2>3. push'.rows[o] # Selling!NoRow => o \in push'.orders
    BY <1>1, <2>1 DEF RowsTold
  <2>4. ASSUME hub[o].status = "cancelled", node'[o].status = "live" PROVE o \in down'
    <3>1. o \notin N \ A /\ o \notin C
      BY <1>4, <2>4
    <3>2. o \in A \/ node[o].status = "live"
      BY <1>4, <2>4, <3>1
    <3>3. o \in down \/ (o \in pull.orders /\ o \notin C /\ o \notin N \ A)
      BY <1>1, <1>3, <2>4, <3>1, <3>2 DEF RowsTold
    <3>4. CASE o \notin down
      <4>1. o \in pull.orders /\ pull.rows[o] = hub[o]
        BY <2>1, <3>3, <3>4 DEF Alike
      <4>2. o \in C \/ o \in N \ A
        BY <1>3, <2>4, <3>2, <4>1
      <4> QED BY <3>1, <4>2
    <3> QED BY <1>2, <3>4
  <2>5. ASSUME hub[o].status = "live", node'[o].status = "cancelled" PROVE CancelGoesUp(o)'
    <3>1. o \notin N /\ o \notin C
      BY <1>3, <1>4, <2>2, <2>5
    <3>2. node[o].status = "cancelled"
      BY <1>4, <2>5, <3>1
    <3>3. CancelGoesUp(o)
      BY <1>1, <2>5, <3>2 DEF RowsTold
    <3> QED BY <1>2, <3>3 DEF CancelGoesUp
  <2>6. ASSUME node'[o].number, ~hub[o].number PROVE NumberGoesUp(o)'
    <3>1. CASE o \in A
      BY <1>2, <3>1 DEF NumberGoesUp
    <3>2. CASE o \in N \ A
      <4>1. node'[o] = pull.rows[o] /\ pull.rows[o].number /\ node[o].status = "none"
        BY <1>3, <1>4, <2>6, <3>2
      <4> QED BY <2>1, <4>1 DEF Alike
    <3>3. CASE o \in C \/ o \notin N \cup C
      <4>1. node[o].number
        BY <1>4, <2>6, <3>3
      <4>2. NumberGoesUp(o)
        BY <1>1, <2>6, <4>1 DEF RowsTold
      <4> QED BY <1>2, <4>2 DEF NumberGoesUp
    <3> QED BY <3>1, <3>2, <3>3
  <2> QED BY <2>1, <2>3, <2>4, <2>5, <2>6
<1>8. RowsTold'
  BY <1>5, <1>7 DEF RowsTold
<1> QED BY <1>6, <1>8 DEF RowsAlike

LEMMA AgreePushApply ==
    ASSUME AgreeInv, NEW answered \in BOOLEAN, Selling!PushApply(answered)
    PROVE  RowsAlike' /\ RowsTold'
<1>1. StockInv /\ Selling!TypeOK /\ RowsKnown /\ RowsAlike /\ RowsTold
  BY DEF AgreeInv, StockInv
<1>2. /\ push.step = "read"
      /\ hub' = Selling!HubAfterPush
      /\ down' = down \cup {o \in Selling!Carried : Selling!HubMerged(o) # hub[o]}
      /\ push' = Selling!NoPush
      /\ up \subseteq up'
      /\ UNCHANGED <<node, pull>>
  BY DEF Selling!PushApply
<1>3. /\ push'.orders = {} /\ push'.rows = Selling!NoRows
      /\ \A o \in OnlineOrder : push'.rows[o] = Selling!NoRow /\ ~push'.rows[o].number
  BY <1>2, EmptyPush, EmptyRows
<1>4. ASSUME NEW o \in OnlineOrder
      PROVE  /\ Alike(o)'
             /\ hub'[o].status = "cancelled" /\ node'[o].status = "live" => o \in down' \cup pull'.orders
             /\ hub'[o].status = "live" /\ node'[o].status = "cancelled" => CancelGoesUp(o)'
             /\ node'[o].number /\ ~hub'[o].number => NumberGoesUp(o)'
  <2> DEFINE cancels == push.rows[o].status = "cancelled" /\ hub[o].status = "live"
  <2>1. /\ hub'[o].status = IF cancels THEN "cancelled" ELSE hub[o].status
        /\ hub'[o].pay = IF cancels THEN Selling!AfterCancel(hub[o].pay) ELSE hub[o].pay
        /\ hub'[o].number = (hub[o].number \/ push.rows[o].number)
    BY <1>1, <1>2, PushedRows
  <2>2. Alike(o) /\ node'[o] = node[o] /\ pull' = pull
    BY <1>1, <1>2 DEF RowsAlike
  <2>3. /\ push.rows[o].status = "cancelled" => node[o].status = "cancelled"
        /\ o \in pull.orders /\ pull.rows[o].status = "cancelled" => hub[o].status = "cancelled"
    BY <1>1 DEF RowsKnown
  <2>4. hub'[o] = hub[o] \/ o \in down'
    <3>1. CASE o \in Selling!Carried
      <4>1. hub'[o] = Selling!HubMerged(o)
        BY <1>2, <3>1 DEF Selling!HubAfterPush
      <4> QED BY <1>2, <3>1, <4>1
    <3>2. CASE o \notin Selling!Carried
      BY <1>1, <1>2, <3>2, PushedRows
    <3> QED BY <3>1, <3>2
  <2>5. down \subseteq down'
    BY <1>2
  <2>6. hub'[o].pay = hub[o].pay \/ (cancels /\ hub'[o].pay = Selling!AfterCancel(hub[o].pay))
    BY <2>1
  <2>7. Alike(o)'
    <3>1. CASE cancels
      <4>1. /\ hub'[o].status = "cancelled" /\ hub'[o].pay = Selling!AfterCancel(hub[o].pay)
            /\ hub[o].status = "live" /\ node[o].status = "cancelled"
        BY <2>1, <2>3, <3>1
      <4>2. hub[o].pay \in Settled /\ SameMoney(node[o], hub[o]) /\ node[o].pay # "paid"
        BY <2>2, <4>1 DEF Alike
      <4>3. hub'[o].pay \in Settled /\ hub'[o].pay # "paid" /\ SameMoney(node[o], hub'[o])
        BY <4>1, <4>2 DEF Settled, SameMoney, Selling!AfterCancel
      <4>4. o \in pull.orders => SameMoney(pull.rows[o], hub'[o])
        BY <2>2, <2>3, <4>1 DEF Alike, SameMoney, Selling!AfterCancel
      <4>5. o \in pull.orders /\ o \notin down' => pull.rows[o] = hub'[o]
        BY <2>2, <2>4, <2>5 DEF Alike
      <4>6. hub'[o].number \/ pull.rows[o].number => node[o].number
        BY <2>1, <2>2 DEF Alike
      <4>7. node[o].number => node[o].status # "none"
        BY <2>2 DEF Alike
      <4> HIDE DEF cancels
      <4> QED BY <1>3, <2>2, <4>1, <4>2, <4>3, <4>4, <4>5, <4>6, <4>7 DEF Alike, Settled
    <3>2. CASE ~cancels
      <4>1. hub'[o].status = hub[o].status /\ hub'[o].pay = hub[o].pay
        BY <2>1, <3>2
      <4>5. o \in pull.orders /\ o \notin down' => pull.rows[o] = hub'[o]
        BY <2>2, <2>4, <2>5 DEF Alike
      <4>6. hub'[o].number \/ pull.rows[o].number => node[o].number
        BY <2>1, <2>2 DEF Alike
      <4> HIDE DEF cancels
      <4> QED BY <1>3, <2>2, <4>1, <4>5, <4>6 DEF Alike, SameMoney
    <3> QED BY <3>1, <3>2
  <2>8. hub'[o].status = "cancelled" /\ node'[o].status = "live" => o \in down' \cup pull'.orders
    BY <1>1, <2>1, <2>2, <2>3, <2>5 DEF RowsTold
  <2>9. ASSUME hub'[o].status = "live", node'[o].status = "cancelled" PROVE CancelGoesUp(o)'
    <3>1. hub[o].status = "live" /\ node[o].status = "cancelled" /\ push.rows[o].status # "cancelled"
      BY <2>1, <2>2, <2>9
    <3>2. o \in up
      BY <1>1, <1>2, <3>1 DEF RowsTold, CancelGoesUp
    <3> QED BY <1>2, <3>2 DEF CancelGoesUp
  <2>10. ASSUME node'[o].number, ~hub'[o].number PROVE NumberGoesUp(o)'
    <3>1. node[o].number /\ ~hub[o].number /\ ~push.rows[o].number
      BY <2>1, <2>2, <2>10
    <3>2. o \in up
      BY <1>1, <1>2, <3>1 DEF RowsTold, NumberGoesUp
    <3> QED BY <1>2, <3>2 DEF NumberGoesUp
  <2> QED BY <2>7, <2>8, <2>9, <2>10
<1>5. RowsAlike'
  BY <1>4 DEF RowsAlike
<1>6. RowsTold'
  BY <1>1, <1>2, <1>3, <1>4 DEF RowsTold
<1> QED BY <1>5, <1>6

-----------------------------------------------------------------------------
LEMMA AgreeInit ==
    ASSUME Selling!Init
    PROVE  AgreeInv
<1>1. StockInv
  BY StockInit
<1>2. hub = Selling!NoRows /\ node = Selling!NoRows /\ push = Selling!NoPush /\ pull = Selling!NoPull
  BY DEF Selling!Init
<1>3. RowsAlike
  BY <1>2, EmptyRows, EmptyPush, EmptyPull DEF RowsAlike, Alike
<1>4. RowsTold
  BY <1>2, EmptyRows, EmptyPush, EmptyPull DEF RowsTold
<1> QED BY <1>1, <1>3, <1>4 DEF AgreeInv

LEMMA AgreeNext ==
    ASSUME AgreeInv, Selling!Next
    PROVE  AgreeInv'
<1>1. StockInv'
  BY StockNext DEF AgreeInv
<1>2. CASE \E o \in OnlineOrder :
              Selling!Place(o) \/ Selling!Paid(o) \/ Selling!Expire(o) \/ Selling!HubCancel(o)
  BY <1>1, <1>2, AgreeHub DEF AgreeInv
<1>3. CASE \E o \in OnlineOrder : Selling!NodeCancel(o)
  BY <1>1, <1>3, AgreeBranch DEF AgreeInv
<1>4. CASE Selling!CounterSale
  <2>1. UNCHANGED <<hub, node, down, up, push, pull>>
    BY <1>4 DEF Selling!CounterSale, Selling!hubVars
  <2>2. RowsAlike' /\ RowsTold'
    BY <2>1 DEF AgreeInv, RowsAlike, Alike, SameMoney, RowsTold, CancelGoesUp, NumberGoesUp
  <2> QED BY <1>1, <2>2 DEF AgreeInv
<1>5. CASE \/ Selling!PushOpen \/ Selling!PushCount \/ Selling!PushRead \/ Selling!PushFails
           \/ Selling!PullRead \/ Selling!PullFails
  BY <1>1, <1>5, AgreeCalls DEF AgreeInv
<1>6. CASE \E answered \in BOOLEAN : Selling!PushApply(answered)
  BY <1>1, <1>6, AgreePushApply DEF AgreeInv
<1>7. CASE \E saved \in BOOLEAN : Selling!PullApply(saved)
  BY <1>1, <1>7, AgreePullApply DEF AgreeInv
<1> QED BY <1>2, <1>3, <1>4, <1>5, <1>6, <1>7 DEF Selling!Next

LEMMA AgreeStays ==
    ASSUME AgreeInv, UNCHANGED sellingVars
    PROVE  AgreeInv'
<1>1. UNCHANGED <<hub, node, down, up, push, pull>>
  BY DEF sellingVars
<1>2. RowsAlike' /\ RowsTold'
  BY <1>1 DEF AgreeInv, RowsAlike, Alike, SameMoney, RowsTold, CancelGoesUp, NumberGoesUp
<1> QED BY <1>2, StockStays DEF AgreeInv

\* With nothing to send the branch has what the hub has (engine._merge_order,
\* flag_refund_if_paid).
LEMMA BothAgreeInQuiet ==
    ASSUME AgreeInv
    PROVE  Selling!BothAgree
<1> SUFFICES ASSUME Selling!Quiet, NEW o \in OnlineOrder, node[o].status # "none"
             PROVE  node[o] = hub[o]
  BY DEF Selling!BothAgree
<1>1. Selling!TypeOK /\ RowsKnown /\ RowsAlike /\ RowsTold
  BY DEF AgreeInv, StockInv
<1>2. /\ down \cap Selling!Sendable = {} /\ up = {} /\ push.step = "idle" /\ pull.step = "idle"
      /\ pull.orders = {}
  BY <1>1 DEF Selling!Quiet, RowsTold
<1>3. /\ hub[o].status # "none" /\ hub[o].pay \in Settled /\ SameMoney(node[o], hub[o])
      /\ hub[o].number => node[o].number
  BY <1>1 DEF RowsKnown, RowsAlike, Alike
<1>4. o \notin down
  <2>1. o \in down => o \in Selling!Sendable
    BY <1>3 DEF Selling!Sendable, Selling!UNPAID, Settled
  <2> QED BY <1>2, <2>1
<1>5. node[o] \in Selling!Row /\ hub[o] \in Selling!Row
  BY <1>1, StockType
<1>6. ~CancelGoesUp(o) /\ ~NumberGoesUp(o)
  BY <1>2 DEF CancelGoesUp, NumberGoesUp
<1>7. node[o].status = hub[o].status
  BY <1>1, <1>2, <1>3, <1>4, <1>5, <1>6, RowType DEF RowsTold, Selling!Status
<1>8. node[o].pay = hub[o].pay
  BY <1>3, <1>7 DEF SameMoney
<1>9. node[o].number = hub[o].number
  <2>1. node[o].number => hub[o].number
    BY <1>1, <1>6 DEF RowsTold
  <2>2. node[o].number \in BOOLEAN /\ hub[o].number \in BOOLEAN
    BY <1>5, RowType
  <2> QED BY <1>3, <2>1, <2>2
<1> QED BY <1>5, <1>7, <1>8, <1>9 DEF Selling!Row

\* Both ends know what they should of an order, whatever call fails (hub.pull, node.push).
THEOREM RowsHold == Spec => []AgreeInv
<1>1. Init => AgreeInv
  BY AgreeInit DEF Init
<1>2. AgreeInv /\ [Next]_all => AgreeInv'
  <2> SUFFICES ASSUME AgreeInv, [Next]_all PROVE AgreeInv'
    OBVIOUS
  <2>1. CASE Selling!Next
    BY <2>1, AgreeNext
  <2>2. CASE UNCHANGED sellingVars
    BY <2>2, AgreeStays
  <2> QED BY <2>1, <2>2 DEF Next, all
<1> QED BY <1>1, <1>2, PTL DEF Spec

-----------------------------------------------------------------------------
(***************************************************************************)
(* Transfers between sites (StockTransfer).                                *)
(*                                                                         *)
(* A transfer has a row at each site that knows of it, and copies on pages *)
(* that are pushed or pulled.  The sender's row decides what was sent, the *)
(* receiver's what arrived, and every copy says no more than they do.      *)
(* What a branch and the hub do not have alike is still to be sent.        *)
(***************************************************************************)
H(t) == transferRow[HQ][t]
Rank(r) == Sending!Rank(r.status)
Gone == {"shipped", "received"}
Revoked == {"cancelled", "rejected"}

Copies(t) ==
    ({transferRow[s][t] : s \in Sending!Site}
       \cup {pushed[n][t] : n \in Node} \cup {pulled[n][t] : n \in Node}) \ {Sending!NoRow}

\* Who has done what a row says.
By(n, r) == Sending!Actor(r, r.status) = n
EndOf(n, r) == n \in {r.from, r.to}

\* r goes before q when the two are merged.
Newer(r, q) ==
    \/ Rank(r) > Rank(q)
    \/ Rank(r) = Rank(q) /\ r.status # q.status /\ r.at > q.at

\* A row is like those of the two ends.
RowSound(r) ==
    /\ r.status # "none" /\ r.kind # "none"
    /\ r.from \in Sending!Site /\ r.to \in Sending!Site /\ r.from # r.to
    /\ r.status \notin Gone => r.shipped = 0
    /\ r.status # "received" => r.received = 0
    /\ r.kind = "transfer" => r.status \in Gone

SentAs(r, s) ==
    /\ r.status \in Gone => s.status \in Gone /\ s.shipped = r.shipped
    /\ r.status = "rejected" => s.status \in Revoked

ReceivedAs(r, d) ==
    /\ r.status = "received" => d.status = "received" /\ d.received = r.received
    /\ r.status = "cancelled" => Rank(d) >= 1

CopySound(t, r) ==
    /\ RowSound(r) /\ r.at <= revokedAt
    /\ SentAs(r, transferRow[r.from][t]) /\ ReceivedAs(r, transferRow[r.to][t])

Same(r, q) == r.kind = q.kind /\ r.from = q.from /\ r.to = q.to

CopiesSound ==
    \A t \in Transfer : \A r \in Copies(t) : CopySound(t, r) /\ \A q \in Copies(t) : Same(r, q)

\* A branch, what it pushes and pulls, and the hub.
Reaches(t, n) ==
    /\ t \in in[n] => EndOf(n, H(t))
    /\ transferRow[n][t] # Sending!NoRow => EndOf(n, transferRow[n][t])
    /\ pulled[n][t] # Sending!NoRow => EndOf(n, pulled[n][t])
    /\ transferRow[n][t] # Sending!NoRow /\ H(t) = Sending!NoRow => Sending!MayInsert(n, transferRow[n][t])
    /\ Rank(pushed[n][t]) <= Rank(transferRow[n][t])
    /\ Rank(pulled[n][t]) <= Rank(H(t))

\* What a branch has not done itself the hub knows of as well; a page that comes
\* late does not undo it.
Known(h, r, n) ==
    r # Sending!NoRow /\ ~By(n, r) => Rank(h) > Rank(r) \/ h.status = r.status

Overruled(h, r, up1, n) ==
    Rank(r) = 1 /\ Rank(up1) = 1 /\ r.status # up1.status /\ By(n, up1) => Rank(h) >= 2 \/ up1.at < h.at

Outdated(h, r, down1) ==
    Rank(h) = 1 /\ Rank(down1) = 1 /\ h.status # down1.status => ~Newer(down1, r)

NotAfter(r, q) == Rank(r) = 1 /\ Rank(q) = 1 /\ r.status = q.status => q.at <= r.at
NotLater(r, q) == Rank(r) = 1 /\ Rank(q) = 1 => q.at <= r.at
Apart(r, q) == Rank(r) = 1 /\ Rank(q) = 1 /\ r.status # q.status => r.at # q.at

InTime(h, r, up1, down1, n) ==
    /\ Known(h, r, n) /\ Overruled(h, r, up1, n) /\ Outdated(h, r, down1)
    /\ NotAfter(r, up1) /\ NotLater(h, down1) /\ Apart(h, r)

\* What is newer at one of them is to be sent, or on its page.
ToCome(t, n) ==
    /\ Newer(H(t), transferRow[n][t]) /\ EndOf(n, H(t)) => t \in in[n] \/ pulled[n][t] = H(t)
    /\ Newer(transferRow[n][t], H(t)) => t \in out[n] \/ pushed[n][t] = transferRow[n][t]

NodeSound(t, n) ==
    Reaches(t, n) /\ InTime(H(t), transferRow[n][t], pushed[n][t], pulled[n][t], n) /\ ToCome(t, n)

\* Who cancelled a request keeps it so, or has been told.
RevokedTold ==
    \A t \in revoked : \E s \in Sending!Site :
        /\ transferRow[s][t] # Sending!NoRow /\ transferRow[s][t].to = s
        /\ transferRow[s][t].status \in Revoked \/ t \in alerted[s]

TransferInv ==
    /\ Sending!TypeOK /\ Sending!GoodsConserved /\ CopiesSound
    /\ \A t \in Transfer, n \in Node : NodeSound(t, n)
    /\ RevokedTold

-----------------------------------------------------------------------------
\* The sum of a function changes as its value does.
LEMMA SumUnits ==
    ASSUME NEW S, IsFiniteSet(S), NEW f \in [S -> Nat]
    PROVE  Sending!Sum(f) = Cardinality(Units(S, f)) /\ Sending!Sum(f) \in Nat
<1>1. Sending!Cardinality(Units(S, f)) = Cardinality(Units(S, f))
  BY DEF Sending!Cardinality, Cardinality
<1>2. Sending!Sum(f) = Cardinality(Units(S, f))
  BY <1>1 DEF Sending!Sum, Units
<1>3. \A x \in S : f[x] \in Int
  OBVIOUS
<1> QED BY <1>2, <1>3, UnitsFinite

LEMMA UnitsOne ==
    ASSUME NEW a, NEW k \in Nat
    PROVE  Cardinality({a} \X (1..k)) = k
<1>1. 1 \in Int /\ k \in Int /\ k >= 0
  OBVIOUS
<1>2. IsFiniteSet(1..k) /\ Cardinality(1..k) = k
  <2>1. IsFiniteSet(1..k)
    BY <1>1, FS_Interval
  <2>2. Cardinality(1..k) = IF 1 > k THEN 0 ELSE k - 1 + 1
    BY <1>1, FS_Interval
  <2> QED BY <1>1, <2>1, <2>2
<1>3. IsFiniteSet({a}) /\ Cardinality({a}) = 1
  BY FS_Singleton
<1>4. Cardinality({a} \X (1..k)) = 1 * k
  BY <1>2, <1>3, FS_Product
<1> QED BY <1>1, <1>4

LEMMA SumSplit ==
    ASSUME NEW S, IsFiniteSet(S), NEW f \in [S -> Nat], NEW a \in S
    PROVE  /\ Sending!Sum(f) = Cardinality(Units(S \ {a}, f)) + f[a]
           /\ Cardinality(Units(S \ {a}, f)) \in Nat
<1>1. Units(S, f) = Units(S \ {a}, f) \cup Units({a}, f)
  BY DEF Units
<1>2. Units(S \ {a}, f) \cap Units({a}, f) = {}
  BY UnitsOf
<1>3. IsFiniteSet(S \ {a}) /\ IsFiniteSet({a}) /\ Cardinality({a}) = 1
  BY FS_RemoveElement, FS_Singleton
<1>4. IsFiniteSet(Units(S \ {a}, f)) /\ IsFiniteSet(Units({a}, f))
      /\ Cardinality(Units(S \ {a}, f)) \in Nat /\ Cardinality(Units({a}, f)) \in Nat
  <2>1. (\A x \in S \ {a} : f[x] \in Int) /\ (\A x \in {a} : f[x] \in Int)
    OBVIOUS
  <2> QED BY <1>3, <2>1, UnitsFinite
<1>5. Cardinality(Units(S \ {a}, f) \cup Units({a}, f))
        = Cardinality(Units(S \ {a}, f)) + Cardinality(Units({a}, f))
            - Cardinality(Units(S \ {a}, f) \cap Units({a}, f))
  BY <1>4, FS_Union
<1>6. Cardinality(Units(S \ {a}, f) \cap Units({a}, f)) = 0
  BY <1>2, FS_EmptySet
<1>7. Cardinality(Units({a}, f)) = f[a]
  <2>1. Units({a}, f) = {a} \X (1..f[a])
    BY DEF Units
  <2>2. f[a] \in Nat
    OBVIOUS
  <2> QED BY <2>1, <2>2, UnitsOne
<1>8. Sending!Sum(f) = Cardinality(Units(S, f))
  BY SumUnits
<1> DEFINE s == Cardinality(Units(S \ {a}, f))
           u == Cardinality(Units({a}, f))
<1>9. Sending!Sum(f) = s + u - 0 /\ s \in Nat /\ u \in Nat /\ u = f[a]
  BY <1>1, <1>4, <1>5, <1>6, <1>7, <1>8
<1>10. Sending!Sum(f) = s + f[a]
  <2> HIDE DEF s, u
  <2> QED BY <1>9
<1> QED BY <1>9, <1>10

LEMMA SumChange ==
    ASSUME NEW S, IsFiniteSet(S), NEW f \in [S -> Nat], NEW g \in [S -> Nat], NEW a \in S,
           \A x \in S \ {a} : g[x] = f[x]
    PROVE  Sending!Sum(g) + f[a] = Sending!Sum(f) + g[a]
<1>1. Units(S \ {a}, g) = Units(S \ {a}, f)
  BY DEF Units
<1>2. /\ Sending!Sum(f) = Cardinality(Units(S \ {a}, f)) + f[a]
      /\ Cardinality(Units(S \ {a}, f)) \in Nat
      /\ Sending!Sum(g) = Cardinality(Units(S \ {a}, f)) + g[a]
  BY <1>1, SumSplit
<1>3. f[a] \in Nat /\ g[a] \in Nat
  OBVIOUS
<1> QED BY <1>2, <1>3

LEMMA SumAlike ==
    ASSUME NEW S, IsFiniteSet(S), NEW c \in Nat
    PROVE  Sending!Sum([x \in S |-> c]) = c * Cardinality(S)
<1> DEFINE f == [x \in S |-> c]
<1>1. Sending!Sum(f) = Cardinality(Units(S, f))
  <2>1. f \in [S -> Nat]
    OBVIOUS
  <2> HIDE DEF f
  <2> QED BY <2>1, SumUnits
<1>2. Units(S, f) = S \X (1..c)
  BY DEF Units
<1>3. 1 \in Int /\ c \in Int /\ c >= 0
  OBVIOUS
<1>4. IsFiniteSet(1..c) /\ Cardinality(1..c) = c
  <2>1. IsFiniteSet(1..c)
    BY <1>3, FS_Interval
  <2>2. Cardinality(1..c) = IF 1 > c THEN 0 ELSE c - 1 + 1
    BY <1>3, FS_Interval
  <2> QED BY <1>3, <2>1, <2>2
<1>5. Cardinality(S \X (1..c)) = Cardinality(S) * c
  BY <1>4, FS_Product
<1>6. Cardinality(S) \in Nat
  BY FS_CardinalityType
<1> QED BY <1>1, <1>2, <1>3, <1>5, <1>6

-----------------------------------------------------------------------------
\* The sites, and the row that is not there.
LEMMA NoTransfer ==
    /\ HQ \in Sending!Site /\ NoSite \notin Sending!Site /\ Node \subseteq Sending!Site
    /\ \A s \in Sending!Site : s # HQ => s \in Node
    /\ Sending!NoRow \in Sending!Row /\ Sending!NoRow.status = "none" /\ Sending!NoRow.kind = "none"
    /\ Sending!NoRow.from = NoSite /\ Sending!NoRow.to = NoSite
    /\ Sending!NoRow.shipped = 0 /\ Sending!NoRow.received = 0 /\ Sending!NoRow.at = 0
    /\ Rank(Sending!NoRow) = -1
  BY TransferAssumption DEF Sending!Site, Sending!NoRow, Sending!Row, Sending!Status, Rank, Sending!Rank

LEMMA TransferFields ==
    ASSUME NEW r \in Sending!Row
    PROVE  /\ r.status \in {"none", "requested", "cancelled", "rejected", "shipped", "received"}
           /\ r.kind \in {"none", "request", "transfer"}
           /\ r.from \in Sending!Site \cup {NoSite} /\ r.to \in Sending!Site \cup {NoSite}
           /\ r.shipped \in Nat /\ r.received \in Nat /\ r.at \in Nat
  BY DEF Sending!Row, Sending!Status

\* TRANSFER_RANK.
LEMMA TransferRank ==
    ASSUME NEW r \in Sending!Row
    PROVE  /\ Rank(r) \in {-1, 0, 1, 2, 3}
           /\ Rank(r) = -1 <=> r.status = "none"
           /\ Rank(r) = 0 <=> r.status = "requested"
           /\ Rank(r) = 1 <=> r.status \in Revoked
           /\ Rank(r) = 2 <=> r.status = "shipped"
           /\ Rank(r) = 3 <=> r.status = "received"
           /\ Rank(r) >= 2 <=> r.status \in Gone
  BY TransferFields DEF Rank, Sending!Rank, Revoked, Gone

LEMMA TransferTypes ==
    ASSUME Sending!TypeOK
    PROVE  /\ \A t \in Transfer, s \in Sending!Site : transferRow[s][t] \in Sending!Row
           /\ \A t \in Transfer, n \in Node :
                 pushed[n][t] \in Sending!Row /\ pulled[n][t] \in Sending!Row
           /\ \A t \in Transfer : H(t) \in Sending!Row
           /\ \A t \in Transfer : \A r \in Copies(t) : r \in Sending!Row /\ r # Sending!NoRow
           /\ revokedAt \in Nat
<1>1. \A t \in Transfer, s \in Sending!Site : transferRow[s][t] \in Sending!Row
  BY DEF Sending!TypeOK
<1>2. \A t \in Transfer, n \in Node : pushed[n][t] \in Sending!Row /\ pulled[n][t] \in Sending!Row
  BY DEF Sending!TypeOK
<1>3. revokedAt \in Nat
  BY DEF Sending!TypeOK
<1> QED BY <1>1, <1>2, <1>3, NoTransfer DEF H, Copies

\* Row by row.
LEMMA RowEqual ==
    ASSUME NEW r \in Sending!Row, NEW q \in Sending!Row,
           r.status = q.status, r.kind = q.kind, r.from = q.from, r.to = q.to,
           r.shipped = q.shipped, r.received = q.received, r.at = q.at
    PROVE  r = q
  BY DEF Sending!Row

LEMMA NewerForward ==
    ASSUME NEW r, NEW q
    PROVE  Sending!Forward(q, r) <=> Newer(r, q)
  BY DEF Sending!Forward, Newer, Rank

-----------------------------------------------------------------------------
\* What the ends have only gets more.
SentKept(r, q) ==
    /\ r.status \in Gone => q.status \in Gone /\ q.shipped = r.shipped
    /\ r.status \in Revoked => q.status \in Revoked
ReceivedKept(r, q) ==
    /\ r.status = "received" => q.status = "received" /\ q.received = r.received
    /\ Rank(r) >= 1 => Rank(q) >= 1

LEMMA CopyKept ==
    ASSUME NEW t, NEW r, CopySound(t, r), r.at \in Nat, revokedAt \in Nat, revokedAt' \in Nat,
           revokedAt <= revokedAt',
           SentKept(transferRow[r.from][t], transferRow'[r.from][t]),
           ReceivedKept(transferRow[r.to][t], transferRow'[r.to][t])
    PROVE  CopySound(t, r)'
<1>1. SentAs(r, transferRow'[r.from][t])
  BY DEF CopySound, SentAs, SentKept, Revoked
<1>2. ReceivedAs(r, transferRow'[r.to][t])
  BY DEF CopySound, ReceivedAs, ReceivedKept
<1>3. r.at <= revokedAt'
  BY DEF CopySound
<1> QED BY <1>1, <1>2, <1>3 DEF CopySound, SentAs, ReceivedAs, RowSound, Rank

CopiesOf(t) == \A r \in Copies(t) : CopySound(t, r) /\ \A q \in Copies(t) : Same(r, q)

LEMMA CopiesStep ==
    ASSUME Sending!TypeOK, NEW t \in Transfer, CopiesOf(t), NEW b,
           Copies(t)' \subseteq Copies(t) \cup {b},
           revokedAt' \in Nat, revokedAt <= revokedAt',
           \A r \in Copies(t) :
              /\ SentKept(transferRow[r.from][t], transferRow'[r.from][t])
              /\ ReceivedKept(transferRow[r.to][t], transferRow'[r.to][t]),
           b \in Copies(t)' => CopySound(t, b)' /\ \A q \in Copies(t) : Same(b, q)
    PROVE  CopiesOf(t)'
<1>1. ASSUME NEW r \in Copies(t)' PROVE CopySound(t, r)'
  <2>1. CASE r \in Copies(t)
    <3>1. r \in Sending!Row /\ revokedAt \in Nat /\ CopySound(t, r)
      BY <2>1, TransferTypes DEF CopiesOf
    <3>2. r.at \in Nat
      BY <3>1, TransferFields
    <3> QED BY <2>1, <3>1, <3>2, CopyKept
  <2> QED BY <1>1, <2>1
<1>2. ASSUME NEW r \in Copies(t)', NEW q \in Copies(t)' PROVE Same(r, q)'
  BY <1>2 DEF CopiesOf, Same
<1> QED BY <1>1, <1>2 DEF CopiesOf

-----------------------------------------------------------------------------
\* A site changes its own row of a transfer (create_request, create_transfer, ship,
\* reject, cancel, receive).
Acts(s, t, b) ==
    LET a == transferRow[s][t]
    IN  /\ b \in Sending!Row /\ RowSound(b) /\ By(s, b)
        /\ Rank(b) > Rank(a)
        /\ a # Sending!NoRow => Same(b, a)
        /\ a = Sending!NoRow => Sending!New(t)
        /\ \/ a.status \in {"none", "requested"} /\ b.status # "received"
           \/ a.status = "shipped" /\ b.status = "received" /\ b.shipped = a.shipped
        /\ s \in Node /\ H(t) = Sending!NoRow => Sending!MayInsert(s, b)
        /\ revokedAt' \in Nat /\ b.at <= revokedAt' /\ revokedAt <= revokedAt'
        /\ Rank(b) = 1 => revokedAt < b.at
        /\ Sending!Write(s, t, b)

\* What it leaves as it is.
Steady(t, n) ==
    /\ H(t)' = H(t)
    /\ transferRow'[n][t] = transferRow[n][t]
    /\ pushed'[n][t] = pushed[n][t] /\ pulled'[n][t] = pulled[n][t]
    /\ t \in in'[n] <=> t \in in[n]
    /\ t \in out[n] => t \in out'[n]

LEMMA SteadySound ==
    ASSUME NEW t, NEW n, NodeSound(t, n), Steady(t, n)
    PROVE  NodeSound(t, n)'
<1>1. Reaches(t, n)'
  BY DEF NodeSound, Steady, Reaches, EndOf, Rank, Sending!MayInsert
<1>2. InTime(H(t), transferRow[n][t], pushed[n][t], pulled[n][t], n)'
  BY DEF NodeSound, Steady
<1>3. ToCome(t, n)'
  BY DEF NodeSound, Steady, ToCome, Newer, EndOf, Rank
<1> QED BY <1>1, <1>2, <1>3 DEF NodeSound

\* What the action writes.
LEMMA ActsWrites ==
    ASSUME Sending!TypeOK, NEW s \in Sending!Site, NEW t \in Transfer, NEW b, Acts(s, t, b)
    PROVE  /\ transferRow'[s][t] = b
           /\ \A x \in Sending!Site, u \in Transfer :
                 x # s \/ u # t => transferRow'[x][u] = transferRow[x][u]
           /\ UNCHANGED <<pushed, pulled, alerted>>
           /\ s = HQ => /\ \A n \in Node, u \in Transfer :
                              u \in in'[n] <=> u \in in[n] \/ (u = t /\ EndOf(n, b))
                        /\ out' = out
           /\ s # HQ => /\ in' = in /\ t \in out'[s]
                        /\ \A n \in Node : out[n] \subseteq out'[n]
<1>1. transferRow' = [transferRow EXCEPT ![s][t] = b] /\ Sending!Mark(s, t, b)
      /\ UNCHANGED <<pushed, pulled, alerted>>
  BY DEF Acts, Sending!Write
<1>2. transferRow \in [Sending!Site -> [Transfer -> Sending!Row]]
      /\ in \in [Node -> SUBSET Transfer] /\ out \in [Node -> SUBSET Transfer]
  BY DEF Sending!TypeOK
<1>3. /\ transferRow'[s][t] = b
      /\ \A x \in Sending!Site, u \in Transfer : x # s \/ u # t => transferRow'[x][u] = transferRow[x][u]
  BY <1>1, <1>2
<1>4. CASE s = HQ
  <2>1. in' = [n \in Node |-> IF n \in {b.from, b.to} THEN in[n] \cup {t} ELSE in[n]] /\ out' = out
    BY <1>1, <1>4 DEF Sending!Mark
  <2>2. \A n \in Node, u \in Transfer : u \in in'[n] <=> u \in in[n] \/ (u = t /\ EndOf(n, b))
    BY <2>1 DEF EndOf
  <2> QED BY <1>1, <1>3, <1>4, <2>1, <2>2
<1>5. CASE s # HQ
  <2>1. out' = [out EXCEPT ![s] = @ \cup {t}] /\ in' = in /\ s \in Node
    BY <1>1, <1>5, NoTransfer DEF Sending!Mark
  <2>2. t \in out'[s] /\ \A n \in Node : out[n] \subseteq out'[n]
    BY <1>2, <2>1
  <2> QED BY <1>1, <1>3, <1>5, <2>1, <2>2
<1> QED BY <1>4, <1>5

LEMMA NoCopies ==
    ASSUME Sending!TypeOK, NEW t \in Transfer, CopiesOf(t), Sending!New(t),
           \A n \in Node : NodeSound(t, n)
    PROVE  Copies(t) = {}
<1> SUFFICES ASSUME NEW r \in Copies(t) PROVE FALSE
  OBVIOUS
<1>1. r \in Sending!Row /\ r # Sending!NoRow /\ r.status # "none"
  BY TransferTypes DEF CopiesOf, CopySound, RowSound
<1>2. Rank(r) # -1
  BY <1>1, TransferRank
<1>3. \A s \in Sending!Site : transferRow[s][t] = Sending!NoRow
  BY DEF Sending!New
<1>4. PICK n \in Node : r = pushed[n][t] \/ r = pulled[n][t]
  BY <1>1, <1>3 DEF Copies
<1>5. Rank(r) <= -1
  BY <1>3, <1>4, NoTransfer DEF NodeSound, Reaches, H
<1>6. Rank(r) \in {-1, 0, 1, 2, 3}
  BY <1>1, TransferRank
<1> QED BY <1>2, <1>5, <1>6

\* The copies of the transfer after it.
LEMMA ActsCopies ==
    ASSUME Sending!TypeOK, NEW s \in Sending!Site, NEW t \in Transfer, NEW b, Acts(s, t, b),
           CopiesOf(t), \A n \in Node : NodeSound(t, n)
    PROVE  CopiesOf(t)'
<1> DEFINE a == transferRow[s][t]
<1>1. a \in Sending!Row /\ b \in Sending!Row /\ revokedAt \in Nat
  BY TransferTypes DEF Acts
<1>2. Copies(t)' \subseteq Copies(t) \cup {b}
  BY ActsWrites DEF Copies
<1>3. a = Sending!NoRow \/ a \in Copies(t)
  BY DEF Copies
<1>4. b.from \in Sending!Site /\ b.to \in Sending!Site /\ b.from # b.to /\ b.status # "none"
  BY DEF Acts, RowSound
<1>5. a = Sending!NoRow => Copies(t) = {}
  BY NoCopies DEF Acts
<1>6. ASSUME NEW q \in Copies(t) PROVE Same(b, q)
  BY <1>3, <1>5, <1>6 DEF Acts, Same, CopiesOf
<1>7. \A x \in Sending!Site : x # s => transferRow'[x][t] = transferRow[x][t]
  BY ActsWrites
<1>8. transferRow'[s][t] = b
  BY ActsWrites
<1>9. ASSUME NEW r \in Copies(t)
      PROVE  /\ SentKept(transferRow[r.from][t], transferRow'[r.from][t])
             /\ ReceivedKept(transferRow[r.to][t], transferRow'[r.to][t])
  <2>1. r.from = b.from /\ r.to = b.to
    BY <1>6, <1>9 DEF Same
  <2>2. CASE s = b.from
    <3>1. b.status # "received"
      BY <1>4, <2>2 DEF Acts, By, Sending!Actor
    <3>2. SentKept(a, b)
      BY <3>1 DEF Acts, SentKept, Gone, Revoked
    <3> QED BY <1>4, <1>7, <1>8, <2>1, <2>2, <3>2 DEF ReceivedKept
  <2>3. CASE s = b.to
    <3>1. a.status # "received"
      BY DEF Acts
    <3>2. Rank(a) >= 1 => Rank(b) >= 1
      BY <1>1, TransferRank DEF Acts
    <3> QED BY <1>4, <1>7, <1>8, <2>1, <2>3, <3>1, <3>2 DEF ReceivedKept, SentKept
  <2>4. CASE s # b.from /\ s # b.to
    BY <1>4, <1>7, <2>1, <2>4 DEF ReceivedKept, SentKept
  <2> QED BY <2>2, <2>3, <2>4
<1>10. CopySound(t, b)'
  <2>1. SentAs(b, transferRow'[b.from][t])
    <3>1. CASE s = b.from
      BY <1>8, <3>1 DEF SentAs, Revoked
    <3>2. CASE s # b.from
      <4>1. b.status \notin {"shipped", "rejected"}
        BY <3>2 DEF Acts, By, Sending!Actor
      <4>2. CASE b.status = "received"
        <5>1. a.status = "shipped" /\ b.shipped = a.shipped
          BY <4>2 DEF Acts
        <5>2. a # Sending!NoRow
          BY <5>1, NoTransfer
        <5>3. a \in Copies(t) /\ a.from = b.from
          BY <1>3, <5>2 DEF Acts, Same
        <5>4. SentAs(a, transferRow[a.from][t])
          BY <5>3 DEF CopiesOf, CopySound
        <5>5. transferRow'[b.from][t] = transferRow[a.from][t]
          BY <1>4, <1>7, <3>2, <5>3
        <5> QED BY <4>2, <5>1, <5>4, <5>5 DEF SentAs, Gone
      <4> QED BY <4>1, <4>2 DEF SentAs, Gone
    <3> QED BY <3>1, <3>2
  <2>2. ReceivedAs(b, transferRow'[b.to][t])
    <3>1. b.status \in {"received", "cancelled"} => s = b.to
      BY DEF Acts, By, Sending!Actor
    <3>2. b.status = "cancelled" => Rank(b) >= 1
      BY <1>1, TransferRank DEF Revoked
    <3> QED BY <1>8, <3>1, <3>2 DEF ReceivedAs
  <2> QED BY <2>1, <2>2 DEF CopySound, Acts, RowSound, SentAs, ReceivedAs, Rank
<1>11. revokedAt' \in Nat /\ revokedAt <= revokedAt'
  BY DEF Acts
<1> HIDE DEF a
<1> QED BY <1>2, <1>6, <1>9, <1>10, <1>11, CopiesStep

\* What travels of the transfer after it, when a branch has acted ...
LEMMA BranchActs ==
    ASSUME Sending!TypeOK, NEW s \in Node, NEW t \in Transfer, NEW b, Acts(s, t, b),
           CopiesOf(t), NodeSound(t, s)
    PROVE  NodeSound(t, s)'
<1> DEFINE a == transferRow[s][t]
           h == H(t)
           up1 == pushed[s][t]
           down1 == pulled[s][t]
<1>1. /\ a \in Sending!Row /\ b \in Sending!Row /\ h \in Sending!Row
      /\ up1 \in Sending!Row /\ down1 \in Sending!Row /\ revokedAt \in Nat
  <2>1. s \in Sending!Site
    BY NoTransfer
  <2>2. b \in Sending!Row
    BY DEF Acts
  <2> QED BY <2>1, <2>2, TransferTypes
<1>2. s # HQ /\ s \in Sending!Site
  BY TransferAssumption, NoTransfer
<1>3. /\ transferRow'[s][t] = b /\ H(t)' = h /\ pushed'[s][t] = up1 /\ pulled'[s][t] = down1
      /\ in' = in /\ t \in out'[s]
  BY <1>2, ActsWrites, NoTransfer DEF H
<1>4. /\ Rank(a) \in -1..3 /\ Rank(b) \in -1..3 /\ Rank(h) \in -1..3
      /\ Rank(up1) \in -1..3 /\ Rank(down1) \in -1..3 /\ Rank(b) > Rank(a)
      /\ Rank(b) = 1 => revokedAt < b.at
  BY <1>1, TransferRank DEF Acts
<1>5. /\ h # Sending!NoRow => h.at <= revokedAt
      /\ down1 # Sending!NoRow => down1.at <= revokedAt
  <2>1. /\ h # Sending!NoRow => h \in Copies(t)
        /\ down1 # Sending!NoRow => down1 \in Copies(t)
    BY NoTransfer DEF Copies, H
  <2> HIDE DEF h, down1
  <2> QED BY <2>1 DEF CopiesOf, CopySound
<1>6. /\ h \in Sending!Row /\ h.at \in Nat /\ down1.at \in Nat /\ b.at \in Nat
      /\ h.at <= revokedAt /\ down1.at <= revokedAt
  <2>1. h.at \in Nat /\ down1.at \in Nat /\ b.at \in Nat
    BY <1>1, TransferFields
  <2> QED BY <1>1, <1>5, <2>1, NoTransfer
<1>7. Reaches(t, s)'
  <2>1. Reaches(t, s) /\ Acts(s, t, b)
    BY DEF NodeSound
  <2>2. EndOf(s, b)
    BY <2>1 DEF Acts, By, Sending!Actor, EndOf
  <2>3. b # Sending!NoRow /\ h = Sending!NoRow => Sending!MayInsert(s, b)
    BY <2>1 DEF Acts
  <2>4. Rank(up1) <= Rank(b)
    BY <1>4, <2>1 DEF Reaches
  <2> QED BY <1>3, <2>1, <2>2, <2>3, <2>4 DEF Reaches, EndOf, H, Rank, Sending!MayInsert
<1>8. InTime(h, b, up1, down1, s)
  <2>1. InTime(h, a, up1, down1, s) /\ Rank(up1) <= Rank(a)
    BY DEF NodeSound, Reaches
  <2>2. Known(h, b, s)
    BY DEF Known, Acts
  <2>3. Overruled(h, b, up1, s) /\ NotAfter(b, up1)
    BY <1>4, <2>1 DEF Overruled, NotAfter
  <2>4. Outdated(h, b, down1)
    BY <1>4, <1>6, <2>1 DEF InTime, Outdated, Newer
  <2>5. Apart(h, b)
    BY <1>4, <1>6, <1>1 DEF Apart
  <2> QED BY <2>1, <2>2, <2>3, <2>4, <2>5 DEF InTime
<1>9. ToCome(t, s)'
  <2>1. ToCome(t, s)
    BY DEF NodeSound
  <2>2. Newer(h, b) => Newer(h, a)
    BY <1>4 DEF Newer
  <2> QED BY <1>3, <2>1, <2>2 DEF ToCome, Newer, EndOf, H, Rank
<1>10. InTime(H(t), transferRow[s][t], pushed[s][t], pulled[s][t], s)'
  BY <1>3, <1>8
<1> QED BY <1>7, <1>9, <1>10 DEF NodeSound

\* ... and when the hub has.
LEMMA HubActs ==
    ASSUME Sending!TypeOK, NEW t \in Transfer, NEW b, Acts(HQ, t, b),
           CopiesOf(t), NEW n \in Node, NodeSound(t, n)
    PROVE  NodeSound(t, n)'
<1> DEFINE h == H(t)
           r == transferRow[n][t]
           up1 == pushed[n][t]
           down1 == pulled[n][t]
<1>1. /\ r \in Sending!Row /\ b \in Sending!Row /\ h \in Sending!Row
      /\ up1 \in Sending!Row /\ down1 \in Sending!Row /\ revokedAt \in Nat
  <2>1. n \in Sending!Site
    BY NoTransfer
  <2>2. b \in Sending!Row
    BY DEF Acts
  <2> QED BY <2>1, <2>2, TransferTypes
<1>2. n # HQ /\ n \in Sending!Site /\ HQ \in Sending!Site
  BY TransferAssumption, NoTransfer
<1>3. /\ transferRow'[n][t] = r /\ H(t)' = b /\ pushed'[n][t] = up1 /\ pulled'[n][t] = down1
      /\ out' = out /\ (t \in in'[n] <=> t \in in[n] \/ EndOf(n, b))
  BY <1>2, ActsWrites DEF H
<1>4. /\ Rank(r) \in -1..3 /\ Rank(b) \in -1..3 /\ Rank(h) \in -1..3
      /\ Rank(up1) \in -1..3 /\ Rank(down1) \in -1..3 /\ Rank(b) > Rank(h)
      /\ Rank(b) = 1 => revokedAt < b.at
  BY <1>1, TransferRank DEF Acts, H
<1>5. r # Sending!NoRow => r.at <= revokedAt
  <2>1. r # Sending!NoRow => r \in Copies(t)
    BY <1>2 DEF Copies
  <2> HIDE DEF r
  <2> QED BY <2>1 DEF CopiesOf, CopySound
<1>6. r.at \in Nat /\ b.at \in Nat /\ r.at <= revokedAt
  <2>1. r.at \in Nat /\ b.at \in Nat
    BY <1>1, TransferFields
  <2> QED BY <1>1, <1>5, <2>1, NoTransfer
<1>7. Reaches(t, n)'
  <2>1. Reaches(t, n)
    BY DEF NodeSound
  <2>2. EndOf(n, h) => EndOf(n, b)
    <3>1. h # Sending!NoRow => Same(b, h)
      BY DEF Acts, H
    <3>2. ~EndOf(n, Sending!NoRow)
      BY <1>2, NoTransfer DEF EndOf
    <3> QED BY <3>1, <3>2 DEF EndOf, Same
  <2>3. b # Sending!NoRow
    BY <1>4, NoTransfer
  <2>4. Rank(down1) <= Rank(b)
    BY <1>4, <2>1 DEF Reaches
  <2>5. (t \in in[n] => EndOf(n, h)) /\ (r # Sending!NoRow => EndOf(n, r))
        /\ (down1 # Sending!NoRow => EndOf(n, down1)) /\ Rank(up1) <= Rank(r)
    BY <2>1 DEF Reaches
  <2> HIDE DEF h, r, up1, down1
  <2>6. /\ t \in in'[n] => EndOf(n, H(t)')
        /\ transferRow'[n][t] # Sending!NoRow => EndOf(n, transferRow'[n][t])
        /\ pulled'[n][t] # Sending!NoRow => EndOf(n, pulled'[n][t])
        /\ H(t)' # Sending!NoRow
        /\ Rank(pushed'[n][t]) <= Rank(transferRow'[n][t])
        /\ Rank(pulled'[n][t]) <= Rank(H(t)')
    BY <1>3, <2>2, <2>3, <2>4, <2>5
  <2> QED BY <2>6 DEF Reaches, EndOf, H, Rank
<1>8. InTime(b, r, up1, down1, n)
  <2>1. InTime(h, r, up1, down1, n) /\ Rank(down1) <= Rank(h)
    BY DEF NodeSound, Reaches
  <2>2. Known(b, r, n)
    <3>1. Known(h, r, n)
      BY <2>1 DEF InTime
    <3>2. h.status = r.status => Rank(h) = Rank(r)
      BY DEF Rank
    <3> HIDE DEF h, r, up1, down1
    <3> QED BY <1>4, <3>1, <3>2 DEF Known
  <2>3. Overruled(b, r, up1, n)
    <3>1. Known(h, r, n)
      BY <2>1 DEF InTime
    <3>2. h.status = r.status => Rank(h) = Rank(r)
      BY DEF Rank
    <3>3. ASSUME Rank(r) = 1, Rank(up1) = 1, r.status # up1.status, By(n, up1) PROVE Rank(b) >= 2
      <4>1. By(n, r) => FALSE
        <5>1. r # Sending!NoRow /\ up1 # Sending!NoRow
          BY <3>3, NoTransfer
        <5>2. r \in Copies(t) /\ up1 \in Copies(t)
          BY <1>2, <5>1 DEF Copies
        <5>3. Same(r, up1) /\ RowSound(r)
          BY <5>2 DEF CopiesOf, CopySound
        <5>4. r.status \in Revoked /\ up1.status \in Revoked
          BY <1>1, <3>3, TransferRank
        <5> HIDE DEF r, up1
        <5> QED BY <3>3, <5>3, <5>4 DEF By, Sending!Actor, Revoked, Same, RowSound
      <4>2. r # Sending!NoRow
        BY <3>3, NoTransfer
      <4>3. Rank(h) >= 1
        <5> HIDE DEF h, r, up1, down1
        <5> QED BY <1>4, <3>1, <3>2, <3>3, <4>1, <4>2 DEF Known
      <4> HIDE DEF h
      <4> QED BY <1>4, <4>3
    <3> QED BY <3>3 DEF Overruled
  <2>4. Outdated(b, r, down1) /\ NotLater(b, down1)
    BY <1>4, <2>1 DEF Outdated, NotLater
  <2>5. Apart(b, r)
    BY <1>1, <1>4, <1>6 DEF Apart
  <2> QED BY <2>1, <2>2, <2>3, <2>4, <2>5 DEF InTime
<1>9. ToCome(t, n)'
  <2>1. ToCome(t, n)
    BY DEF NodeSound
  <2>2. Newer(r, b) => Newer(r, h)
    BY <1>4 DEF Newer
  <2> QED BY <1>3, <2>1, <2>2 DEF ToCome, Newer, EndOf, H, Rank
<1>10. InTime(H(t), transferRow[n][t], pushed[n][t], pulled[n][t], n)'
  BY <1>3, <1>8
<1> QED BY <1>7, <1>9, <1>10 DEF NodeSound

\* A transfer whose rows and pages stay.
LEMMA CopiesSteady ==
    ASSUME Sending!TypeOK, NEW t \in Transfer, CopiesOf(t),
           \A s \in Sending!Site : transferRow'[s][t] = transferRow[s][t],
           Copies(t)' \subseteq Copies(t), revokedAt' \in Nat, revokedAt <= revokedAt'
    PROVE  CopiesOf(t)'
<1>1. ASSUME NEW r \in Copies(t)
      PROVE  /\ SentKept(transferRow[r.from][t], transferRow'[r.from][t])
             /\ ReceivedKept(transferRow[r.to][t], transferRow'[r.to][t])
  <2>1. r.from \in Sending!Site /\ r.to \in Sending!Site
    BY <1>1 DEF CopiesOf, CopySound, RowSound
  <2> QED BY <2>1 DEF SentKept, ReceivedKept
<1>2. Sending!NoRow \notin Copies(t)'
  BY DEF Copies, Sending!NoRow
<1>3. Copies(t)' \subseteq Copies(t) \cup {Sending!NoRow}
  OBVIOUS
<1> QED BY <1>1, <1>2, <1>3, CopiesStep

\* What a site has sent or counted in by a row.
SentOf(s, r) == IF r.from = s /\ r.status \in Gone THEN r.shipped ELSE 0
ArrivedOf(s, r) == IF r.to = s /\ r.status = "received" THEN r.received ELSE 0
SentIn(rows) == [x \in Sending!Site \X Transfer |-> SentOf(x[1], rows[x[1]][x[2]])]
ArrivedIn(rows) == [x \in Sending!Site \X Transfer |-> ArrivedOf(x[1], rows[x[1]][x[2]])]

LEMMA SentRows ==
    /\ Sending!Sent = SentIn(transferRow) /\ Sending!Arrived = ArrivedIn(transferRow)
    /\ Sending!Sent' = SentIn(transferRow') /\ Sending!Arrived' = ArrivedIn(transferRow')
  BY DEF Sending!Sent, Sending!Arrived, SentIn, ArrivedIn, SentOf, ArrivedOf, Gone

LEMMA SentTypes ==
    ASSUME NEW rows \in [Sending!Site -> [Transfer -> Sending!Row]]
    PROVE  /\ SentIn(rows) \in [Sending!Site \X Transfer -> Nat]
           /\ ArrivedIn(rows) \in [Sending!Site \X Transfer -> Nat]
<1>1. ASSUME NEW x \in Sending!Site \X Transfer
      PROVE  SentOf(x[1], rows[x[1]][x[2]]) \in Nat /\ ArrivedOf(x[1], rows[x[1]][x[2]]) \in Nat
  <2>1. rows[x[1]][x[2]] \in Sending!Row
    OBVIOUS
  <2> QED BY <2>1, TransferFields DEF SentOf, ArrivedOf
<1> QED BY <1>1 DEF SentIn, ArrivedIn

LEMMA SiteFinite == IsFiniteSet(Sending!Site) /\ IsFiniteSet(Sending!Site \X Transfer)
<1>1. IsFiniteSet(Sending!Site)
  BY TransferAssumption, FS_AddElement DEF Sending!Site
<1> QED BY <1>1, TransferAssumption, FS_Product

LEMMA GoodsSum ==
    ASSUME NEW s \in Sending!Site, NEW f \in [Sending!Site -> Nat], NEW g \in [Sending!Site -> Nat],
           \A x \in Sending!Site \ {s} : g[x] = f[x]
    PROVE  Sending!Sum(g) + f[s] = Sending!Sum(f) + g[s]
  BY SiteFinite, SumChange

LEMMA GoodsMoved ==
    ASSUME Sending!TypeOK, Sending!GoodsConserved, NEW s \in Sending!Site, NEW t \in Transfer, NEW b,
           transferRow' \in [Sending!Site -> [Transfer -> Sending!Row]],
           transferRow' = [transferRow EXCEPT ![s][t] = b],
           goods' \in [Sending!Site -> Nat], \A x \in Sending!Site \ {s} : goods'[x] = goods[x],
           goods'[s] + SentOf(s, b) + ArrivedOf(s, transferRow[s][t])
             = goods[s] + SentOf(s, transferRow[s][t]) + ArrivedOf(s, b)
    PROVE  Sending!GoodsConserved'
<1> DEFINE a == transferRow[s][t]
           S1 == SentIn(transferRow)
           S2 == SentIn(transferRow')
           A1 == ArrivedIn(transferRow)
           A2 == ArrivedIn(transferRow')
           P1 == Sending!Site \X Transfer
           p == <<s, t>>
<1>1. transferRow \in [Sending!Site -> [Transfer -> Sending!Row]] /\ goods \in [Sending!Site -> Nat]
  BY DEF Sending!TypeOK
<1>2. /\ S1 \in [P1 -> Nat] /\ S2 \in [P1 -> Nat] /\ A1 \in [P1 -> Nat] /\ A2 \in [P1 -> Nat]
      /\ IsFiniteSet(P1) /\ IsFiniteSet(Sending!Site) /\ p \in P1
  BY <1>1, SentTypes, SiteFinite
<1>3. transferRow'[s][t] = b
      /\ \A x \in Sending!Site, u \in Transfer : x # s \/ u # t => transferRow'[x][u] = transferRow[x][u]
  BY <1>1
<1>4. \A y \in P1 \ {p} : S2[y] = S1[y] /\ A2[y] = A1[y]
  <2> SUFFICES ASSUME NEW y \in P1, y # p
               PROVE  S2[y] = S1[y] /\ A2[y] = A1[y]
    OBVIOUS
  <2>1. y[1] \in Sending!Site /\ y[2] \in Transfer /\ (y[1] # s \/ y[2] # t)
    OBVIOUS
  <2>2. transferRow'[y[1]][y[2]] = transferRow[y[1]][y[2]]
    BY <1>3, <2>1
  <2> QED BY <2>2 DEF SentIn, ArrivedIn
<1>5. /\ S1[p] = SentOf(s, a) /\ S2[p] = SentOf(s, b)
      /\ A1[p] = ArrivedOf(s, a) /\ A2[p] = ArrivedOf(s, b)
  BY <1>3 DEF SentIn, ArrivedIn
<1>6. /\ Sending!Sum(S2) + S1[p] = Sending!Sum(S1) + S2[p]
      /\ Sending!Sum(A2) + A1[p] = Sending!Sum(A1) + A2[p]
  <2> HIDE DEF S1, S2, A1, A2, P1, a, p
  <2> QED BY <1>2, <1>4, SumChange
<1>7. Sending!Sum(goods') + goods[s] = Sending!Sum(goods) + goods'[s]
  <2> DEFINE k == goods
             l == goods'
  <2>1. k \in [Sending!Site -> Nat] /\ l \in [Sending!Site -> Nat]
        /\ \A x \in Sending!Site \ {s} : l[x] = k[x]
    BY <1>1
  <2>2. Sending!Sum(l) + k[s] = Sending!Sum(k) + l[s]
    <3> HIDE DEF k, l
    <3> QED BY <2>1, GoodsSum
  <2> QED BY <2>2
<1>8. /\ Sending!Sum(S1) \in Nat /\ Sending!Sum(S2) \in Nat /\ Sending!Sum(A1) \in Nat
      /\ Sending!Sum(A2) \in Nat /\ Sending!Sum(goods) \in Nat /\ Sending!Sum(goods') \in Nat
  <2> HIDE DEF S1, S2, A1, A2, P1
  <2> QED BY <1>1, <1>2, SumUnits
<1>9. /\ S1[p] \in Nat /\ S2[p] \in Nat /\ A1[p] \in Nat /\ A2[p] \in Nat
      /\ goods[s] \in Nat /\ goods'[s] \in Nat
  <2> HIDE DEF S1, S2, A1, A2, P1, p
  <2> QED BY <1>1, <1>2
<1> DEFINE base == Goods * Sending!Cardinality(Sending!Site)
<1>10. Sending!Sum(goods) + Sending!Sum(S1) = base + Sending!Sum(A1)
  BY SentRows DEF Sending!GoodsConserved
<1>11. base \in Int
  <2>1. Sending!Cardinality(Sending!Site) = Cardinality(Sending!Site)
    BY DEF Sending!Cardinality, Cardinality
  <2>2. Cardinality(Sending!Site) \in Nat /\ Goods \in Nat
    BY <1>2, FS_CardinalityType, TransferAssumption
  <2> QED BY <2>1, <2>2
<1>12. Sending!Sum(goods') + Sending!Sum(S2) = base + Sending!Sum(A2)
  <2> DEFINE g1 == Sending!Sum(goods)
             g2 == Sending!Sum(goods')
             s1 == Sending!Sum(S1)
             s2 == Sending!Sum(S2)
             r1 == Sending!Sum(A1)
             r2 == Sending!Sum(A2)
             sa == S1[p]
             sb == S2[p]
             ra == A1[p]
             rb == A2[p]
             k1 == goods[s]
             k2 == goods'[s]
  <2>1. /\ g1 \in Nat /\ g2 \in Nat /\ s1 \in Nat /\ s2 \in Nat /\ r1 \in Nat /\ r2 \in Nat
        /\ sa \in Nat /\ sb \in Nat /\ ra \in Nat /\ rb \in Nat /\ k1 \in Nat /\ k2 \in Nat
        /\ base \in Int
    BY <1>8, <1>9, <1>11
  <2>2. k2 + sb + ra = k1 + sa + rb
    BY <1>5
  <2>3. s2 + sa = s1 + sb /\ r2 + ra = r1 + rb /\ g2 + k1 = g1 + k2 /\ g1 + s1 = base + r1
    BY <1>6, <1>7, <1>10
  <2> HIDE DEF g1, g2, s1, s2, r1, r2, sa, sb, ra, rb, k1, k2, base
  <2>4. g2 + s2 = base + r2
    BY <2>1, <2>2, <2>3
  <2> QED BY <2>4 DEF g2, s2, r2
<1> QED BY <1>12, SentRows DEF Sending!GoodsConserved, Sending!Cardinality, Sending!Site

\* The invariant after a site has acted.
NodesOf(t) == \A n \in Node : NodeSound(t, n)

LEMMA TransferParts ==
    TransferInv <=> /\ Sending!TypeOK /\ Sending!GoodsConserved
                    /\ \A t \in Transfer : CopiesOf(t) /\ NodesOf(t)
                    /\ RevokedTold
  BY DEF TransferInv, CopiesSound, CopiesOf, NodesOf

LEMMA ActsType ==
    ASSUME Sending!TypeOK, NEW s \in Sending!Site, NEW t \in Transfer, NEW b, Acts(s, t, b),
           goods' \in [Sending!Site -> Nat], revoked' \subseteq Transfer
    PROVE  Sending!TypeOK'
<1>1. /\ transferRow' = [transferRow EXCEPT ![s][t] = b] /\ Sending!Mark(s, t, b)
      /\ UNCHANGED <<pushed, pulled, alerted>> /\ b \in Sending!Row /\ revokedAt' \in Nat
  BY DEF Acts, Sending!Write
<1>2. transferRow' \in [Sending!Site -> [Transfer -> Sending!Row]]
  BY <1>1 DEF Sending!TypeOK
<1>3. in' \in [Node -> SUBSET Transfer] /\ out' \in [Node -> SUBSET Transfer]
  <2>1. in \in [Node -> SUBSET Transfer] /\ out \in [Node -> SUBSET Transfer]
    BY DEF Sending!TypeOK
  <2>2. CASE s = HQ
    <3>1. /\ in' = [n \in Node |-> IF n \in {b.from, b.to} THEN in[n] \cup {t} ELSE in[n]]
          /\ out' = out
      BY <1>1, <2>2 DEF Sending!Mark
    <3> QED BY <2>1, <3>1
  <2>3. CASE s # HQ
    <3>1. out' = [out EXCEPT ![s] = @ \cup {t}] /\ in' = in
      BY <1>1, <2>3 DEF Sending!Mark
    <3> QED BY <2>1, <3>1
  <2> QED BY <2>2, <2>3
<1>4. goods \in [Sending!Site -> Nat]
  BY DEF Sending!TypeOK
<1> QED BY <1>1, <1>2, <1>3 DEF Sending!TypeOK, Sending!Site, Sending!Row, Sending!Status

LEMMA ActsSound ==
    ASSUME Sending!TypeOK, NEW s \in Sending!Site, NEW t \in Transfer, NEW b, Acts(s, t, b),
           NEW u \in Transfer, CopiesOf(u), NodesOf(u)
    PROVE  CopiesOf(u)' /\ NodesOf(u)'
<1>1. CopiesOf(u)'
  <2>1. CASE u = t
    BY <2>1, ActsCopies DEF NodesOf
  <2>2. CASE u # t
    <3>1. \A x \in Sending!Site : transferRow'[x][u] = transferRow[x][u]
      BY <2>2, ActsWrites
    <3>2. Copies(u)' \subseteq Copies(u)
      BY <3>1, ActsWrites DEF Copies
    <3>3. revokedAt' \in Nat /\ revokedAt <= revokedAt'
      BY DEF Acts
    <3> QED BY <3>1, <3>2, <3>3, CopiesSteady
  <2> QED BY <2>1, <2>2
<1>2. ASSUME NEW n \in Node PROVE NodeSound(u, n)'
  <2>1. NodeSound(u, n) /\ n # HQ /\ n \in Sending!Site /\ HQ \in Sending!Site
    BY NoTransfer, TransferAssumption DEF NodesOf
  <2>2. CASE u = t /\ s = HQ
    BY <2>1, <2>2, HubActs
  <2>3. CASE u = t /\ s = n
    BY <2>1, <2>3, BranchActs
  <2>4. CASE u # t \/ (s # HQ /\ s # n)
    <3>1. transferRow'[n][u] = transferRow[n][u] /\ H(u)' = H(u)
          /\ pushed' = pushed /\ pulled' = pulled
      BY <2>1, <2>4, ActsWrites DEF H
    <3>2. (u \in in'[n] <=> u \in in[n]) /\ (u \in out[n] => u \in out'[n])
      BY <2>1, <2>4, ActsWrites
    <3> QED BY <2>1, <3>1, <3>2, SteadySound DEF Steady
  <2> QED BY <2>2, <2>3, <2>4
<1> QED BY <1>1, <1>2 DEF NodesOf

LEMMA ActsTold ==
    ASSUME Sending!TypeOK, RevokedTold, NEW s \in Sending!Site, NEW t \in Transfer, NEW b, Acts(s, t, b),
           revoked' = revoked \/ (revoked' = revoked \cup {t} /\ b.to = s /\ b.status \in Revoked)
    PROVE  RevokedTold'
<1> SUFFICES ASSUME NEW u \in revoked'
             PROVE  \E x \in Sending!Site :
                        /\ transferRow'[x][u] # Sending!NoRow /\ transferRow'[x][u].to = x
                        /\ transferRow'[x][u].status \in Revoked \/ u \in alerted'[x]
  BY DEF RevokedTold, Sending!Site, Sending!NoRow, Revoked
<1>1. b # Sending!NoRow /\ transferRow'[s][t] = b /\ alerted' = alerted
  BY ActsWrites, NoTransfer DEF Acts, RowSound
<1>2. CASE u \notin revoked
  <2>1. u = t /\ b.to = s /\ b.status \in Revoked
    BY <1>2
  <2> QED BY <1>1, <2>1
<1>3. CASE u \in revoked
  <2>1. PICK x \in Sending!Site :
            /\ transferRow[x][u] # Sending!NoRow /\ transferRow[x][u].to = x
            /\ transferRow[x][u].status \in Revoked \/ u \in alerted[x]
    BY <1>3 DEF RevokedTold
  <2>2. u \in Transfer
    BY <1>3 DEF Sending!TypeOK
  <2>3. CASE x # s \/ u # t
    <3>1. transferRow'[x][u] = transferRow[x][u]
      BY <2>2, <2>3, ActsWrites
    <3> QED BY <1>1, <2>1, <3>1
  <2>4. CASE x = s /\ u = t
    <3>1. b.to = s /\ transferRow[s][t].status \notin Revoked
      BY <2>1, <2>4 DEF Acts, Same, Revoked
    <3> QED BY <1>1, <2>1, <2>4, <3>1
  <2> QED BY <2>3, <2>4
<1> QED BY <1>2, <1>3

LEMMA ActsInv ==
    ASSUME TransferInv, NEW s \in Sending!Site, NEW t \in Transfer, NEW b, Acts(s, t, b),
           goods' \in [Sending!Site -> Nat], \A x \in Sending!Site \ {s} : goods'[x] = goods[x],
           goods'[s] + SentOf(s, b) + ArrivedOf(s, transferRow[s][t])
             = goods[s] + SentOf(s, transferRow[s][t]) + ArrivedOf(s, b),
           revoked' = revoked \/ (revoked' = revoked \cup {t} /\ b.to = s /\ b.status \in Revoked)
    PROVE  TransferInv'
<1>1. /\ Sending!TypeOK /\ Sending!GoodsConserved /\ RevokedTold
      /\ \A u \in Transfer : CopiesOf(u) /\ NodesOf(u)
  BY TransferParts
<1>2. Sending!TypeOK'
  <2>1. revoked' \subseteq Transfer
    BY <1>1 DEF Sending!TypeOK
  <2> QED BY <1>1, <2>1, ActsType
<1>3. Sending!GoodsConserved'
  <2>1. transferRow' = [transferRow EXCEPT ![s][t] = b]
    BY DEF Acts, Sending!Write
  <2>2. transferRow' \in [Sending!Site -> [Transfer -> Sending!Row]]
    BY <1>1, <2>1 DEF Sending!TypeOK, Acts
  <2> QED BY <1>1, <2>1, <2>2, GoodsMoved
<1>4. \A u \in Transfer : CopiesOf(u)' /\ NodesOf(u)'
  BY <1>1, ActsSound
<1>5. RevokedTold'
  BY <1>1, ActsTold
<1> QED BY <1>2, <1>3, <1>4, <1>5 DEF TransferInv, CopiesSound, CopiesOf, NodesOf

-----------------------------------------------------------------------------
\* The row a site acts on.
LEMMA OwnRow ==
    ASSUME TransferInv, NEW s \in Sending!Site, NEW t \in Transfer, transferRow[s][t].status # "none"
    PROVE  LET a == transferRow[s][t]
           IN  /\ a \in Sending!Row /\ a # Sending!NoRow /\ RowSound(a) /\ a.at \in Nat /\ a.at <= revokedAt
               /\ s \in Node /\ H(t) = Sending!NoRow => Sending!MayInsert(s, a)
<1> DEFINE a == transferRow[s][t]
<1>1. Sending!TypeOK /\ CopiesOf(t) /\ NodesOf(t)
  BY TransferParts
<1>2. a \in Sending!Row /\ a # Sending!NoRow /\ a.at \in Nat
  BY <1>1, TransferTypes, TransferFields, NoTransfer
<1>3. a \in Copies(t)
  BY <1>2 DEF Copies
<1>4. RowSound(a) /\ a.at <= revokedAt
  BY <1>1, <1>3 DEF CopiesOf, CopySound
<1>5. s \in Node /\ H(t) = Sending!NoRow => Sending!MayInsert(s, a)
  BY <1>1, <1>2 DEF NodesOf, NodeSound, Reaches
<1> QED BY <1>2, <1>4, <1>5

\* A site that knows nothing of the transfer begins it.
LEMMA SendCreateRequest ==
    ASSUME TransferInv, NEW s \in Sending!Site, NEW p \in Sending!Site, NEW t \in Transfer,
           Sending!CreateRequest(s, p, t)
    PROVE  TransferInv'
<1> DEFINE b == [Sending!NoRow EXCEPT !.status = "requested", !.kind = "request", !.from = p, !.to = s]
<1>1. /\ b.status = "requested" /\ b.kind = "request" /\ b.from = p /\ b.to = s
      /\ b.shipped = 0 /\ b.received = 0 /\ b.at = 0 /\ b \in Sending!Row
  BY DEF Sending!NoRow, Sending!Row, Sending!Status
<1>2. Sending!New(t) /\ p # s /\ Sending!Write(s, t, b) /\ UNCHANGED <<goods, revokedAt, revoked>>
  BY DEF Sending!CreateRequest
<1>3. Sending!TypeOK /\ revokedAt \in Nat /\ goods \in [Sending!Site -> Nat]
  BY TransferParts DEF Sending!TypeOK
<1>4. transferRow[s][t] = Sending!NoRow
  BY <1>2 DEF Sending!New
<1> HIDE DEF b
<1>5. Rank(b) = 0
  BY <1>1, TransferRank
<1>6. Acts(s, t, b)
  BY <1>1, <1>2, <1>3, <1>4, <1>5, NoTransfer
     DEF Acts, RowSound, Gone, By, Sending!Actor, Sending!MayInsert
<1>7. /\ SentOf(s, b) = 0 /\ ArrivedOf(s, b) = 0
      /\ SentOf(s, transferRow[s][t]) = 0 /\ ArrivedOf(s, transferRow[s][t]) = 0
  BY <1>1, <1>4, NoTransfer DEF SentOf, ArrivedOf, Gone
<1> QED BY <1>2, <1>3, <1>6, <1>7, ActsInv

LEMMA SendCreateTransfer ==
    ASSUME TransferInv, NEW s \in Sending!Site, NEW p \in Sending!Site, NEW t \in Transfer,
           NEW q \in 1..(Goods + 1), Sending!CreateTransfer(s, p, t, q)
    PROVE  TransferInv'
<1> DEFINE b == [Sending!NoRow EXCEPT !.status = "shipped", !.kind = "transfer", !.from = s,
                                      !.to = p, !.shipped = q]
<1>1. q \in Nat
  BY TransferAssumption
<1>2. /\ b.status = "shipped" /\ b.kind = "transfer" /\ b.from = s /\ b.to = p
      /\ b.shipped = q /\ b.received = 0 /\ b.at = 0 /\ b \in Sending!Row
  BY <1>1 DEF Sending!NoRow, Sending!Row, Sending!Status
<1>3. /\ Sending!New(t) /\ p # s /\ Sending!Write(s, t, b) /\ UNCHANGED <<revokedAt, revoked>>
      /\ goods[s] >= q /\ goods' = [goods EXCEPT ![s] = @ - q]
  BY DEF Sending!CreateTransfer, Sending!Deduct
<1>4. Sending!TypeOK /\ revokedAt \in Nat /\ goods \in [Sending!Site -> Nat]
  BY TransferParts DEF Sending!TypeOK
<1>5. transferRow[s][t] = Sending!NoRow
  BY <1>3 DEF Sending!New
<1> HIDE DEF b
<1>6. Rank(b) = 2
  BY <1>2, TransferRank
<1>7. Acts(s, t, b)
  BY <1>2, <1>3, <1>4, <1>5, <1>6, NoTransfer
     DEF Acts, RowSound, Gone, By, Sending!Actor, Sending!MayInsert
<1>8. /\ SentOf(s, b) = q /\ ArrivedOf(s, b) = 0
      /\ SentOf(s, transferRow[s][t]) = 0 /\ ArrivedOf(s, transferRow[s][t]) = 0
  BY <1>2, <1>5, NoTransfer DEF SentOf, ArrivedOf, Gone
<1>9. goods' \in [Sending!Site -> Nat] /\ goods'[s] = goods[s] - q
      /\ \A x \in Sending!Site \ {s} : goods'[x] = goods[x]
  BY <1>1, <1>3, <1>4
<1>10. goods'[s] + SentOf(s, b) + ArrivedOf(s, transferRow[s][t])
         = goods[s] + SentOf(s, transferRow[s][t]) + ArrivedOf(s, b)
  <2>1. goods[s] \in Nat
    BY <1>4
  <2> QED BY <1>1, <1>8, <1>9, <2>1
<1> QED BY <1>3, <1>7, <1>9, <1>10, ActsInv

\* The sender ships or rejects what was requested.
LEMMA SendShip ==
    ASSUME TransferInv, NEW s \in Sending!Site, NEW t \in Transfer, NEW q \in 1..(Goods + 1),
           Sending!Ship(s, t, q)
    PROVE  TransferInv'
<1> DEFINE a == transferRow[s][t]
           b == [a EXCEPT !.status = "shipped", !.shipped = q]
<1>1. q \in Nat
  BY TransferAssumption
<1>2. /\ a.from = s /\ a.status = "requested" /\ Sending!Write(s, t, b)
      /\ UNCHANGED <<revokedAt, revoked>> /\ goods[s] >= q /\ goods' = [goods EXCEPT ![s] = @ - q]
  BY DEF Sending!Ship, Sending!Deduct, Sending!Claimable
<1>3. Sending!TypeOK /\ revokedAt \in Nat /\ goods \in [Sending!Site -> Nat]
  BY TransferParts DEF Sending!TypeOK
<1>4. /\ a \in Sending!Row /\ a # Sending!NoRow /\ RowSound(a) /\ a.at \in Nat /\ a.at <= revokedAt
      /\ s \in Node /\ H(t) = Sending!NoRow => Sending!MayInsert(s, a)
  BY <1>2, OwnRow
<1>5. /\ b.status = "shipped" /\ b.kind = a.kind /\ b.from = a.from /\ b.to = a.to
      /\ b.shipped = q /\ b.received = a.received /\ b.at = a.at /\ b \in Sending!Row
  BY <1>1, <1>4 DEF Sending!Row, Sending!Status
<1> HIDE DEF a, b
<1>6. Rank(a) = 0 /\ Rank(b) = 2
  BY <1>2, <1>4, <1>5, TransferRank
<1>7. ~Sending!MayInsert(s, a)
  BY <1>2, <1>4 DEF Sending!MayInsert, RowSound, Gone
<1>8. Acts(s, t, b)
  BY <1>2, <1>3, <1>4, <1>5, <1>6, <1>7 DEF Acts, RowSound, Gone, By, Sending!Actor, Same, a
<1>9. SentOf(s, b) = q /\ ArrivedOf(s, b) = 0 /\ SentOf(s, a) = 0 /\ ArrivedOf(s, a) = 0
  BY <1>2, <1>5 DEF SentOf, ArrivedOf, Gone
<1>10. goods' \in [Sending!Site -> Nat] /\ goods'[s] = goods[s] - q
       /\ \A x \in Sending!Site \ {s} : goods'[x] = goods[x]
  BY <1>1, <1>2, <1>3
<1>11. goods'[s] + SentOf(s, b) + ArrivedOf(s, a) = goods[s] + SentOf(s, a) + ArrivedOf(s, b)
  <2>1. goods[s] \in Nat
    BY <1>3
  <2> QED BY <1>1, <1>9, <1>10, <2>1
<1> QED BY <1>2, <1>8, <1>10, <1>11, ActsInv DEF a

LEMMA RevokedRow ==
    ASSUME NEW a \in Sending!Row, NEW status \in Revoked, NEW k \in Nat
    PROVE  LET b == [a EXCEPT !.status = status, !.at = k]
           IN  /\ b.status = status /\ b.kind = a.kind /\ b.from = a.from /\ b.to = a.to
               /\ b.shipped = a.shipped /\ b.received = a.received /\ b.at = k /\ b \in Sending!Row
  BY DEF Sending!Row, Sending!Status, Revoked

LEMMA SendReject ==
    ASSUME TransferInv, NEW s \in Sending!Site, NEW t \in Transfer, Sending!Reject(s, t)
    PROVE  TransferInv'
<1> DEFINE a == transferRow[s][t]
           b == [a EXCEPT !.status = "rejected", !.at = revokedAt + 1]
<1>1. /\ a.from = s /\ a.status = "requested" /\ Sending!Write(s, t, b)
      /\ UNCHANGED <<goods, revoked>> /\ revokedAt' = revokedAt + 1
  BY DEF Sending!Reject, Sending!Claimable
<1>2. Sending!TypeOK /\ revokedAt \in Nat /\ goods \in [Sending!Site -> Nat]
  BY TransferParts DEF Sending!TypeOK
<1>3. /\ a \in Sending!Row /\ a # Sending!NoRow /\ RowSound(a)
      /\ s \in Node /\ H(t) = Sending!NoRow => Sending!MayInsert(s, a)
  BY <1>1, OwnRow
<1>4. /\ b.status = "rejected" /\ b.kind = a.kind /\ b.from = a.from /\ b.to = a.to
      /\ b.shipped = a.shipped /\ b.received = a.received /\ b.at = revokedAt + 1 /\ b \in Sending!Row
  <2>1. revokedAt + 1 \in Nat
    BY <1>2
  <2> QED BY <1>3, <2>1, RevokedRow DEF Revoked
<1> HIDE DEF a, b
<1>5. Rank(a) = 0 /\ Rank(b) = 1
  BY <1>1, <1>3, <1>4, TransferRank DEF Revoked
<1>6. ~Sending!MayInsert(s, a)
  BY <1>1, <1>3 DEF Sending!MayInsert, RowSound, Gone
<1>7. Acts(s, t, b)
  BY <1>1, <1>2, <1>3, <1>4, <1>5, <1>6 DEF Acts, RowSound, Gone, By, Sending!Actor, Same, a
<1>8. SentOf(s, b) = 0 /\ ArrivedOf(s, b) = 0 /\ SentOf(s, a) = 0 /\ ArrivedOf(s, a) = 0
  BY <1>1, <1>4 DEF SentOf, ArrivedOf, Gone
<1> QED BY <1>1, <1>2, <1>7, <1>8, ActsInv DEF a

\* The receiver cancels its request, or counts what came.
LEMMA SendCancel ==
    ASSUME TransferInv, NEW s \in Sending!Site, NEW t \in Transfer, Sending!Cancel(s, t)
    PROVE  TransferInv'
<1> DEFINE a == transferRow[s][t]
           b == [a EXCEPT !.status = "cancelled", !.at = revokedAt + 1]
<1>1. /\ a.to = s /\ a.status = "requested" /\ a.kind = "request" /\ Sending!Write(s, t, b)
      /\ goods' = goods /\ revoked' = revoked \cup {t} /\ revokedAt' = revokedAt + 1
  BY DEF Sending!Cancel, Sending!Claimable
<1>2. Sending!TypeOK /\ revokedAt \in Nat /\ goods \in [Sending!Site -> Nat]
  BY TransferParts DEF Sending!TypeOK
<1>3. a \in Sending!Row /\ a # Sending!NoRow /\ RowSound(a)
  BY <1>1, OwnRow
<1>4. /\ b.status = "cancelled" /\ b.kind = a.kind /\ b.from = a.from /\ b.to = a.to
      /\ b.shipped = a.shipped /\ b.received = a.received /\ b.at = revokedAt + 1 /\ b \in Sending!Row
  <2>1. revokedAt + 1 \in Nat
    BY <1>2
  <2> QED BY <1>3, <2>1, RevokedRow DEF Revoked
<1> HIDE DEF a, b
<1>5. Rank(a) = 0 /\ Rank(b) = 1
  BY <1>1, <1>3, <1>4, TransferRank DEF Revoked
<1>6. Sending!MayInsert(s, b)
  BY <1>1, <1>4 DEF Sending!MayInsert
<1>7. Acts(s, t, b)
  BY <1>1, <1>2, <1>3, <1>4, <1>5, <1>6 DEF Acts, RowSound, Gone, By, Sending!Actor, Same, a
<1>8. SentOf(s, b) = 0 /\ ArrivedOf(s, b) = 0 /\ SentOf(s, a) = 0 /\ ArrivedOf(s, a) = 0
  BY <1>1, <1>4 DEF SentOf, ArrivedOf, Gone
<1> QED BY <1>1, <1>2, <1>4, <1>7, <1>8, ActsInv DEF a, Revoked

LEMMA SendReceive ==
    ASSUME TransferInv, NEW s \in Sending!Site, NEW t \in Transfer, NEW q \in 0..Goods,
           Sending!Receive(s, t, q)
    PROVE  TransferInv'
<1> DEFINE a == transferRow[s][t]
           b == [a EXCEPT !.status = "received", !.received = q]
<1>1. q \in Nat
  BY TransferAssumption
<1>2. /\ a.to = s /\ a.status = "shipped" /\ Sending!Write(s, t, b)
      /\ UNCHANGED <<revokedAt, revoked>> /\ goods' = [goods EXCEPT ![s] = @ + q]
  BY DEF Sending!Receive
<1>3. Sending!TypeOK /\ revokedAt \in Nat /\ goods \in [Sending!Site -> Nat]
  BY TransferParts DEF Sending!TypeOK
<1>4. /\ a \in Sending!Row /\ a # Sending!NoRow /\ RowSound(a) /\ a.at \in Nat /\ a.at <= revokedAt
      /\ s \in Node /\ H(t) = Sending!NoRow => Sending!MayInsert(s, a)
  BY <1>2, OwnRow
<1>5. /\ b.status = "received" /\ b.kind = a.kind /\ b.from = a.from /\ b.to = a.to
      /\ b.shipped = a.shipped /\ b.received = q /\ b.at = a.at /\ b \in Sending!Row
  BY <1>1, <1>4 DEF Sending!Row, Sending!Status
<1> HIDE DEF a, b
<1>6. Rank(a) = 2 /\ Rank(b) = 3
  BY <1>2, <1>4, <1>5, TransferRank
<1>7. ~Sending!MayInsert(s, a)
  BY <1>2, <1>4 DEF Sending!MayInsert, RowSound, Gone
<1>8. Acts(s, t, b)
  BY <1>2, <1>3, <1>4, <1>5, <1>6, <1>7 DEF Acts, RowSound, Gone, By, Sending!Actor, Same, a
<1>9. SentOf(s, b) = 0 /\ ArrivedOf(s, b) = q /\ SentOf(s, a) = 0 /\ ArrivedOf(s, a) = 0
  BY <1>2, <1>4, <1>5 DEF SentOf, ArrivedOf, Gone, RowSound
<1>10. goods' \in [Sending!Site -> Nat] /\ goods'[s] = goods[s] + q
       /\ \A x \in Sending!Site \ {s} : goods'[x] = goods[x]
  BY <1>1, <1>2, <1>3
<1>11. goods'[s] + SentOf(s, b) + ArrivedOf(s, a) = goods[s] + SentOf(s, a) + ArrivedOf(s, b)
  <2>1. goods[s] \in Nat
    BY <1>3
  <2> QED BY <1>1, <1>9, <1>10, <2>1
<1> QED BY <1>2, <1>8, <1>10, <1>11, ActsInv DEF a

-----------------------------------------------------------------------------
\* engine._merge_transfer: b is m after c is merged into it.
Took(m, c, b) ==
    /\ b.status = c.status /\ b.shipped = c.shipped /\ b.received = c.received
    /\ m = Sending!NoRow => b = c
    /\ m # Sending!NoRow =>
          /\ Newer(c, m) /\ Same(b, m)
          /\ IF Rank(c) = 1 THEN b.at = revokedAt + 1 ELSE b.at = 0

LEMMA MergedRow ==
    ASSUME NEW src, NEW m \in Sending!Row, NEW c \in Sending!Row, revokedAt \in Nat
    PROVE  /\ Sending!Merged(src, m, c) \in Sending!Row
           /\ Sending!MayMerge(src, m, c) => Took(m, c, Sending!Merged(src, m, c))
           /\ ~Sending!MayMerge(src, m, c) => Sending!Merged(src, m, c) = m
<1> DEFINE k == IF Sending!Rank(c.status) = 1 THEN revokedAt + 1 ELSE 0
           b == [m EXCEPT !.status = c.status, !.shipped = c.shipped, !.received = c.received, !.at = k]
<1>1. k \in Nat
  OBVIOUS
<1>2. /\ c.status \in Sending!Status /\ c.shipped \in Nat /\ c.received \in Nat
  BY DEF Sending!Row
<1>3. /\ b \in Sending!Row /\ b.status = c.status /\ b.shipped = c.shipped /\ b.received = c.received
      /\ b.kind = m.kind /\ b.from = m.from /\ b.to = m.to /\ b.at = k
  <2> HIDE DEF k
  <2> QED BY <1>1, <1>2 DEF Sending!Row
<1>4. CASE ~Sending!MayMerge(src, m, c)
  BY <1>4 DEF Sending!Merged
<1>5. CASE Sending!MayMerge(src, m, c) /\ m = Sending!NoRow
  <2>1. Sending!Merged(src, m, c) = c
    BY <1>5 DEF Sending!Merged
  <2> QED BY <1>5, <2>1 DEF Took
<1>6. CASE Sending!MayMerge(src, m, c) /\ m # Sending!NoRow
  <2>1. Sending!Merged(src, m, c) = b
    BY <1>6 DEF Sending!Merged
  <2>2. Newer(c, m)
    BY <1>6, NewerForward DEF Sending!MayMerge
  <2>3. Same(b, m) /\ (IF Rank(c) = 1 THEN b.at = revokedAt + 1 ELSE b.at = 0)
    <3>1. IF Rank(c) = 1 THEN k = revokedAt + 1 ELSE k = 0
      BY DEF Rank
    <3> HIDE DEF b, k
    <3> QED BY <1>3, <3>1 DEF Same
  <2>4. b.status = c.status /\ b.shipped = c.shipped /\ b.received = c.received /\ b \in Sending!Row
    BY <1>3
  <2> HIDE DEF b
  <2> QED BY <1>6, <2>1, <2>2, <2>3, <2>4 DEF Took
<1> QED BY <1>4, <1>5, <1>6

\* A page is merged at a site.
LEMMA PageMerged ==
    ASSUME Sending!TypeOK, NEW s \in Sending!Site, NEW src, NEW pg \in [Transfer -> Sending!Row],
           Sending!MergePage(s, src, pg)
    PROVE  /\ transferRow' \in [Sending!Site -> [Transfer -> Sending!Row]]
           /\ \A x \in Sending!Site, t \in Transfer : x # s => transferRow'[x][t] = transferRow[x][t]
           /\ \A t \in Transfer :
                 IF pg[t] # Sending!NoRow /\ Sending!MayMerge(src, transferRow[s][t], pg[t])
                 THEN Took(transferRow[s][t], pg[t], transferRow'[s][t])
                 ELSE transferRow'[s][t] = transferRow[s][t]
           /\ revokedAt' \in Nat /\ revokedAt <= revokedAt'
           /\ \A t \in Transfer :
                 Took(transferRow[s][t], pg[t], transferRow'[s][t]) /\ pg[t].at <= revokedAt
                    /\ pg[t] # Sending!NoRow /\ Sending!MayMerge(src, transferRow[s][t], pg[t])
                    => transferRow'[s][t].at <= revokedAt'
           /\ alerted' \in [Sending!Site -> SUBSET Transfer]
           /\ \A x \in Sending!Site : alerted[x] \subseteq alerted'[x]
           /\ \A t \in Transfer :
                 pg[t] # Sending!NoRow /\ Sending!Alerts(src, transferRow[s][t], pg[t]) => t \in alerted'[s]
<1> DEFINE new(t) == IF t \in Sending!OnPage(pg)
                     THEN Sending!Merged(src, transferRow[s][t], pg[t]) ELSE transferRow[s][t]
<1>1. /\ transferRow' = [transferRow EXCEPT ![s] = [t \in Transfer |-> new(t)]]
      /\ revokedAt' = IF \E t \in Sending!OnPage(pg) :
                            Sending!Merged(src, transferRow[s][t], pg[t]).at > revokedAt
                      THEN revokedAt + 1 ELSE revokedAt
      /\ alerted' = [alerted EXCEPT ![s] = @ \cup {t \in Sending!OnPage(pg) :
                                                     Sending!Alerts(src, transferRow[s][t], pg[t])}]
  BY DEF Sending!MergePage
<1>2. /\ transferRow \in [Sending!Site -> [Transfer -> Sending!Row]] /\ revokedAt \in Nat
      /\ alerted \in [Sending!Site -> SUBSET Transfer]
  BY DEF Sending!TypeOK
<1>3. ASSUME NEW t \in Transfer
      PROVE  /\ transferRow[s][t] \in Sending!Row /\ pg[t] \in Sending!Row
             /\ t \in Sending!OnPage(pg) <=> pg[t] # Sending!NoRow
             /\ new(t) \in Sending!Row
  <2>1. transferRow[s][t] \in Sending!Row /\ pg[t] \in Sending!Row
    BY <1>2
  <2>2. t \in Sending!OnPage(pg) <=> pg[t] # Sending!NoRow
    BY DEF Sending!OnPage
  <2>3. Sending!Merged(src, transferRow[s][t], pg[t]) \in Sending!Row
    BY <1>2, <2>1, MergedRow
  <2> QED BY <2>1, <2>2, <2>3
<1>4. /\ transferRow' \in [Sending!Site -> [Transfer -> Sending!Row]]
      /\ \A x \in Sending!Site, t \in Transfer : x # s => transferRow'[x][t] = transferRow[x][t]
      /\ \A t \in Transfer : transferRow'[s][t] = new(t)
  <2>1. [t \in Transfer |-> new(t)] \in [Transfer -> Sending!Row]
    BY <1>3
  <2>2. \A t \in Transfer : [u \in Transfer |-> new(u)][t] = new(t)
    OBVIOUS
  <2> DEFINE f == [t \in Transfer |-> new(t)]
  <2> HIDE DEF f, new
  <2>3. transferRow' = [transferRow EXCEPT ![s] = f] /\ f \in [Transfer -> Sending!Row]
        /\ \A t \in Transfer : f[t] = new(t)
    BY <1>1, <2>1, <2>2 DEF f
  <2> QED BY <1>2, <2>3
<1>5. ASSUME NEW t \in Transfer
      PROVE  IF pg[t] # Sending!NoRow /\ Sending!MayMerge(src, transferRow[s][t], pg[t])
             THEN Took(transferRow[s][t], pg[t], transferRow'[s][t])
             ELSE transferRow'[s][t] = transferRow[s][t]
  <2>1. CASE pg[t] = Sending!NoRow
    BY <1>3, <1>4, <2>1
  <2>2. CASE pg[t] # Sending!NoRow
    <3>1. transferRow'[s][t] = Sending!Merged(src, transferRow[s][t], pg[t])
      BY <1>3, <1>4, <2>2
    <3> QED BY <1>2, <1>3, <2>2, <3>1, MergedRow
  <2> QED BY <2>1, <2>2
<1>6. revokedAt' \in Nat /\ revokedAt <= revokedAt'
  BY <1>1, <1>2
<1>7. ASSUME NEW t \in Transfer, Took(transferRow[s][t], pg[t], transferRow'[s][t]),
             pg[t].at <= revokedAt, pg[t] # Sending!NoRow
      PROVE  transferRow'[s][t].at <= revokedAt'
  <2>1. transferRow'[s][t] = Sending!Merged(src, transferRow[s][t], pg[t]) /\ t \in Sending!OnPage(pg)
    BY <1>3, <1>4, <1>7
  <2>2. transferRow'[s][t].at \in Nat /\ pg[t].at \in Nat
    BY <1>3, <1>4, TransferFields
  <2>3. transferRow'[s][t].at \in {pg[t].at, revokedAt + 1, 0}
    BY <1>7 DEF Took
  <2>4. CASE transferRow'[s][t].at <= revokedAt
    BY <1>2, <1>6, <2>2, <2>4
  <2>5. CASE transferRow'[s][t].at = revokedAt + 1
    <3>1. transferRow'[s][t].at > revokedAt
      BY <1>2, <2>5
    <3>2. revokedAt' = revokedAt + 1
      BY <1>1, <2>1, <3>1
    <3> QED BY <1>2, <2>5, <3>2
  <2> QED BY <1>2, <1>7, <2>2, <2>3, <2>4, <2>5
<1>8. /\ alerted' \in [Sending!Site -> SUBSET Transfer]
      /\ \A x \in Sending!Site : alerted[x] \subseteq alerted'[x]
      /\ \A t \in Transfer :
            pg[t] # Sending!NoRow /\ Sending!Alerts(src, transferRow[s][t], pg[t]) => t \in alerted'[s]
  <2> DEFINE A == {t \in Sending!OnPage(pg) : Sending!Alerts(src, transferRow[s][t], pg[t])}
  <2>1. A \subseteq Transfer
    BY DEF Sending!OnPage
  <2>2. \A t \in Transfer :
            pg[t] # Sending!NoRow /\ Sending!Alerts(src, transferRow[s][t], pg[t]) => t \in A
    BY <1>3
  <2>3. alerted' = [alerted EXCEPT ![s] = @ \cup A]
    BY <1>1
  <2> HIDE DEF A
  <2> QED BY <1>2, <2>1, <2>2, <2>3
<1> HIDE DEF new
<1>9. \A t \in Transfer :
         Took(transferRow[s][t], pg[t], transferRow'[s][t]) /\ pg[t].at <= revokedAt
            /\ pg[t] # Sending!NoRow /\ Sending!MayMerge(src, transferRow[s][t], pg[t])
            => transferRow'[s][t].at <= revokedAt'
  BY <1>7
<1> QED BY <1>4, <1>5, <1>6, <1>8, <1>9

\* A copy that is merged into a site's row changes nothing of what the ends have done.
LEMMA TookKeeps ==
    ASSUME Sending!TypeOK, NEW s \in Sending!Site, NEW t \in Transfer, CopiesOf(t),
           NEW c \in Copies(t), NEW b, Took(transferRow[s][t], c, b)
    PROVE  LET m == transferRow[s][t]
           IN  /\ RowSound(b) /\ Same(b, c) /\ Rank(b) >= Rank(m) /\ b # Sending!NoRow
               /\ s = c.from => SentKept(m, b)
               /\ s = c.to => ReceivedKept(m, b)
               /\ SentOf(s, b) = SentOf(s, m) /\ ArrivedOf(s, b) = ArrivedOf(s, m)
<1> DEFINE m == transferRow[s][t]
<1>1. m \in Sending!Row /\ c \in Sending!Row /\ c # Sending!NoRow
  BY TransferTypes
<1>2. m # Sending!NoRow => m \in Copies(t)
  BY DEF Copies
<1>3. RowSound(c) /\ SentAs(c, transferRow[c.from][t]) /\ ReceivedAs(c, transferRow[c.to][t])
  BY DEF CopiesOf, CopySound
<1>4. m # Sending!NoRow => Same(m, c) /\ RowSound(m)
  BY <1>2 DEF CopiesOf, CopySound
<1>5. s = c.from => SentAs(c, m)
  BY <1>3
<1>6. s = c.to => ReceivedAs(c, m)
  BY <1>3
<1>7. Took(m, c, b)
  OBVIOUS
<1> HIDE DEF m
<1>8. Same(b, c)
  BY <1>4, <1>7 DEF Took, Same
<1>9. RowSound(b)
  BY <1>3, <1>7, <1>8 DEF Took, RowSound, Same
<1>10. b # Sending!NoRow /\ Rank(b) = Rank(c)
  BY <1>7, <1>9, NoTransfer DEF RowSound, Took, Rank
<1>11. Rank(m) \in -1..3 /\ Rank(c) \in -1..3
  BY <1>1, TransferRank
<1>12. m # Sending!NoRow => Newer(c, m)
  BY <1>7 DEF Took
<1>13. Rank(b) >= Rank(m)
  BY <1>10, <1>11, <1>12, NoTransfer DEF Newer
<1>14. m.status = "received" => FALSE
  <2>1. m.status = "received" => m # Sending!NoRow /\ Rank(m) = 3
    BY <1>1, NoTransfer, TransferRank
  <2>2. Rank(m) = 3 /\ Rank(c) = 3 => m.status = c.status
    BY <1>1, TransferRank
  <2> QED BY <1>11, <1>12, <2>1, <2>2 DEF Newer
<1>15. m.status = "shipped" => c.status = "received"
  <2>1. m.status = "shipped" => m # Sending!NoRow /\ Rank(m) = 2
    BY <1>1, NoTransfer, TransferRank
  <2>2. /\ Rank(m) = 2 /\ Rank(c) = 2 => m.status = c.status
        /\ Rank(c) = 3 => c.status = "received"
    BY <1>1, TransferRank
  <2> QED BY <1>11, <1>12, <2>1, <2>2 DEF Newer
<1>16. b.status = c.status /\ b.shipped = c.shipped /\ b.received = c.received
  BY <1>7 DEF Took
<1>17. ASSUME s = c.from PROVE SentKept(m, b)
  <2>1. SentAs(c, m)
    BY <1>5, <1>17
  <2>2. m.status \in Gone => c.status \in Gone /\ c.shipped = m.shipped
    BY <1>14, <1>15, <2>1 DEF SentAs, Gone
  <2>3. ASSUME m.status \in Revoked PROVE c.status \in Revoked
    <3>1. c.status \notin Gone
      BY <2>1, <2>3 DEF SentAs, Gone, Revoked
    <3>2. Rank(m) = 1 /\ m # Sending!NoRow
      BY <1>1, <2>3, TransferRank, NoTransfer
    <3>3. Rank(c) >= 1 /\ ~(Rank(c) >= 2)
      BY <1>1, <1>11, <1>12, <3>1, <3>2, TransferRank DEF Newer
    <3> QED BY <1>1, <1>11, <3>3, TransferRank
  <2> QED BY <1>16, <2>2, <2>3 DEF SentKept
<1>18. ASSUME s = c.to PROVE ReceivedKept(m, b)
  BY <1>11, <1>10, <1>13, <1>14 DEF ReceivedKept
<1>19. SentOf(s, b) = SentOf(s, m)
  <2>1. CASE s = c.from
    <3>1. SentAs(c, m)
      BY <1>5, <2>1
    <3>2. b.from = s
      BY <1>8, <2>1 DEF Same
    <3>3. CASE c.status \in Gone
      <4>1. m.status \in Gone /\ m.shipped = c.shipped
        BY <3>1, <3>3 DEF SentAs
      <4>2. m.from = s
        BY <1>4, <2>1, <4>1, NoTransfer DEF Same, Gone
      <4> QED BY <1>16, <3>2, <3>3, <4>1, <4>2 DEF SentOf
    <3>4. CASE c.status \notin Gone
      <4>1. m.status \notin Gone
        BY <1>14, <1>15, <3>4 DEF Gone
      <4> QED BY <1>16, <3>4, <4>1 DEF SentOf
    <3> QED BY <3>3, <3>4
  <2>2. CASE s # c.from
    <3>1. b.from # s
      BY <1>8, <2>2 DEF Same
    <3>2. m.from # s
      BY <1>4, <2>2, NoTransfer DEF Same
    <3> QED BY <3>1, <3>2 DEF SentOf
  <2> QED BY <2>1, <2>2
<1>20. ArrivedOf(s, b) = ArrivedOf(s, m)
  <2>1. CASE s = c.to /\ c.status = "received"
    BY <1>6, <1>14, <2>1 DEF ReceivedAs
  <2>2. CASE s # c.to \/ c.status # "received"
    <3>1. b.to # s \/ b.status # "received"
      BY <1>8, <1>16, <2>2 DEF Same
    <3> QED BY <1>14, <3>1 DEF ArrivedOf
  <2> QED BY <2>1, <2>2
<1> QED BY <1>8, <1>9, <1>10, <1>13, <1>17, <1>18, <1>19, <1>20 DEF m

LEMMA MergedCopies ==
    ASSUME Sending!TypeOK, NEW s \in Sending!Site, NEW src, NEW pg \in [Transfer -> Sending!Row],
           Sending!MergePage(s, src, pg), NEW t \in Transfer, CopiesOf(t),
           pg[t] # Sending!NoRow => pg[t] \in Copies(t),
           NEW b, b = transferRow'[s][t], Copies(t)' \subseteq Copies(t) \cup {b}
    PROVE  CopiesOf(t)'
<1> DEFINE m == transferRow[s][t]
           c == pg[t]
<1>1. /\ \A x \in Sending!Site : x # s => transferRow'[x][t] = transferRow[x][t]
      /\ revokedAt' \in Nat /\ revokedAt <= revokedAt'
  BY PageMerged
<1>2. CASE b = m
  <2>1. \A x \in Sending!Site : transferRow'[x][t] = transferRow[x][t]
    BY <1>1, <1>2
  <2>2. Copies(t)' \subseteq Copies(t)
    <3>1. Sending!NoRow \notin Copies(t)'
      BY DEF Copies, Sending!NoRow
    <3>2. m = Sending!NoRow \/ m \in Copies(t)
      BY DEF Copies
    <3> QED BY <1>2, <3>1, <3>2
  <2> QED BY <1>1, <2>1, <2>2, CopiesSteady
<1>3. CASE b # m
  <2>1. c # Sending!NoRow /\ Sending!MayMerge(src, m, c) /\ Took(m, c, b)
    BY <1>3, PageMerged
  <2>2. c \in Copies(t) /\ c \in Sending!Row
    BY <2>1
  <2>3. RowSound(c) /\ c.at <= revokedAt /\ SentAs(c, transferRow[c.from][t]) /\ ReceivedAs(c, transferRow[c.to][t])
    BY <2>2 DEF CopiesOf, CopySound
  <2>4. /\ RowSound(b) /\ Same(b, c)
        /\ s = c.from => SentKept(m, b)
        /\ s = c.to => ReceivedKept(m, b)
    BY <2>1, <2>2, TookKeeps
  <2>5. b.at <= revokedAt'
    BY <2>1, <2>3, PageMerged
  <2>6. c.from \in Sending!Site /\ c.to \in Sending!Site
    BY <2>3 DEF RowSound
  <2>7. /\ SentKept(transferRow[c.from][t], transferRow'[c.from][t])
        /\ ReceivedKept(transferRow[c.to][t], transferRow'[c.to][t])
    <3>1. SentKept(transferRow[c.from][t], transferRow'[c.from][t])
      BY <1>1, <2>4, <2>6 DEF SentKept
    <3>2. ReceivedKept(transferRow[c.to][t], transferRow'[c.to][t])
      BY <1>1, <2>4, <2>6 DEF ReceivedKept
    <3> QED BY <3>1, <3>2
  <2>8. \A r \in Copies(t) : Same(r, c)
    BY <2>2 DEF CopiesOf
  <2>9. ASSUME NEW r \in Copies(t)
        PROVE  /\ SentKept(transferRow[r.from][t], transferRow'[r.from][t])
               /\ ReceivedKept(transferRow[r.to][t], transferRow'[r.to][t])
    BY <2>7, <2>8, <2>9 DEF Same
  <2>10. \A q \in Copies(t) : Same(b, q)
    BY <2>4, <2>8 DEF Same
  <2>11. CopySound(t, b)'
    <3>1. b.status = c.status /\ b.shipped = c.shipped /\ b.received = c.received
          /\ b.from = c.from /\ b.to = c.to
      BY <2>1, <2>4 DEF Took, Same
    <3>2. SentAs(b, transferRow'[b.from][t])
      <4>1. SentAs(c, transferRow'[c.from][t])
        BY <2>3, <2>7 DEF SentAs, SentKept, Revoked
      <4> QED BY <3>1, <4>1 DEF SentAs
    <3>3. ReceivedAs(b, transferRow'[b.to][t])
      <4>1. ReceivedAs(c, transferRow'[c.to][t])
        BY <2>3, <2>7 DEF ReceivedAs, ReceivedKept
      <4> QED BY <3>1, <4>1 DEF ReceivedAs
    <3> QED BY <2>4, <2>5, <3>2, <3>3 DEF CopySound, RowSound, SentAs, ReceivedAs, Rank
  <2> HIDE DEF m, c
  <2> QED BY <1>1, <2>9, <2>10, <2>11, CopiesStep
<1> QED BY <1>2, <1>3

\* Goods are not moved by it.
LEMMA MergedGoods ==
    ASSUME Sending!TypeOK, NEW s \in Sending!Site, NEW src, NEW pg \in [Transfer -> Sending!Row],
           Sending!MergePage(s, src, pg), goods' = goods, Sending!GoodsConserved,
           \A t \in Transfer : CopiesOf(t) /\ (pg[t] # Sending!NoRow => pg[t] \in Copies(t))
    PROVE  Sending!GoodsConserved'
<1>1. ASSUME NEW x \in Sending!Site, NEW t \in Transfer
      PROVE  /\ SentOf(x, transferRow'[x][t]) = SentOf(x, transferRow[x][t])
             /\ ArrivedOf(x, transferRow'[x][t]) = ArrivedOf(x, transferRow[x][t])
  <2>1. CASE transferRow'[x][t] = transferRow[x][t]
    BY <2>1
  <2>2. CASE transferRow'[x][t] # transferRow[x][t]
    <3>1. x = s
      BY <2>2, PageMerged
    <3>2. pg[t] # Sending!NoRow /\ Took(transferRow[s][t], pg[t], transferRow'[s][t])
      BY <2>2, <3>1, PageMerged
    <3> QED BY <3>1, <3>2, TookKeeps
  <2> QED BY <2>1, <2>2
<1>2. ASSUME NEW y \in Sending!Site \X Transfer
      PROVE  /\ SentOf(y[1], transferRow'[y[1]][y[2]]) = SentOf(y[1], transferRow[y[1]][y[2]])
             /\ ArrivedOf(y[1], transferRow'[y[1]][y[2]]) = ArrivedOf(y[1], transferRow[y[1]][y[2]])
  <2>1. y[1] \in Sending!Site /\ y[2] \in Transfer
    OBVIOUS
  <2> QED BY <1>1, <2>1
<1>3. SentIn(transferRow') = SentIn(transferRow) /\ ArrivedIn(transferRow') = ArrivedIn(transferRow)
  BY <1>2 DEF SentIn, ArrivedIn
<1> QED BY <1>3, SentRows DEF Sending!GoodsConserved, Sending!Cardinality, Sending!Site

\* Who cancelled a request that is shipped nevertheless is told.
LEMMA MergedTold ==
    ASSUME Sending!TypeOK, NEW s \in Sending!Site, NEW src, NEW pg \in [Transfer -> Sending!Row],
           Sending!MergePage(s, src, pg), revoked' = revoked, RevokedTold,
           \A t \in Transfer : CopiesOf(t) /\ (pg[t] # Sending!NoRow => pg[t] \in Copies(t))
    PROVE  RevokedTold'
<1> SUFFICES ASSUME NEW u \in revoked
             PROVE  \E x \in Sending!Site :
                        /\ transferRow'[x][u] # Sending!NoRow /\ transferRow'[x][u].to = x
                        /\ transferRow'[x][u].status \in Revoked \/ u \in alerted'[x]
  BY DEF RevokedTold, Sending!Site, Sending!NoRow, Revoked
<1>1. u \in Transfer
  BY DEF Sending!TypeOK
<1>2. PICK x \in Sending!Site :
          /\ transferRow[x][u] # Sending!NoRow /\ transferRow[x][u].to = x
          /\ transferRow[x][u].status \in Revoked \/ u \in alerted[x]
  BY DEF RevokedTold
<1>3. alerted[x] \subseteq alerted'[x]
  BY PageMerged
<1>4. CASE transferRow'[x][u] = transferRow[x][u]
  BY <1>2, <1>3, <1>4
<1>5. CASE transferRow'[x][u] # transferRow[x][u]
  <2> DEFINE m == transferRow[x][u]
             c == pg[u]
             b == transferRow'[x][u]
  <2>1. x = s
    BY <1>1, <1>5, PageMerged
  <2>2. c # Sending!NoRow /\ Sending!MayMerge(src, m, c) /\ Took(m, c, b)
    BY <1>1, <1>5, <2>1, PageMerged
  <2>3. c \in Copies(u) /\ m \in Copies(u)
    BY <1>1, <1>2, <2>2 DEF Copies
  <2>4. b # Sending!NoRow /\ b.to = x
    <3>1. b # Sending!NoRow
      BY <1>1, <2>1, <2>2, <2>3, TookKeeps
    <3>2. Same(b, m)
      BY <1>2, <2>2 DEF Took
    <3> QED BY <1>2, <3>1, <3>2 DEF Same
  <2>5. b.status \in Revoked \/ u \in alerted'[x]
    <3>1. CASE u \in alerted[x]
      BY <1>3, <3>1
    <3>2. CASE m.status \in Revoked
      <4>1. m \in Sending!Row /\ c \in Sending!Row
        BY <1>1, <2>3, TransferTypes
      <4>2. Newer(c, m) /\ b.status = c.status
        BY <1>2, <2>2 DEF Took
      <4>3. c.status \in Revoked \/ c.status \in Gone
        BY <3>2, <4>1, <4>2, TransferRank DEF Newer
      <4>4. CASE c.status \in Gone /\ m.status = "rejected"
        <5>1. SentAs(c, transferRow[c.from][u]) /\ SentAs(m, transferRow[m.from][u]) /\ Same(c, m)
          BY <1>1, <2>3 DEF CopiesOf, CopySound
        <5> QED BY <4>4, <5>1 DEF SentAs, Same, Gone, Revoked
      <4>5. CASE c.status \in Gone /\ m.status = "cancelled"
        <5>1. Sending!Alerts(src, m, c)
          BY <2>2, <4>5 DEF Sending!Alerts, Gone
        <5> QED BY <1>1, <2>1, <2>2, <5>1, PageMerged
      <4> QED BY <3>2, <4>2, <4>3, <4>4, <4>5 DEF Revoked
    <3> QED BY <1>2, <3>1, <3>2
  <2> QED BY <2>4, <2>5
<1> QED BY <1>4, <1>5

\* Two different revocations are of the two ends.
LEMMA OtherEnd ==
    ASSUME NEW r \in Sending!Row, NEW q \in Sending!Row, Same(r, q), RowSound(r),
           Rank(r) = 1, Rank(q) = 1, r.status # q.status, NEW n, EndOf(n, r)
    PROVE  By(n, r) <=> ~By(n, q)
<1>1. r.status \in {"cancelled", "rejected"} /\ q.status \in {"cancelled", "rejected"}
  BY TransferRank DEF Revoked
<1>2. r.from # r.to /\ r.from = q.from /\ r.to = q.to
  BY DEF Same, RowSound
<1> QED BY <1>1, <1>2 DEF By, EndOf, Sending!Actor

\* The hub has merged what branch n sent it: any branch k, and the page it pulls.
LEMMA HubTookInTime ==
    ASSUME NEW h \in Sending!Row, NEW c \in Sending!Row, NEW b \in Sending!Row,
           NEW r \in Sending!Row, NEW up1 \in Sending!Row, NEW down1 \in Sending!Row,
           NEW n, NEW k, revokedAt \in Nat,
           h # Sending!NoRow, Took(h, c, b), By(n, c), RowSound(c), Same(c, h),
           InTime(h, r, up1, down1, k), Rank(down1) <= Rank(h), Rank(up1) <= Rank(r),
           r # Sending!NoRow => Same(r, c) /\ RowSound(r) /\ EndOf(k, r) /\ r.at <= revokedAt,
           down1 # Sending!NoRow =>
              Same(down1, c) /\ RowSound(down1) /\ EndOf(k, down1) /\ down1.at <= revokedAt,
           up1 # Sending!NoRow => Same(up1, c) /\ RowSound(up1) /\ up1.at <= revokedAt,
           down1 # Sending!NoRow /\ Rank(down1) = 1 /\ By(k, down1) => Rank(r) >= 1,
           k = n => c = up1
    PROVE  InTime(b, r, IF k = n THEN Sending!NoRow ELSE up1, down1, k)
<1> DEFINE up2 == IF k = n THEN Sending!NoRow ELSE up1
<1>1. /\ Rank(h) \in -1..3 /\ Rank(c) \in -1..3 /\ Rank(b) = Rank(c) /\ Rank(r) \in -1..3
      /\ Rank(up1) \in -1..3 /\ Rank(down1) \in -1..3 /\ b.status = c.status
  BY TransferRank DEF Took, Rank
<1>2. Newer(c, h) /\ (Rank(c) = 1 => b.at = revokedAt + 1)
  BY DEF Took
<1>3. /\ r.at \in Nat /\ b.at \in Nat /\ h.at \in Nat /\ c.at \in Nat
      /\ up1.at \in Nat /\ down1.at \in Nat
  BY TransferFields
<1>4. Known(h, r, k) /\ Overruled(h, r, up1, k) /\ Outdated(h, r, down1) /\ NotAfter(r, up1)
      /\ NotLater(h, down1) /\ Apart(h, r)
  BY DEF InTime
<1>5. Rank(Sending!NoRow) = -1
  BY NoTransfer
<1>6. h.status = r.status => Rank(h) = Rank(r)
  BY DEF Rank
<1>7. Rank(b) >= Rank(h)
  BY <1>1, <1>2 DEF Newer
<1>8. ASSUME Rank(r) = 1, Rank(c) = 1, r.status # c.status, k = n, Rank(h) = 1 PROVE FALSE
  BY <1>1, <1>2, <1>3, <1>4, <1>8 DEF Overruled, Newer
<1>9. Known(b, r, k)
  <2> SUFFICES ASSUME r # Sending!NoRow, ~By(k, r) PROVE Rank(b) > Rank(r) \/ b.status = r.status
    BY DEF Known
  <2>1. Rank(h) > Rank(r) \/ h.status = r.status
    BY <1>4 DEF Known
  <2>2. CASE Rank(h) > Rank(r) \/ Rank(b) > Rank(h)
    BY <1>1, <1>6, <1>7, <2>1, <2>2
  <2>3. CASE h.status = r.status /\ Rank(b) = Rank(h)
    <3>1. Rank(c) = Rank(h) /\ c.status # h.status
      BY <1>1, <1>2, <2>3 DEF Newer
    <3>2. Rank(c) = 1 /\ Rank(r) = 1 /\ r.status # c.status /\ Rank(h) = 1
      <4>1. Rank(h) = Rank(c) /\ Rank(h) # 1 => h.status = c.status
        BY TransferRank
      <4> QED BY <1>6, <2>3, <3>1, <4>1
    <3>3. Same(r, c) /\ RowSound(r) /\ EndOf(k, r)
      OBVIOUS
    <3>4. By(k, c)
      BY <3>2, <3>3, OtherEnd
    <3>5. k = n
      BY <3>4 DEF By
    <3> QED BY <1>8, <3>2, <3>5
  <2> QED BY <1>1, <1>7, <2>1, <2>2, <2>3
<1>10. Overruled(b, r, up2, k)
  <2> SUFFICES ASSUME k # n, Rank(r) = 1, Rank(up1) = 1, r.status # up1.status, By(k, up1)
               PROVE  Rank(b) >= 2 \/ up1.at < b.at
    BY <1>5 DEF Overruled
  <2>1. r # Sending!NoRow /\ up1 # Sending!NoRow
    BY <1>5
  <2>2. Same(r, up1) /\ RowSound(r) /\ EndOf(k, r) /\ up1.at <= revokedAt
    BY <2>1 DEF Same
  <2>3. ~By(k, r)
    BY <2>2, OtherEnd
  <2>4. Rank(h) >= 1
    BY <1>1, <1>4, <1>6, <2>1, <2>3 DEF Known
  <2> QED BY <1>1, <1>2, <1>3, <1>7, <2>2, <2>4
<1>11. Outdated(b, r, down1)
  <2> SUFFICES ASSUME Rank(b) = 1, Rank(down1) = 1, b.status # down1.status, Newer(down1, r)
               PROVE  FALSE
    BY DEF Outdated
  <2>1. Rank(h) = 1 /\ Rank(c) = 1
    BY <1>1, <1>7
  <2>2. h.status # c.status /\ c.at > h.at
    BY <1>2, <2>1 DEF Newer
  <2>3. h.status \in Revoked /\ c.status \in Revoked /\ down1.status \in Revoked
    BY <2>1, TransferRank
  <2>4. h.status = down1.status
    BY <1>1, <2>2, <2>3 DEF Revoked
  <2>5. down1 # Sending!NoRow /\ down1.at <= h.at
    BY <1>4, <1>5, <2>1 DEF NotLater
  <2>6. Rank(r) <= 1
    BY <1>1 DEF Newer
  <2>7. Rank(r) = 1 => r.status \in Revoked
    BY TransferRank
  <2>8. CASE k = n
    <3>1. Rank(r) = 1 /\ c = up1
      BY <1>1, <2>1, <2>6, <2>8
    <3>2. r.status = c.status
      BY <1>8, <2>1, <2>8, <3>1
    <3>3. c.at <= r.at
      BY <1>4, <2>1, <3>1, <3>2 DEF NotAfter
    <3> QED BY <1>1, <1>3, <2>2, <2>5, <3>1, <3>3 DEF Newer
  <2>9. CASE k # n
    <3>1. Same(down1, c) /\ RowSound(down1) /\ EndOf(k, down1)
      BY <2>5
    <3>2. ~By(k, c)
      BY <2>9 DEF By
    <3>3. By(k, down1)
      BY <1>1, <2>1, <3>1, <3>2, OtherEnd
    <3>4. Rank(r) = 1 /\ r # Sending!NoRow
      BY <1>1, <1>5, <2>5, <2>6, <3>3
    <3>5. r.status # down1.status
      BY <3>4 DEF Newer
    <3>6. Same(r, down1) /\ RowSound(r) /\ EndOf(k, r)
      BY <3>1, <3>4 DEF Same
    <3>7. ~By(k, r)
      BY <3>3, <3>4, <3>5, <3>6, OtherEnd
    <3>8. h.status = r.status
      BY <1>4, <2>1, <3>4, <3>7 DEF Known
    <3> QED BY <2>4, <3>5, <3>8
  <2> QED BY <2>8, <2>9
<1>12. NotAfter(r, up2)
  BY <1>4, <1>5 DEF NotAfter
<1>13. NotLater(b, down1)
  <2> SUFFICES ASSUME Rank(b) = 1, Rank(down1) = 1 PROVE down1.at <= b.at
    BY DEF NotLater
  <2>1. down1.at <= revokedAt
    BY <1>5
  <2> QED BY <1>1, <1>2, <1>3, <2>1
<1>14. Apart(b, r)
  <2> SUFFICES ASSUME Rank(b) = 1, Rank(r) = 1 PROVE b.at # r.at
    BY DEF Apart
  <2>1. r.at <= revokedAt
    BY <1>5
  <2> QED BY <1>1, <1>2, <1>3, <2>1
<1> QED BY <1>9, <1>10, <1>11, <1>12, <1>13, <1>14 DEF InTime

\* A branch has merged what it pulled.
LEMMA BranchTookInTime ==
    ASSUME NEW h \in Sending!Row, NEW r \in Sending!Row, NEW c \in Sending!Row, NEW b \in Sending!Row,
           NEW up1 \in Sending!Row, NEW n, revokedAt \in Nat,
           Took(r, c, b), c.status # "none", InTime(h, r, up1, c, n),
           Rank(c) <= Rank(h), Rank(up1) <= Rank(r), up1 # Sending!NoRow => up1.at <= revokedAt
    PROVE  /\ InTime(h, b, up1, Sending!NoRow, n)
           /\ Rank(h) > Rank(b) \/ h.status = b.status
           /\ Rank(b) >= Rank(r)
<1>1. /\ Rank(h) \in -1..3 /\ Rank(c) \in 0..3 /\ Rank(b) = Rank(c) /\ Rank(r) \in -1..3
      /\ Rank(up1) \in -1..3 /\ b.status = c.status
  BY TransferRank DEF Took, Rank
<1>2. /\ r.at \in Nat /\ b.at \in Nat /\ h.at \in Nat /\ c.at \in Nat /\ up1.at \in Nat
  BY TransferFields
<1>3. Known(h, r, n) /\ Overruled(h, r, up1, n) /\ Outdated(h, r, c) /\ NotAfter(r, up1)
      /\ NotLater(h, c) /\ Apart(h, r)
  BY DEF InTime
<1>4. Rank(Sending!NoRow) = -1
  BY NoTransfer
<1>5. Newer(c, r)
  <2>1. CASE r = Sending!NoRow
    BY <1>1, <1>4, <2>1 DEF Newer
  <2>2. CASE r # Sending!NoRow
    BY <2>2 DEF Took
  <2> QED BY <2>1, <2>2
<1>6. Rank(h) > Rank(b) \/ h.status = b.status
  <2>1. Rank(h) = Rank(c) /\ Rank(h) # 1 => h.status = c.status
    BY TransferRank
  <2>2. Rank(h) = 1 /\ Rank(c) = 1 => h.status = c.status
    BY <1>3, <1>5 DEF Outdated
  <2> QED BY <1>1, <2>1, <2>2
<1>7. Rank(b) >= Rank(r)
  BY <1>1, <1>5 DEF Newer
<1>8. Known(h, b, n)
  BY <1>6 DEF Known
<1>9. Overruled(h, b, up1, n)
  <2> SUFFICES ASSUME Rank(b) = 1, Rank(up1) = 1, b.status # up1.status
               PROVE  Rank(h) >= 2 \/ up1.at < h.at
    BY DEF Overruled
  <2>1. Rank(r) = 1 /\ r.status # c.status /\ c.at > r.at
    BY <1>1, <1>5, <1>7 DEF Newer
  <2>2. r.status \in Revoked /\ c.status \in Revoked /\ up1.status \in Revoked
    BY <1>1, <2>1, TransferRank
  <2>3. r.status = up1.status
    BY <1>1, <2>1, <2>2 DEF Revoked
  <2>4. up1.at <= r.at
    BY <1>3, <2>1, <2>3 DEF NotAfter
  <2>5. Rank(h) = 1 => c.at <= h.at
    BY <1>1, <1>3 DEF NotLater
  <2> QED BY <1>1, <1>2, <2>1, <2>4, <2>5
<1>10. Outdated(h, b, Sending!NoRow) /\ NotLater(h, Sending!NoRow)
  BY <1>4 DEF Outdated, NotLater
<1>11. NotAfter(b, up1)
  <2> SUFFICES ASSUME Rank(b) = 1, Rank(up1) = 1 PROVE up1.at <= b.at
    BY DEF NotAfter
  <2>1. r # Sending!NoRow /\ up1 # Sending!NoRow
    BY <1>1, <1>4
  <2>2. b.at = revokedAt + 1 /\ up1.at <= revokedAt
    BY <1>1, <2>1 DEF Took
  <2> QED BY <1>2, <2>2
<1>12. Apart(h, b)
  BY <1>1, <1>6 DEF Apart
<1> QED BY <1>6, <1>7, <1>8, <1>9, <1>10, <1>11, <1>12 DEF InTime

-----------------------------------------------------------------------------
\* What there is of a transfer at a branch and the hub.
LEMMA NodeFacts ==
    ASSUME Sending!TypeOK, NEW t \in Transfer, NEW n \in Node, CopiesOf(t)
    PROVE  \A x \in {H(t), transferRow[n][t], pushed[n][t], pulled[n][t]} :
              /\ x \in Sending!Row /\ x.at \in Nat /\ x.at <= revokedAt /\ Rank(x) \in -1..3
              /\ x # Sending!NoRow => x \in Copies(t) /\ RowSound(x) /\ Rank(x) \in 0..3
<1> SUFFICES ASSUME NEW x \in {H(t), transferRow[n][t], pushed[n][t], pulled[n][t]}
             PROVE  /\ x \in Sending!Row /\ x.at \in Nat /\ x.at <= revokedAt /\ Rank(x) \in -1..3
                    /\ x # Sending!NoRow => x \in Copies(t) /\ RowSound(x) /\ Rank(x) \in 0..3
  OBVIOUS
<1>1. x \in Sending!Row /\ revokedAt \in Nat
  BY TransferTypes, NoTransfer
<1>2. x.at \in Nat /\ Rank(x) \in -1..3
  BY <1>1, TransferFields, TransferRank
<1>3. x # Sending!NoRow => x \in Copies(t)
  BY NoTransfer DEF Copies, H
<1>4. x # Sending!NoRow => RowSound(x) /\ x.at <= revokedAt
  BY <1>3 DEF CopiesOf, CopySound
<1>5. x # Sending!NoRow => Rank(x) \in 0..3
  BY <1>1, <1>4, TransferRank DEF RowSound
<1> QED BY <1>1, <1>2, <1>3, <1>4, <1>5, NoTransfer

\* Nothing is no news.
LEMMA NoNews ==
    ASSUME NEW h \in Sending!Row
    PROVE  ~Newer(Sending!NoRow, h)
  BY NoTransfer, TransferRank DEF Newer

LEMMA EmptyPage ==
    ASSUME NEW pg
    PROVE  pg = Sending!NoPage => \A t \in Transfer : pg[t] = Sending!NoRow
  BY DEF Sending!NoPage

LEMMA GoodsStay ==
    ASSUME Sending!GoodsConserved, UNCHANGED transferRow, UNCHANGED goods
    PROVE  Sending!GoodsConserved'
  BY SentRows DEF Sending!GoodsConserved, Sending!Cardinality, Sending!Site

\* node.push reads the rows that changed.
LEMMA SendPushRead ==
    ASSUME TransferInv, NEW n \in Node, Sending!PushRead(n)
    PROVE  TransferInv'
<1>1. /\ Sending!TypeOK /\ Sending!GoodsConserved /\ RevokedTold
      /\ \A t \in Transfer : CopiesOf(t) /\ NodesOf(t)
  BY TransferParts
<1>2. /\ pushed[n] = Sending!NoPage
      /\ pushed' = [pushed EXCEPT ![n] = [t \in Transfer |-> IF t \in out[n] THEN transferRow[n][t]
                                                              ELSE Sending!NoRow]]
      /\ out' = [out EXCEPT ![n] = {}]
      /\ UNCHANGED <<transferRow, goods, in, pulled, revokedAt, revoked, alerted>>
  BY DEF Sending!PushRead
<1>3. /\ pushed \in [Node -> [Transfer -> Sending!Row]] /\ out \in [Node -> SUBSET Transfer]
      /\ revokedAt \in Nat
  BY <1>1 DEF Sending!TypeOK
<1>4. ASSUME NEW t \in Transfer
      PROVE  /\ pushed'[n][t] = IF t \in out[n] THEN transferRow[n][t] ELSE Sending!NoRow
             /\ \A m \in Node : m # n => pushed'[m][t] = pushed[m][t] /\ out'[m] = out[m]
  BY <1>2, <1>3
<1>5. Sending!TypeOK'
  <2>1. \A t \in Transfer : transferRow[n][t] \in Sending!Row /\ Sending!NoRow \in Sending!Row
    BY <1>1, TransferTypes, NoTransfer
  <2> DEFINE pg == [t \in Transfer |-> IF t \in out[n] THEN transferRow[n][t] ELSE Sending!NoRow]
  <2>2. pg \in [Transfer -> Sending!Row]
    BY <2>1
  <2> HIDE DEF pg
  <2>3. pushed' \in [Node -> [Transfer -> Sending!Row]]
    BY <1>2, <1>3, <2>2 DEF pg
  <2>4. out' \in [Node -> SUBSET Transfer]
    BY <1>2, <1>3
  <2>5. UNCHANGED <<transferRow, goods, in, pulled, revokedAt, revoked, alerted>>
    BY <1>2
  <2> QED BY <1>1, <2>3, <2>4, <2>5 DEF Sending!TypeOK, Sending!Site, Sending!Row, Sending!Status
<1>6. Sending!GoodsConserved'
  <2>1. UNCHANGED <<transferRow, goods>>
    BY <1>2
  <2> QED BY <1>1, <2>1, GoodsStay
<1>7. ASSUME NEW t \in Transfer PROVE CopiesOf(t)'
  <2>1. Copies(t)' \subseteq Copies(t)
    BY <1>2, <1>4, NoTransfer DEF Copies
  <2> QED BY <1>1, <1>2, <1>3, <2>1, CopiesSteady
<1>8. ASSUME NEW t \in Transfer, NEW m \in Node PROVE NodeSound(t, m)'
  <2>1. NodeSound(t, m) /\ CopiesOf(t)
    BY <1>1 DEF NodesOf
  <2>2. CASE m # n
    BY <1>2, <1>4, <2>1, <2>2, SteadySound DEF Steady, H
  <2>3. CASE m = n
    <3> DEFINE h == H(t)
               r == transferRow[n][t]
               up2 == pushed'[n][t]
               down1 == pulled[n][t]
    <3>1. /\ H(t)' = h /\ transferRow'[n][t] = r /\ pulled'[n][t] = down1 /\ in' = in
      BY <1>2 DEF H
    <3>2. up2 = r \/ (up2 = Sending!NoRow /\ t \notin out[n])
      BY <1>4
    <3>3. h \in Sending!Row /\ r \in Sending!Row /\ Rank(r) \in -1..3 /\ r.at \in Nat
      BY <1>1, <2>1, NodeFacts
    <3>4. Rank(Sending!NoRow) = -1
      BY NoTransfer
    <3>5. Rank(up2) <= Rank(r)
      BY <3>2, <3>3, <3>4
    <3>6. Reaches(t, n) /\ InTime(h, r, pushed[n][t], down1, n) /\ ToCome(t, n)
      BY <2>1, <2>3 DEF NodeSound
    <3> HIDE DEF up2
    <3>7. Reaches(t, n)'
      <4>1. Rank(pushed[n][t])' <= Rank(transferRow[n][t])'
        BY <3>1, <3>5 DEF Rank, up2
      <4> QED BY <3>1, <3>6, <4>1 DEF Reaches, EndOf, Rank, Sending!MayInsert
    <3>8. InTime(h, r, up2, down1, n)
      <4>1. Overruled(h, r, up2, n) /\ NotAfter(r, up2)
        BY <3>2, <3>3, <3>4 DEF Overruled, NotAfter
      <4> QED BY <3>6, <4>1 DEF InTime
    <3>9. ToCome(t, n)'
      <4>1. Newer(r, h) => up2 = r
        <5>1. CASE up2 = Sending!NoRow /\ t \notin out[n]
          <6>1. pushed[n][t] = Sending!NoRow
            BY <1>2, EmptyPage
          <6>2. Newer(r, h) => r = Sending!NoRow
            BY <3>6, <5>1, <6>1 DEF ToCome
          <6> QED BY <3>3, <6>2, NoNews
        <5> QED BY <3>2, <5>1
      <4> QED BY <3>1, <3>6, <4>1 DEF ToCome, Newer, EndOf, Rank, up2
    <3>10. InTime(H(t), transferRow[n][t], pushed[n][t], pulled[n][t], n)'
      BY <3>1, <3>8 DEF up2
    <3> QED BY <2>3, <3>7, <3>9, <3>10 DEF NodeSound
  <2> QED BY <2>2, <2>3
<1>9. RevokedTold'
  BY <1>1, <1>2 DEF RevokedTold, Sending!Site, Sending!NoRow
<1> QED BY <1>5, <1>6, <1>7, <1>8, <1>9 DEF TransferInv, CopiesSound, CopiesOf

\* hub.pull reads the rows the branch is an end of.
LEMMA SendPullRead ==
    ASSUME TransferInv, NEW n \in Node, Sending!PullRead(n)
    PROVE  TransferInv'
<1>1. /\ Sending!TypeOK /\ Sending!GoodsConserved /\ RevokedTold
      /\ \A t \in Transfer : CopiesOf(t) /\ NodesOf(t)
  BY TransferParts
<1>2. /\ pulled[n] = Sending!NoPage
      /\ pulled' = [pulled EXCEPT ![n] = [t \in Transfer |-> IF t \in in[n] THEN transferRow[HQ][t]
                                                              ELSE Sending!NoRow]]
      /\ in' = [in EXCEPT ![n] = {}]
      /\ UNCHANGED <<transferRow, goods, out, pushed, revokedAt, revoked, alerted>>
  BY DEF Sending!PullRead
<1>3. /\ pulled \in [Node -> [Transfer -> Sending!Row]] /\ in \in [Node -> SUBSET Transfer]
      /\ revokedAt \in Nat
  BY <1>1 DEF Sending!TypeOK
<1>4. ASSUME NEW t \in Transfer
      PROVE  /\ pulled'[n][t] = IF t \in in[n] THEN H(t) ELSE Sending!NoRow
             /\ \A m \in Node : m # n => pulled'[m][t] = pulled[m][t] /\ in'[m] = in[m]
  BY <1>2, <1>3 DEF H
<1>5. Sending!TypeOK'
  <2>1. \A t \in Transfer : transferRow[HQ][t] \in Sending!Row /\ Sending!NoRow \in Sending!Row
    BY <1>1, TransferTypes, NoTransfer
  <2> DEFINE pg == [t \in Transfer |-> IF t \in in[n] THEN transferRow[HQ][t] ELSE Sending!NoRow]
  <2>2. pg \in [Transfer -> Sending!Row]
    BY <2>1
  <2> HIDE DEF pg
  <2>3. pulled' \in [Node -> [Transfer -> Sending!Row]]
    BY <1>2, <1>3, <2>2 DEF pg
  <2>4. in' \in [Node -> SUBSET Transfer]
    BY <1>2, <1>3
  <2>5. UNCHANGED <<transferRow, goods, out, pushed, revokedAt, revoked, alerted>>
    BY <1>2
  <2> QED BY <1>1, <2>3, <2>4, <2>5 DEF Sending!TypeOK, Sending!Site, Sending!Row, Sending!Status
<1>6. Sending!GoodsConserved'
  <2>1. UNCHANGED <<transferRow, goods>>
    BY <1>2
  <2> QED BY <1>1, <2>1, GoodsStay
<1>7. ASSUME NEW t \in Transfer PROVE CopiesOf(t)'
  <2>1. Copies(t)' \subseteq Copies(t)
    BY <1>2, <1>4, NoTransfer DEF Copies, H
  <2> QED BY <1>1, <1>2, <1>3, <2>1, CopiesSteady
<1>8. ASSUME NEW t \in Transfer, NEW m \in Node PROVE NodeSound(t, m)'
  <2>1. NodeSound(t, m) /\ CopiesOf(t)
    BY <1>1 DEF NodesOf
  <2>2. CASE m # n
    BY <1>2, <1>4, <2>1, <2>2, SteadySound DEF Steady, H
  <2>3. CASE m = n
    <3> DEFINE h == H(t)
               r == transferRow[n][t]
               up1 == pushed[n][t]
               down2 == pulled'[n][t]
    <3>1. H(t)' = h /\ transferRow'[n][t] = r /\ pushed'[n][t] = up1 /\ out' = out /\ t \notin in'[n]
      BY <1>2, <1>3 DEF H
    <3>2. (down2 = h /\ t \in in[n]) \/ (down2 = Sending!NoRow /\ t \notin in[n])
      BY <1>4
    <3>3. h \in Sending!Row /\ r \in Sending!Row /\ Rank(h) \in -1..3 /\ h.at \in Nat
      BY <1>1, <2>1, NodeFacts
    <3>4. Rank(Sending!NoRow) = -1
      BY NoTransfer
    <3>5. Rank(down2) <= Rank(h)
      BY <3>2, <3>3, <3>4
    <3>6. Reaches(t, n) /\ InTime(h, r, up1, pulled[n][t], n) /\ ToCome(t, n)
      BY <2>1, <2>3 DEF NodeSound
    <3> HIDE DEF down2
    <3>7. Reaches(t, n)'
      <4>1. Rank(pulled[n][t])' <= Rank(H(t))'
        BY <3>1, <3>5 DEF Rank, down2
      <4>2. down2 # Sending!NoRow => EndOf(n, down2)
        BY <3>2, <3>6 DEF Reaches
      <4> QED BY <3>1, <3>6, <4>1, <4>2 DEF Reaches, EndOf, Rank, Sending!MayInsert, down2
    <3>8. InTime(h, r, up1, down2, n)
      <4>1. Outdated(h, r, down2) /\ NotLater(h, down2)
        BY <3>2, <3>3, <3>4 DEF Outdated, NotLater
      <4> QED BY <3>6, <4>1 DEF InTime
    <3>9. ToCome(t, n)'
      <4>1. Newer(h, r) /\ EndOf(n, h) => down2 = h
        <5>1. CASE down2 = Sending!NoRow /\ t \notin in[n]
          <6>1. pulled[n][t] = Sending!NoRow
            BY <1>2, EmptyPage
          <6>2. Newer(h, r) /\ EndOf(n, h) => h = Sending!NoRow
            BY <3>6, <5>1, <6>1 DEF ToCome
          <6> QED BY <3>3, <6>2, NoNews
        <5> QED BY <3>2, <5>1
      <4> QED BY <3>1, <3>6, <4>1 DEF ToCome, Newer, EndOf, Rank, down2
    <3>10. InTime(H(t), transferRow[n][t], pushed[n][t], pulled[n][t], n)'
      BY <3>1, <3>8 DEF down2
    <3> QED BY <2>3, <3>7, <3>9, <3>10 DEF NodeSound
  <2> QED BY <2>2, <2>3
<1>9. RevokedTold'
  BY <1>1, <1>2 DEF RevokedTold, Sending!Site, Sending!NoRow
<1> QED BY <1>5, <1>6, <1>7, <1>8, <1>9 DEF TransferInv, CopiesSound, CopiesOf

\* The hub inserts a row of the branch that made it; no other branch has one yet.
LEMMA HubInserted ==
    ASSUME NEW c \in Sending!Row, NEW r \in Sending!Row, NEW up1 \in Sending!Row,
           NEW down1 \in Sending!Row, NEW n, NEW k, RowSound(c), Sending!MayInsert(n, c),
           r # Sending!NoRow => Sending!MayInsert(k, r) /\ Same(r, c),
           Rank(down1) <= -1, Rank(up1) <= Rank(r)
    PROVE  InTime(c, r, IF k = n THEN Sending!NoRow ELSE up1, down1, k)
<1> DEFINE up2 == IF k = n THEN Sending!NoRow ELSE up1
<1>1. /\ Rank(c) \in -1..3 /\ Rank(r) \in -1..3 /\ Rank(up1) \in -1..3 /\ Rank(down1) \in -1..3
      /\ Rank(Sending!NoRow) = -1
  BY TransferRank, NoTransfer
<1>2. Outdated(c, r, down1) /\ NotLater(c, down1)
  BY <1>1 DEF Outdated, NotLater
<1>3. CASE k # n
  <2>1. r = Sending!NoRow
    BY <1>3 DEF Sending!MayInsert, Same
  <2>2. Rank(up2) # 1 /\ Rank(r) = -1
    BY <1>1, <2>1
  <2> HIDE DEF up2
  <2>3. Known(c, r, k) /\ Overruled(c, r, up2, k) /\ NotAfter(r, up2) /\ Apart(c, r)
    BY <2>1, <2>2 DEF Known, Overruled, NotAfter, Apart
  <2> QED BY <1>2, <2>3 DEF InTime, up2
<1>4. CASE k = n
  <2>1. Rank(up2) # 1
    BY <1>1, <1>4
  <2> HIDE DEF up2
  <2>2. r # Sending!NoRow => By(k, r)
    BY DEF Sending!MayInsert, By, Sending!Actor
  <2>3. Rank(r) = 1 /\ Rank(c) = 1 => r.status = c.status
    <3> SUFFICES ASSUME Rank(r) = 1, Rank(c) = 1 PROVE r.status = c.status
      OBVIOUS
    <3>1. r.status \in Revoked /\ c.status \in Revoked /\ r # Sending!NoRow
      BY <1>1, TransferRank
    <3> QED BY <3>1 DEF Revoked, Sending!MayInsert
  <2>4. Known(c, r, k) /\ Overruled(c, r, up2, k) /\ NotAfter(r, up2) /\ Apart(c, r)
    BY <2>1, <2>2, <2>3 DEF Known, Overruled, NotAfter, Apart
  <2> QED BY <1>2, <2>4 DEF InTime, up2
<1> QED BY <1>3, <1>4

\* What a branch has that is newer the hub does not refuse.
LEMMA HubMerges ==
    ASSUME NEW h \in Sending!Row, NEW r \in Sending!Row, NEW n \in Node, Newer(r, h), Known(h, r, n),
           h = Sending!NoRow => Sending!MayInsert(n, r),
           h # Sending!NoRow => Same(h, r)
    PROVE  Sending!MayMerge(n, h, r)
<1>1. CASE h = Sending!NoRow
  BY <1>1 DEF Sending!MayMerge
<1>2. CASE h # Sending!NoRow
  <2>1. Rank(r) \in -1..3 /\ Rank(h) \in -1..3 /\ r # Sending!NoRow
    BY TransferRank, NoNews
  <2>2. h.status = r.status => Rank(h) = Rank(r)
    BY DEF Rank
  <2>3. By(n, r)
    BY <2>1, <2>2 DEF Known, Newer
  <2>4. Sending!Actor(h, r.status) = n
    BY <1>2, <2>3 DEF By, Sending!Actor, Same
  <2> QED BY <1>2, <2>4, NewerForward DEF Sending!MayMerge
<1> QED BY <1>1, <1>2

\* What is merged is not what was there.
LEMMA TookNews ==
    ASSUME NEW m \in Sending!Row, NEW c \in Sending!Row, c # Sending!NoRow, Took(m, c, m)
    PROVE  FALSE
<1>1. m # Sending!NoRow /\ Newer(c, m) /\ c.status = m.status
  BY DEF Took
<1>2. Rank(c) = Rank(m) /\ Rank(m) \in -1..3
  BY <1>1, TransferRank DEF Rank
<1> QED BY <1>1, <1>2 DEF Newer

-----------------------------------------------------------------------------
\* hub.push: what it writes.
LEMMA PushWrites ==
    ASSUME Sending!TypeOK, NEW n \in Node, NEW answered, Sending!PushApply(n, answered)
    PROVE  /\ pushed[n] \in [Transfer -> Sending!Row] /\ Sending!MergePage(HQ, n, pushed[n])
           /\ \A m \in Node, t \in Transfer :
                 /\ pushed'[m][t] = IF m = n THEN Sending!NoRow ELSE pushed[m][t]
                 /\ t \in in'[m] <=> \/ t \in in[m]
                                     \/ pushed[n][t] # Sending!NoRow /\ H(t)' # H(t) /\ EndOf(m, H(t)')
           /\ \A m \in Node : out[m] \subseteq out'[m]
           /\ UNCHANGED <<goods, pulled, revoked>>
           /\ in' \in [Node -> SUBSET Transfer] /\ out' \in [Node -> SUBSET Transfer]
           /\ pushed' \in [Node -> [Transfer -> Sending!Row]]
<1>1. /\ Sending!MergePage(HQ, n, pushed[n])
      /\ in' = [m \in Node |->
                  in[m] \cup {t \in Sending!OnPage(pushed[n]) :
                                transferRow'[HQ][t] # transferRow[HQ][t]
                                  /\ m \in {transferRow'[HQ][t].from, transferRow'[HQ][t].to}}]
      /\ out' = IF answered THEN out ELSE [out EXCEPT ![n] = @ \cup Sending!OnPage(pushed[n])]
      /\ pushed' = [pushed EXCEPT ![n] = Sending!NoPage]
      /\ UNCHANGED <<goods, pulled, revoked>>
  BY DEF Sending!PushApply
<1>2. /\ pushed \in [Node -> [Transfer -> Sending!Row]] /\ out \in [Node -> SUBSET Transfer]
      /\ in \in [Node -> SUBSET Transfer]
  BY DEF Sending!TypeOK
<1>3. Sending!OnPage(pushed[n]) \subseteq Transfer
      /\ \A t \in Transfer : t \in Sending!OnPage(pushed[n]) <=> pushed[n][t] # Sending!NoRow
  BY DEF Sending!OnPage
<1>4. Sending!NoPage \in [Transfer -> Sending!Row]
  BY NoTransfer DEF Sending!NoPage
<1>5. ASSUME NEW m \in Node, NEW t \in Transfer
      PROVE  pushed'[m][t] = IF m = n THEN Sending!NoRow ELSE pushed[m][t]
  <2>1. pushed'[m] = IF m = n THEN Sending!NoPage ELSE pushed[m]
    BY <1>1, <1>2
  <2> QED BY <2>1, EmptyPage
<1>6. ASSUME NEW m \in Node, NEW t \in Transfer
      PROVE  t \in in'[m] <=> \/ t \in in[m]
                              \/ pushed[n][t] # Sending!NoRow /\ H(t)' # H(t) /\ EndOf(m, H(t)')
  BY <1>1, <1>3 DEF H, EndOf
<1>7. ASSUME NEW m \in Node PROVE out[m] \subseteq out'[m]
  BY <1>1, <1>2
<1>8. in' \in [Node -> SUBSET Transfer] /\ out' \in [Node -> SUBSET Transfer]
  <2>1. \A m \in Node : in'[m] \subseteq Transfer
    BY <1>1, <1>2, <1>3
  <2>2. in' \in [Node -> SUBSET Transfer]
    BY <1>1, <2>1
  <2>3. out' \in [Node -> SUBSET Transfer]
    BY <1>1, <1>2, <1>3
  <2> QED BY <2>2, <2>3
<1>9. pushed' \in [Node -> [Transfer -> Sending!Row]]
  BY <1>1, <1>2, <1>4
<1> QED BY <1>1, <1>2, <1>5, <1>6, <1>7, <1>8, <1>9

LEMMA DownByEnd ==
    ASSUME Sending!TypeOK, NEW t \in Transfer, NEW k \in Node, CopiesOf(t),
           pulled[k][t] # Sending!NoRow, Rank(pulled[k][t]) = 1, By(k, pulled[k][t])
    PROVE  Rank(transferRow[k][t]) >= 1
<1> DEFINE c == pulled[k][t]
           r == transferRow[k][t]
<1>1. /\ c \in Copies(t) /\ c \in Sending!Row /\ r \in Sending!Row
  BY NodeFacts
<1>2. SentAs(c, transferRow[c.from][t]) /\ ReceivedAs(c, transferRow[c.to][t])
  BY <1>1 DEF CopiesOf, CopySound
<1>3. c.status \in Revoked
  BY <1>1, TransferRank
<1>4. CASE c.status = "rejected"
  <2>1. c.from = k
    BY <1>4 DEF By, Sending!Actor
  <2>2. r.status \in Revoked
    BY <1>2, <1>4, <2>1 DEF SentAs
  <2> QED BY <1>1, <2>2, TransferRank
<1>5. CASE c.status = "cancelled"
  <2>1. c.to = k
    BY <1>5 DEF By, Sending!Actor
  <2> QED BY <1>2, <1>5, <2>1 DEF ReceivedAs
<1> QED BY <1>3, <1>4, <1>5 DEF Revoked

LEMMA PushSound ==
    ASSUME Sending!TypeOK, NEW n \in Node, NEW answered, Sending!PushApply(n, answered),
           NEW t \in Transfer, NEW k \in Node, CopiesOf(t), NodeSound(t, k)
    PROVE  NodeSound(t, k)'
<1> DEFINE h == H(t)
           c == pushed[n][t]
           r == transferRow[k][t]
           up1 == pushed[k][t]
           down1 == pulled[k][t]
           up2 == IF k = n THEN Sending!NoRow ELSE up1
<1> SUFFICES ASSUME NEW b, b = H(t)' PROVE NodeSound(t, k)'
  OBVIOUS
<1>1. /\ pushed[n] \in [Transfer -> Sending!Row] /\ Sending!MergePage(HQ, n, pushed[n])
      /\ pushed'[k][t] = up2
      /\ t \in in'[k] <=> t \in in[k] \/ (c # Sending!NoRow /\ b # h /\ EndOf(k, b))
      /\ out[k] \subseteq out'[k] /\ pulled' = pulled
  BY PushWrites
<1>2. /\ b \in Sending!Row /\ transferRow'[k][t] = r
      /\ IF c # Sending!NoRow /\ Sending!MayMerge(n, h, c) THEN Took(h, c, b) ELSE b = h
  <2>1. transferRow' \in [Sending!Site -> [Transfer -> Sending!Row]]
    BY <1>1, NoTransfer, PageMerged
  <2>2. \A x \in Sending!Site : x # HQ => transferRow'[x][t] = transferRow[x][t]
    BY <1>1, NoTransfer, PageMerged
  <2>3. IF c # Sending!NoRow /\ Sending!MayMerge(n, h, c) THEN Took(h, c, b) ELSE b = h
    <3>1. IF pushed[n][t] # Sending!NoRow /\ Sending!MayMerge(n, transferRow[HQ][t], pushed[n][t])
          THEN Took(transferRow[HQ][t], pushed[n][t], transferRow'[HQ][t])
          ELSE transferRow'[HQ][t] = transferRow[HQ][t]
      BY <1>1, NoTransfer, PageMerged
    <3> QED BY <3>1 DEF H
  <2> QED BY <2>1, <2>2, <2>3, NoTransfer, TransferAssumption DEF H
<1>3. \A x \in {h, r, up1, down1} :
         /\ x \in Sending!Row /\ x.at \in Nat /\ x.at <= revokedAt /\ Rank(x) \in -1..3
         /\ x # Sending!NoRow => x \in Copies(t) /\ RowSound(x) /\ Rank(x) \in 0..3
  BY NodeFacts
<1>4. c \in Sending!Row /\ revokedAt \in Nat /\ (c # Sending!NoRow => c \in Copies(t) /\ RowSound(c))
  BY TransferTypes, NodeFacts
<1>5. \A x \in Copies(t) : \A y \in Copies(t) : Same(x, y)
  BY DEF CopiesOf
<1>6. Reaches(t, k) /\ InTime(h, r, up1, down1, k) /\ ToCome(t, k)
  BY DEF NodeSound
<1>7. Rank(Sending!NoRow) = -1
  BY NoTransfer
<1>8. /\ t \in in[k] => EndOf(k, h)
      /\ r # Sending!NoRow => EndOf(k, r)
      /\ down1 # Sending!NoRow => EndOf(k, down1)
      /\ r # Sending!NoRow /\ h = Sending!NoRow => Sending!MayInsert(k, r)
      /\ Rank(up1) <= Rank(r) /\ Rank(down1) <= Rank(h)
  BY <1>6 DEF Reaches
<1>9. /\ Newer(h, r) /\ EndOf(k, h) => t \in in[k] \/ down1 = h
      /\ Newer(r, h) => t \in out[k] \/ up1 = r
  BY <1>6 DEF ToCome
<1>10. k = n => c = up1
  OBVIOUS
<1>11. down1 # Sending!NoRow /\ Rank(down1) = 1 /\ By(k, down1) => Rank(r) >= 1
  BY DownByEnd
<1>12. Rank(up2) <= Rank(r)
  BY <1>3, <1>7, <1>8
<1>13. SUFFICES /\ t \in in'[k] => EndOf(k, b)
                /\ r # Sending!NoRow /\ b = Sending!NoRow => Sending!MayInsert(k, r)
                /\ Rank(down1) <= Rank(b)
                /\ InTime(b, r, up2, down1, k)
                /\ Newer(b, r) /\ EndOf(k, b) => t \in in'[k] \/ down1 = b
                /\ Newer(r, b) => t \in out'[k] \/ up2 = r
  <2> HIDE DEF r, down1, up2, h
  <2>1. /\ H(t)' = b /\ transferRow'[k][t] = r /\ pushed'[k][t] = up2 /\ pulled'[k][t] = down1
    BY <1>1, <1>2 DEF down1
  <2>2. Reaches(t, k)'
    BY <1>8, <1>12, <1>13, <2>1 DEF Reaches, EndOf, Rank, Sending!MayInsert
  <2>3. ToCome(t, k)'
    BY <1>13, <2>1 DEF ToCome, Newer, EndOf, Rank
  <2>4. InTime(H(t), transferRow[k][t], pushed[k][t], pulled[k][t], k)'
    BY <1>13, <2>1
  <2> QED BY <2>2, <2>3, <2>4 DEF NodeSound
<1>14. CASE b = h
  <2>1. Newer(r, h) => t \in out'[k] \/ up2 = r
    <3> SUFFICES ASSUME Newer(r, h), t \notin out'[k], up2 # r PROVE FALSE
      OBVIOUS
    <3>1. up1 = r /\ k = n
      BY <1>1, <1>9
    <3>2. r # Sending!NoRow
      BY <1>3, NoNews
    <3>3. h # Sending!NoRow => Same(h, r)
      BY <1>3, <1>5, <3>2
    <3>4. Known(h, r, k)
      BY <1>6 DEF InTime
    <3> HIDE DEF h, r, c, up1, up2
    <3>5. Sending!MayMerge(n, h, r)
      BY <1>3, <1>8, <3>1, <3>2, <3>3, <3>4, HubMerges
    <3>6. Took(h, c, h) /\ c # Sending!NoRow
      BY <1>2, <1>10, <1>14, <3>1, <3>2, <3>5
    <3> QED BY <1>3, <1>4, <3>6, TookNews
  <2>2. InTime(h, r, up2, down1, k)
    <3> HIDE DEF h, r, up1, down1
    <3>1. Rank(up2) = 1 => up2 = up1
      BY <1>7
    <3>2. Overruled(h, r, up2, k) /\ NotAfter(r, up2)
      BY <1>6, <3>1 DEF InTime, Overruled, NotAfter
    <3> HIDE DEF up2
    <3> QED BY <1>6, <3>2 DEF InTime
  <2> HIDE DEF h, r, c, up1, up2, down1
  <2> QED BY <1>1, <1>8, <1>9, <1>14, <2>1, <2>2
<1>15. CASE b # h
  <2>1. c # Sending!NoRow /\ Sending!MayMerge(n, h, c) /\ Took(h, c, b)
    BY <1>2, <1>15
  <2>2. c \in Copies(t) /\ RowSound(c)
    BY <1>4, <2>1
  <2>3. RowSound(b) /\ Same(b, c) /\ Rank(b) >= Rank(h) /\ b # Sending!NoRow
    BY <2>1, <2>2, NoTransfer, TookKeeps DEF H
  <2>4. \A x \in {h, r, up1, down1} : x # Sending!NoRow => Same(x, c)
    BY <1>3, <1>5, <2>2
  <2>5. Rank(b) = Rank(c) /\ Rank(b) \in -1..3 /\ b.status = c.status
    BY <1>2, <2>1, TransferRank DEF Took, Rank
  <2>6. Newer(r, b) => Newer(r, h)
    <3> HIDE DEF h, r, c
    <3>1. CASE h = Sending!NoRow
      <4>1. Rank(b) >= 0
        BY <1>2, <2>3, TransferRank DEF RowSound
      <4> QED BY <1>3, <1>7, <2>5, <3>1, <4>1 DEF Newer
    <3>2. CASE h # Sending!NoRow
      <4> SUFFICES ASSUME Newer(r, b) PROVE Newer(r, h)
        OBVIOUS
      <4>1. CASE Rank(r) > Rank(b)
        BY <1>3, <2>3, <2>5, <4>1 DEF Newer
      <4>2. CASE Rank(r) = Rank(b) /\ r.status # b.status /\ r.at > b.at
        <5>1. Rank(r) = Rank(b) /\ Rank(r) # 1 => r.status = b.status
          BY <1>2, <1>3, TransferRank
        <5>2. Rank(c) = 1 /\ b.at = revokedAt + 1
          BY <2>1, <2>5, <3>2, <4>2, <5>1 DEF Took
        <5> QED BY <1>3, <1>4, <4>2, <5>2
      <4> QED BY <4>1, <4>2 DEF Newer
    <3> QED BY <3>1, <3>2
  <2>7. Newer(r, b) => t \in out'[k] \/ up2 = r
    <3> SUFFICES ASSUME Newer(r, b) PROVE t \in out'[k] \/ up2 = r
      OBVIOUS
    <3>1. t \in out[k] \/ up1 = r
      BY <1>9, <2>6
    <3>2. CASE k = n /\ up1 = r
      <4>1. r = c
        BY <1>10, <3>2
      <4>2. Rank(r) = Rank(b) /\ r.status = b.status
        BY <2>5, <4>1
      <4> QED BY <1>3, <2>5, <4>2 DEF Newer
    <3> QED BY <1>1, <3>1, <3>2
  <2>8. t \in in'[k] => EndOf(k, b)
    <3>1. t \in in[k] => h # Sending!NoRow
      BY <1>8, NoTransfer DEF EndOf
    <3>2. t \in in[k] => EndOf(k, b)
      BY <1>8, <2>3, <2>4, <3>1 DEF EndOf, Same
    <3> QED BY <1>1, <3>2
  <2>9. InTime(b, r, up2, down1, k)
    <3>1. CASE h = Sending!NoRow
      <4>1. b = c /\ Sending!MayInsert(n, c)
        BY <2>1, <3>1 DEF Took, Sending!MayMerge
      <4>2. Rank(down1) <= -1
        BY <1>7, <1>8, <3>1
      <4>3. r # Sending!NoRow => Sending!MayInsert(k, r) /\ Same(r, c)
        BY <1>8, <2>4, <3>1
      <4> HIDE DEF h, r, c, up1, down1
      <4> QED BY <1>3, <1>4, <1>8, <2>2, <4>1, <4>2, <4>3, HubInserted
    <3>2. CASE h # Sending!NoRow
      <4>1. Same(c, h)
        BY <2>4, <3>2 DEF Same
      <4>2. Sending!Actor(h, c.status) = n
        BY <2>1, <3>2 DEF Sending!MayMerge
      <4>3. By(n, c)
        BY <4>1, <4>2 DEF By, Sending!Actor, Same
      <4>4. r # Sending!NoRow => Same(r, c) /\ RowSound(r) /\ EndOf(k, r) /\ r.at <= revokedAt
        BY <1>3, <1>8, <2>4
      <4>5. down1 # Sending!NoRow =>
               Same(down1, c) /\ RowSound(down1) /\ EndOf(k, down1) /\ down1.at <= revokedAt
        BY <1>3, <1>8, <2>4
      <4>6. up1 # Sending!NoRow => Same(up1, c) /\ RowSound(up1) /\ up1.at <= revokedAt
        BY <1>3, <2>4
      <4>7. /\ h \in Sending!Row /\ r \in Sending!Row /\ up1 \in Sending!Row /\ down1 \in Sending!Row
            /\ b \in Sending!Row /\ c \in Sending!Row /\ revokedAt \in Nat
        BY <1>2, <1>3, <1>4
      <4>8. /\ Took(h, c, b) /\ RowSound(c) /\ InTime(h, r, up1, down1, k)
            /\ Rank(down1) <= Rank(h) /\ Rank(up1) <= Rank(r)
        BY <1>6, <1>8, <2>1, <2>2
      <4> HIDE DEF h, r, c, up1, down1
      <4> QED BY <1>10, <1>11, <3>2, <4>1, <4>3, <4>4, <4>5, <4>6, <4>7, <4>8, HubTookInTime
    <3> QED BY <3>1, <3>2
  <2>10. Rank(down1) <= Rank(b)
    BY <1>3, <1>8, <2>3, <2>5
  <2> HIDE DEF h, r, c, up1, up2, down1
  <2> QED BY <1>1, <1>15, <2>1, <2>3, <2>7, <2>8, <2>9, <2>10
<1> QED BY <1>14, <1>15

LEMMA SendPushApply ==
    ASSUME TransferInv, NEW n \in Node, NEW answered, Sending!PushApply(n, answered)
    PROVE  TransferInv'
<1> DEFINE pg == pushed[n]
<1>1. /\ Sending!TypeOK /\ Sending!GoodsConserved /\ RevokedTold
      /\ \A t \in Transfer : CopiesOf(t) /\ NodesOf(t)
  BY TransferParts
<1>2. /\ pg \in [Transfer -> Sending!Row] /\ Sending!MergePage(HQ, n, pg)
      /\ \A m \in Node, t \in Transfer :
            pushed'[m][t] = IF m = n THEN Sending!NoRow ELSE pushed[m][t]
      /\ UNCHANGED <<goods, pulled, revoked>>
      /\ in' \in [Node -> SUBSET Transfer] /\ out' \in [Node -> SUBSET Transfer]
      /\ pushed' \in [Node -> [Transfer -> Sending!Row]]
  BY <1>1, PushWrites
<1>3. HQ \in Sending!Site /\ \A t \in Transfer : pg[t] # Sending!NoRow => pg[t] \in Copies(t)
  BY NoTransfer DEF Copies
<1> HIDE DEF pg
<1>4. /\ transferRow' \in [Sending!Site -> [Transfer -> Sending!Row]] /\ revokedAt' \in Nat
      /\ alerted' \in [Sending!Site -> SUBSET Transfer]
      /\ \A x \in Sending!Site, t \in Transfer : x # HQ => transferRow'[x][t] = transferRow[x][t]
  BY <1>1, <1>2, <1>3, PageMerged
<1>5. Sending!TypeOK'
  BY <1>1, <1>2, <1>4 DEF Sending!TypeOK, Sending!Site, Sending!Row, Sending!Status
<1>6. Sending!GoodsConserved'
  BY <1>1, <1>2, <1>3, MergedGoods
<1>7. ASSUME NEW t \in Transfer PROVE CopiesOf(t)'
  <2> SUFFICES ASSUME NEW b, b = transferRow'[HQ][t] PROVE CopiesOf(t)'
    OBVIOUS
  <2>1. Copies(t)' \subseteq Copies(t) \cup {b}
    <3>1. \A s \in Sending!Site : transferRow'[s][t] \in {transferRow[s][t], b}
      BY <1>4
    <3>2. \A m \in Node : pushed'[m][t] \in {pushed[m][t], Sending!NoRow} /\ pulled'[m][t] = pulled[m][t]
      BY <1>2
    <3> QED BY <3>1, <3>2 DEF Copies, Sending!Site, Sending!NoRow
  <2> QED BY <1>1, <1>2, <1>3, <2>1, MergedCopies
<1>8. ASSUME NEW t \in Transfer, NEW m \in Node PROVE NodeSound(t, m)'
  BY <1>1, PushSound DEF NodesOf
<1>9. RevokedTold'
  BY <1>1, <1>2, <1>3, MergedTold
<1> QED BY <1>5, <1>6, <1>7, <1>8, <1>9 DEF TransferInv, CopiesSound, CopiesOf

-----------------------------------------------------------------------------
\* node._apply: what it writes.
LEMMA PullWrites ==
    ASSUME Sending!TypeOK, NEW n \in Node, NEW saved, Sending!PullApply(n, saved)
    PROVE  /\ pulled[n] \in [Transfer -> Sending!Row] /\ Sending!MergePage(n, NoSite, pulled[n])
           /\ \A m \in Node, t \in Transfer :
                 /\ pulled'[m][t] = IF m = n THEN Sending!NoRow ELSE pulled[m][t]
                 /\ t \in in[m] => t \in in'[m]
                 /\ t \in in'[m] => t \in in[m] \/ (m = n /\ pulled[n][t] # Sending!NoRow)
           /\ UNCHANGED <<goods, out, pushed, revoked>>
           /\ in' \in [Node -> SUBSET Transfer]
           /\ pulled' \in [Node -> [Transfer -> Sending!Row]]
<1>1. /\ Sending!MergePage(n, NoSite, pulled[n])
      /\ in' = IF saved THEN in ELSE [in EXCEPT ![n] = @ \cup Sending!OnPage(pulled[n])]
      /\ pulled' = [pulled EXCEPT ![n] = Sending!NoPage]
      /\ UNCHANGED <<goods, out, pushed, revoked>>
  BY DEF Sending!PullApply
<1>2. pulled \in [Node -> [Transfer -> Sending!Row]] /\ in \in [Node -> SUBSET Transfer]
  BY DEF Sending!TypeOK
<1>3. Sending!OnPage(pulled[n]) \subseteq Transfer
      /\ \A t \in Transfer : t \in Sending!OnPage(pulled[n]) <=> pulled[n][t] # Sending!NoRow
  BY DEF Sending!OnPage
<1>4. Sending!NoPage \in [Transfer -> Sending!Row]
  BY NoTransfer DEF Sending!NoPage
<1>5. ASSUME NEW m \in Node, NEW t \in Transfer
      PROVE  pulled'[m][t] = IF m = n THEN Sending!NoRow ELSE pulled[m][t]
  <2>1. pulled'[m] = IF m = n THEN Sending!NoPage ELSE pulled[m]
    BY <1>1, <1>2
  <2> QED BY <2>1, EmptyPage
<1>6. in' \in [Node -> SUBSET Transfer]
  BY <1>1, <1>2, <1>3
<1>7. ASSUME NEW m \in Node, NEW t \in Transfer
      PROVE  /\ t \in in[m] => t \in in'[m]
             /\ t \in in'[m] => t \in in[m] \/ (m = n /\ pulled[n][t] # Sending!NoRow)
  BY <1>1, <1>2, <1>3
<1>8. pulled' \in [Node -> [Transfer -> Sending!Row]]
  BY <1>1, <1>2, <1>4
<1> QED BY <1>1, <1>2, <1>5, <1>6, <1>7, <1>8

LEMMA PullSound ==
    ASSUME Sending!TypeOK, NEW n \in Node, NEW saved, Sending!PullApply(n, saved),
           NEW t \in Transfer, CopiesOf(t), NodeSound(t, n)
    PROVE  NodeSound(t, n)'
<1> DEFINE h == H(t)
           c == pulled[n][t]
           r == transferRow[n][t]
           up1 == pushed[n][t]
<1> SUFFICES ASSUME NEW b, b = transferRow'[n][t] PROVE NodeSound(t, n)'
  OBVIOUS
<1>1. /\ pulled[n] \in [Transfer -> Sending!Row] /\ Sending!MergePage(n, NoSite, pulled[n])
      /\ pulled'[n][t] = Sending!NoRow
      /\ t \in in[n] => t \in in'[n]
      /\ t \in in'[n] => t \in in[n] \/ c # Sending!NoRow
      /\ out' = out /\ pushed' = pushed
  BY PullWrites
<1>2. /\ b \in Sending!Row /\ H(t)' = h /\ n \in Sending!Site
      /\ IF c # Sending!NoRow /\ Sending!MayMerge(NoSite, r, c) THEN Took(r, c, b) ELSE b = r
  <2>1. n \in Sending!Site /\ n # HQ /\ HQ \in Sending!Site
    BY NoTransfer, TransferAssumption
  <2>2. transferRow' \in [Sending!Site -> [Transfer -> Sending!Row]]
    BY <1>1, <2>1, PageMerged
  <2>3. transferRow'[HQ][t] = transferRow[HQ][t]
    BY <1>1, <2>1, PageMerged
  <2>4. IF c # Sending!NoRow /\ Sending!MayMerge(NoSite, r, c) THEN Took(r, c, b) ELSE b = r
    BY <1>1, <2>1, PageMerged
  <2> QED BY <2>1, <2>2, <2>3, <2>4 DEF H
<1>3. \A x \in {h, r, up1, c} :
         /\ x \in Sending!Row /\ x.at \in Nat /\ x.at <= revokedAt /\ Rank(x) \in -1..3
         /\ x # Sending!NoRow => x \in Copies(t) /\ RowSound(x) /\ Rank(x) \in 0..3
  BY NodeFacts
<1>4. revokedAt \in Nat
  BY TransferTypes
<1>5. \A x \in Copies(t) : \A y \in Copies(t) : Same(x, y)
  BY DEF CopiesOf
<1>6. Reaches(t, n) /\ InTime(h, r, up1, c, n) /\ ToCome(t, n)
  BY DEF NodeSound
<1>7. Rank(Sending!NoRow) = -1
  BY NoTransfer
<1>8. /\ t \in in[n] => EndOf(n, h)
      /\ r # Sending!NoRow => EndOf(n, r)
      /\ c # Sending!NoRow => EndOf(n, c)
      /\ r # Sending!NoRow /\ h = Sending!NoRow => Sending!MayInsert(n, r)
      /\ Rank(up1) <= Rank(r) /\ Rank(c) <= Rank(h)
  BY <1>6 DEF Reaches
<1>9. /\ Newer(h, r) /\ EndOf(n, h) => t \in in[n] \/ c = h
      /\ Newer(r, h) => t \in out[n] \/ up1 = r
  BY <1>6 DEF ToCome
<1>10. c # Sending!NoRow => h # Sending!NoRow /\ Same(c, h)
  <2>1. c # Sending!NoRow => h # Sending!NoRow
    BY <1>3, <1>7, <1>8
  <2> QED BY <1>3, <1>5, <2>1
<1>11. t \in in'[n] => EndOf(n, h)
  BY <1>1, <1>8, <1>10 DEF EndOf, Same
<1>12. SUFFICES /\ b # Sending!NoRow => EndOf(n, b)
                /\ b # Sending!NoRow /\ h = Sending!NoRow => Sending!MayInsert(n, b)
                /\ Rank(up1) <= Rank(b)
                /\ InTime(h, b, up1, Sending!NoRow, n)
                /\ Newer(h, b) /\ EndOf(n, h) => t \in in'[n]
                /\ Newer(b, h) => t \in out[n] \/ up1 = b
  <2> HIDE DEF up1, h
  <2>1. /\ H(t)' = h /\ transferRow'[n][t] = b /\ pushed'[n][t] = up1 /\ pulled'[n][t] = Sending!NoRow
        /\ out' = out
    BY <1>1, <1>2 DEF up1
  <2>2. Rank(Sending!NoRow) <= Rank(h)
    BY <1>3, <1>7
  <2>3. Reaches(t, n)'
    <3>1. Rank(pulled[n][t])' <= Rank(H(t))'
      BY <2>1, <2>2 DEF Rank, Sending!NoRow
    <3>2. Rank(pushed[n][t])' <= Rank(transferRow[n][t])'
      BY <1>12, <2>1 DEF Rank
    <3> QED BY <1>11, <1>12, <2>1, <3>1, <3>2 DEF Reaches, EndOf, Sending!MayInsert, Sending!NoRow
  <2>4. ToCome(t, n)'
    BY <1>12, <2>1 DEF ToCome, Newer, EndOf, Rank
  <2>5. InTime(H(t), transferRow[n][t], pushed[n][t], pulled[n][t], n)'
    BY <1>12, <2>1
  <2> QED BY <2>3, <2>4, <2>5 DEF NodeSound
<1>13. CASE b = r
  <2>1. Newer(h, r) /\ EndOf(n, h) => t \in in'[n]
    <3> SUFFICES ASSUME Newer(h, r), EndOf(n, h), t \notin in'[n] PROVE FALSE
      OBVIOUS
    <3>1. c = h /\ h # Sending!NoRow
      BY <1>1, <1>3, <1>9, NoNews
    <3>2. Sending!MayMerge(NoSite, r, c)
      BY <3>1, NewerForward, TransferAssumption DEF Sending!MayMerge
    <3>3. Took(r, c, r) /\ c # Sending!NoRow
      BY <1>2, <1>13, <3>1, <3>2
    <3> HIDE DEF c, r
    <3> QED BY <1>3, <3>3, TookNews
  <2>2. InTime(h, r, up1, Sending!NoRow, n)
    <3>1. Outdated(h, r, Sending!NoRow) /\ NotLater(h, Sending!NoRow)
      BY <1>7 DEF Outdated, NotLater
    <3> QED BY <1>6, <3>1 DEF InTime
  <2> HIDE DEF h, r, up1, c
  <2> QED BY <1>8, <1>9, <1>13, <2>1, <2>2
<1>14. CASE b # r
  <2>1. c # Sending!NoRow /\ Took(r, c, b) /\ c \in Copies(t)
    BY <1>2, <1>3, <1>14
  <2>2. RowSound(c)
    BY <1>3, <2>1
  <2>3. RowSound(b) /\ Same(b, c) /\ Rank(b) >= Rank(r) /\ b # Sending!NoRow
    BY <1>2, <2>1, TookKeeps
  <2>4. EndOf(n, b)
    BY <1>8, <2>1, <2>3 DEF EndOf, Same
  <2>5. Rank(b) = Rank(c) /\ Rank(b) \in -1..3 /\ b.status = c.status
    BY <1>2, <2>1, TransferRank DEF Took, Rank
  <2>6. /\ InTime(h, b, up1, Sending!NoRow, n)
        /\ Rank(h) > Rank(b) \/ h.status = b.status
    <3>1. /\ h \in Sending!Row /\ r \in Sending!Row /\ c \in Sending!Row /\ up1 \in Sending!Row
          /\ up1 # Sending!NoRow => up1.at <= revokedAt
      BY <1>3
    <3>2. c.status # "none" /\ InTime(h, r, up1, c, n) /\ Rank(c) <= Rank(h) /\ Rank(up1) <= Rank(r)
      BY <1>6, <1>8, <2>2 DEF RowSound
    <3> HIDE DEF h, r, up1, c
    <3> QED BY <1>2, <1>4, <2>1, <3>1, <3>2, BranchTookInTime
  <2>7. h.status = b.status => Rank(h) = Rank(b)
    BY DEF Rank
  <2>8. Newer(h, b) /\ EndOf(n, h) => t \in in'[n]
    <3> SUFFICES ASSUME Newer(h, b), EndOf(n, h) PROVE t \in in'[n]
      OBVIOUS
    <3> HIDE DEF h, r, c
    <3>1. Rank(h) > Rank(b)
      BY <1>3, <2>5, <2>6, <2>7 DEF Newer
    <3>2. Newer(h, r)
      BY <1>3, <2>3, <2>5, <3>1 DEF Newer
    <3>3. c # h
      BY <1>3, <2>5, <3>1
    <3> QED BY <1>1, <1>9, <3>2, <3>3
  <2>9. ~Newer(b, h)
    <3> HIDE DEF h
    <3> QED BY <1>3, <2>5, <2>6, <2>7 DEF Newer
  <2>10. Rank(up1) <= Rank(b)
    BY <1>3, <1>8, <2>3, <2>5
  <2> HIDE DEF h, r, up1, c
  <2> QED BY <1>10, <2>1, <2>4, <2>6, <2>8, <2>9, <2>10
<1> QED BY <1>13, <1>14

LEMMA SendPullApply ==
    ASSUME TransferInv, NEW n \in Node, NEW saved, Sending!PullApply(n, saved)
    PROVE  TransferInv'
<1> DEFINE pg == pulled[n]
<1>1. /\ Sending!TypeOK /\ Sending!GoodsConserved /\ RevokedTold
      /\ \A t \in Transfer : CopiesOf(t) /\ NodesOf(t)
  BY TransferParts
<1>2. /\ pg \in [Transfer -> Sending!Row] /\ Sending!MergePage(n, NoSite, pg)
      /\ \A m \in Node, t \in Transfer :
            /\ pulled'[m][t] = IF m = n THEN Sending!NoRow ELSE pulled[m][t]
            /\ t \in in[m] => t \in in'[m]
            /\ t \in in'[m] => t \in in[m] \/ (m = n /\ pulled[n][t] # Sending!NoRow)
      /\ UNCHANGED <<goods, out, pushed, revoked>>
      /\ in' \in [Node -> SUBSET Transfer]
      /\ pulled' \in [Node -> [Transfer -> Sending!Row]]
  BY <1>1, PullWrites
<1>3. n \in Sending!Site /\ \A t \in Transfer : pg[t] # Sending!NoRow => pg[t] \in Copies(t)
  BY NoTransfer DEF Copies
<1> HIDE DEF pg
<1>4. /\ transferRow' \in [Sending!Site -> [Transfer -> Sending!Row]] /\ revokedAt' \in Nat
      /\ alerted' \in [Sending!Site -> SUBSET Transfer]
      /\ \A x \in Sending!Site, t \in Transfer : x # n => transferRow'[x][t] = transferRow[x][t]
  BY <1>1, <1>2, <1>3, PageMerged
<1>5. Sending!TypeOK'
  BY <1>1, <1>2, <1>4 DEF Sending!TypeOK, Sending!Site, Sending!Row, Sending!Status
<1>6. Sending!GoodsConserved'
  BY <1>1, <1>2, <1>3, MergedGoods
<1>7. ASSUME NEW t \in Transfer PROVE CopiesOf(t)'
  <2> SUFFICES ASSUME NEW b, b = transferRow'[n][t] PROVE CopiesOf(t)'
    OBVIOUS
  <2>1. Copies(t)' \subseteq Copies(t) \cup {b}
    <3>1. \A s \in Sending!Site : transferRow'[s][t] \in {transferRow[s][t], b}
      BY <1>4
    <3>2. \A m \in Node : pulled'[m][t] \in {pulled[m][t], Sending!NoRow} /\ pushed'[m][t] = pushed[m][t]
      BY <1>2
    <3> QED BY <3>1, <3>2 DEF Copies, Sending!Site, Sending!NoRow
  <2> QED BY <1>1, <1>2, <1>3, <2>1, MergedCopies
<1>8. ASSUME NEW t \in Transfer, NEW m \in Node PROVE NodeSound(t, m)'
  <2>1. NodeSound(t, m) /\ CopiesOf(t)
    BY <1>1 DEF NodesOf
  <2>2. CASE m = n
    BY <1>1, <2>1, <2>2, PullSound
  <2>3. CASE m # n
    <3>1. H(t)' = H(t) /\ transferRow'[m][t] = transferRow[m][t]
      BY <1>4, <2>3, NoTransfer, TransferAssumption DEF H
    <3> QED BY <1>2, <2>1, <2>3, <3>1, SteadySound DEF Steady
  <2> QED BY <2>2, <2>3
<1>9. RevokedTold'
  BY <1>1, <1>2, <1>3, MergedTold
<1> QED BY <1>5, <1>6, <1>7, <1>8, <1>9 DEF TransferInv, CopiesSound, CopiesOf

-----------------------------------------------------------------------------
LEMMA SendInit ==
    ASSUME Sending!Init
    PROVE  TransferInv
<1>1. /\ transferRow = [s \in Sending!Site |-> Sending!NoPage]
      /\ goods = [s \in Sending!Site |-> Goods]
      /\ out = [n \in Node |-> {}] /\ in = [n \in Node |-> {}]
      /\ pushed = [n \in Node |-> Sending!NoPage] /\ pulled = [n \in Node |-> Sending!NoPage]
      /\ revokedAt = 0 /\ revoked = {} /\ alerted = [s \in Sending!Site |-> {}]
  BY DEF Sending!Init
<1>2. Sending!NoPage \in [Transfer -> Sending!Row]
  BY NoTransfer DEF Sending!NoPage
<1>3. Goods \in Nat
  BY TransferAssumption
<1>4. Sending!TypeOK
  BY <1>1, <1>2, <1>3 DEF Sending!TypeOK
<1>5. ASSUME NEW t \in Transfer
      PROVE  /\ \A s \in Sending!Site : transferRow[s][t] = Sending!NoRow
             /\ \A n \in Node : pushed[n][t] = Sending!NoRow /\ pulled[n][t] = Sending!NoRow
  BY <1>1, EmptyPage
<1>6. Sending!GoodsConserved
  <2>1. Sending!Sum(goods) = Goods * Cardinality(Sending!Site)
    BY <1>1, <1>3, SiteFinite, SumAlike
  <2>2. ASSUME NEW x \in Sending!Site \X Transfer
        PROVE  /\ SentOf(x[1], transferRow[x[1]][x[2]]) = 0
               /\ ArrivedOf(x[1], transferRow[x[1]][x[2]]) = 0
    <3>1. transferRow[x[1]][x[2]] = Sending!NoRow
      BY <1>5
    <3> QED BY <3>1, NoTransfer DEF SentOf, ArrivedOf
  <2>3. /\ SentIn(transferRow) = [x \in Sending!Site \X Transfer |-> 0]
        /\ ArrivedIn(transferRow) = [x \in Sending!Site \X Transfer |-> 0]
    BY <2>2 DEF SentIn, ArrivedIn
  <2>4. Sending!Sum([x \in Sending!Site \X Transfer |-> 0]) = 0
    <3>1. Sending!Sum([x \in Sending!Site \X Transfer |-> 0]) = 0 * Cardinality(Sending!Site \X Transfer)
      BY SiteFinite, SumAlike
    <3>2. Cardinality(Sending!Site \X Transfer) \in Nat
      BY SiteFinite, FS_CardinalityType
    <3> QED BY <3>1, <3>2
  <2>5. Sending!Sum(Sending!Sent) = 0 /\ Sending!Sum(Sending!Arrived) = 0
    BY <2>3, <2>4, SentRows
  <2>6. Sending!Cardinality(Sending!Site) = Cardinality(Sending!Site)
    BY DEF Sending!Cardinality, Cardinality
  <2>7. Cardinality(Sending!Site) \in Nat
    BY SiteFinite, FS_CardinalityType
  <2>8. Goods * Cardinality(Sending!Site) \in Int
    BY <1>3, <2>7
  <2> QED BY <2>1, <2>5, <2>6, <2>8 DEF Sending!GoodsConserved
<1>7. ASSUME NEW t \in Transfer PROVE CopiesOf(t)
  <2>1. Copies(t) = {}
    BY <1>5 DEF Copies
  <2> QED BY <2>1 DEF CopiesOf
<1>8. ASSUME NEW t \in Transfer, NEW n \in Node PROVE NodeSound(t, n)
  <2>1. /\ H(t) = Sending!NoRow /\ transferRow[n][t] = Sending!NoRow
        /\ pushed[n][t] = Sending!NoRow /\ pulled[n][t] = Sending!NoRow /\ t \notin in[n]
    BY <1>1, <1>5, NoTransfer DEF H
  <2>2. Reaches(t, n)
    BY <2>1, NoTransfer DEF Reaches
  <2>3. InTime(H(t), transferRow[n][t], pushed[n][t], pulled[n][t], n)
    BY <2>1, NoTransfer DEF InTime, Known, Overruled, Outdated, NotAfter, NotLater, Apart
  <2>4. ToCome(t, n)
    BY <2>1, NoTransfer, NoNews DEF ToCome
  <2> QED BY <2>2, <2>3, <2>4 DEF NodeSound
<1>9. RevokedTold
  BY <1>1 DEF RevokedTold
<1> QED BY <1>4, <1>6, <1>7, <1>8, <1>9 DEF TransferInv, CopiesSound, CopiesOf

LEMMA SendNext ==
    ASSUME TransferInv, Sending!Next
    PROVE  TransferInv'
<1>1. ASSUME NEW s \in Sending!Site, NEW t \in Transfer,
             \/ \E p \in Sending!Site : Sending!CreateRequest(s, p, t)
             \/ \E p \in Sending!Site, q \in 1..(Goods + 1) : Sending!CreateTransfer(s, p, t, q)
             \/ \E q \in 1..(Goods + 1) : Sending!Ship(s, t, q)
             \/ Sending!Reject(s, t) \/ Sending!Cancel(s, t)
             \/ \E q \in 0..Goods : Sending!Receive(s, t, q)
      PROVE  TransferInv'
  <2>1. 1..(Goods + 1) \subseteq Nat /\ 0..Goods \subseteq Nat
    BY TransferAssumption
  <2> QED BY <1>1, <2>1, SendCreateRequest, SendCreateTransfer, SendShip, SendReject, SendCancel, SendReceive
<1>2. ASSUME NEW n \in Node,
             \/ Sending!PushRead(n) \/ Sending!PullRead(n)
             \/ \E done \in BOOLEAN : Sending!PushApply(n, done) \/ Sending!PullApply(n, done)
      PROVE  TransferInv'
  BY <1>2, SendPushRead, SendPullRead, SendPushApply, SendPullApply
<1> QED BY <1>1, <1>2 DEF Sending!Next

LEMMA SendStays ==
    ASSUME TransferInv, UNCHANGED sendingVars
    PROVE  TransferInv'
<1>1. /\ Sending!TypeOK /\ Sending!GoodsConserved /\ RevokedTold
      /\ \A t \in Transfer : CopiesOf(t) /\ NodesOf(t)
  BY TransferParts
<1>2. UNCHANGED <<transferRow, goods, out, in, pushed, pulled, revokedAt, revoked, alerted>>
  BY DEF sendingVars
<1>3. Sending!TypeOK'
  BY <1>1, <1>2 DEF Sending!TypeOK, Sending!Site, Sending!Row, Sending!Status
<1>4. Sending!GoodsConserved'
  BY <1>1, <1>2, GoodsStay
<1>5. ASSUME NEW t \in Transfer PROVE CopiesOf(t)'
  <2>1. Copies(t)' \subseteq Copies(t)
    BY <1>2 DEF Copies, Sending!Site, Sending!NoRow
  <2>2. revokedAt \in Nat
    BY <1>1, TransferTypes
  <2> QED BY <1>1, <1>2, <2>1, <2>2, CopiesSteady
<1>6. ASSUME NEW t \in Transfer, NEW n \in Node PROVE NodeSound(t, n)'
  <2>1. Steady(t, n)
    BY <1>2 DEF Steady, H
  <2> QED BY <1>1, <2>1, SteadySound DEF NodesOf
<1>7. RevokedTold'
  BY <1>1, <1>2 DEF RevokedTold, Sending!Site, Sending!NoRow
<1> QED BY <1>3, <1>4, <1>5, <1>6, <1>7 DEF TransferInv, CopiesSound, CopiesOf

\* Every copy of a transfer says no more than its ends have done, goods are conserved,
\* and what the hub and a branch have differently is still sent, whatever page is lost,
\* late or comes again (branch_service, engine._merge_transfer).
THEOREM TransfersHold == Spec => []TransferInv
<1>1. Init => TransferInv
  BY SendInit DEF Init
<1>2. TransferInv /\ [Next]_all => TransferInv'
  <2> SUFFICES ASSUME TransferInv, [Next]_all PROVE TransferInv'
    OBVIOUS
  <2>1. CASE Sending!Next
    BY <2>1, SendNext
  <2>2. CASE UNCHANGED sendingVars
    BY <2>2, SendStays
  <2> QED BY <2>1, <2>2 DEF Next, all
<1> QED BY <1>1, <1>2, PTL DEF Spec

-----------------------------------------------------------------------------
LEMMA SettledAlike ==
    ASSUME TransferInv, NEW t \in Transfer, ~Sending!Travelling(t), NEW s \in Node, EndOf(s, H(t))
    PROVE  /\ transferRow[s][t].status = H(t).status
           /\ transferRow[s][t].shipped = H(t).shipped
           /\ transferRow[s][t].received = H(t).received
<1> DEFINE h == H(t)
           r == transferRow[s][t]
<1>1. Sending!TypeOK /\ CopiesOf(t) /\ NodeSound(t, s)
  BY TransferParts DEF NodesOf
<1>2. t \notin in[s] /\ t \notin out[s] /\ pushed[s][t] = Sending!NoRow /\ pulled[s][t] = Sending!NoRow
  BY DEF Sending!Travelling, Sending!OnPage
<1>3. /\ h \in Sending!Row /\ r \in Sending!Row /\ h.at \in Nat /\ r.at \in Nat
      /\ Rank(h) \in -1..3 /\ Rank(r) \in -1..3
      /\ h # Sending!NoRow => h \in Copies(t) /\ RowSound(h) /\ Rank(h) \in 0..3
      /\ r # Sending!NoRow => r \in Copies(t) /\ RowSound(r)
  BY <1>1, NodeFacts
<1>4. h # Sending!NoRow
  BY NoTransfer, TransferAssumption DEF EndOf
<1>5. ~Newer(h, r) /\ ~Newer(r, h)
  BY <1>1, <1>2, <1>3, <1>4, NoNews DEF NodeSound, ToCome
<1>6. Apart(h, r)
  BY <1>1 DEF NodeSound, InTime
<1>7. Rank(h) = Rank(r) /\ h.status = r.status
  <2> HIDE DEF h, r
  <2>1. Rank(h) = Rank(r)
    BY <1>3, <1>5 DEF Newer
  <2>2. Rank(h) # 1 => h.status = r.status
    BY <1>3, <2>1, TransferRank
  <2>3. Rank(h) = 1 => h.status = r.status
    BY <1>3, <1>5, <1>6, <2>1 DEF Newer, Apart
  <2> QED BY <2>1, <2>2, <2>3
<1>8. r # Sending!NoRow
  BY <1>3, <1>4, <1>7, NoTransfer
<1>9. /\ RowSound(h) /\ SentAs(h, transferRow[h.from][t]) /\ ReceivedAs(h, transferRow[h.to][t])
      /\ RowSound(r) /\ SentAs(r, transferRow[r.from][t]) /\ ReceivedAs(r, transferRow[r.to][t])
      /\ Same(h, r)
  BY <1>1, <1>3, <1>4, <1>8 DEF CopiesOf, CopySound
<1> HIDE DEF h, r
<1>10. h.shipped = r.shipped
  BY <1>7, <1>9 DEF SentAs, Same, RowSound
<1>11. h.received = r.received
  BY <1>7, <1>9 DEF ReceivedAs, Same, RowSound
<1> QED BY <1>7, <1>10, <1>11 DEF h, r

\* With no row under way the ends of a transfer have what the hub has
\* (engine._merge_transfer, TRANSFER_RANK).
LEMMA EndsAgreeInQuiet ==
    ASSUME TransferInv
    PROVE  Sending!EndsAgree
<1> SUFFICES ASSUME NEW t \in Transfer, ~Sending!Travelling(t),
                    NEW s \in {H(t).from, H(t).to} \ {NoSite}
             PROVE  /\ transferRow[s][t].status = H(t).status
                    /\ transferRow[s][t].shipped = H(t).shipped
                    /\ transferRow[s][t].received = H(t).received
  BY DEF Sending!EndsAgree, H
<1>1. Sending!TypeOK
  BY TransferParts
<1>2. H(t).from \in Sending!Site \cup {NoSite} /\ H(t).to \in Sending!Site \cup {NoSite}
  BY <1>1, TransferTypes, TransferFields
<1>3. s = HQ \/ (s \in Node /\ EndOf(s, H(t)))
  BY <1>2, NoTransfer DEF EndOf
<1>4. CASE s = HQ
  BY <1>4 DEF H
<1> QED BY <1>3, <1>4, SettledAlike

\* Who cancelled is told, once nothing is under way (transfer_alerts).
LEMMA ToldInQuiet ==
    ASSUME TransferInv
    PROVE  Sending!ReceiverTold
<1> SUFFICES ASSUME NEW t \in Transfer, t \in revoked, H(t).status \in Gone, ~Sending!Travelling(t)
             PROVE  t \in alerted[H(t).to]
  BY DEF Sending!ReceiverTold, Sending!Overtaken, H, Gone
<1>1. Sending!TypeOK /\ RevokedTold /\ CopiesOf(t) /\ Sending!EndsAgree
  BY TransferParts, EndsAgreeInQuiet
<1>2. PICK s \in Sending!Site :
          /\ transferRow[s][t] # Sending!NoRow /\ transferRow[s][t].to = s
          /\ transferRow[s][t].status \in Revoked \/ t \in alerted[s]
  BY <1>1 DEF RevokedTold
<1>3. H(t) # Sending!NoRow
  BY NoTransfer DEF Gone
<1>4. Same(transferRow[s][t], H(t))
  BY <1>1, <1>2, <1>3, NoTransfer DEF CopiesOf, Copies, H
<1>5. s = H(t).to
  BY <1>2, <1>4 DEF Same
<1>6. transferRow[s][t].status = H(t).status
  BY <1>1, <1>5, NoTransfer DEF Sending!EndsAgree, H
<1> QED BY <1>2, <1>5, <1>6 DEF Gone, Revoked

\* A receiver that cancelled is told when the goods were sent nevertheless
\* (engine._merge_transfer, transfer_alerts).
THEOREM ReceiverToldHolds == Spec => []ReceiverTold
<1>1. TransferInv => ReceiverTold
  BY ToldInQuiet DEF ReceiverTold
<1> QED BY <1>1, TransfersHold, PTL

\* Portions and ingredients are neither lost nor made on their way
\* (node._apply_online_stock; branch_service.ship and receive).
THEOREM GoodsConservedHolds == Spec => []GoodsConserved
<1>1. StockInv /\ TransferInv => GoodsConserved
  BY DEF StockInv, TransferInv, GoodsConserved
<1> QED BY <1>1, StockHolds, TransfersHold, PTL

-----------------------------------------------------------------------------
(***************************************************************************)
(* Orders of a branch (OrderSync).                                         *)
(*                                                                         *)
(* What either host does with an order only moves its row forward, and a   *)
(* merge takes the later of two rows, part by part.  What one of them has  *)
(* further than the other is still to be sent, or on its page.             *)
(***************************************************************************)
B(o) == orderRow[Orders!Branch][o]
U(o) == orderRow[Orders!Hub][o]
Stage(r) == Orders!Rank(r.status)
Table == {"unpaid", "settled", "refund_required", "refunded"}
Open == {"unpaid", "authorizing"}
Taken == {"at_once", "settled", "refund_required"}

\* A copy of an order that the branch has as b.
CopyOf(c, b) ==
    /\ c.status # "none" /\ c.pay # "none" /\ b # Orders!NoRow
    /\ c.pay \in Table <=> b.pay \in Table
    /\ c.pay \in Open \/ b.pay \notin Open
    /\ b.total <= c.total /\ (b.total < c.total => c.pay = "unpaid")
    /\ c.refunded <= b.total /\ (c.refunded > 0 => b.pay \notin Open)
    /\ c.voided <= b.voided
    /\ IF c.status = "Cancelled" THEN c.pay # "settled" ELSE c.pay \notin {"refund_required", "refunded"}

\* What host r has that host q, with page p on its way, does not know; r has nothing to send.
Sends(r, q, p) ==
    /\ Stage(r) > Stage(q) => p.status = r.status
    /\ r.refunded > q.refunded => p.refunded = r.refunded

BranchSends(b, u, p) ==
    /\ b.voided > u.voided => p.voided = b.voided
    /\ b # Orders!NoRow /\ (u = Orders!NoRow \/ b.total < u.total) => p # Orders!NoRow /\ p.total = b.total
    /\ b.pay \in Taken /\ u.pay \in Open \cup {"none"} => p.pay \in Taken

Before(p, r) == Stage(p) <= Stage(r) /\ p.refunded <= r.refunded

OrderSound(o) ==
    LET b == B(o)
        u == U(o)
        down2 == page[Orders!Branch][o]
        up2 == page[Orders!Hub][o]
    IN  /\ \A c \in {b, u, down2, up2} : c # Orders!NoRow => CopyOf(c, b)
        /\ b.pay = "unpaid" => b.total + b.voided = Total
        /\ back[Orders!Branch][o] <= b.refunded /\ back[Orders!Hub][o] <= u.refunded
        /\ Before(up2, b) /\ Before(down2, u)
        /\ o \notin dirty[Orders!Branch] => Sends(b, u, up2) /\ BranchSends(b, u, up2)
        /\ o \notin dirty[Orders!Hub] => Sends(u, b, down2)

OrderInv == Orders!TypeOK /\ \A o \in Order : OrderSound(o)

-----------------------------------------------------------------------------
LEMMA OrderSites ==
    /\ Orders!Branch \in Orders!Site /\ Orders!Hub \in Orders!Site /\ Orders!Branch # Orders!Hub
    /\ \A s \in Orders!Site : s = Orders!Branch \/ s = Orders!Hub
    /\ Orders!Other(Orders!Branch) = Orders!Hub /\ Orders!Other(Orders!Hub) = Orders!Branch
  BY DEF Orders!Site, Orders!Branch, Orders!Hub, Orders!Other

LEMMA NoOrder ==
    /\ Orders!NoRow \in Orders!Row /\ Orders!NoRow.status = "none" /\ Orders!NoRow.pay = "none"
    /\ Orders!NoRow.total = 0 /\ Orders!NoRow.voided = 0 /\ Orders!NoRow.refunded = 0
    /\ Stage(Orders!NoRow) = -1
  BY OrderAssumption DEF Orders!NoRow, Orders!Row, Orders!Pay, Stage, Orders!Rank

LEMMA OrderFields ==
    ASSUME NEW r \in Orders!Row
    PROVE  /\ r.status \in {"none", "Pending", "Completed", "PickedUp", "Cancelled"}
           /\ r.pay \in Orders!Pay
           /\ r.total \in 0..Total /\ r.voided \in 0..Total /\ r.refunded \in 0..Total
           /\ r.total \in Nat /\ r.voided \in Nat /\ r.refunded \in Nat
  BY OrderAssumption DEF Orders!Row, Orders!Status

\* ORDER_RANK.
LEMMA StageOf ==
    ASSUME NEW r \in Orders!Row
    PROVE  /\ Stage(r) \in -1..3
           /\ Stage(r) = -1 <=> r.status = "none"
           /\ Stage(r) = 0 <=> r.status = "Pending"
           /\ Stage(r) = 1 <=> r.status = "Completed"
           /\ Stage(r) = 2 <=> r.status = "PickedUp"
           /\ Stage(r) = 3 <=> r.status = "Cancelled"
  BY OrderFields DEF Stage, Orders!Rank

LEMMA StageSame ==
    ASSUME NEW r \in Orders!Row, NEW q \in Orders!Row, Stage(r) = Stage(q)
    PROVE  r.status = q.status
  BY StageOf

-----------------------------------------------------------------------------
\* The branch moves its row from b to d.
Grows(b, d) ==
    /\ Stage(b) <= Stage(d) /\ b.refunded <= d.refunded /\ b.voided <= d.voided
    /\ d.pay \in Table <=> b.pay \in Table
    /\ d.pay \in Open => b.pay \in Open
    /\ d.total <= b.total /\ (d.total < b.total => b.pay = "unpaid")

LEMMA CopyGrows ==
    ASSUME NEW c \in Orders!Row, NEW b \in Orders!Row, NEW d \in Orders!Row,
           CopyOf(c, b), Grows(b, d), d # Orders!NoRow
    PROVE  CopyOf(c, d)
<1>1. /\ c.total \in Nat /\ b.total \in Nat /\ d.total \in Nat /\ c.refunded \in Nat
      /\ c.voided \in Nat /\ b.voided \in Nat /\ d.voided \in Nat /\ c.pay \in Orders!Pay
  BY OrderFields
<1>2. d.total <= c.total
  BY <1>1 DEF CopyOf, Grows
<1>3. d.total < c.total => c.pay = "unpaid"
  <2>1. CASE b.total < c.total
    BY <2>1 DEF CopyOf
  <2>2. CASE b.total = c.total
    <3>1. d.total < b.total => b.pay = "unpaid"
      BY DEF Grows
    <3>2. b.pay = "unpaid" => c.pay = "unpaid"
      BY DEF CopyOf, Table, Open
    <3> QED BY <2>2, <3>1, <3>2
  <2> QED BY <1>1, <2>1, <2>2 DEF CopyOf
<1>4. c.refunded <= d.total
  <2>1. CASE d.total < b.total
    <3>1. b.pay \in Open
      BY <2>1 DEF Grows, Open
    <3> QED BY <1>1, <3>1 DEF CopyOf
  <2>2. CASE d.total = b.total
    BY <2>2 DEF CopyOf
  <2> QED BY <1>1, <2>1, <2>2 DEF Grows
<1>5. c.voided <= d.voided
  BY <1>1 DEF CopyOf, Grows
<1>6. /\ c.pay \in Table <=> d.pay \in Table
      /\ c.pay \in Open \/ d.pay \notin Open
      /\ c.refunded > 0 => d.pay \notin Open
  BY DEF CopyOf, Grows
<1> QED BY <1>2, <1>3, <1>4, <1>5, <1>6 DEF CopyOf

\* What the branch writes.
LEMMA BranchWrites ==
    ASSUME NEW b \in Orders!Row, NEW d \in Orders!Row, NEW u \in Orders!Row,
           NEW down2 \in Orders!Row, NEW up2 \in Orders!Row,
           \A c \in {b, u, down2, up2} : c # Orders!NoRow => CopyOf(c, b),
           Before(up2, b), CopyOf(d, d), b = Orders!NoRow \/ Grows(b, d)
    PROVE  /\ \A c \in {d, u, down2, up2} : c # Orders!NoRow => CopyOf(c, d)
           /\ Before(up2, d)
           /\ Sends(u, b, down2) => Sends(u, d, down2)
<1>1. /\ Stage(b) \in -1..3 /\ Stage(d) \in -1..3 /\ Stage(u) \in -1..3 /\ Stage(up2) \in -1..3
      /\ b.refunded \in Nat /\ d.refunded \in Nat /\ u.refunded \in Nat /\ up2.refunded \in Nat
  BY StageOf, OrderFields
<1>2. d # Orders!NoRow
  BY DEF CopyOf
<1>3. CASE b = Orders!NoRow
  <2>1. u = Orders!NoRow /\ down2 = Orders!NoRow /\ up2 = Orders!NoRow
    BY <1>3 DEF CopyOf
  <2> QED BY <1>1, <2>1, NoOrder DEF Before, Sends
<1>4. CASE Grows(b, d)
  <2>1. \A c \in {u, down2, up2} : c # Orders!NoRow => CopyOf(c, d)
    BY <1>2, <1>4, CopyGrows
  <2>2. Before(up2, d)
    BY <1>1, <1>4 DEF Before, Grows
  <2>3. Sends(u, b, down2) => Sends(u, d, down2)
    BY <1>1, <1>4 DEF Sends, Grows
  <2> QED BY <2>1, <2>2, <2>3
<1> QED BY <1>3, <1>4

\* What the hub writes.
LEMMA HubWrites ==
    ASSUME NEW b \in Orders!Row, NEW u \in Orders!Row, NEW v \in Orders!Row,
           NEW down2 \in Orders!Row, NEW up2 \in Orders!Row,
           Before(down2, u), Stage(u) <= Stage(v), u.refunded <= v.refunded,
           v.voided = u.voided, v.total = u.total, v.pay \in Open => u.pay \in Open,
           v # Orders!NoRow, v.pay # "none"
    PROVE  /\ Before(down2, v)
           /\ Sends(b, u, up2) => Sends(b, v, up2)
           /\ BranchSends(b, u, up2) => BranchSends(b, v, up2)
<1>1. /\ Stage(b) \in -1..3 /\ Stage(u) \in -1..3 /\ Stage(v) \in -1..3 /\ Stage(down2) \in -1..3
      /\ b.refunded \in Nat /\ u.refunded \in Nat /\ v.refunded \in Nat /\ down2.refunded \in Nat
  BY StageOf, OrderFields
<1>2. Before(down2, v)
  BY <1>1 DEF Before
<1>3. Sends(b, u, up2) => Sends(b, v, up2)
  BY <1>1 DEF Sends
<1> QED BY <1>2, <1>3 DEF BranchSends

-----------------------------------------------------------------------------
\* engine._merge_order, part by part: c is merged into m.
LEMMA MergedParts ==
    ASSUME NEW m \in Orders!Row, NEW c \in Orders!Row, m # Orders!NoRow
    PROVE  LET p == Orders!Merged(m, c)
           IN  /\ p.status = Orders!StatusAfter(m, c) /\ p.pay = Orders!PayAfter(m, c)
               /\ p.total = Orders!TotalAfter(m, c) /\ p.voided = Orders!Larger(m.voided, c.voided)
               /\ p.refunded = Orders!RefundedAfter(m, c)
  BY DEF Orders!Merged

LEMMA PayMerged ==
    ASSUME NEW m \in Orders!Row, NEW c \in Orders!Row, m.status # "none", c.status # "none",
           m.pay # "none", c.pay # "none", m.pay \in Table <=> c.pay \in Table,
           IF m.status = "Cancelled" THEN m.pay # "settled" ELSE m.pay \notin {"refund_required", "refunded"},
           IF c.status = "Cancelled" THEN c.pay # "settled" ELSE c.pay \notin {"refund_required", "refunded"}
    PROVE  LET p == Orders!PayAfter(m, c)
               st == Orders!StatusAfter(m, c)
           IN  /\ p \in Orders!Pay /\ p # "none"
               /\ p \in Table <=> m.pay \in Table
               /\ p \in Open => m.pay \in Open
               /\ p \notin Open => m.pay \notin Open \/ c.pay \notin Open
               /\ m.pay \in Open /\ c.pay \in Taken => p \notin Open
               /\ p \in Taken => m.pay \in Taken \cup Open
               /\ m.pay = "unpaid" /\ c.pay = "unpaid" => p = "unpaid"
               /\ IF st = "Cancelled" THEN p # "settled" ELSE p \notin {"refund_required", "refunded"}
<1> DEFINE st == Orders!StatusAfter(m, c)
           p == Orders!PayAfter(m, c)
<1>1. /\ m.pay \in {"at_once", "unpaid", "authorizing", "settled", "refund_required", "refunded"}
      /\ c.pay \in {"at_once", "unpaid", "authorizing", "settled", "refund_required", "refunded"}
  BY OrderFields DEF Orders!Pay
<1>2. st \in {m.status, c.status} /\ (st = "Cancelled" <=> m.status = "Cancelled" \/ c.status = "Cancelled")
  BY OrderFields DEF Orders!StatusAfter, Orders!Rank
<1>3. p = LET taken ==
                IF c.pay \in {"settled", "refund_required"} /\ m.pay \in {"unpaid", "settled"}
                THEN IF c.pay = "refund_required" \/ st = "Cancelled" THEN "refund_required" ELSE "settled"
                ELSE IF m.pay = "authorizing" /\ c.pay = "at_once" THEN "at_once"
                ELSE m.pay
              done == IF c.pay = "refunded" /\ taken = "refund_required" THEN "refunded" ELSE taken
          IN  IF st = "Cancelled" /\ m.status # "Cancelled" THEN Orders!Flagged(done) ELSE done
  BY DEF Orders!PayAfter
<1> HIDE DEF st, p
<1>4. /\ p \in Orders!Pay /\ p # "none"
      /\ p \in Table <=> m.pay \in Table
      /\ p \in Open => m.pay \in Open
  BY <1>1, <1>3 DEF Orders!Flagged, Table, Open, Orders!Pay
<1>5. /\ p \notin Open => m.pay \notin Open \/ c.pay \notin Open
      /\ m.pay \in Open /\ c.pay \in Taken => p \notin Open
  BY <1>1, <1>3 DEF Orders!Flagged, Table, Open, Taken
<1>6. /\ p \in Taken => m.pay \in Taken \cup Open
      /\ m.pay = "unpaid" /\ c.pay = "unpaid" => p = "unpaid"
  BY <1>1, <1>3 DEF Orders!Flagged, Open, Taken
<1>7. IF st = "Cancelled" THEN p # "settled" ELSE p \notin {"refund_required", "refunded"}
  BY <1>1, <1>2, <1>3 DEF Orders!Flagged
<1> QED BY <1>4, <1>5, <1>6, <1>7 DEF st, p

LEMMA MergedFacts ==
    ASSUME NEW m \in Orders!Row, NEW c \in Orders!Row, NEW b \in Orders!Row,
           CopyOf(m, b), CopyOf(c, b), NEW p, p = Orders!Merged(m, c)
    PROVE  /\ p \in Orders!Row /\ CopyOf(p, b)
           /\ Stage(m) <= Stage(p) /\ Stage(c) <= Stage(p) /\ Stage(p) \in {Stage(m), Stage(c)}
           /\ m.refunded <= p.refunded /\ c.refunded <= p.refunded
           /\ p.refunded \in {m.refunded, c.refunded}
           /\ m.voided <= p.voided /\ c.voided <= p.voided /\ p.voided \in {m.voided, c.voided}
           /\ p.total <= m.total /\ (m.pay = "unpaid" => p.total <= c.total)
           /\ p.total \in {m.total, c.total} /\ (m.pay # "unpaid" => p.total = m.total)
           /\ p.pay \in Open => m.pay \in Open
           /\ m.pay \in Open /\ c.pay \in Taken => p.pay \notin Open
           /\ p.pay \in Taken => m.pay \in Taken \cup Open
<1>1. m # Orders!NoRow /\ m.status # "none" /\ c.status # "none" /\ m.pay # "none" /\ c.pay # "none"
      /\ b # Orders!NoRow
  BY NoOrder DEF CopyOf
<1>2. /\ p.status = Orders!StatusAfter(m, c) /\ p.pay = Orders!PayAfter(m, c)
      /\ p.total = Orders!TotalAfter(m, c) /\ p.voided = Orders!Larger(m.voided, c.voided)
      /\ p.refunded = Orders!RefundedAfter(m, c)
  BY <1>1, MergedParts
<1>3. /\ m.total \in Nat /\ m.voided \in Nat /\ m.refunded \in Nat
      /\ c.total \in Nat /\ c.voided \in Nat /\ c.refunded \in Nat
      /\ b.total \in Nat /\ b.voided \in Nat
  BY OrderFields
<1>4. p.status \in {m.status, c.status}
  BY <1>2 DEF Orders!StatusAfter
<1>5. /\ p.refunded \in {m.refunded, c.refunded} /\ m.refunded <= p.refunded /\ c.refunded <= p.refunded
      /\ p.voided \in {m.voided, c.voided} /\ m.voided <= p.voided /\ c.voided <= p.voided
  BY <1>2, <1>3 DEF Orders!RefundedAfter, Orders!Larger
<1>6. /\ p.total \in {m.total, c.total} /\ p.total <= m.total
      /\ m.pay # "unpaid" => p.total = m.total
      /\ m.pay = "unpaid" => p.total <= c.total
  BY <1>2, <1>3 DEF Orders!TotalAfter
<1>7. /\ p.pay \in Orders!Pay /\ p.pay # "none"
      /\ p.pay \in Table <=> m.pay \in Table
      /\ p.pay \in Open => m.pay \in Open
      /\ p.pay \notin Open => m.pay \notin Open \/ c.pay \notin Open
      /\ m.pay \in Open /\ c.pay \in Taken => p.pay \notin Open
      /\ p.pay \in Taken => m.pay \in Taken \cup Open
      /\ m.pay = "unpaid" /\ c.pay = "unpaid" => p.pay = "unpaid"
      /\ IF p.status = "Cancelled" THEN p.pay # "settled" ELSE p.pay \notin {"refund_required", "refunded"}
  BY <1>1, <1>2, PayMerged DEF CopyOf
<1>8. p \in Orders!Row
  <2>1. p = [status |-> Orders!StatusAfter(m, c), pay |-> Orders!PayAfter(m, c),
             total |-> Orders!TotalAfter(m, c), voided |-> Orders!Larger(m.voided, c.voided),
             refunded |-> Orders!RefundedAfter(m, c)]
    BY <1>1 DEF Orders!Merged
  <2>2. /\ p.status \in Orders!Status \cup {"none"} /\ p.total \in 0..Total /\ p.voided \in 0..Total
        /\ p.refunded \in 0..Total
    BY <1>4, <1>5, <1>6 DEF Orders!Row
  <2> QED BY <1>2, <1>7, <2>1, <2>2 DEF Orders!Row
<1>9. Stage(m) <= Stage(p) /\ Stage(c) <= Stage(p) /\ Stage(p) \in {Stage(m), Stage(c)}
  <2>1. Stage(m) \in -1..3 /\ Stage(c) \in -1..3
    BY StageOf
  <2>2. p.status = IF Stage(c) > Stage(m) THEN c.status ELSE m.status
    BY <1>2 DEF Orders!StatusAfter, Stage
  <2>3. Stage(p) = IF Stage(c) > Stage(m) THEN Stage(c) ELSE Stage(m)
    BY <2>2 DEF Stage
  <2> QED BY <2>1, <2>3
<1>10. CopyOf(p, b)
  <2>1. p.status # "none"
    BY <1>1, <1>4
  <2>2. /\ p.pay \in Table <=> b.pay \in Table
        /\ p.pay \in Open \/ b.pay \notin Open
    BY <1>7 DEF CopyOf
  <2>3. b.total <= p.total
    BY <1>6 DEF CopyOf
  <2>4. b.total < p.total => p.pay = "unpaid"
    <3> SUFFICES ASSUME b.total < p.total PROVE p.pay = "unpaid"
      OBVIOUS
    <3>1. b.total < m.total
      BY <1>3, <1>6
    <3>2. m.pay = "unpaid"
      BY <3>1 DEF CopyOf
    <3>3. b.total < c.total
      BY <1>3, <1>6, <3>2
    <3> QED BY <1>7, <3>2, <3>3 DEF CopyOf
  <2>5. p.refunded <= b.total /\ (p.refunded > 0 => b.pay \notin Open)
    BY <1>5 DEF CopyOf
  <2>6. p.voided <= b.voided
    BY <1>5 DEF CopyOf
  <2> QED BY <1>1, <1>7, <2>1, <2>2, <2>3, <2>4, <2>5, <2>6 DEF CopyOf
<1> QED BY <1>5, <1>6, <1>7, <1>8, <1>9, <1>10

\* The hub merges its page.
LEMMA HubMerged ==
    ASSUME NEW b \in Orders!Row, NEW u \in Orders!Row, NEW v \in Orders!Row,
           NEW down2 \in Orders!Row, NEW up2 \in Orders!Row,
           \A c \in {b, u, up2} : c # Orders!NoRow => CopyOf(c, b),
           Before(down2, u), up2 # Orders!NoRow, v = Orders!Merged(u, up2)
    PROVE  /\ CopyOf(v, b) /\ Before(down2, v) /\ u.refunded <= v.refunded
           /\ Sends(b, u, up2) => Sends(b, v, Orders!NoRow)
           /\ BranchSends(b, u, up2) => BranchSends(b, v, Orders!NoRow)
<1>1. /\ Stage(b) \in -1..3 /\ Stage(u) \in -1..3 /\ Stage(v) \in -1..3 /\ Stage(up2) \in -1..3
      /\ Stage(down2) \in -1..3
      /\ b.refunded \in Nat /\ u.refunded \in Nat /\ v.refunded \in Nat /\ up2.refunded \in Nat
      /\ down2.refunded \in Nat /\ b.voided \in Nat /\ u.voided \in Nat /\ v.voided \in Nat
      /\ up2.voided \in Nat /\ b.total \in Nat /\ u.total \in Nat /\ v.total \in Nat /\ up2.total \in Nat
  BY StageOf, OrderFields
<1>2. CopyOf(up2, b)
  OBVIOUS
<1>3. b.status = up2.status => Stage(b) = Stage(up2)
  BY DEF Stage
<1>4. CASE u = Orders!NoRow
  <2>1. v = up2
    BY <1>4 DEF Orders!Merged
  <2>2. Before(down2, v) /\ u.refunded <= v.refunded
    BY <1>1, <1>4, <2>1, NoOrder DEF Before
  <2>3. Stage(up2) >= 0
    BY <1>1, <1>2, StageOf DEF CopyOf
  <2>4. Sends(b, u, up2) => Sends(b, v, Orders!NoRow)
    <3>1. Stage(b) > Stage(v) => Stage(b) > Stage(u)
      BY <1>1, <1>4, <2>1, <2>3, NoOrder
    <3>2. b.refunded > v.refunded => b.refunded > u.refunded
      BY <1>1, <1>4, NoOrder
    <3> QED BY <1>1, <1>3, <2>1, <3>1, <3>2 DEF Sends
  <2>5. BranchSends(b, u, up2) => BranchSends(b, v, Orders!NoRow)
    <3> SUFFICES ASSUME BranchSends(b, u, up2) PROVE BranchSends(b, v, Orders!NoRow)
      OBVIOUS
    <3>1. ~(b.voided > v.voided)
      BY <1>1, <1>4, <2>1, NoOrder DEF BranchSends
    <3>2. b # Orders!NoRow => v # Orders!NoRow /\ v.total = b.total
      BY <1>4, <2>1 DEF BranchSends
    <3>3. b.pay \in Taken => v.pay \in Taken
      BY <1>4, <2>1, NoOrder DEF BranchSends
    <3>4. v.pay # "none"
      BY <1>2, <2>1 DEF CopyOf
    <3> QED BY <1>1, <3>1, <3>2, <3>3, <3>4 DEF BranchSends, Taken, Open
  <2> QED BY <1>2, <2>1, <2>2, <2>4, <2>5
<1>5. CASE u # Orders!NoRow
  <2>1. CopyOf(u, b)
    BY <1>5
  <2>2. /\ CopyOf(v, b)
        /\ Stage(u) <= Stage(v) /\ Stage(up2) <= Stage(v)
        /\ u.refunded <= v.refunded /\ up2.refunded <= v.refunded
        /\ up2.voided <= v.voided /\ u.voided <= v.voided
        /\ v.total <= u.total /\ (u.pay = "unpaid" => v.total <= up2.total)
        /\ u.pay # "unpaid" => v.total = u.total
        /\ v.pay \in Open => u.pay \in Open
        /\ u.pay \in Open /\ up2.pay \in Taken => v.pay \notin Open
    BY <1>2, <2>1, MergedFacts
  <2>3. Before(down2, v)
    BY <1>1, <2>2 DEF Before
  <2>4. Sends(b, u, up2) => Sends(b, v, Orders!NoRow)
    BY <1>1, <1>3, <2>2 DEF Sends
  <2>5. BranchSends(b, u, up2) => BranchSends(b, v, Orders!NoRow)
    <3> SUFFICES ASSUME BranchSends(b, u, up2) PROVE BranchSends(b, v, Orders!NoRow)
      OBVIOUS
    <3>1. ~(b.voided > v.voided)
      BY <1>1, <2>2 DEF BranchSends
    <3>2. v # Orders!NoRow /\ ~(b.total < v.total)
      BY <1>1, <1>5, <2>1, <2>2, NoOrder DEF BranchSends, CopyOf
    <3>3. ~(b.pay \in Taken /\ v.pay \in Open \cup {"none"})
      BY <2>2 DEF BranchSends, CopyOf
    <3> QED BY <3>1, <3>2, <3>3 DEF BranchSends
  <2> QED BY <2>2, <2>3, <2>4, <2>5
<1> QED BY <1>4, <1>5

\* The branch merges its page; what it did not have it need not send.
LEMMA BranchMerged ==
    ASSUME NEW b \in Orders!Row, NEW u \in Orders!Row, NEW d \in Orders!Row,
           NEW down2 \in Orders!Row, NEW up2 \in Orders!Row,
           \A c \in {b, u, down2, up2} : c # Orders!NoRow => CopyOf(c, b),
           b.pay = "unpaid" => b.total + b.voided = Total,
           Before(up2, b), Before(down2, u), down2 # Orders!NoRow, d = Orders!Merged(b, down2)
    PROVE  /\ CopyOf(d, d) /\ Grows(b, d) /\ (d.pay = "unpaid" => d.total + d.voided = Total)
           /\ Sends(b, u, up2) => Sends(d, u, up2)
           /\ BranchSends(b, u, up2) => BranchSends(d, u, up2)
           /\ Sends(u, b, down2) => Sends(u, d, Orders!NoRow)
<1>1. /\ Stage(b) \in -1..3 /\ Stage(u) \in -1..3 /\ Stage(d) \in -1..3 /\ Stage(down2) \in -1..3
      /\ b.refunded \in Nat /\ u.refunded \in Nat /\ d.refunded \in Nat /\ down2.refunded \in Nat
      /\ b.voided \in Nat /\ d.voided \in Nat /\ b.total \in Nat /\ d.total \in Nat /\ down2.total \in Nat
  BY StageOf, OrderFields
<1>2. CopyOf(down2, b)
  OBVIOUS
<1>3. CopyOf(b, b)
  BY <1>2 DEF CopyOf
<1>4. /\ CopyOf(d, b)
      /\ Stage(b) <= Stage(d) /\ Stage(down2) <= Stage(d) /\ Stage(d) \in {Stage(b), Stage(down2)}
      /\ b.refunded <= d.refunded /\ down2.refunded <= d.refunded
      /\ d.refunded \in {b.refunded, down2.refunded}
      /\ b.voided <= d.voided /\ d.total <= b.total
      /\ d.pay \in Open => b.pay \in Open
      /\ d.pay \in Taken => b.pay \in Taken \cup Open
  BY <1>2, <1>3, MergedFacts
<1>5. d.total = b.total /\ d.voided = b.voided
  BY <1>1, <1>4 DEF CopyOf
<1>6. d.pay \in Table <=> b.pay \in Table
  BY <1>4 DEF CopyOf
<1>7. Grows(b, d)
  BY <1>1, <1>4, <1>5, <1>6 DEF Grows
<1>8. CopyOf(d, d)
  <2>1. d # Orders!NoRow
    BY <1>4, NoOrder DEF CopyOf
  <2> QED BY <1>4, <1>7, <2>1, CopyGrows
<1>9. d.pay = "unpaid" => b.pay = "unpaid"
  BY <1>4, <1>6 DEF Open, Table
<1>10. Sends(b, u, up2) => Sends(d, u, up2)
  <2>1. Stage(d) > Stage(u) => Stage(d) = Stage(b)
    BY <1>1, <1>4 DEF Before
  <2>2. Stage(d) = Stage(b) => d.status = b.status
    BY StageSame
  <2>3. d.refunded > u.refunded => d.refunded = b.refunded
    BY <1>1, <1>4 DEF Before
  <2> QED BY <2>1, <2>2, <2>3 DEF Sends
<1>11. BranchSends(b, u, up2) => BranchSends(d, u, up2)
  <2>1. d.pay \in Taken => b.pay \in Taken
    <3>1. d.pay \in Taken => d.pay \notin Open
      BY DEF Taken, Open
    <3>2. d.pay \notin Open => b.pay \notin Open
      BY <1>4 DEF CopyOf
    <3> QED BY <1>4, <3>1, <3>2
  <2>2. b # Orders!NoRow
    BY <1>2 DEF CopyOf
  <2> QED BY <1>5, <2>1, <2>2 DEF BranchSends
<1>12. Sends(u, b, down2) => Sends(u, d, Orders!NoRow)
  <2>1. down2.status = u.status => Stage(down2) = Stage(u)
    BY DEF Stage
  <2> QED BY <1>1, <1>4, <2>1 DEF Sends
<1> QED BY <1>5, <1>7, <1>8, <1>9, <1>10, <1>11, <1>12

-----------------------------------------------------------------------------
\* What there is of an order.
LEMMA OrderTypes ==
    ASSUME Orders!TypeOK, NEW o \in Order
    PROVE  /\ B(o) \in Orders!Row /\ U(o) \in Orders!Row
           /\ page[Orders!Branch][o] \in Orders!Row /\ page[Orders!Hub][o] \in Orders!Row
           /\ back[Orders!Branch][o] \in Nat /\ back[Orders!Hub][o] \in Nat
  BY OrderSites, OrderAssumption DEF Orders!TypeOK, B, U

LEMMA OrderAfter ==
    ASSUME NEW o, NEW b, NEW u, NEW down2, NEW up2,
           b = orderRow'[Orders!Branch][o], u = orderRow'[Orders!Hub][o],
           down2 = page'[Orders!Branch][o], up2 = page'[Orders!Hub][o],
           \A c \in {b, u, down2, up2} : c # Orders!NoRow => CopyOf(c, b),
           b.pay = "unpaid" => b.total + b.voided = Total,
           back'[Orders!Branch][o] <= b.refunded, back'[Orders!Hub][o] <= u.refunded,
           Before(up2, b), Before(down2, u),
           o \notin dirty'[Orders!Branch] => Sends(b, u, up2) /\ BranchSends(b, u, up2),
           o \notin dirty'[Orders!Hub] => Sends(u, b, down2)
    PROVE  OrderSound(o)'
<1>1. B(o)' = b /\ U(o)' = u /\ page[Orders!Branch][o]' = down2 /\ page[Orders!Hub][o]' = up2
  BY DEF B, U, Orders!Branch, Orders!Hub
<1>2. Orders!Branch' = Orders!Branch /\ Orders!Hub' = Orders!Hub /\ Orders!NoRow' = Orders!NoRow
  BY DEF Orders!Branch, Orders!Hub, Orders!NoRow
<1> QED BY <1>1, <1>2 DEF OrderSound

LEMMA OrderSteady ==
    ASSUME NEW o, OrderSound(o), orderRow'[Orders!Branch][o] = B(o), orderRow'[Orders!Hub][o] = U(o),
           \A s \in Orders!Site :
              /\ page'[s][o] = page[s][o] /\ back'[s][o] = back[s][o]
              /\ o \in dirty[s] => o \in dirty'[s]
    PROVE  OrderSound(o)'
<1> DEFINE b == B(o)
           u == U(o)
           down2 == page[Orders!Branch][o]
           up2 == page[Orders!Hub][o]
<1>1. /\ \A c \in {b, u, down2, up2} : c # Orders!NoRow => CopyOf(c, b)
      /\ b.pay = "unpaid" => b.total + b.voided = Total
      /\ back[Orders!Branch][o] <= b.refunded /\ back[Orders!Hub][o] <= u.refunded
      /\ Before(up2, b) /\ Before(down2, u)
      /\ o \notin dirty[Orders!Branch] => Sends(b, u, up2) /\ BranchSends(b, u, up2)
      /\ o \notin dirty[Orders!Hub] => Sends(u, b, down2)
  BY DEF OrderSound
<1>2. /\ page'[Orders!Branch][o] = down2 /\ page'[Orders!Hub][o] = up2
      /\ back'[Orders!Branch][o] = back[Orders!Branch][o] /\ back'[Orders!Hub][o] = back[Orders!Hub][o]
      /\ o \in dirty[Orders!Branch] => o \in dirty'[Orders!Branch]
      /\ o \in dirty[Orders!Hub] => o \in dirty'[Orders!Hub]
  BY OrderSites
<1> HIDE DEF b, u, down2, up2
<1>3. orderRow'[Orders!Branch][o] = b /\ orderRow'[Orders!Hub][o] = u
  BY DEF b, u
<1> QED BY <1>1, <1>2, <1>3, OrderAfter

\* A host writes a row of its own.
LEMMA ChangeWrites ==
    ASSUME Orders!TypeOK, NEW s \in Orders!Site, NEW o \in Order, NEW d \in Orders!Row,
           Orders!Change(s, o, d), back' \in [Orders!Site -> [Order -> 0..Total]]
    PROVE  /\ Orders!TypeOK'
           /\ orderRow'[s][o] = d
           /\ \A q \in Orders!Site, x \in Order : q # s \/ x # o => orderRow'[q][x] = orderRow[q][x]
           /\ page' = page /\ o \in dirty'[s]
           /\ \A q \in Orders!Site : dirty[q] \subseteq dirty'[q]
<1>1. /\ orderRow' = [orderRow EXCEPT ![s][o] = d]
      /\ dirty' = [dirty EXCEPT ![s] = @ \cup {o}] /\ page' = page
  BY DEF Orders!Change
<1>2. /\ orderRow \in [Orders!Site -> [Order -> Orders!Row]] /\ dirty \in [Orders!Site -> SUBSET Order]
      /\ page \in [Orders!Site -> [Order -> Orders!Row]]
  BY DEF Orders!TypeOK
<1>3. /\ orderRow' \in [Orders!Site -> [Order -> Orders!Row]] /\ orderRow'[s][o] = d
      /\ \A q \in Orders!Site, x \in Order : q # s \/ x # o => orderRow'[q][x] = orderRow[q][x]
  BY <1>1, <1>2
<1>4. /\ dirty' \in [Orders!Site -> SUBSET Order] /\ o \in dirty'[s]
      /\ \A q \in Orders!Site : dirty[q] \subseteq dirty'[q]
  BY <1>1, <1>2
<1>5. Orders!TypeOK'
  BY <1>1, <1>2, <1>3, <1>4 DEF Orders!TypeOK, Orders!Site, Orders!Row, Orders!Pay, Orders!Status,
                                Orders!Branch, Orders!Hub
<1> QED BY <1>1, <1>3, <1>4, <1>5

LEMMA BranchChange ==
    ASSUME OrderInv, NEW o \in Order, NEW d \in Orders!Row, Orders!Change(Orders!Branch, o, d),
           back' \in [Orders!Site -> [Order -> 0..Total]], back'[Orders!Branch][o] <= d.refunded,
           \A q \in Orders!Site, x \in Order : q # Orders!Branch \/ x # o => back'[q][x] = back[q][x],
           CopyOf(d, d), d.pay = "unpaid" => d.total + d.voided = Total,
           B(o) = Orders!NoRow \/ Grows(B(o), d)
    PROVE  OrderInv'
<1>1. Orders!TypeOK /\ \A x \in Order : OrderSound(x)
  BY DEF OrderInv
<1>2. /\ Orders!TypeOK'
      /\ orderRow'[Orders!Branch][o] = d
      /\ \A q \in Orders!Site, x \in Order :
            q # Orders!Branch \/ x # o => orderRow'[q][x] = orderRow[q][x]
      /\ page' = page /\ o \in dirty'[Orders!Branch]
      /\ \A q \in Orders!Site : dirty[q] \subseteq dirty'[q]
  BY <1>1, OrderSites, ChangeWrites
<1>3. ASSUME NEW x \in Order PROVE OrderSound(x)'
  <2>1. CASE x # o
    <3>1. orderRow'[Orders!Branch][x] = B(x) /\ orderRow'[Orders!Hub][x] = U(x)
      BY <1>2, <2>1, OrderSites DEF B, U
    <3>2. \A q \in Orders!Site :
              /\ page'[q][x] = page[q][x] /\ back'[q][x] = back[q][x]
              /\ x \in dirty[q] => x \in dirty'[q]
      BY <1>2, <2>1
    <3> QED BY <1>1, <3>1, <3>2, OrderSteady
  <2>2. CASE x = o
    <3> DEFINE b == B(o)
               u == U(o)
               down2 == page[Orders!Branch][o]
               up2 == page[Orders!Hub][o]
    <3>1. /\ b \in Orders!Row /\ u \in Orders!Row /\ down2 \in Orders!Row /\ up2 \in Orders!Row
      BY <1>1, OrderTypes
    <3>2. /\ \A c \in {b, u, down2, up2} : c # Orders!NoRow => CopyOf(c, b)
          /\ back[Orders!Hub][o] <= u.refunded
          /\ Before(up2, b) /\ Before(down2, u)
          /\ o \notin dirty[Orders!Hub] => Sends(u, b, down2)
      BY <1>1 DEF OrderSound
    <3>3. /\ orderRow'[Orders!Hub][o] = u /\ page'[Orders!Branch][o] = down2
          /\ page'[Orders!Hub][o] = up2 /\ back'[Orders!Hub][o] = back[Orders!Hub][o]
          /\ o \in dirty[Orders!Hub] => o \in dirty'[Orders!Hub]
      BY <1>2, OrderSites DEF U
    <3> HIDE DEF b, u, down2, up2
    <3>4. b = Orders!NoRow \/ Grows(b, d)
      BY DEF b
    <3>5. /\ \A c \in {d, u, down2, up2} : c # Orders!NoRow => CopyOf(c, d)
          /\ Before(up2, d)
          /\ Sends(u, b, down2) => Sends(u, d, down2)
      BY <3>1, <3>2, <3>4, BranchWrites
    <3>6. OrderSound(o)'
      BY <1>2, <3>2, <3>3, <3>5, OrderAfter
    <3> QED BY <2>2, <3>6
  <2> QED BY <2>1, <2>2
<1> QED BY <1>2, <1>3 DEF OrderInv

LEMMA HubChange ==
    ASSUME OrderInv, NEW o \in Order, NEW v \in Orders!Row, Orders!Change(Orders!Hub, o, v),
           back' \in [Orders!Site -> [Order -> 0..Total]], back'[Orders!Hub][o] <= v.refunded,
           \A q \in Orders!Site, x \in Order : q # Orders!Hub \/ x # o => back'[q][x] = back[q][x],
           CopyOf(v, B(o)), Stage(U(o)) <= Stage(v), U(o).refunded <= v.refunded,
           v.voided = U(o).voided, v.total = U(o).total, v.pay \in Open => U(o).pay \in Open
    PROVE  OrderInv'
<1>1. Orders!TypeOK /\ \A x \in Order : OrderSound(x)
  BY DEF OrderInv
<1>2. /\ Orders!TypeOK'
      /\ orderRow'[Orders!Hub][o] = v
      /\ \A q \in Orders!Site, x \in Order :
            q # Orders!Hub \/ x # o => orderRow'[q][x] = orderRow[q][x]
      /\ page' = page /\ o \in dirty'[Orders!Hub]
      /\ \A q \in Orders!Site : dirty[q] \subseteq dirty'[q]
  BY <1>1, OrderSites, ChangeWrites
<1>3. ASSUME NEW x \in Order PROVE OrderSound(x)'
  <2>1. CASE x # o
    <3>1. orderRow'[Orders!Branch][x] = B(x) /\ orderRow'[Orders!Hub][x] = U(x)
      BY <1>2, <2>1, OrderSites DEF B, U
    <3>2. \A q \in Orders!Site :
              /\ page'[q][x] = page[q][x] /\ back'[q][x] = back[q][x]
              /\ x \in dirty[q] => x \in dirty'[q]
      BY <1>2, <2>1
    <3> QED BY <1>1, <3>1, <3>2, OrderSteady
  <2>2. CASE x = o
    <3> DEFINE b == B(o)
               u == U(o)
               down2 == page[Orders!Branch][o]
               up2 == page[Orders!Hub][o]
    <3>1. /\ b \in Orders!Row /\ u \in Orders!Row /\ down2 \in Orders!Row /\ up2 \in Orders!Row
      BY <1>1, OrderTypes
    <3>2. /\ \A c \in {b, u, down2, up2} : c # Orders!NoRow => CopyOf(c, b)
          /\ b.pay = "unpaid" => b.total + b.voided = Total
          /\ back[Orders!Branch][o] <= b.refunded
          /\ Before(up2, b) /\ Before(down2, u)
          /\ o \notin dirty[Orders!Branch] => Sends(b, u, up2) /\ BranchSends(b, u, up2)
      BY <1>1 DEF OrderSound
    <3>3. /\ orderRow'[Orders!Branch][o] = b /\ page'[Orders!Branch][o] = down2
          /\ page'[Orders!Hub][o] = up2 /\ back'[Orders!Branch][o] = back[Orders!Branch][o]
          /\ o \in dirty[Orders!Branch] => o \in dirty'[Orders!Branch]
      BY <1>2, OrderSites DEF B
    <3> HIDE DEF b, u, down2, up2
    <3>4. /\ CopyOf(v, b) /\ Stage(u) <= Stage(v) /\ u.refunded <= v.refunded
          /\ v.voided = u.voided /\ v.total = u.total /\ (v.pay \in Open => u.pay \in Open)
      BY DEF b, u
    <3>5. v # Orders!NoRow /\ v.pay # "none"
      BY <3>4, NoOrder DEF CopyOf
    <3>6. /\ Before(down2, v)
          /\ Sends(b, u, up2) => Sends(b, v, up2)
          /\ BranchSends(b, u, up2) => BranchSends(b, v, up2)
      BY <3>1, <3>2, <3>4, <3>5, HubWrites
    <3>7. OrderSound(o)'
      BY <1>2, <3>2, <3>3, <3>4, <3>6, OrderAfter
    <3> QED BY <2>2, <3>7
  <2> QED BY <2>1, <2>2
<1> QED BY <1>2, <1>3 DEF OrderInv

-----------------------------------------------------------------------------
\* Staff of either host do something with an order that is there.
Moves(r, n, b) ==
    /\ n \in Orders!Row /\ CopyOf(n, b)
    /\ Stage(r) <= Stage(n) /\ r.refunded <= n.refunded
    /\ n.voided = r.voided /\ n.total = r.total /\ (n.pay \in Open <=> r.pay \in Open)

LEMMA SiteRow ==
    ASSUME OrderInv, NEW s \in Orders!Site, NEW o \in Order, orderRow[s][o].status # "none"
    PROVE  LET r == orderRow[s][o]
           IN  /\ r \in Orders!Row /\ r # Orders!NoRow /\ CopyOf(r, B(o)) /\ B(o) \in Orders!Row
               /\ back[s][o] \in Nat /\ back[s][o] <= r.refunded
               /\ back \in [Orders!Site -> [Order -> 0..Total]]
               /\ r.total \in Nat /\ r.voided \in Nat /\ r.refunded \in Nat /\ B(o).total \in Nat
               /\ r.total <= Total /\ r.voided <= Total /\ r.refunded <= B(o).total /\ B(o).total <= r.total
<1> DEFINE r == orderRow[s][o]
<1>1. Orders!TypeOK /\ OrderSound(o)
  BY DEF OrderInv
<1>2. r \in Orders!Row /\ B(o) \in Orders!Row /\ back \in [Orders!Site -> [Order -> 0..Total]]
  BY <1>1, OrderSites DEF Orders!TypeOK, B
<1>3. r # Orders!NoRow
  BY NoOrder
<1>4. r = B(o) \/ r = U(o)
  BY OrderSites DEF B, U
<1>5. CopyOf(r, B(o))
  BY <1>1, <1>3, <1>4 DEF OrderSound
<1>6. back[s][o] \in Nat /\ back[s][o] <= r.refunded
  BY <1>1, OrderTypes, OrderSites DEF OrderSound, B, U
<1>7. /\ r.total \in Nat /\ r.voided \in Nat /\ r.refunded \in Nat /\ B(o).total \in Nat
      /\ r.total <= Total /\ r.voided <= Total
  BY <1>2, OrderFields
<1>8. r.refunded <= B(o).total /\ B(o).total <= r.total
  BY <1>5 DEF CopyOf
<1> QED BY <1>2, <1>3, <1>5, <1>6, <1>7, <1>8

LEMMA SiteChange ==
    ASSUME OrderInv, NEW s \in Orders!Site, NEW o \in Order, orderRow[s][o].status # "none",
           NEW n, Orders!Change(s, o, n), Moves(orderRow[s][o], n, B(o)),
           back' \in [Orders!Site -> [Order -> 0..Total]], back'[s][o] <= n.refunded,
           \A q \in Orders!Site, x \in Order : q # s \/ x # o => back'[q][x] = back[q][x]
    PROVE  OrderInv'
<1>1. n \in Orders!Row
  BY DEF Moves
<1>2. CASE s = Orders!Hub
  <2>1. orderRow[s][o] = U(o)
    BY <1>2 DEF U
  <2> QED BY <1>1, <1>2, <2>1, HubChange DEF Moves
<1>3. CASE s = Orders!Branch
  <2>1. orderRow[s][o] = B(o)
    BY <1>3 DEF B
  <2> DEFINE b == B(o)
  <2>2. /\ b \in Orders!Row /\ CopyOf(b, b) /\ (b.pay = "unpaid" => b.total + b.voided = Total)
    BY <2>1, SiteRow DEF OrderInv, OrderSound
  <2>3. CopyOf(n, b) /\ Moves(b, n, b)
    BY <2>1 DEF Moves
  <2> HIDE DEF b
  <2>4. b.total \in Nat /\ b.voided \in Nat /\ b.refunded \in Nat
    BY <2>2, OrderFields
  <2>5. Grows(b, n)
    BY <2>3, <2>4 DEF Grows, Moves, CopyOf
  <2>6. n # Orders!NoRow
    BY <2>3, NoOrder DEF CopyOf
  <2>7. CopyOf(n, n)
    BY <1>1, <2>2, <2>3, <2>5, <2>6, CopyGrows
  <2>8. n.pay = "unpaid" => n.total + n.voided = Total
    <3>1. n.pay = "unpaid" => b.pay = "unpaid"
      BY <2>2, <2>3, <2>5 DEF Grows, Table, Open
    <3> QED BY <2>2, <2>3, <3>1 DEF Moves
  <2> QED BY <1>1, <1>3, <2>5, <2>7, <2>8, BranchChange DEF b
<1> QED BY <1>2, <1>3, OrderSites

LEMMA SameBack ==
    ASSUME NEW s, NEW o, back' = back, back \in [Orders!Site -> [Order -> 0..Total]]
    PROVE  /\ back' \in [Orders!Site -> [Order -> 0..Total]]
           /\ \A q \in Orders!Site, x \in Order : q # s \/ x # o => back'[q][x] = back[q][x]
  OBVIOUS

LEMMA MoreBack ==
    ASSUME NEW s \in Orders!Site, NEW o \in Order, NEW k,
           back \in [Orders!Site -> [Order -> 0..Total]], back[s][o] + k \in 0..Total,
           back' = [back EXCEPT ![s][o] = @ + k]
    PROVE  /\ back' \in [Orders!Site -> [Order -> 0..Total]] /\ back'[s][o] = back[s][o] + k
           /\ \A q \in Orders!Site, x \in Order : q # s \/ x # o => back'[q][x] = back[q][x]
<1> DEFINE m == back[s][o] + k
<1>1. back' = [back EXCEPT ![s][o] = m]
  OBVIOUS
<1>2. m \in 0..Total
  OBVIOUS
<1> HIDE DEF m
<1>3. /\ back' \in [Orders!Site -> [Order -> 0..Total]] /\ back'[s][o] = m
      /\ \A q \in Orders!Site, x \in Order : q # s \/ x # o => back'[q][x] = back[q][x]
  BY <1>1, <1>2
<1> QED BY <1>3 DEF m

\* update_status.
LEMMA OrderAdvance ==
    ASSUME OrderInv, NEW s \in Orders!Site, NEW o \in Order, NEW status \in {"Completed", "PickedUp"},
           Orders!Advance(s, o, status)
    PROVE  OrderInv'
<1> DEFINE r == orderRow[s][o]
           n == [r EXCEPT !.status = status]
<1>1. /\ r.status \in {"Pending", "Completed"} /\ Orders!Rank(status) = Orders!Rank(r.status) + 1
      /\ Orders!Change(s, o, n) /\ back' = back
  BY DEF Orders!Advance
<1>2. /\ r \in Orders!Row /\ CopyOf(r, B(o)) /\ back[s][o] <= r.refunded
      /\ back \in [Orders!Site -> [Order -> 0..Total]]
  BY <1>1, SiteRow
<1>3. /\ n \in Orders!Row /\ n.status = status /\ n.pay = r.pay /\ n.total = r.total
      /\ n.voided = r.voided /\ n.refunded = r.refunded
  BY <1>2 DEF Orders!Row, Orders!Status
<1> HIDE DEF n
<1>4. Stage(r) <= Stage(n)
  BY <1>1, <1>2, <1>3, StageOf DEF Stage
<1>5. CopyOf(n, B(o))
  BY <1>1, <1>2, <1>3 DEF CopyOf
<1>6. Moves(r, n, B(o))
  BY <1>2, <1>3, <1>4, <1>5, OrderFields DEF Moves
<1>7. back'[s][o] <= n.refunded
  BY <1>1, <1>2, <1>3
<1> QED BY <1>1, <1>2, <1>6, <1>7, SiteChange, SameBack

\* cancel_order.
LEMMA OrderCancel ==
    ASSUME OrderInv, NEW s \in Orders!Site, NEW o \in Order, Orders!Cancel(s, o)
    PROVE  OrderInv'
<1> DEFINE r == orderRow[s][o]
           k == Orders!Owed(r)
           n == [r EXCEPT !.status = "Cancelled", !.pay = Orders!Flagged(@), !.refunded = @ + Orders!Owed(r)]
<1>1. /\ r.status \in {"Pending", "Completed", "PickedUp"}
      /\ Orders!Change(s, o, n) /\ back' = [back EXCEPT ![s][o] = @ + k]
  BY DEF Orders!Cancel, Orders!Status
<1>2. /\ r \in Orders!Row /\ CopyOf(r, B(o)) /\ back[s][o] <= r.refunded /\ back[s][o] \in Nat
      /\ back \in [Orders!Site -> [Order -> 0..Total]]
      /\ r.total \in Nat /\ r.voided \in Nat /\ r.refunded \in Nat /\ B(o).total \in Nat
      /\ r.total <= Total /\ r.refunded <= B(o).total /\ B(o).total <= r.total
  BY <1>1, SiteRow
<1>3. /\ k \in Nat /\ r.refunded + k <= B(o).total
      /\ r.pay \in Open => k = 0
      /\ Orders!Flagged(r.pay) \in Orders!Pay
      /\ Orders!Flagged(r.pay) \in Open <=> r.pay \in Open
      /\ Orders!Flagged(r.pay) \in Table <=> r.pay \in Table
      /\ Orders!Flagged(r.pay) = "unpaid" <=> r.pay = "unpaid"
      /\ Orders!Flagged(r.pay) # "settled" /\ Orders!Flagged(r.pay) # "none"
  <2>1. r.pay \in Orders!Pay /\ r.pay # "none"
    BY <1>2, OrderFields DEF CopyOf
  <2>2. k = IF Orders!Flagged(r.pay) \in {"at_once", "refund_required"} THEN r.total - r.refunded ELSE 0
    BY DEF Orders!Owed
  <2>3. Orders!Flagged(r.pay) = IF r.pay = "settled" THEN "refund_required" ELSE r.pay
    BY DEF Orders!Flagged
  <2>4. r.pay # "unpaid" => B(o).total = r.total
    BY <1>2 DEF CopyOf
  <2> HIDE DEF k, r
  <2>5. k \in Nat /\ r.refunded + k <= B(o).total
    BY <1>2, <2>1, <2>2, <2>3, <2>4
  <2>6. r.pay \in Open => k = 0
    BY <2>2, <2>3 DEF Open
  <2> QED BY <2>1, <2>3, <2>5, <2>6 DEF Open, Table, Orders!Pay
<1>4. /\ n \in Orders!Row /\ n.status = "Cancelled" /\ n.pay = Orders!Flagged(r.pay)
      /\ n.total = r.total /\ n.voided = r.voided /\ n.refunded = r.refunded + k
  <2> DEFINE f == Orders!Flagged(r.pay)
             g == r.refunded + k
  <2>1. n = [r EXCEPT !.status = "Cancelled", !.pay = f, !.refunded = g]
    OBVIOUS
  <2>2. f \in Orders!Pay /\ g \in 0..Total
    BY <1>2, <1>3, OrderAssumption
  <2> HIDE DEF f, g, n, r
  <2>3. /\ n \in Orders!Row /\ n.status = "Cancelled" /\ n.pay = f
        /\ n.total = r.total /\ n.voided = r.voided /\ n.refunded = g
    BY <1>2, <2>1, <2>2 DEF Orders!Row, Orders!Status
  <2> QED BY <2>3 DEF f, g
<1> HIDE DEF n, k
<1>5. Stage(r) <= Stage(n)
  BY <1>2, <1>4, StageOf
<1>6. CopyOf(n, B(o))
  <2>1. n.refunded > 0 => B(o).pay \notin Open
    BY <1>2, <1>3, <1>4 DEF CopyOf
  <2> QED BY <1>2, <1>3, <1>4, <2>1 DEF CopyOf
<1>7. Moves(r, n, B(o))
  BY <1>2, <1>3, <1>4, <1>5, <1>6 DEF Moves
<1>8. back[s][o] + k \in 0..Total /\ back[s][o] + k <= n.refunded
  BY <1>2, <1>3, <1>4, OrderAssumption
<1>9. /\ back' \in [Orders!Site -> [Order -> 0..Total]] /\ back'[s][o] = back[s][o] + k
      /\ \A q \in Orders!Site, x \in Order : q # s \/ x # o => back'[q][x] = back[q][x]
  BY <1>1, <1>2, <1>8, MoreBack
<1>10. r.status # "none" /\ back'[s][o] <= n.refunded
  BY <1>1, <1>8, <1>9
<1> QED BY <1>1, <1>7, <1>9, <1>10, SiteChange

\* refund_partial.
LEMMA OrderPartialRefund ==
    ASSUME OrderInv, NEW s \in Orders!Site, NEW o \in Order, Orders!PartialRefund(s, o)
    PROVE  OrderInv'
<1> DEFINE r == orderRow[s][o]
           n == [r EXCEPT !.refunded = @ + 1]
<1>1. /\ r.status \in {"Pending", "Completed", "PickedUp"} /\ r.pay \in {"at_once", "settled"}
      /\ r.refunded < r.total
      /\ Orders!Change(s, o, n) /\ back' = [back EXCEPT ![s][o] = @ + 1]
  BY DEF Orders!PartialRefund, Orders!Refundable, Orders!IsPaid, Orders!Status
<1>2. /\ r \in Orders!Row /\ CopyOf(r, B(o)) /\ back[s][o] <= r.refunded /\ back[s][o] \in Nat
      /\ back \in [Orders!Site -> [Order -> 0..Total]]
      /\ r.total \in Nat /\ r.voided \in Nat /\ r.refunded \in Nat /\ B(o).total \in Nat
      /\ r.total <= Total /\ r.refunded <= B(o).total /\ B(o).total <= r.total
  BY <1>1, SiteRow
<1>3. /\ n \in Orders!Row /\ n.status = r.status /\ n.pay = r.pay /\ n.total = r.total
      /\ n.voided = r.voided /\ n.refunded = r.refunded + 1
  BY <1>1, <1>2, OrderAssumption DEF Orders!Row
<1> HIDE DEF n
<1>4. Stage(r) <= Stage(n)
  BY <1>2, <1>3, StageOf DEF Stage
<1>5. r.total = B(o).total /\ B(o).pay \notin Open
  BY <1>1, <1>2 DEF CopyOf, Open
<1>6. CopyOf(n, B(o))
  BY <1>1, <1>2, <1>3, <1>5 DEF CopyOf
<1>7. Moves(r, n, B(o))
  BY <1>2, <1>3, <1>4, <1>6 DEF Moves
<1>8. back[s][o] + 1 \in 0..Total /\ back[s][o] + 1 <= n.refunded
  BY <1>1, <1>2, <1>3, OrderAssumption
<1>9. /\ back' \in [Orders!Site -> [Order -> 0..Total]] /\ back'[s][o] = back[s][o] + 1
      /\ \A q \in Orders!Site, x \in Order : q # s \/ x # o => back'[q][x] = back[q][x]
  BY <1>1, <1>2, <1>8, MoreBack
<1>10. r.status # "none" /\ back'[s][o] <= n.refunded
  BY <1>1, <1>8, <1>9
<1> QED BY <1>1, <1>7, <1>9, <1>10, SiteChange

\* mark_refund_done, online_refund_done.
LEMMA OrderRefundDone ==
    ASSUME OrderInv, NEW s \in Orders!Site, NEW o \in Order, Orders!RefundDone(s, o)
    PROVE  OrderInv'
<1> DEFINE r == orderRow[s][o]
           n == [r EXCEPT !.pay = "refunded"]
<1>1. r.pay = "refund_required" /\ Orders!Change(s, o, n) /\ back' = back
  BY DEF Orders!RefundDone
<1>2. r.status # "none"
  <2>1. r # Orders!NoRow
    BY <1>1, NoOrder
  <2>2. r = B(o) \/ r = U(o)
    BY OrderSites DEF B, U
  <2>3. CopyOf(r, B(o))
    BY <2>1, <2>2 DEF OrderInv, OrderSound
  <2> QED BY <2>3 DEF CopyOf
<1>3. /\ r \in Orders!Row /\ CopyOf(r, B(o)) /\ back[s][o] <= r.refunded
      /\ back \in [Orders!Site -> [Order -> 0..Total]]
  BY <1>2, SiteRow
<1>4. /\ n \in Orders!Row /\ n.status = r.status /\ n.pay = "refunded" /\ n.total = r.total
      /\ n.voided = r.voided /\ n.refunded = r.refunded
  BY <1>3 DEF Orders!Row, Orders!Pay
<1> HIDE DEF n
<1>5. Stage(r) <= Stage(n)
  BY <1>3, <1>4, StageOf DEF Stage
<1>6. CopyOf(n, B(o))
  BY <1>1, <1>3, <1>4 DEF CopyOf, Table, Open
<1>7. Moves(r, n, B(o))
  BY <1>1, <1>3, <1>4, <1>5, <1>6, OrderFields DEF Moves, Open
<1>8. back'[s][o] <= n.refunded
  BY <1>1, <1>3, <1>4
<1> QED BY <1>1, <1>2, <1>3, <1>7, <1>8, SiteChange, SameBack

\* What the branch alone does: it takes an order, has it paid, voids an item.
LEMMA OrderPlace ==
    ASSUME OrderInv, NEW o \in Order, NEW pay \in {"at_once", "unpaid", "authorizing"},
           Orders!Place(o, pay)
    PROVE  OrderInv'
<1> DEFINE d == [status |-> "Pending", pay |-> pay, total |-> Total, voided |-> 0, refunded |-> 0]
<1>1. B(o) = Orders!NoRow /\ Orders!Change(Orders!Branch, o, d) /\ back' = back
  BY DEF Orders!Place, B
<1>2. d \in Orders!Row
  BY OrderAssumption DEF Orders!Row, Orders!Status, Orders!Pay
<1>3. d # Orders!NoRow
  BY DEF Orders!NoRow
<1>4. CopyOf(d, d)
  BY <1>3, OrderAssumption DEF CopyOf
<1>5. back \in [Orders!Site -> [Order -> 0..Total]] /\ back[Orders!Branch][o] \in Nat
      /\ back[Orders!Branch][o] <= 0
  <2>1. OrderSound(o) /\ Orders!TypeOK
    BY DEF OrderInv
  <2> QED BY <1>1, <2>1, OrderTypes, NoOrder DEF OrderSound, Orders!TypeOK
<1>6. d.pay = "unpaid" => d.total + d.voided = Total
  BY OrderAssumption
<1>7. back'[Orders!Branch][o] <= d.refunded
  BY <1>1, <1>5
<1> HIDE DEF d
<1> QED BY <1>1, <1>2, <1>4, <1>5, <1>6, <1>7, OrderSites, BranchChange, SameBack

LEMMA BranchRow ==
    ASSUME OrderInv, NEW o \in Order, B(o) # Orders!NoRow
    PROVE  LET b == B(o)
           IN  /\ b \in Orders!Row /\ CopyOf(b, b) /\ (b.pay = "unpaid" => b.total + b.voided = Total)
               /\ back[Orders!Branch][o] \in Nat /\ back[Orders!Branch][o] <= b.refunded
               /\ back \in [Orders!Site -> [Order -> 0..Total]]
               /\ b.total \in Nat /\ b.voided \in Nat /\ b.refunded \in Nat
               /\ b.total <= Total /\ b.voided <= Total /\ b.refunded <= b.total
<1>1. Orders!TypeOK /\ OrderSound(o)
  BY DEF OrderInv
<1>2. B(o) \in Orders!Row /\ back[Orders!Branch][o] \in Nat
  BY <1>1, OrderTypes
<1>3. CopyOf(B(o), B(o)) /\ back[Orders!Branch][o] <= B(o).refunded
      /\ (B(o).pay = "unpaid" => B(o).total + B(o).voided = Total)
  BY <1>1 DEF OrderSound
<1>4. B(o).refunded <= B(o).total
  BY <1>3 DEF CopyOf
<1>5. back \in [Orders!Site -> [Order -> 0..Total]]
  BY <1>1 DEF Orders!TypeOK
<1> QED BY <1>2, <1>3, <1>4, <1>5, OrderFields

LEMMA OrderPaid ==
    ASSUME OrderInv, NEW o \in Order, Orders!Settle(o) \/ Orders!Charged(o)
    PROVE  OrderInv'
<1> SUFFICES ASSUME NEW paid, (B(o).pay = "unpaid" /\ paid = "settled")
                                \/ (B(o).pay = "authorizing" /\ paid = "at_once"),
                    B(o).status # "Cancelled",
                    Orders!Change(Orders!Branch, o, [B(o) EXCEPT !.pay = paid]), back' = back
             PROVE  OrderInv'
  BY DEF Orders!Settle, Orders!Charged, B
<1> DEFINE b == B(o)
           d == [b EXCEPT !.pay = paid]
<1>1. /\ b \in Orders!Row /\ CopyOf(b, b)
      /\ back[Orders!Branch][o] \in Nat /\ back[Orders!Branch][o] <= b.refunded
      /\ back \in [Orders!Site -> [Order -> 0..Total]]
      /\ b.total \in Nat /\ b.voided \in Nat /\ b.refunded \in Nat
  <2>1. b # Orders!NoRow
    BY NoOrder
  <2> QED BY <2>1, BranchRow
<1>2. Orders!Change(Orders!Branch, o, d)
  OBVIOUS
<1>3. b.status # "Cancelled" /\ paid \in {"settled", "at_once"} /\ paid \in Orders!Pay
      /\ (paid \in Table <=> b.pay \in Table)
  BY DEF Orders!Pay, Table
<1> HIDE DEF b
<1>4. /\ d \in Orders!Row /\ d.status = b.status /\ d.pay = paid /\ d.total = b.total
      /\ d.voided = b.voided /\ d.refunded = b.refunded
  BY <1>1, <1>3 DEF Orders!Row
<1> HIDE DEF d
<1>5. Grows(b, d)
  BY <1>1, <1>3, <1>4, StageOf DEF Grows, Stage, Open
<1>6. CopyOf(d, d)
  <2>1. d # Orders!NoRow
    BY <1>3, <1>4, NoOrder
  <2> QED BY <1>1, <1>3, <1>4, <2>1 DEF CopyOf, Open
<1>7. back'[Orders!Branch][o] <= d.refunded /\ d.pay # "unpaid"
  BY <1>1, <1>3, <1>4
<1> QED BY <1>1, <1>2, <1>4, <1>5, <1>6, <1>7, OrderSites, BranchChange, SameBack DEF b

LEMMA OrderVoid ==
    ASSUME OrderInv, NEW o \in Order, Orders!Void(o)
    PROVE  OrderInv'
<1> DEFINE b == B(o)
<1>1. /\ b.status \in {"Pending", "Completed", "PickedUp"} /\ b.voided < Total
      /\ \/ /\ b.pay = "unpaid"
            /\ Orders!Change(Orders!Branch, o, [b EXCEPT !.voided = @ + 1, !.total = @ - 1])
            /\ back' = back
         \/ /\ b.pay \in {"at_once", "settled"} /\ b.refunded < b.total
            /\ Orders!Change(Orders!Branch, o, [b EXCEPT !.voided = @ + 1, !.refunded = @ + 1])
            /\ back' = [back EXCEPT ![Orders!Branch][o] = @ + 1]
  BY DEF Orders!Void, Orders!Refundable, Orders!IsPaid, Orders!Status, B
<1>2. /\ b \in Orders!Row /\ CopyOf(b, b) /\ (b.pay = "unpaid" => b.total + b.voided = Total)
      /\ back[Orders!Branch][o] \in Nat /\ back[Orders!Branch][o] <= b.refunded
      /\ back \in [Orders!Site -> [Order -> 0..Total]]
      /\ b.total \in Nat /\ b.voided \in Nat /\ b.refunded \in Nat
      /\ b.total <= Total /\ b.voided <= Total /\ b.refunded <= b.total
  <2>1. b # Orders!NoRow
    BY <1>1, NoOrder
  <2> QED BY <2>1, BranchRow
<1>3. CASE /\ b.pay = "unpaid" /\ back' = back
           /\ Orders!Change(Orders!Branch, o, [b EXCEPT !.voided = @ + 1, !.total = @ - 1])
  <2> DEFINE v == b.voided + 1
             w == b.total - 1
             d == [b EXCEPT !.voided = v, !.total = w]
  <2>1. Orders!Change(Orders!Branch, o, d)
    BY <1>3
  <2>2. v \in 0..Total /\ w \in 0..Total /\ b.refunded = 0
    <3>1. b.refunded > 0 => b.pay \notin Open
      BY <1>2 DEF CopyOf
    <3> QED BY <1>1, <1>2, <1>3, <3>1, OrderAssumption DEF Open
  <2>3. v \in Nat /\ v = b.voided + 1 /\ w \in Int /\ w = b.total - 1
    BY <1>2
  <2> HIDE DEF b, v, w
  <2>4. /\ d \in Orders!Row /\ d.status = b.status /\ d.pay = b.pay /\ d.total = w
        /\ d.voided = v /\ d.refunded = b.refunded
    BY <1>2, <2>2 DEF Orders!Row
  <2> HIDE DEF d
  <2>5. Grows(b, d)
    BY <1>2, <1>3, <2>3, <2>4, StageOf DEF Grows, Stage
  <2>6. CopyOf(d, d)
    <3>1. d # Orders!NoRow
      BY <1>1, <2>4, NoOrder
    <3> QED BY <1>1, <1>2, <1>3, <2>2, <2>3, <2>4, <3>1 DEF CopyOf, Open
  <2>7. back'[Orders!Branch][o] <= d.refunded /\ (d.pay = "unpaid" => d.total + d.voided = Total)
    BY <1>2, <1>3, <2>3, <2>4
  <2> QED BY <1>2, <1>3, <2>1, <2>4, <2>5, <2>6, <2>7, OrderSites, BranchChange, SameBack DEF b
<1>4. CASE /\ b.pay \in {"at_once", "settled"} /\ b.refunded < b.total
           /\ Orders!Change(Orders!Branch, o, [b EXCEPT !.voided = @ + 1, !.refunded = @ + 1])
           /\ back' = [back EXCEPT ![Orders!Branch][o] = @ + 1]
  <2> DEFINE v == b.voided + 1
             w == b.refunded + 1
             d == [b EXCEPT !.voided = v, !.refunded = w]
  <2>1. Orders!Change(Orders!Branch, o, d)
    BY <1>4
  <2>2. v \in 0..Total /\ w \in 0..Total
    BY <1>1, <1>2, <1>4, OrderAssumption
  <2>3. v \in Nat /\ v = b.voided + 1 /\ w \in Nat /\ w = b.refunded + 1
    BY <1>2
  <2>4. back[Orders!Branch][o] + 1 \in 0..Total /\ back[Orders!Branch][o] + 1 <= w
    BY <1>2, <2>2, <2>3, OrderAssumption
  <2>5. /\ back' \in [Orders!Site -> [Order -> 0..Total]]
        /\ back'[Orders!Branch][o] = back[Orders!Branch][o] + 1
        /\ \A q \in Orders!Site, x \in Order : q # Orders!Branch \/ x # o => back'[q][x] = back[q][x]
    BY <1>2, <1>4, <2>4, OrderSites, MoreBack
  <2> HIDE DEF b, v, w
  <2>6. /\ d \in Orders!Row /\ d.status = b.status /\ d.pay = b.pay /\ d.total = b.total
        /\ d.voided = v /\ d.refunded = w
    BY <1>2, <2>2 DEF Orders!Row
  <2> HIDE DEF d
  <2>7. Grows(b, d)
    BY <1>2, <2>3, <2>6, StageOf DEF Grows, Stage
  <2>8. CopyOf(d, d)
    <3>1. d # Orders!NoRow
      BY <1>1, <2>6, NoOrder
    <3> QED BY <1>1, <1>2, <1>4, <2>3, <2>6, <3>1 DEF CopyOf, Open
  <2>9. back'[Orders!Branch][o] <= d.refunded /\ d.pay # "unpaid"
    BY <1>4, <2>4, <2>5, <2>6
  <2> QED BY <2>1, <2>5, <2>6, <2>7, <2>8, <2>9, OrderSites, BranchChange DEF b
<1> QED BY <1>1, <1>3, <1>4

-----------------------------------------------------------------------------
\* A host sends its rows.
LEMMA OrderSend ==
    ASSUME OrderInv, NEW s \in Orders!Site, Orders!Send(s)
    PROVE  OrderInv'
<1> DEFINE q == Orders!Other(s)
           pg == [o \in Order |-> IF o \in dirty[s] THEN orderRow[s][o] ELSE Orders!NoRow]
<1>1. /\ page[q] = Orders!NoPage /\ page' = [page EXCEPT ![q] = pg]
      /\ dirty' = [dirty EXCEPT ![s] = {}] /\ orderRow' = orderRow /\ back' = back
  BY DEF Orders!Send
<1>2. q \in Orders!Site /\ q # s /\ \A x \in Orders!Site : x = s \/ x = q
  BY OrderSites
<1>3. /\ orderRow \in [Orders!Site -> [Order -> Orders!Row]] /\ dirty \in [Orders!Site -> SUBSET Order]
      /\ page \in [Orders!Site -> [Order -> Orders!Row]]
      /\ back \in [Orders!Site -> [Order -> 0..Total]]
      /\ \A o \in Order : OrderSound(o)
  BY DEF OrderInv, Orders!TypeOK
<1>4. pg \in [Order -> Orders!Row]
      /\ \A o \in Order : pg[o] = IF o \in dirty[s] THEN orderRow[s][o] ELSE Orders!NoRow
  BY <1>3, NoOrder
<1>5. \A o \in Order : page[q][o] = Orders!NoRow
  BY <1>1 DEF Orders!NoPage
<1> HIDE DEF pg, q
<1>6. /\ page' \in [Orders!Site -> [Order -> Orders!Row]] /\ page'[q] = pg /\ page'[s] = page[s]
      /\ dirty' \in [Orders!Site -> SUBSET Order] /\ dirty'[s] = {} /\ dirty'[q] = dirty[q]
  BY <1>1, <1>2, <1>3, <1>4
<1>7. Orders!TypeOK'
  BY <1>1, <1>3, <1>6 DEF Orders!TypeOK, Orders!Site, Orders!Row, Orders!Pay, Orders!Status,
                          Orders!Branch, Orders!Hub
<1>8. ASSUME NEW o \in Order PROVE OrderSound(o)'
  <2>1. OrderSound(o)
    BY <1>3
  <2>2. CASE o \notin dirty[s]
    <3>1. orderRow'[Orders!Branch][o] = B(o) /\ orderRow'[Orders!Hub][o] = U(o)
      BY <1>1 DEF B, U
    <3>2. \A x \in Orders!Site :
              /\ page'[x][o] = page[x][o] /\ back'[x][o] = back[x][o]
              /\ o \in dirty[x] => o \in dirty'[x]
      BY <1>1, <1>2, <1>4, <1>5, <1>6, <2>2
    <3> QED BY <2>1, <3>1, <3>2, OrderSteady
  <2>3. CASE o \in dirty[s]
    <3> DEFINE b == B(o)
               u == U(o)
               down1 == page[Orders!Branch][o]
               up1 == page[Orders!Hub][o]
    <3>1. b \in Orders!Row /\ u \in Orders!Row
      BY OrderTypes DEF OrderInv
    <3>2. /\ \A c \in {b, u, down1, up1} : c # Orders!NoRow => CopyOf(c, b)
          /\ b.pay = "unpaid" => b.total + b.voided = Total
          /\ back[Orders!Branch][o] <= b.refunded /\ back[Orders!Hub][o] <= u.refunded
          /\ Before(up1, b) /\ Before(down1, u)
          /\ o \notin dirty[Orders!Branch] => Sends(b, u, up1) /\ BranchSends(b, u, up1)
          /\ o \notin dirty[Orders!Hub] => Sends(u, b, down1)
      BY <2>1 DEF OrderSound
    <3>3. orderRow'[Orders!Branch][o] = b /\ orderRow'[Orders!Hub][o] = u
      BY <1>1 DEF B, U
    <3>4. Stage(b) \in -1..3 /\ Stage(u) \in -1..3 /\ b.refunded \in Nat /\ u.refunded \in Nat
          /\ u.voided \in Nat /\ u.total \in Nat
      BY <3>1, StageOf, OrderFields
    <3>5. page'[q][o] = orderRow[s][o]
      BY <1>4, <1>6, <2>3
    <3>6. CASE s = Orders!Branch
      <4>1. q = Orders!Hub
        BY <3>6, OrderSites DEF q
      <4>2. page'[Orders!Branch][o] = down1 /\ page'[Orders!Hub][o] = b
            /\ dirty'[Orders!Hub] = dirty[Orders!Hub]
        BY <1>6, <3>5, <3>6, <4>1 DEF B
      <4> HIDE DEF b, u, down1, up1
      <4>3. Before(b, b) /\ Sends(b, u, b)
        BY <3>4 DEF Before, Sends
      <4>4. BranchSends(b, u, b)
        BY DEF BranchSends
      <4> QED BY <1>1, <3>2, <3>3, <4>2, <4>3, <4>4, OrderAfter
    <3>7. CASE s = Orders!Hub
      <4>1. q = Orders!Branch
        BY <3>7, OrderSites DEF q
      <4>2. page'[Orders!Branch][o] = u /\ page'[Orders!Hub][o] = up1
            /\ dirty'[Orders!Branch] = dirty[Orders!Branch]
        BY <1>6, <3>5, <3>7, <4>1 DEF U
      <4> HIDE DEF b, u, down1, up1
      <4>3. Before(u, u) /\ Sends(u, b, u)
        BY <3>4 DEF Before, Sends
      <4> QED BY <1>1, <3>2, <3>3, <4>2, <4>3, OrderAfter
    <3> QED BY <3>6, <3>7, OrderSites
  <2> QED BY <2>2, <2>3
<1> QED BY <1>7, <1>8 DEF OrderInv

\* A host receives its page; the other hears of it, or sends it again.
LEMMA OrderReceive ==
    ASSUME OrderInv, NEW s \in Orders!Site, NEW saved, Orders!Receive(s, saved)
    PROVE  OrderInv'
<1> DEFINE q == Orders!Other(s)
           on == Orders!OnPage(page[s])
           New(o) == IF o \in on THEN Orders!MergedRow(s, o) ELSE orderRow[s][o]
           rows == [o \in Order |-> New(o)]
           mark == Orders!Marked(s)
           again == IF saved THEN {} ELSE on
<1>1. /\ orderRow' = [orderRow EXCEPT ![s] = rows]
      /\ page' = [page EXCEPT ![s] = Orders!NoPage] /\ back' = back
      /\ dirty' = [dirty EXCEPT ![s] = @ \cup mark, ![q] = IF saved THEN @ ELSE @ \cup on]
  BY DEF Orders!Receive
<1>2. q \in Orders!Site /\ q # s /\ \A x \in Orders!Site : x = s \/ x = q
  BY OrderSites
<1>3. /\ orderRow \in [Orders!Site -> [Order -> Orders!Row]] /\ dirty \in [Orders!Site -> SUBSET Order]
      /\ page \in [Orders!Site -> [Order -> Orders!Row]]
      /\ back \in [Orders!Site -> [Order -> 0..Total]]
      /\ \A o \in Order : OrderSound(o)
  BY DEF OrderInv, Orders!TypeOK
<1>4. /\ on \subseteq Order /\ mark \subseteq Order
      /\ \A o \in Order : o \in on <=> page[s][o] # Orders!NoRow
  BY DEF Orders!OnPage, Orders!Marked
<1>5. /\ \A o \in Order : o \in on => New(o) = Orders!Merged(orderRow[s][o], page[s][o])
      /\ \A o \in Order : o \notin on => New(o) = orderRow[s][o]
  BY DEF Orders!MergedRow
<1>6. s = Orders!Hub => \A o \in on : New(o) # orderRow[s][o] => o \in mark
  BY <1>4 DEF Orders!Marked
<1>7. \A o \in Order : Orders!NoPage[o] = Orders!NoRow
  BY DEF Orders!NoPage
<1>8. Orders!NoPage \in [Order -> Orders!Row]
  BY NoOrder DEF Orders!NoPage
<1> HIDE DEF q, on, New, mark
<1>9. ASSUME NEW o \in Order PROVE New(o) \in Orders!Row
  <2>1. CASE o \notin on
    BY <1>3, <1>5, <2>1
  <2>2. CASE o \in on
    <3> DEFINE m == orderRow[s][o]
               c == page[s][o]
    <3>1. m \in Orders!Row /\ c \in Orders!Row /\ c # Orders!NoRow /\ B(o) \in Orders!Row
      BY <1>3, <1>4, <2>2, OrderSites DEF B
    <3>2. CopyOf(c, B(o)) /\ (m # Orders!NoRow => CopyOf(m, B(o)))
      BY <1>3, <3>1, OrderSites DEF OrderSound, B, U
    <3>3. New(o) = Orders!Merged(m, c)
      BY <1>5, <2>2
    <3> HIDE DEF m, c
    <3>4. CASE m = Orders!NoRow
      BY <3>1, <3>3, <3>4 DEF Orders!Merged
    <3>5. CASE m # Orders!NoRow
      BY <3>1, <3>2, <3>3, <3>5, MergedFacts
    <3> QED BY <3>4, <3>5
  <2> QED BY <2>1, <2>2
<1>10. rows \in [Order -> Orders!Row] /\ \A o \in Order : rows[o] = New(o)
  BY <1>9
<1> HIDE DEF rows
<1>11. /\ orderRow' \in [Orders!Site -> [Order -> Orders!Row]]
       /\ page' \in [Orders!Site -> [Order -> Orders!Row]]
       /\ orderRow'[s] = rows /\ orderRow'[q] = orderRow[q]
       /\ page'[s] = Orders!NoPage /\ page'[q] = page[q]
  BY <1>1, <1>2, <1>3, <1>8, <1>10
<1>12. /\ dirty' \in [Orders!Site -> SUBSET Order]
       /\ dirty[s] \cup mark \subseteq dirty'[s] /\ dirty[q] \subseteq dirty'[q]
  <2> DEFINE X == dirty[s] \cup mark
             Y == IF saved THEN dirty[q] ELSE dirty[q] \cup on
  <2>1. X \in SUBSET Order /\ Y \in SUBSET Order /\ dirty[q] \subseteq Y
    BY <1>2, <1>3, <1>4
  <2>2. dirty' = [dirty EXCEPT ![s] = X, ![q] = Y]
    BY <1>1, <1>2, <1>3
  <2>3. dirty[s] \cup mark \subseteq X
    OBVIOUS
  <2> HIDE DEF X, Y
  <2> QED BY <1>2, <1>3, <2>1, <2>2, <2>3
<1>13. Orders!TypeOK'
  BY <1>1, <1>3, <1>11, <1>12 DEF Orders!TypeOK, Orders!Site, Orders!Row, Orders!Pay, Orders!Status,
                                  Orders!Branch, Orders!Hub
<1>14. ASSUME NEW o \in Order PROVE OrderSound(o)'
  <2>1. OrderSound(o)
    BY <1>3
  <2>2. CASE o \notin on
    <3>1. orderRow'[s][o] = orderRow[s][o] /\ orderRow'[q][o] = orderRow[q][o]
      BY <1>5, <1>10, <1>11, <2>2
    <3>2. orderRow'[Orders!Branch][o] = B(o) /\ orderRow'[Orders!Hub][o] = U(o)
      BY <1>2, <3>1, OrderSites DEF B, U
    <3>3. \A x \in Orders!Site :
              /\ page'[x][o] = page[x][o] /\ back'[x][o] = back[x][o]
              /\ o \in dirty[x] => o \in dirty'[x]
      BY <1>1, <1>2, <1>4, <1>7, <1>11, <1>12, <2>2
    <3> QED BY <2>1, <3>2, <3>3, OrderSteady
  <2>3. CASE o \in on
    <3> DEFINE b == B(o)
               u == U(o)
               down2 == page[Orders!Branch][o]
               up2 == page[Orders!Hub][o]
               v == New(o)
    <3>1. b \in Orders!Row /\ u \in Orders!Row /\ down2 \in Orders!Row /\ up2 \in Orders!Row
          /\ v \in Orders!Row
      BY <1>9, OrderTypes DEF OrderInv
    <3>2. /\ \A c \in {b, u, down2, up2} : c # Orders!NoRow => CopyOf(c, b)
          /\ b.pay = "unpaid" => b.total + b.voided = Total
          /\ back[Orders!Branch][o] <= b.refunded /\ back[Orders!Hub][o] <= u.refunded
          /\ back[Orders!Branch][o] \in Nat /\ back[Orders!Hub][o] \in Nat
          /\ Before(up2, b) /\ Before(down2, u)
          /\ o \notin dirty[Orders!Branch] => Sends(b, u, up2) /\ BranchSends(b, u, up2)
          /\ o \notin dirty[Orders!Hub] => Sends(u, b, down2)
      BY <2>1, OrderTypes DEF OrderSound, OrderInv
    <3>3. /\ Stage(b) \in -1..3 /\ Stage(u) \in -1..3 /\ b.refunded \in Nat /\ u.refunded \in Nat
          /\ v.refunded \in Nat
      BY <3>1, StageOf, OrderFields
    <3>4. /\ orderRow'[s][o] = v /\ orderRow'[q][o] = orderRow[q][o]
          /\ page'[s][o] = Orders!NoRow /\ page'[q][o] = page[q][o]
          /\ o \in dirty[s] => o \in dirty'[s]
          /\ o \in dirty[q] => o \in dirty'[q]
          /\ page[s][o] # Orders!NoRow /\ v = Orders!Merged(orderRow[s][o], page[s][o])
      BY <1>4, <1>5, <1>7, <1>10, <1>11, <1>12, <2>3
    <3>5. CASE s = Orders!Hub
      <4>1. q = Orders!Branch
        BY <3>5, OrderSites DEF q
      <4>2. /\ orderRow'[Orders!Branch][o] = b /\ orderRow'[Orders!Hub][o] = v
            /\ page'[Orders!Branch][o] = down2 /\ page'[Orders!Hub][o] = Orders!NoRow
            /\ o \in dirty[Orders!Branch] => o \in dirty'[Orders!Branch]
            /\ o \in dirty[Orders!Hub] => o \in dirty'[Orders!Hub]
            /\ up2 # Orders!NoRow /\ v = Orders!Merged(u, up2)
        BY <3>4, <3>5, <4>1 DEF B, U
      <4>3. v # u => o \in dirty'[Orders!Hub]
        BY <1>6, <1>12, <2>3, <3>5 DEF U
      <4> HIDE DEF b, u, down2, up2, v
      <4>4. /\ CopyOf(v, b) /\ Before(down2, v) /\ u.refunded <= v.refunded
            /\ Sends(b, u, up2) => Sends(b, v, Orders!NoRow)
            /\ BranchSends(b, u, up2) => BranchSends(b, v, Orders!NoRow)
        BY <3>1, <3>2, <4>2, HubMerged
      <4>5. Before(Orders!NoRow, b)
        BY <3>3, NoOrder DEF Before
      <4>6. \A c \in {b, v, down2, Orders!NoRow} : c # Orders!NoRow => CopyOf(c, b)
        BY <3>2, <4>4
      <4>7. back'[Orders!Branch][o] <= b.refunded /\ back'[Orders!Hub][o] <= v.refunded
        BY <1>1, <3>2, <3>3, <4>4
      <4>8. o \notin dirty'[Orders!Branch] => Sends(b, v, Orders!NoRow) /\ BranchSends(b, v, Orders!NoRow)
        BY <3>2, <4>2, <4>4
      <4>9. o \notin dirty'[Orders!Hub] => Sends(v, b, down2)
        BY <3>2, <4>2, <4>3
      <4> QED BY <3>2, <4>2, <4>4, <4>5, <4>6, <4>7, <4>8, <4>9, OrderAfter
    <3>6. CASE s = Orders!Branch
      <4>1. q = Orders!Hub
        BY <3>6, OrderSites DEF q
      <4>2. /\ orderRow'[Orders!Branch][o] = v /\ orderRow'[Orders!Hub][o] = u
            /\ page'[Orders!Branch][o] = Orders!NoRow /\ page'[Orders!Hub][o] = up2
            /\ o \in dirty[Orders!Branch] => o \in dirty'[Orders!Branch]
            /\ o \in dirty[Orders!Hub] => o \in dirty'[Orders!Hub]
            /\ down2 # Orders!NoRow /\ v = Orders!Merged(b, down2)
        BY <3>4, <3>6, <4>1 DEF B, U
      <4> HIDE DEF b, u, down2, up2, v
      <4>3. /\ CopyOf(v, v) /\ Grows(b, v) /\ (v.pay = "unpaid" => v.total + v.voided = Total)
            /\ Sends(b, u, up2) => Sends(v, u, up2)
            /\ BranchSends(b, u, up2) => BranchSends(v, u, up2)
            /\ Sends(u, b, down2) => Sends(u, v, Orders!NoRow)
        BY <3>1, <3>2, <4>2, BranchMerged
      <4>4. /\ \A c \in {v, u, down2, up2} : c # Orders!NoRow => CopyOf(c, v)
            /\ Before(up2, v)
        BY <3>1, <3>2, <4>3, BranchWrites
      <4>5. Before(Orders!NoRow, u)
        BY <3>3, NoOrder DEF Before
      <4>6. \A c \in {v, u, Orders!NoRow, up2} : c # Orders!NoRow => CopyOf(c, v)
        BY <4>4
      <4>7. back'[Orders!Branch][o] <= v.refunded /\ back'[Orders!Hub][o] <= u.refunded
        BY <1>1, <3>2, <3>3, <4>3 DEF Grows
      <4>8. o \notin dirty'[Orders!Branch] => Sends(v, u, up2) /\ BranchSends(v, u, up2)
        BY <3>2, <4>2, <4>3
      <4>9. o \notin dirty'[Orders!Hub] => Sends(u, v, Orders!NoRow)
        BY <3>2, <4>2, <4>3
      <4> QED BY <4>2, <4>3, <4>4, <4>5, <4>6, <4>7, <4>8, <4>9, OrderAfter
    <3> QED BY <3>5, <3>6, OrderSites
  <2> QED BY <2>2, <2>3
<1> QED BY <1>13, <1>14 DEF OrderInv

-----------------------------------------------------------------------------
LEMMA OrderInit ==
    ASSUME Orders!Init
    PROVE  OrderInv
<1>1. /\ orderRow = [s \in Orders!Site |-> Orders!NoPage]
      /\ back = [s \in Orders!Site |-> [o \in Order |-> 0]]
      /\ dirty = [s \in Orders!Site |-> {}]
      /\ page = [s \in Orders!Site |-> Orders!NoPage]
  BY DEF Orders!Init
<1>2. Orders!NoPage \in [Order -> Orders!Row] /\ \A o \in Order : Orders!NoPage[o] = Orders!NoRow
  BY NoOrder DEF Orders!NoPage
<1>3. Orders!TypeOK
  BY <1>1, <1>2, OrderAssumption DEF Orders!TypeOK
<1>4. ASSUME NEW o \in Order PROVE OrderSound(o)
  <2>1. /\ B(o) = Orders!NoRow /\ U(o) = Orders!NoRow
        /\ page[Orders!Branch][o] = Orders!NoRow /\ page[Orders!Hub][o] = Orders!NoRow
        /\ back[Orders!Branch][o] = 0 /\ back[Orders!Hub][o] = 0
    BY <1>1, <1>2, OrderSites DEF B, U
  <2>2. Sends(Orders!NoRow, Orders!NoRow, Orders!NoRow) /\ Before(Orders!NoRow, Orders!NoRow)
    BY NoOrder DEF Sends, Before
  <2>3. BranchSends(Orders!NoRow, Orders!NoRow, Orders!NoRow)
    BY NoOrder DEF BranchSends, Taken
  <2> QED BY <2>1, <2>2, <2>3, NoOrder DEF OrderSound
<1> QED BY <1>3, <1>4 DEF OrderInv

LEMMA OrderNext ==
    ASSUME OrderInv, Orders!Next
    PROVE  OrderInv'
<1>1. ASSUME NEW o \in Order,
             \/ \E pay \in {"at_once", "unpaid", "authorizing"} : Orders!Place(o, pay)
             \/ Orders!Settle(o) \/ Orders!Charged(o) \/ Orders!Void(o)
      PROVE  OrderInv'
  BY <1>1, OrderPlace, OrderPaid, OrderVoid
<1>2. ASSUME NEW o \in Order, NEW s \in Orders!Site,
             \/ \E status \in {"Completed", "PickedUp"} : Orders!Advance(s, o, status)
             \/ Orders!Cancel(s, o) \/ Orders!PartialRefund(s, o) \/ Orders!RefundDone(s, o)
      PROVE  OrderInv'
  BY <1>2, OrderAdvance, OrderCancel, OrderPartialRefund, OrderRefundDone
<1>3. ASSUME NEW s \in Orders!Site, Orders!Send(s) \/ \E saved \in BOOLEAN : Orders!Receive(s, saved)
      PROVE  OrderInv'
  BY <1>3, OrderSend, OrderReceive
<1> QED BY <1>1, <1>2, <1>3 DEF Orders!Next

LEMMA OrderStays ==
    ASSUME OrderInv, UNCHANGED orderVars
    PROVE  OrderInv'
<1>1. orderRow' = orderRow /\ back' = back /\ dirty' = dirty /\ page' = page
  BY DEF orderVars
<1>2. Orders!TypeOK'
  BY <1>1 DEF OrderInv, Orders!TypeOK, Orders!Site, Orders!Row, Orders!Pay, Orders!Status,
              Orders!Branch, Orders!Hub
<1>3. ASSUME NEW o \in Order PROVE OrderSound(o)'
  <2>1. OrderSound(o)
    BY DEF OrderInv
  <2>2. orderRow'[Orders!Branch][o] = B(o) /\ orderRow'[Orders!Hub][o] = U(o)
    BY <1>1 DEF B, U
  <2> QED BY <1>1, <2>1, <2>2, OrderSteady
<1> QED BY <1>2, <1>3 DEF OrderInv

\* What one host knows of an order and the other does not is still to be sent to it, or
\* on its way, whatever page is late, lost or comes again (engine._merge_order).
THEOREM OrdersHold == Spec => []OrderInv
<1>1. Init => OrderInv
  BY OrderInit DEF Init
<1>2. OrderInv /\ [Next]_all => OrderInv'
  <2> SUFFICES ASSUME OrderInv, [Next]_all PROVE OrderInv'
    OBVIOUS
  <2>1. CASE Orders!Next
    BY <2>1, OrderNext
  <2>2. CASE UNCHANGED orderVars
    BY <2>2, OrderStays
  <2> QED BY <2>1, <2>2 DEF Next, all
<1> QED BY <1>1, <1>2, PTL DEF Spec

-----------------------------------------------------------------------------
LEMMA RowsAgreeInQuiet ==
    ASSUME OrderInv
    PROVE  Orders!RowsAgree
<1>1. ASSUME NEW o \in Order, ~Orders!Travelling(o)
      PROVE  LET here == B(o)
                 there == U(o)
             IN  /\ [here EXCEPT !.pay = there.pay] = there
                 /\ here.pay = there.pay \/ "refunded" \in {here.pay, there.pay}
                 /\ here.status = "Cancelled" => "settled" \notin {here.pay, there.pay}
  <2> DEFINE b == B(o)
             u == U(o)
  <2>1. /\ o \notin dirty[Orders!Branch] /\ o \notin dirty[Orders!Hub]
        /\ page[Orders!Branch][o] = Orders!NoRow /\ page[Orders!Hub][o] = Orders!NoRow
    BY <1>1 DEF Orders!Travelling, Orders!OnPage
  <2>2. b \in Orders!Row /\ u \in Orders!Row
    BY OrderTypes DEF OrderInv
  <2>3. /\ b # Orders!NoRow => CopyOf(b, b)
        /\ u # Orders!NoRow => CopyOf(u, b)
        /\ Sends(b, u, Orders!NoRow) /\ Sends(u, b, Orders!NoRow)
        /\ BranchSends(b, u, Orders!NoRow)
    BY <2>1 DEF OrderInv, OrderSound
  <2> HIDE DEF b, u
  <2>4. /\ b.refunded \in Nat /\ u.refunded \in Nat /\ b.voided \in Nat /\ u.voided \in Nat
        /\ b.total \in Nat /\ u.total \in Nat /\ Stage(b) \in -1..3 /\ Stage(u) \in -1..3
        /\ b.pay \in Orders!Pay /\ u.pay \in Orders!Pay
    BY <2>2, StageOf, OrderFields
  <2>5. b.refunded = u.refunded
    BY <2>3, <2>4, NoOrder DEF Sends
  <2>6. b.status = u.status
    <3>1. Stage(b) > Stage(u) => b.status = "none"
      BY <2>3, NoOrder DEF Sends
    <3>2. Stage(u) > Stage(b) => u.status = "none"
      BY <2>3, NoOrder DEF Sends
    <3>3. Stage(b) = Stage(u)
      BY <2>2, <2>4, <3>1, <3>2, StageOf
    <3> QED BY <2>2, <3>3, StageSame
  <2>7. CASE b = Orders!NoRow
    <3>1. u = Orders!NoRow
      BY <2>3, <2>7 DEF CopyOf
    <3>2. [b EXCEPT !.pay = u.pay] = u
      BY <2>7, <3>1 DEF Orders!NoRow
    <3> QED BY <2>7, <3>1, <3>2, NoOrder DEF b, u
  <2>8. CASE b # Orders!NoRow
    <3>1. u # Orders!NoRow /\ ~(b.total < u.total)
      BY <2>3, <2>8 DEF BranchSends
    <3>2. CopyOf(b, b) /\ CopyOf(u, b)
      BY <2>3, <2>8, <3>1
    <3>3. b.total = u.total
      BY <2>4, <3>1, <3>2 DEF CopyOf
    <3>4. b.voided = u.voided
      BY <2>3, <2>4, <3>2, NoOrder DEF BranchSends, CopyOf
    <3>5. [b EXCEPT !.pay = u.pay] = u
      BY <2>2, <2>5, <2>6, <3>3, <3>4 DEF Orders!Row
    <3>6. b.pay \in Taken => u.pay \notin Open \cup {"none"}
      BY <2>3, NoOrder DEF BranchSends, Taken
    <3>7. /\ IF b.status = "Cancelled" THEN b.pay # "settled" /\ u.pay # "settled"
             ELSE b.pay \notin {"refund_required", "refunded"} /\ u.pay \notin {"refund_required", "refunded"}
          /\ b.pay # "none" /\ u.pay # "none"
      BY <2>6, <3>2 DEF CopyOf
    <3>8. /\ b.pay \in Table <=> u.pay \in Table
          /\ u.pay \in Open \/ b.pay \notin Open
      BY <3>2 DEF CopyOf
    <3>9. b.pay = u.pay \/ "refunded" \in {b.pay, u.pay}
      BY <2>4, <3>6, <3>7, <3>8 DEF Table, Open, Taken, Orders!Pay
    <3> QED BY <3>5, <3>7, <3>9 DEF b, u
  <2> QED BY <2>7, <2>8
<1> QED BY <1>1 DEF Orders!RowsAgree, B, U

-----------------------------------------------------------------------------
\* Whatever the hosts send each other, every variable holds what it should.
THEOREM TypesOKHolds == Spec => []TypesOK
<1>1. OrderInv /\ StockInv /\ TransferInv /\ MemberInv => TypesOK
  BY DEF OrderInv, StockInv, TransferInv, MemberInv, TypesOK
<1> QED BY <1>1, OrdersHold, StockHolds, TransfersHold, MembersHold, PTL

\* With nothing under way the two hosts have the same: of an order
\* (engine._merge_order), of an online order and its shelf (node._apply_online_stock),
\* of a transfer (engine._merge_transfer).
THEOREM HostsAgreeHolds == Spec => []HostsAgree
<1>1. OrderInv /\ AgreeInv /\ TransferInv => HostsAgree
  BY RowsAgreeInQuiet, BothAgreeInQuiet, EndsAgreeInQuiet DEF HostsAgree
<1> QED BY <1>1, OrdersHold, RowsHold, TransfersHold, PTL

=============================================================================
