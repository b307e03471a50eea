------------------------- MODULE MCServices_proofs -------------------------
(***************************************************************************)
(* What is proved of the services around an order, for any number of       *)
(* requests, tables, people, messages and days: that what is done once is  *)
(* done once (OnceEach), and that those who plan ahead do not promise more *)
(* than there is (PlansKept, OnlineFits).                                  *)
(*                                                                         *)
(* Each service has an inductive invariant of its own; the steps of the    *)
(* others do not touch it, for only one of them is running.  The sums they *)
(* count with are the community modules' MapThenSumSet: the lemmas about   *)
(* it take a least set for which the claim fails, since a strict subset of *)
(* a finite set is a well-founded ordering.                                *)
(***************************************************************************)
EXTENDS MCServices, FiniteSetsExt, FiniteSetTheorems, WellFoundedInduction, TLAPS

\* A ticket's orders have one key, and who is about to accept a ticket has its order.
PlatformInv ==
    /\ Platform!TypeOK /\ Platform!OneOrder /\ Platform!AcceptedIsMade
    /\ x1 \in Seq([ref : Platform!Reference, key : Order \X {"plain"}])
    /\ \A i \in DOMAIN x1 : x1[i].key = Platform!Key(x1[i].ref)
    /\ \A r \in Request : x3[r].at = "accept" =>
           \E i \in DOMAIN x1 : x1[i].ref.ticket = x3[r].ref.ticket
    /\ \A r \in Request : x3[r].at # "idle" => x3[r].ref \in Platform!Reference

\* An order that is found is of the ticket.
LEMMA PlatformFound ==
    ASSUME PlatformInv, NEW ref \in Platform!Reference,
           Platform!FindPlatformOrder(ref) \/ Platform!SameKey(ref)
    PROVE  \E i \in DOMAIN x1 : x1[i].ref.ticket = ref.ticket
<1>1. PICK i \in DOMAIN x1 : x1[i].key = Platform!Key(ref) \/ x1[i].ref = ref
  BY DEF Platform!FindPlatformOrder, Platform!SameKey
<1>2. x1[i].key = Platform!Key(x1[i].ref)
  BY DEF PlatformInv
<1> QED BY <1>1, <1>2 DEF Platform!Key

\* A request that goes on to the answer, or ends, after its order was found or made.
LEMMA PlatformMade ==
    ASSUME PlatformInv, NEW r \in Request, x3[r].at # "idle",
           UNCHANGED <<x1, x2, x4, x5>>,
           \/ x3' = [x3 EXCEPT ![r] = Platform!Idle]
           \/ \E at \in {"checkout", "failed", "deny"} : x3' = [x3 EXCEPT ![r].at = at]
           \/ /\ x3' = [x3 EXCEPT ![r].at = "accept"]
              /\ \E i \in DOMAIN x1 : x1[i].ref.ticket = x3[r].ref.ticket
    PROVE  PlatformInv'
<1>1. Platform!TypeOK'
  BY DEF PlatformInv, Platform!TypeOK, Platform!Idle, Platform!NoReference
<1>2. \A q \in Request : x3'[q].at = "accept" =>
          \E i \in DOMAIN x1 : x1[i].ref.ticket = x3'[q].ref.ticket
  <2> SUFFICES ASSUME NEW q \in Request, x3'[q].at = "accept"
               PROVE  \E i \in DOMAIN x1 : x1[i].ref.ticket = x3'[q].ref.ticket
    OBVIOUS
  <2>1. x3 \in [Request -> [at : {"idle", "look", "checkout", "failed", "accept", "deny"},
            by : {"uber", "panda", "staff"}, ref : Platform!Reference \cup {Platform!NoReference}]]
    BY DEF PlatformInv, Platform!TypeOK
  <2>2. CASE q # r
    BY <2>1, <2>2 DEF PlatformInv
  <2>3. CASE q = r
    <3>1. x3' # [x3 EXCEPT ![r] = Platform!Idle]
      BY <2>1, <2>3 DEF Platform!Idle
    <3>2. ASSUME NEW at \in {"checkout", "failed", "deny"}, x3' = [x3 EXCEPT ![r].at = at] PROVE FALSE
      BY <2>1, <2>3, <3>2
    <3>3. x3'[r].ref = x3[r].ref /\ \E i \in DOMAIN x1 : x1[i].ref.ticket = x3[r].ref.ticket
      BY <2>1, <3>1, <3>2
    <3> QED BY <2>3, <3>3
  <2> QED BY <2>2, <2>3
<1>3. \A q \in Request : x3'[q].at # "idle" => x3'[q].ref \in Platform!Reference
  BY DEF PlatformInv, Platform!TypeOK, Platform!Idle
<1> QED BY <1>1, <1>2, <1>3 DEF PlatformInv, Platform!OneOrder, Platform!AcceptedIsMade, Platform!Key

\* Every step of the platform's orders keeps it.
LEMMA PlatformNext ==
    ASSUME PlatformInv, Platform!Next
    PROVE  PlatformInv'
<1>1. x3 \in [Request -> [at : {"idle", "look", "checkout", "failed", "accept", "deny"},
          by : {"uber", "panda", "staff"}, ref : Platform!Reference \cup {Platform!NoReference}]]
  BY DEF PlatformInv, Platform!TypeOK
<1>2. CASE Platform!Change
  BY <1>2 DEF PlatformInv, Platform!Change, Platform!TypeOK, Platform!OneOrder, Platform!AcceptedIsMade,
              Platform!Key
<1>3. ASSUME NEW r \in Request, NEW by \in {"uber", "panda", "staff"}, NEW ref \in Platform!Reference,
             Platform!Call(r, by, ref)
      PROVE  PlatformInv'
  <2>1. Platform!TypeOK'
    BY <1>1, <1>3, BoundAssumption DEF PlatformInv, Platform!Call, Platform!TypeOK
  <2>2. /\ \A q \in Request : x3'[q].at = "accept" => x3'[q] = x3[q]
        /\ \A q \in Request : x3'[q].at # "idle" => x3'[q].ref \in Platform!Reference
    BY <1>1, <1>3 DEF PlatformInv, Platform!Call
  <2> QED BY <1>3, <2>1, <2>2 DEF PlatformInv, Platform!Call, Platform!OneOrder, Platform!AcceptedIsMade,
                                  Platform!Key
<1>4. ASSUME NEW r \in Request, x3[r].at # "idle",
             Platform!FindPlatformOrder(x3[r].ref) \/ Platform!SameKey(x3[r].ref),
             Platform!Made(r), UNCHANGED <<x1, x2, x4, x5>>
      PROVE  PlatformInv'
  <2>1. \E i \in DOMAIN x1 : x1[i].ref.ticket = x3[r].ref.ticket
    BY <1>4, PlatformFound DEF PlatformInv
  <2> QED BY <1>4, <2>1, PlatformMade DEF Platform!Made, Platform!Becomes, Platform!Ends
<1>5. ASSUME NEW r \in Request, Platform!CannotMap(r) PROVE PlatformInv'
  BY <1>5, PlatformMade DEF Platform!CannotMap, Platform!Becomes, Platform!Ends
<1>6. ASSUME NEW r \in Request, Platform!Look(r) PROVE PlatformInv'
  BY <1>4, <1>6, PlatformMade DEF Platform!Look, Platform!Becomes
<1>7. ASSUME NEW r \in Request, Platform!ProcessCheckout(r) PROVE PlatformInv'
  <2> DEFINE ref == x3[r].ref
             new == [ref |-> ref, key |-> Platform!Key(ref)]
  <2>1. CASE Platform!SameKey(ref) /\ (Platform!Made(r) \/ Platform!Becomes(r, "failed")) /\ UNCHANGED x1
    BY <1>4, <1>7, <2>1, PlatformMade DEF Platform!ProcessCheckout, Platform!Becomes
  <2>2. CASE ~Platform!SameKey(ref) /\ Platform!Becomes(r, "failed") /\ UNCHANGED x1
    BY <1>7, <2>2, PlatformMade DEF Platform!ProcessCheckout, Platform!Becomes
  <2>3. CASE ~Platform!SameKey(ref) /\ Platform!Made(r) /\ x1' = Append(x1, new)
    <3>1. ref \in Platform!Reference /\ new \in [ref : Platform!Reference, key : Order \X {"plain"}]
      BY <1>7 DEF PlatformInv, Platform!ProcessCheckout, Platform!Key, Platform!Reference
    <3>2. x1 \in Seq([ref : Platform!Reference, key : Order \X {"plain"}])
      BY DEF PlatformInv
    <3>3. /\ x1' \in Seq([ref : Platform!Reference, key : Order \X {"plain"}])
          /\ Len(x1') = Len(x1) + 1 /\ x1'[Len(x1) + 1] = new
          /\ \A i \in 1..Len(x1) : x1'[i] = x1[i]
      BY <2>3, <3>1, <3>2
    <3>4. \A i \in 1..Len(x1) : x1[i].ref.ticket # ref.ticket
      BY SMTT(30), <2>3, <3>1 DEF PlatformInv, Platform!SameKey, Platform!Key
    <3>5. DOMAIN x1 = 1..Len(x1) /\ DOMAIN x1' = 1..Len(x1) + 1 /\ Len(x1) \in Nat
      BY <3>2, <3>3
    <3>6. /\ \A i \in DOMAIN x1' : x1'[i].ref \in Platform!Reference
          /\ \A i \in DOMAIN x1' : x1'[i].key = Platform!Key(x1'[i].ref)
      <4> SUFFICES ASSUME NEW i \in DOMAIN x1'
                   PROVE  x1'[i].ref \in Platform!Reference /\ x1'[i].key = Platform!Key(x1'[i].ref)
        OBVIOUS
      <4>1. CASE i = Len(x1) + 1
        BY <3>1, <3>3, <4>1
      <4>2. CASE i \in 1..Len(x1)
        BY <3>3, <3>5, <4>2 DEF PlatformInv, Platform!TypeOK
      <4> QED BY <3>5, <4>1, <4>2
    <3>7. Platform!OneOrder'
      <4> SUFFICES ASSUME NEW i \in DOMAIN x1', NEW j \in DOMAIN x1', x1'[i].ref.ticket = x1'[j].ref.ticket
                   PROVE  i = j
        BY DEF Platform!OneOrder
      <4> QED BY <3>3, <3>4, <3>5 DEF PlatformInv, Platform!OneOrder
    <3>8. \A t : (\E i \in DOMAIN x1 : x1[i].ref.ticket = t) => \E i \in DOMAIN x1' : x1'[i].ref.ticket = t
      BY <3>3, <3>5
    <3>9. \E i \in DOMAIN x1' : x1'[i].ref.ticket = ref.ticket
      BY <3>3, <3>5
    <3>10. Platform!Becomes(r, "accept") \/ Platform!Ends(r)
      BY <2>3 DEF Platform!Made
    <3>11. Platform!TypeOK'
      <4>1. x3' \in [Request -> [at : {"idle", "look", "checkout", "failed", "accept", "deny"},
          by : {"uber", "panda", "staff"}, ref : Platform!Reference \cup {Platform!NoReference}]]
        BY <1>1, <3>10 DEF Platform!Becomes, Platform!Ends, Platform!Idle
      <4> QED BY <1>7, <3>6, <4>1 DEF PlatformInv, Platform!TypeOK, Platform!ProcessCheckout
    <3>12. \A q \in Request : q # r => x3'[q] = x3[q]
      BY <1>1, <3>10 DEF Platform!Becomes, Platform!Ends
    <3>13. x3'[r].at = "idle" \/ x3'[r] = [x3[r] EXCEPT !.at = "accept"]
      BY <1>1, <3>10 DEF Platform!Becomes, Platform!Ends, Platform!Idle
    <3>14. \A q \in Request : x3'[q].at = "accept" => \E i \in DOMAIN x1' : x1'[i].ref.ticket = x3'[q].ref.ticket
      <4> SUFFICES ASSUME NEW q \in Request, x3'[q].at = "accept"
                   PROVE  \E i \in DOMAIN x1' : x1'[i].ref.ticket = x3'[q].ref.ticket
        OBVIOUS
      <4>1. CASE q = r
        <5>1. x3'[r].ref = ref
          BY <1>1, <3>13, <4>1
        <5> QED BY <3>9, <4>1, <5>1
      <4>2. CASE q # r
        BY ZenonT(40), <3>8, <3>12, <4>2 DEF PlatformInv
      <4> QED BY <4>1, <4>2
    <3>15. \A q \in Request : x3'[q].at # "idle" => x3'[q].ref \in Platform!Reference
      BY <1>1, <3>1, <3>12, <3>13 DEF PlatformInv
    <3>16. Platform!AcceptedIsMade'
      BY <1>7, <3>8 DEF PlatformInv, Platform!AcceptedIsMade, Platform!ProcessCheckout
    <3> QED BY <3>3, <3>6, <3>7, <3>11, <3>14, <3>15, <3>16 DEF PlatformInv
  <2> QED BY <1>7, <2>1, <2>2, <2>3 DEF Platform!ProcessCheckout
<1>8. ASSUME NEW r \in Request, Platform!LookAgain(r) PROVE PlatformInv'
  <2>1. CASE Platform!FindPlatformOrder(x3[r].ref)
    BY <1>4, <1>8, <2>1 DEF Platform!LookAgain
  <2>2. CASE ~Platform!FindPlatformOrder(x3[r].ref)
    BY <1>8, <2>2, PlatformMade DEF Platform!LookAgain, Platform!Becomes, Platform!Ends
  <2> QED BY <2>1, <2>2
<1>9. ASSUME NEW r \in Request, Platform!Tell(r) PROVE PlatformInv'
  <2>1. Platform!TypeOK' 
    BY <1>1, <1>9 DEF PlatformInv, Platform!TypeOK, Platform!Tell, Platform!Ends, Platform!Idle
  <2>2. \A q \in Request : q # r => x3'[q] = x3[q]
    BY <1>1, <1>9 DEF Platform!Tell, Platform!Ends
  <2>3. x3'[r].at = "idle"
    BY <1>1, <1>9 DEF Platform!Tell, Platform!Ends, Platform!Idle
  <2>4. \A t \in Order : "accepted" \in x4'[t] =>
            "accepted" \in x4[t] \/ (t = x3[r].ref.ticket /\ x3[r].at = "accept")
    BY <1>9 DEF PlatformInv, Platform!TypeOK, Platform!Tell
  <2>5. Platform!AcceptedIsMade'
    BY <1>9, <2>4 DEF PlatformInv, Platform!AcceptedIsMade, Platform!Tell
  <2>6. x1' = x1
    BY <1>9 DEF Platform!Tell
  <2>7. /\ Platform!OneOrder'
        /\ x1' \in Seq([ref : Platform!Reference, key : Order \X {"plain"}])
        /\ \A i \in DOMAIN x1' : x1'[i].key = Platform!Key(x1'[i].ref)
    BY <2>6 DEF PlatformInv, Platform!OneOrder
  <2>8. \A q \in Request :
            /\ x3'[q].at = "accept" => \E i \in DOMAIN x1' : x1'[i].ref.ticket = x3'[q].ref.ticket
            /\ x3'[q].at # "idle" => x3'[q].ref \in Platform!Reference
    <3> TAKE q \in Request
    <3>1. CASE q = r
      BY <2>3, <3>1
    <3>2. CASE q # r
      BY <2>2, <2>6, <3>2 DEF PlatformInv
    <3> QED BY <3>1, <3>2
  <2> QED BY <2>1, <2>5, <2>7, <2>8 DEF PlatformInv
<1>10. ASSUME NEW r \in Request, Platform!Die(r) PROVE PlatformInv'
  <2>1. CASE x3[r].at # "idle"
    BY <1>10, <2>1, PlatformMade DEF Platform!Die, Platform!Ends
  <2>2. CASE x3[r].at = "idle"
    <3>1. Platform!TypeOK'
      BY <1>1, <1>10 DEF PlatformInv, Platform!TypeOK, Platform!Die, Platform!Ends, Platform!Idle
    <3>2. \A q \in Request : x3'[q].at # "idle" => x3'[q] = x3[q]
      BY <1>1, <1>10 DEF Platform!Die, Platform!Ends, Platform!Idle
    <3> QED BY <1>10, <3>1, <3>2 DEF PlatformInv, Platform!OneOrder, Platform!AcceptedIsMade, Platform!Die,
                                     Platform!Key
  <2> QED BY <2>1, <2>2
<1> QED BY <1>2, <1>3, <1>5, <1>6, <1>7, <1>8, <1>9, <1>10 DEF Platform!Next

\* It holds at first.
LEMMA PlatformInit ==
    ASSUME Platform!Init
    PROVE  PlatformInv
  BY BoundAssumption DEF Platform!Init, PlatformInv, Platform!TypeOK, Platform!OneOrder, Platform!AcceptedIsMade,
     Platform!Idle, Platform!Key

-----------------------------------------------------------------------------
\* The background jobs.

\* Counting one more.
LEMMA OneMore ==
    ASSUME NEW S, NEW f \in [S -> Nat], NEW k \in S
    PROVE  [f EXCEPT ![k] = @ + 1] \in [S -> Nat]
  OBVIOUS

\* Division by a day's length.
LEMMA Division ==
    ASSUME NEW D \in Nat \ {0}, NEW a \in Nat
    PROVE  /\ a \div D \in Nat /\ a % D \in 0..D - 1
           /\ a = D * (a \div D) + (a % D)
<1>1. a \div D \in Int /\ a % D \in 0..D - 1 /\ a = D * (a \div D) + (a % D)
  BY SMT
<1>2. ASSUME NEW q \in Int, q < 0 PROVE D * q + D <= 0
  BY <1>2, SMT
<1> QED BY <1>1, <1>2

\* What is later is not of an earlier day.
LEMMA DivisionGrows ==
    ASSUME NEW D \in Nat \ {0}, NEW a \in Nat, NEW b \in Nat, a <= b
    PROVE  a \div D <= b \div D
<1>1. ASSUME NEW p \in Nat, NEW q \in Nat, q > p PROVE D * q >= D * p + D
  BY <1>1, SMT
<1>2. /\ a \div D \in Nat /\ a % D \in 0..D - 1 /\ a = D * (a \div D) + (a % D)
      /\ b \div D \in Nat /\ b % D \in 0..D - 1 /\ b = D * (b \div D) + (b % D)
  BY Division
<1> DEFINE p == a \div D
           q == b \div D
           r == D * p
           s == D * q
<1>3. p \in Nat /\ q \in Nat /\ r \in Int /\ s \in Int
  BY <1>2
<1>4. p > q => r >= s + D
  BY <1>1, <1>3
<1>5. r <= a /\ b < s + D
  BY <1>2
<1> HIDE DEF p, q, r, s
<1>6. p <= q
  BY <1>3, <1>4, <1>5
<1> QED BY <1>6 DEF p, q

LEMMA DayFacts ==
    /\ \A a \in Nat : Jobs!DayOf(a) \in Nat \ {0}
    /\ \A a, b \in Nat : a <= b => Jobs!DayOf(a) <= Jobs!DayOf(b)
    /\ \A a \in 0..MaxTime : Jobs!DayOf(a) \in Jobs!Days
<1>1. DayLength \in Nat \ {0} /\ MaxTime \in Nat
  BY BoundAssumption, JobsAssumption
<1>2. \A a \in Nat : a \div DayLength \in Nat
  BY <1>1, Division
<1>3. \A a, b \in Nat : a <= b => a \div DayLength <= b \div DayLength
  BY <1>1, DivisionGrows
<1> QED BY <1>1, <1>2, <1>3 DEF Jobs!DayOf, Jobs!Days

\* Who works holds the lease since its turn began, and the lease has not run out.
LeaseHeld ==
    /\ x2.at <= x1
    /\ \A p \in Request : x3[p].at # "asleep" =>
           x2.holder = p /\ x3[p].begun = x2.at /\ x1 <= x2.at + Lease
    /\ \A p \in Jobs!Runner : x3[p].at # "asleep" => x3[p].job \in 1..DailyJobs

\* Nobody started the jobs by hand, and what was run on a day is marked for it or a later one.
RanIsMarked ==
    /\ x3[Clock].at = "asleep"
    /\ \A j \in 1..DailyJobs : x4[j] <= Jobs!DayOf(x2.at)
    /\ \A d \in Jobs!Days : \A j \in 1..DailyJobs : x5[d][j] <= 1 /\ (x5[d][j] > 0 => x4[j] >= d)
    /\ \A p \in Request :
           /\ x3[p].at = "mark" => x4[x3[p].job] # Jobs!DayOf(x3[p].begun)
           /\ x3[p].at = "run" => /\ x4[x3[p].job] = Jobs!DayOf(x3[p].begun)
                                  /\ x5[Jobs!DayOf(x3[p].begun)][x3[p].job] = 0

JobsInv == Jobs!TypeOK /\ LeaseHeld /\ (x6 \/ RanIsMarked)

LEMMA JobsHolds ==
    ASSUME JobsInv
    PROVE  Jobs!OneAtWork /\ Jobs!DailyOnce
  BY DEF JobsInv, LeaseHeld, RanIsMarked, Jobs!OneAtWork, Jobs!DailyOnce, Jobs!Working

LEMMA JobsInit ==
    ASSUME Jobs!Init
    PROVE  JobsInv
<1>1. /\ \A j \in 1..DailyJobs : 0 <= Jobs!DayOf(0)
      /\ Lease + 1 \in 0..MaxTime
  BY DayFacts, BoundAssumption, JobsAssumption
<1> USE DEF Jobs!Init
<1>5. DailyJobs \in Nat /\ MaxTime \in Nat /\ MaxDeath \in Nat /\ Lease \in Nat
  BY BoundAssumption
<1>6. x1 \in 0..MaxTime /\ x2 \in [holder : Request \cup {Vacant}, at : 0..MaxTime]
  BY <1>1, <1>5
<1>7. x3 \in [Jobs!Runner -> [at : {"asleep", "look", "mark", "run"}, job : 0..DailyJobs + 1,
                              begun : 0..MaxTime]]
  BY <1>5 DEF Jobs!Asleep
<1>8. x4 \in [1..DailyJobs -> {0} \cup Jobs!Days] /\ x5 \in [Jobs!Days -> [1..DailyJobs -> Nat]]
  OBVIOUS
<1>9. x6 = FALSE /\ x7 = 0
  OBVIOUS
<1>10. x6 \in BOOLEAN
  BY <1>9
<1> HIDE DEF Jobs!Init
<1>2. Jobs!TypeOK
  BY <1>5, <1>6, <1>7, <1>8, <1>9, <1>10 DEF Jobs!TypeOK
<1>3. LeaseHeld
  BY <1>5, JobsAssumption DEF Jobs!Init, LeaseHeld, Jobs!Asleep, Jobs!Runner
<1>4. RanIsMarked
  BY SMTT(30), <1>1, BoundAssumption, JobsAssumption DEF Jobs!Init, RanIsMarked, Jobs!Asleep, Jobs!Runner
<1> QED BY <1>2, <1>3, <1>4 DEF JobsInv

\* Every step of the jobs keeps it.
LEMMA JobsNext ==
    ASSUME JobsInv, Jobs!Next
    PROVE  JobsInv'
<1> DEFINE Turn == [at : {"asleep", "look", "mark", "run"}, job : 0..DailyJobs + 1, begun : 0..MaxTime]
<1>1. /\ x3 \in [Jobs!Runner -> Turn] /\ x1 \in 0..MaxTime
      /\ x2 \in [holder : Request \cup {Vacant}, at : 0..MaxTime]
      /\ x4 \in [1..DailyJobs -> {0} \cup Jobs!Days]
      /\ x5 \in [Jobs!Days -> [1..DailyJobs -> Nat]]
      /\ x6 \in BOOLEAN /\ x7 \in 0..MaxDeath
      /\ Jobs!Runner = Request \cup {Clock}
  BY DEF JobsInv, Jobs!TypeOK, Jobs!Runner
<1>2. /\ DailyJobs \in Nat /\ DailyJobs > 0 /\ Lease \in Nat /\ MaxTime \in Nat /\ MaxDeath \in Nat
      /\ Clock \notin Request
  BY BoundAssumption, JobsAssumption
<1>3. CASE Jobs!Tick
  <2>1. Jobs!TypeOK'
    BY <1>1, <1>2, <1>3 DEF Jobs!Tick, JobsInv, Jobs!TypeOK
  <2>2. LeaseHeld'
    BY <1>1, <1>2, <1>3 DEF Jobs!Tick, JobsInv, LeaseHeld, Jobs!Working
  <2>3. (x6 \/ RanIsMarked)'
    BY <1>3 DEF Jobs!Tick, JobsInv, RanIsMarked
  <2> QED BY <2>1, <2>2, <2>3 DEF JobsInv
<1>4. CASE Jobs!StartByHand
  <2>1. x3' = [x3 EXCEPT ![Clock] = [at |-> "look", job |-> 1, begun |-> x1]]
    BY <1>4 DEF Jobs!StartByHand
  <2>2. x3' \in [Jobs!Runner -> Turn]
    BY <1>1, <1>2, <2>1
  <2>3. Jobs!TypeOK'
    BY <1>1, <1>4, <2>2 DEF Jobs!StartByHand, JobsInv, Jobs!TypeOK
  <2>4. LeaseHeld'
    BY <1>1, <1>2, <1>4, <2>1 DEF Jobs!StartByHand, JobsInv, LeaseHeld
  <2> QED BY <1>4, <2>3, <2>4 DEF JobsInv, Jobs!StartByHand
<1>5. ASSUME NEW p \in Request, Jobs!HoldLeadership(p) PROVE JobsInv'
  <2>1. /\ x3' = [x3 EXCEPT ![p] = [at |-> "look", job |-> 1, begun |-> x1]]
        /\ x2' = [holder |-> p, at |-> x1] /\ x3[p].at = "asleep"
        /\ x2.holder = p \/ x2.at + Lease < x1
        /\ UNCHANGED <<x1, x4, x5, x6, x7>>
    BY <1>5 DEF Jobs!HoldLeadership, Jobs!Working, Jobs!RunOut
  <2>2. \A q \in Request : q # p => x3[q].at = "asleep"
    BY <1>1, <1>2, <2>1 DEF JobsInv, LeaseHeld
  <2>3. x3' \in [Jobs!Runner -> Turn]
    BY <1>1, <1>2, <2>1
  <2>4. Jobs!TypeOK'
    BY <1>1, <2>1, <2>3 DEF JobsInv, Jobs!TypeOK
  <2>5. \A q \in Jobs!Runner : x3'[q] = IF q = p THEN [at |-> "look", job |-> 1, begun |-> x1] ELSE x3[q]
    BY <1>1, <2>1
  <2>6. LeaseHeld'
    BY <1>1, <1>2, <2>1, <2>2, <2>5 DEF JobsInv, LeaseHeld
  <2>7. ASSUME RanIsMarked PROVE RanIsMarked'
    <3>1. Jobs!DayOf(x2.at) <= Jobs!DayOf(x1) /\ Jobs!DayOf(x2.at) \in Nat /\ Jobs!DayOf(x1) \in Nat
      BY <1>1, DayFacts DEF JobsInv, LeaseHeld
    <3>2. \A j \in 1..DailyJobs : x4[j] \in Nat
      BY <1>1 DEF Jobs!Days
    <3>3. \A j \in 1..DailyJobs : x4'[j] <= Jobs!DayOf(x2'.at)
      BY <2>1, <2>7, <3>1, <3>2 DEF RanIsMarked
    <3> QED BY <1>1, <1>2, <2>1, <2>5, <2>7, <3>3 DEF RanIsMarked
  <2> QED BY <2>1, <2>4, <2>6, <2>7 DEF JobsInv
<1>6. ASSUME NEW p \in Request, Jobs!Die(p) PROVE JobsInv'
  <2>1. /\ x3' = [x3 EXCEPT ![p] = Jobs!Asleep] /\ x7' = x7 + 1 /\ x7 < MaxDeath
        /\ x2' = [x2 EXCEPT !.holder = IF @ = p THEN Vacant ELSE @]
        /\ UNCHANGED <<x1, x4, x5, x6>>
    BY <1>6 DEF Jobs!Die
  <2>2. \A q \in Jobs!Runner : x3'[q] = IF q = p THEN Jobs!Asleep ELSE x3[q]
    BY <1>1, <2>1
  <2>3. x3' \in [Jobs!Runner -> Turn] /\ x2' \in [holder : Request \cup {Vacant}, at : 0..MaxTime]
    BY <1>1, <1>2, <2>1 DEF Jobs!Asleep
  <2>4. Jobs!TypeOK'
    BY <1>1, <1>2, <2>1, <2>3 DEF JobsInv, Jobs!TypeOK
  <2>5. x2'.at = x2.at /\ \A q \in Request : q # p /\ x2.holder = q => x2'.holder = q
    BY <1>1, <2>1
  <2>6. Jobs!Asleep.at = "asleep"
    BY DEF Jobs!Asleep
  <2>7. LeaseHeld'
    BY <1>1, <2>1, <2>2, <2>5, <2>6 DEF JobsInv, LeaseHeld
  <2>8. RanIsMarked => RanIsMarked'
    BY <1>1, <1>2, <2>1, <2>2, <2>5, <2>6 DEF RanIsMarked
  <2> QED BY <2>1, <2>4, <2>7, <2>8 DEF JobsInv
\* A step within a turn.
<1>7. ASSUME NEW p \in Jobs!Runner, NEW t \in Turn, x3' = [x3 EXCEPT ![p] = t], x3[p].at # "asleep",
             t.at # "asleep" => t.begun = x3[p].begun /\ t.job \in 1..DailyJobs,
             UNCHANGED <<x1, x2, x6, x7>>
      PROVE  /\ x3' \in [Jobs!Runner -> Turn] /\ LeaseHeld'
             /\ \A q \in Jobs!Runner : x3'[q] = IF q = p THEN t ELSE x3[q]
  <2>1. \A q \in Jobs!Runner : x3'[q] = IF q = p THEN t ELSE x3[q]
    BY <1>1, <1>7
  <2>2. x3' \in [Jobs!Runner -> Turn]
    BY <1>1, <1>7
  <2> QED BY <1>1, <1>7, <2>1, <2>2 DEF JobsInv, LeaseHeld
<1>8. ASSUME NEW p \in Jobs!Runner, x3[p].at # "asleep", Jobs!NextJob(p)
      PROVE  \E t \in Turn : /\ x3' = [x3 EXCEPT ![p] = t] /\ t.at \in {"asleep", "look"}
                             /\ t.at # "asleep" => t.begun = x3[p].begun /\ t.job \in 1..DailyJobs
  <2>1. x3[p] \in Turn /\ x3[p].job \in 1..DailyJobs
    BY <1>1, <1>8 DEF JobsInv, LeaseHeld
  <2>4. Jobs!Asleep \in Turn /\ Jobs!Asleep.at = "asleep"
    BY <1>2 DEF Jobs!Asleep
  <2>2. CASE x3[p].job = DailyJobs
    BY <1>2, <1>8, <2>2, <2>4 DEF Jobs!NextJob
  <2>3. CASE x3[p].job # DailyJobs
    <3> DEFINE t == [at |-> "look", job |-> x3[p].job + 1, begun |-> x3[p].begun]
    <3>1. x3[p].job + 1 \in 1..DailyJobs /\ x3[p].job + 1 \in 0..DailyJobs + 1
      BY <1>2, <2>1, <2>3
    <3>3. t \in Turn /\ t.at = "look" /\ t.begun = x3[p].begun /\ t.job \in 1..DailyJobs
      BY <2>1, <3>1
    <3>4. x3' = [x3 EXCEPT ![p] = IF x3[p].job = DailyJobs THEN Jobs!Asleep ELSE t]
      BY <1>8 DEF Jobs!NextJob
    <3>2. x3' = [x3 EXCEPT ![p] = t]
      BY <2>3, <3>4
    <3> QED BY <3>2, <3>3
  <2> QED BY <2>2, <2>3
<1>9. ASSUME NEW p \in Jobs!Runner, Jobs!DueToday(p) PROVE JobsInv'
  <2>1. x3[p].at = "look" /\ UNCHANGED <<x1, x2, x4, x5, x6, x7>>
    BY <1>9 DEF Jobs!DueToday
  <2>2. PICK t \in Turn : /\ x3' = [x3 EXCEPT ![p] = t]
                          /\ t.at \in {"asleep", "look", "mark"}
                          /\ t.at # "asleep" => t.begun = x3[p].begun /\ t.job \in 1..DailyJobs
                          /\ t.at = "mark" => x4[t.job] # Jobs!DayOf(t.begun)
    <3>1. CASE Jobs!NextJob(p)
      BY <1>8, <2>1, <3>1
    <3>2. CASE /\ x3' = [x3 EXCEPT ![p].at = "mark"]
               /\ x4[x3[p].job] # Jobs!DayOf(x3[p].begun)
      <4>1. x3[p] \in Turn /\ x3[p].job \in 1..DailyJobs
        BY <1>1, <2>1 DEF JobsInv, LeaseHeld
      <4>2. [x3[p] EXCEPT !.at = "mark"] \in Turn /\ x3' = [x3 EXCEPT ![p] = [x3[p] EXCEPT !.at = "mark"]]
        BY <1>1, <3>2, <4>1
      <4> QED BY <3>2, <4>1, <4>2
    <3> QED BY <1>9, <3>1, <3>2 DEF Jobs!DueToday
  <2>3. /\ x3' \in [Jobs!Runner -> Turn] /\ LeaseHeld'
        /\ \A q \in Jobs!Runner : x3'[q] = IF q = p THEN t ELSE x3[q]
    BY <1>7, <2>1, <2>2
  <2>4. Jobs!TypeOK'
    BY <2>1, <2>3 DEF JobsInv, Jobs!TypeOK
  <2>5. RanIsMarked => RanIsMarked'
    BY <1>1, <1>2, <2>1, <2>2, <2>3 DEF RanIsMarked
  <2> QED BY <2>1, <2>3, <2>4, <2>5 DEF JobsInv
<1>10. ASSUME NEW p \in Jobs!Runner, Jobs!Mark(p) PROVE JobsInv'
  <2> DEFINE d == Jobs!DayOf(x3[p].begun)
             t == [x3[p] EXCEPT !.at = "run"]
  <2>1. /\ x3[p].at = "mark" /\ UNCHANGED <<x1, x2, x5, x6, x7>>
        /\ x4' = [x4 EXCEPT ![x3[p].job] = d]
    BY <1>10 DEF Jobs!Mark
  <2>2. x3[p] \in Turn /\ x3[p].job \in 1..DailyJobs /\ t \in Turn /\ d \in Jobs!Days
    <3>1. x3[p] \in Turn /\ x3[p].job \in 1..DailyJobs
      BY <1>1, <2>1 DEF JobsInv, LeaseHeld
    <3>2. x3[p].begun \in 0..MaxTime /\ t \in Turn
      BY <3>1
    <3> QED BY <3>1, <3>2, DayFacts
  <2>3. x3' = [x3 EXCEPT ![p] = t]
    BY <1>1, <1>10, <2>2 DEF Jobs!Mark
  <2>4. /\ x3' \in [Jobs!Runner -> Turn] /\ LeaseHeld'
        /\ \A q \in Jobs!Runner : x3'[q] = IF q = p THEN t ELSE x3[q]
    BY <1>7, <2>1, <2>2, <2>3
  <2>5. Jobs!TypeOK'
    BY <1>1, <2>1, <2>2, <2>4 DEF JobsInv, Jobs!TypeOK
  <2>6. ASSUME RanIsMarked PROVE RanIsMarked'
    <3>1. p \in Request /\ d = Jobs!DayOf(x2.at) /\ x4[x3[p].job] # d
      BY <1>1, <2>1, <2>6 DEF RanIsMarked, JobsInv, LeaseHeld
    <3>2. \A q \in Request : q # p => x3[q].at = "asleep"
      BY <2>1, <3>1 DEF JobsInv, LeaseHeld
    <3>3. d \in Nat /\ \A j \in 1..DailyJobs : x4[j] \in Nat /\ x4[j] <= d
      BY <1>1, <2>2, <2>6, <3>1 DEF RanIsMarked, Jobs!Days
    <3>4. x5[d][x3[p].job] = 0
      <4>1. x4[x3[p].job] < d
        BY <2>2, <3>1, <3>3
      <4>2. x5[d][x3[p].job] \in Nat
        BY <1>1, <2>2
      <4> QED BY <2>2, <2>6, <3>3, <4>1, <4>2 DEF RanIsMarked
    <3>5. \A j \in 1..DailyJobs : x4'[j] = IF j = x3[p].job THEN d ELSE x4[j]
      BY <1>1, <2>1
    <3>6. \A j \in 1..DailyJobs : x4'[j] <= d /\ x4'[j] >= x4[j]
      BY <3>3, <3>5
    <3>7. \A e \in Jobs!Days : \A j \in 1..DailyJobs :
              x5'[e][j] <= 1 /\ (x5'[e][j] > 0 => x4'[j] >= e)
      <4> SUFFICES ASSUME NEW e \in Jobs!Days, NEW j \in 1..DailyJobs
                   PROVE  x5'[e][j] <= 1 /\ (x5'[e][j] > 0 => x4'[j] >= e)
        OBVIOUS
      <4>1. x5[e][j] <= 1 /\ (x5[e][j] > 0 => x4[j] >= e)
        BY <2>6 DEF RanIsMarked
      <4>2. e \in Nat /\ x4[j] \in Nat /\ x4'[j] \in Nat /\ x4'[j] >= x4[j] /\ x5' = x5
        BY <2>1, <3>3, <3>5, <3>6 DEF Jobs!Days
      <4> QED BY <4>1, <4>2
    <3>8. \A q \in Request :
              /\ x3'[q].at = "mark" => x4'[x3'[q].job] # Jobs!DayOf(x3'[q].begun)
              /\ x3'[q].at = "run" => /\ x4'[x3'[q].job] = Jobs!DayOf(x3'[q].begun)
                                      /\ x5'[Jobs!DayOf(x3'[q].begun)][x3'[q].job] = 0
      <4>1. t.at = "run" /\ t.job = x3[p].job /\ t.begun = x3[p].begun
        BY <2>2
      <4> QED BY <1>1, <2>1, <2>2, <2>4, <3>2, <3>4, <3>5, <4>1
    <3>9. x3'[Clock].at = "asleep" /\ x2' = x2
      BY <1>1, <1>2, <2>1, <2>4, <2>6, <3>1 DEF RanIsMarked
    <3> QED BY <3>1, <3>6, <3>7, <3>8, <3>9 DEF RanIsMarked
  <2> QED BY <2>1, <2>4, <2>5, <2>6 DEF JobsInv
<1>11. ASSUME NEW p \in Jobs!Runner, Jobs!Run(p) PROVE JobsInv'
  <2> DEFINE d == Jobs!DayOf(x3[p].begun)
             k == x3[p].job
  <2>1. x3[p].at = "run" /\ UNCHANGED <<x1, x2, x4, x6, x7>> /\ x5' = [x5 EXCEPT ![d][k] = @ + 1]
    BY <1>11 DEF Jobs!Run
  <2>2. k \in 1..DailyJobs /\ d \in Jobs!Days
    BY <1>1, <2>1, DayFacts DEF JobsInv, LeaseHeld
  <2>3. PICK t \in Turn : /\ x3' = [x3 EXCEPT ![p] = t] /\ t.at \in {"asleep", "look"}
                          /\ t.at # "asleep" => t.begun = x3[p].begun /\ t.job \in 1..DailyJobs
    <3>1. CASE Jobs!NextJob(p)
      BY <1>8, <2>1, <3>1
    <3>2. CASE x3' = [x3 EXCEPT ![p] = Jobs!Asleep]
      <4>1. Jobs!Asleep \in Turn /\ Jobs!Asleep.at = "asleep"
        BY <1>2 DEF Jobs!Asleep
      <4> QED BY <3>2, <4>1
    <3> QED BY <1>11, <3>1, <3>2 DEF Jobs!Run
  <2>4. /\ x3' \in [Jobs!Runner -> Turn] /\ LeaseHeld'
        /\ \A q \in Jobs!Runner : x3'[q] = IF q = p THEN t ELSE x3[q]
    BY <1>7, <2>1, <2>3
  <2>5. \A e \in Jobs!Days : \A j \in 1..DailyJobs :
            x5'[e][j] = IF e = d /\ j = k THEN x5[e][j] + 1 ELSE x5[e][j]
    BY <1>1, <2>1, <2>2
  <2>6. x5' \in [Jobs!Days -> [1..DailyJobs -> Nat]]
    <3> HIDE DEF d, k
    <3>3. x5[d] \in [1..DailyJobs -> Nat]
      BY <1>1, <2>2
    <3>1. [x5[d] EXCEPT ![k] = @ + 1] \in [1..DailyJobs -> Nat]
      BY <2>2, <3>3, OneMore
    <3>2. x5' = [x5 EXCEPT ![d] = [x5[d] EXCEPT ![k] = @ + 1]]
      BY <2>1
    <3> QED BY <1>1, <2>2, <3>1, <3>2
  <2>7. Jobs!TypeOK'
    BY <1>1, <2>1, <2>4, <2>6 DEF JobsInv, Jobs!TypeOK
  <2>8. ASSUME RanIsMarked PROVE RanIsMarked'
    <3>1. p \in Request /\ x4[k] = d /\ x5[d][k] = 0
      BY <1>1, <2>1, <2>8 DEF RanIsMarked
    <3>2. \A q \in Request : q # p => x3[q].at = "asleep"
      BY <2>1, <3>1 DEF JobsInv, LeaseHeld
    <3>3. \A q \in Request : x3'[q].at \in {"asleep", "look"}
      BY <1>1, <2>3, <2>4, <3>2
    <3>4. \A e \in Jobs!Days : \A j \in 1..DailyJobs :
              x5'[e][j] <= 1 /\ (x5'[e][j] > 0 => x4'[j] >= e)
      <4> SUFFICES ASSUME NEW e \in Jobs!Days, NEW j \in 1..DailyJobs
                   PROVE  x5'[e][j] <= 1 /\ (x5'[e][j] > 0 => x4'[j] >= e)
        OBVIOUS
      <4>1. CASE e = d /\ j = k
        BY <2>1, <2>2, <2>5, <3>1, <4>1 DEF Jobs!Days
      <4>2. CASE ~(e = d /\ j = k)
        BY <2>1, <2>5, <2>8, <4>2 DEF RanIsMarked
      <4> QED BY <4>1, <4>2
    <3>5. x3'[Clock].at = "asleep"
      BY <1>1, <1>2, <2>4, <2>8, <3>1 DEF RanIsMarked
    <3> QED BY <2>1, <2>8, <3>3, <3>4, <3>5 DEF RanIsMarked
  <2> QED BY <2>1, <2>4, <2>7, <2>8 DEF JobsInv
<1> QED BY <1>3, <1>4, <1>5, <1>6, <1>9, <1>10, <1>11 DEF Jobs!Next

-----------------------------------------------------------------------------
\* The shop's own drivers.

\* A row of the order has a link just when it has a driver.
Linked(o) == o.token = 0 <=> o.driver = Vacant

\* What a dispatcher has read is an earlier state of the order; who delivers it has handed
\* it over, unless it was cancelled.
DriversInv ==
    /\ Drivers!TypeOK /\ Drivers!LinkIsDrivers /\ Drivers!DeliveredIsOver
    /\ Linked(x1)
    /\ \A w \in Request :
           /\ Linked(x2[w].read)
           /\ x2[w].read.status # "Pending" => x1.status # "Pending"
           /\ x2[w].doing = "assign" => x2[w].driver # Vacant
           /\ x2[w].doing = "handOver" => x1.status # "Pending"
           /\ x2[w].doing = "deliver" => x1.status \in {"PickedUp", "Cancelled"}

Doing == {"idle", "assign", "depart", "fail", "complete", "handOver", "deliver"}

LEMMA DriversInit ==
    ASSUME Drivers!Init
    PROVE  DriversInv
<1>1. MaxToken \in Nat
  BY BoundAssumption
<1>2. Drivers!New \in Drivers!OrderRow /\ Linked(Drivers!New)
  BY <1>1 DEF Drivers!New, Drivers!OrderRow, Drivers!NoToken, Linked
<1>3. Drivers!TypeOK
  BY <1>2 DEF Drivers!Init, Drivers!TypeOK, Drivers!Idle
<1>4. Drivers!LinkIsDrivers /\ Drivers!DeliveredIsOver
  BY DEF Drivers!Init, Drivers!New, Drivers!LinkIsDrivers, Drivers!DeliveredIsOver
<1> QED BY <1>2, <1>3, <1>4 DEF Drivers!Init, DriversInv, Drivers!Idle, Drivers!New

\* A step of one dispatcher that takes the order further, driver and link as they were.
LEMMA DriversGo ==
    ASSUME DriversInv, NEW w \in Request, NEW d,
           d \in [doing : Doing, read : Drivers!OrderRow, driver : Order \cup {Vacant}],
           x2' = [x2 EXCEPT ![w] = d], Linked(d.read),
           x1' \in Drivers!OrderRow, x1'.driver = x1.driver, x1'.token = x1.token,
           x1.status # "Pending" => x1'.status # "Pending",
           x1.status \in {"PickedUp", "Cancelled"} => x1'.status = x1.status,
           d.read.status # "Pending" => x1'.status # "Pending",
           d.doing = "assign" => d.driver # Vacant,
           d.doing = "handOver" => x1'.status # "Pending",
           d.doing = "deliver" => x1'.status \in {"PickedUp", "Cancelled"},
           Drivers!DeliveredIsOver', UNCHANGED <<x3, x4>>
    PROVE  DriversInv'
<1>1. x2 \in [Request -> [doing : Doing, read : Drivers!OrderRow, driver : Order \cup {Vacant}]]
  BY DEF DriversInv, Drivers!TypeOK, Doing
<1>2. x2' \in [Request -> [doing : Doing, read : Drivers!OrderRow, driver : Order \cup {Vacant}]]
  BY <1>1
<1>3. Drivers!TypeOK'
  BY <1>2 DEF DriversInv, Drivers!TypeOK, Doing
<1>4. Drivers!LinkIsDrivers' /\ Linked(x1')
  BY DEF DriversInv, Drivers!LinkIsDrivers, Linked, Drivers!NoToken
<1>5. \A v \in Request : x2'[v] = IF v = w THEN d ELSE x2[v]
  BY <1>1
<1>6. \A v \in Request :
           /\ Linked(x2'[v].read)
           /\ x2'[v].read.status # "Pending" => x1'.status # "Pending"
           /\ x2'[v].doing = "assign" => x2'[v].driver # Vacant
           /\ x2'[v].doing = "handOver" => x1'.status # "Pending"
           /\ x2'[v].doing = "deliver" => x1'.status \in {"PickedUp", "Cancelled"}
  <2> TAKE v \in Request
  <2>1. CASE v = w
    BY <1>5, <2>1
  <2>2. CASE v # w
    <3>1. x2'[v] = x2[v]
      BY <1>5, <2>2
    <3> QED BY <3>1 DEF DriversInv
  <2> QED BY <2>1, <2>2
<1> QED BY <1>3, <1>4, <1>6 DEF DriversInv

\* Every step of the drivers' orders keeps it.
LEMMA DriversNext ==
    ASSUME DriversInv, Drivers!Next
    PROVE  DriversInv'
<1> DEFINE Desk == [doing : Doing, read : Drivers!OrderRow, driver : Order \cup {Vacant}]
<1>1. /\ x2 \in [Request -> Desk] /\ x1 \in Drivers!OrderRow
      /\ x3 \in [1..MaxToken -> Order \cup {Vacant}] /\ x4 \subseteq Order
  BY DEF DriversInv, Drivers!TypeOK, Doing
<1>2. Drivers!Idle \in Desk /\ Linked(Drivers!Idle.read) /\ Drivers!Idle.read.status = "Pending"
      /\ Drivers!Idle.doing = "idle"
  <2>1. MaxToken \in Nat
    BY BoundAssumption
  <2>2. Drivers!New \in Drivers!OrderRow /\ Linked(Drivers!New) /\ Drivers!New.status = "Pending"
    BY <2>1 DEF Drivers!New, Drivers!OrderRow, Drivers!NoToken, Linked
  <2> QED BY <2>2 DEF Drivers!Idle, Doing
<1>3. CASE Drivers!ChangeStatus
  <2>1. /\ UNCHANGED <<x2, x3, x4>> /\ x1' \in Drivers!OrderRow
        /\ x1'.delivery = x1.delivery /\ x1'.driver = x1.driver /\ x1'.token = x1.token
        /\ x1'.status # "Pending" /\ (x1.status \in {"PickedUp", "Cancelled"} => x1'.status = x1.status)
    BY <1>1, <1>3 DEF Drivers!ChangeStatus, Drivers!OrderRow
  <2>2. Drivers!TypeOK'
    BY <2>1 DEF DriversInv, Drivers!TypeOK
  <2> QED BY <2>1, <2>2 DEF DriversInv, Linked, Drivers!LinkIsDrivers, Drivers!DeliveredIsOver
<1>4. ASSUME NEW d \in Order, Drivers!RecordPosition(d) PROVE DriversInv'
  <2>1. Drivers!TypeOK'
    BY <1>1, <1>4 DEF DriversInv, Drivers!TypeOK, Drivers!RecordPosition
  <2> QED BY <1>4, <2>1 DEF DriversInv, Linked, Drivers!LinkIsDrivers, Drivers!DeliveredIsOver,
                            Drivers!RecordPosition
<1>5. ASSUME NEW w \in Request, NEW what \in {"assign", "depart", "fail", "complete"},
             NEW d \in Order \cup {Vacant}, Drivers!Choose(w, what, d)
      PROVE  DriversInv'
  <2> DEFINE new == [doing |-> what, read |-> x1, driver |-> d]
  <2>1. x2' = [x2 EXCEPT ![w] = new] /\ UNCHANGED <<x1, x3, x4>> /\ (what = "assign" => d # Vacant)
    BY <1>5 DEF Drivers!Choose
  <2>2. new \in Desk /\ new.read = x1 /\ new.driver = d /\ new.doing = what
    BY <1>1 DEF Doing
  <2>3. Drivers!DeliveredIsOver' /\ Linked(x1)
    BY <2>1 DEF DriversInv, Drivers!DeliveredIsOver
  <2> HIDE DEF new
  <2> QED BY <1>1, <2>1, <2>2, <2>3, DriversGo
\* A dispatcher is done with an order that has still its driver.
<1>6. ASSUME NEW w \in Request, Drivers!Done(w), UNCHANGED <<x3, x4>>, x1' \in Drivers!OrderRow,
             x1'.driver = x1.driver, x1'.token = x1.token, x1'.status = x1.status,
             Drivers!DeliveredIsOver'
      PROVE  DriversInv'
  BY <1>2, <1>6, DriversGo DEF Drivers!Done
<1>7. ASSUME NEW w \in Request, Drivers!Depart(w) PROVE DriversInv'
  <2>1. /\ x1' \in Drivers!OrderRow /\ Drivers!Done(w) /\ UNCHANGED <<x3, x4>>
        /\ x1'.driver = x1.driver /\ x1'.token = x1.token /\ x1'.status = x1.status
        /\ x1'.delivery \in {x1.delivery, "out"}
    BY <1>1, <1>7 DEF Drivers!Depart, Drivers!OrderRow
  <2>2. Drivers!DeliveredIsOver'
    BY <2>1 DEF DriversInv, Drivers!DeliveredIsOver
  <2> QED BY <1>6, <2>1, <2>2
<1>8. ASSUME NEW w \in Request, Drivers!Fail(w) PROVE DriversInv'
  <2>1. /\ x1' \in Drivers!OrderRow /\ Drivers!Done(w) /\ UNCHANGED <<x3, x4>>
        /\ x1'.driver = x1.driver /\ x1'.token = x1.token /\ x1'.status = x1.status
        /\ x1'.delivery = "failed"
    BY <1>1, <1>8 DEF Drivers!Fail, Drivers!OrderRow
  <2>2. Drivers!DeliveredIsOver'
    BY <2>1 DEF DriversInv, Drivers!DeliveredIsOver
  <2> QED BY <1>6, <2>1, <2>2
<1>9. ASSUME NEW w \in Request, Drivers!Deliver(w) PROVE DriversInv'
  <2>1. /\ x1' \in Drivers!OrderRow /\ Drivers!Done(w) /\ UNCHANGED <<x3, x4>>
        /\ x1'.driver = x1.driver /\ x1'.token = x1.token /\ x1'.status = x1.status
        /\ x2[w].doing = "deliver"
    BY <1>1, <1>9 DEF Drivers!Deliver, Drivers!OrderRow
  <2>2. Drivers!DeliveredIsOver'
    BY <2>1 DEF DriversInv, Drivers!DeliveredIsOver
  <2> QED BY <1>6, <2>1, <2>2
\* A dispatcher goes on, the order's status with it.
<1>10. ASSUME NEW w \in Request, NEW to \in {"handOver", "deliver"}, Drivers!Goes(w, to),
              UNCHANGED <<x3, x4>>, x1' \in Drivers!OrderRow,
              x1'.driver = x1.driver, x1'.token = x1.token, x1'.delivery = x1.delivery,
              x1.status # "Pending" => x1'.status # "Pending",
              x1.status \in {"PickedUp", "Cancelled"} => x1'.status = x1.status,
              x1'.status # "Pending", to = "deliver" => x1'.status \in {"PickedUp", "Cancelled"}
       PROVE  DriversInv'
  <2> DEFINE d == [x2[w] EXCEPT !.doing = to]
  <2>1. d \in Desk /\ d.read = x2[w].read /\ d.doing = to /\ x2' = [x2 EXCEPT ![w] = d]
    BY <1>1, <1>10 DEF Drivers!Goes, Doing
  <2>2. Linked(d.read)
    BY <2>1 DEF DriversInv
  <2>3. Drivers!DeliveredIsOver'
    BY <1>1, <1>10 DEF DriversInv, Drivers!DeliveredIsOver, Drivers!OrderRow
  <2> HIDE DEF d
  <2> QED BY <1>10, <2>1, <2>2, <2>3, DriversGo
<1>11. ASSUME NEW w \in Request, Drivers!Complete(w) PROVE DriversInv'
  <2>1. CASE x2[w].read.status = "Pending" /\ x1.status = "Pending"
    <3>1. /\ Drivers!Goes(w, "handOver") /\ UNCHANGED <<x3, x4>> /\ x1' \in Drivers!OrderRow
          /\ x1'.driver = x1.driver /\ x1'.token = x1.token /\ x1'.delivery = x1.delivery
          /\ x1'.status = "Completed"
      BY <1>1, <1>11, <2>1 DEF Drivers!Complete, Drivers!OrderRow
    <3> QED BY <1>10, <2>1, <3>1
  <2>2. CASE x2[w].read.status = "Pending" /\ x1.status # "Pending"
    <3>1. Drivers!Done(w) /\ UNCHANGED <<x1, x3, x4>>
      BY <1>11, <2>2 DEF Drivers!Complete
    <3>2. Drivers!DeliveredIsOver'
      BY <3>1 DEF DriversInv, Drivers!DeliveredIsOver
    <3> QED BY <1>1, <1>6, <3>1, <3>2
  <2>3. CASE x2[w].read.status # "Pending"
    <3>1. Drivers!Goes(w, "handOver") /\ UNCHANGED <<x1, x3, x4>>
      BY <1>11, <2>3 DEF Drivers!Complete
    <3>2. x1.status # "Pending"
      BY <2>3 DEF DriversInv
    <3> QED BY <1>1, <1>10, <3>1, <3>2
  <2> QED BY <2>1, <2>2, <2>3
<1>12. ASSUME NEW w \in Request, Drivers!HandOver(w) PROVE DriversInv'
  <2>1. x1.status # "Pending" /\ x1.status \in {"Completed", "PickedUp", "Cancelled"}
    BY <1>1, <1>12 DEF DriversInv, Drivers!HandOver, Drivers!OrderRow
  <2>2. /\ Drivers!Goes(w, "deliver") /\ UNCHANGED <<x3, x4>> /\ x1' \in Drivers!OrderRow
        /\ x1'.driver = x1.driver /\ x1'.token = x1.token /\ x1'.delivery = x1.delivery
        /\ x1'.status = IF x1.status = "Completed" THEN "PickedUp" ELSE x1.status
    BY <1>1, <1>12 DEF Drivers!HandOver, Drivers!OrderRow
  <2> QED BY <1>10, <2>1, <2>2
<1>13. ASSUME NEW w \in Request, Drivers!Assign(w) PROVE DriversInv'
  <2> DEFINE read == x2[w].read
             driver == x2[w].driver
             renew == Drivers!NeedsToken(read, driver)
             fresh == Drivers!FreshToken
  <2>1. /\ x2[w].doing = "assign" /\ driver # Vacant /\ driver \in Order \cup {Vacant}
        /\ read \in Drivers!OrderRow /\ Linked(read)
        /\ read.status # "Pending" => x1.status # "Pending"
    BY <1>1, <1>13 DEF Drivers!Assign, DriversInv
  <2>2. renew => fresh \in 1..MaxToken /\ x3[fresh] = Vacant
    BY <1>13 DEF Drivers!Assign, Drivers!FreshToken
  <2>3. Drivers!Done(w) /\ x3' = (IF renew THEN [x3 EXCEPT ![fresh] = driver] ELSE x3)
    BY <1>13 DEF Drivers!Assign
  <2>4. x1' = [x1 EXCEPT !.driver = IF read.driver = driver THEN @ ELSE driver,
                         !.delivery = IF read.delivery = "assigned" THEN @ ELSE "assigned",
                         !.token = IF renew THEN fresh ELSE @]
    BY <1>13 DEF Drivers!Assign
  <2>5. ~renew => read.driver = driver
    BY <2>1 DEF Drivers!NeedsToken, Linked, Drivers!NoToken
  <2>6. renew => read.driver # driver
    BY <2>1 DEF Drivers!NeedsToken, Linked, Drivers!NoToken
  <2> HIDE DEF read, driver, renew, fresh
  <2>7. /\ x1'.driver = (IF renew THEN driver ELSE x1.driver)
        /\ x1'.token = (IF renew THEN fresh ELSE x1.token)
        /\ x1'.status = x1.status /\ x1'.delivery \in {x1.delivery, "assigned"}
    BY <1>1, <2>4, <2>5, <2>6 DEF Drivers!OrderRow
  <2>8. x1' \in Drivers!OrderRow
    <3> DEFINE a == IF read.driver = driver THEN x1.driver ELSE driver
               b == IF read.delivery = "assigned" THEN x1.delivery ELSE "assigned"
               c == IF renew THEN fresh ELSE x1.token
    <3>1. a \in Order \cup {Vacant}
      BY <1>1, <2>1 DEF Drivers!OrderRow
    <3>2. b \in {"pending", "assigned", "out", "delivered", "failed"}
      BY <1>1 DEF Drivers!OrderRow
    <3>3. c \in 0..MaxToken
      BY <1>1, <2>2, BoundAssumption DEF Drivers!OrderRow
    <3>4. x1' = [x1 EXCEPT !.driver = a, !.delivery = b, !.token = c]
      BY <2>4
    <3> HIDE DEF a, b, c
    <3> QED BY <1>1, <3>1, <3>2, <3>3, <3>4 DEF Drivers!OrderRow
  <2>9. x2' \in [Request -> Desk] /\ \A v \in Request : x2'[v] = IF v = w THEN Drivers!Idle ELSE x2[v]
    BY <1>1, <1>2, <2>3 DEF Drivers!Done
  <2>10. x3' \in [1..MaxToken -> Order \cup {Vacant}] /\ x4' \subseteq Order
    BY <1>1, <1>13, <2>1, <2>2, <2>3 DEF Drivers!Assign
  <2>11. Drivers!TypeOK'
    BY <2>8, <2>9, <2>10 DEF Drivers!TypeOK, Doing
  <2>12. Linked(x1') /\ Drivers!LinkIsDrivers'
    <3>1. CASE renew
      BY <1>1, <2>1, <2>2, <2>3, <2>7, <3>1 DEF Linked, Drivers!LinkIsDrivers, Drivers!NoToken
    <3>2. CASE ~renew
      BY <2>3, <2>7, <3>2 DEF DriversInv, Linked, Drivers!LinkIsDrivers, Drivers!NoToken
    <3> QED BY <3>1, <3>2
  <2>13. Drivers!DeliveredIsOver'
    BY <2>7 DEF DriversInv, Drivers!DeliveredIsOver
  <2>14. \A v \in Request :
           /\ Linked(x2'[v].read)
           /\ x2'[v].read.status # "Pending" => x1'.status # "Pending"
           /\ x2'[v].doing = "assign" => x2'[v].driver # Vacant
           /\ x2'[v].doing = "handOver" => x1'.status # "Pending"
           /\ x2'[v].doing = "deliver" => x1'.status \in {"PickedUp", "Cancelled"}
    <3> TAKE v \in Request
    <3>1. CASE v = w
      BY <1>2, <2>9, <3>1
    <3>2. CASE v # w
      <4>1. x2'[v] = x2[v] /\ x1'.status = x1.status
        BY <2>7, <2>9, <3>2
      <4> QED BY <4>1 DEF DriversInv
    <3> QED BY <3>1, <3>2
  <2> QED BY <2>11, <2>12, <2>13, <2>14 DEF DriversInv
<1> QED BY <1>3, <1>4, <1>5, <1>7, <1>8, <1>9, <1>11, <1>12, <1>13 DEF Drivers!Next

-----------------------------------------------------------------------------
\* The kitchen's stations.

\* Who is told that the order is ready is told by the one that completes it.
StationsInv ==
    /\ Stations!TypeOK /\ Stations!LastCompletes /\ Stations!ReadyOnce
    /\ x1 = "Pending" => x4 = 0

LEMMA StationsInit ==
    ASSUME Stations!Init
    PROVE  StationsInv
  BY BoundAssumption DEF Stations!Init, StationsInv, Stations!TypeOK, Stations!LastCompletes, Stations!ReadyOnce,
     Stations!Status, Stations!Idle

\* Every step of the stations keeps it.
LEMMA StationsNext ==
    ASSUME StationsInv, Stations!Next
    PROVE  StationsInv'
<1> DEFINE Pressing == [at : {"idle", "pressed", "marked"}, station : Station \cup {NoStation},
                        seen : SUBSET Item]
<1>1. /\ x1 \in Stations!Status /\ x2 \subseteq Item /\ x3 \in [Request -> Pressing]
      /\ x4 \in Nat /\ x5 \in 0..MaxDeath /\ MaxDeath \in Nat
  BY BoundAssumption DEF StationsInv, Stations!TypeOK
<1>2. Stations!Idle \in Pressing /\ Stations!Idle.at = "idle"
  BY DEF Stations!Idle
<1>3. ASSUME Stations!Complete, UNCHANGED <<x2, x5>>, x3' \in [Request -> Pressing]
      PROVE  StationsInv'
  <2>1. /\ x1' \in Stations!Status /\ x1' # "Pending" /\ x4' \in Nat /\ x4' <= 1
        /\ x1' = "Completed" => x4' = 1
    BY <1>1, <1>3 DEF StationsInv, Stations!Complete, Stations!ReadyOnce, Stations!Status
  <2> QED BY <1>1, <1>3, <2>1 DEF StationsInv, Stations!TypeOK, Stations!LastCompletes, Stations!ReadyOnce
<1>4. ASSUME NEW p \in Request, NEW s \in Station, Stations!PressDone(p, s) PROVE StationsInv'
  <2> DEFINE new == [at |-> "pressed", station |-> s, seen |-> x2]
  <2>1. /\ UNCHANGED <<x1, x2, x4, x5>> /\ x3' = [x3 EXCEPT ![p] = new]
        /\ x3[p].at = "idle" /\ new \in Pressing
    BY <1>1, <1>2, <1>4 DEF Stations!PressDone
  <2>2. x3' \in [Request -> Pressing] /\ \A q \in Request : x3[q].at = "marked" => x3'[q].at = "marked"
    BY <1>1, <2>1
  <2> QED BY <2>1, <2>2 DEF StationsInv, Stations!TypeOK, Stations!LastCompletes, Stations!ReadyOnce
<1>5. ASSUME NEW p \in Request, Stations!MarkItems(p) PROVE StationsInv'
  <2> DEFINE mine == Stations!ItemsFor(x3[p].station) \ x2
             left == Stations!Left(mine, x3[p].seen, x2)
             new == IF left = {} THEN [x3[p] EXCEPT !.at = "marked"] ELSE Stations!Idle
  <2>1. /\ UNCHANGED <<x1, x4, x5>> /\ x2' = x2 \cup mine /\ x3' = [x3 EXCEPT ![p] = new]
        /\ x3[p].at = "pressed"
    BY <1>5 DEF Stations!MarkItems
  <2>2. x3[p] \in Pressing
    BY <1>1
  <2>3. new \in Pressing /\ (left = {} => new.at = "marked")
    BY <1>2, <2>2
  <2>4. x2' \subseteq Item
    BY <1>1, <2>1 DEF Stations!ItemsFor
  <2>5. (\A i \in Item : StationOf[i] # NoStation => i \in x2') => left = {}
    BY <2>1 DEF Stations!Left
  <2> HIDE DEF new, left
  <2>6. x3' \in [Request -> Pressing] /\ x3'[p] = new
    BY <1>1, <2>1, <2>3
  <2>7. Stations!LastCompletes'
    BY <2>3, <2>5, <2>6 DEF Stations!LastCompletes
  <2> QED BY <2>1, <2>4, <2>6, <2>7 DEF StationsInv, Stations!TypeOK, Stations!ReadyOnce
<1>6. ASSUME NEW p \in Request, Stations!CompleteOrder(p) PROVE StationsInv'
  <2>1. x3' \in [Request -> Pressing]
    BY <1>1, <1>2, <1>6 DEF Stations!CompleteOrder
  <2> QED BY <1>3, <1>6, <2>1 DEF Stations!CompleteOrder
<1>7. CASE Stations!CompleteAll
  BY <1>1, <1>3, <1>7 DEF Stations!CompleteAll
<1>8. CASE Stations!Cancel
  BY <1>1, <1>8 DEF Stations!Cancel, StationsInv, Stations!TypeOK, Stations!LastCompletes, Stations!ReadyOnce,
     Stations!Status
<1>9. ASSUME NEW p \in Request, Stations!Die(p) PROVE StationsInv'
  <2>1. x3' \in [Request -> Pressing] /\ x5' \in 0..MaxDeath /\ x5' > 0 /\ UNCHANGED <<x1, x2, x4>>
    BY <1>1, <1>2, <1>9 DEF Stations!Die
  <2> QED BY <2>1 DEF StationsInv, Stations!TypeOK, Stations!LastCompletes, Stations!ReadyOnce
<1> QED BY <1>4, <1>5, <1>6, <1>7, <1>8, <1>9 DEF Stations!Next

-----------------------------------------------------------------------------
\* Group orders.

\* A group that has an order, or is about to, takes no entries any more.
TogetherInv ==
    /\ Together!TypeOK /\ Together!EveryoneOrdered
    /\ x3.made => x1.status # "open" /\ x2 \subseteq x3.people
    /\ \A w \in Request \cup {Clock} :
           /\ x6[w] = <<"claimed">> => x1.status # "open"
           /\ x6[w] = <<"made">> => x3.made

LEMMA TogetherInit ==
    ASSUME Together!Init
    PROVE  TogetherInv
<1>1. MaxCrash \in Nat
  BY BoundAssumption
<1>2. Together!TypeOK
  BY <1>1 DEF Together!Init, Together!TypeOK, Together!Status, Together!Doing
<1> QED BY <1>2 DEF Together!Init, TogetherInv, Together!EveryoneOrdered

\* What a worker goes on with.
LEMMA TogetherBecome ==
    ASSUME Together!TypeOK, NEW w \in Request \cup {Clock}, NEW d \in Together!Doing, Together!Become(w, d)
    PROVE  /\ x6' \in [Request \cup {Clock} -> Together!Doing]
           /\ \A v \in Request \cup {Clock} : x6'[v] = IF v = w THEN d ELSE x6[v]
  BY DEF Together!TypeOK, Together!Become

\* Every step of a group keeps it.
LEMMA TogetherNext ==
    ASSUME TogetherInv, Together!Next
    PROVE  TogetherInv'
<1> DEFINE W == Request \cup {Clock}
<1>1. /\ x1 \in [status : Together!Status, linked : BOOLEAN] /\ x2 \subseteq Person
      /\ x3 \in [made : BOOLEAN, people : SUBSET Person]
      /\ x6 \in [W -> Together!Doing] /\ x7 \in 0..MaxCrash /\ MaxCrash \in Nat
      /\ Together!TypeOK
  BY BoundAssumption DEF TogetherInv, Together!TypeOK
<1>2. /\ {<<"idle">>, <<"cancelling">>, <<"claimed">>, <<"made">>} \subseteq Together!Doing
      /\ \A p \in Person : <<"saving", p>> \in Together!Doing /\ <<"dropping", p>> \in Together!Doing
  BY DEF Together!Doing
<1>3. /\ <<"idle">> # <<"claimed">> /\ <<"idle">> # <<"made">>
      /\ <<"cancelling">> # <<"claimed">> /\ <<"cancelling">> # <<"made">> /\ <<"claimed">> # <<"made">>
      /\ \A p \in Person : /\ <<"saving", p>> # <<"claimed">> /\ <<"saving", p>> # <<"made">>
                           /\ <<"dropping", p>> # <<"claimed">> /\ <<"dropping", p>> # <<"made">>
  OBVIOUS
\* A worker begins something or is done with it; entries may have come while the group is
\* open, or have gone.
<1>4. ASSUME NEW w \in W, NEW d \in Together!Doing, Together!Become(w, d), d # <<"claimed">>, d # <<"made">>,
             x2' \subseteq Person, x1.status # "open" => x2' \subseteq x2, UNCHANGED <<x1, x3, x4, x5>>,
             x7' \in 0..MaxCrash
      PROVE  TogetherInv'
  <2>1. x6' \in [W -> Together!Doing] /\ \A v \in W : x6'[v] = IF v = w THEN d ELSE x6[v]
    BY <1>1, <1>4, TogetherBecome
  <2>2. Together!TypeOK'
    BY <1>1, <1>4, <2>1 DEF Together!TypeOK
  <2> QED BY <1>4, <2>1, <2>2 DEF TogetherInv, Together!EveryoneOrdered
<1>5. ASSUME NEW w \in W, NEW p \in Person, Together!StartSave(w, p) PROVE TogetherInv'
  BY <1>1, <1>2, <1>3, <1>4, <1>5 DEF Together!StartSave, Together!Begin
<1>6. ASSUME NEW w \in W, NEW p \in Person, Together!StartDrop(w, p) PROVE TogetherInv'
  BY <1>1, <1>2, <1>3, <1>4, <1>6 DEF Together!StartDrop, Together!Begin
<1>7. ASSUME NEW w \in W, NEW p \in Person, Together!SaveEntry(w, p) PROVE TogetherInv'
  <2>1. x2' \subseteq Person /\ (x1.status # "open" => x2' \subseteq x2)
    BY <1>1, <1>7 DEF Together!SaveEntry, Together!LockOpen
  <2> QED BY <1>1, <1>2, <1>3, <1>4, <1>7, <2>1 DEF Together!SaveEntry
<1>8. ASSUME NEW w \in W, NEW p \in Person, Together!DropEntry(w, p) PROVE TogetherInv'
  <2>1. x2' \subseteq Person /\ x2' \subseteq x2
    BY <1>1, <1>8 DEF Together!DropEntry
  <2> QED BY <1>1, <1>2, <1>3, <1>4, <1>8, <2>1 DEF Together!DropEntry
<1>9. ASSUME NEW w \in W, Together!StartCancel(w) PROVE TogetherInv'
  BY <1>1, <1>2, <1>3, <1>4, <1>9 DEF Together!StartCancel, Together!Begin
<1>10. ASSUME NEW w \in W, Together!Crash(w) PROVE TogetherInv'
  BY <1>1, <1>2, <1>3, <1>4, <1>10 DEF Together!Crash
\* The group's status changes, but does not become open or submitted.
<1>11. ASSUME NEW s \in {"submitting", "failed", "cancelled"}, x1' = [x1 EXCEPT !.status = s],
              x6' \in [W -> Together!Doing], UNCHANGED <<x2, x3, x4, x5, x7>>,
              \A v \in W : x6'[v] = <<"made">> => x6[v] = <<"made">>
       PROVE  TogetherInv'
  <2>1. x1' \in [status : Together!Status, linked : BOOLEAN] /\ x1'.status = s
    BY <1>1, <1>11 DEF Together!Status
  <2>2. Together!TypeOK'
    BY <1>1, <1>11, <2>1 DEF Together!TypeOK
  <2> QED BY <1>11, <2>1, <2>2 DEF TogetherInv, Together!EveryoneOrdered
<1>12. ASSUME NEW w \in W, Together!Claim(w) PROVE TogetherInv'
  <2>1. x6' \in [W -> Together!Doing] /\ \A v \in W : x6'[v] = IF v = w THEN <<"claimed">> ELSE x6[v]
    BY <1>1, <1>2, <1>12, TogetherBecome DEF Together!Claim, Together!Begin
  <2> QED BY <1>3, <1>11, <1>12, <2>1 DEF Together!Claim
<1>13. ASSUME NEW w \in W, Together!Cancel(w) PROVE TogetherInv'
  <2>1. x6' \in [W -> Together!Doing] /\ \A v \in W : x6'[v] = IF v = w THEN <<"idle">> ELSE x6[v]
    BY <1>1, <1>2, <1>13, TogetherBecome DEF Together!Cancel
  <2> QED BY <1>3, <1>11, <1>13, <2>1 DEF Together!Cancel
<1>14. CASE Together!Stuck
  BY <1>1, <1>11, <1>14 DEF Together!Stuck
<1>15. ASSUME NEW w \in W, Together!Link(w) PROVE TogetherInv'
  <2>1. x6' \in [W -> Together!Doing] /\ \A v \in W : x6'[v] = IF v = w THEN <<"idle">> ELSE x6[v]
    BY <1>1, <1>2, <1>15, TogetherBecome DEF Together!Link
  <2>2. x1' = [status |-> "submitted", linked |-> TRUE] /\ x3.made /\ UNCHANGED <<x2, x3, x4, x5, x7>>
    BY <1>15 DEF Together!Link, TogetherInv
  <2>3. Together!TypeOK'
    BY <1>1, <2>1, <2>2 DEF Together!TypeOK, Together!Status
  <2> QED BY <1>3, <2>1, <2>2, <2>3 DEF TogetherInv, Together!EveryoneOrdered
<1>16. ASSUME NEW w \in W, Together!FindOrMake(w) PROVE TogetherInv'
  <2>1. CASE ~x3.made /\ x1' = [x1 EXCEPT !.status = "failed"] /\ Together!Become(w, <<"idle">>) /\ UNCHANGED x3
    <3>1. x6' \in [W -> Together!Doing] /\ \A v \in W : x6'[v] = IF v = w THEN <<"idle">> ELSE x6[v]
      BY <1>1, <1>2, <2>1, TogetherBecome
    <3> QED BY <1>3, <1>11, <1>16, <2>1, <3>1 DEF Together!FindOrMake
  <2>2. CASE /\ x3' = IF x3.made THEN x3 ELSE [made |-> TRUE, people |-> x2]
             /\ Together!Become(w, <<"made">>) /\ UNCHANGED x1
    <3>1. x6' \in [W -> Together!Doing] /\ \A v \in W : x6'[v] = IF v = w THEN <<"made">> ELSE x6[v]
      BY <1>1, <1>2, <2>2, TogetherBecome
    <3>2. x3' \in [made : BOOLEAN, people : SUBSET Person] /\ x3'.made /\ x2 \subseteq x3'.people
      BY <1>1, <2>2 DEF TogetherInv
    <3>3. x1.status # "open" /\ UNCHANGED <<x1, x2, x4, x5, x7>>
      BY <1>16, <2>2 DEF Together!FindOrMake, TogetherInv
    <3>4. Together!TypeOK'
      BY <1>1, <3>1, <3>2, <3>3 DEF Together!TypeOK
    <3>5. x1.status = "submitted" => x1.linked
      BY DEF TogetherInv, Together!EveryoneOrdered
    <3> QED BY <1>3, <3>1, <3>2, <3>3, <3>4, <3>5 DEF TogetherInv, Together!EveryoneOrdered
  <2> QED BY <1>16, <2>1, <2>2 DEF Together!FindOrMake
<1>17. CASE Together!ToggleAuto
  <2>1. Together!TypeOK'
    BY <1>17 DEF Together!ToggleAuto, TogetherInv, Together!TypeOK
  <2> QED BY <1>17, <2>1 DEF Together!ToggleAuto, TogetherInv, Together!EveryoneOrdered
<1>18. CASE Together!Pass
  <2>1. Together!TypeOK'
    BY <1>18 DEF Together!Pass, TogetherInv, Together!TypeOK
  <2> QED BY <1>18, <2>1 DEF Together!Pass, TogetherInv, Together!EveryoneOrdered
<1> QED BY <1>5, <1>6, <1>7, <1>8, <1>9, <1>10, <1>12, <1>13, <1>14, <1>15, <1>16, <1>17, <1>18
        DEF Together!Next, Together!Finish

-----------------------------------------------------------------------------
\* Campaigns.

Reaching(w) == x4[w].at \in Mailing!InRun

\* One run at a time, while the row says so; a run has picked nobody who has it already, and
\* a message that was sent is recorded, will be when the run commits, or is of a broken run.
OneRun ==
    /\ \A w \in Request \cup {Clock} : Reaching(w) => x2 = "running"
    /\ \A w, v \in Request \cup {Clock} : Reaching(w) /\ Reaching(v) => w = v
    /\ x1.kind = "broadcast" /\ x2 # "done" => \A m \in Member : x5[m] = 0
    /\ \A w \in Request \cup {Clock} :
           /\ x4[w].at \in {"selected", "pushed"} => \A m \in x4[w].picked : x5[m] = 0
           /\ x4[w].at = "pushed" => x4[w].pushed \subseteq x4[w].picked
    /\ \A m \in Member : x5[m] <= 1
    /\ \A m \in Member :
           \/ x6[m] <= x7 + x5[m]
           \/ /\ x6[m] <= x7 + 1
              /\ \E w \in Request \cup {Clock} : x4[w].at = "pushed" /\ m \in x4[w].pushed

MailingInv == Mailing!TypeOK /\ (~x8 /\ x2 # "deleted" => OneRun)

RunRow == [at : {"idle", "looked", "toggling", "pausing"} \cup Mailing!InRun,
           previous : {"active", "paused"}, picked : SUBSET Member, pushed : SUBSET Member]

LEMMA MailingTypes ==
    ASSUME MailingInv
    PROVE  /\ x1 \in [kind : {"winback", "broadcast"}, coupon : BOOLEAN] /\ x2 \in Mailing!Status
           /\ x4 \in [Request \cup {Clock} -> RunRow] /\ Mailing!Idle \in RunRow
           /\ Mailing!Idle.at = "idle"
           /\ x5 \in [Member -> 0..Many] /\ x6 \in [Member -> 0..Many] /\ x7 \in 0..MaxBroken
           /\ Many \in Nat /\ Many > 0 /\ MaxBroken \in Nat
  BY BoundAssumption, TellingAssumption DEF MailingInv, Mailing!TypeOK, RunRow, Mailing!Idle

LEMMA MailingHolds ==
    ASSUME MailingInv
    PROVE  Mailing!SentOnce
<1> SUFFICES ASSUME ~x8, x2 # "deleted", NEW m \in Member
             PROVE  x5[m] <= 1 /\ x6[m] <= 1 + x7
  BY DEF Mailing!SentOnce
<1>1. x5[m] <= 1 /\ (x6[m] <= x7 + x5[m] \/ x6[m] <= x7 + 1)
  BY DEF MailingInv, OneRun
<1>2. x5[m] \in Int /\ x6[m] \in Int /\ x7 \in Int
  BY MailingTypes
<1> QED BY <1>1, <1>2

LEMMA MailingInit ==
    ASSUME Mailing!Init
    PROVE  MailingInv
<1>1. Many \in Nat /\ MaxBroken \in Nat
  BY BoundAssumption
<1>2. x4 \in [Request \cup {Clock} -> [at : {"idle", "looked", "toggling", "pausing"} \cup Mailing!InRun,
                                       previous : {"active", "paused"},
                                       picked : SUBSET Member, pushed : SUBSET Member]]
  BY DEF Mailing!Init, Mailing!Idle
<1>3. x5 \in [Member -> 0..Many] /\ x6 \in [Member -> 0..Many] /\ x7 \in 0..MaxBroken
  BY <1>1 DEF Mailing!Init
<1>4. x3 \in BOOLEAN /\ x8 \in BOOLEAN
  BY DEF Mailing!Init
<1>5. Mailing!TypeOK
  BY <1>2, <1>3, <1>4 DEF Mailing!Init, Mailing!TypeOK, Mailing!Status
<1>6. OneRun
  BY DEF Mailing!Init, OneRun, Reaching, Mailing!Idle, Mailing!InRun
<1> QED BY <1>5, <1>6 DEF MailingInv

\* What one worker does to its own row of the run.
LEMMA MailingRun ==
    ASSUME MailingInv, NEW w \in Request \cup {Clock}, NEW r \in RunRow, x4' = [x4 EXCEPT ![w] = r]
    PROVE  /\ x4' \in [Request \cup {Clock} -> RunRow]
           /\ \A v \in Request \cup {Clock} : x4'[v] = IF v = w THEN r ELSE x4[v]
  BY MailingTypes

\* A worker that is not in a run, nor will be, and leaves what was sent as it was.
LEMMA MailingBeside ==
    ASSUME MailingInv, NEW w \in Request \cup {Clock}, NEW r \in RunRow, x4' = [x4 EXCEPT ![w] = r],
           r.at \notin Mailing!InRun, ~Reaching(w), UNCHANGED <<x1, x3, x5, x6, x7>>,
           x2' \in Mailing!Status, x8' \in BOOLEAN, x2 = "deleted" => x2' = "deleted", x8 => x8',
           x2' # x2 => x8' \/ (x2 \notin {"running", "done"} /\ x2' # "done")
    PROVE  MailingInv'
<1>1. /\ x4' \in [Request \cup {Clock} -> RunRow]
      /\ \A v \in Request \cup {Clock} : x4'[v] = IF v = w THEN r ELSE x4[v]
  BY MailingRun
<1>2. Mailing!TypeOK'
  BY <1>1, MailingTypes DEF MailingInv, Mailing!TypeOK, RunRow
<1>3. ASSUME ~x8', x2' # "deleted" PROVE OneRun'
  <2>1. OneRun
    BY <1>3, MailingTypes DEF MailingInv
  <2>2. \A v \in Request \cup {Clock} : Reaching(v)' => Reaching(v) /\ x4'[v] = x4[v]
    BY <1>1 DEF Reaching
  <2>3. \A v \in Request \cup {Clock} : x4'[v].at \in {"selected", "pushed"} => x4'[v] = x4[v]
    BY <1>1 DEF Mailing!InRun
  <2>4. \A v \in Request \cup {Clock} : x4[v].at = "pushed" => x4'[v] = x4[v]
    BY <1>1 DEF Mailing!InRun, Reaching
  <2>5. \A v \in Request \cup {Clock} : Reaching(v)' => x2' = "running"
    BY <1>3, <2>1, <2>2 DEF OneRun
  <2>6. \A m \in Member :
           \/ x6'[m] <= x7' + x5'[m]
           \/ /\ x6'[m] <= x7' + 1
              /\ \E v \in Request \cup {Clock} : x4'[v].at = "pushed" /\ m \in x4'[v].pushed
    BY <2>1, <2>4 DEF OneRun
  <2>7. x1'.kind = "broadcast" /\ x2' # "done" => \A m \in Member : x5'[m] = 0
    BY <1>3, <2>1 DEF OneRun
  <2>8. \A v, u \in Request \cup {Clock} : Reaching(v)' /\ Reaching(u)' => v = u
    BY <2>1, <2>2 DEF OneRun
  <2> QED BY <2>1, <2>3, <2>5, <2>6, <2>7, <2>8 DEF OneRun
<1> QED BY <1>2, <1>3 DEF MailingInv

\* A run that breaks off.
LEMMA MailingBreak ==
    ASSUME MailingInv, NEW w \in Request \cup {Clock}, NEW r \in RunRow, x4' = [x4 EXCEPT ![w] = r],
           Reaching(w), r.at \notin Mailing!InRun, UNCHANGED <<x1, x3, x5, x6, x8>>,
           x7' \in 0..MaxBroken, x7' = x7 + 1 \/ (x7' = x7 /\ x4[w].at = "claimed"),
           x2' \in Mailing!Status \ {"done"}, x2 = "deleted" => x2' = "deleted"
    PROVE  MailingInv'
<1>1. /\ x4' \in [Request \cup {Clock} -> RunRow]
      /\ \A v \in Request \cup {Clock} : x4'[v] = IF v = w THEN r ELSE x4[v]
  BY MailingRun
<1>2. Mailing!TypeOK'
  BY <1>1, MailingTypes DEF MailingInv, Mailing!TypeOK, RunRow
<1>3. ASSUME ~x8', x2' # "deleted" PROVE OneRun'
  <2>1. OneRun /\ x2 = "running"
    BY <1>3, MailingTypes DEF MailingInv, OneRun
  <2>2. \A v \in Request \cup {Clock} : ~Reaching(v)'
    BY <1>1, <2>1 DEF Reaching, OneRun
  <2>3. \A m \in Member : x6'[m] <= x7' + x5'[m]
    <3> SUFFICES ASSUME NEW m \in Member
                 PROVE  x6[m] <= x7' + x5[m]
      OBVIOUS
    <3>1. x5[m] \in Nat /\ x6[m] \in Nat /\ x7 \in Nat
      BY MailingTypes
    <3>2. CASE x6[m] <= x7 + x5[m]
      BY <3>1, <3>2
    <3>3. CASE /\ x6[m] <= x7 + 1
               /\ \E v \in Request \cup {Clock} : x4[v].at = "pushed" /\ m \in x4[v].pushed
      <4>1. x4[w].at = "pushed"
        BY <2>1, <3>3 DEF OneRun, Reaching, Mailing!InRun
      <4>2. x7' = x7 + 1
        BY <4>1
      <4> QED BY <3>1, <3>3, <4>2
    <3> QED BY <2>1, <3>2, <3>3 DEF OneRun
  <2>4. \A v \in Request \cup {Clock} : x4'[v].at \notin {"selected", "pushed"}
    BY <2>2 DEF Reaching, Mailing!InRun
  <2> QED BY <2>1, <2>2, <2>3, <2>4 DEF OneRun
<1> QED BY <1>2, <1>3 DEF MailingInv

\* Counting at most up to Many.
LEMMA MailingCount ==
    ASSUME MailingInv, NEW count \in [Member -> 0..Many], NEW S
    PROVE  /\ Mailing!OneMore(count, S) \in [Member -> 0..Many]
           /\ \A m \in Member :
                  /\ m \notin S => Mailing!OneMore(count, S)[m] = count[m]
                  /\ Mailing!OneMore(count, S)[m] <= count[m] + 1
                  /\ m \in S /\ count[m] = 0 => Mailing!OneMore(count, S)[m] = 1
<1>1. Many \in Nat /\ Many > 0
  BY MailingTypes
<1>2. \A m \in Member : count[m] \in 0..Many
  OBVIOUS
<1>3. \A m \in Member : (IF m \in S /\ count[m] < Many THEN count[m] + 1 ELSE count[m]) \in 0..Many
  BY <1>1, <1>2
<1> QED BY <1>1, <1>2, <1>3 DEF Mailing!OneMore

LEMMA MailingSelect ==
    ASSUME MailingInv, NEW w \in Request \cup {Clock}, Mailing!Select(w)
    PROVE  MailingInv'
<1> DEFINE r == [x4[w] EXCEPT !.at = "selected", !.picked = Mailing!Targets]
<1>1. /\ x4[w].at = "claimed" /\ x4' = [x4 EXCEPT ![w].at = "selected", ![w].picked = Mailing!Targets]
      /\ UNCHANGED <<x1, x2, x3, x5, x6, x7, x8>>
  BY DEF Mailing!Select
<1>2. Mailing!Targets \subseteq Member
  BY DEF Mailing!Targets
<1>3. /\ x4' \in [Request \cup {Clock} -> RunRow]
      /\ \A v \in Request \cup {Clock} : v # w => x4'[v] = x4[v]
      /\ x4'[w].at = "selected" /\ x4'[w].picked = Mailing!Targets
  BY <1>1, <1>2, MailingTypes DEF RunRow, Mailing!InRun
<1>4. Mailing!TypeOK'
  BY <1>1, <1>3 DEF MailingInv, Mailing!TypeOK, RunRow
<1>5. ASSUME OneRun, ~x8, x2 # "deleted" PROVE OneRun'
  <2>1. x2 = "running" /\ \A v \in Request \cup {Clock} : Reaching(v) => v = w
    BY <1>1, <1>5 DEF OneRun, Reaching, Mailing!InRun
  <2>2. \A m \in Mailing!Targets : x5[m] = 0
    <3>1. CASE x1.kind = "winback"
      BY <3>1 DEF Mailing!Targets
    <3>2. CASE x1.kind # "winback"
      <4>1. x1.kind = "broadcast"
        BY <3>2, MailingTypes
      <4> QED BY <1>5, <2>1, <3>2, <4>1 DEF Mailing!Targets, OneRun
    <3> QED BY <3>1, <3>2
  <2>3. \A v \in Request \cup {Clock} : Reaching(v)' => v = w
    BY <1>3, <2>1 DEF Reaching
  <2>4. \A v \in Request \cup {Clock} : x4[v].at # "pushed" /\ x4'[v].at # "pushed"
    BY <1>1, <1>3, <2>1 DEF Reaching, Mailing!InRun
  <2>5. \A v \in Request \cup {Clock} : x4'[v].at = "selected" => v = w
    BY <2>3 DEF Reaching, Mailing!InRun
  <2>6. \A m \in Member : x6[m] <= x7 + x5[m]
    BY <1>5, <2>4 DEF OneRun
  <2> QED BY <1>1, <1>3, <1>5, <2>1, <2>2, <2>3, <2>4, <2>5, <2>6 DEF OneRun
<1> QED BY <1>1, <1>4, <1>5 DEF MailingInv

LEMMA MailingPush ==
    ASSUME MailingInv, NEW w \in Request \cup {Clock}, Mailing!Push(w)
    PROVE  MailingInv'
<1>1. PICK reached \in SUBSET x4[w].picked :
          /\ x6' = Mailing!OneMore(x6, reached)
          /\ \E pushed \in {reached} \cup {x4[w].picked : m \in reached} :
                  x4' = [x4 EXCEPT ![w].at = "pushed", ![w].pushed = pushed]
  BY DEF Mailing!Push
<1>2. PICK pushed \in {reached} \cup {x4[w].picked : m \in reached} :
          x4' = [x4 EXCEPT ![w].at = "pushed", ![w].pushed = pushed]
  BY <1>1
<1>3. x4[w].at = "selected" /\ UNCHANGED <<x1, x2, x3, x5, x7, x8>>
  BY DEF Mailing!Push
<1>4. x4[w] \in RunRow /\ x4[w].picked \subseteq Member
  BY MailingTypes DEF RunRow
<1>5. reached \subseteq pushed /\ pushed \subseteq x4[w].picked /\ pushed \subseteq Member
  BY <1>1, <1>2, <1>4
<1>6. /\ x4' \in [Request \cup {Clock} -> RunRow]
      /\ \A v \in Request \cup {Clock} : v # w => x4'[v] = x4[v]
      /\ x4'[w].at = "pushed" /\ x4'[w].picked = x4[w].picked /\ x4'[w].pushed = pushed
  BY <1>2, <1>4, <1>5, MailingTypes DEF RunRow, Mailing!InRun
<1>7. /\ x6' \in [Member -> 0..Many]
      /\ \A m \in Member : m \notin reached => x6'[m] = x6[m]
      /\ \A m \in Member : x6'[m] <= x6[m] + 1
  BY <1>1, MailingTypes, MailingCount
<1>8. Mailing!TypeOK'
  BY <1>3, <1>6, <1>7, MailingTypes DEF MailingInv, Mailing!TypeOK, RunRow
<1>9. ASSUME OneRun, ~x8, x2 # "deleted" PROVE OneRun'
  <2>1. x2 = "running" /\ \A v \in Request \cup {Clock} : Reaching(v) => v = w
    BY <1>3, <1>9 DEF OneRun, Reaching, Mailing!InRun
  <2>2. \A v \in Request \cup {Clock} : Reaching(v)' => v = w
    BY <1>6, <2>1 DEF Reaching
  <2>3. \A v \in Request \cup {Clock} : x4[v].at # "pushed"
    BY <1>3, <2>1 DEF Reaching, Mailing!InRun
  <2>4. \A m \in Member : x6[m] <= x7 + x5[m]
    BY <1>9, <2>3 DEF OneRun
  <2>5. \A m \in x4[w].picked : x5[m] = 0
    BY <1>3, <1>9 DEF OneRun
  <2>6. \A m \in Member :
           \/ x6'[m] <= x7' + x5'[m]
           \/ /\ x6'[m] <= x7' + 1
              /\ \E v \in Request \cup {Clock} : x4'[v].at = "pushed" /\ m \in x4'[v].pushed
    <3> TAKE m \in Member
    <3>1. CASE m \notin reached
      BY <1>3, <1>7, <2>4, <3>1
    <3>2. CASE m \in reached
      <4>1. x5[m] = 0 /\ x6[m] \in Nat /\ x6'[m] \in Nat /\ x7 \in Nat /\ m \in pushed
        BY <1>5, <1>7, <2>5, <3>2, MailingTypes
      <4>2. x6'[m] <= x7' + 1
        BY <1>3, <1>7, <2>4, <4>1
      <4> QED BY <1>6, <4>1, <4>2
    <3> QED BY <3>1, <3>2
  <2>7. \A v \in Request \cup {Clock} : x4'[v].at \in {"selected", "pushed"} => v = w
    BY <2>2 DEF Reaching, Mailing!InRun
  <2> QED BY <1>3, <1>5, <1>6, <1>9, <2>1, <2>2, <2>5, <2>6, <2>7 DEF OneRun
<1> QED BY <1>3, <1>8, <1>9 DEF MailingInv

LEMMA MailingCommit ==
    ASSUME MailingInv, NEW w \in Request \cup {Clock}, Mailing!Commit(w)
    PROVE  MailingInv'
<1> DEFINE had == IF x1.coupon THEN x4[w].picked ELSE x4[w].pushed
<1>1. /\ x4[w].at = "pushed" /\ x2 # "deleted" /\ UNCHANGED <<x1, x3, x6, x7, x8>>
      /\ x5' = Mailing!OneMore(x5, had) /\ x4' = [x4 EXCEPT ![w] = Mailing!Idle]
      /\ x2' = IF x1.kind = "broadcast" THEN "done" ELSE x4[w].previous
  BY DEF Mailing!Commit, Mailing!Finished
<1>2. /\ x4' \in [Request \cup {Clock} -> RunRow]
      /\ \A v \in Request \cup {Clock} : x4'[v] = IF v = w THEN Mailing!Idle ELSE x4[v]
  BY <1>1, MailingRun, MailingTypes
<1>3. /\ x5' \in [Member -> 0..Many]
      /\ \A m \in Member : m \notin had => x5'[m] = x5[m]
      /\ \A m \in Member : m \in had /\ x5[m] = 0 => x5'[m] = 1
  BY <1>1, MailingTypes, MailingCount
<1>4. x2' \in {"done", "active", "paused"}
  BY <1>1, MailingTypes DEF RunRow
<1>5. Mailing!TypeOK'
  BY <1>1, <1>2, <1>3, <1>4, MailingTypes DEF MailingInv, Mailing!TypeOK, RunRow, Mailing!Status
<1>6. ASSUME OneRun, ~x8 PROVE OneRun'
  <2>1. \A v \in Request \cup {Clock} : Reaching(v) => v = w
    BY <1>1, <1>6 DEF OneRun, Reaching, Mailing!InRun
  <2>2. \A v \in Request \cup {Clock} : ~Reaching(v)'
    BY <1>2, <2>1, MailingTypes DEF Reaching, Mailing!InRun
  <2>3. /\ \A m \in x4[w].picked : x5[m] = 0
        /\ x4[w].pushed \subseteq x4[w].picked
    BY <1>1, <1>6 DEF OneRun
  <2>4. had \subseteq x4[w].picked /\ x4[w].pushed \subseteq had
    BY <2>3
  <2>5. \A m \in Member : x5'[m] <= 1
    BY <1>3, <1>6, <2>3, <2>4 DEF OneRun
  <2>6. \A m \in Member : x6'[m] <= x7' + x5'[m]
    <3> TAKE m \in Member
    <3>1. CASE m \in had
      <4>1. x5[m] = 0 /\ x5'[m] = 1 /\ x7 \in Nat
        BY <1>3, <2>3, <2>4, <3>1, MailingTypes
      <4>2. x6[m] \in Nat /\ (x6[m] <= x7 + x5[m] \/ x6[m] <= x7 + 1)
        BY <1>6, MailingTypes DEF OneRun
      <4> QED BY <1>1, <4>1, <4>2
    <3>2. CASE m \notin had
      <4>1. \A v \in Request \cup {Clock} : x4[v].at = "pushed" => m \notin x4[v].pushed
        BY <2>1, <2>4, <3>2 DEF Reaching, Mailing!InRun
      <4>2. x5'[m] = x5[m] /\ x6[m] <= x7 + x5[m]
        BY <1>3, <1>6, <3>2, <4>1 DEF OneRun
      <4> QED BY <1>1, <4>2
    <3> QED BY <3>1, <3>2
  <2>7. x1'.kind = "broadcast" => x2' = "done"
    BY <1>1
  <2>8. \A v \in Request \cup {Clock} : x4'[v].at \notin {"selected", "pushed"}
    BY <2>2 DEF Reaching, Mailing!InRun
  <2> QED BY <2>2, <2>5, <2>6, <2>7, <2>8 DEF OneRun
<1> QED BY <1>1, <1>5, <1>6 DEF MailingInv

\* What does not touch the runs: the row is recovered or deleted, the period changes, a
\* member's cooldown ends.
LEMMA MailingOther ==
    ASSUME MailingInv,
           \/ Mailing!Recover \/ Mailing!Delete \/ Mailing!ChangePeriod
           \/ \E m \in Member : Mailing!EndCooldown(m)
    PROVE  MailingInv'
<1>1. CASE Mailing!Recover
  <2>1. Mailing!TypeOK'
    BY <1>1 DEF Mailing!Recover, MailingInv, Mailing!TypeOK, Mailing!Status
  <2>2. \A w \in Request \cup {Clock} : ~Reaching(w)
    BY <1>1 DEF Mailing!Recover, Reaching
  <2>3. OneRun /\ x2 = "running" => OneRun'
    BY <1>1, <2>2 DEF Mailing!Recover, OneRun, Reaching
  <2> QED BY <1>1, <2>1, <2>3 DEF Mailing!Recover, MailingInv
<1>2. CASE Mailing!Delete
  <2>1. x5' \in [Member -> 0..Many]
    BY <1>2, MailingTypes DEF Mailing!Delete
  <2>2. Mailing!TypeOK'
    BY <1>2, <2>1 DEF Mailing!Delete, MailingInv, Mailing!TypeOK, Mailing!Status
  <2> QED BY <1>2, <2>2 DEF Mailing!Delete, MailingInv
<1>3. CASE Mailing!ChangePeriod
  <2>1. (~x3) \in BOOLEAN
    OBVIOUS
  <2>2. Mailing!TypeOK'
    BY <1>3, <2>1 DEF Mailing!ChangePeriod, MailingInv, Mailing!TypeOK
  <2>3. OneRun => OneRun'
    BY <1>3 DEF Mailing!ChangePeriod, OneRun, Reaching
  <2> QED BY <1>3, <2>2, <2>3 DEF Mailing!ChangePeriod, MailingInv
<1>4. ASSUME NEW m \in Member, Mailing!EndCooldown(m) PROVE MailingInv'
  <2>1. /\ x5' = [x5 EXCEPT ![m] = 0] /\ x6' = [x6 EXCEPT ![m] = 0] /\ x5[m] > 0
        /\ UNCHANGED <<x1, x2, x3, x4, x7, x8>>
    BY <1>4 DEF Mailing!EndCooldown
  <2>2. /\ x5' \in [Member -> 0..Many] /\ x6' \in [Member -> 0..Many]
        /\ x5'[m] = 0 /\ x6'[m] = 0
        /\ \A n \in Member : n # m => x5'[n] = x5[n] /\ x6'[n] = x6[n]
    BY <2>1, MailingTypes
  <2>3. Mailing!TypeOK'
    BY <2>1, <2>2 DEF MailingInv, Mailing!TypeOK
  <2>4. ASSUME OneRun PROVE OneRun'
    <3>1. \A n \in Member : x5'[n] <= 1 /\ (x5[n] = 0 => x5'[n] = 0)
      BY <2>2, <2>4 DEF OneRun
    <3>2. \A n \in Member :
           \/ x6'[n] <= x7' + x5'[n]
           \/ /\ x6'[n] <= x7' + 1
              /\ \E v \in Request \cup {Clock} : x4'[v].at = "pushed" /\ n \in x4'[v].pushed
      <4> TAKE n \in Member
      <4>1. CASE n = m
        BY <2>1, <2>2, <4>1, MailingTypes
      <4>2. CASE n # m
        BY <2>1, <2>2, <2>4, <4>2 DEF OneRun
      <4> QED BY <4>1, <4>2
    <3>3. \A v \in Request \cup {Clock} :
            /\ x4'[v].at \in {"selected", "pushed"} => \A n \in x4'[v].picked : x5'[n] = 0
            /\ x4'[v].at = "pushed" => x4'[v].pushed \subseteq x4'[v].picked
      <4> TAKE v \in Request \cup {Clock}
      <4>1. x4[v].picked \subseteq Member
        BY MailingTypes DEF RunRow
      <4> QED BY <2>1, <2>4, <3>1, <4>1 DEF OneRun
    <3> QED BY <2>1, <2>4, <3>1, <3>2, <3>3 DEF OneRun, Reaching
  <2> QED BY <2>1, <2>3, <2>4 DEF MailingInv
<1> QED BY <1>1, <1>2, <1>3, <1>4

LEMMA MailingClaim ==
    ASSUME MailingInv, NEW w \in Request \cup {Clock}, Mailing!Claim(w)
    PROVE  MailingInv'
<1>1. x4[w].at = "looked" /\ x4[w] \in RunRow /\ ~Reaching(w)
  BY MailingTypes DEF Mailing!Claim, Reaching, Mailing!InRun
<1>2. CASE x2 # x4[w].previous
  BY <1>1, <1>2, MailingBeside, MailingTypes
     DEF Mailing!Claim, Mailing!Unchanged, Mailing!Finished, Mailing!InRun, MailingInv, Mailing!TypeOK
<1>3. CASE x2 = x4[w].previous
  <2> DEFINE r == [x4[w] EXCEPT !.at = "claimed"]
  <2>1. /\ x2' = "running" /\ x4' = [x4 EXCEPT ![w] = r] /\ x2 \in {"active", "paused"}
        /\ UNCHANGED <<x1, x3, x5, x6, x7, x8>>
    BY <1>1, <1>3 DEF Mailing!Claim, Mailing!Unchanged, Mailing!At, RunRow
  <2>2. r \in RunRow /\ r.at = "claimed"
    BY <1>1 DEF RunRow, Mailing!InRun
  <2> HIDE DEF r
  <2>3. /\ x4' \in [Request \cup {Clock} -> RunRow]
        /\ \A v \in Request \cup {Clock} : x4'[v] = IF v = w THEN r ELSE x4[v]
    BY <2>1, <2>2, MailingRun
  <2>4. Mailing!TypeOK'
    BY <2>1, <2>3 DEF MailingInv, Mailing!TypeOK, RunRow, Mailing!Status
  <2>5. ASSUME OneRun PROVE OneRun'
    <3>1. \A v \in Request \cup {Clock} : ~Reaching(v)
      BY <2>1, <2>5 DEF OneRun
    <3>2. \A v \in Request \cup {Clock} : Reaching(v)' => v = w
      BY <2>3, <3>1 DEF Reaching
    <3>3. \A v \in Request \cup {Clock} : x4[v].at # "pushed" /\ x4'[v].at \notin {"selected", "pushed"}
      BY <2>2, <2>3, <3>1 DEF Reaching, Mailing!InRun
    <3>4. \A m \in Member : x6'[m] <= x7' + x5'[m]
      BY <2>1, <2>5, <3>3 DEF OneRun
    <3> QED BY <2>1, <2>5, <3>2, <3>3, <3>4 DEF OneRun
  <2> QED BY <2>1, <2>4, <2>5 DEF MailingInv
<1> QED BY <1>2, <1>3

\* Every step of a campaign keeps it.
LEMMA MailingNext ==
    ASSUME MailingInv, Mailing!Next
    PROVE  MailingInv'
<1> DEFINE W == Request \cup {Clock}
<1>1. ASSUME NEW w \in W, Mailing!Look(w) PROVE MailingInv'
  <2> DEFINE r == [x4[w] EXCEPT !.at = "looked", !.previous = x2]
  <2>1. x4[w] = Mailing!Idle /\ x2 \in {"active", "paused"} /\ UNCHANGED <<x1, x2, x3, x5, x6, x7, x8>>
        /\ x4' = [x4 EXCEPT ![w].at = "looked", ![w].previous = x2]
    BY <1>1 DEF Mailing!Look
  <2>2. r \in RunRow /\ r.at = "looked" /\ x4' = [x4 EXCEPT ![w] = r] /\ ~Reaching(w)
    BY <2>1, MailingTypes DEF RunRow, Reaching, Mailing!InRun
  <2> HIDE DEF r
  <2> QED BY <2>1, <2>2, MailingBeside, MailingTypes DEF Mailing!InRun, MailingInv, Mailing!TypeOK
<1>2. ASSUME NEW w \in W, Mailing!LookToToggle(w) PROVE MailingInv'
  <2> DEFINE r == [x4[w] EXCEPT !.at = "toggling", !.previous = x2]
  <2>1. x4[w] = Mailing!Idle /\ x2 \in {"active", "paused"} /\ UNCHANGED <<x1, x2, x3, x5, x6, x7, x8>>
        /\ x4' = [x4 EXCEPT ![w].at = "toggling", ![w].previous = x2]
    BY <1>2 DEF Mailing!LookToToggle
  <2>2. r \in RunRow /\ r.at = "toggling" /\ x4' = [x4 EXCEPT ![w] = r] /\ ~Reaching(w)
    BY <2>1, MailingTypes DEF RunRow, Reaching, Mailing!InRun
  <2> HIDE DEF r
  <2> QED BY <2>1, <2>2, MailingBeside, MailingTypes DEF Mailing!InRun, MailingInv, Mailing!TypeOK
<1>3. ASSUME NEW w \in W, NEW new \in {"active", "paused"}, x4[w].at \in {"toggling", "pausing"},
             Mailing!Write(new), Mailing!NoteOvertaken, Mailing!Finished(w),
             UNCHANGED <<x1, x3, x5, x6, x7>>
      PROVE  MailingInv'
  <2>1. x8' \in BOOLEAN /\ (x8 => x8') /\ (x2 \in {"running", "done"} => x8')
    BY <1>3 DEF Mailing!NoteOvertaken, MailingInv, Mailing!TypeOK
  <2>2. x2' \in Mailing!Status /\ (x2 = "deleted" => x2' = "deleted") /\ (x2' # x2 => x2' # "done")
    BY <1>3, MailingTypes DEF Mailing!Write, Mailing!Status
  <2>3. ~Reaching(w)
    BY <1>3 DEF Reaching, Mailing!InRun
  <2> QED BY <1>3, <2>1, <2>2, <2>3, MailingBeside, MailingTypes DEF Mailing!Finished, Mailing!InRun
<1>4. ASSUME NEW w \in W, Mailing!Pause(w) PROVE MailingInv'
  BY <1>3, <1>4 DEF Mailing!Pause
<1>5. ASSUME NEW w \in W, Mailing!Toggle(w) PROVE MailingInv'
  <2>1. (IF x4[w].previous = "active" THEN "paused" ELSE "active") \in {"active", "paused"}
    OBVIOUS
  <2> QED BY <1>3, <1>5, <2>1 DEF Mailing!Toggle
<1>6. ASSUME NEW w \in W, Mailing!Crash(w) PROVE MailingInv'
  <2>1. x2 # "done" \/ x8 \/ x2 = "deleted"
    BY <1>6 DEF Mailing!Crash, MailingInv, OneRun, Reaching
  <2>2. /\ Reaching(w) /\ x7' = x7 + 1 /\ x7' \in 0..MaxBroken /\ x4' = [x4 EXCEPT ![w] = Mailing!Idle]
        /\ UNCHANGED <<x1, x2, x3, x5, x6, x8>>
    BY <1>6, MailingTypes DEF Mailing!Crash, Mailing!Finished, Reaching
  <2>3. CASE x2 # "done"
    BY <2>2, <2>3, MailingBreak, MailingTypes DEF Mailing!InRun
  <2>4. CASE x2 = "done"
    <3>1. x4' \in [Request \cup {Clock} -> RunRow]
      BY <2>2, MailingRun, MailingTypes
    <3>2. Mailing!TypeOK'
      BY <2>2, <3>1 DEF MailingInv, Mailing!TypeOK, RunRow
    <3> QED BY <2>1, <2>2, <2>4, <3>2 DEF MailingInv
  <2> QED BY <2>3, <2>4
<1>7. ASSUME NEW w \in W, Mailing!Fail(w) PROVE MailingInv'
  <2>1. PICK r \in RunRow : x4' = [x4 EXCEPT ![w] = r] /\ r.at \notin Mailing!InRun
    <3>1. CASE Mailing!Finished(w)
      BY <3>1, MailingTypes DEF Mailing!Finished, Mailing!InRun
    <3>2. CASE Mailing!At(w, "pausing")
      <4> DEFINE r == [x4[w] EXCEPT !.at = "pausing"]
      <4>1. r \in RunRow /\ r.at = "pausing" /\ x4' = [x4 EXCEPT ![w] = r]
        BY <3>2, MailingTypes DEF Mailing!At, RunRow
      <4> QED BY <4>1 DEF Mailing!InRun
    <3> QED BY <1>7, <3>1, <3>2 DEF Mailing!Fail
  <2>2. /\ Reaching(w) /\ UNCHANGED <<x1, x3, x5, x6, x8>>
        /\ x7' = x7 + 1 \/ (x7' = x7 /\ x4[w].at = "claimed")
        /\ x7' <= MaxBroken
    BY <1>7 DEF Mailing!Fail, Reaching
  <2>3. x2' \in Mailing!Status \ {"done"} /\ (x2 = "deleted" => x2' = "deleted")
    BY <1>7, MailingTypes DEF Mailing!Fail, Mailing!Write, Mailing!Status, RunRow
  <2>4. x7' \in 0..MaxBroken
    BY <2>2, MailingTypes
  <2> QED BY <2>1, <2>2, <2>3, <2>4, MailingBreak
<1> QED BY <1>1, <1>2, <1>4, <1>5, <1>6, <1>7, MailingClaim, MailingSelect, MailingPush, MailingCommit, MailingOther
        DEF Mailing!Next

-----------------------------------------------------------------------------
\* Telling another system.

\* One sequence after another.
LEMMA Joined ==
    ASSUME NEW S, NEW s \in Seq(S), NEW t \in Seq(S)
    PROVE  /\ s \o t \in Seq(S) /\ Len(s \o t) = Len(s) + Len(t)
           /\ DOMAIN (s \o t) = 1..Len(s) + Len(t) /\ DOMAIN s = 1..Len(s) /\ DOMAIN t = 1..Len(t)
           /\ Len(s) \in Nat /\ Len(t) \in Nat
           /\ \A i \in 1..Len(s) : (s \o t)[i] = s[i]
           /\ \A i \in 1..Len(t) : (s \o t)[Len(s) + i] = t[i]
           /\ \A i \in 1..Len(s) + Len(t) : (s \o t)[i] = IF i <= Len(s) THEN s[i] ELSE t[i - Len(s)]
  OBVIOUS

\* A sequence of one element, or of none.
LEMMA OneOrNone ==
    ASSUME NEW S, NEW x \in S, NEW P \in BOOLEAN, NEW s, s = IF P THEN <<x>> ELSE <<>>
    PROVE  s \in Seq(S) /\ (P => Len(s) = 1 /\ s[1] = x) /\ (~P => Len(s) = 0)
<1>1. CASE P = TRUE
  <2>1. s = <<x>>
    BY <1>1
  <2> QED BY <1>1, <2>1
<1>2. CASE P = FALSE
  <2>1. s = <<>>
    BY <1>2
  <2> QED BY <1>2, <2>1
<1> QED BY <1>1, <1>2

\* A scan that has seen the order shown.
Shown(o) == o # Telling!NotSeen /\ o.payment \notin Telling!Hidden

\* What was seen does not come back: shown, paid and cancelled stay so.
Behind ==
    /\ Shown(x2) => x1.payment \notin Telling!Hidden
    /\ x2.payment \in Telling!Paid => x1.payment \in Telling!Paid
    /\ x2.status = "cancelled" => x1.status = "cancelled"

\* What is queued is what the last scan had seen.
QueueSeen ==
    /\ ~Shown(x2) => x3 = <<>>
    /\ Shown(x2) => Len(x3) > 0 /\ x3[1] = "order.created"
    /\ \A i \in 1..Len(x3) :
           /\ x3[i] = "order.created" => i = 1
           /\ x3[i] = "order.paid" => x2.payment \in Telling!Paid
           /\ x3[i] = "order.cancelled" => x2.status = "cancelled"
    /\ \A i, j \in 1..Len(x3) : x3[i] = x3[j] /\ x3[i] \in {"order.paid", "order.cancelled"} => i = j

\* A delivery that is not over has an attempt left, and one is at work on what it claimed.
AttemptLeft ==
    /\ x4.status \in {"pending", "sending"} => x4.attempts < MaxAttempt
    /\ x5 # Vacant => x4.status = "sending"

TellingInv == Telling!TypeOK /\ Behind /\ QueueSeen /\ AttemptLeft

LEMMA TellingHolds ==
    ASSUME TellingInv
    PROVE  Telling!ToldInOrder
<1>1. DOMAIN x3 = 1..Len(x3) /\ Len(x3) \in Nat
  BY DEF TellingInv, Telling!TypeOK
<1>2. Len(x3) > 0 => x3[1] = "order.created"
  BY DEF TellingInv, QueueSeen
<1>3. Len(x3) > 0 => Telling!Told("order.created") = {1}
  BY <1>1, <1>2 DEF TellingInv, QueueSeen, Telling!Told
<1>4. \A event \in {"order.paid", "order.cancelled"} : \A i, j \in Telling!Told(event) : i = j
  BY <1>1 DEF TellingInv, QueueSeen, Telling!Told
<1> QED BY <1>3, <1>4 DEF Telling!ToldInOrder

LEMMA TellingInit ==
    ASSUME Telling!Init
    PROVE  TellingInv
<1>1. MaxAttempt \in Nat /\ MaxAttempt > 0 /\ MaxCrash \in Nat
  BY BoundAssumption, TellingAssumption
<1>2. ~Shown(x2) /\ x2.payment = "none" /\ x2.status = "none" /\ x3 = <<>>
  BY DEF Telling!Init, Shown, Telling!NotSeen
<1>6. x1 \in [status : Telling!OrderStatus, payment : Telling!PaymentStatus]
  BY DEF Telling!Init, Telling!OrderStatus, Telling!PaymentStatus, Telling!Hidden, Telling!Paid
<1>7. x3 \in Seq(Telling!Event) /\ Len(x3) <= Telling!MaxQueue
  BY <1>2 DEF Telling!MaxQueue
<1>8. x4 \in [place : 1..Telling!MaxQueue, status : {"pending", "sending", "sent", "failed"},
              attempts : 0..MaxAttempt]
  <2>1. x4 \in [place : 1..Telling!MaxQueue, status : {"pending"}, attempts : {0}]
    BY DEF Telling!Init
  <2>2. {0} \subseteq 0..MaxAttempt
    BY <1>1
  <2> QED BY <2>1, <2>2
<1>9. x2 = Telling!NotSeen /\ x5 = Vacant /\ x6 \in 0..MaxCrash
  <2>1. x2 = Telling!NotSeen /\ x5 = Vacant /\ x6 = 0
    BY DEF Telling!Init
  <2>2. 0 \in 0..MaxCrash
    BY <1>1
  <2> QED BY <2>1, <2>2
<1>3. Telling!TypeOK
  BY <1>6, <1>7, <1>8, <1>9 DEF Telling!TypeOK
<1>4. Behind /\ QueueSeen
  BY <1>2 DEF Behind, QueueSeen, Telling!Paid
<1>5. AttemptLeft
  BY <1>1 DEF Telling!Init, AttemptLeft
<1> QED BY <1>3, <1>4, <1>5 DEF TellingInv

\* What a scan queues: the order first if it is not known yet, its payment and its
\* cancellation if they are new.
LEMMA TellingEvents ==
    ASSUME TellingInv, NEW e, e = Telling!Events
    PROVE  /\ e \in Seq(Telling!Event) /\ Len(e) \in Nat
           /\ x1.payment \in Telling!Hidden => e = <<>>
           /\ x1.payment \notin Telling!Hidden /\ ~Shown(x2) => Len(e) > 0 /\ e[1] = "order.created"
           /\ \A i \in 1..Len(e) :
                  /\ e[i] = "order.created" => i = 1 /\ ~Shown(x2)
                  /\ e[i] = "order.paid" => x1.payment \in Telling!Paid /\ x2.payment \notin Telling!Paid
                  /\ e[i] = "order.cancelled" => x1.status = "cancelled" /\ x2.status # "cancelled"
           /\ \A i, j \in 1..Len(e) : e[i] = e[j] /\ e[i] \in {"order.paid", "order.cancelled"} => i = j
<1> DEFINE E == Telling!Event
<1>1. CASE x1.payment \in Telling!Hidden
  BY <1>1 DEF Telling!Events, Telling!FirstEvents, Telling!LaterEvents
<1>2. CASE x1.payment \notin Telling!Hidden /\ x2 = Telling!NotSeen
  <2> DEFINE a == <<"order.created">>
             b == IF x1.status = "cancelled" THEN <<"order.cancelled">> ELSE <<>>
  <2>1. e = a \o b
    BY <1>2 DEF Telling!Events, Telling!FirstEvents
  <2>2. a \in Seq(E) /\ Len(a) = 1 /\ a[1] = "order.created"
    BY DEF Telling!Event
  <2>3. b \in Seq(E) /\ (Len(b) = 0 \/ (Len(b) = 1 /\ b[1] = "order.cancelled" /\ x1.status = "cancelled"))
    <3>1. "order.cancelled" \in E /\ (x1.status = "cancelled") \in BOOLEAN
      BY DEF Telling!Event
    <3> HIDE DEF E
    <3> QED BY <3>1, OneOrNone
  <2>4. x2.status # "cancelled" /\ ~Shown(x2)
    BY <1>2 DEF Telling!NotSeen, Shown
  <2> HIDE DEF a, b, E
  <2>5. /\ e \in Seq(E) /\ Len(e) = 1 + Len(b) /\ e[1] = "order.created"
        /\ \A i \in 1..Len(e) : i = 1 \/ (i = 2 /\ Len(b) = 1 /\ e[i] = b[1])
    BY <2>1, <2>2, <2>3, Joined
  <2> QED BY <1>2, <2>3, <2>4, <2>5 DEF E
<1>3. CASE x1.payment \notin Telling!Hidden /\ x2 # Telling!NotSeen
  <2> DEFINE shown == x2.payment \in Telling!Hidden /\ x1.payment \notin Telling!Hidden
             paid == x1.payment \in Telling!Paid /\ x2.payment \in Telling!Hidden \cup {"unpaid"}
             a == IF shown THEN <<"order.created">> ELSE <<>>
             b == IF paid THEN <<"order.paid">> ELSE <<>>
             c == IF x2.status # x1.status THEN <<Telling!StatusEvent>> ELSE <<>>
  <2>1. e = (a \o b) \o c
    BY <1>3 DEF Telling!Events, Telling!LaterEvents
  <2>13. "order.created" \in E /\ "order.paid" \in E /\ shown \in BOOLEAN /\ paid \in BOOLEAN
    BY DEF Telling!Event
  <2>2. a \in Seq(E) /\ (IF shown THEN Len(a) = 1 /\ a[1] = "order.created" ELSE Len(a) = 0)
    <3> HIDE DEF E, shown
    <3> QED BY <2>13, OneOrNone
  <2>3. b \in Seq(E) /\ (IF paid THEN Len(b) = 1 /\ b[1] = "order.paid" ELSE Len(b) = 0)
    <3> HIDE DEF E, paid
    <3> QED BY <2>13, OneOrNone
  <2>4. /\ c \in Seq(E)
        /\ \/ Len(c) = 0
           \/ /\ Len(c) = 1 /\ x2.status # x1.status
              /\ \/ c[1] = "order.cancelled" /\ x1.status = "cancelled"
                 \/ c[1] = "order.status_changed"
    <3> DEFINE differs == x2.status # x1.status
    <3>1. Telling!StatusEvent \in E /\ differs \in BOOLEAN
      BY DEF Telling!Event, Telling!StatusEvent
    <3>2. \/ Telling!StatusEvent = "order.cancelled" /\ x1.status = "cancelled"
          \/ Telling!StatusEvent = "order.status_changed"
      BY DEF Telling!StatusEvent
    <3>3. c = IF differs THEN <<Telling!StatusEvent>> ELSE <<>>
      OBVIOUS
    <3> HIDE DEF E, differs, c
    <3>4. c \in Seq(E) /\ (differs => Len(c) = 1 /\ c[1] = Telling!StatusEvent) /\ (~differs => Len(c) = 0)
      BY <3>1, <3>3, OneOrNone
    <3> QED BY <3>2, <3>4 DEF differs
  <2>5. paid => x1.payment \in Telling!Paid /\ x2.payment \notin Telling!Paid
    BY DEF Telling!Hidden, Telling!Paid
  <2>6. shown <=> ~Shown(x2)
    BY <1>3 DEF Shown
  <2> HIDE DEF a, b, c, E, shown, paid
  <2>7. /\ a \o b \in Seq(E) /\ Len(a \o b) = Len(a) + Len(b)
        /\ \A i \in 1..Len(a) + Len(b) : (a \o b)[i] = IF i <= Len(a) THEN a[i] ELSE b[i - Len(a)]
        /\ Len(a) \in Nat /\ Len(b) \in Nat /\ Len(c) \in Nat
    BY <2>2, <2>3, <2>4, Joined
  <2>8. /\ e \in Seq(E) /\ Len(e) = Len(a) + Len(b) + Len(c)
        /\ \A i \in 1..Len(e) :
               e[i] = IF i <= Len(a) + Len(b) THEN (a \o b)[i] ELSE c[i - (Len(a) + Len(b))]
    BY <2>1, <2>4, <2>7, Joined
  <2>9. \A i \in 1..Len(e) :
            \/ i = 1 /\ shown /\ e[i] = "order.created"
            \/ i = Len(a) + 1 /\ paid /\ e[i] = "order.paid"
            \/ i = Len(a) + Len(b) + 1 /\ Len(c) = 1 /\ e[i] = c[1]
    BY SMTT(30), <2>2, <2>3, <2>4, <2>7, <2>8
  <2>10. shown => Len(e) > 0 /\ e[1] = "order.created"
    BY SMTT(30), <2>2, <2>3, <2>4, <2>7, <2>8
  <2>11. \A i, j \in 1..Len(e) : e[i] = e[j] /\ e[i] \in {"order.paid", "order.cancelled"} => i = j
    BY <2>4, <2>9
  <2>12. \A i \in 1..Len(e) :
                  /\ e[i] = "order.created" => i = 1 /\ ~Shown(x2)
                  /\ e[i] = "order.paid" => x1.payment \in Telling!Paid /\ x2.payment \notin Telling!Paid
                  /\ e[i] = "order.cancelled" => x1.status = "cancelled" /\ x2.status # "cancelled"
    BY <2>4, <2>5, <2>6, <2>9
  <2> QED BY <1>3, <2>6, <2>8, <2>10, <2>11, <2>12 DEF E
<1> QED BY <1>1, <1>2, <1>3

LEMMA TellingScan ==
    ASSUME TellingInv, Telling!Scan
    PROVE  TellingInv'
<1> DEFINE E == Telling!Event
<1>1. PICK e : e = Telling!Events
  OBVIOUS
<1>2. /\ x2' = x1 /\ x3' = x3 \o e /\ Len(x3 \o e) <= Telling!MaxQueue /\ UNCHANGED <<x1, x4, x5, x6>>
  BY <1>1 DEF Telling!Scan
<1>3. x3 \in Seq(E) /\ x1 \in [status : Telling!OrderStatus, payment : Telling!PaymentStatus]
  BY DEF TellingInv, Telling!TypeOK
<1>4. /\ e \in Seq(E) /\ Len(e) \in Nat
      /\ x1.payment \in Telling!Hidden => e = <<>>
      /\ x1.payment \notin Telling!Hidden /\ ~Shown(x2) => Len(e) > 0 /\ e[1] = "order.created"
      /\ \A i \in 1..Len(e) :
             /\ e[i] = "order.created" => i = 1 /\ ~Shown(x2)
             /\ e[i] = "order.paid" => x1.payment \in Telling!Paid /\ x2.payment \notin Telling!Paid
             /\ e[i] = "order.cancelled" => x1.status = "cancelled" /\ x2.status # "cancelled"
      /\ \A i, j \in 1..Len(e) : e[i] = e[j] /\ e[i] \in {"order.paid", "order.cancelled"} => i = j
  BY <1>1, TellingEvents
<1>5. /\ x3' \in Seq(E) /\ Len(x3') = Len(x3) + Len(e) /\ Len(x3) \in Nat
      /\ \A i \in 1..Len(x3') : x3'[i] = IF i <= Len(x3) THEN x3[i] ELSE e[i - Len(x3)]
  BY <1>2, <1>3, <1>4, Joined
<1>6. Shown(x2') <=> x1.payment \notin Telling!Hidden
  <2>1. x1 # Telling!NotSeen
    BY <1>3 DEF Telling!NotSeen, Telling!OrderStatus
  <2> QED BY <1>2, <2>1 DEF Shown
<1>7. Telling!TypeOK'
  BY <1>2, <1>3, <1>5 DEF TellingInv, Telling!TypeOK
<1>8. Behind'
  BY <1>2, <1>6 DEF Behind
<1>9. ~Shown(x2') => x3' = <<>>
  <2> SUFFICES ASSUME x1.payment \in Telling!Hidden
               PROVE  x3' = <<>>
    BY <1>6
  <2>1. ~Shown(x2) /\ e = <<>>
    BY <1>4 DEF TellingInv, Behind
  <2>2. x3 = <<>>
    BY <2>1 DEF TellingInv, QueueSeen
  <2>3. Len(x3') = 0
    BY <1>5, <2>1, <2>2
  <2> QED BY <1>5, <2>3
<1>10. Shown(x2') => Len(x3') > 0 /\ x3'[1] = "order.created"
  <2> SUFFICES ASSUME x1.payment \notin Telling!Hidden
               PROVE  Len(x3') > 0 /\ x3'[1] = "order.created"
    BY <1>6
  <2>1. CASE Shown(x2)
    BY <1>4, <1>5, <2>1 DEF TellingInv, QueueSeen
  <2>2. CASE ~Shown(x2)
    <3>1. Len(x3) = 0
      BY <2>2 DEF TellingInv, QueueSeen
    <3> QED BY <1>4, <1>5, <2>2, <3>1
  <2> QED BY <2>1, <2>2
\* Where each event comes from.
<1>11. \A i \in 1..Len(x3') : \/ i \in 1..Len(x3) /\ x3'[i] = x3[i]
                              \/ i - Len(x3) \in 1..Len(e) /\ x3'[i] = e[i - Len(x3)]
  BY <1>4, <1>5
<1>12. /\ x2.payment \in Telling!Paid => x1.payment \in Telling!Paid
       /\ x2.status = "cancelled" => x1.status = "cancelled"
  BY DEF TellingInv, Behind
<1>13. \A i \in 1..Len(x3') :
           /\ x3'[i] = "order.created" => i = 1
           /\ x3'[i] = "order.paid" => x2'.payment \in Telling!Paid
           /\ x3'[i] = "order.cancelled" => x2'.status = "cancelled"
  <2> TAKE i \in 1..Len(x3')
  <2>1. CASE i \in 1..Len(x3) /\ x3'[i] = x3[i]
    BY <1>2, <1>12, <2>1 DEF TellingInv, QueueSeen
  <2>2. CASE i - Len(x3) \in 1..Len(e) /\ x3'[i] = e[i - Len(x3)]
    <3>1. ~Shown(x2) => Len(x3) = 0
      BY DEF TellingInv, QueueSeen
    <3>2. e[i - Len(x3)] = "order.created" => i - Len(x3) = 1 /\ ~Shown(x2)
      BY <1>4, <2>2
    <3>3. x3'[i] = "order.created" => i = 1
      BY <2>2, <3>1, <3>2
    <3> QED BY <1>2, <1>4, <2>2, <3>3
  <2> QED BY <1>11, <2>1, <2>2
<1>14. \A i, j \in 1..Len(x3') : x3'[i] = x3'[j] /\ x3'[i] \in {"order.paid", "order.cancelled"} => i = j
  <2> SUFFICES ASSUME NEW i \in 1..Len(x3'), NEW j \in 1..Len(x3'), x3'[i] = x3'[j],
                      x3'[i] \in {"order.paid", "order.cancelled"}
               PROVE  i = j
    OBVIOUS
  <2> DEFINE old(k) == k \in 1..Len(x3) /\ x3'[k] = x3[k]
             new(k) == k - Len(x3) \in 1..Len(e) /\ x3'[k] = e[k - Len(x3)]
  <2>1. \A k \in 1..Len(x3') : x3'[k] \in {"order.paid", "order.cancelled"} =>
            /\ old(k) => IF x3'[k] = "order.paid" THEN x2.payment \in Telling!Paid ELSE x2.status = "cancelled"
            /\ new(k) => IF x3'[k] = "order.paid" THEN x2.payment \notin Telling!Paid
                                                  ELSE x2.status # "cancelled"
    BY <1>4 DEF TellingInv, QueueSeen
  <2>2. CASE old(i) /\ old(j)
    BY <2>2 DEF TellingInv, QueueSeen
  <2>3. CASE new(i) /\ new(j)
    <3>1. i - Len(x3) = j - Len(x3)
      BY <1>4, <2>3
    <3> QED BY <1>5, <3>1
  <2>4. CASE (old(i) /\ new(j)) \/ (new(i) /\ old(j))
    BY <2>1, <2>4
  <2> QED BY <1>11, <2>2, <2>3, <2>4
<1>15. AttemptLeft'
  BY <1>2 DEF TellingInv, AttemptLeft
<1> QED BY <1>7, <1>8, <1>9, <1>10, <1>13, <1>14, <1>15 DEF TellingInv, QueueSeen

\* Every step of the telling keeps it.
LEMMA TellingNext ==
    ASSUME TellingInv, Telling!Next
    PROVE  TellingInv'
<1>1. /\ x1 \in [status : Telling!OrderStatus, payment : Telling!PaymentStatus]
      /\ x4 \in [place : 1..Telling!MaxQueue, status : {"pending", "sending", "sent", "failed"},
                 attempts : 0..MaxAttempt]
      /\ x5 \in Request \cup {Vacant} /\ x6 \in 0..MaxCrash /\ MaxCrash \in Nat /\ MaxAttempt \in Nat
  BY BoundAssumption DEF TellingInv, Telling!TypeOK
<1>2. CASE Telling!PaymentChanges
  <2>1. PICK pay \in Telling!PaymentStatus :
           /\ <<x1.payment, pay>> \in Telling!NextPayment
           /\ x1' = [status |-> IF pay = "expired" THEN "cancelled" ELSE x1.status, payment |-> pay]
    BY <1>2 DEF Telling!PaymentChanges
  <2>2. UNCHANGED <<x2, x3, x4, x5, x6>>
    BY <1>2 DEF Telling!PaymentChanges
  <2>3. /\ x1.payment \notin Telling!Hidden => pay \notin Telling!Hidden
        /\ x1.payment \in Telling!Paid => pay \in Telling!Paid
    BY <2>1 DEF Telling!NextPayment, Telling!Hidden, Telling!Paid
  <2>4. x1'.payment = pay /\ (x1.status = "cancelled" => x1'.status = "cancelled")
        /\ x1' \in [status : Telling!OrderStatus, payment : Telling!PaymentStatus]
    BY <1>1, <2>1 DEF Telling!OrderStatus
  <2>5. Telling!TypeOK'
    BY <2>2, <2>4 DEF TellingInv, Telling!TypeOK
  <2> QED BY <2>2, <2>3, <2>4, <2>5 DEF TellingInv, Behind, QueueSeen, AttemptLeft
<1>3. CASE Telling!StatusChanges
  <2>1. /\ UNCHANGED <<x2, x3, x4, x5, x6>> /\ x1.status # "cancelled" /\ x1'.payment = x1.payment
        /\ x1' \in [status : Telling!OrderStatus, payment : Telling!PaymentStatus]
    BY <1>1, <1>3 DEF Telling!StatusChanges
  <2>2. Telling!TypeOK'
    BY <2>1 DEF TellingInv, Telling!TypeOK
  <2> QED BY <2>1, <2>2 DEF TellingInv, Behind, QueueSeen, AttemptLeft
<1>4. ASSUME NEW w \in Request, Telling!Claim(w) PROVE TellingInv'
  <2>1. /\ x4'.status = "sending" /\ x4'.attempts = x4.attempts /\ x4.status = "pending" /\ x5' = w
        /\ UNCHANGED <<x1, x2, x3, x6>>
        /\ x4' \in [place : 1..Telling!MaxQueue, status : {"pending", "sending", "sent", "failed"},
                    attempts : 0..MaxAttempt]
    BY <1>1, <1>4 DEF Telling!Claim
  <2>2. Telling!TypeOK'
    BY <2>1 DEF TellingInv, Telling!TypeOK
  <2> QED BY <2>1, <2>2 DEF TellingInv, Behind, QueueSeen, AttemptLeft
<1>5. CASE Telling!Deliver
  <2>1. PICK answer \in {"sent", IF x4.attempts + 1 >= MaxAttempt THEN "failed" ELSE "pending"} :
           x4' = [x4 EXCEPT !.status = answer, !.attempts = @ + 1]
    BY <1>5 DEF Telling!Deliver
  <2>2. x5 # Vacant /\ x5' = Vacant /\ UNCHANGED <<x1, x2, x3, x6>>
    BY <1>5 DEF Telling!Deliver
  <2>3. x4.attempts < MaxAttempt
    BY <2>2 DEF TellingInv, AttemptLeft
  <2>4. /\ x4' \in [place : 1..Telling!MaxQueue, status : {"pending", "sending", "sent", "failed"},
                    attempts : 0..MaxAttempt]
        /\ x4'.status = answer /\ x4'.attempts = x4.attempts + 1
    <3>1. x4.attempts + 1 \in 0..MaxAttempt
      BY <1>1, <2>3
    <3>2. answer \in {"pending", "sending", "sent", "failed"}
      OBVIOUS
    <3>3. x4' = [x4 EXCEPT !.status = answer, !.attempts = x4.attempts + 1]
      BY <2>1

    <3> QED BY <1>1, <3>1, <3>2, <3>3
  <2>5. Telling!TypeOK'
    BY <2>2, <2>4 DEF TellingInv, Telling!TypeOK
  <2>6. answer \in {"pending", "sending"} => x4.attempts + 1 < MaxAttempt
    BY <1>1, <2>1
  <2> QED BY <2>2, <2>4, <2>5, <2>6 DEF TellingInv, Behind, QueueSeen, AttemptLeft
<1>6. CASE Telling!Crash
  <2>1. x6' \in 0..MaxCrash /\ x5' = Vacant /\ UNCHANGED <<x1, x2, x3, x4>>
    BY <1>1, <1>6 DEF Telling!Crash
  <2>2. Telling!TypeOK'
    BY <2>1 DEF TellingInv, Telling!TypeOK
  <2> QED BY <2>1, <2>2 DEF TellingInv, Behind, QueueSeen, AttemptLeft
<1>7. CASE Telling!PutBack
  <2>1. /\ x4'.status = "pending" /\ x4'.attempts = x4.attempts /\ x4.status = "sending" /\ x5 = Vacant
        /\ UNCHANGED <<x1, x2, x3, x5, x6>>
        /\ x4' \in [place : 1..Telling!MaxQueue, status : {"pending", "sending", "sent", "failed"},
                    attempts : 0..MaxAttempt]
    BY <1>1, <1>7 DEF Telling!PutBack
  <2>2. Telling!TypeOK'
    BY <2>1 DEF TellingInv, Telling!TypeOK
  <2> QED BY <2>1, <2>2 DEF TellingInv, Behind, QueueSeen, AttemptLeft
<1> QED BY <1>2, <1>3, <1>4, <1>5, <1>6, <1>7, TellingScan DEF Telling!Next

-----------------------------------------------------------------------------
\* Printing.

\* Who is sending a ticket, and whether it waits to be sent.
SendingNow(j) == {p \in Request : x2[p].sending /\ Printer!InHand(p) = j}
Waits(j) == IF x1[j].status = "queued" THEN 1 ELSE 0

\* What came out of the printer, is being sent and waits is no more than was asked for.
CopiesAsked ==
    \A j \in Printer!Job :
        /\ IsFiniteSet(SendingNow(j))
        /\ x4[j] + Cardinality(SendingNow(j)) + Waits(j) <= x3[j]
        /\ x1[j].status = "none" => x3[j] = 0

PrinterInv == Printer!TypeOK /\ CopiesAsked

JobRow == [status : {"none", "queued", "sending", "done", "failed"}, attempts : Nat]
PassRow == [todo : SUBSET Printer!Job, sending : BOOLEAN, attempts : Nat]

\* A pass that goes on to its next job.
LessOne(todo, j) == [Printer!Nothing EXCEPT !.todo = todo \ {j}]

LEMMA PrinterHolds ==
    ASSUME PrinterInv
    PROVE  Printer!PrintedAsAsked
<1> SUFFICES ASSUME NEW j \in Printer!Job PROVE x4[j] <= x3[j]
  BY DEF Printer!PrintedAsAsked
<1>1. IsFiniteSet(SendingNow(j)) /\ x4[j] + Cardinality(SendingNow(j)) + Waits(j) <= x3[j]
  BY DEF PrinterInv, CopiesAsked
<1>2. Cardinality(SendingNow(j)) \in Nat
  BY <1>1, FS_CardinalityType
<1>3. x3[j] \in Nat /\ x4[j] \in Nat /\ Waits(j) \in Nat
  BY DEF PrinterInv, Printer!TypeOK, Waits
<1> QED BY <1>1, <1>2, <1>3

LEMMA PrinterTypes ==
    ASSUME PrinterInv
    PROVE  /\ x1 \in [Printer!Job -> JobRow] /\ x2 \in [Request -> PassRow]
           /\ x3 \in [Printer!Job -> Nat] /\ x4 \in [Printer!Job -> Nat] /\ x5 \in 0..MaxDeath
           /\ MaxDeath \in Nat
           /\ \A p \in Request : x2[p].sending => x2[p].todo # {}
           /\ \A j \in Printer!Job : Cardinality(SendingNow(j)) \in Nat
<1>1. \A j \in Printer!Job : Cardinality(SendingNow(j)) \in Nat
  BY FS_CardinalityType DEF PrinterInv, CopiesAsked
<1> QED BY <1>1, BoundAssumption DEF PrinterInv, Printer!TypeOK, JobRow, PassRow

\* One job changes, and so does who sends it and how often it was asked for and printed.
LEMMA PrinterStep ==
    ASSUME PrinterInv,
           x1' \in [Printer!Job -> JobRow], x2' \in [Request -> PassRow],
           \A p \in Request : x2'[p].sending => x2'[p].todo # {},
           x3' \in [Printer!Job -> Nat], x4' \in [Printer!Job -> Nat], x5' \in 0..MaxDeath,
           \A j \in Printer!Job :
               /\ IsFiniteSet(SendingNow(j)')
               /\ x4'[j] + Cardinality(SendingNow(j)') + Waits(j)' <= x3'[j]
               /\ x1'[j].status = "none" => x3'[j] = 0
    PROVE  PrinterInv'
<1>1. Printer!TypeOK'
  BY DEF Printer!TypeOK, JobRow, PassRow
<1> QED BY <1>1 DEF PrinterInv, CopiesAsked

LEMMA PrinterInit ==
    ASSUME Printer!Init
    PROVE  PrinterInv
<1>1. 0 \in 0..MaxDeath
  <2>1. MaxDeath \in Nat
    BY BoundAssumption
  <2> QED BY <2>1
<1>2. \A p \in Request : x2[p].sending = FALSE /\ x2[p].todo = {}
  BY DEF Printer!Init, Printer!Nothing
<1>3. \A j \in Printer!Job : x1[j].status = "none" /\ x3[j] = 0 /\ x4[j] = 0
  BY DEF Printer!Init
<1>4. \A j \in Printer!Job : SendingNow(j) = {}
  BY <1>2 DEF SendingNow
<1>5. IsFiniteSet({}) /\ Cardinality({}) = 0
  BY FS_EmptySet
<1>6. CopiesAsked
  <2> SUFFICES ASSUME NEW j \in Printer!Job
               PROVE  /\ IsFiniteSet(SendingNow(j))
                      /\ x4[j] + Cardinality(SendingNow(j)) + Waits(j) <= x3[j]
                      /\ x1[j].status = "none" => x3[j] = 0
    BY DEF CopiesAsked
  <2>1. /\ SendingNow(j) = {} /\ Waits(j) = 0 /\ x3[j] = 0 /\ x4[j] = 0
        /\ x1[j].status = "none"
    BY <1>3, <1>4 DEF Waits
  <2> QED BY <1>5, <2>1
<1>7. x1 \in [Printer!Job -> JobRow]
  BY <1>1 DEF Printer!Init, JobRow
<1>8. x2 \in [Request -> PassRow]
  <2>1. Printer!Nothing \in PassRow
    BY DEF Printer!Nothing, PassRow
  <2> QED BY <2>1 DEF Printer!Init
<1>9. x3 \in [Printer!Job -> Nat] /\ x4 \in [Printer!Job -> Nat] /\ x5 \in 0..MaxDeath
  BY <1>1 DEF Printer!Init
<1> QED BY <1>2, <1>6, <1>7, <1>8, <1>9 DEF PrinterInv, Printer!TypeOK, JobRow, PassRow

\* The job in hand is one of those before the pass.
LEMMA FirstInHand ==
    ASSUME PrinterInv, NEW p \in Request, x2[p].todo # {}
    PROVE  Printer!InHand(p) \in Printer!Job
<1>1. x2[p].todo \in SUBSET Printer!Job
  BY PrinterTypes DEF PassRow
<1>2. PICK S : S = x2[p].todo
  OBVIOUS
<1>3. S \subseteq Nat /\ S # {}
  <2>1. Tickets \in Nat
    BY BoundAssumption
  <2> QED BY <1>1, <1>2, <2>1 DEF Printer!Job
<1>4. PICK n \in S : \A m \in S : <<m, n>> \notin OpToRel(<, Nat)
  BY <1>3, WFMin, NatLessThanWellFounded, Zenon
<1>6. ASSUME NEW m \in S PROVE n <= m
  <2>1. m \in Nat /\ n \in Nat
    BY <1>3
  <2>2. CASE m < n
    <3>1. <<m, n>> \in OpToRel(<, Nat)
      BY <2>1, <2>2 DEF OpToRel
    <3> QED BY <1>4, <3>1
  <2> QED BY <2>1, <2>2
<1>5. Printer!InHand(p) = CHOOSE x \in S : \A y \in S : x <= y
  BY <1>2 DEF Printer!InHand, Printer!Min
<1> QED BY <1>1, <1>2, <1>5, <1>6

\* One process less that sends.
LEMMA PrinterStops ==
    ASSUME PrinterInv, NEW p \in Request, NEW r \in PassRow, r.sending = FALSE,
           x2' = [x2 EXCEPT ![p] = r]
    PROVE  /\ x2' \in [Request -> PassRow] /\ \A q \in Request : x2'[q].sending => x2'[q].todo # {}
           /\ \A j \in Printer!Job :
                  /\ IsFiniteSet(SendingNow(j)') /\ Cardinality(SendingNow(j)') \in Nat
                  /\ Cardinality(SendingNow(j)') =
                         IF x2[p].sending /\ Printer!InHand(p) = j THEN Cardinality(SendingNow(j)) - 1
                                                                   ELSE Cardinality(SendingNow(j))
<1>1. \A q \in Request : x2'[q] = IF q = p THEN r ELSE x2[q]
  BY PrinterTypes
<1>2. x2' \in [Request -> PassRow] /\ \A q \in Request : x2'[q].sending => x2'[q].todo # {}
  BY <1>1, PrinterTypes
<1>3. ASSUME NEW j \in Printer!Job
      PROVE  /\ IsFiniteSet(SendingNow(j)') /\ Cardinality(SendingNow(j)') \in Nat
             /\ Cardinality(SendingNow(j)') =
                    IF x2[p].sending /\ Printer!InHand(p) = j THEN Cardinality(SendingNow(j)) - 1
                                                              ELSE Cardinality(SendingNow(j))
  <2>1. SendingNow(j)' = SendingNow(j) \ {p}
    BY <1>1 DEF SendingNow, Printer!InHand
  <2>2. p \in SendingNow(j) <=> x2[p].sending /\ Printer!InHand(p) = j
    BY DEF SendingNow
  <2>3. IsFiniteSet(SendingNow(j))
    BY DEF PrinterInv, CopiesAsked
  <2>4. /\ IsFiniteSet(SendingNow(j) \ {p}) /\ Cardinality(SendingNow(j) \ {p}) \in Nat
        /\ Cardinality(SendingNow(j) \ {p}) =
               IF p \in SendingNow(j) THEN Cardinality(SendingNow(j)) - 1 ELSE Cardinality(SendingNow(j))
    BY <2>3, FS_RemoveElement, FS_CardinalityType
  <2> QED BY <2>1, <2>2, <2>4
<1> QED BY <1>2, <1>3

\* One process more that sends.
LEMMA PrinterStarts ==
    ASSUME PrinterInv, NEW p \in Request, x2[p].sending = FALSE, x2[p].todo # {},
           NEW n \in Nat,
           x2' = [x2 EXCEPT ![p] = [todo |-> x2[p].todo, sending |-> TRUE, attempts |-> n]]
    PROVE  /\ x2' \in [Request -> PassRow] /\ \A q \in Request : x2'[q].sending => x2'[q].todo # {}
           /\ \A j \in Printer!Job :
                  /\ IsFiniteSet(SendingNow(j)') /\ Cardinality(SendingNow(j)') \in Nat
                  /\ Cardinality(SendingNow(j)') =
                         IF Printer!InHand(p) = j THEN Cardinality(SendingNow(j)) + 1
                                                  ELSE Cardinality(SendingNow(j))
<1>1. x2' \in [Request -> PassRow] /\ x2'[p].sending = TRUE /\ \A q \in Request : x2'[q].todo = x2[q].todo
  BY PrinterTypes DEF PassRow
<1>2. \A q \in Request \ {p} : x2'[q] = x2[q]
  BY PrinterTypes
<1>3. \A q \in Request : x2'[q].sending => x2'[q].todo # {}
  BY <1>1, <1>2, PrinterTypes
<1>4. ASSUME NEW j \in Printer!Job
      PROVE  /\ IsFiniteSet(SendingNow(j)') /\ Cardinality(SendingNow(j)') \in Nat
             /\ Cardinality(SendingNow(j)') =
                    IF Printer!InHand(p) = j THEN Cardinality(SendingNow(j)) + 1
                                             ELSE Cardinality(SendingNow(j))
  <2>1. \A q \in Request : Printer!InHand(q)' = Printer!InHand(q)
    BY <1>1 DEF Printer!InHand
  <2>2. SendingNow(j)' = IF Printer!InHand(p) = j THEN SendingNow(j) \cup {p} ELSE SendingNow(j)
    BY <1>1, <1>2, <2>1 DEF SendingNow
  <2>3. IsFiniteSet(SendingNow(j)) /\ p \notin SendingNow(j)
    BY DEF PrinterInv, CopiesAsked, SendingNow
  <2>4. /\ IsFiniteSet(SendingNow(j) \cup {p})
        /\ Cardinality(SendingNow(j) \cup {p}) = Cardinality(SendingNow(j)) + 1
    BY <2>3, FS_AddElement
  <2>5. Cardinality(SendingNow(j)) \in Nat /\ Cardinality(SendingNow(j) \cup {p}) \in Nat
    BY <2>3, <2>4, FS_CardinalityType
  <2> QED BY <2>2, <2>3, <2>4, <2>5
<1> QED BY <1>1, <1>3, <1>4

\* Who sends stays: a job is queued, or given up.
LEMMA PrinterQueues ==
    ASSUME PrinterInv, NEW j \in Printer!Job, NEW k \in JobRow, x1' = [x1 EXCEPT ![j] = k],
           UNCHANGED <<x2, x4, x5>>, x3' \in [Printer!Job -> Nat],
           \A i \in Printer!Job \ {j} : x3'[i] = x3[i],
           k.status # "none",
           \/ k.status = "queued" /\ x3'[j] = x3[j] + 1
           \/ k.status # "queued" /\ x3' = x3
    PROVE  PrinterInv'
<1>1. x1' \in [Printer!Job -> JobRow] /\ \A i \in Printer!Job : x1'[i] = IF i = j THEN k ELSE x1[i]
  BY PrinterTypes
<1>2. \A i \in Printer!Job : SendingNow(i)' = SendingNow(i)
  BY DEF SendingNow, Printer!InHand
<1>3. ASSUME NEW i \in Printer!Job
      PROVE  /\ IsFiniteSet(SendingNow(i)')
             /\ x4'[i] + Cardinality(SendingNow(i)') + Waits(i)' <= x3'[i]
             /\ x1'[i].status = "none" => x3'[i] = 0
  <2>1. /\ IsFiniteSet(SendingNow(i)) /\ x4[i] + Cardinality(SendingNow(i)) + Waits(i) <= x3[i]
        /\ x1[i].status = "none" => x3[i] = 0
        /\ Cardinality(SendingNow(i)) \in Nat /\ x4[i] \in Nat /\ x3[i] \in Nat
    BY PrinterTypes DEF PrinterInv, CopiesAsked
  <2>2. CASE i = j
    <3>1. Waits(i)' = IF k.status = "queued" THEN 1 ELSE 0
      BY <1>1, <2>2 DEF Waits
    <3>2. Waits(i) \in 0..1
      BY DEF Waits
    <3> QED BY <1>1, <1>2, <2>1, <2>2, <3>1, <3>2
  <2>3. CASE i # j
    <3>1. Waits(i)' = Waits(i)
      BY <1>1, <2>3 DEF Waits
    <3> QED BY <1>1, <1>2, <2>1, <2>3, <3>1
  <2> QED BY <2>2, <2>3
<1> QED BY <1>1, <1>3, PrinterStep, PrinterTypes

\* Every step of the printing keeps it.
LEMMA PrinterNext ==
    ASSUME PrinterInv, Printer!Next
    PROVE  PrinterInv'
<1>1. /\ x1 \in [Printer!Job -> JobRow] /\ x2 \in [Request -> PassRow]
      /\ x3 \in [Printer!Job -> Nat] /\ x4 \in [Printer!Job -> Nat] /\ x5 \in 0..MaxDeath
      /\ MaxDeath \in Nat
      /\ \A p \in Request : x2[p].sending => x2[p].todo # {}
  BY PrinterTypes, TellingAssumption
<1>2. /\ Printer!Nothing \in PassRow /\ Printer!Nothing.sending = FALSE
      /\ \A p \in Request : LessOne(x2[p].todo, Printer!InHand(p)) \in PassRow
      /\ \A p \in Request : LessOne(x2[p].todo, Printer!InHand(p)).sending = FALSE
  <2>1. Printer!Nothing \in PassRow /\ Printer!Nothing.sending = FALSE
    BY DEF Printer!Nothing, PassRow
  <2>2. \A p \in Request : x2[p].todo \ {Printer!InHand(p)} \in SUBSET Printer!Job
    BY <1>1 DEF PassRow
  <2> QED BY <2>1, <2>2 DEF PassRow, LessOne, Printer!Nothing
<1>3. \A j \in Printer!Job :
          /\ IsFiniteSet(SendingNow(j)) /\ Cardinality(SendingNow(j)) \in Nat
          /\ x4[j] + Cardinality(SendingNow(j)) + Waits(j) <= x3[j]
          /\ x1[j].status = "none" => x3[j] = 0
          /\ x3[j] \in Nat /\ x4[j] \in Nat /\ Waits(j) \in {0, 1}
  BY <1>1, PrinterTypes DEF PrinterInv, CopiesAsked, Waits
<1>4. ASSUME NEW j \in Printer!Job, Printer!Enqueue(j) PROVE PrinterInv'
  <2>1. PICK k : k = [x1[j] EXCEPT !.status = "queued"]
    OBVIOUS
  <2>2. x1[j].status = "none" /\ UNCHANGED <<x2, x4, x5>> /\ x3' = [x3 EXCEPT ![j] = 1]
    BY <1>4 DEF Printer!Enqueue
  <2>3. x3[j] = 0
    BY <1>3, <2>2
  <2>4. k \in JobRow /\ k.status = "queued"
    BY <1>1, <2>1, <2>3 DEF JobRow
  <2>5. x1' = [x1 EXCEPT ![j] = k]
    BY <1>4, <2>1 DEF Printer!Enqueue
  <2>6. x3' \in [Printer!Job -> Nat] /\ x3'[j] = x3[j] + 1 /\ \A i \in Printer!Job \ {j} : x3'[i] = x3[i]
    BY <1>1, <2>2, <2>3
  <2> QED BY <2>2, <2>4, <2>5, <2>6, PrinterQueues
<1>5. ASSUME NEW j \in Printer!Job, Printer!Retry(j) PROVE PrinterInv'
  <2> DEFINE k == [status |-> "queued", attempts |-> 0]
  <2>2. k \in JobRow /\ k.status = "queued"
    BY DEF JobRow
  <2>3. x1' = [x1 EXCEPT ![j] = k] /\ UNCHANGED <<x2, x4, x5>> /\ x3' = [x3 EXCEPT ![j] = @ + 1]
    BY <1>5 DEF Printer!Retry
  <2>4. x3' \in [Printer!Job -> Nat] /\ x3'[j] = x3[j] + 1 /\ \A i \in Printer!Job \ {j} : x3'[i] = x3[i]
    BY <1>1, <2>3, OneMore
  <2> HIDE DEF k
  <2> QED BY <2>2, <2>3, <2>4, PrinterQueues
<1>6. ASSUME NEW j \in Printer!Job, Printer!RecoverStuck(j) PROVE PrinterInv'
  <2>1. PICK k : k = [x1[j] EXCEPT !.status = "failed"]
    OBVIOUS
  <2>2. k \in JobRow /\ k.status = "failed"
    BY <1>1, <2>1 DEF JobRow
  <2>3. x1' = [x1 EXCEPT ![j] = k] /\ UNCHANGED <<x2, x3, x4, x5>>
    BY <1>6, <2>1 DEF Printer!RecoverStuck
  <2> QED BY <1>1, <2>2, <2>3, PrinterQueues
<1>7. ASSUME NEW p \in Request, Printer!StartPass(p) PROVE PrinterInv'
  <2>1. PICK r : r = [x2[p] EXCEPT !.todo = Printer!Queued]
    OBVIOUS
  <2>3. x2[p] = Printer!Nothing /\ x2' = [x2 EXCEPT ![p].todo = Printer!Queued] /\ UNCHANGED <<x1, x3, x4, x5>>
    BY <1>7 DEF Printer!StartPass
  <2>2. r \in PassRow /\ r.sending = FALSE
    BY <1>2, <2>1, <2>3 DEF PassRow, Printer!Queued
  <2>4. x2' = [x2 EXCEPT ![p] = r]
    BY <2>1, <2>3
  <2>5. \A j \in Printer!Job : Waits(j)' = Waits(j) /\ x2[p].sending = FALSE
    BY <1>2, <2>3 DEF Waits
  <2> HIDE DEF JobRow, PassRow
  <2>6. /\ x2' \in [Request -> PassRow] /\ \A q \in Request : x2'[q].sending => x2'[q].todo # {}
        /\ \A j \in Printer!Job :
               IsFiniteSet(SendingNow(j)') /\ Cardinality(SendingNow(j)') = Cardinality(SendingNow(j))
    BY <2>2, <2>4, <2>5, PrinterStops
  <2> QED BY <1>1, <1>3, <2>3, <2>5, <2>6, PrinterStep
<1>8. ASSUME NEW p \in Request, Printer!Claim(p) PROVE PrinterInv'
  <2>1. x2[p].todo # {} /\ x2[p].sending = FALSE /\ UNCHANGED <<x3, x4, x5>>
    <3>1. x2[p].sending \in BOOLEAN
      BY <1>1 DEF PassRow
    <3> QED BY <1>8, <3>1 DEF Printer!Claim
  <2>2. CASE Printer!StillQueued(Printer!InHand(p))
    <3>1. PICK i : i = Printer!InHand(p)
      OBVIOUS
    <3>2. x1[i].status = "queued" /\ i \in Printer!Job
          /\ x1' = [x1 EXCEPT ![i] = [status |-> "sending", attempts |-> x1[i].attempts + 1]]
          /\ x2' = [x2 EXCEPT ![p] = [todo |-> x2[p].todo, sending |-> TRUE, attempts |-> x1[i].attempts + 1]]
      BY <1>8, <2>1, <2>2, <3>1, FirstInHand DEF Printer!Claim, Printer!StillQueued
    <3>7. PICK n \in Nat : n = x1[i].attempts + 1
      BY <1>1, <3>2 DEF JobRow
    <3>3. x1' \in [Printer!Job -> JobRow]
      BY <1>1, <3>2, <3>7 DEF JobRow
    <3>4. \A j \in Printer!Job :
              /\ j # i => x1'[j] = x1[j] /\ Waits(j)' = Waits(j)
              /\ j = i => x1'[j].status = "sending" /\ Waits(j) = 1 /\ Waits(j)' = 0
      BY <1>1, <3>2 DEF Waits
    <3>5. /\ x2' \in [Request -> PassRow] /\ \A q \in Request : x2'[q].sending => x2'[q].todo # {}
          /\ \A j \in Printer!Job :
                 /\ IsFiniteSet(SendingNow(j)')
                 /\ Cardinality(SendingNow(j)') =
                        IF i = j THEN Cardinality(SendingNow(j)) + 1 ELSE Cardinality(SendingNow(j))
      BY <2>1, <3>1, <3>2, <3>7, PrinterStarts
    <3>6. ASSUME NEW j \in Printer!Job
          PROVE  /\ IsFiniteSet(SendingNow(j)')
                 /\ x4'[j] + Cardinality(SendingNow(j)') + Waits(j)' <= x3'[j]
                 /\ x1'[j].status = "none" => x3'[j] = 0
      BY <1>3, <2>1, <3>4, <3>5
    <3> QED BY <1>1, <2>1, <3>3, <3>5, <3>6, PrinterStep
  <2>3. CASE ~Printer!StillQueued(Printer!InHand(p))
    <3>1. PICK r : r = LessOne(x2[p].todo, Printer!InHand(p))
      OBVIOUS
    <3>2. x2' = [x2 EXCEPT ![p] = r] /\ x1' = x1 /\ r \in PassRow /\ r.sending = FALSE
      BY <1>2, <1>8, <2>3, <3>1 DEF Printer!Claim, Printer!GoOn, LessOne
    <3>3. \A j \in Printer!Job : Waits(j)' = Waits(j)
      BY <3>2 DEF Waits
    <3>4. /\ x2' \in [Request -> PassRow] /\ \A q \in Request : x2'[q].sending => x2'[q].todo # {}
          /\ \A j \in Printer!Job :
                 IsFiniteSet(SendingNow(j)') /\ Cardinality(SendingNow(j)') = Cardinality(SendingNow(j))
      BY <2>1, <3>2, PrinterStops
    <3> QED BY <1>1, <1>3, <2>1, <3>2, <3>3, <3>4, PrinterStep
  <2> QED BY <2>2, <2>3
\* The three steps in which a process stops sending.
<1>9. ASSUME NEW p \in Request, Printer!PrintTicket(p) \/ Printer!Fail(p) \/ Printer!Die(p) PROVE PrinterInv'
  <2>1. PICK i : i = Printer!InHand(p)
    OBVIOUS
  <2>2. PICK r \in PassRow : r.sending = FALSE /\ x2' = [x2 EXCEPT ![p] = r]
    BY <1>2, <1>9 DEF Printer!PrintTicket, Printer!Fail, Printer!Die, Printer!GoOn, LessOne
  <2>3. /\ x2' \in [Request -> PassRow] /\ \A q \in Request : x2'[q].sending => x2'[q].todo # {}
        /\ \A j \in Printer!Job :
               /\ IsFiniteSet(SendingNow(j)')
               /\ Cardinality(SendingNow(j)') =
                      IF x2[p].sending /\ i = j THEN Cardinality(SendingNow(j)) - 1
                                                ELSE Cardinality(SendingNow(j))
    BY <2>1, <2>2, PrinterStops
  <2>4. x5' \in 0..MaxDeath
    BY <1>1, <1>9 DEF Printer!PrintTicket, Printer!Fail, Printer!Die
  <2>5. CASE Printer!PrintTicket(p)
    <3>1. /\ x2[p].sending /\ x4' = [x4 EXCEPT ![i] = @ + 1] /\ x1' = [x1 EXCEPT ![i].status = "done"]
          /\ UNCHANGED <<x3, x5>>
      BY <2>1, <2>5 DEF Printer!PrintTicket
    <3>2. x1' \in [Printer!Job -> JobRow] /\ x4' \in [Printer!Job -> Nat]
      <4>1. x1' \in [Printer!Job -> JobRow]
        BY <1>1, <3>1 DEF JobRow
      <4>2. x4 \in [Printer!Job -> Nat] /\ x4' = [x4 EXCEPT ![i] = @ + 1]
        BY <1>1, <3>1
      <4>3. x4' \in [Printer!Job -> Nat]
        <5>1. CASE i \in Printer!Job
          BY <4>2, <5>1, OneMore
        <5>2. CASE i \notin Printer!Job
          <6>1. x4' = x4
            BY <4>2, <5>2
          <6> QED BY <4>2, <6>1
        <5> QED BY <5>1, <5>2
      <4> QED BY <4>1, <4>3
    <3>3. \A j \in Printer!Job :
              /\ j # i => x1'[j] = x1[j] /\ Waits(j)' = Waits(j) /\ x4'[j] = x4[j]
              /\ j = i => x1'[j].status = "done" /\ Waits(j)' = 0 /\ x4'[j] = x4[j] + 1
      BY <1>1, <3>1 DEF Waits, JobRow
    <3>4. ASSUME NEW j \in Printer!Job
          PROVE  /\ IsFiniteSet(SendingNow(j)')
                 /\ x4'[j] + Cardinality(SendingNow(j)') + Waits(j)' <= x3'[j]
                 /\ x1'[j].status = "none" => x3'[j] = 0
      BY <1>3, <2>3, <3>1, <3>3
    <3> QED BY <1>1, <2>3, <2>4, <3>1, <3>2, <3>4, PrinterStep
  <2>6. CASE Printer!Fail(p)
    <3>1. PICK s : s = IF x2[p].attempts >= MaxSend THEN "failed" ELSE "queued"
      OBVIOUS
    <3>2. x2[p].sending /\ x1' = [x1 EXCEPT ![i].status = s] /\ UNCHANGED <<x3, x4, x5>>
      BY <2>1, <2>6, <3>1 DEF Printer!Fail
    <3>3. s \in {"queued", "failed"} /\ x1' \in [Printer!Job -> JobRow]
      BY <1>1, <3>1, <3>2 DEF JobRow
    <3>4. \A j \in Printer!Job :
              /\ j # i => x1'[j] = x1[j] /\ Waits(j)' = Waits(j)
              /\ j = i => x1'[j].status = s /\ Waits(j)' \in {0, 1}
      BY <1>1, <3>2 DEF Waits, JobRow
    <3>6. ASSUME NEW j \in Printer!Job
          PROVE  /\ IsFiniteSet(SendingNow(j)')
                 /\ x4'[j] + Cardinality(SendingNow(j)') + Waits(j)' <= x3'[j]
                 /\ x1'[j].status = "none" => x3'[j] = 0
      BY <1>3, <2>3, <3>2, <3>3, <3>4
    <3> QED BY <1>1, <2>3, <2>4, <3>2, <3>3, <3>6, PrinterStep
  <2>7. CASE Printer!Die(p)
    <3>1. UNCHANGED <<x1, x3>> /\ (x4' = x4 \/ (x2[p].sending /\ x4' = [x4 EXCEPT ![i] = @ + 1]))
      BY <2>1, <2>7 DEF Printer!Die
    <3>2. x4' \in [Printer!Job -> Nat]
      BY <1>1, <3>1
    <3>3. \A j \in Printer!Job :
              Waits(j)' = Waits(j) /\ (x4'[j] = x4[j] \/ (x2[p].sending /\ i = j /\ x4'[j] = x4[j] + 1))
      BY <1>1, <3>1 DEF Waits
    <3>4. ASSUME NEW j \in Printer!Job
          PROVE  /\ IsFiniteSet(SendingNow(j)')
                 /\ x4'[j] + Cardinality(SendingNow(j)') + Waits(j)' <= x3'[j]
                 /\ x1'[j].status = "none" => x3'[j] = 0
      BY <1>3, <2>3, <3>1, <3>3
    <3> QED BY <1>1, <2>3, <2>4, <3>1, <3>2, <3>4, PrinterStep
  <2> QED BY <1>9, <2>5, <2>6, <2>7
<1> QED BY <1>4, <1>5, <1>6, <1>7, <1>8, <1>9 DEF Printer!Next, Printer!Work

-----------------------------------------------------------------------------
\* Live updates.

LEMMA LastPut ==
    ASSUME NEW S, NEW s \in Seq(S), NEW e \in S
    PROVE  /\ Append(s, e) \in Seq(S) /\ Len(Append(s, e)) = Len(s) + 1 /\ Append(s, e) # <<>>
           /\ Screens!ToSet(Append(s, e)) = Screens!ToSet(s) \cup {e}
           /\ Screens!IsInjective(s) /\ e \notin Screens!ToSet(s) => Screens!IsInjective(Append(s, e))
<1> DEFINE t == Append(s, e)
<1>1. t \in Seq(S) /\ Len(t) = Len(s) + 1 /\ Len(s) \in Nat /\ DOMAIN t = 1..Len(s) + 1 /\ DOMAIN s = 1..Len(s)
      /\ t[Len(s) + 1] = e /\ \A i \in 1..Len(s) : t[i] = s[i]
  OBVIOUS
<1>2. t # <<>>
  BY <1>1
<1> HIDE DEF t
<1>3. Screens!ToSet(t) = Screens!ToSet(s) \cup {e}
  BY <1>1 DEF Screens!ToSet
<1>4. Screens!IsInjective(s) /\ e \notin Screens!ToSet(s) => Screens!IsInjective(t)
  BY <1>1 DEF Screens!ToSet, Screens!IsInjective
<1> QED BY <1>1, <1>2, <1>3, <1>4 DEF t

LEMMA FirstTaken ==
    ASSUME NEW S, NEW s \in Seq(S), s # <<>>
    PROVE  /\ Tail(s) \in Seq(S) /\ Len(Tail(s)) = Len(s) - 1 /\ Head(s) \in S
           /\ Screens!ToSet(s) = Screens!ToSet(Tail(s)) \cup {Head(s)}
           /\ Screens!IsInjective(s) =>
                  Screens!IsInjective(Tail(s)) /\ Head(s) \notin Screens!ToSet(Tail(s))
<1> DEFINE t == Tail(s)
<1>1. t \in Seq(S) /\ Len(t) = Len(s) - 1 /\ Len(s) \in Nat \ {0} /\ DOMAIN t = 1..Len(s) - 1
      /\ DOMAIN s = 1..Len(s) /\ Head(s) = s[1] /\ s[1] \in S /\ \A i \in 1..Len(s) - 1 : t[i] = s[i + 1]
  OBVIOUS
<1> HIDE DEF t
<1>2. \A i \in 1..Len(s) : i = 1 \/ (i - 1 \in 1..Len(s) - 1 /\ s[i] = t[i - 1])
  BY <1>1
<1>3. \A i \in 1..Len(s) - 1 : i + 1 \in 1..Len(s)
  BY <1>1
<1>4. Screens!ToSet(s) = Screens!ToSet(t) \cup {Head(s)}
  <2>1. Screens!ToSet(s) = {s[i] : i \in 1..Len(s)} /\ Screens!ToSet(t) = {t[i] : i \in 1..Len(s) - 1}
    BY <1>1 DEF Screens!ToSet
  <2>2. 1 \in 1..Len(s)
    BY <1>1
  <2>3. ASSUME NEW x \in Screens!ToSet(s) PROVE x \in Screens!ToSet(t) \cup {Head(s)}
    <3>1. PICK i \in 1..Len(s) : x = s[i]
      BY <2>1
    <3>2. CASE i = 1
      BY <1>1, <3>1, <3>2
    <3>3. CASE i - 1 \in 1..Len(s) - 1 /\ s[i] = t[i - 1]
      BY <2>1, <3>1, <3>3
    <3> QED BY <1>2, <3>2, <3>3
  <2>4. ASSUME NEW x \in Screens!ToSet(t) PROVE x \in Screens!ToSet(s)
    <3>1. PICK i \in 1..Len(s) - 1 : x = t[i]
      BY <2>1
    <3>2. i + 1 \in 1..Len(s) /\ x = s[i + 1]
      BY <1>1, <1>3, <3>1
    <3> QED BY <2>1, <3>2
  <2>5. Head(s) \in Screens!ToSet(s)
    BY <1>1, <2>1, <2>2
  <2> QED BY <2>3, <2>4, <2>5
<1>5. Screens!IsInjective(s) => Screens!IsInjective(t) /\ Head(s) \notin Screens!ToSet(t)
  <2> SUFFICES ASSUME Screens!IsInjective(s)
               PROVE  Screens!IsInjective(t) /\ Head(s) \notin Screens!ToSet(t)
    OBVIOUS
  <2>1. \A i, j \in 1..Len(s) : s[i] = s[j] => i = j
    BY <1>1 DEF Screens!IsInjective
  <2>2. \A i \in 1..Len(s) - 1 : t[i] # Head(s)
    BY <1>1, <1>3, <2>1
  <2>3. \A i, j \in 1..Len(s) - 1 : t[i] = t[j] => i = j
    <3> TAKE i, j \in 1..Len(s) - 1
    <3>1. i + 1 \in 1..Len(s) /\ j + 1 \in 1..Len(s) /\ t[i] = s[i + 1] /\ t[j] = s[j + 1]
      BY <1>1, <1>3
    <3>2. t[i] = t[j] => i + 1 = j + 1
      BY <2>1, <3>1
    <3> QED BY <3>2
  <2> QED BY <1>1, <2>2, <2>3 DEF Screens!IsInjective, Screens!ToSet
<1> QED BY <1>1, <1>4, <1>5 DEF t

LEMMA OneTakenOut ==
    ASSUME NEW S, NEW s \in Seq(S), Screens!IsInjective(s), NEW k \in DOMAIN s
    PROVE  /\ Screens!RemoveAt(s, k) \in Seq(S) /\ Screens!IsInjective(Screens!RemoveAt(s, k))
           /\ Screens!ToSet(Screens!RemoveAt(s, k)) = Screens!ToSet(s) \ {s[k]}
<1> DEFINE a == SubSeq(s, 1, k - 1)
           b == SubSeq(s, k + 1, Len(s))
           t == a \o b
<1>1. DOMAIN s = 1..Len(s) /\ Len(s) \in Nat /\ k \in 1..Len(s)
  OBVIOUS
<1>2. a \in Seq(S) /\ Len(a) = k - 1 /\ \A i \in 1..k - 1 : a[i] = s[i]
  BY <1>1
<1>3. b \in Seq(S) /\ Len(b) = Len(s) - k /\ \A i \in 1..Len(s) - k : b[i] = s[i + k]
  BY <1>1
<1> HIDE DEF a, b
<1>4. t \in Seq(S) /\ DOMAIN t = 1..Len(s) - 1 /\ \A i \in 1..Len(s) - 1 : t[i] = IF i < k THEN s[i] ELSE s[i + 1]
  <2>1. /\ t \in Seq(S) /\ DOMAIN t = 1..Len(a) + Len(b)
        /\ \A i \in 1..Len(a) + Len(b) : t[i] = IF i <= Len(a) THEN a[i] ELSE b[i - Len(a)]
    BY <1>2, <1>3, Joined
  <2> HIDE DEF t
  <2>2. Len(a) + Len(b) = Len(s) - 1 /\ Len(a) = k - 1
    BY <1>1, <1>2, <1>3
  <2>3. \A i \in 1..Len(s) - 1 : i <= Len(a) => t[i] = s[i]
    BY <1>1, <1>2, <2>1, <2>2
  <2>4. \A i \in 1..Len(s) - 1 : ~(i <= Len(a)) => t[i] = s[i + 1]
    <3> SUFFICES ASSUME NEW i \in 1..Len(s) - 1, ~(i <= Len(a))
                 PROVE  t[i] = s[i + 1]
      OBVIOUS
    <3>1. t[i] = b[i - Len(a)] /\ i - Len(a) \in 1..Len(s) - k
      BY <1>1, <2>1, <2>2
    <3>2. b[i - Len(a)] = s[i - Len(a) + k]
      BY <1>3, <3>1
    <3>3. i - Len(a) + k = i + 1
      BY <1>1, <2>2
    <3> QED BY <3>1, <3>2, <3>3
  <2>5. \A i \in 1..Len(s) - 1 : i <= Len(a) <=> i < k
    BY <1>1, <2>2
  <2> QED BY <2>1, <2>2, <2>3, <2>4, <2>5
<1> HIDE DEF t
<1>5. Screens!IsInjective(t)
  <2>1. \A i, j \in 1..Len(s) - 1 : t[i] = t[j] => i = j
    BY SMTT(30), <1>1, <1>4 DEF Screens!IsInjective
  <2> QED BY <1>4, <2>1 DEF Screens!IsInjective
<1>6. \A i \in 1..Len(s) - 1 : \E j \in 1..Len(s) : j # k /\ t[i] = s[j]
  <2> TAKE i \in 1..Len(s) - 1
  <2>1. CASE i < k
    BY <1>1, <1>4, <2>1
  <2>2. CASE ~(i < k)
    <3>1. i + 1 \in 1..Len(s) /\ i + 1 # k /\ t[i] = s[i + 1]
      BY <1>1, <1>4, <2>2
    <3> QED BY <3>1
  <2> QED BY <2>1, <2>2
<1>7. \A j \in 1..Len(s) : j # k => \E i \in 1..Len(s) - 1 : t[i] = s[j]
  <2> TAKE j \in 1..Len(s)
  <2>1. CASE j < k
    BY <1>1, <1>4, <2>1
  <2>2. CASE j > k
    <3>1. j - 1 \in 1..Len(s) - 1 /\ ~(j - 1 < k) /\ (j - 1) + 1 = j
      BY <1>1, <2>2
    <3>2. t[j - 1] = s[j]
      BY <1>4, <3>1
    <3> QED BY <3>1, <3>2
  <2> QED BY <1>1, <2>1, <2>2
<1>8. Screens!ToSet(t) = Screens!ToSet(s) \ {s[k]}
  <2>1. Screens!ToSet(s) = {s[i] : i \in 1..Len(s)} /\ Screens!ToSet(t) = {t[i] : i \in 1..Len(s) - 1}
    BY <1>1, <1>4 DEF Screens!ToSet
  <2>2. \A j \in 1..Len(s) : j # k <=> s[j] # s[k]
    BY <1>1 DEF Screens!IsInjective
  <2>3. ASSUME NEW x \in Screens!ToSet(t) PROVE x \in Screens!ToSet(s) /\ x # s[k]
    BY <1>6, <2>1, <2>2
  <2>4. ASSUME NEW x \in Screens!ToSet(s), x # s[k] PROVE x \in Screens!ToSet(t)
    <3>1. PICK j \in 1..Len(s) : x = s[j]
      BY <2>1
    <3>2. PICK i \in 1..Len(s) - 1 : t[i] = s[j]
      BY <1>7, <2>4, <3>1
    <3> QED BY <2>1, <3>1, <3>2
  <2> QED BY <2>3, <2>4
<1>9. Screens!RemoveAt(s, k) = t
  BY DEF Screens!RemoveAt, t, a, b
<1> QED BY <1>4, <1>5, <1>8, <1>9

NotifierRow == [at : {"rest", "notify", "put"}, left : Seq(Three)]

ScreensTyped ==
    /\ x1 \in Seq(Three) /\ Screens!IsInjective(x1)
    /\ x2 \in [Three -> Seq(Screens!Notice)] /\ \A s \in Three : Len(x2[s]) <= QueueSize
    /\ x3 \in [Three -> {"away", "first", "reading", "gone"}]
    /\ x4 \subseteq Three
    /\ x5 \in [Request -> NotifierRow]
    /\ x6 \in BOOLEAN /\ x7 \in Request \cup {Vacant} /\ x8 \in 0..MaxChange

\* Who is known is not away, and who holds the lock is telling the screens.
KnownIsThere ==
    /\ \A s \in Screens!ToSet(x1) : x3[s] # "away"
    /\ \A n \in Request : x7 = n => x5[n].at = "put"

ScreensInv == ScreensTyped /\ KnownIsThere /\ Screens!ChangeIsNoticed

LEMMA ScreensHolds ==
    ASSUME ScreensInv
    PROVE  Screens!TypeOK
<1>1. \A S : \A s \in Seq(S) : Screens!ToSet(s) \subseteq S
  BY DEF Screens!ToSet
<1>2. Screens!ToSet(x1) \subseteq Three /\ \A s \in Three : Screens!ToSet(x2[s]) \subseteq Screens!Notice
  BY <1>1 DEF ScreensInv, ScreensTyped
<1>3. \A n \in Request : Screens!ToSet(x5[n].left) \subseteq Three
  BY <1>1 DEF ScreensInv, ScreensTyped, NotifierRow
<1> QED BY <1>2, <1>3 DEF ScreensInv, ScreensTyped, Screens!TypeOK

LEMMA ScreensInit ==
    ASSUME Screens!Init
    PROVE  ScreensInv
<1>1. 0 \in 0..MaxChange /\ QueueSize \in Nat /\ QueueSize > 0
  <2>1. MaxChange \in Nat /\ QueueSize \in Nat
    BY BoundAssumption
  <2> QED BY <2>1, TellingAssumption
<1>2. x1 = <<>> /\ x4 = {} /\ x7 = Vacant /\ x6 = FALSE /\ x8 = 0
  BY DEF Screens!Init
<1>3. x1 \in Seq(Three) /\ Screens!IsInjective(x1) /\ Screens!ToSet(x1) = {}
  BY <1>2 DEF Screens!IsInjective, Screens!ToSet
<1>4. x2 \in [Three -> Seq(Screens!Notice)] /\ \A s \in Three : Len(x2[s]) <= QueueSize
  <2>1. x2 = [s \in Three |-> <<>>] /\ <<>> \in Seq(Screens!Notice) /\ Len(<<>>) = 0
    BY DEF Screens!Init
  <2> QED BY <1>1, <2>1
<1>5. x5 \in [Request -> NotifierRow]
  <2>1. Screens!Resting \in NotifierRow
    BY DEF Screens!Resting, NotifierRow
  <2> QED BY <2>1 DEF Screens!Init
<1>6. x3 \in [Three -> {"away", "first", "reading", "gone"}]
  BY DEF Screens!Init
<1>7. ScreensTyped
  BY <1>1, <1>2, <1>3, <1>4, <1>5, <1>6 DEF ScreensTyped
<1>8. KnownIsThere /\ Screens!ChangeIsNoticed
  BY <1>2, <1>3, NobodyAssumption DEF KnownIsThere, Screens!ChangeIsNoticed
<1> QED BY <1>7, <1>8 DEF ScreensInv

LEMMA ScreensFacts ==
    ASSUME ScreensInv
    PROVE  /\ ScreensTyped /\ QueueSize \in Nat /\ QueueSize > 0 /\ MaxChange \in Nat
           /\ Screens!ToSet(x1) \subseteq Three
           /\ \A s \in Screens!ToSet(x1) :
                  /\ x3[s] # "away"
                  /\ x3[s] = "reading" /\ s \in x4 => Screens!Waiting(s) \/ x2[s] # <<>>
           /\ \A n \in Request : x7 = n => x5[n].at = "put"
<1>1. QueueSize \in Nat /\ MaxChange \in Nat
  BY BoundAssumption
<1>2. Screens!ToSet(x1) \subseteq Three
  BY ScreensHolds DEF Screens!TypeOK
<1> QED BY <1>1, <1>2, TellingAssumption DEF ScreensInv, KnownIsThere, Screens!ChangeIsNoticed

\* A queue that is known no more.
LEMMA Forgotten ==
    ASSUME ScreensInv, NEW s \in Three
    PROVE  /\ Screens!Forget(s) \in Seq(Three) /\ Screens!IsInjective(Screens!Forget(s))
           /\ Screens!ToSet(Screens!Forget(s)) = Screens!ToSet(x1) \ {s}
<1>1. x1 \in Seq(Three) /\ Screens!IsInjective(x1)
  BY DEF ScreensInv, ScreensTyped
<1>2. CASE s \in Screens!ToSet(x1)
  <2>1. PICK k : k = CHOOSE i \in DOMAIN x1 : x1[i] = s
    OBVIOUS
  <2>2. \E i \in DOMAIN x1 : x1[i] = s
    BY <1>2 DEF Screens!ToSet
  <2>3. k \in DOMAIN x1 /\ x1[k] = s
    BY <2>1, <2>2
  <2>4. Screens!Forget(s) = Screens!RemoveAt(x1, k)
    BY <1>2, <2>1 DEF Screens!Forget
  <2> QED BY <1>1, <2>3, <2>4, OneTakenOut
<1>3. CASE s \notin Screens!ToSet(x1)
  BY <1>1, <1>3 DEF Screens!Forget
<1> QED BY <1>2, <1>3

\* What a screen does, the notifiers left alone.
LEMMA ScreenActs ==
    ASSUME ScreensInv, NEW s \in Three,
           Screens!FirstRead(s) \/ Screens!Get(s) \/ Screens!Disconnect(s) \/ Screens!Unsubscribe(s)
    PROVE  ScreensInv'
<1>1. ScreensTyped
  BY DEF ScreensInv
<1>2. UNCHANGED <<x5, x6, x8>> /\ x7' = x7
  BY DEF Screens!FirstRead, Screens!Get, Screens!Disconnect, Screens!Unsubscribe
<1>3. \A q \in Three \ {s} : x2'[q] = x2[q] /\ x3'[q] = x3[q] /\ (q \in x4' <=> q \in x4)
  BY <1>1 DEF ScreensTyped, Screens!FirstRead, Screens!Get, Screens!Disconnect, Screens!Unsubscribe
<1>4. /\ x1' \in Seq(Three) /\ Screens!IsInjective(x1') /\ Screens!ToSet(x1') \subseteq Screens!ToSet(x1)
      /\ Screens!Unsubscribe(s) => s \notin Screens!ToSet(x1')
  <2>1. CASE Screens!Unsubscribe(s)
    <3>1. x1' = Screens!Forget(s)
      BY <2>1 DEF Screens!Unsubscribe
    <3> QED BY <3>1, Forgotten
  <2>2. CASE x1' = x1 /\ ~Screens!Unsubscribe(s)
    BY <1>1, <2>2 DEF ScreensTyped
  <2> QED BY <2>1, <2>2 DEF Screens!FirstRead, Screens!Get, Screens!Disconnect
<1>5. x2' \in [Three -> Seq(Screens!Notice)] /\ \A q \in Three : Len(x2'[q]) <= QueueSize
  <2>1. CASE x2' = x2
    BY <1>1, <2>1 DEF ScreensTyped
  <2>2. CASE Screens!Get(s)
    <3>1. x2[s] \in Seq(Screens!Notice) /\ x2[s] # <<>> /\ x2' = [x2 EXCEPT ![s] = Tail(x2[s])]
      BY <1>1, <2>2 DEF Screens!Get, ScreensTyped
    <3>2. Tail(x2[s]) \in Seq(Screens!Notice) /\ Len(Tail(x2[s])) <= Len(x2[s]) /\ Len(Tail(x2[s])) \in Nat
          /\ Len(x2[s]) \in Nat
      BY <3>1
    <3>3. \A q \in Three : x2'[q] = IF q = s THEN Tail(x2[s]) ELSE x2[q]
      BY <1>1, <3>1 DEF ScreensTyped
    <3>4. x2' \in [Three -> Seq(Screens!Notice)]
      BY <1>1, <3>1, <3>2 DEF ScreensTyped
    <3>5. Len(x2[s]) <= QueueSize /\ QueueSize \in Nat
      BY <1>1, ScreensFacts DEF ScreensTyped
    <3>6. \A q \in Three : Len(x2'[q]) <= QueueSize
      <4>1. Len(Tail(x2[s])) <= QueueSize
        BY <3>2, <3>5
      <4>2. \A q \in Three : Len(x2[q]) <= QueueSize
        BY <1>1 DEF ScreensTyped
      <4> QED BY <3>3, <4>1, <4>2
    <3> QED BY <3>4, <3>6
  <2>3. CASE Screens!Unsubscribe(s)
    <3>1. x2' = [x2 EXCEPT ![s] = <<>>] /\ <<>> \in Seq(Screens!Notice) /\ Len(<<>>) = 0
      BY <2>3 DEF Screens!Unsubscribe
    <3> QED BY <1>1, <3>1, ScreensFacts DEF ScreensTyped
  <2> QED BY <2>1, <2>2, <2>3 DEF Screens!FirstRead, Screens!Disconnect
<1>6. x3' \in [Three -> {"away", "first", "reading", "gone"}] /\ x4' \subseteq Three
  BY <1>1 DEF ScreensTyped, Screens!FirstRead, Screens!Get, Screens!Disconnect, Screens!Unsubscribe
<1>7. \/ x3'[s] \in {"first", "reading"} /\ s \notin x4'
      \/ x3'[s] = "gone"
      \/ s \notin Screens!ToSet(x1')
  <2>1. CASE Screens!FirstRead(s)
    BY <1>1, <2>1 DEF ScreensTyped, Screens!FirstRead
  <2>2. CASE Screens!Get(s)
    <3>1. x3[s] = "reading" /\ (x3' = [x3 EXCEPT ![s] = "gone"] \/ (x3' = x3 /\ x4' = x4 \ {s}))
      BY <2>2 DEF Screens!Get
    <3> QED BY <1>1, <3>1 DEF ScreensTyped
  <2>3. CASE Screens!Disconnect(s)
    BY <1>1, <2>3 DEF ScreensTyped, Screens!Disconnect
  <2>4. CASE Screens!Unsubscribe(s)
    BY <1>4, <2>4
  <2> QED BY <2>1, <2>2, <2>3, <2>4
<1>8. ScreensTyped'
  BY <1>1, <1>2, <1>4, <1>5, <1>6 DEF ScreensTyped
<1>9. KnownIsThere'
  <2>1. \A q \in Screens!ToSet(x1') : x3'[q] # "away"
    BY <1>3, <1>4, <1>7, ScreensFacts
  <2> QED BY <1>2, <2>1, ScreensFacts DEF KnownIsThere
<1>10. Screens!ChangeIsNoticed'
  <2> SUFFICES ASSUME NEW q \in Screens!ToSet(x1'), x3'[q] = "reading", q \in x4'
               PROVE  Screens!Waiting(q)' \/ x2'[q] # <<>>
    BY DEF Screens!ChangeIsNoticed
  <2>1. q # s /\ q \in Three /\ q \in Screens!ToSet(x1)
    BY <1>4, <1>7, ScreensFacts
  <2>2. Screens!Waiting(q) \/ x2[q] # <<>>
    BY <1>3, <2>1, ScreensFacts
  <2>3. Screens!Waiting(q)' <=> Screens!Waiting(q)
    BY <1>2 DEF Screens!Waiting
  <2> QED BY <1>3, <2>1, <2>2, <2>3
<1> QED BY <1>8, <1>9, <1>10 DEF ScreensInv

LEMMA ScreenSubscribes ==
    ASSUME ScreensInv, NEW s \in Three, Screens!Subscribe(s)
    PROVE  ScreensInv'
<1> DEFINE evicted == IF Len(x1) >= Limit THEN {Head(x1)} ELSE {}
           rest == IF evicted = {} THEN x1 ELSE Tail(x1)
<1>1. ScreensTyped
  BY DEF ScreensInv
<1>2. /\ x3[s] = "away" /\ x7 = Vacant /\ x1' = Append(rest, s)
      /\ x2' = [q \in Three |-> CASE q = s -> <<>> [] q \in evicted -> Screens!EndOf(x2[q]) [] OTHER -> x2[q]]
      /\ x3' = [x3 EXCEPT ![s] = "first"] /\ UNCHANGED <<x4, x5, x6, x7, x8>>
  BY DEF Screens!Subscribe
<1>3. s \notin Screens!ToSet(x1)
  BY <1>2, ScreensFacts
<1>4. /\ rest \in Seq(Three) /\ Screens!IsInjective(rest) /\ Screens!ToSet(rest) \subseteq Screens!ToSet(x1)
      /\ evicted \cap Screens!ToSet(rest) = {}
  <2>1. CASE Len(x1) >= Limit
    <3>1. evicted = {Head(x1)} /\ rest = Tail(x1)
      BY <2>1
    <3>2. x1 \in Seq(Three) /\ Screens!IsInjective(x1) /\ x1 # <<>>
      <4>1. Limit \in Nat /\ Limit > 0
        BY BoundAssumption, TellingAssumption
      <4> QED BY <1>1, <2>1, <4>1 DEF ScreensTyped
    <3> HIDE DEF evicted, rest
    <3> QED BY <3>1, <3>2, FirstTaken
  <2>2. CASE ~(Len(x1) >= Limit)
    BY <1>1, <2>2 DEF ScreensTyped
  <2> QED BY <2>1, <2>2
<1> HIDE DEF evicted, rest
<1>5. /\ x1' \in Seq(Three) /\ Screens!IsInjective(x1')
      /\ Screens!ToSet(x1') = Screens!ToSet(rest) \cup {s}
  BY <1>2, <1>3, <1>4, LastPut
<1>6. \A q \in Three : Screens!EndOf(x2[q]) \in Seq(Screens!Notice) /\ Len(Screens!EndOf(x2[q])) <= QueueSize
  <2> TAKE q \in Three
  <2> DEFINE kept == IF Len(x2[q]) = QueueSize THEN Tail(x2[q]) ELSE x2[q]
  <2>1. x2[q] \in Seq(Screens!Notice) /\ Len(x2[q]) <= QueueSize /\ QueueSize \in Nat /\ QueueSize > 0
    BY <1>1, ScreensFacts DEF ScreensTyped
  <2>2. kept \in Seq(Screens!Notice) /\ Len(kept) + 1 <= QueueSize
    <3>1. CASE Len(x2[q]) = QueueSize
      <4>1. Tail(x2[q]) \in Seq(Screens!Notice) /\ Len(Tail(x2[q])) = QueueSize - 1
        BY <2>1, <3>1
      <4> QED BY <2>1, <3>1, <4>1
    <3>2. CASE Len(x2[q]) # QueueSize
      BY <2>1, <3>2
    <3> QED BY <3>1, <3>2
  <2>3. Screens!EndOf(x2[q]) = Append(kept, "end") /\ "end" \in Screens!Notice
    BY DEF Screens!EndOf, Screens!Notice
  <2> HIDE DEF kept
  <2> QED BY <2>2, <2>3, LastPut
<1>7. x2' \in [Three -> Seq(Screens!Notice)] /\ \A q \in Three : Len(x2'[q]) <= QueueSize
  <2>1. \A q \in Three : x2'[q] \in {<<>>, Screens!EndOf(x2[q]), x2[q]}
    BY <1>2
  <2>2. <<>> \in Seq(Screens!Notice) /\ Len(<<>>) = 0 /\ QueueSize \in Nat
    BY ScreensFacts
  <2>3. \A q \in Three : x2[q] \in Seq(Screens!Notice) /\ Len(x2[q]) <= QueueSize
    BY <1>1 DEF ScreensTyped
  <2>4. \A q \in Three : x2'[q] \in Seq(Screens!Notice) /\ Len(x2'[q]) <= QueueSize
    <3> TAKE q \in Three
    <3>1. CASE x2'[q] = <<>>
      BY <2>2, <3>1
    <3>2. CASE x2'[q] = Screens!EndOf(x2[q])
      BY <1>6, <3>2
    <3>3. CASE x2'[q] = x2[q]
      BY <2>3, <3>3
    <3> QED BY <2>1, <3>1, <3>2, <3>3
  <2> QED BY <1>2, <2>4
<1>8. \A q \in Screens!ToSet(rest) : q \in Three /\ q # s /\ x2'[q] = x2[q] /\ x3'[q] = x3[q]
  BY <1>1, <1>2, <1>3, <1>4, ScreensFacts DEF ScreensTyped
<1>9. x3' \in [Three -> {"away", "first", "reading", "gone"}] /\ x3'[s] = "first"
  BY <1>1, <1>2 DEF ScreensTyped
<1>10. ScreensTyped'
  BY <1>1, <1>2, <1>5, <1>7, <1>9 DEF ScreensTyped
<1>11. KnownIsThere'
  BY <1>2, <1>4, <1>5, <1>8, <1>9, ScreensFacts DEF KnownIsThere
<1>12. Screens!ChangeIsNoticed'
  <2> SUFFICES ASSUME NEW q \in Screens!ToSet(x1'), x3'[q] = "reading", q \in x4'
               PROVE  Screens!Waiting(q)' \/ x2'[q] # <<>>
    BY DEF Screens!ChangeIsNoticed
  <2>1. q \in Screens!ToSet(rest) /\ q \in Screens!ToSet(x1)
    BY <1>4, <1>5, <1>9
  <2>2. Screens!Waiting(q) \/ x2[q] # <<>>
    BY <1>2, <1>8, <2>1, ScreensFacts
  <2>3. Screens!Waiting(q)' <=> Screens!Waiting(q)
    BY <1>2 DEF Screens!Waiting
  <2> QED BY <1>8, <2>1, <2>2, <2>3
<1> QED BY <1>10, <1>11, <1>12 DEF ScreensInv

\* A notifier puts a notice into the next queue, or drops it.
LEMMA NotifierPuts ==
    ASSUME ScreensInv, NEW n \in Request, Screens!Put(n)
    PROVE  ScreensInv'
<1>1. ScreensTyped
  BY DEF ScreensInv
<1>2. PICK s : s = Head(x5[n].left)
  OBVIOUS
<1>3. x7 = n /\ x5[n].left # <<>> /\ UNCHANGED <<x3, x4, x7, x8>>
  BY DEF Screens!Put
<1>4. x5[n].left \in Seq(Three) /\ x5[n].at = "put"
  BY <1>1, <1>3, ScreensFacts DEF ScreensTyped, NotifierRow
<1>5. s \in Three /\ Tail(x5[n].left) \in Seq(Three)
      /\ Screens!ToSet(x5[n].left) = Screens!ToSet(Tail(x5[n].left)) \cup {s}
  BY <1>2, <1>3, <1>4, FirstTaken
<1>6. x2[s] \in Seq(Screens!Notice) /\ Len(x2[s]) <= QueueSize /\ QueueSize \in Nat /\ Len(x2[s]) \in Nat
      /\ "changed" \in Screens!Notice
  BY <1>1, <1>5, ScreensFacts DEF ScreensTyped, Screens!Notice
\* The queue was found full: nothing but that is known.
<1>7. CASE x6' = TRUE /\ UNCHANGED <<x1, x2, x5>>
  <2>1. ScreensTyped'
    BY <1>1, <1>3, <1>7 DEF ScreensTyped
  <2>2. KnownIsThere' /\ Screens!ChangeIsNoticed'
    BY <1>3, <1>7 DEF ScreensInv, KnownIsThere, Screens!ChangeIsNoticed, Screens!Waiting
  <2> QED BY <2>1, <2>2 DEF ScreensInv
\* The screen is served, or known no more.
<1>8. ASSUME Screens!PassOn(n),
             x1' \in Seq(Three), Screens!IsInjective(x1'), Screens!ToSet(x1') \subseteq Screens!ToSet(x1),
             NEW q1 \in Seq(Screens!Notice), Len(q1) <= QueueSize, x2' = [x2 EXCEPT ![s] = q1],
             s \in Screens!ToSet(x1') => q1 # <<>>
      PROVE  ScreensInv'
  <2>1. x6' = FALSE /\ x5' = [x5 EXCEPT ![n].left = Tail(@)]
    BY <1>8 DEF Screens!PassOn
  <2>2. /\ x5' \in [Request -> NotifierRow] /\ x5'[n].at = "put" /\ x5'[n].left = Tail(x5[n].left)
        /\ \A m \in Request \ {n} : x5'[m] = x5[m]
    BY <1>1, <1>4, <1>5, <2>1 DEF ScreensTyped, NotifierRow
  <2>3. x2' \in [Three -> Seq(Screens!Notice)] /\ \A q \in Three : x2'[q] = IF q = s THEN q1 ELSE x2[q]
    BY <1>1, <1>8 DEF ScreensTyped
  <2>4. \A q \in Three : Len(x2'[q]) <= QueueSize
    BY <1>1, <1>8, <2>3 DEF ScreensTyped
  <2>5. x6' \in BOOLEAN
    BY <2>1
  <2>6. ScreensTyped'
    BY <1>1, <1>3, <1>8, <2>2, <2>3, <2>4, <2>5 DEF ScreensTyped
  <2>7. KnownIsThere'
    BY <1>3, <1>8, <2>2, ScreensFacts DEF KnownIsThere
  <2>8. Screens!ChangeIsNoticed'
    <3> SUFFICES ASSUME NEW q \in Screens!ToSet(x1'), x3'[q] = "reading", q \in x4'
                 PROVE  Screens!Waiting(q)' \/ x2'[q] # <<>>
      BY DEF Screens!ChangeIsNoticed
    <3>1. q \in Screens!ToSet(x1) /\ q \in Three
      BY <1>8, ScreensFacts
    <3>2. CASE q = s
      BY <1>8, <2>3, <3>1, <3>2
    <3>3. CASE q # s
      <4>1. Screens!Waiting(q) \/ x2[q] # <<>>
        BY <1>3, <3>1, ScreensFacts
      <4>2. Screens!Waiting(q) => Screens!Waiting(q)'
        <5> SUFFICES ASSUME NEW m \in Request, x5[m].at = "notify" \/ q \in Screens!ToSet(x5[m].left)
                     PROVE  x5'[m].at = "notify" \/ q \in Screens!ToSet(x5'[m].left)
          BY DEF Screens!Waiting
        <5> QED BY <1>4, <1>5, <2>2, <3>3
      <4> QED BY <2>3, <3>1, <3>3, <4>1, <4>2
    <3> QED BY <3>2, <3>3
  <2> QED BY <2>6, <2>7, <2>8 DEF ScreensInv
<1>9. CASE /\ ~x6 /\ Len(x2[s]) < QueueSize /\ x2' = [x2 EXCEPT ![s] = Append(@, "changed")]
           /\ Screens!PassOn(n) /\ UNCHANGED x1
  <2>1. PICK q1 : q1 = Append(x2[s], "changed")
    OBVIOUS
  <2>2. q1 \in Seq(Screens!Notice) /\ Len(q1) <= QueueSize /\ q1 # <<>>
    BY <1>6, <1>9, <2>1, LastPut
  <2>3. x2' = [x2 EXCEPT ![s] = q1] /\ x1' = x1
    BY <1>9, <2>1
  <2>4. x1' \in Seq(Three) /\ Screens!IsInjective(x1')
    BY <1>1, <2>3 DEF ScreensTyped
  <2> QED BY <1>8, <1>9, <2>2, <2>3, <2>4
<1>10. CASE /\ x2[s] # <<>> /\ x2' = [x2 EXCEPT ![s] = Append(Tail(@), "changed")]
            /\ Screens!PassOn(n) /\ UNCHANGED x1
  <2>1. PICK q1 : q1 = Append(Tail(x2[s]), "changed")
    OBVIOUS
  <2>2. q1 \in Seq(Screens!Notice) /\ Len(q1) <= QueueSize /\ q1 # <<>>
    <3>1. Tail(x2[s]) \in Seq(Screens!Notice) /\ Len(Tail(x2[s])) = Len(x2[s]) - 1
      BY <1>6, <1>10, FirstTaken
    <3>2. q1 \in Seq(Screens!Notice) /\ Len(q1) = Len(Tail(x2[s])) + 1 /\ q1 # <<>>
      BY <1>6, <2>1, <3>1, LastPut
    <3> QED BY <1>6, <3>1, <3>2
  <2>3. x2' = [x2 EXCEPT ![s] = q1] /\ x1' = x1
    BY <1>10, <2>1
  <2>4. x1' \in Seq(Three) /\ Screens!IsInjective(x1')
    BY <1>1, <2>3 DEF ScreensTyped
  <2> QED BY <1>8, <1>10, <2>2, <2>3, <2>4
<1>11. CASE x1' = Screens!Forget(s) /\ Screens!PassOn(n) /\ UNCHANGED x2
  <2>1. /\ x1' \in Seq(Three) /\ Screens!IsInjective(x1') /\ Screens!ToSet(x1') \subseteq Screens!ToSet(x1)
        /\ s \notin Screens!ToSet(x1')
    BY <1>5, <1>11, Forgotten
  <2>2. PICK q1 : q1 = x2[s]
    OBVIOUS
  <2>3. x2' = [x2 EXCEPT ![s] = q1] /\ q1 \in Seq(Screens!Notice) /\ Len(q1) <= QueueSize
    BY <1>1, <1>6, <1>11, <2>2 DEF ScreensTyped
  <2> QED BY <1>8, <1>11, <2>1, <2>3
<1>12. \/ x6' = TRUE /\ UNCHANGED <<x1, x2, x5>>
       \/ /\ ~x6 /\ Len(x2[s]) < QueueSize /\ x2' = [x2 EXCEPT ![s] = Append(@, "changed")]
          /\ Screens!PassOn(n) /\ UNCHANGED x1
       \/ x2[s] # <<>> /\ Screens!MakeRoom(n, s)
       \/ x1' = Screens!Forget(s) /\ Screens!PassOn(n) /\ UNCHANGED x2
  <2>1. \/ ~x6 /\ Len(x2[s]) < QueueSize
        \/ ~x6 /\ Len(x2[s]) = QueueSize
        \/ x6 /\ x2[s] # <<>>
        \/ x6 /\ x2[s] = <<>>
    BY <1>1, <1>6 DEF ScreensTyped
  <2> QED BY <1>2, <2>1 DEF Screens!Put
<1> QED BY <1>7, <1>9, <1>10, <1>11, <1>12 DEF Screens!MakeRoom

\* Every step of the live updates keeps it.
LEMMA ScreensNext ==
    ASSUME ScreensInv, Screens!Next
    PROVE  ScreensInv'
<1>1. ScreensTyped
  BY DEF ScreensInv
<1>2. ASSUME NEW n \in Request, Screens!Commit(n) PROVE ScreensInv'
  <2>1. /\ x5[n] = Screens!Resting /\ x8 < MaxChange /\ x8' = x8 + 1 /\ x4' \subseteq Three
        /\ x5' = [x5 EXCEPT ![n].at = "notify"] /\ UNCHANGED <<x1, x2, x3, x6, x7>>
    BY <1>2 DEF Screens!Commit
  <2>2. x5' \in [Request -> NotifierRow] /\ x5'[n].at = "notify" /\ \A m \in Request \ {n} : x5'[m] = x5[m]
    BY <1>1, <2>1 DEF ScreensTyped, NotifierRow
  <2>3. ScreensTyped'
    BY <1>1, <2>1, <2>2, ScreensFacts DEF ScreensTyped
  <2>4. x5[n].at = "rest"
    BY <2>1 DEF Screens!Resting
  <2>5. KnownIsThere'
    BY <2>1, <2>2, <2>4, ScreensFacts DEF KnownIsThere
  <2>6. Screens!ChangeIsNoticed'
    BY <2>2 DEF Screens!ChangeIsNoticed, Screens!Waiting
  <2> QED BY <2>3, <2>5, <2>6 DEF ScreensInv
<1>3. ASSUME NEW n \in Request, Screens!Fanout(n) PROVE ScreensInv'
  <2>1. PICK r : r = [at |-> "put", left |-> x1]
    OBVIOUS
  <2>2. /\ x7 = Vacant /\ x7' = n /\ x5' = [x5 EXCEPT ![n] = r] /\ UNCHANGED <<x1, x2, x3, x4, x6, x8>>
    BY <1>3, <2>1 DEF Screens!Fanout
  <2>3. r \in NotifierRow /\ r.at = "put" /\ r.left = x1
    BY <1>1, <2>1 DEF ScreensTyped, NotifierRow
  <2>4. x5' \in [Request -> NotifierRow] /\ \A m \in Request : x5'[m] = IF m = n THEN r ELSE x5[m]
    BY <1>1, <2>2, <2>3 DEF ScreensTyped
  <2>5. ScreensTyped'
    BY <1>1, <2>2, <2>4 DEF ScreensTyped
  <2>6. KnownIsThere'
    BY <2>2, <2>3, <2>4, ScreensFacts DEF KnownIsThere
  <2>7. Screens!ChangeIsNoticed'
    BY <2>2, <2>3, <2>4 DEF Screens!ChangeIsNoticed, Screens!Waiting
  <2> QED BY <2>5, <2>6, <2>7 DEF ScreensInv
<1>4. ASSUME NEW n \in Request, Screens!Release(n) PROVE ScreensInv'
  <2>1. /\ x7 = n /\ x5[n].left = <<>> /\ x7' = Vacant /\ x5' = [x5 EXCEPT ![n] = Screens!Resting]
        /\ UNCHANGED <<x1, x2, x3, x4, x6, x8>>
    BY <1>4 DEF Screens!Release
  <2>2. Screens!Resting \in NotifierRow
    BY DEF Screens!Resting, NotifierRow
  <2>3. x5' \in [Request -> NotifierRow] /\ \A m \in Request \ {n} : x5'[m] = x5[m]
    BY <1>1, <2>1, <2>2 DEF ScreensTyped
  <2>4. ScreensTyped'
    BY <1>1, <2>1, <2>3 DEF ScreensTyped
  <2>5. KnownIsThere'
    BY <2>1, NobodyAssumption, ScreensFacts DEF KnownIsThere
  <2>6. x5[n].at = "put" /\ Screens!ToSet(x5[n].left) = {}
    BY <2>1, ScreensFacts DEF Screens!ToSet
  <2>7. \A s : Screens!Waiting(s) => Screens!Waiting(s)'
    BY <2>3, <2>6 DEF Screens!Waiting
  <2>8. Screens!ChangeIsNoticed'
    BY <2>1, <2>7 DEF ScreensInv, Screens!ChangeIsNoticed
  <2> QED BY <2>4, <2>5, <2>8 DEF ScreensInv
<1> QED BY <1>2, <1>3, <1>4, ScreenActs, ScreenSubscribes, NotifierPuts DEF Screens!Next

-----------------------------------------------------------------------------
\* All of them.

OnceInv ==
    /\ part = "together" => TogetherInv
    /\ part = "telling" => TellingInv
    /\ part = "printer" => PrinterInv
    /\ part = "stations" => StationsInv
    /\ part = "jobs" => JobsInv
    /\ part = "platform" => PlatformInv
    /\ part = "drivers" => DriversInv
    /\ part = "screens" => ScreensInv
    /\ part = "mailing" => MailingInv

LEMMA OnceInit == Init => OnceInv
<1> SUFFICES ASSUME Init PROVE OnceInv
  OBVIOUS
<1>1. /\ part = "together" => Together!Init
      /\ part = "telling" => Telling!Init
      /\ part = "printer" => Printer!Init
      /\ part = "stations" => Stations!Init
      /\ part = "jobs" => Jobs!Init
      /\ part = "platform" => Platform!Init
      /\ part = "drivers" => Drivers!Init
      /\ part = "screens" => Screens!Init
      /\ part = "mailing" => Mailing!Init
  BY DEF Init
<1> QED BY <1>1, TogetherInit, TellingInit, PrinterInit, StationsInit, JobsInit, PlatformInit,
           DriversInit, ScreensInit, MailingInit DEF OnceInv

LEMMA OnceNext == OnceInv /\ Next => OnceInv'
<1> SUFFICES ASSUME OnceInv, Next PROVE OnceInv'
  OBVIOUS
<1>1. /\ part' = part
      /\ part = "together" => Together!Next
      /\ part = "telling" => Telling!Next
      /\ part = "printer" => Printer!Next
      /\ part = "stations" => Stations!Next
      /\ part = "jobs" => Jobs!Next
      /\ part = "platform" => Platform!Next
      /\ part = "drivers" => Drivers!Next
      /\ part = "screens" => Screens!Next
      /\ part = "mailing" => Mailing!Next
  BY DEF Next
<1> QED BY <1>1, TogetherNext, TellingNext, PrinterNext, StationsNext, JobsNext, PlatformNext,
           DriversNext, ScreensNext, MailingNext DEF OnceInv

LEMMA OnceStays == OnceInv /\ UNCHANGED all => OnceInv'
<1> SUFFICES ASSUME OnceInv, UNCHANGED all PROVE OnceInv'
  OBVIOUS
<1>1. /\ part' = part /\ x1' = x1 /\ x2' = x2 /\ x3' = x3 /\ x4' = x4 /\ x5' = x5 /\ x6' = x6
      /\ x7' = x7 /\ x8' = x8 /\ x9' = x9 /\ x10' = x10 /\ x11' = x11
  BY DEF all
<1>2. TogetherInv => TogetherInv'
  BY <1>1 DEF TogetherInv, Together!TypeOK, Together!EveryoneOrdered
<1>3. TellingInv => TellingInv'
  BY <1>1 DEF TellingInv, Telling!TypeOK, Behind, QueueSeen, AttemptLeft, Shown
<1>4. PrinterInv => PrinterInv'
  BY <1>1 DEF PrinterInv, Printer!TypeOK, CopiesAsked, SendingNow, Waits, Printer!InHand
<1>5. StationsInv => StationsInv'
  BY <1>1 DEF StationsInv, Stations!TypeOK, Stations!LastCompletes, Stations!ReadyOnce
<1>6. JobsInv => JobsInv'
  BY <1>1 DEF JobsInv, Jobs!TypeOK, LeaseHeld, RanIsMarked, Jobs!Working
<1>7. PlatformInv => PlatformInv'
  BY <1>1 DEF PlatformInv, Platform!TypeOK, Platform!OneOrder, Platform!AcceptedIsMade
<1>8. DriversInv => DriversInv'
  BY <1>1 DEF DriversInv, Drivers!TypeOK, Drivers!LinkIsDrivers, Drivers!DeliveredIsOver, Linked
<1>9. ScreensInv => ScreensInv'
  BY <1>1 DEF ScreensInv, ScreensTyped, KnownIsThere, Screens!ChangeIsNoticed, Screens!Waiting
<1>10. MailingInv => MailingInv'
  BY <1>1 DEF MailingInv, Mailing!TypeOK, OneRun, Reaching
<1> QED BY <1>1, <1>2, <1>3, <1>4, <1>5, <1>6, <1>7, <1>8, <1>9, <1>10 DEF OnceInv

\* Whatever the requests, the processes and the guests do, a group's order has everybody's
\* dishes, an event is told of once, a ticket is printed as asked for, a platform's order is
\* made once, a screen that is behind finds a notice and a campaign reaches nobody twice
\* (group_orders, webhooks, print_service, platform_hub, event_bus, campaigns).
THEOREM OnceEachHolds == Spec => []OnceEach
<1>1. OnceInv /\ [Next]_all => OnceInv'
  BY OnceNext, OnceStays
<1>2. OnceInv => OnceEach
  BY TellingHolds, PrinterHolds, JobsHolds, ScreensHolds, MailingHolds
     DEF OnceInv, OnceEach, TogetherInv, TellingInv, PrinterInv, StationsInv, JobsInv, PlatformInv,
         DriversInv, ScreensInv, MailingInv
<1> QED BY OnceInit, <1>1, <1>2, PTL DEF Spec

-----------------------------------------------------------------------------
\* Sums over finite sets.

\* Of the sets in a finite set's power set some are least.
LEMMA FiniteLeast ==
    ASSUME NEW S, IsFiniteSet(S), NEW T \in SUBSET (SUBSET S), T # {}
    PROVE  \E u \in T : \A v \in T : v \subseteq u => v = u
<1>1. IsWellFoundedOn(StrictSubsetOrdering(S), SUBSET S)
  BY FS_StrictSubsetOrderingWellFounded, FS_FiniteSubsetsOfFinite
<1>2. \E u \in T : \A v \in T : <<v, u>> \notin StrictSubsetOrdering(S)
  BY <1>1, WFMin
<1> QED BY <1>2 DEF StrictSubsetOrdering

Sum(f, S) == MapThenSumSet(LAMBDA x : f[x], S)

\* The element that is added next, and the function that adds up the subsets of S.
Pick(s) == CHOOSE y \in s : TRUE
Adds(f, g, S) == g = [s \in SUBSET S |-> IF s = {} THEN 0 ELSE f[Pick(s)] + g[s \ {Pick(s)}]]

LEMMA SumAdds == ASSUME NEW f, NEW S PROVE Sum(f, S) = (CHOOSE g : Adds(f, g, S))[S]
  BY DEF Sum, MapThenSumSet, MapThenFoldSet, Adds, Pick

LEMMA PickIn == ASSUME NEW s, s # {} PROVE Pick(s) \in s
  BY DEF Pick

LEMMA AddsAt ==
    ASSUME NEW f, NEW g, NEW S, Adds(f, g, S), NEW s \in SUBSET S
    PROVE  g[s] = IF s = {} THEN 0 ELSE f[Pick(s)] + g[s \ {Pick(s)}]
<1> DEFINE F(h, x) == IF x = {} THEN 0 ELSE f[Pick(x)] + h[x \ {Pick(x)}]
<1>1. g = [x \in SUBSET S |-> F(g, x)]
  BY DEF Adds
<1> HIDE DEF F
<1>2. g[s] = F(g, s)
  BY <1>1
<1> QED BY <1>2 DEF F

LEMMA AddsDown ==
    ASSUME NEW f, NEW g, NEW S, Adds(f, g, S), NEW T \in SUBSET S
    PROVE  Adds(f, [s \in SUBSET T |-> g[s]], T)
<1> DEFINE h == [s \in SUBSET T |-> g[s]]
<1>1. \A s \in SUBSET T : h[s] = IF s = {} THEN 0 ELSE f[Pick(s)] + h[s \ {Pick(s)}]
  <2> TAKE s \in SUBSET T
  <2>1. s \in SUBSET S /\ s \ {Pick(s)} \in SUBSET T
    OBVIOUS
  <2>2. h[s] = g[s] /\ h[s \ {Pick(s)}] = g[s \ {Pick(s)}]
    BY <2>1
  <2> QED BY <2>1, <2>2, AddsAt
<1>2. h = [s \in SUBSET T |-> h[s]]
  OBVIOUS
<1> HIDE DEF h
<1>3. h = [s \in SUBSET T |-> IF s = {} THEN 0 ELSE f[Pick(s)] + h[s \ {Pick(s)}]]
  BY <1>1, <1>2
<1> QED BY <1>3 DEF Adds, h

LEMMA AddsOnce ==
    ASSUME NEW f, NEW g, NEW h, NEW S, IsFiniteSet(S), Adds(f, g, S), Adds(f, h, S)
    PROVE  \A s \in SUBSET S : g[s] = h[s]
<1> SUFFICES ASSUME ~\A s \in SUBSET S : g[s] = h[s] PROVE FALSE
  OBVIOUS
<1>0. PICK T : T = {s \in SUBSET S : g[s] # h[s]}
  OBVIOUS
<1>a. T \in SUBSET (SUBSET S) /\ T # {}
  BY <1>0
<1>1. PICK u \in T : \A v \in T : v \subseteq u => v = u
  BY <1>a, FiniteLeast
<1>2. u \in SUBSET S /\ g[u] # h[u]
  BY <1>0
<1>3. u # {}
  BY <1>2, AddsAt
<1>4. Pick(u) \in u
  BY <1>3, PickIn
<1>5. g[u \ {Pick(u)}] = h[u \ {Pick(u)}]
  BY <1>0, <1>1, <1>2, <1>4
<1> QED BY <1>2, <1>3, <1>5, AddsAt

LEMMA AddsExists ==
    ASSUME NEW f, NEW S, IsFiniteSet(S)
    PROVE  \E g : Adds(f, g, S)
<1> SUFFICES ASSUME ~\E g : Adds(f, g, S) PROVE FALSE
  OBVIOUS
<1>0. PICK T : T = {s \in SUBSET S : ~\E g : Adds(f, g, s)}
  OBVIOUS
<1>a. T \in SUBSET (SUBSET S) /\ T # {}
  BY <1>0
<1>1. PICK u \in T : \A v \in T : v \subseteq u => v = u
  BY <1>a, FiniteLeast
<1> DEFINE A(t) == CHOOSE g : Adds(f, g, t)
           rest(s) == s \ {Pick(s)}
           G == [s \in SUBSET u |-> IF s = {} THEN 0 ELSE f[Pick(s)] + A(rest(s))[rest(s)]]
<1>2. u \in SUBSET S /\ ~\E g : Adds(f, g, u)
  BY <1>0
<1>3. \A t \in SUBSET u : t # u => Adds(f, A(t), t)
  BY <1>0, <1>1, <1>2
<1>4. \A s \in SUBSET u : s # {} => rest(s) \in SUBSET u /\ rest(s) # u /\ rest(s) # s
  BY PickIn
<1>5. ASSUME NEW t \in SUBSET u, t # u PROVE G[t] = A(t)[t]
  <2>1. CASE t = {}
    <3>1. A(t)[t] = 0
      BY <1>3, <1>5, <2>1, AddsAt
    <3> QED BY <2>1, <3>1
  <2>2. CASE t # {}
    <3>1. A(t)[t] = f[Pick(t)] + A(t)[rest(t)]
      BY <1>3, <1>5, <2>2, AddsAt
    <3>2. rest(t) \in SUBSET t /\ rest(t) \in SUBSET u /\ rest(t) # u
      BY <1>4, <2>2
    <3>3. IsFiniteSet(rest(t))
      BY <1>2, <3>2, FS_Subset
    <3>4. PICK h : h = [s \in SUBSET rest(t) |-> A(t)[s]]
      OBVIOUS
    <3>5. Adds(f, h, rest(t))
      BY <1>3, <1>5, <3>2, <3>4, AddsDown
    <3>6. Adds(f, A(rest(t)), rest(t))
      BY <1>3, <3>2
    <3>7. h[rest(t)] = A(rest(t))[rest(t)]
      BY <3>3, <3>5, <3>6, AddsOnce
    <3>8. G[t] = f[Pick(t)] + A(rest(t))[rest(t)]
      BY <2>2
    <3> QED BY <3>1, <3>4, <3>7, <3>8
  <2> QED BY <2>1, <2>2
<1>6. \A s \in SUBSET u : G[s] = IF s = {} THEN 0 ELSE f[Pick(s)] + G[rest(s)]
  <2> TAKE s \in SUBSET u
  <2>1. CASE s = {}
    BY <2>1
  <2>2. CASE s # {}
    <3>1. G[s] = f[Pick(s)] + A(rest(s))[rest(s)]
      BY <2>2
    <3>2. G[rest(s)] = A(rest(s))[rest(s)]
      BY <1>4, <1>5, <2>2
    <3> QED BY <2>2, <3>1, <3>2
  <2> QED BY <2>1, <2>2
<1>7. G = [s \in SUBSET u |-> G[s]]
  OBVIOUS
<1> HIDE DEF G
<1>8. Adds(f, G, u)
  BY <1>6, <1>7 DEF Adds
<1> QED BY <1>2, <1>8

\* Nothing adds up to nothing, and a sum is one of its terms and the sum of the others.
LEMMA SumStep ==
    ASSUME NEW f, NEW S, IsFiniteSet(S)
    PROVE  Sum(f, S) = IF S = {} THEN 0 ELSE f[Pick(S)] + Sum(f, S \ {Pick(S)})
<1>1. PICK g : g = CHOOSE h : Adds(f, h, S)
  OBVIOUS
<1>2. Adds(f, g, S)
  BY <1>1, AddsExists
<1>3. Sum(f, S) = g[S]
  BY <1>1, SumAdds
<1>4. PICK T : T = S \ {Pick(S)}
  OBVIOUS
<1>5. T \in SUBSET S /\ IsFiniteSet(T)
  BY <1>4, FS_Subset
<1>6. Sum(f, T) = g[T]
  <2>1. PICK h : h = CHOOSE k : Adds(f, k, T)
    OBVIOUS
  <2>2. Adds(f, h, T) /\ Sum(f, T) = h[T]
    BY <1>5, <2>1, AddsExists, SumAdds
  <2>3. PICK k : k = [s \in SUBSET T |-> g[s]]
    OBVIOUS
  <2>4. Adds(f, k, T)
    BY <1>2, <1>5, <2>3, AddsDown
  <2>5. k[T] = h[T]
    BY <1>5, <2>2, <2>4, AddsOnce
  <2> QED BY <2>2, <2>3, <2>5
<1> QED BY <1>2, <1>3, <1>4, <1>6, AddsAt

LEMMA SumEmpty == ASSUME NEW f PROVE Sum(f, {}) = 0
<1>1. IsFiniteSet({})
  BY FS_EmptySet
<1> QED BY <1>1, SumStep

\* A sum of integers is one, and one of natural numbers is none below zero.
LEMMA SumInt ==
    ASSUME NEW S, IsFiniteSet(S), NEW f, \A x \in S : f[x] \in Int
    PROVE  Sum(f, S) \in Int
<1> SUFFICES ASSUME Sum(f, S) \notin Int PROVE FALSE
  OBVIOUS
<1>0. PICK T : T = {s \in SUBSET S : Sum(f, s) \notin Int}
  OBVIOUS
<1>a. T \in SUBSET (SUBSET S) /\ T # {}
  BY <1>0
<1>1. PICK u \in T : \A v \in T : v \subseteq u => v = u
  BY <1>a, FiniteLeast
<1>2. u \in SUBSET S /\ IsFiniteSet(u) /\ Sum(f, u) \notin Int
  BY <1>0, FS_Subset
<1>3. u # {}
  <2>1. Sum(f, {}) = 0
    BY SumEmpty
  <2> QED BY <1>2, <2>1
<1>4. Pick(u) \in u
  BY <1>3, PickIn
<1>5. Sum(f, u \ {Pick(u)}) \in Int
  BY <1>0, <1>1, <1>2, <1>4
<1> QED BY <1>2, <1>3, <1>4, <1>5, SumStep

LEMMA SumNat ==
    ASSUME NEW S, IsFiniteSet(S), NEW f, \A x \in S : f[x] \in Nat
    PROVE  Sum(f, S) \in Nat
<1> SUFFICES ASSUME Sum(f, S) \notin Nat PROVE FALSE
  OBVIOUS
<1>0. PICK T : T = {s \in SUBSET S : Sum(f, s) \notin Nat}
  OBVIOUS
<1>a. T \in SUBSET (SUBSET S) /\ T # {}
  BY <1>0
<1>1. PICK u \in T : \A v \in T : v \subseteq u => v = u
  BY <1>a, FiniteLeast
<1>2. u \in SUBSET S /\ IsFiniteSet(u) /\ Sum(f, u) \notin Nat
  BY <1>0, FS_Subset
<1>3. u # {}
  <2>1. Sum(f, {}) = 0
    BY SumEmpty
  <2> QED BY <1>2, <2>1
<1>4. Pick(u) \in u
  BY <1>3, PickIn
<1>5. Sum(f, u \ {Pick(u)}) \in Nat
  BY <1>0, <1>1, <1>2, <1>4
<1> QED BY <1>2, <1>3, <1>4, <1>5, SumStep

\* Functions that agree have the same sum.
LEMMA SumSame ==
    ASSUME NEW S, IsFiniteSet(S), NEW f, NEW g, \A x \in S : f[x] = g[x]
    PROVE  Sum(f, S) = Sum(g, S)
<1> SUFFICES ASSUME Sum(f, S) # Sum(g, S) PROVE FALSE
  OBVIOUS
<1>0. PICK T : T = {s \in SUBSET S : Sum(f, s) # Sum(g, s)}
  OBVIOUS
<1>a. T \in SUBSET (SUBSET S) /\ T # {}
  BY <1>0
<1>1. PICK u \in T : \A v \in T : v \subseteq u => v = u
  BY <1>a, FiniteLeast
<1>2. u \in SUBSET S /\ IsFiniteSet(u) /\ Sum(f, u) # Sum(g, u)
  BY <1>0, FS_Subset
<1>3. u # {}
  <2>1. Sum(f, {}) = 0 /\ Sum(g, {}) = 0
    BY SumEmpty
  <2> QED BY <1>2, <2>1
<1>4. Pick(u) \in u
  BY <1>3, PickIn
<1>5. Sum(f, u \ {Pick(u)}) = Sum(g, u \ {Pick(u)})
  BY <1>0, <1>1, <1>2, <1>4
<1> QED BY <1>2, <1>3, <1>4, <1>5, SumStep

\* Any one of the terms can be taken out.
LEMMA SumTake ==
    ASSUME NEW S, IsFiniteSet(S), NEW f, \A x \in S : f[x] \in Int, NEW y \in S
    PROVE  Sum(f, S) = f[y] + Sum(f, S \ {y})
<1> SUFFICES ASSUME Sum(f, S) # f[y] + Sum(f, S \ {y}) PROVE FALSE
  OBVIOUS
<1> DEFINE Good(s) == \A z \in s : Sum(f, s) = f[z] + Sum(f, s \ {z})
<1>0. PICK T : T = {s \in SUBSET S : ~Good(s)}
  OBVIOUS
<1>a. T \in SUBSET (SUBSET S) /\ T # {}
  <2>1. S \in T
    BY <1>0
  <2> QED BY <1>0, <2>1
<1>1. PICK u \in T : \A v \in T : v \subseteq u => v = u
  BY <1>a, FiniteLeast
<1>2. u \in SUBSET S /\ IsFiniteSet(u) /\ ~Good(u)
  BY <1>0, FS_Subset
<1>3. PICK z \in u : Sum(f, u) # f[z] + Sum(f, u \ {z})
  BY <1>2
<1>4. PICK p : p = Pick(u)
  OBVIOUS
<1>5. p \in u /\ Sum(f, u) = f[p] + Sum(f, u \ {p})
  BY <1>2, <1>3, <1>4, PickIn, SumStep
<1>6. p # z
  BY <1>3, <1>5
<1>7. Good(u \ {p}) /\ Good(u \ {z})
  <2>1. u \ {p} \in SUBSET S /\ u \ {z} \in SUBSET S
    BY <1>2
  <2>2. u \ {p} # u /\ u \ {z} # u
    BY <1>3, <1>5
  <2>3. u \ {p} \notin T /\ u \ {z} \notin T
    BY <1>1, <2>2
  <2> HIDE DEF Good
  <2> QED BY <1>0, <2>1, <2>3
<1>8. PICK w : w = (u \ {p}) \ {z}
  OBVIOUS
<1>9. w = (u \ {z}) \ {p} /\ w \in SUBSET S /\ IsFiniteSet(w)
  <2>1. w \in SUBSET u
    BY <1>8
  <2>2. IsFiniteSet(w)
    BY <1>2, <2>1, FS_Subset
  <2> QED BY <1>2, <1>8, <2>1, <2>2
<1>10. Sum(f, u \ {p}) = f[z] + Sum(f, w)
  BY <1>3, <1>6, <1>7, <1>8
<1>11. Sum(f, u \ {z}) = f[p] + Sum(f, w)
  BY <1>5, <1>6, <1>7, <1>9
<1>12. Sum(f, w) \in Int /\ f[p] \in Int /\ f[z] \in Int
  BY <1>2, <1>3, <1>5, <1>9, SumInt
<1> QED BY <1>3, <1>5, <1>10, <1>11, <1>12

\* Of a function that changes at one place, the sum changes as that term does.
LEMMA SumChange ==
    ASSUME NEW S, IsFiniteSet(S), NEW f, \A x \in S : f[x] \in Int, NEW y \in S,
           NEW g, g[y] \in Int, \A x \in S : x # y => g[x] = f[x]
    PROVE  Sum(g, S) = Sum(f, S) - f[y] + g[y]
<1>1. IsFiniteSet(S \ {y}) /\ \A x \in S : g[x] \in Int
  BY FS_Subset
<1>2. Sum(f, S) = f[y] + Sum(f, S \ {y}) /\ Sum(g, S) = g[y] + Sum(g, S \ {y})
  BY <1>1, SumTake
<1>3. Sum(f, S \ {y}) = Sum(g, S \ {y})
  BY <1>1, SumSame
<1>4. Sum(f, S \ {y}) \in Int
  BY <1>1, SumInt
<1> QED BY <1>2, <1>3, <1>4

\* What is none below zero adds up to no less than a part of it.
LEMMA SumTerm ==
    ASSUME NEW S, IsFiniteSet(S), NEW f, \A x \in S : f[x] \in Nat, NEW y \in S
    PROVE  f[y] <= Sum(f, S)
<1>1. IsFiniteSet(S \ {y})
  BY FS_Subset
<1>2. Sum(f, S) = f[y] + Sum(f, S \ {y}) /\ Sum(f, S \ {y}) \in Nat
  BY <1>1, SumTake, SumNat
<1> QED BY <1>2

LEMMA SumZero ==
    ASSUME NEW S, IsFiniteSet(S), NEW f, \A x \in S : f[x] = 0
    PROVE  Sum(f, S) = 0
<1> SUFFICES ASSUME Sum(f, S) # 0 PROVE FALSE
  OBVIOUS
<1>0. PICK T : T = {s \in SUBSET S : Sum(f, s) # 0}
  OBVIOUS
<1>a. T \in SUBSET (SUBSET S) /\ T # {}
  BY <1>0
<1>1. PICK u \in T : \A v \in T : v \subseteq u => v = u
  BY <1>a, FiniteLeast
<1>2. u \in SUBSET S /\ IsFiniteSet(u) /\ Sum(f, u) # 0
  BY <1>0, FS_Subset
<1>3. u # {}
  BY <1>2, SumEmpty
<1>4. Pick(u) \in u
  BY <1>3, PickIn
<1>5. Sum(f, u \ {Pick(u)}) = 0
  BY <1>0, <1>1, <1>2, <1>4
<1> QED BY <1>2, <1>3, <1>4, <1>5, SumStep

\* A finite set of integers that is not empty has a greatest and a least.
LEMMA MaxIn ==
    ASSUME NEW S, IsFiniteSet(S), S # {}, \A x \in S : x \in Int
    PROVE  Max(S) \in S /\ \A x \in S : Max(S) >= x
<1> SUFFICES ASSUME ~\E y \in S : \A x \in S : y >= x PROVE FALSE
  BY DEF Max
<1>0. PICK T : T = {s \in SUBSET S : s # {} /\ ~\E y \in s : \A x \in s : y >= x}
  OBVIOUS
<1>a. T \in SUBSET (SUBSET S) /\ T # {}
  <2>1. S \in T
    BY <1>0
  <2> QED BY <1>0, <2>1
<1>1. PICK u \in T : \A v \in T : v \subseteq u => v = u
  BY <1>a, FiniteLeast
<1>2. u \in SUBSET S /\ u # {} /\ ~\E y \in u : \A x \in u : y >= x
  BY <1>0
<1>3. PICK z \in u : TRUE
  BY <1>2
<1>4. u \ {z} # {}
  <2>1. z \in Int
    BY <1>2, <1>3
  <2>2. z >= z /\ z <= z
    BY <2>1
  <2> QED BY <1>2, <1>3, <2>2
<1>5. u \ {z} \in SUBSET S /\ u \ {z} \notin T
  BY <1>1, <1>2, <1>3
<1>6. PICK y \in u \ {z} : \A x \in u \ {z} : y >= x
  BY <1>0, <1>4, <1>5
<1>7. y \in Int /\ z \in Int /\ \A x \in u : x \in Int
  BY <1>2
<1>8. CASE y >= z
  BY <1>2, <1>6, <1>8
<1>9. CASE z >= y
  <2>1. \A x \in u : z >= x
    BY <1>6, <1>7, <1>9
  <2> QED BY <1>2, <1>3, <2>1
<1> QED BY <1>7, <1>8, <1>9

LEMMA MinIn ==
    ASSUME NEW S, IsFiniteSet(S), S # {}, \A x \in S : x \in Int
    PROVE  Min(S) \in S /\ \A x \in S : Min(S) <= x
<1> SUFFICES ASSUME ~\E y \in S : \A x \in S : y <= x PROVE FALSE
  BY DEF Min
<1>0. PICK T : T = {s \in SUBSET S : s # {} /\ ~\E y \in s : \A x \in s : y <= x}
  OBVIOUS
<1>a. T \in SUBSET (SUBSET S) /\ T # {}
  <2>1. S \in T
    BY <1>0
  <2> QED BY <1>0, <2>1
<1>1. PICK u \in T : \A v \in T : v \subseteq u => v = u
  BY <1>a, FiniteLeast
<1>2. u \in SUBSET S /\ u # {} /\ ~\E y \in u : \A x \in u : y <= x
  BY <1>0
<1>3. PICK z \in u : TRUE
  BY <1>2
<1>4. u \ {z} # {}
  <2>1. z \in Int
    BY <1>2, <1>3
  <2>2. z >= z /\ z <= z
    BY <2>1
  <2> QED BY <1>2, <1>3, <2>2
<1>5. u \ {z} \in SUBSET S /\ u \ {z} \notin T
  BY <1>1, <1>2, <1>3
<1>6. PICK y \in u \ {z} : \A x \in u \ {z} : y <= x
  BY <1>0, <1>4, <1>5
<1>7. y \in Int /\ z \in Int /\ \A x \in u : x \in Int
  BY <1>2
<1>8. CASE y <= z
  BY <1>2, <1>6, <1>8
<1>9. CASE z <= y
  <2>1. \A x \in u : z <= x
    BY <1>6, <1>7, <1>9
  <2> QED BY <1>2, <1>3, <2>1
<1> QED BY <1>7, <1>8, <1>9

AddsParties(b, g, S) == g = [s \in SUBSET S |-> IF s = {} THEN 0 ELSE b[Pick(s)].party + g[s \ {Pick(s)}]]

\* The parties of some reservations are added up as any numbers (Booking).
LEMMA PartiesAdded ==
    ASSUME NEW b, NEW S
    PROVE  (CHOOSE g : AddsParties(b, g, S))[S] = Sum([g \in S |-> b[g].party], S)
<1> DEFINE f == [g \in S |-> b[g].party]
<1>1. ASSUME NEW g PROVE AddsParties(b, g, S) <=> Adds(f, g, S)
  <2>1. \A s \in SUBSET S : s # {} => f[Pick(s)] = b[Pick(s)].party
    BY PickIn
  <2>2. [s \in SUBSET S |-> IF s = {} THEN 0 ELSE b[Pick(s)].party + g[s \ {Pick(s)}]]
      = [s \in SUBSET S |-> IF s = {} THEN 0 ELSE f[Pick(s)] + g[s \ {Pick(s)}]]
    <3> HIDE DEF f
    <3> QED BY <2>1
  <2> HIDE DEF f
  <2> QED BY <2>2 DEF Adds, AddsParties
<1>2. (CHOOSE g : AddsParties(b, g, S)) = (CHOOSE g : Adds(f, g, S))
  <2> HIDE DEF f
  <2> QED BY <1>1, Zenon
<1>3. Sum(f, S) = (CHOOSE g : Adds(f, g, S))[S]
  <2> HIDE DEF f
  <2> QED BY SumAdds
<1> QED BY <1>2, <1>3

-----------------------------------------------------------------------------
\* The orders a window takes (Intake).

\* The requests that have passed the check for a window.
Checked(slot) == {r \in Request : x3[r] = slot}

\* A window's orders and those about to come are hardly more than its limit.
TakingInv ==
    /\ Taking!TypeOK
    /\ \A slot \in Taking!Slot :
           x4[slot] + Cardinality(Checked(slot)) < MaxOrders + Cardinality(Request)

LEMMA CheckedFinite ==
    ASSUME NEW slot
    PROVE  IsFiniteSet(Checked(slot)) /\ Cardinality(Checked(slot)) \in 0..Cardinality(Request)
           /\ Cardinality(Request) \in Nat
<1>1. Checked(slot) \in SUBSET Request
  BY DEF Checked
<1> QED BY <1>1, FiniteAssumption, FS_Subset, FS_CardinalityType

LEMMA TakingInit == Taking!Init => TakingInv
<1> SUFFICES ASSUME Taking!Init PROVE TakingInv
  OBVIOUS
<1>1. MaxOrders \in Nat /\ MaxWindow \in Nat /\ MaxOffline \in Nat /\ MaxOrders > 0 /\ MaxWindow > 0
  BY IntakeAssumption
<1>2. 1 \in Taking!Window /\ 0 \in 0..MaxOffline /\ 0 \in 0..MaxWindow + 1
  BY <1>1 DEF Taking!Window
<1>3. x2 = [paused |-> FALSE, until |-> 0]
  BY DEF Taking!Init, Taking!NotPaused
<1>4. Taking!TypeOK
  BY <1>2, <1>3 DEF Taking!Init, Taking!TypeOK
<1>5. \A slot \in Taking!Slot : Checked(slot) = {}
  BY DEF Taking!Init, Checked, Taking!NoSlot, Taking!Slot, Taking!Kind
<1>6. Cardinality(Request) \in Nat /\ Cardinality({}) = 0
  BY FiniteAssumption, FS_CardinalityType, FS_EmptySet
<1>7. \A slot \in Taking!Slot : x4[slot] = 0
  BY DEF Taking!Init
<1> QED BY <1>1, <1>4, <1>5, <1>6, <1>7 DEF TakingInv

LEMMA TakingNext ==
    ASSUME TakingInv, Taking!Next
    PROVE  TakingInv'
<1>1. /\ x1 \in 1..MaxWindow /\ x2 \in [paused : BOOLEAN, until : 0..MaxWindow + 1]
      /\ x3 \in [Request -> Taking!Slot \cup {Taking!NoSlot}]
      /\ x4 \in [Taking!Slot -> Nat] /\ x5 \in [Taking!Slot -> 0..MaxOffline]
  BY DEF TakingInv, Taking!TypeOK, Taking!Window
<1>2. MaxOrders \in Nat /\ MaxWindow \in Nat /\ MaxOffline \in Nat /\ MaxOrders > 0
  BY IntakeAssumption
<1>3. Taking!NoSlot \notin Taking!Slot
  BY DEF Taking!NoSlot, Taking!Slot, Taking!Kind
<1>4. \A slot \in Taking!Slot :
          x4[slot] + Cardinality(Checked(slot)) < MaxOrders + Cardinality(Request)
  BY DEF TakingInv
\* What only touches the clock, the pause and the orders taken offline.
<1>5. ASSUME x1' \in 1..MaxWindow, x2' \in [paused : BOOLEAN, until : 0..MaxWindow + 1],
             x5' \in [Taking!Slot -> 0..MaxOffline], UNCHANGED <<x3, x4>>
      PROVE  TakingInv'
  BY <1>1, <1>5 DEF TakingInv, Taking!TypeOK, Taking!Window, Checked
<1>6. CASE Taking!Tick
  <2>1. x1' \in 1..MaxWindow
    BY <1>1, <1>2, <1>6 DEF Taking!Tick
  <2> QED BY <1>1, <1>5, <1>6, <2>1 DEF Taking!Tick
<1>7. CASE Taking!Resume
  <2>1. x2' \in [paused : BOOLEAN, until : 0..MaxWindow + 1]
    BY <1>2, <1>7 DEF Taking!Resume, Taking!NotPaused
  <2> QED BY <1>1, <1>5, <1>7, <2>1 DEF Taking!Resume
<1>8. CASE Taking!SendOffline
  <2>1. PICK slot : slot = <<"soon", x1>>
    OBVIOUS
  <2>2. slot \in Taking!Slot
    BY <1>1, <2>1 DEF Taking!Slot, Taking!Kind, Taking!Window
  <2>3. x5[slot] + 1 \in 0..MaxOffline /\ x5' = [x5 EXCEPT ![slot] = x5[slot] + 1]
    BY <1>1, <1>2, <1>8, <2>1, <2>2 DEF Taking!SendOffline
  <2>4. x5' \in [Taking!Slot -> 0..MaxOffline]
    BY <1>1, <2>3
  <2> QED BY <1>1, <1>5, <1>8, <2>4 DEF Taking!SendOffline
<1>9. ASSUME NEW minutes \in 0..MaxWindow, Taking!SetPaused(minutes) PROVE TakingInv'
  <2>1. PICK until : until = IF minutes = 0 THEN 0 ELSE x1 + minutes
    OBVIOUS
  <2>2. until \in 0..MaxWindow + 1
    BY <1>1, <1>2, <1>9, <2>1 DEF Taking!SetPaused
  <2>3. x2' = [paused |-> TRUE, until |-> until]
    BY <1>9, <2>1 DEF Taking!SetPaused
  <2>4. x2' \in [paused : BOOLEAN, until : 0..MaxWindow + 1]
    BY <2>2, <2>3
  <2> QED BY <1>1, <1>5, <1>9, <2>4 DEF Taking!SetPaused
\* What gives a request another window, or none.
<1>10. ASSUME NEW r \in Request, NEW to \in Taking!Slot \cup {Taking!NoSlot}, x3' = [x3 EXCEPT ![r] = to]
       PROVE  /\ x3' \in [Request -> Taking!Slot \cup {Taking!NoSlot}]
              /\ \A slot : x3[r] # slot /\ to # slot => Checked(slot)' = Checked(slot)
              /\ \A slot : x3[r] = slot /\ to # slot =>
                     Cardinality(Checked(slot)') = Cardinality(Checked(slot)) - 1
  <2>1. \A q \in Request : x3'[q] = IF q = r THEN to ELSE x3[q]
    BY <1>1, <1>10
  <2>2. \A slot : x3[r] = slot /\ to # slot => Checked(slot)' = Checked(slot) \ {r} /\ r \in Checked(slot)
    BY <2>1 DEF Checked
  <2>3. \A slot : x3[r] # slot /\ to # slot => Checked(slot)' = Checked(slot)
    BY <2>1 DEF Checked
  <2> QED BY <1>1, <1>10, <2>2, <2>3, CheckedFinite, FS_RemoveElement
<1>11. ASSUME NEW slot \in Taking!Slot, Taking!CancelOrder(slot) PROVE TakingInv'
  <2>1. x4[slot] - 1 \in Nat /\ x4' = [x4 EXCEPT ![slot] = x4[slot] - 1]
    BY <1>1, <1>11 DEF Taking!CancelOrder
  <2>2. x4' \in [Taking!Slot -> Nat] /\ \A s \in Taking!Slot : x4'[s] <= x4[s]
    BY <1>1, <2>1
  <2>3. UNCHANGED <<x1, x2, x3, x5>>
    BY <1>11 DEF Taking!CancelOrder
  <2>4. Taking!TypeOK'
    BY <1>1, <2>2, <2>3 DEF Taking!TypeOK, Taking!Window
  <2>5. \A s \in Taking!Slot : Checked(s)' = Checked(s)
    BY <2>3 DEF Checked
  <2>6. \A s \in Taking!Slot : x4'[s] + Cardinality(Checked(s)') < MaxOrders + Cardinality(Request)
    BY <1>1, <1>2, <1>4, <2>2, <2>5, CheckedFinite
  <2> QED BY <2>4, <2>6 DEF TakingInv
<1>12. ASSUME NEW r \in Request, Taking!Abort(r) PROVE TakingInv'
  <2>1. x3[r] \in Taking!Slot /\ x3' = [x3 EXCEPT ![r] = Taking!NoSlot] /\ UNCHANGED <<x1, x2, x4, x5>>
    BY <1>1, <1>12 DEF Taking!Abort
  <2>2. Taking!TypeOK'
    BY <1>1, <1>10, <2>1 DEF Taking!TypeOK, Taking!Window
  <2>3. \A s \in Taking!Slot : x4'[s] + Cardinality(Checked(s)') < MaxOrders + Cardinality(Request)
    <3> TAKE s \in Taking!Slot
    <3>1. CASE x3[r] = s
      <4>1. Cardinality(Checked(s)') = Cardinality(Checked(s)) - 1
        BY <1>3, <1>10, <2>1, <3>1
      <4> QED BY <1>1, <1>2, <1>4, <2>1, <4>1, CheckedFinite
    <3>2. CASE x3[r] # s
      <4>1. Checked(s)' = Checked(s)
        BY <1>3, <1>10, <2>1, <3>2
      <4> QED BY <1>4, <2>1, <4>1
    <3> QED BY <3>1, <3>2
  <2> QED BY <2>2, <2>3 DEF TakingInv
<1>13. ASSUME NEW r \in Request, Taking!Commit(r) PROVE TakingInv'
  <2>1. PICK slot : slot = x3[r]
    OBVIOUS
  <2>2. /\ slot \in Taking!Slot /\ x3' = [x3 EXCEPT ![r] = Taking!NoSlot]
        /\ x4' = [x4 EXCEPT ![slot] = x4[slot] + 1] /\ UNCHANGED <<x1, x2, x5>>
    BY <1>1, <1>13, <2>1 DEF Taking!Commit
  <2>3. x4' \in [Taking!Slot -> Nat] /\ \A s \in Taking!Slot : x4'[s] = IF s = slot THEN x4[s] + 1 ELSE x4[s]
    BY <1>1, <2>2
  <2>4. Taking!TypeOK'
    BY <1>1, <1>10, <2>2, <2>3 DEF Taking!TypeOK, Taking!Window
  <2>5. \A s \in Taking!Slot : x4'[s] + Cardinality(Checked(s)') < MaxOrders + Cardinality(Request)
    <3> TAKE s \in Taking!Slot
    <3>1. Cardinality(Checked(s)') = IF s = slot THEN Cardinality(Checked(s)) - 1 ELSE Cardinality(Checked(s))
      BY <1>3, <1>10, <2>1, <2>2, CheckedFinite
    <3>2. x4'[s] = IF s = slot THEN x4[s] + 1 ELSE x4[s]
      BY <2>3
    <3> QED BY <1>1, <1>2, <1>4, <3>1, <3>2, CheckedFinite
  <2> QED BY <2>4, <2>5 DEF TakingInv
<1>14. ASSUME NEW r \in Request, NEW slot \in Taking!Slot, Taking!Check(r, slot) PROVE TakingInv'
  <2>1. /\ x3[r] = Taking!NoSlot /\ x3' = [x3 EXCEPT ![r] = slot] /\ UNCHANGED <<x1, x2, x4, x5>>
        /\ x4[slot] < MaxOrders
    BY <1>1, <1>2, <1>14 DEF Taking!Check, Taking!IsFull
  <2>2. Taking!TypeOK'
    BY <1>1, <1>10, <2>1 DEF Taking!TypeOK, Taking!Window
  <2>3. \A s \in Taking!Slot : x4'[s] + Cardinality(Checked(s)') < MaxOrders + Cardinality(Request)
    <3> TAKE s \in Taking!Slot
    <3>1. CASE s # slot
      <4>1. Checked(s)' = Checked(s)
        BY <1>3, <1>10, <2>1, <3>1
      <4> QED BY <1>4, <2>1, <4>1
    <3>2. CASE s = slot
      <4>1. Checked(s)' \in SUBSET Request
        BY DEF Checked
      <4>2. Cardinality(Checked(s)') \in Nat /\ Cardinality(Checked(s)') <= Cardinality(Request)
            /\ Cardinality(Request) \in Nat
        BY <4>1, FiniteAssumption, FS_Subset, FS_CardinalityType
      <4> QED BY <1>1, <1>2, <2>1, <3>2, <4>2
    <3> QED BY <3>1, <3>2
  <2> QED BY <2>2, <2>3 DEF TakingInv
<1> QED BY <1>6, <1>7, <1>8, <1>9, <1>11, <1>12, <1>13, <1>14 DEF Taking!Next

LEMMA TakingCounts == \A S : Taking!Cardinality(S) = Cardinality(S)
  BY DEF Taking!Cardinality, Cardinality

LEMMA TakingHolds == TakingInv => Taking!TypeOK /\ Taking!LimitNearlyKept
<1> SUFFICES ASSUME TakingInv PROVE Taking!TypeOK /\ Taking!LimitNearlyKept
  OBVIOUS
<1>1. ASSUME NEW slot \in Taking!Slot PROVE x4[slot] < MaxOrders + Cardinality(Request)
  <2>1. x4[slot] \in Nat /\ MaxOrders \in Nat
    BY IntakeAssumption DEF TakingInv, Taking!TypeOK
  <2> QED BY <2>1, CheckedFinite DEF TakingInv
<1> QED BY <1>1, TakingCounts DEF TakingInv, Taking!LimitNearlyKept

-----------------------------------------------------------------------------
\* The tables and the telephones at them (DiningTables).

Seat == Table \cup {Vacant}
BindingRow == [table : Seat, token : 0..MaxCode + 1]
DinerRow == [pay : Dining!PaymentStatus, table : Seat]
TaskRow == [step : Dining!Step, table : Seat, to : Seat, clear : BOOLEAN, orders : SUBSET Order]

DiningTyped ==
    /\ x1 \in [Table -> 0..MaxCode] /\ x2 \subseteq Table
    /\ x3 \in [Phone -> BindingRow] /\ x4 \in [Order -> DinerRow]
    /\ x5 \subseteq Phone /\ x6 \subseteq Order /\ x7 \in [Request -> TaskRow]

\* A telephone that has scanned stays marked; what is being submitted without a table was not
\* submitted by one of those.
Marked == \A p \in x5 : x3[p] # Dining!Unbound
ApartFrom(orders) ==
    \A r \in Request : x7[r].step = "submit" /\ x7[r].table = Vacant => x7[r].orders \cap orders = {}

DiningInv ==
    DiningTyped /\ Dining!NoOrphan /\ Dining!ScannedPaysAtTable /\ Marked /\ ApartFrom(x6)

LEMMA DiningInit == Dining!Init => DiningInv
<1> SUFFICES ASSUME Dining!Init PROVE DiningInv
  OBVIOUS
<1>1. MaxCode \in Nat /\ 1 \in 0..MaxCode /\ 0 \in 0..MaxCode + 1
  BY DiningAssumption
<1>2. Dining!Unbound \in BindingRow /\ Dining!NotPlaced \in DinerRow /\ Dining!Idle \in TaskRow
  BY <1>1 DEF Dining!Unbound, BindingRow, Dining!NotPlaced, DinerRow, Dining!Idle, TaskRow,
              Dining!PaymentStatus, Dining!Step, Seat
<1>3. DiningTyped
  BY <1>1, <1>2 DEF Dining!Init, DiningTyped
<1> QED BY <1>3 DEF DiningInv, Dining!Init, Dining!NoOrphan, Dining!ScannedPaysAtTable, Marked,
                    ApartFrom, Dining!NotPlaced, Dining!Idle

\* A request that begins what it has read, or ends.
LEMMA DiningTask ==
    ASSUME DiningInv, NEW r \in Request, NEW task \in TaskRow, x7' = [x7 EXCEPT ![r] = task],
           task.step = "submit" /\ task.table = Vacant => task.orders \cap x6' = {},
           x6' \subseteq Order, \A q \in Request \ {r} : x6' \cap x7[q].orders \subseteq x6,
           NEW now \in [Table -> 0..MaxCode], x1' = now, NEW rows \in [Order -> DinerRow], x4' = rows,
           \A o \in Order : rows[o].pay = "unpaid" => rows[o].table \in Table /\ now[rows[o].table] > 0,
           \A o \in x6' : rows[o].pay # "at_once",
           UNCHANGED <<x2, x3, x5>>
    PROVE  DiningInv'
<1>1. DiningTyped
  BY DEF DiningInv
<1>2. x7' \in [Request -> TaskRow] /\ \A q \in Request : x7'[q] = IF q = r THEN task ELSE x7[q]
  BY <1>1 DEF DiningTyped
<1>3. DiningTyped'
  BY <1>1, <1>2 DEF DiningTyped
<1>4. Marked'
  BY DEF DiningInv, Marked, Dining!Unbound
<1>5. ApartFrom(x6)'
  <2> SUFFICES ASSUME NEW q \in Request, x7'[q].step = "submit", x7'[q].table = Vacant
               PROVE  x7'[q].orders \cap x6' = {}
    BY DEF ApartFrom
  <2>1. CASE q = r
    BY <1>2, <2>1
  <2>2. CASE q # r
    BY <1>2, <2>2 DEF DiningInv, ApartFrom
  <2> QED BY <2>1, <2>2
<1>6. Dining!NoOrphan' /\ Dining!ScannedPaysAtTable'
  BY DEF Dining!NoOrphan, Dining!ScannedPaysAtTable, Dining!Exists
<1> QED BY <1>3, <1>4, <1>5, <1>6 DEF DiningInv

\* What holds of the orders at the tables, said without the names of the state.
LEMMA DiningFacts ==
    ASSUME DiningInv
    PROVE  /\ DiningTyped /\ Vacant \notin Table /\ Dining!Idle \in TaskRow
           /\ Dining!Idle.step = "idle" /\ Dining!Idle.table = Vacant
           /\ \A o \in Order : x4[o].pay = "unpaid" => x4[o].table \in Table /\ x1[x4[o].table] > 0
           /\ \A o \in x6 : x4[o].pay # "at_once"
<1>1. Dining!Idle \in TaskRow /\ Dining!Idle.step = "idle" /\ Dining!Idle.table = Vacant
  BY DEF Dining!Idle, TaskRow, Dining!Step, Seat
<1> QED BY <1>1, NobodyAssumption DEF DiningInv, Dining!NoOrphan, Dining!ScannedPaysAtTable, Dining!Exists

LEMMA DiningSubmit ==
    ASSUME DiningInv, NEW r \in Request, NEW p \in Phone, NEW o \in Order, Dining!Submit(r, p, o)
    PROVE  DiningInv'
<1>1. /\ DiningTyped /\ x4[o].pay = "none" /\ \A q \in Request : o \notin x7[q].orders
      /\ UNCHANGED <<x1, x2, x4, x5>>
  BY DiningFacts DEF Dining!Submit, Dining!NotPlaced
<1>2. x1 \in [Table -> 0..MaxCode] /\ x4 \in [Order -> DinerRow] /\ x6 \subseteq Order /\ x7 \in [Request -> TaskRow]
  BY <1>1 DEF DiningTyped
<1>3. CASE /\ Dining!Current(p) # Vacant
           /\ Dining!Begin(r, [Dining!Idle EXCEPT !.step = "submit", !.table = Dining!Current(p), !.orders = {o}])
           /\ x6' = x6 \cup {o} /\ UNCHANGED x3
  <2>1. PICK t : t = Dining!Current(p)
    OBVIOUS
  <2>2. t \in Seat /\ t # Vacant
    BY <1>3, <2>1 DEF Dining!Current, Dining!Exists, Seat
  <2>3. PICK task : task = [Dining!Idle EXCEPT !.step = "submit", !.table = t, !.orders = {o}]
    OBVIOUS
  <2>4. task \in TaskRow /\ task.table = t
    BY <2>2, <2>3 DEF Dining!Idle, TaskRow, Dining!Step, Seat
  <2>5. x7' = [x7 EXCEPT ![r] = task]
    BY <1>3, <2>1, <2>3 DEF Dining!Begin
  <2>6. x6' \subseteq Order /\ \A q \in Request \ {r} : x6' \cap x7[q].orders \subseteq x6
    BY <1>1, <1>2, <1>3
  <2>7. \A u \in x6' : x4[u].pay # "at_once"
    BY <1>1, <1>3, DiningFacts
  <2>8. UNCHANGED <<x1, x2, x3, x4, x5>>
    BY <1>1, <1>3
  <2> QED BY <1>2, <2>2, <2>4, <2>5, <2>6, <2>7, <2>8, DiningFacts, DiningTask
<1>4. CASE x3[p] # Dining!Unbound /\ x3' = [x3 EXCEPT ![p] = Dining!Expired] /\ UNCHANGED <<x6, x7>>
  <2>1. Dining!Expired \in BindingRow /\ Dining!Expired # Dining!Unbound
    BY DiningAssumption DEF Dining!Expired, Dining!Unbound, BindingRow, Seat
  <2>2. x3' \in [Phone -> BindingRow] /\ \A q \in Phone : x3'[q] = IF q = p THEN Dining!Expired ELSE x3[q]
    BY <1>1, <1>4, <2>1 DEF DiningTyped
  <2>3. DiningTyped'
    BY <1>1, <1>4, <2>2 DEF DiningTyped
  <2>4. Marked'
    <3> SUFFICES ASSUME NEW q \in x5 PROVE x3'[q] # Dining!Unbound
      BY <1>1 DEF Marked, Dining!Unbound
    <3> QED BY <1>1, <2>1, <2>2 DEF DiningInv, Marked, DiningTyped
  <2>5. Dining!NoOrphan' /\ Dining!ScannedPaysAtTable' /\ ApartFrom(x6)'
    BY <1>1, <1>4 DEF DiningInv, Dining!NoOrphan, Dining!ScannedPaysAtTable, ApartFrom, Dining!Exists
  <2> QED BY <2>3, <2>4, <2>5 DEF DiningInv
<1>5. CASE /\ x3[p] = Dining!Unbound
           /\ Dining!Begin(r, [Dining!Idle EXCEPT !.step = "submit", !.orders = {o}])
           /\ x6' = IF p \in x5 THEN x6 \cup {o} ELSE x6 \ {o}
           /\ UNCHANGED x3
  <2>1. x6' = x6 \ {o}
    BY <1>5 DEF DiningInv, Marked
  <2>2. PICK task : task = [Dining!Idle EXCEPT !.step = "submit", !.orders = {o}]
    OBVIOUS
  <2>3. task \in TaskRow /\ task.orders = {o}
    BY <2>2 DEF Dining!Idle, TaskRow, Dining!Step, Seat
  <2>4. x7' = [x7 EXCEPT ![r] = task]
    BY <1>5, <2>2 DEF Dining!Begin
  <2>5. task.orders \cap x6' = {}
    BY <2>1, <2>3
  <2> QED BY <1>1, <1>2, <1>5, <2>1, <2>3, <2>4, <2>5, DiningFacts, DiningTask
<1> QED BY <1>3, <1>4, <1>5 DEF Dining!Submit, Dining!AfterExpiry

\* A request that has done what it does to the orders, and ends.
LEMMA DiningDone ==
    ASSUME DiningInv, NEW r \in Request, Dining!Done(r),
           NEW now \in [Table -> 0..MaxCode], x1' = now, NEW rows \in [Order -> DinerRow], x4' = rows,
           \A o \in Order : rows[o].pay = "unpaid" => rows[o].table \in Table /\ now[rows[o].table] > 0,
           \A o \in x6 : rows[o].pay # "at_once",
           UNCHANGED <<x2, x3, x5, x6>>
    PROVE  DiningInv'
<1>1. Dining!Idle \in TaskRow /\ Dining!Idle.step = "idle" /\ DiningTyped
  BY DiningFacts
<1>2. x7' = [x7 EXCEPT ![r] = Dining!Idle] /\ x6 \subseteq Order
  BY <1>1 DEF Dining!Done, DiningTyped
<1> HIDE DEF Dining!Idle
<1> QED BY <1>1, <1>2, DiningTask

LEMMA DiningNext ==
    ASSUME DiningInv, Dining!Next
    PROVE  DiningInv'
<1>1. /\ DiningTyped /\ Vacant \notin Table
      /\ x1 \in [Table -> 0..MaxCode] /\ x2 \subseteq Table /\ x3 \in [Phone -> BindingRow]
      /\ x4 \in [Order -> DinerRow] /\ x5 \subseteq Phone /\ x6 \subseteq Order /\ x7 \in [Request -> TaskRow]
      /\ \A o \in Order : x4[o].pay = "unpaid" => x4[o].table \in Table /\ x1[x4[o].table] > 0
      /\ \A o \in x6 : x4[o].pay # "at_once"
  BY DiningFacts DEF DiningTyped
<1>2. MaxCode \in Nat
  BY DiningAssumption
\* What only touches the codes and the telephones.
<1>3. ASSUME NEW p \in Phone, NEW t \in Table, Dining!Scan(p, t) PROVE DiningInv'
  <2>1. PICK to : to = [table |-> t, token |-> x1[t]]
    OBVIOUS
  <2>2. to \in BindingRow /\ to # Dining!Unbound
    BY <1>1, <1>2, <2>1 DEF BindingRow, Seat, Dining!Unbound
  <2>3. x3' = [x3 EXCEPT ![p] = to] /\ x5' = x5 \cup {p} /\ UNCHANGED <<x1, x2, x4, x6, x7>>
    BY <1>3, <2>1 DEF Dining!Scan
  <2>4. x3' \in [Phone -> BindingRow] /\ \A q \in Phone : x3'[q] = IF q = p THEN to ELSE x3[q]
    BY <1>1, <2>2, <2>3
  <2>5. DiningTyped'
    BY <1>1, <2>3, <2>4 DEF DiningTyped
  <2>6. Marked'
    <3> SUFFICES ASSUME NEW q \in x5' PROVE x3'[q] # Dining!Unbound
      BY DEF Marked, Dining!Unbound
    <3> QED BY <1>1, <2>2, <2>3, <2>4 DEF DiningInv, Marked
  <2>7. Dining!NoOrphan' /\ Dining!ScannedPaysAtTable' /\ ApartFrom(x6)'
    BY <2>3 DEF DiningInv, Dining!NoOrphan, Dining!ScannedPaysAtTable, ApartFrom, Dining!Exists
  <2> QED BY <2>5, <2>6, <2>7 DEF DiningInv
<1>4. ASSUME NEW t \in Table, Dining!Toggle(t) PROVE DiningInv'
  <2>1. x2' \subseteq Table /\ UNCHANGED <<x1, x3, x4, x5, x6, x7>>
    BY <1>1, <1>4 DEF Dining!Toggle
  <2> QED BY <2>1 DEF DiningInv, DiningTyped, Dining!NoOrphan, Dining!ScannedPaysAtTable, Marked,
                      ApartFrom, Dining!Exists, Dining!Unbound
<1>5. ASSUME NEW t \in Table, Dining!RotateToken(t) PROVE DiningInv'
  <2>1. x1[t] + 1 \in 0..MaxCode /\ x1' = [x1 EXCEPT ![t] = x1[t] + 1] /\ UNCHANGED <<x2, x3, x4, x5, x6, x7>>
    BY <1>1, <1>2, <1>5 DEF Dining!RotateToken
  <2>2. x1' \in [Table -> 0..MaxCode] /\ \A u \in Table : x1[u] > 0 => x1'[u] > 0
    BY <1>1, <2>1
  <2>3. DiningTyped'
    BY <1>1, <2>1, <2>2 DEF DiningTyped
  <2>4. Dining!NoOrphan'
    BY <1>1, <2>1, <2>2 DEF Dining!NoOrphan, Dining!Exists
  <2>5. Dining!ScannedPaysAtTable' /\ Marked' /\ ApartFrom(x6)'
    BY <2>1 DEF DiningInv, Dining!ScannedPaysAtTable, Marked, ApartFrom, Dining!Unbound
  <2> QED BY <2>3, <2>4, <2>5 DEF DiningInv
<1>6. ASSUME NEW o \in Order, Dining!CancelOrder(o) PROVE DiningInv'
  <2>1. PICK new : new = [x4[o] EXCEPT !.pay = "cancelled"]
    OBVIOUS
  <2>2. new \in DinerRow /\ new.pay = "cancelled"
    BY <1>1, <2>1 DEF DinerRow, Dining!PaymentStatus
  <2>3. x4' = [x4 EXCEPT ![o] = new] /\ UNCHANGED <<x1, x2, x3, x5, x6, x7>>
    BY <1>6, <2>1 DEF Dining!CancelOrder
  <2>4. x4' \in [Order -> DinerRow] /\ \A u \in Order : x4'[u] = IF u = o THEN new ELSE x4[u]
    BY <1>1, <2>2, <2>3
  <2>5. DiningTyped'
    BY <1>1, <2>3, <2>4 DEF DiningTyped
  <2>6. Dining!NoOrphan' /\ Dining!ScannedPaysAtTable'
    BY <1>1, <2>2, <2>3, <2>4 DEF Dining!NoOrphan, Dining!ScannedPaysAtTable, Dining!Exists
  <2>7. Marked' /\ ApartFrom(x6)'
    BY <2>3 DEF DiningInv, Marked, ApartFrom, Dining!Unbound
  <2> QED BY <2>5, <2>6, <2>7 DEF DiningInv
<1>7. ASSUME NEW r \in Request, NEW p \in Phone, NEW o \in Order, Dining!Submit(r, p, o) PROVE DiningInv'
  BY <1>7, DiningSubmit
\* A request that begins with what it reads of the tables.
<1>8. ASSUME NEW r \in Request, NEW task \in TaskRow, task.step # "submit", Dining!Begin(r, task),
             UNCHANGED <<x1, x2, x3, x4, x5, x6>>
      PROVE  DiningInv'
  <2>1. x7' = [x7 EXCEPT ![r] = task]
    BY <1>8 DEF Dining!Begin
  <2> QED BY <1>1, <1>8, <2>1, DiningTask
<1>9. ASSUME NEW r \in Request, NEW t \in Table, NEW u \in Table, Dining!StartMove(r, t, u) PROVE DiningInv'
  <2>1. PICK some \in SUBSET Order :
            Dining!Begin(r, [Dining!Idle EXCEPT !.step = "move", !.to = u, !.orders = some])
    BY <1>9 DEF Dining!StartMove, Dining!Unpaid
  <2>2. PICK task : task = [Dining!Idle EXCEPT !.step = "move", !.to = u, !.orders = some]
    OBVIOUS
  <2>3. task \in TaskRow /\ task.step = "move"
    BY <2>2 DEF Dining!Idle, TaskRow, Dining!Step, Seat
  <2> QED BY <1>8, <1>9, <2>1, <2>2, <2>3 DEF Dining!StartMove
<1>10. ASSUME NEW r \in Request, NEW t \in Table, Dining!StartSettle(r, t) PROVE DiningInv'
  <2>1. PICK task : task = [Dining!Idle EXCEPT !.step = "settle", !.table = t, !.orders = Dining!Unpaid(t)]
    OBVIOUS
  <2>2. task \in TaskRow /\ task.step = "settle"
    BY <2>1 DEF Dining!Idle, TaskRow, Dining!Step, Seat, Dining!Unpaid
  <2> QED BY <1>8, <1>10, <2>1, <2>2 DEF Dining!StartSettle
<1>11. ASSUME NEW r \in Request, NEW t \in Table, Dining!StartDelete(r, t) PROVE DiningInv'
  <2>1. PICK task : task = [Dining!Idle EXCEPT !.step = "delete", !.table = t,
                                !.clear = (Dining!Unpaid(t) = {})]
    OBVIOUS
  <2>2. task \in TaskRow /\ task.step = "delete"
    BY <2>1 DEF Dining!Idle, TaskRow, Dining!Step, Seat
  <2> QED BY <1>8, <1>11, <2>1, <2>2 DEF Dining!StartDelete
\* What a request does when it commits.
<1>12. ASSUME NEW r \in Request, Dining!CommitSubmit(r) PROVE DiningInv'
  <2> DEFINE row(o) == IF o \in x7[r].orders /\ (x7[r].table = Vacant \/ Dining!Exists(x7[r].table))
                       THEN [pay |-> IF x7[r].table = Vacant THEN "at_once" ELSE "unpaid",
                             table |-> x7[r].table]
                       ELSE x4[o]
  <2>1. x4' = [o \in Order |-> row(o)] /\ x7[r].step = "submit" /\ Dining!Done(r)
        /\ UNCHANGED <<x1, x2, x3, x5, x6>>
    BY <1>12 DEF Dining!CommitSubmit
  <2>2. x7[r].table \in Seat /\ x7[r].table = Vacant => x7[r].orders \cap x6 = {}
    BY <1>1, <2>1 DEF DiningInv, ApartFrom, TaskRow
  <2>3. ASSUME NEW o \in Order
        PROVE  /\ row(o) \in DinerRow
               /\ row(o).pay = "unpaid" => row(o).table \in Table /\ x1[row(o).table] > 0
               /\ o \in x6 => row(o).pay # "at_once"
    <3>1. CASE o \in x7[r].orders /\ x7[r].table = Vacant
      <4>1. row(o) = [pay |-> "at_once", table |-> x7[r].table]
        BY <3>1
      <4> QED BY <1>1, <2>2, <3>1, <4>1 DEF DinerRow, Dining!PaymentStatus, Seat
    <3>2. CASE o \in x7[r].orders /\ x7[r].table # Vacant /\ Dining!Exists(x7[r].table)
      <4>1. row(o) = [pay |-> "unpaid", table |-> x7[r].table]
        BY <3>2
      <4> QED BY <1>1, <3>2, <4>1 DEF DinerRow, Dining!PaymentStatus, Seat, Dining!Exists
    <3>3. CASE row(o) = x4[o]
      BY <1>1, <3>3
    <3> QED BY <3>1, <3>2, <3>3
  <2> HIDE DEF row
  <2>4. PICK rows : rows = [o \in Order |-> row(o)]
    OBVIOUS
  <2>5. rows \in [Order -> DinerRow] /\ x4' = rows /\ \A o \in Order : rows[o] = row(o)
    BY <2>1, <2>3, <2>4
  <2> QED BY <1>1, <2>1, <2>3, <2>5, DiningDone
<1>13. ASSUME NEW r \in Request, Dining!CommitMove(r) PROVE DiningInv'
  <2> DEFINE row(o) == IF o \in x7[r].orders /\ Dining!Exists(x7[r].to) /\ x4[o].pay = "unpaid"
                       THEN [x4[o] EXCEPT !.table = x7[r].to] ELSE x4[o]
  <2>1. x4' = [o \in Order |-> row(o)] /\ Dining!Done(r) /\ UNCHANGED <<x1, x2, x3, x5, x6>>
    BY <1>13 DEF Dining!CommitMove
  <2>2. ASSUME NEW o \in Order
        PROVE  /\ row(o) \in DinerRow /\ row(o).pay = x4[o].pay
               /\ row(o).pay = "unpaid" => row(o).table \in Table /\ x1[row(o).table] > 0
    <3>1. CASE row(o) = [x4[o] EXCEPT !.table = x7[r].to] /\ Dining!Exists(x7[r].to)
      <4>1. PICK new : new = row(o)
        OBVIOUS
      <4>2. new = [x4[o] EXCEPT !.table = x7[r].to] /\ x7[r].to \in Table /\ x1[x7[r].to] > 0
        BY <3>1, <4>1 DEF Dining!Exists
      <4>3. x4[o] \in [pay : Dining!PaymentStatus, table : Seat]
        BY <1>1 DEF DinerRow
      <4>4. new \in DinerRow /\ new.pay = x4[o].pay /\ new.table = x7[r].to
        BY <4>2, <4>3 DEF DinerRow, Seat
      <4> HIDE DEF row
      <4> QED BY <4>1, <4>2, <4>4
    <3>2. CASE row(o) = x4[o]
      <4> HIDE DEF row
      <4> QED BY <1>1, <3>2
    <3> QED BY <3>1, <3>2
  <2> HIDE DEF row
  <2>3. PICK rows : rows = [o \in Order |-> row(o)]
    OBVIOUS
  <2>4. rows \in [Order -> DinerRow] /\ x4' = rows /\ \A o \in Order : rows[o] = row(o)
    BY <2>1, <2>2, <2>3
  <2> QED BY <1>1, <2>1, <2>2, <2>4, DiningDone
<1>14. ASSUME NEW r \in Request, Dining!CommitSettle(r) PROVE DiningInv'
  <2> DEFINE row(o) == IF o \in x7[r].orders THEN [x4[o] EXCEPT !.pay = "settled"] ELSE x4[o]
  <2>1. /\ x4' = [o \in Order |-> row(o)] \/ x4' = x4
        /\ Dining!Done(r) /\ UNCHANGED <<x1, x2, x3, x5, x6>>
    BY <1>14 DEF Dining!CommitSettle
  <2>2. ASSUME NEW o \in Order
        PROVE  row(o) \in DinerRow /\ (row(o) = x4[o] \/ row(o).pay = "settled")
    BY <1>1 DEF DinerRow, Dining!PaymentStatus
  <2> HIDE DEF row
  <2>3. CASE x4' = x4
    BY <1>1, <2>1, <2>3, DiningDone
  <2>4. CASE x4' = [o \in Order |-> row(o)]
    <3>1. PICK rows : rows = [o \in Order |-> row(o)]
      OBVIOUS
    <3>2. rows \in [Order -> DinerRow] /\ x4' = rows /\ \A o \in Order : rows[o] = row(o)
      BY <2>2, <2>4, <3>1
    <3> QED BY <1>1, <2>1, <2>2, <3>2, DiningDone
  <2> QED BY <2>1, <2>3, <2>4
<1>15. ASSUME NEW r \in Request, Dining!CommitDelete(r) PROVE DiningInv'
  <2>1. PICK t : t = x7[r].table
    OBVIOUS
  <2> DEFINE row(o) == IF x4[o].table = t THEN [x4[o] EXCEPT !.table = Vacant] ELSE x4[o]
  <2>2. /\ Dining!Done(r) /\ UNCHANGED <<x2, x3, x5, x6>>
        /\ \/ /\ Dining!Unpaid(t) = {}
              /\ x1' = [x1 EXCEPT ![t] = 0] /\ x4' = [o \in Order |-> row(o)]
           \/ UNCHANGED <<x1, x4>>
    BY <1>15, <2>1 DEF Dining!CommitDelete, Dining!Clear
  <2>3. CASE UNCHANGED <<x1, x4>>
    BY <1>1, <2>2, <2>3, DiningDone
  <2>4. CASE /\ Dining!Unpaid(t) = {}
             /\ x1' = [x1 EXCEPT ![t] = 0] /\ x4' = [o \in Order |-> row(o)]
    <3>1. ASSUME NEW o \in Order
          PROVE  /\ row(o) \in DinerRow /\ row(o).pay = x4[o].pay
                 /\ row(o).pay = "unpaid" => row(o) = x4[o] /\ x4[o].table # t
      BY <1>1, <2>4 DEF DinerRow, Seat, Dining!Unpaid
    <3> HIDE DEF row
    <3>2. PICK rows : rows = [o \in Order |-> row(o)]
      OBVIOUS
    <3>3. rows \in [Order -> DinerRow] /\ x4' = rows /\ \A o \in Order : rows[o] = row(o)
      BY <2>4, <3>1, <3>2
    <3>4. PICK now : now = [x1 EXCEPT ![t] = 0]
      OBVIOUS
    <3>a. 0 \in 0..MaxCode
      BY <1>2
    <3>5. now \in [Table -> 0..MaxCode] /\ x1' = now /\ \A u \in Table : u # t => now[u] = x1[u]
      BY <1>1, <2>4, <3>a, <3>4
    <3>6. \A o \in Order : rows[o].pay = "unpaid" => rows[o].table \in Table /\ now[rows[o].table] > 0
      BY <1>1, <3>1, <3>3, <3>5
    <3>7. \A o \in x6 : rows[o].pay # "at_once"
      BY <1>1, <3>1, <3>3
    <3> QED BY <2>2, <3>3, <3>5, <3>6, <3>7, DiningDone
  <2> QED BY <2>2, <2>3, <2>4
<1> QED BY <1>3, <1>4, <1>5, <1>6, <1>7, <1>9, <1>10, <1>11, <1>12, <1>13, <1>14, <1>15 DEF Dining!Next

LEMMA DiningHolds == DiningInv => Dining!TypeOK /\ Dining!NoOrphan /\ Dining!ScannedPaysAtTable
  BY DEF DiningInv, DiningTyped, Dining!TypeOK, BindingRow, DinerRow, TaskRow, Seat

-----------------------------------------------------------------------------
\* The seats of a slot and the numbers on the waiting list (Booking).

BookingRow ==
    [party : 0..MaxParty, status : {"booked", "seated", "none", "cancelled", "no_show"},
     source : {"none", "online", "staff"}]
DrawRow == [number : 0..(Cardinality(Three) + 1), attempt : 0..MaxTries]

SeatingTyped ==
    /\ x1 \in [Three -> BookingRow] /\ x2 \in [Three -> 0..MaxParty]
    /\ x3 \in [Three -> 0..Cardinality(Three)] /\ x4 \in [Three -> DrawRow]

\* Numbers are taken one after the other: last is the greatest, and whoever draws has none
\* yet and will be refused unless it is the next one.
InARow(last) ==
    /\ last \in Nat
    /\ \A g \in Three : x3[g] <= last
    /\ \A n \in 1..last : \E g \in Three : x3[g] = n
    /\ \A g, h \in Three : x3[g] = x3[h] /\ x3[g] # 0 => g = h
    /\ \A g \in Three : x4[g] # Seating!NoNumber => x3[g] = 0 /\ x4[g].number \in 1..(last + 1)

SeatingInv == SeatingTyped /\ \E last : InARow(last)

LEMMA GuestCount == Cardinality(Three) \in Nat /\ IsFiniteSet(Three) /\ Three # {}
  BY FiniteAssumption, FS_CardinalityType

LEMMA SeatingSame ==
    /\ \A S : Seating!Max(S) = Max(S)
    /\ \A S : Seating!Cardinality(S) = Cardinality(S)
<1>1. \A S : Seating!Max(S) = Max(S)
  BY DEF Seating!Max, Max
<1>2. \A S : Seating!Cardinality(S) = Cardinality(S)
  BY DEF Seating!Cardinality, Cardinality
<1> QED BY <1>1, <1>2

\* The greatest number is the last of the row.
LEMMA LastIs ==
    ASSUME SeatingTyped, NEW last, InARow(last)
    PROVE  Seating!Last = last
<1>1. PICK S : S = {x3[g] : g \in Three}
  OBVIOUS
<1>2. /\ \A n \in S : n \in Int /\ n <= last
      /\ S # {} /\ last \in Nat
  BY <1>1, GuestCount DEF SeatingTyped, InARow
<1>3. S \in SUBSET (0..last)
  <2>1. x3 \in [Three -> 0..Cardinality(Three)] /\ last \in Nat /\ \A g \in Three : x3[g] <= last
    BY DEF SeatingTyped, InARow
  <2>2. \A g \in Three : x3[g] \in 0..last
    BY <2>1, GuestCount
  <2>3. \A n \in S : n \in 0..last
    BY <1>1, <2>2
  <2> QED BY <2>3
<1>4. IsFiniteSet(S)
  <2>1. IsFiniteSet(0..last)
    BY <1>2, FS_Interval
  <2> QED BY <1>3, <2>1, FS_Subset
<1>5. Max(S) \in S /\ \A n \in S : Max(S) >= n
  BY <1>2, <1>4, MaxIn
<1>6. last \in S
  <2>1. CASE last = 0
    <3>1. PICK n \in S : TRUE
      BY <1>2
    <3>2. n = 0
      BY <1>3, <2>1, <3>1
    <3> QED BY <2>1, <3>1, <3>2
  <2>2. CASE last # 0
    <3>1. last \in 1..last
      BY <1>2, <2>2
    <3> QED BY <1>1, <3>1 DEF InARow
  <2> QED BY <2>1, <2>2
<1>7. Max(S) = last
  <2>1. Max(S) \in Int /\ Max(S) <= last /\ Max(S) >= last
    BY <1>2, <1>5, <1>6
  <2> QED BY <1>2, <2>1
<1> QED BY <1>1, <1>7, SeatingSame DEF Seating!Last

\* A guest without a number leaves room for one more.
LEMMA RoomInTheRow ==
    ASSUME SeatingTyped, NEW last, InARow(last), NEW g \in Three, x3[g] = 0
    PROVE  last + 1 <= Cardinality(Three)
<1> DEFINE who == [n \in 1..last |-> CHOOSE h \in Three : x3[h] = n]
<1>1. last \in Nat /\ \A n \in 1..last : who[n] \in Three /\ x3[who[n]] = n
  BY DEF InARow
<1> HIDE DEF who
<1>2. \A n \in 1..last : who[n] \in Three \ {g}
  BY <1>1
<1>3. \A m, n \in 1..last : who[m] = who[n] => m = n
  BY <1>1
<1>4. who \in [1..last -> Three \ {g}]
  <2>1. who = [n \in 1..last |-> who[n]]
    BY DEF who
  <2> QED BY <1>2, <2>1
<1>5. who \in Injection(1..last, Three \ {g})
  BY <1>3, <1>4 DEF Injection, IsInjective
<1>6. IsFiniteSet(Three \ {g}) /\ Cardinality(Three \ {g}) = Cardinality(Three) - 1
  BY GuestCount, FS_RemoveElement
<1>7. Cardinality(1..last) <= Cardinality(Three \ {g})
  BY <1>5, <1>6, FS_Injection
<1>8. Cardinality(1..last) = last
  BY <1>1, FS_Interval
<1> QED BY <1>1, <1>6, <1>7, <1>8, GuestCount

LEMMA SeatingInit == Seating!Init => SeatingInv
<1> SUFFICES ASSUME Seating!Init PROVE SeatingInv
  OBVIOUS
<1>1. {Seats, MaxParty, MaxTries} \subseteq Nat /\ Cardinality(Three) \in Nat
  BY BookingAssumption, GuestCount
<1>2. 0 \in 0..MaxParty /\ 0 \in 0..Cardinality(Three) /\ 0 \in 0..(Cardinality(Three) + 1) /\ 0 \in 0..MaxTries
  BY <1>1
<1>3. Seating!NoBooking \in BookingRow /\ Seating!NoNumber \in DrawRow
  BY <1>2 DEF Seating!NoBooking, BookingRow, Seating!NoNumber, DrawRow
<1>4. SeatingTyped
  BY <1>2, <1>3 DEF Seating!Init, SeatingTyped
<1>5. InARow(0)
  BY DEF Seating!Init, InARow
<1> QED BY <1>4, <1>5 DEF SeatingInv

\* What the bookings, or who draws, do to what holds of the others.
LEMMA SeatingBooks ==
    ASSUME SeatingInv, x1' \in [Three -> BookingRow], x2' \in [Three -> 0..MaxParty], UNCHANGED <<x3, x4>>
    PROVE  SeatingInv'
<1>1. SeatingTyped'
  BY DEF SeatingInv, SeatingTyped
<1>2. ASSUME NEW last, InARow(last) PROVE InARow(last)'
  BY <1>2 DEF InARow, Seating!NoNumber
<1> QED BY <1>1, <1>2 DEF SeatingInv

LEMMA SeatingDraws ==
    ASSUME SeatingInv, NEW g \in Three, x3[g] = 0, NEW attempt \in 1..MaxTries,
           Seating!Look(g, attempt), UNCHANGED <<x1, x2, x3>>
    PROVE  SeatingInv'
<1>1. PICK last : InARow(last)
  BY DEF SeatingInv
<1>2. SeatingTyped /\ Seating!Last = last /\ last + 1 <= Cardinality(Three)
  BY <1>1, LastIs, RoomInTheRow DEF SeatingInv
<1>3. PICK new : new = [number |-> last + 1, attempt |-> attempt]
  OBVIOUS
<1>4. x4' = [x4 EXCEPT ![g] = new]
  BY <1>2, <1>3 DEF Seating!Look
<1>5. last \in Nat /\ MaxTries \in Nat
  BY <1>1, BookingAssumption DEF InARow
<1>6. new \in DrawRow /\ new.number = last + 1
  <2>1. last + 1 \in 0..(Cardinality(Three) + 1) /\ attempt \in 0..MaxTries
    BY <1>2, <1>5, GuestCount
  <2> QED BY <1>3, <2>1 DEF DrawRow
<1>7. x4' \in [Three -> DrawRow] /\ \A h \in Three : x4'[h] = IF h = g THEN new ELSE x4[h]
  BY <1>2, <1>4, <1>6 DEF SeatingTyped
<1>8. SeatingTyped'
  BY <1>2, <1>7 DEF SeatingTyped
<1>9. InARow(last)'
  <2>1. \A h \in Three : x4'[h] # Seating!NoNumber => x3'[h] = 0 /\ x4'[h].number \in 1..(last + 1)
    <3>1. last + 1 \in 1..(last + 1)
      BY <1>5
    <3> QED BY <1>1, <1>6, <1>7, <3>1 DEF InARow
  <2> QED BY <1>1, <2>1 DEF InARow, Seating!NoNumber
<1> QED BY <1>8, <1>9 DEF SeatingInv

\* Who draws in vain and gives up.
LEMMA SeatingGivesUp ==
    ASSUME SeatingInv, NEW g \in Three, x4' = [x4 EXCEPT ![g] = Seating!NoNumber], UNCHANGED <<x1, x2, x3>>
    PROVE  SeatingInv'
<1>1. PICK last : InARow(last)
  BY DEF SeatingInv
<1>2. Seating!NoNumber \in DrawRow
  BY BookingAssumption, GuestCount DEF Seating!NoNumber, DrawRow
<1>3. x4' \in [Three -> DrawRow] /\ \A h \in Three : x4'[h] = IF h = g THEN Seating!NoNumber ELSE x4[h]
  BY <1>2 DEF SeatingInv, SeatingTyped
<1>4. SeatingTyped'
  BY <1>3 DEF SeatingInv, SeatingTyped
<1>5. InARow(last)'
  BY <1>1, <1>3 DEF InARow, Seating!NoNumber
<1> QED BY <1>4, <1>5 DEF SeatingInv

\* A number that is free is the next one.
LEMMA SeatingTakes ==
    ASSUME SeatingInv, NEW g \in Three, x4[g] # Seating!NoNumber, Seating!FreeNumber(x4[g].number),
           x3' = [x3 EXCEPT ![g] = x4[g].number], x4' = [x4 EXCEPT ![g] = Seating!NoNumber],
           UNCHANGED <<x1, x2>>
    PROVE  SeatingInv'
<1>1. PICK last : InARow(last)
  BY DEF SeatingInv
<1>2. last \in Nat /\ x3[g] = 0 /\ x4[g].number \in 1..(last + 1) /\ SeatingTyped
  BY <1>1 DEF InARow, SeatingInv
<1>3. x4[g].number = last + 1
  <2>1. x4[g].number \notin 1..last
    BY <1>1 DEF InARow, Seating!FreeNumber
  <2> QED BY <1>2, <2>1
<1>4. last + 1 \in 0..Cardinality(Three)
  BY <1>1, <1>2, RoomInTheRow, GuestCount
<1>5. x3' \in [Three -> 0..Cardinality(Three)] /\ \A h \in Three : x3'[h] = IF h = g THEN last + 1 ELSE x3[h]
  BY <1>2, <1>3, <1>4 DEF SeatingTyped
<1>6. Seating!NoNumber \in DrawRow
  BY BookingAssumption, GuestCount DEF Seating!NoNumber, DrawRow
<1>7. x4' \in [Three -> DrawRow] /\ \A h \in Three : x4'[h] = IF h = g THEN Seating!NoNumber ELSE x4[h]
  BY <1>2, <1>6 DEF SeatingTyped
<1>8. SeatingTyped'
  BY <1>2, <1>5, <1>7 DEF SeatingTyped
<1>9. InARow(last + 1)'
  <2>1. \A h \in Three : x3[h] \in Int /\ x3[h] <= last
    BY <1>1, <1>2, GuestCount DEF InARow, SeatingTyped
  <2>2. \A h \in Three : x3'[h] <= last + 1
    BY <1>2, <1>5, <2>1
  <2>3. \A n \in 1..(last + 1) : \E h \in Three : x3'[h] = n
    <3> SUFFICES ASSUME NEW n \in 1..(last + 1) PROVE \E h \in Three : x3'[h] = n
      OBVIOUS
    <3>1. CASE n = last + 1
      BY <1>5, <3>1
    <3>2. CASE n # last + 1
      <4>1. PICK h \in Three : x3[h] = n
        BY <1>1, <1>2, <3>2 DEF InARow
      <4>2. h # g
        BY <1>2, <4>1
      <4> QED BY <1>5, <4>1, <4>2
    <3> QED BY <3>1, <3>2
  <2>4. \A h, k \in Three : x3'[h] = x3'[k] /\ x3'[h] # 0 => h = k
    BY <1>1, <1>2, <1>5, <2>1 DEF InARow
  <2>5. \A h \in Three : x4'[h] # Seating!NoNumber => x3'[h] = 0 /\ x4'[h].number \in 1..(last + 1 + 1)
    BY <1>1, <1>2, <1>5, <1>7 DEF InARow
  <2>6. last + 1 \in Nat
    BY <1>2
  <2> QED BY <2>2, <2>3, <2>4, <2>5, <2>6 DEF InARow, Seating!NoNumber
<1> QED BY <1>8, <1>9 DEF SeatingInv

LEMMA SeatingNext ==
    ASSUME SeatingInv, Seating!Next
    PROVE  SeatingInv'
<1>1. /\ x1 \in [Three -> BookingRow] /\ x2 \in [Three -> 0..MaxParty] /\ x4 \in [Three -> DrawRow]
      /\ {Seats, MaxParty, MaxTries} \subseteq Nat /\ MaxTries > 0
  BY BookingAssumption DEF SeatingInv, SeatingTyped
<1>2. 0 \in 0..MaxParty
  BY <1>1
<1>3. ASSUME NEW g \in Three, NEW party \in 1..MaxParty, Seating!StartBooking(g, party) PROVE SeatingInv'
  <2>1. party \in 0..MaxParty
    BY <1>1
  <2> QED BY <1>1, <1>3, <2>1, SeatingBooks DEF Seating!StartBooking
<1>4. ASSUME NEW g \in Three, NEW party \in 1..MaxParty, Seating!StaffBook(g, party) PROVE SeatingInv'
  <2>1. [party |-> party, status |-> "booked", source |-> "staff"] \in BookingRow
    BY <1>1 DEF BookingRow
  <2> QED BY <1>1, <1>4, <2>1, SeatingBooks DEF Seating!StaffBook
<1>5. ASSUME NEW g \in Three, Seating!Book(g) PROVE SeatingInv'
  <2>1. [party |-> x2[g], status |-> "booked", source |-> "online"] \in BookingRow
    BY <1>1 DEF BookingRow
  <2>2. x1' \in [Three -> BookingRow] /\ x2' \in [Three -> 0..MaxParty]
    BY <1>1, <1>2, <1>5, <2>1 DEF Seating!Book
  <2> QED BY <1>5, <2>2, SeatingBooks DEF Seating!Book
<1>6. ASSUME NEW g \in Three, NEW status \in Seating!Takes \cup {"cancelled", "no_show"},
             Seating!SetStatus(g, status)
      PROVE  SeatingInv'
  <2>1. PICK new : new = [x1[g] EXCEPT !.status = status]
    OBVIOUS
  <2>2. new \in BookingRow
    BY <1>1, <2>1 DEF BookingRow, Seating!Takes
  <2>3. x1' = [x1 EXCEPT ![g] = new] /\ UNCHANGED <<x2, x3, x4>>
    BY <1>6, <2>1 DEF Seating!SetStatus
  <2> QED BY <1>1, <2>2, <2>3, SeatingBooks
<1>7. ASSUME NEW g \in Three, Seating!JoinWaitlist(g) PROVE SeatingInv'
  <2>1. 1 \in 1..MaxTries
    BY <1>1
  <2> QED BY <1>7, <2>1, SeatingDraws DEF Seating!JoinWaitlist
<1>8. ASSUME NEW g \in Three, Seating!TakeNumber(g) PROVE SeatingInv'
  <2>1. x4[g] # Seating!NoNumber /\ UNCHANGED <<x1, x2>>
    BY <1>8 DEF Seating!TakeNumber
  <2>2. x3[g] = 0
    BY <2>1 DEF SeatingInv, InARow
  <2>3. CASE Seating!FreeNumber(x4[g].number)
    BY <1>8, <2>1, <2>3, SeatingTakes DEF Seating!TakeNumber
  <2>4. CASE /\ x4[g].attempt < MaxTries /\ Seating!Look(g, x4[g].attempt + 1) /\ UNCHANGED x3
    <3>1. x4[g].attempt + 1 \in 1..MaxTries
      BY <1>1, <2>4 DEF DrawRow
    <3> QED BY <2>1, <2>2, <2>4, <3>1, SeatingDraws
  <2>5. CASE x4' = [x4 EXCEPT ![g] = Seating!NoNumber] /\ UNCHANGED x3
    BY <2>1, <2>5, SeatingGivesUp
  <2> QED BY <1>8, <2>3, <2>4, <2>5 DEF Seating!TakeNumber
<1> QED BY <1>3, <1>4, <1>5, <1>6, <1>7, <1>8 DEF Seating!Next

LEMMA SeatingHolds == SeatingInv => Seating!TypeOK /\ Seating!NumbersApart
<1> SUFFICES ASSUME SeatingInv PROVE Seating!TypeOK /\ Seating!NumbersApart
  OBVIOUS
<1>1. Seating!TypeOK
  BY SeatingSame DEF SeatingInv, SeatingTyped, Seating!TypeOK, BookingRow, DrawRow, Seating!Takes
<1>2. PICK last : InARow(last)
  BY DEF SeatingInv
<1>3. Seating!Last = last
  BY <1>2, LastIs DEF SeatingInv
<1> QED BY <1>1, <1>2, <1>3 DEF InARow, Seating!NumbersApart

\* A guest who books online is given seats that are there: what is taken grows by the party.
LEMMA WithOne ==
    ASSUME NEW S, IsFiniteSet(S), NEW G, G \subseteq S, NEW g, g \notin G, NEW H, H = G \cup {g}
    PROVE  IsFiniteSet(G) /\ IsFiniteSet(H) /\ H \ {g} = G
<1>1. IsFiniteSet(G)
  BY FS_Subset
<1>2. IsFiniteSet(H)
  BY <1>1, FS_AddElement
<1> QED BY <1>1, <1>2

LEMMA BookingFits ==
    ASSUME SeatingTyped, Seating!Next
    PROVE  Seating!OnlineBookingFits
<1> DEFINE Of(b) == {g \in Three : b[g].status \in Seating!Takes}
           Guests == Of(x1)
           Party(b) == [g \in Of(b) |-> b[g].party]
<1>1. x1 \in [Three -> BookingRow] /\ x2 \in [Three -> 0..MaxParty] /\ {Seats, MaxParty} \subseteq Nat
  BY BookingAssumption DEF SeatingTyped
<1>0. Seating!Taken = Sum(Party(x1), Guests) /\ Seating!Taken' = Sum(Party(x1'), Of(x1'))
  <2>1. /\ Seating!Taken = (CHOOSE f : AddsParties(x1, f, Guests))[Guests]
        /\ Seating!Taken' = (CHOOSE f : AddsParties(x1', f, Of(x1')))[Of(x1')]
    BY DEF Seating!Taken, Seating!MapThenSumSet, Seating!MapThenFoldSet, AddsParties, Pick
  <2> HIDE DEF Of
  <2> QED BY <2>1, PartiesAdded
<1>2. SUFFICES ASSUME NEW g \in Three, x1[g] = Seating!NoBooking, x1'[g].source = "online"
               PROVE  Seating!Taken' <= Seats
  BY DEF Seating!OnlineBookingFits
<1>3. x1[g].source = "none" /\ x1[g].status = "none" /\ x1'[g] # x1[g]
  BY <1>2 DEF Seating!NoBooking
<1>4. ASSUME NEW h \in Three, NEW party, Seating!StaffBook(h, party) PROVE FALSE
  BY <1>1, <1>2, <1>3, <1>4 DEF Seating!StaffBook
<1>5. ASSUME NEW h \in Three, NEW status, Seating!SetStatus(h, status) PROVE FALSE
  BY <1>1, <1>2, <1>3, <1>5 DEF Seating!SetStatus
<1>6. ASSUME NEW h \in Three, NEW party,
             \/ Seating!StartBooking(h, party) \/ Seating!JoinWaitlist(h) \/ Seating!TakeNumber(h)
      PROVE  FALSE
  BY <1>3, <1>6 DEF Seating!StartBooking, Seating!JoinWaitlist, Seating!TakeNumber
<1>7. ASSUME NEW h \in Three, Seating!Book(h) PROVE Seating!Taken' <= Seats
  <2>1. PICK new : new = [party |-> x2[h], status |-> "booked", source |-> "online"]
    OBVIOUS
  <2>2. h = g /\ x1' = [x1 EXCEPT ![g] = new] /\ Seating!Taken + x2[g] <= Seats
    BY <1>1, <1>3, <1>7, <2>1 DEF Seating!Book, Seating!Room
  <2>3. \A k \in Three : x1'[k] = IF k = g THEN new ELSE x1[k]
    BY <1>1, <2>2
  <2>4. Of(x1') = Guests \cup {g} /\ g \notin Guests /\ Guests \subseteq Three
    BY <1>3, <2>1, <2>3 DEF Seating!Takes
  <2>5. IsFiniteSet(Guests) /\ IsFiniteSet(Of(x1')) /\ Of(x1') \ {g} = Guests
    <3>1. PICK G, H : G = Guests /\ H = Of(x1')
      OBVIOUS
    <3>2. H = G \cup {g} /\ g \notin G /\ G \subseteq Three
      BY <2>4, <3>1
    <3>3. IsFiniteSet(G) /\ IsFiniteSet(H) /\ H \ {g} = G
      BY <3>2, GuestCount, WithOne
    <3> HIDE DEF Of
    <3> QED BY <3>1, <3>3
  <2>7. /\ \A k \in Guests : Party(x1)[k] = Party(x1')[k] /\ Party(x1)[k] \in Int
        /\ \A k \in Of(x1') : Party(x1')[k] \in Int
        /\ Party(x1')[g] = x2[g] /\ x2[g] \in Int
    BY <1>1, <2>1, <2>2, <2>3, <2>4 DEF BookingRow
  <2> HIDE DEF Party, Of
  <2>8. Sum(Party(x1'), Of(x1')) = Party(x1')[g] + Sum(Party(x1'), Guests)
    BY <2>4, <2>5, <2>7, SumTake
  <2>9. Sum(Party(x1'), Guests) = Sum(Party(x1), Guests)
    BY <2>5, <2>7, SumSame
  <2>10. Sum(Party(x1), Guests) \in Int
    BY <2>5, <2>7, SumInt
  <2> QED BY <1>0, <1>1, <2>2, <2>7, <2>8, <2>9, <2>10
<1> QED BY <1>4, <1>5, <1>6, <1>7 DEF Seating!Next

-----------------------------------------------------------------------------
\* The day's shifts (ShiftPlan).

LEMMA Appended ==
    ASSUME NEW S, NEW s \in Seq(S), NEW e \in S
    PROVE  /\ Append(s, e) \in Seq(S) /\ Len(Append(s, e)) = Len(s) + 1
           /\ Append(s, e)[Len(s) + 1] = e /\ \A k \in 1..Len(s) : Append(s, e)[k] = s[k]
  OBVIOUS

Fits(shift, length, first, last) ==
    /\ shift[1] >= first /\ shift[2] <= last + 1
    /\ \/ shift[2] - shift[1] = length
       \/ shift[2] - shift[1] < length /\ shift[2] - shift[1] = last + 1 - first

\* The hours that were looked at have enough people, and every shift fits the day.
ShiftsInv ==
    /\ x1 \in [Shifts!Hour -> Nat] /\ x4 \in [Shifts!Hour -> Nat] /\ x2 \in Nat
    /\ x5 \in Seq(Int \X Int)
    /\ x2 = 0 => x5 = <<>>
    /\ x2 > 0 =>
           /\ Shifts!Busy(x1) # {} /\ x3 \in Int /\ x3 >= Shifts!First
           /\ \A h \in Shifts!Hour : h < x3 => x4[h] >= x1[h]
           /\ \A k \in DOMAIN x5 : Fits(x5[k], x2, Shifts!First, Shifts!Last)

\* The first and the last hour somebody is missing at are such hours.
LEMMA BusyHours ==
    ASSUME NEW n \in [Shifts!Hour -> Nat], Shifts!Busy(n) # {}
    PROVE  /\ Shifts!Min(Shifts!Busy(n)) \in Shifts!Hour /\ Shifts!Max(Shifts!Busy(n)) \in Shifts!Hour
           /\ \A h \in Shifts!Hour :
                  n[h] > 0 => Shifts!Min(Shifts!Busy(n)) <= h /\ h <= Shifts!Max(Shifts!Busy(n))
           /\ Shifts!Min(Shifts!Busy(n)) <= Shifts!Max(Shifts!Busy(n))
           /\ Shifts!Hour \subseteq Int
<1>1. IsFiniteSet(Shifts!Hour) /\ \A h \in Shifts!Hour : h \in Int
  <2>1. Opening \in Int /\ Closing - 1 \in Int
    BY PlanAssumption
  <2> QED BY <2>1, FS_Interval DEF Shifts!Hour
<1>2. PICK S : S = Shifts!Busy(n)
  OBVIOUS
<1>3. S \subseteq Shifts!Hour /\ S # {} /\ \A h \in Shifts!Hour : n[h] > 0 => h \in S
  BY <1>2 DEF Shifts!Busy
<1>4. IsFiniteSet(S)
  BY <1>1, <1>3, FS_Subset
<1>5. /\ Max(S) \in S /\ \A x \in S : Max(S) >= x
      /\ Min(S) \in S /\ \A x \in S : Min(S) <= x
  BY <1>1, <1>3, <1>4, MaxIn, MinIn
<1>6. Shifts!Min(S) = Min(S) /\ Shifts!Max(S) = Max(S)
  BY DEF Shifts!Min, Min, Shifts!Max, Max
<1> QED BY <1>1, <1>2, <1>3, <1>5, <1>6

LEMMA ShiftsInit == Shifts!Init => ShiftsInv
<1> SUFFICES ASSUME Shifts!Init PROVE ShiftsInv
  OBVIOUS
<1>1. x1 = [h \in Shifts!Hour |-> 0] /\ x4 = [h \in Shifts!Hour |-> 0] /\ x2 = 0 /\ x5 = <<>>
  BY DEF Shifts!Init
<1> QED BY <1>1 DEF ShiftsInv

LEMMA ShiftsNext == ShiftsInv /\ Shifts!Next => ShiftsInv'
<1> SUFFICES ASSUME ShiftsInv, Shifts!Next PROVE ShiftsInv'
  OBVIOUS
<1>1. CASE Shifts!Plan
  <2>1. /\ x2 = 0 /\ x1' \in [Shifts!Hour -> 0..MaxNeed] /\ Shifts!Busy(x1') # {}
        /\ x2' \in 1..MaxHours /\ x3' = Shifts!Min(Shifts!Busy(x1')) /\ x4' = x4 /\ x5' = x5
    BY <1>1 DEF Shifts!Plan
  <2>2. x5 = <<>> /\ x4 \in [Shifts!Hour -> Nat] /\ x1' \in [Shifts!Hour -> Nat]
    BY <2>1, PlanAssumption DEF ShiftsInv
  <2>3. PICK lo : lo = Shifts!Min(Shifts!Busy(x1'))
    OBVIOUS
  <2>4. lo \in Int /\ \A h \in Shifts!Hour : h \in Int /\ (x1'[h] > 0 => lo <= h)
    BY <2>1, <2>2, <2>3, BusyHours
  <2>5. Shifts!First' = lo
    BY <2>3 DEF Shifts!First, Shifts!Min, Shifts!Busy
  <2>6. \A h \in Shifts!Hour : h < lo => x4[h] >= x1'[h]
    BY <2>2, <2>4
  <2>7. (Shifts!Busy(x1))' # {}
    BY <2>1 DEF Shifts!Busy
  <2>8. x2' \in Nat /\ x2' > 0
    BY <2>1, PlanAssumption
  <2> QED BY <2>1, <2>2, <2>3, <2>4, <2>5, <2>6, <2>7, <2>8 DEF ShiftsInv
<1>2. ASSUME x2 > 0, x1' = x1, x2' = x2
      PROVE  /\ Shifts!First' = Shifts!First /\ Shifts!Last' = Shifts!Last
             /\ (Shifts!Busy(x1))' = Shifts!Busy(x1)
  BY <1>2 DEF Shifts!First, Shifts!Last, Shifts!Busy, Shifts!Min, Shifts!Max
<1>3. CASE Shifts!OpenShift
  <2>1. PICK from, to, lo, hi :
            from = Shifts!Start /\ to = Shifts!End /\ lo = Shifts!First /\ hi = Shifts!Last
    OBVIOUS
  <2>2. /\ x2 > 0 /\ x3 <= hi /\ x5' = Append(x5, <<from, to>>)
        /\ x4' = [h \in Shifts!Hour |-> IF h \in from..(to - 1) THEN x4[h] + 1 ELSE x4[h]]
        /\ x1' = x1 /\ x2' = x2 /\ x3' = x3
    BY <1>3, <2>1 DEF Shifts!OpenShift, Shifts!Working
  <2>3. /\ x1 \in [Shifts!Hour -> Nat] /\ x4 \in [Shifts!Hour -> Nat] /\ x2 \in Nat
        /\ x5 \in Seq(Int \X Int) /\ Shifts!Busy(x1) # {} /\ x3 \in Int /\ x3 >= lo
        /\ \A h \in Shifts!Hour : h < x3 => x4[h] >= x1[h]
        /\ \A k \in DOMAIN x5 : Fits(x5[k], x2, lo, hi)
    BY <2>1, <2>2 DEF ShiftsInv
  <2>4. lo \in Int /\ hi \in Int /\ lo <= hi
    BY <2>1, <2>3, BusyHours DEF Shifts!First, Shifts!Last
  <2>5. \/ x3 + x2 <= hi + 1 /\ from = x3 /\ to = x3 + x2
        \/ x3 + x2 > hi + 1 /\ hi + 1 >= lo + x2 /\ from = hi + 1 - x2 /\ to = hi + 1
        \/ x3 + x2 > hi + 1 /\ hi + 1 < lo + x2 /\ from = lo /\ to = hi + 1
    BY <2>1, <2>3, <2>4 DEF Shifts!Start, Shifts!End
  <2>6. /\ from \in Int /\ to \in Int /\ from >= lo /\ to <= hi + 1
        /\ to - from = x2 \/ (to - from < x2 /\ to - from = hi + 1 - lo)
    BY <2>3, <2>4, <2>5
  <2>7. Fits(<<from, to>>, x2, lo, hi)
    BY <2>1, <2>6 DEF Fits
  <2>8. x5' \in Seq(Int \X Int) /\ \A k \in DOMAIN x5' : Fits(x5'[k], x2, lo, hi)
    <3>1. <<from, to>> \in Int \X Int
      BY <2>6
    <3>2. PICK new \in Int \X Int : new = <<from, to>>
      BY <3>1
    <3>3. /\ x5' \in Seq(Int \X Int) /\ Len(x5') = Len(x5) + 1
          /\ x5'[Len(x5) + 1] = new /\ \A k \in 1..Len(x5) : x5'[k] = x5[k]
      BY <2>2, <2>3, <3>2, Appended
    <3>4. DOMAIN x5' = 1..(Len(x5) + 1) /\ DOMAIN x5 = 1..Len(x5) /\ Len(x5) \in Nat
      BY <2>3, <3>3
    <3>5. \A k \in DOMAIN x5' : k \in DOMAIN x5 \/ k = Len(x5) + 1
      BY <3>4
    <3> HIDE DEF Fits
    <3> QED BY <2>3, <2>7, <3>2, <3>3, <3>4, <3>5
  <2>9. x4' \in [Shifts!Hour -> Nat] /\ \A h \in Shifts!Hour : h < x3 => x4'[h] >= x1[h]
    BY <2>2, <2>3
  <2>10. /\ Shifts!First' = lo /\ Shifts!Last' = hi /\ (Shifts!Busy(x1))' # {}
    BY <1>2, <2>1, <2>2, <2>3
  <2>11. x1' \in [Shifts!Hour -> Nat] /\ x2' \in Nat /\ x2' # 0 /\ x3' \in Int /\ x3' >= lo
    BY <2>2, <2>3
  <2>12. \A h \in Shifts!Hour : h < x3' => x4'[h] >= x1'[h]
    BY <2>2, <2>9
  <2>13. \A k \in DOMAIN x5' : Fits(x5'[k], x2', Shifts!First', Shifts!Last')
    BY <2>2, <2>8, <2>10
  <2> HIDE DEF Fits
  <2> QED BY <2>8, <2>9, <2>10, <2>11, <2>12, <2>13 DEF ShiftsInv
<1>4. CASE Shifts!NextHour
  <2>1. /\ x2 > 0 /\ x3 <= Shifts!Last /\ x4[x3] >= x1[x3] /\ x3' = x3 + 1
        /\ x1' = x1 /\ x2' = x2 /\ x4' = x4 /\ x5' = x5
    BY <1>4 DEF Shifts!NextHour, Shifts!Working
  <2>2. /\ x1 \in [Shifts!Hour -> Nat] /\ x4 \in [Shifts!Hour -> Nat] /\ x3 \in Int
        /\ Shifts!Busy(x1) # {} /\ x3 >= Shifts!First
        /\ \A h \in Shifts!Hour : h < x3 => x4[h] >= x1[h]
    BY <2>1 DEF ShiftsInv
  <2>3. Shifts!First \in Int /\ Shifts!Hour \subseteq Int
    BY <2>2, BusyHours DEF Shifts!First
  <2>4. x3' \in Int /\ x3' >= Shifts!First /\ \A h \in Shifts!Hour : h < x3' => x4'[h] >= x1'[h]
    <3> HIDE DEF Shifts!First
    <3>1. \A h \in Shifts!Hour : h < x3 + 1 => h < x3 \/ h = x3
      BY <2>2, <2>3
    <3> QED BY <2>1, <2>2, <2>3, <3>1
  <2> QED BY <1>2, <2>1, <2>4 DEF ShiftsInv
<1> QED BY <1>1, <1>3, <1>4 DEF Shifts!Next

LEMMA ShiftsHolds == ShiftsInv => Shifts!ShiftsFit
<1> SUFFICES ASSUME ShiftsInv, x2 > 0 PROVE Shifts!ShiftsFit
  BY DEF Shifts!ShiftsFit
<1>1. /\ x1 \in [Shifts!Hour -> Nat] /\ x4 \in [Shifts!Hour -> Nat] /\ x3 \in Int
      /\ Shifts!Busy(x1) # {} /\ \A h \in Shifts!Hour : h < x3 => x4[h] >= x1[h]
      /\ \A k \in DOMAIN x5 : Fits(x5[k], x2, Shifts!First, Shifts!Last)
  BY DEF ShiftsInv
<1>2. PICK hi : hi = Shifts!Last
  OBVIOUS
<1>3. hi \in Int /\ \A h \in Shifts!Hour : h \in Int /\ (x1[h] > 0 => h <= hi)
  BY <1>1, <1>2, BusyHours DEF Shifts!Last
<1>4. x3 > hi => \A h \in Shifts!Hour : x4[h] >= x1[h]
  BY <1>1, <1>3
<1> QED BY <1>1, <1>2, <1>4 DEF Shifts!ShiftsFit, Fits

-----------------------------------------------------------------------------
\* The week's roster (Roster).

\* The hours of the week, as the sum they are.
AddsHours(w, s, g, S) ==
    g = [u \in SUBSET S |-> IF u = {} THEN 0 ELSE w[<<s, Pick(u)>>] + g[u \ {Pick(u)}]]
Hours(w, s) == Sum([d \in Week!Week |-> w[<<s, d>>]], Week!Week)

\* Worked without a day off.
Throughout(w, s, days) == \A d \in days : d \in Week!Day /\ w[<<s, d>>] > 0

\* In force from the time a shift is given.
Rested(w, slot) ==
    /\ Hours(w, slot[1]) <= MaxWeek /\ w[slot] <= MaxDay
    /\ \A d \in Week!Day : slot[2] \in d..(d + MaxRow) => ~Throughout(w, slot[1], d..(d + MaxRow))

WeekInv ==
    /\ x1 \in [Week!Slot -> 0..MaxLength] /\ x2 \subseteq Week!Slot
    /\ x3 \in {0} \cup FirstDay..(LastDay + 1)
    /\ x3 = 0 => x2 = {}
    /\ \A slot \in x2 : Rested(x1, slot)

LEMMA RosterNumbers ==
    /\ FirstDay \in Nat /\ LastDay \in Nat /\ MaxRow \in Nat /\ MaxDay \in Nat /\ MaxWeek \in Nat
    /\ MaxLength \in Nat /\ 0 < FirstDay /\ FirstDay <= LastDay /\ MaxLength > 0
    /\ Week!Week \subseteq Week!Day /\ Week!Day \subseteq Int /\ IsFiniteSet(Week!Week)
<1>1. /\ FirstDay \in Nat /\ LastDay \in Nat /\ MaxRow \in Nat /\ MaxDay \in Nat /\ MaxWeek \in Nat
      /\ MaxLength \in Nat /\ 0 < FirstDay /\ FirstDay <= LastDay /\ MaxLength > 0
  BY RosterAssumption
<1>2. \A d \in Week!Week : d \in Week!Day
  BY <1>1 DEF Week!Week, Week!Day
<1>3. \A d \in Week!Day : d \in Int
  BY <1>1 DEF Week!Day
<1>4. IsFiniteSet(FirstDay..LastDay)
  BY <1>1, FS_Interval
<1> QED BY <1>1, <1>2, <1>3, <1>4 DEF Week!Week

LEMMA HoursAdded ==
    ASSUME NEW w, NEW s
    PROVE  (CHOOSE g : AddsHours(w, s, g, Week!Week))[Week!Week] = Hours(w, s)
<1> DEFINE f == [d \in Week!Week |-> w[<<s, d>>]]
           S == Week!Week
<1>1. ASSUME NEW g PROVE AddsHours(w, s, g, S) <=> Adds(f, g, S)
  <2>1. \A u \in SUBSET S : u # {} => f[Pick(u)] = w[<<s, Pick(u)>>]
    BY PickIn
  <2>2. [u \in SUBSET S |-> IF u = {} THEN 0 ELSE w[<<s, Pick(u)>>] + g[u \ {Pick(u)}]]
      = [u \in SUBSET S |-> IF u = {} THEN 0 ELSE f[Pick(u)] + g[u \ {Pick(u)}]]
    <3> HIDE DEF f
    <3> QED BY <2>1
  <2> HIDE DEF f
  <2> QED BY <2>2 DEF Adds, AddsHours
<1>2. (CHOOSE g : AddsHours(w, s, g, S)) = (CHOOSE g : Adds(f, g, S))
  <2> HIDE DEF f, S
  <2> QED BY <1>1, Zenon
<1>3. Sum(f, S) = (CHOOSE g : Adds(f, g, S))[S]
  <2> HIDE DEF f, S
  <2> QED BY SumAdds
<1>4. Hours(w, s) = Sum(f, S)
  BY DEF Hours
<1> HIDE DEF f
<1> QED BY <1>2, <1>3, <1>4

LEMMA WeekHoursAre == \A s : Week!WeekHours(s) = Hours(x1, s)
<1> TAKE s
<1>1. Week!WeekHours(s) = (CHOOSE g : AddsHours(x1, s, g, Week!Week))[Week!Week]
  BY DEF Week!WeekHours, Week!MapThenSumSet, Week!MapThenFoldSet, AddsHours, Pick
<1> QED BY <1>1, HoursAdded

LEMMA WorksAllIs == \A s, days : Week!WorksAll(s, days) <=> Throughout(x1, s, days)
  BY DEF Week!WorksAll, Throughout

\* A shift on a free day adds its hours to those of the week.
LEMMA HoursGiven ==
    ASSUME NEW w \in [Week!Slot -> Nat], NEW s \in Staff, NEW day \in Week!Week, w[<<s, day>>] = 0,
           NEW length \in Nat, NEW v \in [Week!Slot -> Nat],
           \A slot \in Week!Slot : v[slot] = IF slot = <<s, day>> THEN length ELSE w[slot]
    PROVE  /\ Hours(v, s) = Hours(w, s) + length
           /\ \A t \in Staff : t # s => Hours(v, t) = Hours(w, t)
           /\ \A t \in Staff : Hours(w, t) \in Nat
<1>1. \A t \in Staff, d \in Week!Week : <<t, d>> \in Week!Slot
  BY RosterNumbers DEF Week!Slot
<1>2. \A t \in Staff, d \in Week!Week :
          v[<<t, d>>] = IF t = s /\ d = day THEN length ELSE w[<<t, d>>]
  <2> TAKE t \in Staff, d \in Week!Week
  <2>1. <<t, d>> \in Week!Slot /\ (<<t, d>> = <<s, day>> <=> t = s /\ d = day)
    BY <1>1
  <2> QED BY <2>1
<1>3. ASSUME NEW t \in Staff
      PROVE  \E a, b : /\ Hours(w, t) = Sum(a, Week!Week) /\ Hours(v, t) = Sum(b, Week!Week)
                      /\ \A d \in Week!Week : /\ a[d] \in Nat /\ a[d] = w[<<t, d>>]
                                              /\ b[d] \in Nat /\ b[d] = v[<<t, d>>]
  <2>1. PICK a, b : /\ a = [d \in Week!Week |-> w[<<t, d>>]]
                    /\ b = [d \in Week!Week |-> v[<<t, d>>]]
    OBVIOUS
  <2>2. Hours(w, t) = Sum(a, Week!Week) /\ Hours(v, t) = Sum(b, Week!Week)
    BY <2>1 DEF Hours
  <2>3. \A d \in Week!Week : a[d] = w[<<t, d>>] /\ b[d] = v[<<t, d>>]
    BY <2>1
  <2>4. \A d \in Week!Week : w[<<t, d>>] \in Nat /\ v[<<t, d>>] \in Nat
    BY <1>1
  <2> QED BY <2>2, <2>3, <2>4
<1>4. Hours(v, s) = Hours(w, s) + length
  <2>1. PICK a, b : /\ Hours(w, s) = Sum(a, Week!Week) /\ Hours(v, s) = Sum(b, Week!Week)
                    /\ \A d \in Week!Week : /\ a[d] \in Nat /\ a[d] = w[<<s, d>>]
                                            /\ b[d] \in Nat /\ b[d] = v[<<s, d>>]
    BY <1>3
  <2>2. a[day] = 0 /\ b[day] = length /\ \A d \in Week!Week : d # day => b[d] = a[d]
    BY <1>2, <2>1
  <2>3. (\A d \in Week!Week : a[d] \in Int) /\ b[day] \in Int
    <3>1. b[day] \in Int
      BY <2>2
    <3>2. ASSUME NEW d \in Week!Week PROVE a[d] \in Int
      <4>1. a[d] \in Nat
        BY <2>1
      <4> QED BY <4>1
    <3> QED BY <3>1, <3>2
  <2>4. \A d \in Week!Week : d # day => b[d] = a[d]
    BY <2>2
  <2>5. IsFiniteSet(Week!Week)
    BY RosterNumbers
  <2>6. Sum(b, Week!Week) = Sum(a, Week!Week) - a[day] + b[day]
    BY <2>3, <2>4, <2>5, SumChange
  <2>7. Sum(a, Week!Week) \in Int
    BY <2>3, <2>5, SumInt
  <2> QED BY <2>1, <2>2, <2>6, <2>7
<1>5. ASSUME NEW t \in Staff, t # s PROVE Hours(v, t) = Hours(w, t)
  <2>1. PICK a, b : /\ Hours(w, t) = Sum(a, Week!Week) /\ Hours(v, t) = Sum(b, Week!Week)
                    /\ \A d \in Week!Week : /\ a[d] \in Nat /\ a[d] = w[<<t, d>>]
                                            /\ b[d] \in Nat /\ b[d] = v[<<t, d>>]
    BY <1>3
  <2>2. \A d \in Week!Week : b[d] = a[d]
    BY <1>2, <1>5, <2>1
  <2> QED BY <2>1, <2>2, RosterNumbers, SumSame
<1>6. ASSUME NEW t \in Staff PROVE Hours(w, t) \in Nat
  <2>1. PICK a : Hours(w, t) = Sum(a, Week!Week) /\ \A d \in Week!Week : a[d] \in Nat
    BY <1>3
  <2> QED BY <2>1, RosterNumbers, SumNat
<1> QED BY <1>4, <1>5, <1>6

\* Whoever worked on all other days of a row longer than allowed is no candidate.
LEMMA RowTooLong ==
    ASSUME NEW s, NEW day \in Week!Week, NEW d \in Week!Day, day \in d..(d + MaxRow),
           \A e \in d..(d + MaxRow) : e # day => e \in Week!Day /\ x1[<<s, e>>] > 0
    PROVE  ~(Week!Row(s, day) <= MaxRow)
<1> DEFINE Earlier == {n \in 0..(LastDay + MaxRow) : Week!WorksAll(s, (day - n)..(day - 1))}
           Ahead == {n \in 0..(LastDay + MaxRow) : Week!WorksAll(s, (day + 1)..(day + n))}
<1>1. /\ day \in Int /\ d \in Int /\ MaxRow \in Nat /\ LastDay \in Nat /\ FirstDay \in Nat
      /\ day <= LastDay /\ d >= FirstDay - MaxRow /\ d <= day /\ day <= d + MaxRow
  BY RosterNumbers DEF Week!Week, Week!Day
<1>2. day - d \in Earlier
  <2>1. \A e \in d..(day - 1) : e \in d..(d + MaxRow) /\ e # day
    BY <1>1
  <2>2. Week!WorksAll(s, d..(day - 1))
    BY <2>1 DEF Week!WorksAll
  <2>3. day - d \in 0..(LastDay + MaxRow) /\ day - (day - d) = d
    BY <1>1
  <2> QED BY <2>2, <2>3
<1>3. d + MaxRow - day \in Ahead
  <2>1. \A e \in (day + 1)..(d + MaxRow) : e \in d..(d + MaxRow) /\ e # day
    BY <1>1
  <2>2. Week!WorksAll(s, (day + 1)..(d + MaxRow))
    BY <2>1 DEF Week!WorksAll
  <2>3. d + MaxRow - day \in 0..(LastDay + MaxRow) /\ day + (d + MaxRow - day) = d + MaxRow
    BY <1>1
  <2> QED BY <2>2, <2>3
<1>4. /\ Week!Before(s, day) \in Int /\ Week!Before(s, day) >= day - d
      /\ Week!After(s, day) \in Int /\ Week!After(s, day) >= d + MaxRow - day
  <2>1. IsFiniteSet(0..(LastDay + MaxRow)) /\ \A n \in 0..(LastDay + MaxRow) : n \in Int
    BY <1>1, FS_Interval
  <2>2. \A S : Week!Max(S) = Max(S)
    BY DEF Week!Max, Max
  <2>3. PICK S, T : S = Earlier /\ T = Ahead
    OBVIOUS
  <2>4. S \subseteq 0..(LastDay + MaxRow) /\ T \subseteq 0..(LastDay + MaxRow)
    BY <2>3
  <2>5. Week!Before(s, day) = Max(S) /\ Week!After(s, day) = Max(T)
    BY <2>2, <2>3 DEF Week!Before, Week!After
  <2> HIDE DEF Earlier, Ahead
  <2>6. IsFiniteSet(S) /\ IsFiniteSet(T)
    BY <2>1, <2>4, FS_Subset
  <2>7. day - d \in S /\ d + MaxRow - day \in T
    BY <1>2, <1>3, <2>3
  <2>8. \A n \in S \cup T : n \in Int
    BY <2>1, <2>4
  <2>9. Max(S) \in S /\ (\A n \in S : Max(S) >= n) /\ Max(T) \in T /\ \A n \in T : Max(T) >= n
    BY <2>6, <2>7, <2>8, MaxIn
  <2> QED BY <2>5, <2>7, <2>8, <2>9
<1> QED BY <1>1, <1>4 DEF Week!Row

LEMMA WeekInit == Week!Init => WeekInv
<1> SUFFICES ASSUME Week!Init PROVE WeekInv
  OBVIOUS
<1>1. x1 = [slot \in Week!Slot |-> 0] /\ x2 = {} /\ x3 = 0
  BY DEF Week!Init
<1>2. 0 \in 0..MaxLength
  BY RosterNumbers
<1>3. x1 \in [Week!Slot -> 0..MaxLength]
  BY <1>1, <1>2
<1> QED BY <1>1, <1>3 DEF WeekInv

LEMMA WeekNext == WeekInv /\ Week!Next => WeekInv'
<1> SUFFICES ASSUME WeekInv, Week!Next PROVE WeekInv'
  OBVIOUS
<1>1. /\ x1 \in [Week!Slot -> 0..MaxLength] /\ x2 \subseteq Week!Slot
      /\ x3 \in {0} \cup FirstDay..(LastDay + 1) /\ (x3 = 0 => x2 = {})
      /\ \A slot \in x2 : Rested(x1, slot)
  BY DEF WeekInv
<1>2. CASE Week!Begin
  <2>1. PICK taken \in SUBSET Week!Slot :
            x1' = [slot \in Week!Slot |-> IF slot \in taken THEN 1 ELSE 0]
    BY <1>2 DEF Week!Begin
  <2>2. x3 = 0 /\ x3' = FirstDay /\ x2' = x2
    BY <1>2 DEF Week!Begin
  <2>3. 0 \in 0..MaxLength /\ 1 \in 0..MaxLength
    BY RosterNumbers
  <2>4. x1' \in [Week!Slot -> 0..MaxLength]
    BY <2>1, <2>3
  <2>5. x3' \in {0} \cup FirstDay..(LastDay + 1)
    BY <2>2, RosterNumbers
  <2> QED BY <1>1, <2>2, <2>4, <2>5 DEF WeekInv
<1>3. CASE Week!Assign
  <2>1. PICK length \in 1..MaxLength, s \in Staff :
            /\ s \in Week!Candidates(length)
            /\ x1' = [x1 EXCEPT ![<<s, x3>>] = length] /\ x2' = x2 \cup {<<s, x3>>}
    BY <1>3 DEF Week!Assign, Week!Candidates
  <2>2. x3 \in Week!Week /\ x3' = x3 /\ <<s, x3>> \in Week!Slot /\ x3 # 0
    BY <1>3, RosterNumbers DEF Week!Assign, Week!Slot, Week!Week
  <2>3. /\ x1[<<s, x3>>] = 0 /\ length <= MaxDay /\ Hours(x1, s) + length <= MaxWeek
        /\ Week!Row(s, x3) <= MaxRow
    BY <2>1, WeekHoursAre DEF Week!Candidates
  <2>4. length \in 0..MaxLength /\ length \in Nat
    BY <2>1, RosterNumbers
  <2>5. x1' \in [Week!Slot -> 0..MaxLength] /\ x2' \subseteq Week!Slot
    BY <1>1, <2>1, <2>2, <2>4
  <2>6. \A slot \in Week!Slot : x1'[slot] = IF slot = <<s, x3>> THEN length ELSE x1[slot]
    BY <1>1, <2>1
  <2>7. 0..MaxLength \subseteq Nat
    BY RosterNumbers
  <2>8. x1 \in [Week!Slot -> Nat] /\ x1' \in [Week!Slot -> Nat]
    BY <1>1, <2>5, <2>7
  <2>9. /\ Hours(x1', s) = Hours(x1, s) + length
        /\ \A t \in Staff : t # s => Hours(x1', t) = Hours(x1, t)
    <3>1. PICK w \in [Week!Slot -> Nat], v \in [Week!Slot -> Nat], day \in Week!Week :
              w = x1 /\ v = x1' /\ day = x3
      BY <2>2, <2>8
    <3>2. /\ \A slot \in Week!Slot : v[slot] = IF slot = <<s, day>> THEN length ELSE w[slot]
          /\ w[<<s, day>>] = 0
      BY <2>3, <2>6, <3>1, Zenon
    <3>3. Hours(v, s) = Hours(w, s) + length /\ \A t \in Staff : t # s => Hours(v, t) = Hours(w, t)
      BY <2>4, <3>2, HoursGiven
    <3> QED BY <3>1, <3>3
  <2>10. ASSUME NEW slot \in x2' PROVE Hours(x1', slot[1]) <= MaxWeek /\ x1'[slot] <= MaxDay
    <3>1. CASE slot = <<s, x3>>
      BY <2>2, <2>3, <2>6, <2>9, <3>1
    <3>2. CASE slot # <<s, x3>>
      <4>1. slot \in x2 /\ slot \in Week!Slot /\ slot[1] \in Staff
        BY <1>1, <2>1, <3>2 DEF Week!Slot
      <4>2. Hours(x1, slot[1]) <= MaxWeek /\ x1[slot] <= MaxDay
        BY <1>1, <4>1 DEF Rested
      <4> QED BY <2>3, <2>6, <2>9, <3>2, <4>1, <4>2
    <3> QED BY <3>1, <3>2
  <2>11. ASSUME NEW slot \in x2', NEW d \in Week!Day, slot[2] \in d..(d + MaxRow),
                Throughout(x1', slot[1], d..(d + MaxRow))
         PROVE  FALSE
    <3>1. \A e \in d..(d + MaxRow) : e \in Week!Day /\ x1'[<<slot[1], e>>] > 0
      BY <2>11 DEF Throughout
    <3>2. slot \in Week!Slot /\ slot[1] \in Staff
      BY <2>5 DEF Week!Slot
    <3>3. \A e \in d..(d + MaxRow) : <<slot[1], e>> \in Week!Slot
      BY <3>1, <3>2 DEF Week!Slot
    <3>4. CASE slot[1] = s /\ x3 \in d..(d + MaxRow)
      <4>1. \A e \in d..(d + MaxRow) : e # x3 => e \in Week!Day /\ x1[<<s, e>>] > 0
        <5> TAKE e \in d..(d + MaxRow)
        <5>1. <<s, e>> \in Week!Slot /\ x1'[<<s, e>>] > 0 /\ e \in Week!Day
          BY <3>1, <3>3, <3>4
        <5> QED BY <2>6, <5>1
      <4> QED BY <2>2, <2>3, <3>4, <4>1, RowTooLong
    <3>5. CASE ~(slot[1] = s /\ x3 \in d..(d + MaxRow))
      <4>1. \A e \in d..(d + MaxRow) : x1[<<slot[1], e>>] > 0
        <5> TAKE e \in d..(d + MaxRow)
        <5>1. <<slot[1], e>> \in Week!Slot /\ x1'[<<slot[1], e>>] > 0
          BY <3>1, <3>3
        <5>2. <<slot[1], e>> # <<s, x3>>
          BY <3>5
        <5> QED BY <2>6, <5>1, <5>2
      <4>2. slot # <<s, x3>>
        BY <2>11, <3>5
      <4>3. slot \in x2
        BY <2>1, <4>2
      <4> QED BY <1>1, <2>11, <3>1, <4>1, <4>3 DEF Rested, Throughout
    <3> QED BY <3>4, <3>5
  <2>12. \A slot \in x2' : Rested(x1', slot)
    BY <2>10, <2>11 DEF Rested
  <2> QED BY <1>1, <2>2, <2>5, <2>12 DEF WeekInv
<1>4. CASE Week!NextDay
  <2>1. x3 \in Week!Week /\ x3' = x3 + 1 /\ x1' = x1 /\ x2' = x2
    BY <1>4 DEF Week!NextDay
  <2>2. x3' \in FirstDay..(LastDay + 1) /\ x3' # 0
    BY <2>1, RosterNumbers DEF Week!Week
  <2> QED BY <1>1, <2>1, <2>2 DEF WeekInv
<1> QED BY <1>2, <1>3, <1>4 DEF Week!Next

LEMMA WeekHolds == WeekInv => Week!TypeOK /\ Week!RestKept
<1> SUFFICES ASSUME WeekInv PROVE Week!TypeOK /\ Week!RestKept
  OBVIOUS
<1>1. Week!TypeOK
  BY DEF WeekInv, Week!TypeOK
<1>2. Week!RestKept
  BY WeekHoursAre, WorksAllIs DEF WeekInv, Rested, Week!RestKept
<1> QED BY <1>1, <1>2

-----------------------------------------------------------------------------
\* All of them.

PlansInv ==
    /\ part = "seating" => SeatingInv
    /\ part = "shifts" => ShiftsInv
    /\ part = "week" => WeekInv
    /\ part = "dining" => DiningInv
    /\ part = "taking" => TakingInv

LEMMA PlansInit == Init => PlansInv
<1> SUFFICES ASSUME Init PROVE PlansInv
  OBVIOUS
<1>1. /\ part = "seating" => Seating!Init
      /\ part = "shifts" => Shifts!Init
      /\ part = "week" => Week!Init
      /\ part = "dining" => Dining!Init
      /\ part = "taking" => Taking!Init
  BY DEF Init
<1> QED BY <1>1, SeatingInit, ShiftsInit, WeekInit, DiningInit, TakingInit DEF PlansInv

LEMMA PlansNext == PlansInv /\ Next => PlansInv'
<1> SUFFICES ASSUME PlansInv, Next PROVE PlansInv'
  OBVIOUS
<1>1. /\ part' = part
      /\ part = "seating" => Seating!Next
      /\ part = "shifts" => Shifts!Next
      /\ part = "week" => Week!Next
      /\ part = "dining" => Dining!Next
      /\ part = "taking" => Taking!Next
  BY DEF Next
<1> QED BY <1>1, SeatingNext, ShiftsNext, WeekNext, DiningNext, TakingNext DEF PlansInv

LEMMA PlansStays == PlansInv /\ UNCHANGED all => PlansInv'
<1> SUFFICES ASSUME PlansInv, UNCHANGED all PROVE PlansInv'
  OBVIOUS
<1>1. /\ part' = part /\ x1' = x1 /\ x2' = x2 /\ x3' = x3 /\ x4' = x4 /\ x5' = x5 /\ x6' = x6
      /\ x7' = x7 /\ x8' = x8 /\ x9' = x9 /\ x10' = x10 /\ x11' = x11
  BY DEF all
<1>2. SeatingInv => SeatingInv'
  BY <1>1 DEF SeatingInv, SeatingTyped, InARow
<1>3. ShiftsInv => ShiftsInv'
  BY <1>1 DEF ShiftsInv, Shifts!Busy, Shifts!First, Shifts!Last, Shifts!Min, Shifts!Max
<1>4. WeekInv => WeekInv'
  BY <1>1 DEF WeekInv
<1>5. DiningInv => DiningInv'
  BY <1>1 DEF DiningInv, DiningTyped, Marked, ApartFrom, Dining!NoOrphan, Dining!ScannedPaysAtTable,
              Dining!Exists
<1>6. TakingInv => TakingInv'
  BY <1>1 DEF TakingInv, Checked, Taking!TypeOK
<1> QED BY <1>1, <1>2, <1>3, <1>4, <1>5, <1>6 DEF PlansInv

LEMMA PlansAlways == PlansInv /\ [Next]_all => PlansInv'
  BY PlansNext, PlansStays

\* Whatever the guests, the diners and the staff do, waiting numbers are apart, the shifts of
\* a day fill its gaps, nobody is rostered for more than the rules allow, no unpaid order loses
\* its table, and a window takes hardly more orders than its limit (reservations,
\* staffing_service, scheduling_service, table_service, intake).
THEOREM PlansKeptHolds == Spec => []PlansKept
<1>1. PlansInv => PlansKept
  BY SeatingHolds, ShiftsHolds, WeekHolds, DiningHolds, TakingHolds DEF PlansInv, PlansKept
<1> QED BY PlansInit, PlansAlways, <1>1, PTL DEF Spec

\* However many customers book online at the same time, none of their bookings overfills a
\* slot (reservations: the room is looked at again under the lock).
THEOREM OnlineFitsHolds == Spec => OnlineFits
<1>1. PlansInv /\ [Next]_all => [part = "seating" => Seating!OnlineBookingFits]_all
  <2> SUFFICES ASSUME PlansInv, Next, part = "seating" PROVE Seating!OnlineBookingFits
    OBVIOUS
  <2>1. SeatingTyped /\ Seating!Next
    BY DEF PlansInv, SeatingInv, Next
  <2> QED BY <2>1, BookingFits
<1> QED BY PlansInit, PlansAlways, <1>1, PTL DEF Spec, OnlineFits

=============================================================================
