----------------------------- MODULE MCServices -----------------------------
(***************************************************************************)
(* The services around an order, one at a time: they share no state, so    *)
(* one of them is chosen at first and x1 .. x11 are its variables.  A      *)
(* service that has fewer leaves the others at Unused.                     *)
(***************************************************************************)
EXTENDS Integers, Sequences, FiniteSets, TLC

CONSTANTS Till, Trade, NoTrade, Request, Main, Addon, Source, Sink, Meal, Three,
          Branch, Hub, Table, Order, Clock, Vacant, Unused

\* Who and what there is of the services that have names of their own for it.
CONSTANTS Person, Item, Station, StationOf, NoStation, Member

\* The bounds of the services, under the names they have there.
CONSTANTS MaxCrash, MaxDeath, MaxAttempt, Tickets, MaxSend, MaxReprint, DailyJobs, DueAt,
          DayLength, Lease, MaxTime, MaxCall, MaxToken, Limit, QueueSize, MaxChange,
          MaxBroken, Many
CONSTANTS Seats, MaxParty, MaxTries, Staff, FirstDay, LastDay, MaxRow, MaxDay, MaxWeek, MaxLength,
          Opening, Closing, MaxNeed, MaxHours, Phone, MaxCode, MaxOrders, MaxWindow, MaxOffline
CONSTANTS MaxShift, MaxRecord, RequireShift, Locks, Stock0, MaxStock, MaxLot, MaxRecipe, BlockShort,
          Amount, MaxAttempts, MaxLost, Id, Batch, Value, MaxCommit, MaxFailure
CONSTANTS Issued, Cups, MaxUse, CardSize, MaxStamps, FirstPoints, MaxVoucher, MaxMeal, Valid, MaxRows,
          MaxPoints

ASSUME BoundAssumption ==
    {MaxCrash, MaxDeath, MaxAttempt, Tickets, MaxSend, MaxReprint, DailyJobs, DueAt, DayLength,
     Lease, MaxTime, MaxCall, MaxToken, Limit, QueueSize, MaxChange, MaxBroken, Many} \subseteq Nat

\* A delivery and a print are tried, a queue of notices holds one, and a connection is kept.
ASSUME TellingAssumption == MaxAttempt > 0 /\ MaxSend > 0 /\ Limit > 0 /\ QueueSize > 0 /\ Many > 0

\* There are jobs to do; the clock is at the end of a lease at first.
ASSUME JobsAssumption ==
    DailyJobs > 0 /\ DayLength > 0 /\ Lease < MaxTime /\ Clock \notin Request

\* Nobody is none of the requests, and no table is none of the tables.
ASSUME NobodyAssumption == Vacant \notin Request \cup Table

\* The requests and the guests are so many; a table has a code; there is a window, and it has
\* room for an order.
ASSUME FiniteAssumption == IsFiniteSet(Request) /\ IsFiniteSet(Three) /\ Three # {}
ASSUME BookingAssumption == {Seats, MaxParty, MaxTries} \subseteq Nat /\ MaxTries > 0
ASSUME DiningAssumption == MaxCode \in Nat \ {0}
ASSUME IntakeAssumption ==
    {MaxOrders, MaxWindow, MaxOffline} \subseteq Nat /\ MaxOrders > 0 /\ MaxWindow > 0

\* The days of the roster are numbered from one, a shift lasts an hour, and the day of the
\* plan begins and ends.
ASSUME RosterAssumption ==
    /\ {FirstDay, LastDay, MaxRow, MaxDay, MaxWeek, MaxLength} \subseteq Nat
    /\ 0 < FirstDay /\ FirstDay <= LastDay /\ MaxLength > 0
ASSUME PlanAssumption == {Opening, Closing, MaxNeed, MaxHours} \subseteq Nat

\* A dish's stock is one that is considered; the database numbers orders from one.
ASSUME BooksAssumption ==
    /\ {MaxShift, MaxRecord, Stock0, MaxStock, MaxLot, MaxRecipe} \subseteq Nat
    /\ MaxRecipe > 0 /\ Stock0 <= MaxStock
    /\ {Amount, MaxAttempts, MaxLost, Value, MaxCommit, MaxFailure} \subseteq Nat
    /\ Id \subseteq Nat \ {0}

\* A stamp card has room for a stamp; a member places so many orders.
ASSUME AdvanceAssumption ==
    /\ {Issued, Cups, MaxUse, MaxStamps, FirstPoints, MaxVoucher, MaxMeal, Valid, MaxRows, MaxPoints}
           \subseteq Nat
    /\ CardSize \in Nat \ {0} /\ IsFiniteSet(Order)

VARIABLES part, x1, x2, x3, x4, x5, x6, x7, x8, x9, x10, x11

all == <<part, x1, x2, x3, x4, x5, x6, x7, x8, x9, x10, x11>>

-----------------------------------------------------------------------------
\* Pricing: two lines at most, cheap and dear, one or two of each; at most two promotions.

Dish(price, quantity, kind) == [price |-> price, quantity |-> quantity, kind |-> kind]
RegularDish == {Dish(p, n, "regular") : p \in {1, 3}, n \in {1, 2}}
MCCarts ==
    {<<l>> : l \in RegularDish} \cup {<<l, m>> : l, m \in RegularDish}
    \cup {<<Dish(3, 2, "regular"), Dish(1, 1, kind)>> : kind \in {"addon", "reward", "pass"}}

OneFree == [kind |-> "bogo", buy |-> 1, get |-> 1, withCoupon |-> TRUE]
SecondHalf == [kind |-> "nth", n |-> 2, percent |-> 50, withCoupon |-> TRUE]
TwoOff == [kind |-> "threshold", threshold |-> 3, amount |-> 2, percent |-> 100, withCoupon |-> FALSE]
HalfOff == [kind |-> "threshold", threshold |-> 1, amount |-> 0, percent |-> 50, withCoupon |-> TRUE]
Deal == {OneFree, SecondHalf, TwoOff, HalfOff}
MCDeals == {<<>>} \cup {<<d>> : d \in Deal} \cup {<<d, e>> : d, e \in Deal}

-----------------------------------------------------------------------------

Price == INSTANCE Pricing WITH
    Carts <- MCCarts, Deals <- MCDeals, Percents <- {0, 50}, MaxPoints <- 13,
    Caps <- {0, 2}, Fees <- {0, 2},
    cart <- x1, deals <- x2, stage <- x3, used <- x4, off <- x5, promotion <- x6,
    noCoupon <- x7, remaining <- x8, offered <- x9, paidByPoints <- x10, bill <- x11

Quota == INSTANCE AddonQuota WITH
    MaxUnits <- 2, units <- x1, fits <- x2, cap <- x3, flow <- x4, verdict <- x5

Drawer == INSTANCE CashShift WITH
    shift <- x1, record <- x2, till <- x3

Larder == INSTANCE Ingredients WITH
    Order <- Meal, Worker <- Request, Restock <- BOOLEAN,
    stock <- x1, moved <- x2, lots <- x3, recipe <- x4, order <- x5, net <- x6,
    purchase <- x7, received <- x8, doing <- x9, overtaken <- x10

Advance == INSTANCE Prepaid WITH
    Counter <- Three,
    card <- x1, cupPass <- x2, paidBy <- x3, drunk <- x4, counter <- x5

Expiry == INSTANCE PointExpiry WITH
    MaxTime <- MaxRows, row <- x1, known <- x2

Reserve == INSTANCE Deposit WITH
    Worker <- Request,
    row <- x1, payment <- x2, late <- x3, opening <- x4, page <- x5, taken <- x6,
    answered <- x7, given <- x8, told <- x9, crashes <- x10

Seating == INSTANCE Booking WITH
    Guest <- Three,
    booking <- x1, asking <- x2, number <- x3, drawing <- x4

Week == INSTANCE Roster WITH
    worked <- x1, given <- x2, today <- x3

Shifts == INSTANCE ShiftPlan WITH
    need <- x1, hours <- x2, hour <- x3, cover <- x4, shifts <- x5

Together == INSTANCE GroupOrder WITH
    Worker <- Request \cup {Clock}, Scheduler <- Clock,
    group <- x1, entry <- x2, ordered <- x3, time <- x4, auto <- x5, worker <- x6, crashes <- x7

Telling == INSTANCE Webhook WITH
    Worker <- Request, NoWorker <- Vacant,
    order <- x1, seen <- x2, queue <- x3, delivery <- x4, sender <- x5, crashes <- x6

Printer == INSTANCE PrintQueue WITH
    Printing <- Request,
    job <- x1, pass <- x2, asked <- x3, printed <- x4, deaths <- x5

\* Two dishes of a station each, and one of none.
MCStationOf == <<"grill", "bar", "none">>

Stations == INSTANCE Kitchen WITH
    Press <- Request,
    status <- x1, prepared <- x2, press <- x3, ready <- x4, deaths <- x5

Dining == INSTANCE DiningTables WITH
    NoTable <- Vacant, MaxToken <- MaxCode,
    table <- x1, active <- x2, session <- x3, order <- x4, scanned <- x5, fromTable <- x6,
    request <- x7

Invoices == INSTANCE EInvoice WITH
    Worker <- Request,
    paid <- x1, cancelled <- x2, refunded <- x3, row <- x4, authority <- x5, sameTerm <- x6,
    due <- x7, job <- x8, lost <- x9

Files == INSTANCE Archive WITH
    Order <- Three, Process <- Request,
    id <- x1, over <- x2, value <- x3, made <- x4, file <- x5, spent <- x6, archiving <- x7,
    deaths <- x8

StampCards == INSTANCE Stamps WITH
    Order <- Three,
    order <- x1, earned <- x2, ledger <- x3, seen <- x4, cards <- x5

Rewards == INSTANCE Vouchers WITH
    Worker <- Request,
    Points <- FirstPoints, points <- x1, voucher <- x2, meals <- x3, txn <- x4

Jobs == INSTANCE Scheduler WITH
    Process <- Request, Shell <- Clock, NoProcess <- Vacant, Jobs <- DailyJobs,
    now <- x1, lease <- x2, turn <- x3, marked <- x4, ran <- x5, byHand <- x6, deaths <- x7

Platform == INSTANCE PlatformOrder WITH
    Ticket <- Order, NoTicket <- Vacant,
    orders <- x1, open <- x2, request <- x3, told <- x4, calls <- x5

Drivers == INSTANCE HomeDelivery WITH
    Dispatcher <- Request, Driver <- Order, Nobody <- Vacant,
    order <- x1, desk <- x2, holder <- x3, position <- x4

Screens == INSTANCE EventBus WITH
    Screen <- Three, Notifier <- Request, NoThread <- Vacant,
    subscribers <- x1, queued <- x2, screen <- x3, stale <- x4, notifier <- x5, full <- x6,
    lock <- x7, changes <- x8

Taking == INSTANCE Intake WITH
    MaxTime <- MaxWindow,
    now <- x1, pause <- x2, request <- x3, taken <- x4, offline <- x5

Mailing == INSTANCE Campaign WITH
    Worker <- Request \cup {Clock}, Scheduler <- Clock,
    campaign <- x1, status <- x2, ended <- x3, run <- x4, sends <- x5, told <- x6,
    broken <- x7, overtaken <- x8

Editing == INSTANCE MenuStock WITH
    stock <- x1, soldOut <- x2, edit <- x3, counted <- x4, said <- x5, overtaken <- x6

Back == INSTANCE Restore WITH
    MaxDeath <- MaxFailure,
    main <- x1, inMain <- x2, inLog <- x3, extracted <- x4, copies <- x5, before <- x6,
    upgraded <- x7, step <- x8, deaths <- x9

-----------------------------------------------------------------------------

Free11 == x11 = Unused
Free10 == x10 = Unused /\ Free11
Free9 == x9 = Unused /\ Free10
Free8 == x8 = Unused /\ Free9
Free7 == x7 = Unused /\ Free8
Free6 == x6 = Unused /\ Free7
Free5 == x5 = Unused /\ Free6
Free4 == x4 = Unused /\ Free5
Free3 == x3 = Unused /\ Free4

from10 == <<x10, x11>>
from9 == <<x9, from10>>
from8 == <<x8, from9>>
from7 == <<x7, from8>>
from6 == <<x6, from7>>
from5 == <<x5, from6>>
from4 == <<x4, from5>>
from3 == <<x3, from4>>

Init ==
    \/ part = "price" /\ Price!Init
    \/ part = "quota" /\ Quota!Init /\ Free6
    \/ part = "drawer" /\ Drawer!Init /\ Free4
    \/ part = "larder" /\ Larder!Init /\ Free11
    \/ part = "advance" /\ Advance!Init /\ Free6
    \/ part = "expiry" /\ Expiry!Init /\ Free3
    \/ part = "reserve" /\ Reserve!Init /\ Free11
    \/ part = "seating" /\ Seating!Init /\ Free5
    \/ part = "week" /\ Week!Init /\ Free4
    \/ part = "shifts" /\ Shifts!Init /\ Free6
    \/ part = "together" /\ Together!Init /\ Free8
    \/ part = "telling" /\ Telling!Init /\ Free7
    \/ part = "printer" /\ Printer!Init /\ Free6
    \/ part = "stations" /\ Stations!Init /\ Free6
    \/ part = "dining" /\ Dining!Init /\ Free8
    \/ part = "invoices" /\ Invoices!Init /\ Free10
    \/ part = "files" /\ Files!Init /\ Free9
    \/ part = "stampCards" /\ StampCards!Init /\ Free6
    \/ part = "rewards" /\ Rewards!Init /\ Free5
    \/ part = "jobs" /\ Jobs!Init /\ Free8
    \/ part = "platform" /\ Platform!Init /\ Free6
    \/ part = "drivers" /\ Drivers!Init /\ Free5
    \/ part = "screens" /\ Screens!Init /\ Free9
    \/ part = "taking" /\ Taking!Init /\ Free6
    \/ part = "mailing" /\ Mailing!Init /\ Free9
    \/ part = "editing" /\ Editing!Init /\ Free7
    \/ part = "back" /\ Back!Init /\ Free10

Next ==
    \/ part = "price" /\ Price!Next /\ UNCHANGED part
    \/ part = "quota" /\ Quota!Next /\ UNCHANGED <<part, from6>>
    \/ part = "drawer" /\ Drawer!Next /\ UNCHANGED <<part, from4>>
    \/ part = "larder" /\ Larder!Next /\ UNCHANGED <<part, x11>>
    \/ part = "advance" /\ Advance!Next /\ UNCHANGED <<part, from6>>
    \/ part = "expiry" /\ Expiry!Next /\ UNCHANGED <<part, from3>>
    \/ part = "reserve" /\ Reserve!Next /\ UNCHANGED <<part, x11>>
    \/ part = "seating" /\ Seating!Next /\ UNCHANGED <<part, from5>>
    \/ part = "week" /\ Week!Next /\ UNCHANGED <<part, from4>>
    \/ part = "shifts" /\ Shifts!Next /\ UNCHANGED <<part, from6>>
    \/ part = "together" /\ Together!Next /\ UNCHANGED <<part, from8>>
    \/ part = "telling" /\ Telling!Next /\ UNCHANGED <<part, from7>>
    \/ part = "printer" /\ Printer!Next /\ UNCHANGED <<part, from6>>
    \/ part = "stations" /\ Stations!Next /\ UNCHANGED <<part, from6>>
    \/ part = "dining" /\ Dining!Next /\ UNCHANGED <<part, from8>>
    \/ part = "invoices" /\ Invoices!Next /\ UNCHANGED <<part, from10>>
    \/ part = "files" /\ Files!Next /\ UNCHANGED <<part, from9>>
    \/ part = "stampCards" /\ StampCards!Next /\ UNCHANGED <<part, from6>>
    \/ part = "rewards" /\ Rewards!Next /\ UNCHANGED <<part, from5>>
    \/ part = "jobs" /\ Jobs!Next /\ UNCHANGED <<part, from8>>
    \/ part = "platform" /\ Platform!Next /\ UNCHANGED <<part, from6>>
    \/ part = "drivers" /\ Drivers!Next /\ UNCHANGED <<part, from5>>
    \/ part = "screens" /\ Screens!Next /\ UNCHANGED <<part, from9>>
    \/ part = "taking" /\ Taking!Next /\ UNCHANGED <<part, from6>>
    \/ part = "mailing" /\ Mailing!Next /\ UNCHANGED <<part, from9>>
    \/ part = "editing" /\ Editing!Next /\ UNCHANGED <<part, from7>>
    \/ part = "back" /\ Back!Next /\ UNCHANGED <<part, from10>>

Spec == Init /\ [][Next]_all

\* The requests, the tables, the orders and whatever there are three of.
Symmetry ==
    Permutations(Request) \cup Permutations(Table) \cup Permutations(Order) \cup Permutations(Three)

-----------------------------------------------------------------------------

\* An order's amounts add up, points can pay all of it, promotions of single items leave no
\* line below zero (Pricing), and a cart is accepted exactly when each of its add-ons can be
\* given a dish of its own (AddonQuota).
PricesRight ==
    /\ part = "price" => Price!AmountsAddUp /\ Price!PointsPayAll /\ Price!LinesStayPositive
    /\ part = "quota" => Quota!QuotaExact

\* One drawer shift is open, and a closed one has reported each of its sales (CashShift);
\* an ingredient's stock is what its movements say, an order gets back what it used, a
\* purchase is put in once (Ingredients); the tax authority is asked once at a time, and what
\* is recorded is what it knows (EInvoice); archiving loses no order and nothing its member
\* has spent (Archive); what was there when a restore began is still somewhere (Restore);
\* saving a dish keeps what was sold meanwhile, and it is sold out for a reason (MenuStock).
BooksBalance ==
    /\ part = "drawer" => Drawer!TypeOK /\ Drawer!OneShiftOpen /\ Drawer!SalesReported
    /\ part = "larder" =>
           Larder!TypeOK /\ Larder!RestoredExactly /\ Larder!ReceivedOnce /\ Larder!StockIsMovements
    /\ part = "invoices" => Invoices!TypeOK /\ Invoices!OneCallAtATime /\ Invoices!StatusTrue
    /\ part = "files" => Files!TypeOK /\ Files!NothingLost /\ Files!SpentKept
    /\ part = "back" => Back!TypeOK /\ Back!CanGoBack
    /\ part = "editing" => Editing!TypeOK /\ Editing!StockCounted /\ Editing!FlagHasReason

\* Gift card and pass are never overdrawn and no refunded pass was used (Prepaid); points
\* expire exactly when due (PointExpiry); a reservation that is over has decided about its
\* deposit (Deposit); a full stamp card is exchanged once (Stamps); nobody has the meal and
\* the points it cost (Vouchers).
AdvancesKept ==
    /\ part = "advance" => Advance!TypeOK /\ Advance!NeverOverdrawn /\ Advance!RefundedPassUnused
    /\ part = "expiry" => Expiry!TypeOK /\ Expiry!ExpiryExact
    /\ part = "reserve" => Reserve!TypeOK /\ Reserve!OverIsDecided
    /\ part = "stampCards" => StampCards!TypeOK /\ StampCards!CardsExact
    /\ part = "rewards" => Rewards!TypeOK /\ Rewards!MealOrPoints

\* Waiting numbers are apart (Booking), a day's shifts fill its gaps (ShiftPlan) and nobody
\* is rostered for more than the rules allow (Roster); no unpaid order loses its table, and
\* who scanned a table's code pays at that table (DiningTables); a window takes hardly more
\* orders than its limit (Intake).
PlansKept ==
    /\ part = "seating" => Seating!TypeOK /\ Seating!NumbersApart
    /\ part = "shifts" => Shifts!ShiftsFit
    /\ part = "week" => Week!TypeOK /\ Week!RestKept
    /\ part = "dining" => Dining!TypeOK /\ Dining!NoOrphan /\ Dining!ScannedPaysAtTable
    /\ part = "taking" => Taking!TypeOK /\ Taking!LimitNearlyKept

\* A submitted group has everybody's order (GroupOrder), another system is told of each event
\* once and in order (Webhook), a ticket is printed at most as often as it was asked for
\* (PrintQueue); the last station completes an order, and the customer is told once (Kitchen);
\* one process does the scheduled work, each job once a day (Scheduler); a platform's ticket
\* has one order (PlatformOrder); a driver's link is that of the order's driver
\* (HomeDelivery); a screen that is behind finds a notice (EventBus); a campaign reaches a
\* member once (Campaign).
OnceEach ==
    /\ part = "together" => Together!TypeOK /\ Together!EveryoneOrdered
    /\ part = "telling" => Telling!TypeOK /\ Telling!ToldInOrder
    /\ part = "printer" => Printer!TypeOK /\ Printer!PrintedAsAsked
    /\ part = "stations" => Stations!TypeOK /\ Stations!LastCompletes /\ Stations!ReadyOnce
    /\ part = "jobs" => Jobs!TypeOK /\ Jobs!OneAtWork /\ Jobs!DailyOnce
    /\ part = "platform" => Platform!TypeOK /\ Platform!OneOrder /\ Platform!AcceptedIsMade
    /\ part = "drivers" => Drivers!TypeOK /\ Drivers!LinkIsDrivers /\ Drivers!DeliveredIsOver
    /\ part = "screens" => Screens!TypeOK /\ Screens!ChangeIsNoticed
    /\ part = "mailing" => Mailing!TypeOK /\ Mailing!SentOnce

\* Customers who book online at the same time do not overfill a slot (Booking).
OnlineFits == [][part = "seating" => Seating!OnlineBookingFits]_all

=============================================================================
