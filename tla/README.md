# Formal models of the ordering system

TLA+ models of the shop's ordering system, the TLC configurations that check
them on small instances, and proofs, checked by TLAPS, of what they say for every
instance. Every definition is translated from the Python code under `src/app`; PROJECT.json
maps each one to its lines.

## 1. The system

A **branch** is one Flask process in a shop (SQLite, Waitress threads): POS, kiosk,
kitchen screens and table QR codes all talk to it. The **hub** is the same program online
(PostgreSQL, several gunicorn workers): customers order and pay there, branches push their
rows to it and pull from it. Requests share nothing but the database, so a race is always a
row read by one request and written by another before the first one writes. Background
threads (sync push and pull, payment expiry, webhooks, deferred tasks) are further requests.

### Inventory

*Hard* names what makes a component hard to test, *correct* what must hold.

| component (source under `src/app`) | state | operations | talks to | hard | correct |
|---|---|---|---|---|---|
| Checkout and order stock (`services/order_checkout.py`, `order_stock.py`) | order, order_item, menu_item.stock and is_sold_out, daily_counter | process_checkout (prepare, price, persist), _change_stock, _deduct_stock, next_pickup_number | members, promotions, payment records | two checkouts for the last portion; retry with the same client_order_id; failure after stock was taken | stock is conserved; lines agree with stock; a failed checkout leaves nothing |
| Order lifecycle (`order_lifecycle.py`, `order_service.py`, `kitchen_service.py`) | order.status, order_item.quantity, voided_qty, prepared_at | change_order_status, void_item, complete-all, complete a station, end of day, system_cancel | stock, refunds, members | status read, role checked, then compare-and-swap; void against cancellation; two stations that finish at once | statuses only move along the legal transitions; stock and money go back once; the last station completes the order |
| Table bills (`table_service.py`, `routes/tables.py`) | order.payment_status, settlement, dining_table, the telephones' sessions | settle_table, scan a code, move orders, rotate, disable and delete tables, fix conflicts | payment records, online table payment | the bill is added up before the conditional UPDATE; an order placed while its table is deleted | what is collected is what is owed, once; no unpaid order without a table |
| Payment records and refunds (`payment_service.py`, `routes/finance.py`) | payment_record, refund, order.refunded_amount | record_payment, on_order_cancelled, on_item_voided, partial_refund, mark_refund_done, refund queue | lifecycle, ECPay, LINE Pay | several refunds at once; provider called between claim and result; crash in between | records add up; refunds never exceed the order |
| Order, payment and stock tables (`models/`) | the columns above | none | all of the above | | |
| Sync change tracking and transfer (`sync/tracking.py`, `engine.py`, `node.py`, `hub.py`, `registry.py`) | sync_clock, sync_rev per row, push_cursor, sync_conflict, the hub's rows | stamp at commit, collect_changes, push, apply, save cursor, retry | every synced table | commits while a push reads; lost answers; late pages; restart between pages | nothing is lost or goes back; the hub holds no dangling row |
| Sync merge rules (`sync/engine.py`) | two copies of a row | _merge, _merge_order, _merge_transfer, tombstones, aliases | transfer | equal timestamps, concurrent cancellation | both databases end with the same row |
| Online stock (`sync/hub.py`, `node._apply`) | hub's stock snapshot per branch, orders in flight | snapshot, online checkout, arrival at the branch | transfer, checkout | a snapshot older than an order in flight | online orders never exceed the branch's stock by more than was in flight |
| ECPay (`payment_ecpay.py`, `routes/payment.py`) | ecpay payments, order.payment_status | open a form, notification, expiry sweep, automatic refund | lifecycle | notification against expiry; two forms for one order; crash between expired and cancelled | money taken belongs to a live order or is to be refunded |
| Table payment by phone (`table_pay_service.py`) | table payment: pending, processing, settled, conflict | claim, settle, conflict | table bills, ECPay | crash after the claim | a paid bill is settled or in conflict |
| LINE Pay (`linepay.py`, `payment_service.py`) | order.payment_status = authorizing | charge, unknown result, refund | lifecycle | charge answered while the order is cancelled; crash | as ECPay |
| Members (`points_service.py`, coupons, vouchers, wallet, gift cards, passes) | ledgers and balances | use, earn, restore, expire | checkout, lifecycle, sync | conditional deductions, restores on cancellation | balance = ledger; never negative on one database |
| Loyalty (`loyalty_service.py`, `marketing_service.py`) | stamps, tiers, referrals, expiry rows, campaigns and their sends | earn, undo, expire, correct; run, pause, recover a campaign | members | undo after use; what was spent before an expiry is uploaded after it; a campaign run by several | nothing is granted twice; points expire when due |
| Cash shifts (`shift_service.py`) | cash_shift, record.shift_id | open, close, record | payment records | a record written while its shift closes | each record is in one shift's count |
| Inventory and purchasing | lots, purchase orders | consume, restore, receive | checkout | receiving twice | lots never negative |
| Branches and stock transfers (`branch_service.py`) | stock_transfer.status | request, ship, receive, cancel on two databases | sync merge | cancelled here, shipped there | goods arrive once |
| Reservations, waitlist, deposits | reservation, deposit | book, pay, cancel, expire | ECPay | deposit paid while cancelled | as ECPay |
| Group orders (`group_order_service.py`) | group, entries, submission claim | join, save, submit | checkout | an entry saved while it is submitted | submitted once with every entry |
| Intake, ETA, pickup (`intake_service.py`) | pause and its end | pause, resume, count a window | checkout | the count is read before the checkout writes | hardly more orders than the limit |
| Delivery (`delivery_service.py`, `own_delivery_service.py`) | delivery_status, driver, link, platform reference | assign, depart, complete, import, accept, deny | lifecycle | a notice that comes twice at once; two dispatchers | one order per ticket; the link is the driver's |
| E-invoices (`einvoice_ecpay.py`) | invoice.status, allowance | issue, query, void, allow, retry | payment, lifecycle | answer lost; cancelled while it is issued; crash | one call at a time; the row says what the authority has |
| Webhooks, push, notifications, event bus (`webhook_service.py`, `event_bus.py`) | webhook_seen, webhook_delivery; queues in memory | scan, send, retry; subscribe, publish, evict | everything | retry of a delivered call; a queue that is full | events in order, and no delivery stuck; a screen that is behind finds a notice |
| Printing, receipts (`print_service.py`) | print_job | enqueue, claim, send, recover, reprint | checkout | several processes; death while sending | a ticket is printed as often as asked |
| Deferred tasks, maintenance (`deferred.py`, `maintenance_service.py`) | in-memory queue; lease and marker per job | after commit, drop on rollback; take a turn, run a daily job | everything | crash after commit; two leaders | one process at work; once a day |
| Backup, archive, updates, migrations (`archive_service.py`, `backup_service.py`) | the database file and its log, archive files | archive a batch, restore, update | everything | two files that do not commit together; crash at every step | no order is lost; the old database can be gone back to |
| Accounts, approvals, devices, security | accounts, approvals | check before a handler | every handler | | |
| Menu and settings administration (`menu_service.py`, `routes/admin.py`, `api_v1.py`) | menu_item, settings | edit forms, import, an integrator's call | stock | a form is open while dishes are sold | what is sold meanwhile is kept |
| Pricing and promotions | none | calculate | checkout | | |
| Staffing (`staffing_service.py`, `scheduling_service.py`), accounting, reports | roster rows | plan a day, fill a week | | weeks that meet | the rules of work |
| AI, chatbot, voice; browser front end | | | | | |

PROJECT.json "components" lists every one with its files and status, "hazards" every
behaviour that is hard to test at the line where it bites, and the property that covers it.

## 2. Modules and runs

| module | models | run (distinct states) | shows |
|---|---|---|---|
| `Shop`, `MCShop` | one shop database and the requests that change its orders | `Orders` (3.2 million), `Money` (2.6 million); `VoidRace`, `SettleRace`, `RefundRace` violated | section 3 |
| `ChangeFeed` | a branch's pushes to the hub | `Feed` (694 thousand); `FeedMissed` violated | section 4 |
| `OnlinePayment` | money taken by a provider, from the page to the refund | `OnlinePay` (1.1 million); `RefundDone` violated | section 5 |
| `PaymentPromise` | what is promised for an order's money, abstractly | implemented, in `OnlinePay` | section 5 |
| `OnlineStock`, `StockTransfer`, `OrderSync`, `Members`, composed in `MCHosts` | what two databases do to each other | `Hosts` (2.6 million) | section 6 |
| 27 service modules, composed in `MCServices` | the services around an order | `Services` (3.2 million) | section 7 |
| `MCEventually` | the background threads, with fairness | `Eventually` (27 thousand) | section 8 |
| `Shop_proofs`, `ChangeFeed_proofs`, `OnlinePayment_proofs`, `MCHosts_proofs`, `MCServices_proofs`, `MCServicesMoney_proofs`, `MCServicesAdvances_proofs` | theorems | | section 9 |

A run that passes is exhaustive within its bounds. Deadlock is checked where the system
cannot stop (`Orders`, `Money`); the other instances run out of their bounded counters.

A definition marked `Slip` is a plausible mistake in the definition that follows it, or in
the one it names: put in its place, it makes a property fail. PROJECT.json "mutants" pairs one with
each property of a run; the others are there to be tried by hand when a module changes.

## 3. Shop

**State.** `stock`, `soldOut` (one menu item), `counter` (the pickup counter), `ord` (the
order rows with their lines), `till` (payment_record summed per order), `req` (what each
terminal's request has read). `taken`, `returned` and `wasted` are history: the portions an order's
transactions took, put back, and did not put back. `pay = "at_once"` is the code's empty payment_status.
A total is the discounted price plus a rounded service charge (orders eaten in) or a delivery fee (orders
brought home); the shop's percentage and the fees of its zones are the sets `Charges` and `Fees`. `Restock`
holds the values the setting restock_on_cancel may have when a void or a cancellation reads it.

**Steps.** A handler is a `Begin...` (its reads and checks) and a `Commit...` (its
transaction). Between the two, other requests commit. A commit looks again only at what the
code reads again or puts in an UPDATE's WHERE:

| actions | code | what the commit checks again |
|---|---|---|
| BeginCheckout, CommitCheckout | process_checkout | stock (conditional UPDATE), the unique client_order_id |
| BeginStatus, CommitStatus, CommitCancel | change_order_status | the status (UPDATE ... WHERE status = as read), pay and refunded; not the total |
| BeginVoid, CommitVoid | void_item | the line's quantity, the order's amounts; not that it is cancelled |
| BeginSettle, CommitSettle | settle_table | unpaid and not cancelled; not the total |
| BeginRefund, CommitRefund | partial_refund | what is left to refund |
| CompleteAll, RefundDone, SetSoldOut | one UPDATE each | its WHERE |
| Rollback | an error, a duplicate, a crash | |

Transactions are atomic: SQLite has one writer, PostgreSQL locks the order's and the item's
row with the first UPDATE. A crash between the phases is `Rollback`.

**Runs.**
`Orders`: two orders, a manager and a member of staff, two portions, a gift of one, pickup
numbers 1..2. Two portions are the least for which a gift is dropped and a checkout fails;
two orders and two terminals the least for every pair of handlers to interleave on one order
or on the item. The counter does not wrap (two orders), and restock_on_cancel may be on or off at each
void and cancellation. `Money`: one order of up to three portions at 4 with a discount of 0 or 2 and with a service
charge of 10%, a delivery fee of 2 or neither, so that the charge and the shares are rounded both ways, voided and
partly refunded by two terminals; no gift and no choice of restocking, which no amount depends on. Both are exhaustive. `Orders` uses the symmetry of the two
orders, sound because it checks no liveness; deadlock is checked in both.

- `StockConserved`, `LinesMatchStock`: no interleaving takes a portion for two orders or loses one; what is
  not put back is only what the setting says so of.
- `PaidMeansCollected`, `CancelledIsRefunded`, `TillBalances`: the money.
- `NetWithinItems`: what a live order keeps, its delivery fee apart (void_item subtracts it, order_lifecycle.py:201).
  Without a service charge it is no more than the remaining portions are worth. The charge is shared out by the
  price of the portions like the rest, so with one the bound is their price and their part of the charge, and
  half a dollar more for each voided portion, which the rounding of its refund may cost.
- `PickupInTurn`: the number is taken in the order's transaction. That a transaction that fails leaves nothing is the
  database's promise (`Rollback`), not a result.
- `StatusForward`, `OnlyManagersUndoPickup`: what no step may do. (`ManualSoldOutStays`, that
  a dish the staff marked sold out is not put on sale by a cancellation, is stated in the module.)

**Where the code and its documents disagree** (PROJECT.json "findings"):

1. `VoidRace`: a void that has passed its check commits after a cancellation and puts the
   portions back again (order_lifecycle.py:158).
2. `SettleRace`: a void that commits while a table is settled; the till takes the old
   amount (table_service.py:337).
3. `RefundRace`: a void and a settlement commit between a cancellation's read and its swap;
   it refunds the old total (payment_service.py:264).

**Left out.** What members pay with (`Members`, `Vouchers`, `Prepaid`); LINE Pay
(`OnlinePayment`); tables (`DiningTables`); split tenders and approvals; orders another branch makes, whose stock
is not this one's; the stock field of the menu form; the creation of the day's counter
row; several items (each has a row and a conditional UPDATE of its own, taken in one order).

## 4. ChangeFeed

**State.** `clock` (sync_clock.rev), `rev` (sync_rev per row), `txn` (open transactions),
`cursor` (push_cursor), `push` (the loop's locals: bound, position, page), `late` (pages the
branch gave up on), `got` (the version of each row the hub has), `reported` (sync_conflict),
`failures`. A version is named by the revision it was stamped with. The negative marker of an
open transaction is its membership in `txn[w].rows`.

**Steps.** `Write`, `AssignRevision` (before_commit: sync_clock + 1, its row locked),
`CommitTxn`, `AbortTxn`; `BeginPush` reads the bound, `ReadTable` is one SELECT of
collect_changes, `Apply` the hub's handler, `ReceiveAnswer` the branch's, `FinishPush`
saves the cursor, `FailPush` any error or restart (with or without the page still reaching
the hub), `ApplyLate` such a page. The SELECTs of a push do not share a snapshot: neither
database is given more than read committed, and SQLite's driver opens no transaction for a
SELECT. The model lets several transactions be open, as on PostgreSQL; SQLite allows fewer.

**Run `Feed`.** An order and its two lines in two tables, pages of two rows (a page ends
between the lines, a push takes two pages, a full page can be the last), three revisions
(a row is stamped again behind the bound, and again after), two writers, one failure.
Exhaustive.

- `RevisionsInCommitOrder`: the reason a cursor may be a revision at all.
- `RootsDelivered`, `MissedIsReported`: what the cursor is past has arrived, or it was refused and the
  branch knows.
- `ReferencesHold`, `NeverBack`: what the hub has is consistent and only gets newer.
- `EventuallyDelivered`: rows that need no other are up to date at the hub again and again.

**Fairness.** WF of the push's own steps, because the push thread loops until the process
stops (SyncWorker._push_loop), and of `Apply`, because a hub that is reached answers. Nothing
is assumed of the writers: they are finitely many steps (`MaxRev`). At most `MaxFail` pushes
fail; a network that always fails delivers nothing, in the code as in the model.

**`FeedMissed`.** docs/SYNC.txt says no change is left out. If an order is stamped again
after the push read its bound and before it reads the order table, the order waits for the
next push, its line is sent in this one, refused, noted as a conflict, and not sent again.

**Left out.** References of more than one step; nullable references, which are cleared
instead of refused; refusals for other reasons (another branch's order, a name that is
taken); aliases, stock and intake snapshots, images. A deletion is a row (sync_tombstone).
Which copy is newer is decided by updated_at or by rank, which for copies of one branch's
row agrees with the revision; copies changed on both sides are `OrderSync`, `StockTransfer` and
`Members`. The pull is this loop with the roles swapped, except that the branch drops the
conflicts.

## 5. OnlinePayment

**State.** `ord` (payment columns of the order rows), `trade` (the provider's side of each
trade number: what it took, what it gave back), `bill` (table_payment.status), `refund` (the
refund rows of an order), `job` (what each worker is doing), `faults`.

**Steps.** An action is one transaction or one call of the provider. Work that commits and
goes on is a *job* of a worker (request, deferred task or background thread), which keeps what it
read and dies with its process:

| group | code |
|---|---|
| `Requests` | place an order, open a page, the provider takes money, notifies (any number of times), cancellation, a total that changes |
| `Sweep` | expire_unpaid_orders: select, ask the provider, commit expired, cancel |
| `LinePay` | charge_linepay: authorizing, the call, claim or give back, alert, resolved by hand |
| `TablePay` | start, notification, claim, settle or conflict |
| `Refunding` | claim, provider, result; automatic refund; done by hand |
| `Crash` | a worker dies, or an answer of the provider is lost |

**Run `OnlinePay`.** Order o1 may take any channel, o2 only the table's (two orders are the least for
a bill); two trade numbers, so that two pages of one order are paid; two workers, so that every
job races every other; one fault; amounts 2, so that a part can be refunded. `SameChannel`
leaves out two orders that are paid in different ways, which share no row. The symmetry of trade
numbers and workers is sound: no liveness is checked here.

- `OnlinePaymentRecorded`: an order whose payment the program was told of is paid, owes a refund or
  is refunded, and knows the trade number; no late sweep takes that back.
- `CancelledKeepsNothing`: a cancelled order is refunded, owes a refund, or had no money; an expired one that
  still stands has a sweep about to cancel it, unless there was a crash.
- `ChargeWatched`: without a crash, what LINE Pay took is the order's payment, has gone back, is
  being dealt with, or staff are told.
- `BillSettlesOnce`, `NotReturnedTwice`: several payments of one bill, several refunds of one payment; and a bill
  or a refund at "processing" has a worker that goes on with it, unless there was a crash or a lost answer.
- `KeepsPromise`: the refinement of `PaymentPromise`, where an order's money is waiting,
  kept, given up, owed or returned. It says in five pairs what the rest of the module is for: given-up
  orders never keep money, owed money is only returned.

After a crash the code has three states that nothing leads out of: an expired order that keeps its stock
(payment_ecpay.py:487), a bill at "processing" (table_pay_service.py:85) and a refund at "processing"
(payment_service.py:455). The model reaches them; the properties say that nothing but a crash or a lost answer does.
That two refunds of one order which go out together return its money once is the provider's doing (`CanReturn`).

**`RefundDone`.** When the automatic refund of a cancelled online order succeeds, every refund
of the order that is not done is marked done, also a partial one of which nothing was returned
(payment_service.py:506).

**Left out.** Check codes and amounts that do not match, which are refused before anything
changes; split tenders; the invoice that follows a payment (`EInvoice`).

## 6. Two databases

`MCHosts` composes four models that share no state: each has its variables, all start, and
`part`, chosen at first, says which one runs. One run checks them, each exhaustively; section 9
proves its properties for any number of orders, transfers and sites. The hosts' clocks are taken to agree
(the merge compares updated_at); pages come late, twice or not at all.

| module | code | bounds |
|---|---|---|
| `OrderSync` | _merge_order, the voided lines, refunds on both sides | one order of total 2, voided and refunded in part |
| `OnlineStock` | the hub's stock of a branch (`shelf`), orders down, stock and orders up | two orders of one portion, stock 2, one counter sale: fewer than three takers cannot oversell |
| `StockTransfer` | branch_service and _merge_transfer | one transfer between two nodes and headquarters, stock 1 |
| `Members` | points_service, coupons, referrals at a branch and the hub | two purchases |

- `HostsAgree`: with nothing under way both ends have the same rows.
- `GoodsConserved`: portions and goods are neither lost nor made.
- `NotSoldTwice`: what the hub still sells of a branch, and what is under way to it, is there, but for what the
  branch's counter sold since its report and orders the report could not hold back.
- `ReceiverTold`: a transfer cancelled at one end and shipped at the other ends shipped, and
  the receiver is told.
- `BonusOnce`, `CouponTold`: of the orders that stand at the hub only one has earned the bonus,
  whatever is under way; a coupon used twice is reported.

In `OnlineStock` staff's cancellation at the branch puts the portions back, as by default; with restock_on_cancel off it
is that step and the counter sale of as many portions. The hub puts back on its shelf in any case. An order comes with its lines. That a page may end between them
(node.py:195) is not covered; `ChangeFeed` has the paging.

## 7. Services

`MCServices` composes 27 models that share no state; `part` says which one the x-variables
belong to. What each interleaves:

| module | code | what interleaves | instance |
|---|---|---|---|
| `Pricing` | promotion_service, order_pricing, _price | none: the stages in order, on every cart | carts of two lines, two promotions, exact parts of a dollar; points without a cap and capped at 2, a delivery fee of 2 or none |
| `AddonQuota` | _validate_addon_quota | the order in which paths are found | two dishes, two add-ons, two of each |
| `CashShift` | shift_service, record_payment | sale, petty cash, open, close | two tills, two shifts, two records |
| `Ingredients` | inventory_service, purchasing_service | use, void and cancel with restock_on_cancel on and off, buy, count, discard, receive | one meal, two batches, two requests |
| `EInvoice` | einvoice_ecpay | issue, query, void, allowance, cancel, refund, retry, crash, lost answer | one order of 2, two workers |
| `Archive` | archive_service | two processes, deaths, refunds between batches | three orders, two ids (an id is used again) |
| `Restore` | restore_system_backup | steps of a restore, commits of others, crash | three commits, two deaths |
| `Prepaid` | giftcard_service, pass_service | three counters use, refund, void, cancel | card of 3, pass of 3 cups |
| `PointExpiry` | loyalty_service, hub.push | the hub expires while a branch uploads late | six rows |
| `Deposit` | deposit_service, set_reservation_status | page, notification, status, refund, crash | one reservation, two pages |
| `Stamps` | earn_stamps, on_order_cancelled | checkouts and cancellations, member's row locked late | three orders, cards of 3 |
| `Vouchers` | voucher_service, reward_service, checkout | redeem, claim, give back, deadlock | three points |
| `Booking` | reservation_service | online and staff bookings, waiting numbers | three guests, three seats |
| `ShiftPlan`, `Roster` | staffing_service, scheduling_service | none; every need, every choice between equals | hours 1 to 6; three days and those around, two people |
| `DiningTables` | table_service, routes | scan, order, move, rotate, disable, delete | two tables, two orders, one telephone |
| `Intake` | intake_service | check, pause, take, offline orders | two requests, limit 1 |
| `GroupOrder` | group_order_service | entries, lock, submission, scheduler, crash | two people, three workers |
| `Webhook` | webhook_service | scan, two senders, crash | one order, two attempts |
| `PrintQueue` | print_service | two passes, death, reprint; the attempts compared are those read at the claim | two tickets |
| `Kitchen` | complete_station | two stations, complete, cancel, undo | three items, one without a station |
| `Scheduler` | maintenance_service, cli | turns of two processes, jobs by hand, deaths | two days and a half |
| `PlatformOrder` | delivery_service, routes | repeated notices, both decisions, typed by hand | two tickets, four calls |
| `HomeDelivery` | own_delivery_service | two dispatchers and the driver | two drivers, three links |
| `MenuStock` | apply_menu_form, menu_availability, order_stock | two forms or calls, sales, returns | stock 2 |
| `Campaign` | marketing_service, routes | staff, scheduler, pause, crash, recovery | two requests and the scheduler, one member |
| `EventBus` | event_bus, orders_stream | screens, two publishers, eviction | three screens, limit and queue 2 |

The bounds are the least at which each of a module's cases happens: two requests for a race, one
more guest, screen or meal than there is room for, one crash. The run fires every action of every module.
The header of a module says which database locks it relies on. Every bound is a CONSTANT of `MCServices`
with its value in `MCServices.cfg` and a named assumption (BoundAssumption to AdvanceAssumption), so that
the proofs of section 9 hold for all values.

The properties group those of the modules: `PricesRight` (amounts), `BooksBalance` (drawer,
ingredients, dishes, invoices, files), `AdvancesKept` (what was paid in advance or collected),
`PlansKept` (tables, slots, windows, rosters), `OnceEach` (submissions, campaigns, events, tickets, jobs,
platform orders, links, notices), `OnlineFits` (an online booking never overfills its slot;
staff may).

**Assumed**, where the code relies on time or on people: a submission takes less than its five
minutes, a print job less than two, a campaign's run less than half an hour, a scheduler's turn
less than its lease of 30 seconds, a handler that only touches an invoice's row less than a call
of the authority; "retry" is pressed in one tab; nobody refunds an order in the moment it is
archived; SQLite and the file system do what they promise (`Restore`).

## 8. Eventually

`Eventually` runs `OnlineStock`, `OnlinePayment`, `GroupOrder`, `Webhook` and `PrintQueue` on small
instances, one at a time, each with variables of its own, because fairness is a conjunction over all.

| fairness | why the code justifies it |
|---|---|
| OnlinePayment: SF of the sweep's answer, of its selecting an order, of claiming a pending refund; WF of a job's going on | the sweep and the queue run again until the process stops; the provider is not unreachable for ever |
| OnlineStock: WF PushOpen and PullRead, SF of the push's other steps and of applying a pull | the push and pull threads loop; the network fails again and again, not always |
| GroupOrder: WF Finish, Stuck, RunDue | the request ends; the scheduler looks at every group in every turn |
| Webhook: WF Claim, Deliver, PutBack | as above |
| PrintQueue: WF StartPass, Work, RecoverStuck | as above |

- `PaymentsEnd`: an overdue order does not stay pending; a pending refund is made or fails.
- `NewsArrives`: a paid order reaches its branch, a branch's cancellation the hub.
- `JobsEnd`: no submission, delivery or ticket stays half done.

## 9. Proofs

`tlapm` checks every proof from nothing; no step is left open. They hold for every value of
the constants that the named ASSUMEs admit.

**Shop_proofs** (RoleAssumption, StockAssumption, PriceAssumption, ChargeAssumption, RestockAssumption,
PickupAssumption).
`Inv` is TypeOK, `OrdersOK` and `ReadsHold`. The properties alone are not inductive:
whether a commit may trust a request's reads depends on what may have happened since.
`ReadsHold` says what is left of them: the total a cancellation loaded and the bill a
settlement added up are never too small (totals only sink), the transition a status change
asked for is one its terminal's role may make, the order is placed, a refund's order is not
unpaid. `OrdersOK` ties the columns of an
order together (pay, received, refunded, total, status; taken, returned, held), and says
that an order nobody placed has no trace of money. From `Inv`:
`TypeCorrect`, `LinesMatchStockHolds`, `PaidMeansCollectedHolds`,
`CancelledIsRefundedHolds`, `TillBalancesHolds`, and of steps `StatusForwardHolds` and
`OnlyManagersUndoPickupHolds`, `ManualSoldOutStaysHolds`. Three properties need more than `Inv`:

- `StockConservedHolds`. The sum over the orders is the number of pairs of an order and one of its
  portions, so that a step is judged by the pairs it adds and takes away and no induction over
  the orders is needed.
- `NetWithinItemsHolds`. What a void gives back is a rounded quotient of a product. `ProrateEnough`
  says that it leaves no more than the other portions are worth, from bounds of the division, one product
  at a time; with a service charge the same bounds give their part of it and half a dollar for each portion voided.
- `PickupInTurnHolds`. `InTurn` adds how many rounds are complete: each number up to the
  counter was given once more than those above it.

**ChangeFeed_proofs** (SizeAssumption, TableAssumption, ParentAssumption). `Inv` is TypeOK,
`Bounds` (revisions, cursor and bound against the clock), `Versions` (nothing in transit is
newer than its row), `Progress` and `References`. `Progress` is what is needed beyond the properties: each row the
push owes and has read past (`Covered`) is delivered, noted, or on the page in its present
version; a row stamped again leaves the range the push owes. Finishing needs every row to
be covered, which rests on lemmas about one SELECT: a page with room has all the rows
wanted (`FirstsAreAll`), a full one those up to the row it is continued from
(`FirstsComeFirst`, `MaxOfRows`). From `Inv`: `TypeCorrect`, `RevisionsInCommitOrderHolds`,
`RootsDeliveredHolds`, `MissedIsReportedHolds`, `ReferencesHoldHolds`, `NeverBackHolds`.

**OnlinePayment_proofs** (ChannelAssumption, AmountAssumption, NoTradeAssumption). `Inv` is
TypeOK, `OrdersSound` (which payment states each way of paying allows, and that only a live order
keeps a payment), `TradeOK` (a trade number's orders were placed, those of a bill are the
table's, and what the program was told of is recorded), `PageOK` (the page an order opened last
is its own) and `JobOK` (what a worker in the middle of a job may still rely on). A step is
judged row by row: `SafeRow` says what a step may make of an order's row, and each action is
shown to make no more of it. The properties need `PageOK` and `JobOK`: a sweep that asks about a
page and then marks the order paid is sound only because that page is that order's. From `Inv`: `Typed`, `PaymentRecorded`,
`NothingKept`.

`Implements`: Spec => KeepsPromise, for every set of orders,
trades and workers. The money of an order follows from its row, except where a cancelled LINE Pay order keeps its
status and only its refunds tell. For these it needs `RefundsOK`: a worker that carries a refund
out has claimed it, nobody else has it, and it is still processing; so what is returned is never
owed again.

The money, in the same module. A step is taken apart into what it may do to each
piece of state, once for each kind of work, and the invariants are kept by any step of that shape.
`WatchingHolds`: a trade number's money belongs to one order or one bill, and while LINE Pay
is charged nobody but the charging worker touches it. From it: `ChargesWatched`; with
`BillInvariant` (which orders a bill took, and what they cost) `BillsSettleOnce`; with `RefundInvariant`
(what was returned is what the refunds under way and done say) `ReturnedOnce`. Each of the two, and
`NothingKept`, also needs `SomebodyAttends`: as long as nothing has failed, an expired order that stands, a bill
or a refund at "processing" has a worker that goes on with it (`Attended`). Each work keeps its own part, and
needs that no two workers hold the same bill or refund.

**MCHosts_proofs** (OrderAssumption, OnlineAssumption, TransferAssumption, MemberAssumption). One inductive
invariant for each of the four models; the steps of the others leave it alone. They share a form: every
copy of a row (at the branch, at the hub, on a page) is an earlier state of what its owner did,
and what one end knows and the other does not is still marked to be sent or on its way.

- Orders, `OrdersHold`: `CopyOf` says what a copy may lag behind in, `Sends` and `BranchSends`
  what a host that has nothing to send has told. `MergedFacts` and `PayMerged` are the lemmas about
  _merge_order: the merge of two copies is a copy, further than both in status, refunds and voided items.
- Online stock, `StockHolds`: what the shelf and the orders still on their way down claim is there
  (`ShelfCovered`), and so is what a report under way will say once it is applied
  (`ReportCovered`); from it `NotSoldTwiceHolds`. `RowsHold`: what an end does not know of an
  order is on its way to it.
- Transfers, `TransfersHold`: what each status means has been done by its end (`CopiesSound`), and a
  cancellation and a shipment that cross are told apart by the page they are on (`InTime`, `ToCome`). From it
  `ReceiverToldHolds` and, with `StockHolds`, `GoodsConservedHolds`; sums again count pairs.
- Members, `MembersHold`: the later of two bonuses that count at the hub is undone
  (`LaterUndone`); of two orders with one coupon, one still comes up or the shop knows (`CouponsTold`).
  From it `BonusOnceHolds` and `CouponToldHolds`.

Together: `TypesOKHolds` and `HostsAgreeHolds`.

**MCServices_proofs** (BoundAssumption to PlanAssumption of `MCServices`). Each service has an inductive
invariant of its own; only one of them runs, so the others' steps leave it alone.

- `OnceEachHolds`. What the properties lack is what a request that has read something and not yet written
  may still rely on: the claim it holds, or the version it saw. `GroupOrder`: a group that has an order,
  or is about to, takes no entries any more; `Webhook`: what is queued is older than what is still to be
  seen; `PrintQueue`: copies printed, being sent and waiting are no more than were asked for; `Scheduler`: a
  turn within its lease is the holder's; `EventBus`: a screen on the list is there, and who holds the lock is
  telling the screens.
- `PlansKeptHolds`, `OnlineFitsHolds`. The parties of a slot, the orders of a window and the hours of a
  week are sums over sets (MapThenSumSet). Lemmas about such sums (`SumTake`, `SumChange`, `SumTerm`) are
  proved without an induction principle: a smallest set for which the claim fails exists, because a
  strict subset of a finite set is a well-founded ordering, and taking an element away gives a smaller one.
  `RowTooLong` and its lemmas say that a run of days that is too long has a first day on which the rules were
  already broken.

**MCServicesMoney_proofs** (BooksAssumption). `BooksBalanceHolds`. `DrawerInv`: of a shift that is closed nobody is
about to book a sale. `LarderInv`: of a cancelled order nothing is used, a purchase has come in once if it is
marked received, and unless a stocktake was overtaken the stock is the first stock and its movements. `InvoicesInv`: at most one request is between asking the authority and writing the
answer (`IssuedOnce`), and the row differs from the authority's record only by that answer (`Standing`).
`FilesInv`: a batch that is being deleted is in the file, and what its orders spent is counted with them.

**MCServicesAdvances_proofs** (AdvanceAssumption). `AdvancesHold`. `AdvanceInv`: each cup of a pass that is not void remains or is drunk. `ReserveInv`: a paid deposit was
taken in the trade its row names. `StampsInv`: the ledger and the cards given are the sum of what the orders
earned, by bounds of the division. `RewardsInv`: the vouchers a transaction has taken are open and no
other transaction has them, one checkout runs at a time, and an order's used vouchers are as many as its meals.
`ExpiryInv`: every expiry is among the rows the hub has, a correction comes after an expiry, and what the hub
has taken back is what was due. Each row keeps this (`RowWritten`): what the daily job expires is what is due then
(`ExpiresDue`), and an upload, whatever it holds, makes the hub replay the ledger and correct the difference
(`BranchPushes`). Its core is `ReplayIsDue`, that the replay arrives at a sum. While it replays, the lots collected before
any time limit are worth what was collected until then, less what was spent and has expired so far, at least
nothing (`Faithful`), and each kind of row keeps this (`EarnRow`, `SpendRow`, `ExpireRow`); that using up lots oldest
first does so is `UsedFromLeaves`. The functions that run over the rows exist by `Iterated`, and what holds of every row follows
from a least row for which it fails (`Climb`), so that no induction principle is needed here either.

**Only model-checked.** `EventuallyDelivered`, `PaymentsEnd`, `NewsArrives`, `JobsEnd` (liveness
under fairness, out of the prover's reach); `PricesRight`, where a cart's promotions are functions and folds over its lines and a quota is a search for a
matching.

## 10. Known differences

The runs that end in a violation show five; PROJECT.json "findings" quotes the lines. The
following were met in the models too. Each is a definition of its module that no run
checks, or a remark beside the action it concerns:

| module, definition | what |
|---|---|
| `OnlineStock.InFlightHeldBack` | docs/SYNC.txt:55-57, CONFIG.txt:56, DEPLOY.txt:368: orders in flight are held back from the stock a branch reports. An order that has expired and is not cancelled yet is not counted (hub.py:316); nor is one that arrives between the count of the stock and the reading of the rows |
| `StockTransfer.HubTold` | docs/SYNC.txt:86-87: the hub is told of a cancellation that a shipment overtook. When headquarters ships, the node learns of it in a pull and does not push the cancellation it gave up, so only the receiver is told |
| `OrderSync.RefundedOnce` | a part refunded at the branch and the whole order cancelled at the hub before either knows: more is returned than was paid; the larger refunded_amount is kept (engine.py:521) |
| `Members.CouponHeld` | docs/SYNC.txt:69-71: a coupon that an order still uses stays used. Only orders in an upload are looked at (hub.py:180-181): of two orders with one coupon, cancelling the hub's own frees it |
| `Members.BalanceIsLedger` | PostgreSQL: the balance is set to a sum that does not see an uncommitted change of another request, which then changes the new balance by a difference it has seen (points_service.py:55-60) |
| `GroupOrder.CancelledHasNoOrder` | cancel writes the status without looking at it again; a submission may have been made in between |
| `CashShift.EverythingReported` | SQLite: petty cash may be booked on a shift that closes before it commits, after the report was added up |
| `OnlinePayment.EveryPaymentCounts` | a customer opens two pages for one order and pays both: the second notification is answered 'already', and its money is neither recorded nor returned (payment_ecpay.py:342) |
| `Deposit.EveryPaymentSettled` | a second page opened while the first payment is confirmed overwrites the trade number; its payment is then taken for a repetition of the first, and nobody is told |
| `OnlineStock` | an order cancelled at the hub returns to the branch's stock in any case (node.py:209), one that staff cancel there only with restock_on_cancel on |
| `Ingredients.StockAlwaysMovements` | a sale between a stocktake's reading and its writing is lost |
| `Pricing.AddonsNotReduced` | each threshold promotion is measured by all regular lines; two of them may take off more than those cost |
| `Prepaid.VoidedIsEmpty` | an order that a card paid may be refunded to it after the card was voided |
| `EInvoice.CancelledHasNone` | FEATURES.txt:64: an invoice that is being issued when its order is cancelled is issued all the same; a void that failed is "稍後重試" and not tried again by itself (einvoice_ecpay.py:308) |
| `PlatformOrder.ToldOnce` | an order denied while something was sold out is made when it is announced again, and the platform is told both |
| `HomeDelivery.CancelledNotDelivered`, `ShownIsDriver` | an order cancelled while it is handed over is delivered too; where two dispatchers assign at once, the first driver's position stays with the other's link |
| `EventBus.EvictedIsTold` | a queue that is emptied between being found full and being made room in is dropped without an end, and its screen waits |
| `MenuStock.RestockedIsOffered` | a dish that sells out while a form with more stock is being saved stays sold out: the stock is read again, the flag is not (menu_service.py:70, 90) |
| `Campaign.AlwaysSentOnce` | a campaign paused or resumed in the moment it is claimed may be claimed again; recovery makes an interrupted one active even if it had been paused; where a later batch of messages fails, its members are recorded as reached |
| `Webhook` | an order seen expired and cancelled, then paid late, is announced as created and paid, not as cancelled |
| `Scheduler` | "only one process" holds for turns within the lease and not for jobs started by hand |
| `Kitchen` | a station that dies before the order is completed leaves it on no station's screen |
| `Restore` | commits made after the copy are lost; "the database was not changed" is said after the log was removed |
| `Archive` | an order refunded between copy and delete keeps its old row in the file |

## 11. Not modelled

- The relay of events over Redis, and what a screen misses while it reconnects: it reads
  everything again then.
- Accounts, sign-in throttling, devices, approvals: checks in front of a handler with counters
  of their own; the role a handler sees is a constant of `Shop`.
- The time clock, and the wallet's ledger, whose form is that of the points.
- Tiers and segments (computed from what was spent), push, LINE, SMS and mail: calls without state.
- Split tenders; correcting conflicts by hand; service calls, floor plan, carriers, invoices of
  a settlement; arrival estimates and pickup slots, which are only read.
- Aliases, natural keys, tombstones and media of the sync; vouchers and delivery columns in its merge.
- AI, chatbot, voice, recognition, translation; menu forms apart from stock, settings; reports and exports; offsite
  backup, updates and migrations; the browser front end: forms, texts, tables of strings and
  files, without a protocol of their own.
