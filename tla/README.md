# Fanaye restaurant backend: verification project

The repository is a NestJS service over one PostgreSQL database (Prisma), with
Redis/BullMQ for timers and Socket.IO for notifications. It runs restaurants
with several branches: floor and tables, orders and kitchen stations, bills and
payments, cash custody, shifts and end-of-day, inventory, HR and finance. Many
staff devices call it at the same time, so what matters here is what
interleaved HTTP handlers, background jobs and retries do to shared rows.

All handlers have the same shape, and the models follow it. A handler
1. looks its `Idempotency-Key` up (`findIdempotent`), with a plain read;
2. reads the rows it needs and checks them (status, version, amounts), again
   with plain reads, outside any transaction;
3. runs one `prisma.$transaction` (READ COMMITTED) that updates rows **by id**,
   bumping `version`, inserts the ledger, audit and idempotency rows;
4. emits events and answers.

So a request is a *load* step that keeps what it read and a *commit* step; what
the commit re-checks is only what the database enforces (unique and partial
unique indexes, CHECK constraints) and the few compare-and-swap `updateMany`s.
The models make this explicit: every module has a variable for requests in
flight, with what each one has read.

## Two databases

The CHECK constraints and the partial unique indexes live in
`src/prisma/migrations`. `startup.prod.sh:9` runs
`npm run migration:run || npm run schema:push`: when the migrations cannot be
applied, the schema is pushed without them. Where it matters the modules take a
constant `Migrated`.

## Inventory

State is in PostgreSQL unless said otherwise. "Hard" names what concurrency,
failure and order can do; "correct" what has to hold all the same.

| Component (directory of `src/src`) | State and operations | Talks to | Hard | Correct |
| --- | --- | --- | --- | --- |
| Cash custody (`cash-custody`, waiter half of `shifts`) | drops, disputes, cash ledger; declare, receive, resolve, hand over, force out | shifts, billing, day lock | two counters, retries, one status the database refuses | a drop moves once and whole |
| Kitchen tickets (`orders`, `stations`) | `order_items`, approvals, stock rows; order, prepare, serve, cancel, change, decide, report | inventory, seating, daily close | write skew, stale writes by id, crash between two transactions | stock given back once, served is final, approvals decidable |
| Seating and billing (`floor`, `billing`, `qr-menu`, sessions of `rooms`) | sessions, tables, bill requests, bills, payments; seat, order, ask, bill, pay, close, force | tickets, custody, Verify.ET, daily close | order against bill, pay against close, two collectors | nothing served unbilled, nothing paid twice, sessions can close |
| Bank transfers (`billing`, `verify-et`) | verifications, transfer payments, used references | Verify.ET | retries under the same and under new keys, polling, a stale bill after the confirmation | a transfer pays once, for one bill |
| Cashier drawer (`shifts`, `reconciliation`) | `cashier_financial_sessions`, `cashier_reconciliations`; clock in and out, submit, approve, flag, force close | custody, daily close | cash received while the drawer closes, approve against resubmit, clock-in in two writes | a closed drawer was counted, one cashier on shift |
| Daily close (`daily-close`) | `operational_daily_closes`; create, refresh, approve, lock | all of the above | snapshot and lock are not one transaction; the lock check of others is outside theirs; midnight | a locked day does not change |
| Menu and availability (`menu`, `catalog`, `stations`, part of `orders` and `qr-menu`) | items, groups, overrides LIMITED and SOLD_OUT with a remaining quantity; edit, limit, order | orders, QR menu | concurrent orders for the last portions | never sold more than the limit |
| Store (`inventory`) | balances, ledger, transfers, counts, supply requests, production, trips, recipes | orders, outside orders, finance | accept against reject, counts against sales, a dispatch in three transactions | balance equals the sum of the ledger, a transfer arrives once |
| Timers (`orders/queues`, SLA monitor, idle monitor) | alert stamps on items and sessions; BullMQ jobs in Redis | realtime | two workers, a job after the ticket moved on, batches | nobody waits unnoticed |
| Outside orders (`outside-orders`) | catering orders, materials issued, returned and audited | orders, inventory | material returned or audited twice | every piece is somewhere |
| Rooms (`rooms`) | stays, entitlements, room sessions; check in and out, redeem breakfast | seating | redemption twice, check-out against a new session | one party in a room, no more breakfasts than promised |
| Staff coverage, layout (`floor`), clock-in windows (`shifts`) | staff, PINs, plans, assignments, tables, zones | shifts, seating | roles and plans change under coverages; night shifts, time zones | who covers a table works here; who is planned may clock in |
| Accounts (`auth*`, `session`, `users`, `identity`) | users, login sessions with a rotating hash, mailed links | all handlers | two refreshes with one token, an answer that is lost | a browser stays signed in, an e-mail has one account |
| Payroll and leave (`hr`) | runs with lines and totals; leave types, balances, requests | finance, shifts | no method of payroll opens a transaction; a type deleted while it is asked for | totals are those of the lines |
| Guest recognition (`biometrics`) | profiles, visits, tiers | an external face matcher | scans in three statements, two cameras | visits are what the log says |
| Finance (`finance`) | hand-kept entries; profit and loss | bills, payroll, store | scopes and ranges that overlap | reports add up |
| Reports (`manager-dashboard`, waiter performance, `menu-engineering`) | nothing of their own | all | each report filters the tables in its own way; two calendars | the same money is counted the same |
| Tenants, branches, sites (`super-admin`, `branches`, `site`) | plans, subscriptions, branches, preferred branches, public sites | all | limits of plans against reactivation, slugs | a slug leads to one branch, people work in branches there are |
| Notifications (`realtime`, `mail`) | rows, sockets and rooms | all | a fan-out that dies half-way, overlapping rooms | told once, and in the inbox |
| Feedback (`feedback`) | reviews | floor | the visit is looked up before the insert | one review per visit |
| Backup (`backup`) | schedule in memory, links to chats, archive, restore | Telegram, database | read table by table while the house runs; restarts | one run per slot, an archive that can be restored |
| Files, AI, home | uploads, language models | | | not modelled |

## Cash custody: `CashLedger`, `CashCustody`, `CustodyTransfer`

`CashCustody` models `cash-custody.service.ts` and the waiter half of
`shifts.service.ts`: a waiter declares a drop, a cashier receives it (matching
or not), a dispute is resolved, a shift hands its cash to the next waiter, a
manager forces a clock-out. `CashLedger` is the table `cash_ledger_entries`
with its constraints; `CustodyTransfer` is what custody promises, without
requests, versions or database: a declared drop is paid once, in one step, out
of a pouch and into one drawer.

| Code | Model |
| --- | --- |
| `cash_drops`, `cash_drop_disputes`, `cash_ledger_entries`, `idempotency_commands` | `drop`, `dispute`, `ledger`, `idem` |
| `shift_sessions` of waiters, `cashier_financial_sessions` | `shift`, `drawer` |
| a handler between its reads and its transaction | `req[r]`, `*Load` and `*Commit` |
| constraint violation, transaction rolled back | `TxAccepted`, `RolledBack` |
| `summaryForShift`, `calculateWaiterUndroppedCash` | `Claim`, `Balance`, `Undropped` |
| payments, clock-in and -out, drawer closing, day lock | `Surroundings` |

Left out: list and summary reads, audit rows, events, the wording of errors and
the permission checks; a request refused while loading writes nothing and so
takes no step. `expectedVersion` is supplied by the caller, and the UPDATE does
not test it, so it restricts nothing beyond the status check and is not modelled.

Runs:

- `custody_receive` (2 cashiers, 1 waiter, 1 drop, 4 requests, two of which
  share a key): competing counts and recounts on the migrated database. Two
  cashiers and two requests on one drop are what a race needs; the third and
  fourth let a dispute or a second drop interfere.
- `custody_handover` (3 waiter shifts, 3 requests): two handovers of one shift
  to different successors, a chain of two, and a forced clock-out in between.
- `custody_pushed`: the same handlers on the database without constraints, the
  only one on which a dispute is ever closed: `DisputedIsOpen` is checked here,
  and with `FairSpec` that what has begun ends. Fairness is weak, on the steps of a handler that has started: Node
  resumes every handler whose awaited call has returned, and nothing in the
  handlers waits for another one. Arrivals are never fair.
On the migrated database the same handlers are refused for ever, see "Further
disagreements".

Proved in `CashCustodyProofs`, for every value of the constants satisfying
`CustodyAssumption`: `TypeOK` and `DisputedIsOpen`, on either database, and on the
migrated one `DropMovesOnce`, `DropConservesCash`, `ReceivedIsCredited`,
`HandoverOnce` and the refinement `ImplementsTransfer`. `DisputedIsOpen` follows by
induction from the types alone, because every count and resolution writes drop and
dispute together; on the migrated database, where every resolution is refused, it
only says that no count forgets its dispute. None of the others is inductive. The invariant `SafeInv` adds that
- every ledger row carries the id of a request that has ended (`Booked`), so a
  request writes at most once;
- no two rows have the same effect or the same writer and type (`OneEffect`);
- a `CASH_DROP_OUT` row is held by the waiter of its drop and is matched, both
  ways, by the `CASH_DROP_IN` row of the same request (`Paired`);
- a handover in flight has two different parties, and its debit is keyed by the
  leaving shift (`HandedOver`).
The unique index on (source, entry type, waiter shift) then refuses a second
debit of a drop, because its waiter never changes; the pairing carries this over
to the drawers, where the index itself would admit one credit per drawer.

## Kitchen tickets: `Tickets`

The order items of one table, from the order to the plate, as waiters, guests,
stations and managers move them (`orders.service.ts`,
`order-item-mutations.service.ts`, `stations.service.ts`, and the part of
`inventory.service.ts` that gives stock back).

| Code | Model |
| --- | --- |
| `order_items.state`, `cancelled_at`, `menu_item_id` | `item[i].state`, `.cancelled`, `.dish` |
| `cancellation_requests`, `order_change_requests` | `approval[a]`, with the state at the request |
| SALE_DEPLETE and REVERSAL rows of an item | `stock[i]` |
| the dish that was cooked, which no table records | `plate[i]` |
| `table_sessions.status` | `session` |
| confirmOrder and submitGuestOrder, sendToKitchen | `OrderLoad`/`OrderCommit`, `SendToKitchenLoad`/`Commit` |
| acknowledge .. markServed, reportCannotPrepare | `MoveLoad`/`MoveCommit`, `ReportLoad`/`ReportCommit` |
| directCancel, forceCancel, abandonOpenKitchenTickets, approveCancellation | `DirectCancelLoad`, `ForceCancelLoad`, `AbandonLoad`, `ApproveCancellationLoad`, then `CancelCounts` and `CancelCommit` |
| requestCancellation, requestChange, the decisions | `AskLoad`/`AskCommit`, `RejectLoad`/`RejectCommit`, `DirectChange*`, `ApproveChange*` |

A cancelling transaction takes two steps: it updates its tickets, which stay
locked, and counts the others as the last commit left them (`CancelCounts`);
then it commits. This is what READ COMMITTED allows and what the write skew of
the last two tickets of a table needs (see "Further disagreements"). An approved change is two transactions in the code and
two steps here, and `MayCrash` lets the process stop in between. The guest's
order takes nothing from stock: `submitGuestOrder` makes no call to the inventory service.

Runs: `tickets_overlap` has one ticket, two approvals and two requests in
flight, any of which may crash; a third request could only repeat what one of
the two does after it has ended. `tickets_serial` has two tickets and one
request at a time, for the properties that overlapping requests break:
`ServedAsOrdered`, `ActiveIffChargeable`, `ServedIsFinal`; it takes the database
without constraints, where a ticket can also become CANNOT_PREPARE.
`tickets_resurrect` is a violation: a manager's forced cancellation leaves a
request PENDING whose rejection puts the cancelled ticket back to work.

Left out: outside and room orders, SLA stamps, the LIMITED quantities, and the
closing of the session (module `Seating`).

Proved in `TicketsProofs`, for any number of tickets, approvals, dishes and
requests in flight, with crashes: `TypeOK` and `StockFollowsCancellation` on
either database, `ParkedHasPending` and `OnePendingPerItem` on the migrated one.
Not one is inductive. `StockFollowsCancellation` needs that a handler which
cancels has loaded tickets that exist, that a ticket that is not cancelled has
given nothing back, and that a ticket whose row is locked by a cancelling
transaction is untouched until it commits. `ParkedHasPending` needs the index
on pending approvals: a request that is about to park a ticket can only insert
its approval when no other is pending, and a handler between applying a change
and marking it has already moved the ticket on.

Proved in the second half of `TicketsProofs`, with one request at a time and no crash
(`Serial`), on either database: `ServedAsOrdered`, `ActiveIffChargeable` and
`ServedIsFinal`. The invariant `SerialInv` says where the ticket of a pending
approval can be: where the approval parked it, or cancelled by force, and with
the dish it had when it was READY (`PendingWaits`, except while a change that
was applied is yet to be marked); so a ticket that moves has no approval that
could take it back later, and a rejection brings back a plate that still fits.
Besides, a ticket has one pending approval of either kind (`OneWaits`), a state
CANCELLED comes with `cancelled_at` (`CancelledSet`; the converse fails, see
`tickets_resurrect`), and what the request has read is still so (`ReadsHold`).

## Seating and billing: `Seating`

A seating from the first guest to the closed bill. Tables and rooms run the
same handlers with small differences (`InRoom`), which is where several
disagreements are.

| Code | Model |
| --- | --- |
| `table_sessions` or `room_sessions`; `closed_at` | `session[s]`; `.closed` |
| history: closed by `managerForceClockOut`; its table was marked for it; `sendToKitchen` made it ACTIVE_ORDER when its bill was there | `.forced`; `.marked`; `.reopened` |
| `dining_tables.status` | `table[t]` |
| `order_items`, reduced to what bills and gates look at | `item[i]` |
| `bill_requests`, `bills` with `bill_lines` | `ask[a]`, `bill[s]` |
| sum of the `payments` of a bill | `settled[s]` |
| `bank_transfer_reference` rows, TRANSFER_PAYMENT_VERIFIED events | `refRow`, `transfers` |
| what Verify.ET has confirmed (external) | `confirmed` |
| startSession, openSession | `StartLoad`, `StartCommit` |
| confirmOrder; submitGuestOrder, which may create the session and mark its table first, two writes | `OrderLoad`; `GuestLoad`, `GuestOpens`, `GuestMarks`; `OrderCommit` |
| the branch's `autoSendToKitchen`, read with each guest's order | the `state` of `GuestLoad` |
| sendToKitchen, directCancel and forceCancel | `Send*`, `Cancel*` |
| requestBill(ForRoom), cancelBillRequest, generateBill | `Ask*`, `Withdraw*`, `Bill*` |
| payCash, payTransfer | `CashLoad`, `TransferLoad`, `TransferVerified`, `PayCommit` |
| closeSession, forceCloseSession, managerForceClockOut | `Close*`, `ForceCloseLoad`, `ClockOut*` |
| createCounterSale (bakeries) | `CounterSale` |

Every item costs 1, so that an amount is a number of items; prices, modifiers
and rounding do not matter to what is checked. The version of a bill is compared
in the UPDATE and modelled: an honest client sends the version it saw, which
cannot be newer than the row the handler loads. The version of a session is
compared before the transaction only and restricts nothing that the status
check does not. The item states are those of `Tickets`, coarsened; its write
skew is checked there. Left out: idempotency keys, the day lock, roles,
handovers of tables, call-pickup sessions, transfers without a reference,
tips. The bakery's counter is any table; the code takes the first.

Runs (2 sessions, so that a table can be seated again; 2 or 3 items, so that a
bill can be paid in part and an order can come late):

- `seating_serial`: one table and one room, one request at a time, which may be
  rolled back or stop between its writes: the protocol alone. 3 items and 2 bill
  requests.
- `seating_overlap`: one table with the counter, two requests in flight, guests'
  items that wait to be sent, one bank transfer confirmed by Verify.ET. Two is
  enough for a stale read; what three requests could do to a bill they can only
  do through its version. States that differ in the history of a session only
  are one (`VIEW Future`): no step and no property of this run reads it.

Guests' orders go to the kitchen at once or wait to be sent, as the branch has it
at that moment. An item that waits can be sent when the bill is there, and then
`sendToKitchen` reopens the session: what is ordered after that is on no bill
(see "Further disagreements"). `BillCoversOrder`, `ClosedSettled` and
`PaidSessionCloses` except the sessions to which that has happened, and say that
nothing else does it; the fields `reopened`, `marked` and `forced` are kept for that.
`SeatedIsOccupied` likewise excepts a session whose table was never marked.

No liveness is claimed: nobody has to pay. `EmptyTableCloses` states as an
invariant that a table with nothing to charge has a way out.

Proved in `SeatingProofs`, for any number of requests in flight, on either
database, for every value of the constants satisfying `SeatingAssumption`:
`TypeOK`, `PaidMatchesPayments`, `PaidSessionHasPaidBill`, and, where Verify.ET
verifies transfers (`VerifyEt`), `TransferOneBill`. The first three are not
inductive, because a payment is applied as it was read. The invariant `Inv` adds
- `RowsRefer`: tickets, bill requests and bills have a session, and a bill has
  lines, so that nothing is paid by paying nothing;
- `HandlersOK`: what a request has read is there (`Fits`), and as long as the
  bill has the version it read, the bill is the one it read and the amount is
  not more than what was due. With `Grows` (no step takes a row away or changes
  the lines of a bill, and a bill that changes gets a new version) that is what
  makes the version in the UPDATE enough.

`TransferOneBill` needs that a reference on its way from Verify.ET to a bill is
confirmed, is in the hands of one request only and is in no earlier payment
(`TransferInv`).

Proved in the second half of `SeatingProofs` under the assumption `Serial` (one request at a
time, the migrated database, no bakery; the request may stop between its writes), for any number of sessions, tables, rooms, items and collectors: the six
properties of `seating_serial` that overlapping requests break. `SerialInv` says
of every session how its status, bill, chargeable tickets and pending requests
go together (`InOrder`), that a table has one party at most, and that what the
request in flight has read is still so (`ReadsHold`): between its reading and
its writing only `Serve` and Verify.ET take a step. `ReadsHold` is exactly what two requests
break, and the runs of "Further disagreements" show where.

## The day's end: `CashierDrawer`, `DailyClose`, `MCDayEnd`

`CashierDrawer` is the cashier's half of `shifts.service.ts` with
`reconciliation.service.ts`; `DailyClose` extends it with `daily-close.service.ts`
and with as much of the floor as its snapshot reads.

| Code | Model |
| --- | --- |
| `shift_sessions` of cashiers | `shift` |
| `cashier_financial_sessions` and the sums of their ledger rows | `drawer`, `LiveExpectedCash` |
| `cashier_reconciliations` | `recon` |
| drops that are INITIATED | `waiting` |
| `operational_daily_closes`, by business date | `close` |
| sessions with the state of their ticket | `seat` |
| payments, by the days of the session, of the settlement and of the collector's shift | `paid` |
| drops, by the day of the waiter's shift | `declared` |
| the business date of Africa/Addis_Ababa | `today` |
| `buildSnapshot`, its hard blockers | `CashSales`, `Undropped`, `HardBlockers` |
| `summaryForShift`, what a waiter may drop | `OnHand` |
| `assertBusinessDayNotLocked` in other services | the guard of the loads of `Serving` |

Clocking in and out are two writes each, and a handler may die between them
(`crashes`). `CloseSpec` is both together: every step of the day's
close and of the floor, and every step of a drawer's handler. Run `day_end` looks at
two subjects: two cashiers and two shifts with every operation of the drawers,
where the day stands still ("till"), and two business dates with a seating, two
payments and one drawer ("day"), one request at a time. "day" is `CloseNext` with one
shift, in which a cashier clocks in, receives drops and counts them (`Slice`);
with all of the drawer's operations it has too many states for a run, and is what the
theorems are about. With one unit of
cash a drawer is empty, exact or over; two days are what a seating needs that is
paid after midnight. With two requests the invariants fail; the table below says how.

A close is created for any date the request names, so also for a day to come, and such a
day can be locked. `close[d].on` is the day of the lock, and `LockHolds` speaks of the days
that had begun by then (`LockedInTime`); what becomes of the others is in "Further
disagreements". One waiter clocks in on each day and may stay past midnight: a payment can be
of a seating of one day, settled on the next, by a waiter whose shift belongs to either.
Sales over the counter and pickups, whose sessions block no close, are left out.

Proved in `DrawerProofs` under the assumption `Serial` (one request at a time), on either
database, with and without crashes, for any number of days, seatings, cashiers, shifts
and cash: `TypeOK`, `OneCashier` and `NothingUncounted`, of the drawers alone
(`TillSpec`) and of the composition (`CloseSpec`), and `CloseTypeOK` and `LockHolds` of
the composition. None of them is inductive.
`TillInv` adds the order of a shift with its drawer and its count (`InOrder`:
nothing has left the drawer of an open shift, a drawer is counted exactly while
it is pending or reconciled, and then what was expected is the float and the
drops), that a drawer has a shift, and that what the request has read is still
so (`ReadsHold`: a crash may end the request between its two writes, but nobody
else writes in between). Two facts about the code fall out: `preview` never
opens a counted drawer again (`Previews`), and the drawer that
`managerForceCloseCashierDrawer` looks up by cashier is the shift's own
(`Forces`). Both hold for one request at a time only.

`DayInv` adds to it what the lock depends on. No lock and no seating is dated later
than today (`Begun`), so that of a day locked in time nothing is yet to come but seatings that
nobody may order on or pay. What the request of the day has read is still so (`DayReadsHold`): while a
lock is about to be written the figures are those of the snapshot, no drop is
undeclared and no seating is open; an order or a payment in flight is of a seating that
is open and whose day is not locked. Then each step is looked at for the locked days
alone: an order, a payment or a drop is refused for them, the abandonment of the next
lock finds no ticket of theirs, and a new seating is of today and has no ticket. The
sums of the payments need the lemmas of `SumTheorems`. The composition costs little:
a step of a drawer keeps `TillInv` by the lemma the drawers alone have used and leaves the day alone
(`TillGoesOn`), and a step of the day leaves shifts, drawers and counts alone (`TillUntouched`).

## The store: `Supply`, `Stockroom`, `MCStore`

`Supply` is the chain from the main warehouse to the stores: supply requests,
their dispatch in three transactions, transfers, drivers and trips, push drops
and the switch of the warehouse. `Stockroom` is what one branch does with its
stock: ingredients, deliveries, waste, yield tests, production, counts, recipes,
the depletion by a sold dish and its reversal, and units, categories and vendors.

| Code | Model |
| --- | --- |
| `inventory_locations.status` | `place` |
| `inventory_stock_balances` | `onHand` (Supply), `shelf` (Stockroom) |
| `inventory_ledger_entries`, summed | `received`, `booked` |
| `inventory_transfers`, `inventory_supply_requests`, drivers | `transfer`, `request`, `driver` |
| recipe lines, sales of order items | `line`, `sold` (`out` taken and given back, `due` by the recipe) |
| counts with their snapshot | `count` |
| the two writes of a waste | `WasteBalance`, `WasteEntry` |

`lapse` remembers that one of the two accepted lapses has happened, a waste that
died between its writes, or a count posted over stock that moved after its
snapshot, because from then on balance and ledger differ for good; both are
hazards. Run `store`: one request at a time, one warehouse, two stores, two
transfers and a supply request, so that an acceptance can meet a rejection and a
dispatch a switch-off; two goods, four ledger moves, one sale. `store_recipe` is
a violation: a recipe typed in crates takes crates of crates.

Proved in `StoreProofs` for every value of the constants satisfying
`StockroomAssumption` (the two places differ, the bounds are natural numbers,
`NULL` is no quantity): `StockTyped` and `BalanceBooked`, that is `TypeOK` and
`BalanceIsBooked` of `Stockroom` for any goods, sales and movements. Types and bookings alone are not inductive: posting a count
sets the balance to what was counted but books the difference to the snapshot,
so the two agree only if the snapshot is still the balance. The invariant adds
`SnapshotIsCurrent` (a count that is not `stale` has the balances of now). The
argument then goes by what moves: lemma `Movement` says that rows moved by
`ApplyDeltas` with any integer quantities keep balance and ledger together, and
every operation but waste and counts is a case of it or leaves the stock alone
(`Still`).

Proved there also, about `SupplySpec` under `Serial` (one request at
a time) and `SupplyAssumption`, for any number of warehouses, stores, transfers,
requests and drivers, with crashes: `StockConserved`, `OffIsSettled` and `ShipsOnce`. The invariant `SupplyInv`
adds that a transfer's link to a request is its own (`LinkedOnce`, what the
unique constraint gives), that without crashes a request has a link exactly when
it is fulfilled or the third write of its dispatch is due (`LinkedIsFulfilled`),
and that what the request in flight has read is still so (`ReadsHold`).
`disableMainWarehouse` asks for stock, requests and transfers in SENT, and nothing is
booked into a warehouse that is off but what a store rejects: that is `OffIsSettled`.
It does not say that nothing is under way any more, because the switch does not ask
for it.
`StockConserved` compares three sums, over the places, over what is on the road and over
what was lost on the way. Every step that moves goods changes at most one place and one
transfer, and `ReadsHold` says that what it adds to one sum is what it takes from
another: an acceptance books what was sent of the transfer it has read, and puts the
difference on record as lost.

The run takes stockroom and supply chain in turns. `StoreComposes` says that a behaviour of the
whole is a behaviour of each: a step of one group of operations is a step of `Next` or of
`SupplyNext` and leaves the other module's tables alone. With it the theorems above hold of what the
run checks, and `StoreTyped` is the type invariant `TypesOK` of `MCStore`.

`SumTheorems` has what these proofs and those of the day's end need of sums over finite sets,
for any set and any function into the integers: a sum is an integer, is 0 when all
its parts are, is no less than each of its parts when none is negative, changes by as much as the one
part that changes, and is any one part and the sum of the others. The community modules define a sum as a fold, the fold as a
recursive function that picks elements with CHOOSE. The library's induction theorems take an operator and
cannot be used, so each lemma looks at a smallest subset for which it
would fail; that there is one is `WFMin` about the strict subset ordering, which takes a set.

## The back office: `Turns`, `People`, `House`, `MCBackOffice`

The components around the core share no table on which the others decide in
their models, so one MC module instantiates them all. `subject` is chosen at the start and
names the component (or the half of one) a behaviour is about; the components
take turns in the variables `v1`, `v2`, ... (`Turns`). The states of run `back_office` are
then the sum of the components' states and not their product, and its
invariants are the conjunctions of theirs: `BackTypeOK` of the types, `HouseHolds` of what
concerns guests, `PeopleHold` staff, `PlatformHolds` tenants and reports. `People` is the part with the
five components that are about people, `House` the part with the seven about guests and what they
are served, both for any values of their constants, so
that `PeopleHold` and `HouseHolds` can be proved; `MCBackOffice` extends them with the others. The assumptions on the constants of
all instances, with what the theorems assume besides, are the `ASSUME ConstantsOK`. Where a subject would take minutes, a
condition in `Next` narrows it, with its reason beside it: of two interchangeable ids
the first is given out first, or only one of two actors does what the other could do
as well (only `m1` ever works, only `m1` changes jobs, one guest pays cash), or two
halves that share the clock alone are not combined (tickets and idle tables in `Alerts`).

| Module | Models | Bounds | Invariant: what holds |
| --- | --- | --- | --- |
| `RoomStays` | rooms, stays, breakfasts, room sessions | 1 room, 2 stays, 2 calls, 2 nights | `StayHolds`: one party in a room, nobody leaves with an open session, no breakfast too many |
| `OutsideOrders` | catering orders and the tableware lent with them | 1 order, 2 issues, 2 pieces | `MaterialsConserved`: every piece is on the shelf, out, or written off |
| `Staffing` | staff, PINs, plans, tables, coverages | 2 members, 1 table, 1 shift, 2 days | `RosterHolds`: who covers a table works here, no party sits at a table that is gone |
| `Clocking` | shift plans, assignments, the window of a clock-in | days of 6 hours, 1 hour ahead of UTC, a day and a night shift | `ClockHolds`: who is planned and comes while the shift lasts is let in |
| `Tenancy` | plans, subscriptions, branches, sites | 2 plans, 2 branches | `TenancyHolds`: one active subscription, people work in branches there are, a slug has one branch |
| `Payroll` | runs, lines, payment; requests that stop | 1 manager, 1 run, 2 members | `PayAddsUp`: totals, payments and status agree, but for what a stopped request left unwritten |
| `Leave` | types, balances, requests | 1 actor, 2 types, 2 requests | `LeaveHolds`: no request or balance loses its type |
| `Guests` | profiles, scans, visits; scans that stop | 1 camera, 2 profiles | `VisitsCounted`: the count is what the log says, if every scan was logged |
| `Finance` | hand-kept entries, profit and loss | 2 branches, 2 facts, 2 days | `FinanceHolds`: days and branches add up, stock reconciles |
| `Menu` | items, groups, limits, orders by waiters and guests | 1 item, 2 waiters at once, 2 portions | `NotOversold`: waiters sell no portion twice |
| `Alerts` | tickets, timer jobs, sweeps, idle tables | 1 ticket, 3 ticks | `NobodyOverlooked`: a sweep leaves no overdue ticket without its alert |
| `Accounts` | users, cookies, refreshes, mailed links | 1 user, 1 browser, 1 refresh at a time | `CookieIsCurrent`, `EmailsDiffer` |
| `Reports` | the filters of the reports over shifts, lines, payments, drops | 1 or 2 waiters, 2 shifts, 2 lines | `ReportsAgree`: they count the same money |
| `MenuEngineering` | plate costs, series, the matrix | 2 dishes, 3 days, a shrink factor of at most 2 | `AnalysisHolds`: buckets partition the days, the matrix is never empty of the popular |
| `StockReports` | stock, usage and transfer reports of a kitchen, a depot and the requests for goods | 2 stores, 2 goods, 2 or 3 moves, 2 transfers or requests, 2 days | `KitchenReportsHold`, `DepotReportsHold`: the views of one ledger agree |
| `Dashboard` | the manager's day, the page of a table, the pages of a station | 1 or 2 visits and tickets, 3 moments, 2 days | `DashboardHolds`: bills, revenue, tables, queues and times count the same rows |
| `Notices` | recipients, rows, rooms | 2 members, 1 event | `NoticesHold`: told once, and in the inbox |
| `Feedback` | reviews | 1 phone, 2 visits, 2 branches | `ReviewsHold`: one review per visit |
| `BankTransfers` | verification, retries, payment | 2 handlers, 2 bills, 2 transfers, 4 keys, 4 requests | `TransfersHold`: an intent is paid once, a transfer pays one bill |
| `Backup` | schedule, linking, archive and restore | a day of 2 hours, 3 days, 1 chat | `BackupsHold`: one run per slot, no bill without its seating |

Two of a kind are taken where the properties compare two (two stays in a room,
two members with a PIN, two bills for a transfer), and two at once where the
code has something that makes good for it (the conditional decrement of
portions, the version of a bill, the uniqueness of an e-mail). Where nothing
does, one request comes at a time and the table below says what two can do. A
formula that a comment introduces with "Not so" is what one would expect and TLC
refutes; it stays beside the invariant for the reader, in no run.

The subjects add up to two million states. `StockReports` is `inventory.service.ts` again, for what its reports make
of the ledger: here a movement is one action, but the moments, kinds and sources of the entries are kept, which
`Supply` and `Stockroom` do not need. It leaves out adjustments by count and the snapshots of costs. `Dashboard` leaves out
rooms and outside orders, VIP prices, percent and rounding, and what the pages cut off.
Both state agreements with the exceptions that the code makes, so that the exceptions are part of what is checked.

Proved in `PeopleProofs`, for every value of the constants satisfying `PeopleAssumption`:
`PeopleHold` (`PeopleAreServed`), that is `RosterHolds`, `PayAddsUp`, `LeaveHolds`,
`VisitsCounted` and `ClockHolds`, for any number of members, tables, runs, requests,
profiles, plans and scans. `OneAtATime` is assumed besides: one manager in payroll, one actor in leave
and one camera, as in the cfg, because these services lock nothing and two requests
do lose updates (see the table below). A manager's step is still one of many: payroll
opens no transaction, each of its writes is a step of its own, and `Stop` ends a request after any
of them; likewise a scan of `Guests`. What a request that stopped left unwritten is kept as history
(`undone` of a run, `logged` of a profile) until a later request writes it, and `PayAddsUp` and
`VisitsCounted` except it: totals that no refresh followed, a status that was not settled, a visit
that was not logged. The invariants:
- `StaffInv`: the roster is inductive with the types alone; the work is in that every request that
  ends someone's work, a shift or a table empties the slots, plans and waiters that named
  it (`MembersStay` for those that do not, `ShiftsReplaced` and the like for those that do).
- `PayInv`: `PayAddsUp` speaks of a run that no request is at work on. `PayRow` says which part holds of
  a run while a request is between its writes, `PayRequest` that what the request has summed or counted is
  still so, and `RowSays` what a request that stops leaves behind; a total is then the sum of the lines by `SumTheorems`.
- `LeaveInv`: a type that is about to be deleted is named by no request and a request about to be decided
  is as it was read (`LeaveReads`).
- `GuestInv`: while a scan has been counted and not yet logged, the count is that of the log with the
  scan appended (`Agrees`, `Counting`, `Logging`); the clock has not passed it.
- `ClockInv`: a window does not end before it starts, and whoever has clocked in was no later than the
  window is long with its grace (`Ordered`, `LateBounded`); the rest is arithmetic
  of hours modulo a day, for any length of the day and any time zone.

Proved in `HouseProofs`, for every value of the constants satisfying `HouseAssumption`: `HouseHolds`
(`HouseIsInOrder`), that is `StayHolds`, `MaterialsConserved`, `NotOversold`, `NobodyOverlooked`,
`NoticesHold`, `ReviewsHold` and `TransfersHold`, for any number of rooms and stays, issues, limits and
waiters ordering at once, tickets, staff and events, reviews, bills and handlers. Two conditions are
assumed besides, which the cfg satisfies and without which the table below shows what happens:
`OnePhone`, one phone at a time sends a review, since the look for an earlier one and the insert are not
one transaction, and `OneBatch`, a sweep's tickets fit into its batch (200 in the code). The proof also
made an assumption of the model explicit: with a limit for stale tickets of 0 a ticket queued in
the minute of the sweep would count as overdue and be missed, so
`AlertsAssumption` asks for a positive one, which the DTO of the branch settings does (`@Min(30)`). The invariants:
- `StayInv`: a call whose bill was asked for waits for it and one with a bill for its payment (`Waits`),
  so that no call of a room comes back to life after it is closed and its guests are gone.
- `PiecesInv`: once a return is counted, what came back and what is short are what was taken
  (`Settled`); the pieces out are the sum over the outstanding issues, each of which a step moves alone.
  This holds until `lapse`: an issue without a row of the balance, or an audit out of turn.
- `PortionInv`: an order under way knows a limit there is and how much it wants (`LimitInv`). The
  decrement asks the row again, so that nothing need be said of what an order has read.
- `AlertInv`: whatever is overdue at the time of a sweep and lacks its mark is among what the
  sweep has yet to do (`Seen`), however tickets, jobs and the worker move meanwhile.
- `NoticeInv`: of each event, nobody has heard who is yet to be told, and who has heard was to be told
  and has it in the inbox (`Fair`), on screens that are in the rooms of one member (`Joined`).
- `ReviewInv`: the review a phone is about to write is the first of its visit (`PhoneIsFirst`). The
  agreement of a manager's branches with his total is the lemma `SumOfParts`: a sum is the sum of the
  sums of its parts, whatever the partition.
- `TransfersInv`: that an intent is paid once hangs on what a request
  read before it asked Verify.ET. Of a request whose bill still has the version
  it was sent with, its key is unanswered, the paid amount it read is the bill's and
  its claim is still due (`RequestsFresh`); a payment is its intent's, whose key is
  answered and whose transfer was accepted (`IntentsPaid`); Verify.ET confirms a
  transfer for the first time under one key (`FirstOnce`); and a bill was paid the sum of its
  payments (`BillsAddUp`), which `RowAdded` carries through a commit. `TransfersHoldAlways` states it
  of `BankTransfers` alone.

`Verify.ET`, the face matcher, Telegram and the mail server are outside: their
answers are chosen freely among what the code provides for, except that
Verify.ET is taken to answer a repeated Idempotency-Key as it did before, which
is what the code sends the key for.

## Further disagreements

Besides the two violations that PROJECT.json records, the models reach these
states. Each was seen as a TLC counterexample; the last column says which
instance shows it: take the named formula as an invariant, or look for the state.

| Where | What the model reaches | Instance |
| --- | --- | --- |
| `shifts.service.ts:1883` | A forced clock-out with undropped cash always fails: its ledger rows have types the CHECKs refuse (`ForceCloses` fails). | CashCustodyPushed.cfg with `Migrated = TRUE` and 2 drops |
| `cash-custody.service.ts:88` | Two drops, or a drop and a handover, spend the same cash: `Balance(w) < 0`. | 1 waiter, 2 drops, 2 requests |
| `cash-custody.service.ts:319` | A RECEIVED drop is overwritten by a count that was loaded earlier, and is DISPUTED under another cashier. | 2 cashiers, 1 drop, 3 requests |
| `cash-custody.service.ts:125` | A retry that overtakes its original declares a second drop under one Idempotency-Key. | 2 drops, r1 and r2 with key k1 |
| `stations.service.ts:1272` | A change of the dish that overlaps a station action is served as the old dish (`ServedAsOrdered` fails). | TicketsOverlap.cfg without crashes |
| `order-item-mutations.service.ts:553` | Two managers decide one approval, each against the other; the last one wins. | 1 item, 2 approvals, 2 handlers |
| `order-item-mutations.service.ts:729` | A process that stops between applying and marking a change leaves an approval that undoes a served ticket (`ServedIsFinal` fails). | 1 handler, `MayCrash` |
| `billing.service.ts:1614` | Without Verify.ET two overlapping payments settle two bills with one reference (`TransferOneBill` in Seating, `OneBillPerTransfer` in BankTransfers fail). | 2 sessions, 2 bill requests, 2 collectors, `VerifyEt = FALSE`, 2 handlers |
| `orders.service.ts:1118` | A guest's left-over item sent when the bill is there makes the session ACTIVE_ORDER: what is ordered then is served and on no bill, and the session is closed as paid without it; sent after the payment, nothing can close the session (`BillCoversOrder`, `ClosedSettled`, `PaidSessionCloses` fail without `reopened`). | seating_serial, 1 handler |
| `qr-menu.service.ts:494` | A guest's order that stops between creating its session and marking the table (:508) leaves an open session at a table that looks free (`SeatedIsOccupied` fails without `marked`); when two requests overlap, it marks a table whose session was closed meanwhile. | seating_serial, 1 handler; 2 handlers |
| `orders.service.ts:773` | An order that was checked before the bill was generated is on no bill (`BillCoversOrder` fails). | 2 handlers |
| `order-item-mutations.service.ts:128` | A ticket cancelled after the bill was generated stays on it as charged; nothing writes CANCELLED_NO_CHARGE. | 1 handler |
| `rooms.service.ts:607` | A room whose tickets were all cancelled stays ACTIVE_ORDER and cannot be closed: `EmptyTableCloses` without `~InRoom(s)`. | 1 room, 1 handler |
| `billing.service.ts:254` | Two overlapping requests for the bill of a room both succeed (`RequestedOnce` fails). | 1 room, 2 handlers |
| `floor.service.ts:368` | Two requests that close one session free the table that was seated again in between (`SeatedIsOccupied` fails). | 2 sessions, 2 handlers |
| `cash-custody.service.ts:500` | `resolveDispute` writes RESOLVED, which the CHECK of migration 20260908095500 refuses: no dispute is ever resolved (`ResolutionReceives` fails). | CashCustodyPushed.cfg with `Migrated = TRUE` |
| `stations.service.ts:968` | `reportCannotPrepare` writes CANNOT_PREPARE, which the CHECK of migration 20260908094500 refuses. | Tickets, `Migrated = TRUE` |
| `order-item-mutations.service.ts:151` | Two cancellations of the last two tickets each count the other's: the session stays ACTIVE_ORDER (`ActiveIffChargeable` fails). | 2 items, 2 handlers |
| `billing.service.ts:366` | Withdrawing a request, or a payment, reopens a session that a manager's forced clock-out closed. | Seating, 1 session, 1 handler |
| `billing.service.ts:1497` | A transfer that was confirmed before the payment failed cannot be claimed with a new key, though the message says "Try again with the same reference" (`ConfirmedIsClaimable` fails). | BankTransfers, 1 handler |
| `shifts.service.ts:487` | A drop received while the cashier clocks out lands in the closed drawer; two clock-ins leave two cashiers on shift (`NothingUncounted`, `OneCashier` fail). | day_end with 2 handlers |
| `reconciliation.service.ts:287` | A drawer is RECONCILED though its reconciliation reads FLAGGED: approve and flag overlap, or a count without variance that a clock-out has settled is flagged afterwards. | day_end, 2 handlers; 1 handler |
| `shifts.service.ts:2131` | A manager's forced close of a drawer with a deposit is always rolled back (a source type the CHECK refuses). | CashierDrawer, 1 handler |
| `daily-close.service.ts:336` | An order or a payment checked before the lock commits after it (`LockHolds` fails). Starting a session and reviewing a reconciliation do not look at the lock. | day_end with 2 handlers |
| `daily-close.service.ts:147` | A day to come can be created and locked: a payment that settles on it changes its figures (`LockHolds` fails without `LockedInTime`), and the orders and payments of its own seatings are refused all day. | day_end, 1 handler |
| `daily-close.service.ts:935` | A waiter whose day was locked and who takes cash after midnight has it for good: it is in no waiter's undropped figure, and he may not drop it, because his shift's day is locked (`OnHand(w) > 0` with `close[w]` LOCKED). | day_end, 1 handler |
| `daily-close.service.ts:1193` | Locking yesterday cancels what is being cooked today, even when the lock is then refused (`LeftoversOnly` fails). | DailyClose, 1 handler |
| `inventory.service.ts:3718` | A transfer accepted twice, or accepted and rejected, is counted twice; an older trip update overwrites RECEIVED (`StockConserved` fails). | store with 2 handlers |
| `inventory.service.ts:4521` | A dispatch that dies after the transfer is repeated and ships twice. | Supply with `crashes`, without that condition in `ShipsOnce` |
| `inventory.service.ts:881` | The warehouse is switched off while transfers from it are IN_TRANSIT or ARRIVED; one that is then rejected (:3889) puts its stock into the inactive warehouse (`onHand[m] <= 0` for an INACTIVE `m` fails). | store, 1 handler |
| `inventory.service.ts:3293` | A count posts the counted quantity as balance though stock has moved since its snapshot, which is that of any location (`BalanceIsBooked` without `lapse` fails). | Stockroom |
| `rooms.service.ts:607` | A room session whose tickets are all cancelled cannot be closed (`CancelledRoomCloses`). | RoomStays |
| `outside-orders.service.ts` | `auditMaterialIssue` does not look at the status of the issue; materials can be issued on a closed order; an update can close an order past the check of its materials. | OutsideOrders, without `lapse` |
| `staff-coverage.service.ts:417` | Staff created inactive, and (`super-admin.service.ts:2799`) suspended by the platform, are refused by the CHECK of migration 20260908091000. | Staffing |
| `staff-coverage.service.ts` | PINs of two members coincide after a reactivation, staff with history cannot be deleted, a permanent waiter's days are not all covered (`PinsDiffer`, `AnyoneLeaves`, `PermanentWaiterCovers`). | Staffing |
| `shifts.service.ts:673` | After midnight today's plan decides, and a late night-shift worker is refused (`NightGoesOn`). | Clocking |
| `staff-coverage.service.ts:2225` | Assignments are written for the day on which the plan is saved, with local hours read as UTC: one may clock in on an unplanned day (`PlannedOnly`, `AssignedAsPlanned`); one cancelled is accepted when asked for by id. | Clocking |
| `branches.service.ts:103` | ARCHIVED and SUSPENDED are refused by the CHECK on branches; reactivating passes the plan's limit; a bakery made from a restaurant may lack its counter; sites of inactive branches stay online; a tenant with store data cannot be deleted (`WithinPlan`, `BakeryServes`, `ClosedIsOffline`, `TenantErasable`). | Tenancy |
| `payroll.service.ts:529` | Pay handed out in a run that is demoted afterwards is in no report (`PaidIsCounted`); two managers leave stale totals. | Payroll, 1 or 2 managers |
| `payroll.service.ts:470` | An edit of a line that stops before the totals are refreshed (:498), then `markPaid` (:529), which does not refresh them, give a PAID run with stale totals; a run whose creation stops has totals of 0. A `markPaid` that stops after :558 leaves all lines paid and a run that can never become PAID, for want of an unpaid line (`PayAddsUp` fails without `undone`). | Payroll, 1 manager |
| `hr.service.ts` | A leave type deleted while it is asked for leaves requests without a type; the balance kept and the one computed differ (`BalanceAgrees`). | Leave, 2 actors |
| `biometrics.service.ts` | Two cameras lose a visit; a poor frame creates a second profile. | Guests, 2 cameras |
| `biometrics.service.ts:188` | A scan that stops before its log entry (:202; :291 after an enrolment at :279) leaves a visit that is counted and never logged (`VisitsCounted` fails without `logged`). | Guests, 1 camera |
| `finance.service.ts` | The list of expenses counts tips twice and leaves out the warehouse's material (`ListMatchesReport`). | Finance |
| `qr-menu.service.ts:616` | Guests' orders pass the limit and take nothing from it (`GuestsKeepToTheLimit`). | Menu |
| `menu.service.ts` | An item marked available again keeps its station's override: shown and not orderable (`ShownIsOrderable`). | Menu |
| `order-sla-monitor.service.ts:40` | A job goes off at the time set for the dish before a change (`MarkedIsOverdue`); more tickets than one batch of 200 may wait unnoticed; a crash between mark and message loses the alert. | Alerts; `Batch` smaller than the tickets |
| `auth.service.ts:590` | Two refreshes of one browser sign it out (`CookieIsCurrent`). | Accounts, 2 requests |
| `waiter-performance.service.ts` | The reports disagree on the sales of a shift that crosses a UTC day (`SalesAgree`). | Reports |
| `inventory.service.ts:2347` | Series of days are keyed by UTC days, though the comment has them cover every day asked for: from 03:00 in Addis Ababa on, what follows belongs to the last day and is dropped. | StockReports, `Slots = 2`, `Zone = 1` |
| `inventory.service.ts:2229` | An owner without any store has an empty scope, which filters nothing and shows the warehouse. A list without a location shows the first balance of an ingredient only; REVERSAL is in no usage. | StockReports |
| `manager-dashboard.service.ts` | Hours after midnight are shown on the day of the visit; the gap of a day without a bill is what was ordered; a revenue by weeks lacks the week that goes on when the period ends earlier in its week than it began (`SeriesAgrees` without `shown`). | Dashboard |
| `floor-layout.service.ts` | The KPI of a table counts the paid part of a bill that is paid in part; `TablesAgree` allows for it. | Dashboard |
| `stations.service.ts` | A changed instruction puts a ready ticket back in the queue and keeps `readyAt`: started again, it is ready before it began and in no chart (`PrepAgrees` allows for it). | Dashboard |
| `menu-engineering.service.ts` | Once a dish that sold is taken off the menu, nothing may look popular (`SomethingIsPopular`). | MenuEngineering |
| `ops-notify.service.ts:149` | A socket keeps its rooms when its member is suspended or moved (`ScreensAreCurrent`). | Notices |
| `feedback.service.ts` | A review is filed under any active branch of the tenant (`GuestsAreHeard`); two phones review one visit twice. | Feedback |
| `telegram-backup.service.ts:104` | The "100% verified complete snapshot" mixes times, and can neither be restored into an empty database nor over live data consistently (`ArchiveIsSnapshot`, `ArchiveRecovers`, `RestoredIsConsistent`). Where the runtime prints midnight as 24 a daily backup at hour 0 never runs. | Backup |

## Plan

Done: every component of the inventory that decides about data; proofs of cash
custody, tickets, seating, store room, supply chain, drawers, the day's close, and of the back office all that is about its
guests and its people. There are
twelve runs at most, so a new question takes the place of one, and its finding
moves to the table above. Next:

1. An abstract `Bill` (nothing due before it is billed, paid once) that `Seating`
   implements with one request at a time.
2. Composition: one evening of one table over `Seating`, `CashCustody` and
   `DailyClose`, for what crosses them (every cash payment is in a pouch, a
   drawer or a locked total).
3. `PlatformHolds` as a theorem, the components it is about in a module like `House`.

## Not modelled

- Listings, searches, paging, exports, pictures, texts, translations and themes:
  they write nothing another operation decides on.
- Uploads and calls to language models (`files`, `ai`, `menu-scan`): their
  answers come back to the user, who then uses the operations modelled here.
- Permission checks: a refused request takes no step. Roles appear where a
  decision about data depends on them (`Staffing`, `Notices`, `Tenancy`).
- Configuration, database set-up and code generators. The constraints of the
  migrations are in the models, behind `Migrated` where it matters.
- Transfers of tables between waiters, call-pickup sessions and tips; of the
  custody summary (`expectedDrawerCash`) only that it ignores handovers is known.

## What is only model-checked, and what the prover cannot reach

Liveness under fairness (`ResolutionReceives`, `ForceCloses`) and
`ENABLED` stay with TLC. So do, of the back office, `PlatformHolds`
and `BackTypeOK`. The proofs of `PeopleHold` and `HouseHolds` have the types they need in
their own invariants, but `Guests!TypeOK` bounds `recent`, which is a `SelectSeq`, a
function defined by recursion on the length that needs an induction over data.
No module declares a RECURSIVE operator, so that every
module can be proved about. Sums are folds, and an induction over the set that is
summed is replaced by a smallest counterexample, as said under "The store"; where an item
costs one unit, or ledger rows are compared instead of balances, none are needed.

The proofs are written to hold on slow machines: every leaf was tried
with a fifth of the provers' usual time.
