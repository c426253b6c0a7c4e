# SwiftDrop in TLA+

SwiftDrop is a delivery company's back office: customers hand in parcels,
drivers fetch and deliver them and collect cash, the company settles with its
drivers and pays its customers out. The server (`src/server`, Express and
Prisma over PostgreSQL) decides everything and keeps all state in the database.
There are no background jobs, queues or timers: every change is one HTTP
request handled in one transaction, after reads that may have been made before
it. The web client (`src/client`) is not a mere form either: it holds a cache,
keys of unanswered requests, unsaved drafts, a cookie and tokens, and acts on
them later. What can go wrong is of four kinds:

* **interleavings** of handlers that read before they write, under PostgreSQL's
  default READ COMMITTED isolation, and of transactions that wait for each other;
* **long legal sequences** of operations on the same money: partial
  settlements, reviews, corrections, reversals, and a mode switch in between;
* **calls that are lost, delayed or repeated** between a browser and the server;
* **stale copies**: a page, a form or a draft that is acted on after the rows
  behind it have moved.

## 1. Inventory

### Components, their state and operations

`PROJECT.json` names the source files of each.

| component | state | operations | correct when |
|---|---|---|---|
| order lifecycle (management) | `orders` operational columns, `order_assignments`, `order_status_history` | create, update, assign, bulk assign, reassign, unassign, ready, reschedule, cancel | driver column and assignment rows agree; the status history has no gap; no two handlers act on one reading of the order; an edit changes what was shown and nothing after the delivery |
| driver order workflow | the same, `delivery_attempts` | pickup (button, barcode), start, deliver, fail | only the driver in possession moves the order on; each attempt is recorded once |
| parcel collection | `parcel_collection_status`, `parcel_collection_assignments`, `parcel_collection_attempts` | assign, reassign, reschedule, receive; driver: collected, failed | stage, collector and rows agree; a parcel changes hands one step at a time |
| drivers | `drivers.is_active` | activate, deactivate, eligibility check | no inactive driver is assigned |
| financial release (settlement mode) | `order_financial_releases`, financial columns of `orders`, the activation row of `system_settings` | delivery decision, difference resolution, release, void, release reversal, activate, deactivate | in settlement mode nobody owns collected cash before the driver handed it over; the gates of an activation are true when it commits |
| driver cash ledger and corrections | `driver_cash_accounts`, `driver_cash_transactions` | collection, settlement, adjustment, reversal | the balance equals its ledger and covers the reserved collections |
| driver settlements | `driver_settlements`, allocations, corrections | create (allocation and legacy format), reverse, shortfall | the allocations of standing settlements are what the releases count as settled |
| customer wallets, corrections, payouts | `customer_wallets`, `wallet_transactions`, `customer_payouts` | credit, payout, adjustment, reversal | the balance equals its ledger and never becomes negative |
| request idempotency | the unique key columns, advisory locks, the request in flight | derive the key, look it up, lock it, look again, write, answer a replay | one effect per key, and every answer is true of it |
| company finance ledger | `company_financial_transactions` | product, fee and direct-collection rows, reversal | the revenue of an order is posted exactly once, and as planned |
| financial reconciliation report | none | queries R1 to R14 | its equations are the invariants of `FinancialRelease` |
| historical reconciliation | records and decisions on deleted ledger rows | propose, approve, reject, withdraw, revoke | two live records never explain the same loss, and the residual is what no record explains |
| historical ownership | policies, resolutions, decisions, liabilities | propose, approve, reject, withdraw, record, revoke | an order leaves the list that blocks activation only by coming back or with one liability |
| authentication sessions | `auth_sessions`, the cookie, the tabs' tokens | sign in, refresh, sign out, password reset, deactivation | a refresh token is exchanged once |
| employees, role configuration | `users`, `employees`, `role_permissions` | create, update, replace permissions | an administrator remains; two replacements never merge |
| customers and portal accounts | `customers`, `users` with the role CUSTOMER | create, update, grant, rename | a login belongs to one customer |
| driver expenses | settings versions, default vehicles, expense days, the grid's drafts | add version, set vehicle, record, correct | a recorded day keeps the price of its moment; no correction goes over an unseen one |
| web client | cache, forms, dialogs, scanner, pages | see the modules below | what is sent is what was shown, once |
| read models, HTTP layer, reference data, migrations | rows of their own, or none | queries, parsing, rendering | no behaviour over several steps |

### How they interact

An order carries two lives in one row. Its operational columns are claimed by
the management, driver and parcel handlers with a conditional `UPDATE ... WHERE`
that restates what the handler had read; the loser's claim matches no row and
its transaction rolls back with 409. `deliverDriverOrder` is where the lives
meet: the transaction that moves the order to DELIVERED also records the cash in
the driver's ledger and, depending on the mode, posts or plans who owns it. From
then on the operational columns never change, and the money side never reads
them.

All financial transactions take row locks in one global order before they read
what they decide on: the activation row, the driver's cash account, the release
rows by id, the orders, the wallets. A request that carries an `Idempotency-Key`
takes the advisory lock of its key before all of these, and only that one. An
activation takes every account shared.

A browser has one cookie for all its tabs and one cache per tab. The cache hears
of a change only through the tags its own mutations invalidate. A dialog decides
by itself whether a failed request may have taken effect, and repeats it under
the same key if so.

### What is hard, and the properties for it

`PROJECT.json` lists every hazard at its line with the properties that cover
it. The themes: stale reads between the first read of a handler and its claim
(the assignment row to end, the amount to deliver, the status to restore, the
driver's eligibility, the row an edit was validated against, the administrator
who is counted); cancellation against collection; cash reserved for one
collection and taken by another operation; a settlement that completes one
release of several; settlement and review finishing in either order;
corrections after corrections; activation changing half way through an
obligation; requests under one key, concurrent, lost and repeated; two tabs
exchanging one refresh token; a fuel price added to the past while a day is
recorded; a draft that outlives the record it was typed over; a screen that
never hears of a write.

## 2. Modules

| module | models |
|---|---|
| `FinancialRelease` | the money of delivered orders: one action per financial transaction |
| `Custody` | what settlement mode promises for one cash collection |
| `IdempotentRequests` | a request with an Idempotency-Key: one action per database call |
| `OncePerKey` | what such a key promises |
| `OrderRecords` | the order's rows, and the read, check and claim of its handlers |
| `ParcelCollection`, `DeliveryWorkflow` | the parcel handlers; assignment, editing and the driver's handlers |
| `OrderLifecycle` | creation and cancellation, and all handlers composed |
| `ParcelJourney` | what the lifecycle promises about where a parcel is |
| `LockOrder` | the locks of every path that moves money or assigns orders, and the activation |
| `HistoricalReconciliation`, `HistoricalOwnership` | the two registers that must be settled before an activation |
| `Sessions` | refresh tokens, from the rows to the tabs of a browser |
| `ManagementAccess`, `PortalAccounts` | employees and role permissions; the logins of customers |
| `MoneyDialogs`, `SettlementDialog` | the dialogs that move money, over a faulty network |
| `OrderFinancials` | the amounts of an order as server and forms compute them, and the saved receivers |
| `OrderEditing`, `OrderCreation` | the two forms that write an order, with their handlers |
| `ExpensePricing`, `FuelExpenses` | the pricing of a driver's day and the transactions that record it |
| `ExpenseLedger` | what these promise |
| `DailyExpenseGrid` | the grid in which an administrator records the days |
| `ServerRows`, `QueryCache` | the rows every query reads and every mutation writes, their cache tags, and the cache |
| `ScanSession`, `DriverJobScreen`, `OrderScreen` | the pickup scanner, the driver's job page, the management page of an order |
| `...Proofs` (7), `SumTheorems` | the theorems, section 4, and lemmas about sums over finite sets |
| `MC...` (8) | small instances for TLC, section 3 |

An operator that a comment calls a mutant, defined just before the operator it
resembles, is a faulty version of it: a dropped guard, a missing write. It
belongs to no specification. It documents what a property is able to notice:
with it in place of the real one, the property fails in the same run.
`PROJECT.json` has one for every property, and the source lines of every
definition.

### FinancialRelease

**Granularity.** One transaction is one action. Every financial handler first
takes its locks and only then reads what its guards depend on; what it read
before is immutable or read again. The locks themselves are `LockOrder`'s.

**State.** `orders`, `releases` and `rows` are indexed by order: a release has
`UNIQUE order_id`, and each ledger row an order can cause has a key derived
from the order, so `rows[o]` has five places (collection, direct company
collection, wallet credit, product revenue, fee revenue). A row is ABSENT,
POSTED or REVERSED; a reversal in the code is a second row with a unique pointer
to the first, which makes a second reversal fail. Zero amounts post no row. The
three planned-ownership columns are NULL together, which `NoPlan` stands for.
`account` and `wallet` are the cached balances, which the code maintains beside
the rows and never recomputes. An increment that leaves the column's range fails
and takes its transaction with it (`CanCredit`).

**Actions.** `DeliverOnSettlement` and `DeliverImmediately` are the financial
half of `deliverDriverOrder`. `CreateSettlement` debits the driver, raises the
allocated amounts and releases every collection this completes;
`CreateLegacySettlement` is the amount-only format; `ReverseSettlement` and
`RecordShortfall` correct. `ResolveImmediately` and `ResolveReleaseDifference`
resolve a difference between what was expected and what was collected.
`VoidReleaseCollection` and `ReverseRelease` correct a release before and after
it is released; the `Reverse...` actions of single rows are the generic ledger
reversals with the guards that keep them off rows a release counts on.
Adjustments, payouts, `Activate` and `Deactivate` complete it.

**Custody** is the abstract specification: a collection is held, handed over in
parts, and owned at once and in full when everything is handed over and the
split is agreed, whichever came last. The refinement mapping is `CustodyState`.
It says of all correction paths that none produces a half-owned collection.

### IdempotentRequests

One database call is one step, since the question is what may happen between
two of them: the read before the transaction (`FastPath`), the advisory lock
(`Lock`), the read under it (`Recheck`), the debit that waits for the row lock
and decides on the committed balance (`Apply`, `Refuse`), the insert and commit
(`Commit`), and the answer (`Answer`). `NumberTaken` is a conflict of the
generated number, which starts again at the lock. `Abort` is a timeout, a lost
connection or a crash at any point, also after the commit. A retry is a further
request with the same key. `recorded[k]` is the row that carries key `k`; fund
and amount stand for all the fields a replay is compared with. A fund is a
wallet, a driver's cash account, or what is left of a settlement. `LockOf` is
the hash of the key and may map two keys to one lock. The catch clauses that
look for a winner after a unique violation are left out: `KeysNeverCollide` says
that they are never reached, and is proved.

**OncePerKey**: a key takes effect at most once; DONE is answered only to a
request that asked for what took effect, REUSED only to one that asked for
something else, REFUSED only if nothing did.

### OrderRecords, ParcelCollection, DeliveryWorkflow, OrderLifecycle

**Granularity.** The order handlers do not lock the order before they read it. A
handler is modelled in the steps the database sees: `Read...` (the order row as
last committed, early rejections), one step for each further read, and the
transaction whose first write is the claim. The claim takes the row lock,
PostgreSQL evaluates its condition again on the committed row, and all later
writes are of rows guarded by that lock or conditional themselves; so claim and
writes are one action. A request that fails a check, or whose claim matches no
row, ends without effect: `Abandon` stands for these and for a server that dies.

**State.** `requests[r]` is what a handler in flight has read and has yet to
read. `history` is kept in commit order; `at` is `created_at`, the start of the
transaction, and therefore any moment between the first read and the commit.
Only `unassignOrder` orders rows by it, so only rows that enter ASSIGNED carry
it. `startedAt` is the position of the history row of the start. Money appears
only as the amount the delivery is based on.

**ParcelJourney**: a parcel is at the sender, with a collection driver, at the
company, with a delivery driver or at the receiver, and moves along these arrows
only, never from driver to driver. The mapping is `PlaceOf`.

### LockOrder

A path is the sequence of statements that lock rows, each a set of rows that one
statement locks by id, in share or update mode. Of the effects only what decides
a later lock or a gate is kept: the flag, how far an order is, and the
unattributed cash of a driver. `activate` locks the flag, scans the accounts and
locks them shared. `bulk` claims its orders in whatever order `findMany`
returned them, which is why it is a path of its own and not an ascending one.

### HistoricalReconciliation, HistoricalOwnership

Records and decisions only accumulate, and what a record is worth is worked out
from the ledger each time it is read. A request takes all its locks in one step,
checks, and inserts in a second one; in between, other accounts' requests,
changes of roles and writes by hand go on. The first module has the chain of a
driver's ledger with deleted rows, the second policies, resolutions, their
decisions and the liability register. A gap does not say by itself which rows were
deleted: a collection, or a larger one together with an adjustment
(`g3-driver-cash-discrepancy-investigation.md:59`). That each lost row is explained
once when the gate passes is therefore said under `OnlyCollectionsLost`, which
excludes the second case; that live records never overlap is said without it.

### Sessions, ManagementAccess, PortalAccounts

An exchange in `Sessions` is sent, handled and answered; a refresh is handled in
two steps, since its transaction holds the row between the claim and the commit.
The tabs of a browser share the cookie but not the access tokens, and each has
one refresh under way for all its calls. A refresh whose page gave up or was
reloaded before the server began may still be served (`ServeAdrift`). `ManagementAccess` keeps what
SERIALIZABLE transactions read and write and which committed beside them, and
aborts one that would be the pivot of a cycle; the read of `updateEmployee`
outside its transaction is a step before it. `PortalAccounts` is READ COMMITTED,
with the one conditional statement that links a new login.

### MoneyDialogs, SettlementDialog

`MoneyDialogs` is the dialog of one kind at a time (payout, adjustment,
reversal, correction, proposal), each with its rules for the key it sends, for
what it takes as ambiguous and for what may be edited or closed afterwards, over
a network on which calls and answers are lost and delayed. `SettlementDialog` is
the longest of them: a selection made on the last position the server sent,
reviewed against a fresh one, confirmed and posted, while others settle and void
the same collections.

### OrderFinancials, OrderEditing, OrderCreation

`OrderFinancials` is the arithmetic that the server and both forms repeat; all
amounts are whole cents. The Edit dialog is seeded once and names nearly every
field in its PATCH, leaves out an unchanged phone of the legacy format, and
sends null for what was cleared. The server reads, checks, and claims, three
steps between which anything may happen.

The Create page sends one form at a time; its customer's profile, the saved
receivers and the areas arrive beside it. A text field that still holds what was
copied from a profile is copied anew from the next one, so an order is stored as
the page showed it when it was sent, with one exception: an alternative phone
the operator cleared is sent as absent (`createOrder.schema.ts:344`), and the
server then takes the customer's own (`order.service.ts:812`), while the comment
at `CreateOrderPage.tsx:267` says that the order stores what was edited. Until the
profile of a newly selected customer arrives, the form keeps what it copied from
the previous one (the comment at line 269 promises more); no run is about this.

### ExpensePricing, ExpenseLedger, FuelExpenses, DailyExpenseGrid

Recording a day takes the timeline lock shared and adding a version takes it
exclusively; a correction takes no lock and is claimed on the stamp of the row
it was made for. `ExpenseLedger` has the same operations in one step each. The
grid keeps drafts by date and driver, merges them over reloaded records, and
saves one row or all of them. The run has three grids: one row, two rows, and one
row on two dates.

### ServerRows, QueryCache, ScanSession, DriverJobScreen, OrderScreen

`ServerRows` says for 46 queries and 37 mutations which rows they read or write
and which tags they provide or invalidate. They are the values of the parameters
of `QueryCache`, whose entries hold the set of mutations their data shows.
`WritesReachTheScreen` then joins the two independent halves: what was written,
and which tags were declared. `TagsMatch` is what a table owes the cache: a
mutation that writes a row a query reads invalidates one of its tags.

This client's table does not meet it everywhere. In `MCScreens` a request is about
the same order as another, about one of the same customer or driver, about a
foreign one, or about one it creates; 611 pairs of a query and a mutation of one
session, the management's or a driver's, then concern each other. The tags miss on
79 of them. `MCScreens` names all of these, in five groups, as `Overlooked`, and
`screens` checks all the others:

| group | pairs | queries, beside mutations |
|---|---|---|
| `CountersMissed` | 27 | `getCustomers`, `getCustomer`, `getWallets`, `getWallet`, `getWalletCustomerSummaries` (order counts, pending money) beside creating, editing or cancelling an order; `getDriver` (order counts) beside creation, assignments and cancellation |
| `ReportsMissed` | 25 | `getOrderReport`, `getDriverReport`, `getCustomerReport`, `getDashboard` beside the parcel actions, `readyOrder`, and new or changed drivers and customers |
| `NamesMissed` | 13 | the order list and page, a driver's current orders and the wallets, beside `updateCustomer`, `updateDriver` or `createCustomer`, whose names they show |
| `DetailsMissed` | 10 | an order's page, history and timeline beside `bulkAssignOrders`; a driver's collections beside creation and cancellation; a settlement's page beside the reversal or resolution of what it settled |
| `AnswersMissed` | 4 | only when the answer is lost from which the tag is taken: `resolveCollectionDifference`, `scanPickupDriverOrder` |

`OverlookedAssumption` has TLC verify that no pair is in this list without cause,
and the run `stale_screens` shows what happens on them. Not in the table: audit
logs, employees, expenses, the historical registers and the activation, settings
and roles, the customer portal; the name of a customer, driver or reference that
further lists join to their rows (reports, payouts, settlements, outstanding
collections, transactions); and the historical liabilities in the finance summary. In the
table although no component calls their hooks yet: `getDriverOrder`, `getDriverOrders`,
`getOrderHistory`, `resolveCollectionDifference`.

The scanner repeats a pickup only after its cooldown; the two pages keep the dialog
that was opened on one state of the order while the order moves.

## 3. Runs

All passing runs explore their state space completely. `CHECK_DEADLOCK` is off because
the system may stop: an order that is delivered, money that is settled and
requests that were all answered need no further step.

Most MC modules combine several specifications that share no variable. A
behaviour is one of one *part*, which the variable `part` says from the first
state on; the variables of the other parts keep their initial values. So the
states of the parts add up instead of multiplying, and an invariant of one part
is checked on all of its states.

| run | instances and bounds | shows |
|---|---|---|
| `release` | 2 orders (one of each type) of one driver and one customer. *Shared*: both orders and 2 settlements, no manual movement. *Ledgers*: one of the orders and one settlement, with 2 adjustments and 1 payout. Collected and manual amounts up to 2, balances up to 4 | cash, allocations, statuses, ownership and balances agree through settlements, reviews, shortfalls, corrections, manual movements and changes of the mode, in every order; the promise of `Custody` |
| `order_delivery` | 1 order at the company with 2 amounts, 2 drivers, 2 requests in flight, 8 history and 3 assignment rows; or 2 orders assigned together, whose drivers may be deactivated | history, attempts, amounts and possession on the delivery side |
| `order_parcel` | the same with a parcel to be fetched, 1 amount, 4 history rows | the collection side, cancellation against it, the hand-over to delivery, the journey |
| `requests` | server: 3 requests under 2 payout keys of one wallet, 2 number attempts, amounts and credits up to 2; dialogs: 3 kinds, 2 bodies, 2 openings, 2 submissions; settlement dialog: one collection of up to 2 with every difference and one post, and one of 1 with two posts; scanner: 1 label, 2 runs of the page, 2 scans, 2 moves of the order by others | one effect per key and per opening, no overdraft, true answers, client and server accept the same settlements, and one pickup per assignment |
| `access` | sessions: 1 user, 3 rows, 2 tabs, 1 call, a faulty network; 3 accounts and 3 updates; 2 roles, 4 permissions, 3 replacements; 2 customers, 3 logins, 2 emails, 2 updates at once | a refresh token is exchanged once, an administrator remains, replacements never merge, a login has one owner |
| `locks` | 2 transactions on 14 paths, 2 orders of one driver and two customers, 1 unattributed unit of cash; one gap with three persons, two gaps that either audit explains; ownership requests racing, and a liability revoked and recorded anew | no deadlock, gates that hold at the commit, explanations that never overlap |
| `expenses` | server: 1 driver, 2 days, 2 requests, 2 rates; grid: one row corrected, "Save all" over two rows, two dates | the ledger's promise, no correction over an unseen one, what is saved is what the row showed |
| `screens` | cache: every pair of a query and a mutation of one session that writes what the query reads, on 3 orders, customers and drivers and 4 settlements, except the 79 of `Overlooked`, one request each; and crowded sessions of two mutations or two queries. Job page: 2 steps of others; order page: 1. Edit dialog: 3 stored orders, 10 edits, 2 requests, amounts up to 2, and a partial caller beside it. Create form: its collection fields, typed, copied and cleared, and its payment with a saved receiver | screens hear of their own session's writes, what is recorded is what was confirmed, what was shown is what is stored; a delivered order is frozen |
| `answers` | 2 calls that share one refresh; 3 keyed requests whose two keys share one lock; 2 requests on the fuel timeline | under fairness, every request and transaction ends |
| `order_deactivated_driver` | 1 order, 1 driver, 1 request | the first finding below |
| `access_restored` | 2 accounts and 3 updates, which may promote as well | the second finding below |
| `stale_screens` | the 79 pairs of `Overlooked`, otherwise as `screens` | the further findings below |

**Why the bounds are enough to be interesting.** In the first part of `release` an order
amount of 1 with a fee of 1 gives a collection of 2 that is settled in two parts
by two settlements, shared with another collection in one of them, collected
short, exactly or in excess, and split in more than one legal way. The shares
are unequal, so that a swapped bucket shows; the balance limit is reached. In
the order runs two requests are enough for every race of two handlers, each
against any sequence of completed ones; eight history rows hold a failed attempt
and a second one that delivers, or one attempt after several changes of driver,
and three assignment rows an assign, reassign and assign-again of the same
driver, which is what makes a stale assignment row look current. In `requests` three requests are an
original, its retry and a rival for the same fund. In `access` three accounts
are the fewest in which two updates can each count another one and be both
wrong, and three session rows are a sign-in with two rotations. In `locks` any
two paths meet on crossed customers, so a pair that locks two wallets or two
orders in opposite order is found; longer circles are the theorem's. Guards
that carry a `Max...` bound cut long behaviours and forbid nothing else.
Requests are symmetric wherever no liveness is checked, drivers and settlements
wherever no configuration names one.

**Fairness** is assumed in `answers` only. Weak fairness of every continuation a
browser or server owes by itself: the steps of a refresh and of a call, and the
bootstrap of a page; and of each keyed request's next statement (`Proceed`).
Node runs every pending continuation, and PostgreSQL grants a lock that stays
free. Strong fairness of `Advance` for each transaction on the fuel timeline: the
lock may be taken shared again and again while a writer waits, and PostgreSQL's
lock queue, which is not modelled, serves waiters in order. Nothing is assumed of
people, of number conflicts, aborts or other transactions. For orders and money
no fairness is assumed: each operation is taken because a person asked for it.
What the code does promise in its place is that nothing is left waiting by the
code itself, a safety property (`NothingLeftPending`).

### Findings

*Deactivated driver* (`order_deactivated_driver`). The eligibility check inside
the transaction takes no lock, so under READ COMMITTED a deactivation can commit
between the check (`driver-eligibility.ts:32`) and the write it protects. The
comments at `driver-eligibility.ts:24` and `order.service.ts:725` say that the
check suffices.

*Last administrator* (`access_restored`). `updateEmployee` reads the account
before its SERIALIZABLE transaction (`employee.service.ts:252`) and decides from
that reading whether it must count the other administrators (line 290). A
deactivation that read the account before a promotion and commits after it
counts nobody and may take the last administrator away; the database sees no
conflict, because the reading belongs to no transaction. The comment at line 282
calls "at least one OTHER active ADMIN user" an invariant.

*Overlooked tags* (`stale_screens`). On each of the 79 pairs above a screen that is
open during the write keeps the old answer until it is fetched for another reason,
although the same session made the write and was told of it (on the four of
`AnswersMissed`: unless the answer that names the row was lost). TLC stops at the
first, an order list that shows a customer's old name after `updateCustomer`;
`tlc -continue` goes on and shows one of each of the 79. Three of them contradict what the
repository says: `customersApi.ts:22` of the screens that `updateCustomer` (line 140)
refreshes, `ordersApi.ts:282` of `bulkAssignOrders` (line 413), and
`implementation_plan.md:1216` of the queries whose statistics an order changes,
against `createOrder` (`ordersApi.ts:317`).

## 4. Proofs

The theorems hold for every value of the constants that satisfies the named
assumptions of the modules: finite sets where sums are taken or circles are
excluded, otherwise sets of any size, and bounds of any size. What is listed
here is in `PROJECT.json` under `theorems`; the lemmas they rest on, and four
lesser theorems (`LockTypes`, `ReconTyped`, the `TypeCorrect` of the requests, and
`RefusedForSizeOnly`), are in the same modules. A theorem about a property that a run checks names the definition the run
checks, so that what TLC finds on a small instance and what is proved of all of
them is one formula.

| module | theorem | states |
|---|---|---|
| `FinancialReleaseProofs` | `TypeCorrect` | `Spec => []TypeOK` |
| | `CoherenceHolds` | `[]Coherent` |
| | `OrderAndReleaseAlwaysAgree` | `[]OrderAndReleaseAgree` |
| | `CompletedReleasesAreReleased` | `[]NothingLeftPending` |
| | `OwnershipFollowsSettlement` | `[]OwnedOnlyWhenSettled` |
| | `CorrectionsStayFinal` | `CorrectionsAreFinal` |
| | `ReleasedSettlementsNeverFall` | `ReleasedSettlementsStand` |
| | `ReleaseImplementsCustody` | `ImplementsCustody` |
| | `MoneyStaysSound` | `[]Sound` |
| | `BalancesStayTrue` | `[]BalancesEqualLedgers` |
| | `ReservedCashStaysHeld` | `[]ReservedCashIsHeld` |
| | `AllocationsStayTrue` | `[]AllocationsAgree` |
| `OrderLifecycleProofs` | `TypeCorrect` | `[]TypeOK` |
| | `DriverAlwaysFits` | `[]DriverMatchesStatus` |
| | `AssignmentsAlwaysConsistent` | `[]AssignmentsConsistent` |
| | `HistoryStaysAChain` | `[]HistoryIsAChain` |
| | `AttemptsAlwaysMatch` | `[]AttemptsMatchHistory` |
| | `AmountStaysDelivered` | `[]DeliveredAmountStands` |
| | `NeverCollectedTwice` | `[]CollectedOnce` |
| | `PossessionAlwaysStands` | `DriverKeepsPossession` |
| | `CancelAlwaysWaits` | `CancelNeverStrandsParcel` |
| | `LifecycleImplementsJourney` | `ImplementsJourney` |
| `IdempotentRequestsProofs` | `NoCollision` | `[]KeysNeverCollide` |
| | `NotOverdrawn` | `[]NeverOverdrawn` |
| | `PromiseKept` | `ImplementsOncePerKey` |
| | `OneEffectEachTime` | `DialogSpec => []OneEffectPerOpening`, under `BoundToOneAttempt` |
| | `SettledOnceEachTime` | `SettlementSpec => []OneSettlementPerOpening` |
| | `WhatIsValidIsAccepted` | `SettlementSpec => []ValidIsAccepted` |
| `AccessProofs` | `SessionTypes` | types, and a page shows a user exactly while authenticated |
| | `RotatesOnce` | `[]OneLivePerSignIn` |
| | `DemotionsLeaveOne` | `[]AdministratorRemains`, under `NoRestores` |
| | `ReplacementsNeverMerge`, `AuditChains` | `[]NeverMerged`, and that every audit names what it replaced |
| | `LoginsStayOwned` | `[]LoginsAreOwned` |
| `ActivationProofs` | `LocksAscend` | a waiting transaction holds only rows before the one it waits for |
| | `NeverDeadlocks` | `[]DeadlockFree`, under `NoBatches` |
| | `FlagStands`, `GateStands` | the flag a transaction read stands until it ends; `ActivatedClean` |
| | `RegistersConsistent` | one outcome and one revocation of a record, one chain of resolutions and at most one live one of an order, one liability of a resolution |
| | `GateMeansOneLiability` | `OwnerSpec => []GateMeansLiability` |
| | `NothingIsTakenBack` | no step edits or loses an entry, and no status goes back |
| | `OwnerTyped` | types, and the internal error for a broken chain is never reached |
| | `ExplainedOnce` | `ReconSpec => []OneLiveExplanation` |
| | `ReportsAgree` | `ReconSpec => []ResidualIsTheBreaks` |
| `ScreenProofs` | `FormsMirrorTheServer` | the forms accept exactly what the server computes and finds consistent |
| | `PaymentStaysConsistent` | `[]` of the stored payment's consistency |
| | `DeliveredStaysFrozen` | `DeliveredIsFrozen` |
| | `ShownBecomesSaved` | `WhatWasShownIsSaved` |
| | `PickedUpOnlyOnce` | `[]PickedUpOncePerAssignment` |
| | `CreatedAsShown` | `PageSpec => []ShownIsStored` |
| | `PageNeverWaitsInVain` | types of the Create page, and that it waits only while its request is under way |
| | `WritesAreNeverForgotten` | `CacheSpec => []WritesReachTheScreen`, under `TagsMatch` and `OwnAndTimely` |
| | `DeliveriesExplained` | `JobSpec => DifferenceExplained`, one half of `RecordedAsShown` |
| | `ShownDriverIsRemoved` | `DetailSpec => UnassignRemovesShownDriver`, the other half |
| `FuelExpensesProofs` | `TypeCorrect` | `[]TypeOK` |
| | `ResolvedForEver`, `SnapshotsFrozen` | a recorded day keeps the version in force on it, and its prices |
| | `NothingUnseenIsOverwritten` | `NothingOverwrittenUnseen` |
| | `TransactionsImplementLedger` | `ImplementsLedger` |
| | `GridSavesWhatItShowed` | `GridSpec => SavedIsWhatWasShown` |

### The argument for the money

None of the invariants is inductive alone. That a release owns exactly its plan
cannot be kept without knowing that a pending release has no postings (or the
keys would clash), that its plan exists exactly when the review is over, that
the plan sums to the collection, and that the order still carries the status the
release implies, since each handler decides from one of the two and writes both.
`Coherent` states these facts per order, in four named parts
(`ReleaseMatchesOrder`, `AmountsCoherent`, `StatusCoherent`,
`PostingsCoherent`), and that a settlement not yet created allocates nothing.
The ownership and status properties follow from it state by state, the action
properties step by step. For the refinement, every action moves each release in
one of the ways of `ReleaseMoves`, and each of them is a step of `Custody` under
the mapping.

The balances are sums over finite sets, written as folds. `Sound` is `Coherent`
with the facts that make each summand what the books say (`RowsFit`,
`SettlementFits`) and the equations themselves (`AddsUp`). The equations are
needed together: reserved cash is covered only because the balance is the sum of
its ledger, and the settled amount of a collection is the sum of the standing
allocations. The step from a table to its sum is one lemma, `SelectionMoves`:
if one row changes, the sum moves by what that row moves. Its proof needs
induction over the subsets of a finite set, and the library's induction takes a
predicate, which these provers cannot instantiate. `SetInduction` states the
same over a *set of subsets* instead and is proved from the well-foundedness of
the numbers. One lemma per action then says which sums it moves and by how much.
The assumptions are `ConstantsAssumption` (types), `LedgersAssumption` (there
are drivers and customers) and `FiniteAssumption`. TLC finds `Sound` invariant
on both parts of `release`.

### The argument for the orders

The invariant has two halves. `OrderFits` says of one order's rows, among
themselves, everything the properties need: the driver and collector columns
agree with the assignment rows, the status says whether a driver is named, the
history is a chain that ends in the status, a delivered order has the amount
of its last attempt. `Fitting` says what a handler in flight may still rely on:
not that its reading is true, but that the row it intends to end exists and that
its reading was a row that fits. Every commit restates what it had read, which
turns the second half into the first; there is one lemma for each commit, and a
stale reading that satisfies the claim is harmless because of it.

`AttemptsMatchHistory` relates two tables that are written by the same commits.
`AllTold` is a second invariant over the first: a commit extends neither table,
or the history by rows that end no attempt, or both by one row each. It counts
the ending rows instead of filtering the history, so that appending a row needs
a lemma on cardinalities (`EndsGoOn`, `ToldFurther`) and no induction.

### The argument for requests

`Exclusive`: a request inside its transaction holds the lock its key hashes to,
one about to commit holds the row lock of its fund and its amount is still
covered, one past the second read has found a key that is still unrecorded, and
one about to answer a recorded key has it before its eyes. Two requests of one
key hash to one lock, so at most one of them is inside. For the refinement,
`Receive`, `Commit` and the ends map to the three abstract actions and every
other step stutters.

On the side of the dialogs, `DialogInductive` says that the key of an opening is
kept while an attempt may have taken effect (`KeyIsKept`), so an opening has one
key and a key one effect. `BoundToOneAttempt` restricts it to proposals,
corrections and reversals. It is needed: a payout draws a second key after a
refusal, and an adjustment sends none; for these the dialog promises less, and
the run has the same three kinds.

The settlement dialog may select anew between two posts, and draws a new key when
its body changed and no earlier answer is missing. `SettlementInductive` says that
what may still be settled of this opening carries the key the dialog holds
(`KeyIsHeld`), so all of it has one key (`OneKeyPerVisit`), that who is
told of a refusal need not fear that the settlement is recorded
(`RefusedIsOver`), and that a key settles once. `WhatIsValidIsAccepted` compares two validations written apart.
The client's looks at its drafts row by row, the server's at the rows it has
locked; that the sums agree is a lemma on sums over a subset, and that the two
lists of rows are the same needs the position to be the books' own.

### The argument for access

`Traceable`: every name in a page, a request or the cookie is that of a row that
was written, every row descends from a sign-in, and a refresh that claimed a row
still holds it, alive. One sign-in then has at most one live row, since a
rotation kills the row it claimed in the transaction that writes the next.

`DemotionsLeaveOne` has the hypothesis `NoRestores`: no update promotes or
reactivates anybody. It cannot be dropped. `updateEmployee` reads the account
before its transaction and counts administrators only if that reading loses one;
an update that read an inactive account, or one of another role, and commits
after that account was reactivated or promoted, takes the last administrator
away without having counted. Under the hypothesis a reading can be stale in the
harmless direction only, and SERIALIZABLE does the rest: an update that counts
reads all accounts, so of two that count each other one is aborted
(`SeesOrConflicts`). The updates of `access` are of this kind as well; the run
`access_restored` adds promotions and shows the counterexample.

`ReplacementsNeverMerge` uses the same fact about two replacements of one role.
`PortalInductive` has no such help: what keeps logins apart is that the one
conditional statement names a customer without a login, and a link is for good.

### The argument for locks

Outside batches every path asks for its locks in the order of their ranks (flag,
account, releases, orders, wallets; by id within a statement), so of the
transactions in a circle the one that waits for the highest row would wait for
one that waits for a lower one. The rank of an order depends on the path, since
a delivery takes its order before the account; what makes this harmless is that
no path but a delivery locks an order that is still out (`Running`).
`NoBatches` is needed: `bulkAssign` claims its orders as `findMany` returned them,
so two batches may deadlock; PostgreSQL then aborts one. The run has the other
14 paths.

### The argument for the historical registers

*Ownership.* A request checks under its locks and inserts afterwards, while other
requests, changes of roles and writes by hand go on. `Consistent` is of the four
registers alone; `InHand` says of a request that holds its locks that its key is
still unused and its plan still fits them: the record it decides on is as it was,
and the chain it appends to still ends where it found the end. It survives the steps of others because two requests of one order or record exclude
each other and all registers only grow (`NothingIsTakenBack` proves the second).
The gate follows: an order that is not on the list came back, or its chain has
exactly one live resolution and that has exactly one liability not revoked.

*Reconciliation.* The rows of an account form a chain, each remembering the
balance before and after it; a deleted row leaves a break. A record's evidence
names the break before one surviving row, its anchor, and explains exactly it. An
account's requests share a lock, but an audit or an order may be named from two
accounts, whose requests share none; there the unique index of the chain of
explanations decides, and the record that lost its race is never written. So live
records are disjoint, the breaks telescope to the residual of the account
(`ReportsAgree`; the sums are `SumTheorems`'), and if the residuals that the
records leave are zero, every lost row is explained once (`ExplainedOnce`).

### The argument for forms and screens

The first version of `WhatWasShownIsSaved` was found to be false by its proof
attempt. The server leaves the customer and the area out of its UPDATE when they
equal what its own first read said. So if the form changes the customer from one
to another, a second request makes the same change before that read, and a third
takes it back before the claim, the order keeps the old customer although it is
again the row the dialog was seeded with. This takes three requests, and the run
has two. The property now has the premise that the customer and the area are
still what that first read said. `Known` says what each request in flight still
carries of its form.

`PaymentStaysConsistent` needs that the server computes every amount again from
the row it read together with the body, and that the claim makes this row the
one that is replaced. `ScanInductive` counts pickups against assignments.

`CreatedAsShown`: a post carries the form as it was when it was sent, and nothing
that arrives later reaches it; what the server stores is that form or, where it is
silent, the customer's; and the form cannot be sent with a required field empty.

`WritesAreNeverForgotten` is about the cache mechanism and any table of tags.
`TagsMatch` is its hypothesis on the table. This client's table meets it on all pairs
but those of `Overlooked`, so the theorem speaks of the sessions without these; TLC
checks the conclusion with the table in the place of the parameters. The invariant: an answer
under way, or an entry nobody asks for again, that misses a finished write of the
session has tags that wait. `OwnAndTimely` says that no write is made by another
session or commits after its caller gave up. It cannot be dropped, since those do
leave stale data on a screen until it is fetched for another reason; the run makes
the same restriction.

The two pages: a request is typed over one copy of the order, its handler reads a
second and its claim meets a third. `ReadExplained` and `AsksForShown` say what
the handler has established between the first and the second; the claim restates
the amount, or the driver, and so carries it to the third. The claim of the
amount is needed: without it an edit between reading and claiming would pass
unexplained.

### The argument for expenses

What a transaction may rely on between two statements: one that resolved a day
holds the lock shared, so no version is written under it; one that checked a
version holds it exclusively, so no day is recorded under it; a correction still
has the row it read if the stamp is the one it read, because stamps only grow
(`BasisStands`). Each is a conjunct of `RequestStands`.

The grid uses the same fact from the other side (`GridInv`). Whatever copy of a
record a grid, a draft, a queued or a sent save holds, it is the record itself as
long as the stamps are equal. A correction's body names only the fields that
differ from that copy; the server accepts it only at the same stamp, so the fields
it leaves out are those the row showed.

### Only model-checked

* Liveness: `EveryRequestEnds`, `EveryTransactionEnds`. Fairness and ENABLED are
  out of the prover's reach.
* `RecordedAsShown` as one formula: it is the conjunction of the two properties
  that `DeliveriesExplained` and `ShownDriverIsRemoved` prove of the two pages.
* That the table of `ServerRows` satisfies the conclusion of
  `WritesAreNeverForgotten` outside `Overlooked`: a finite question about this
  table, which the run answers by enumeration, pair by pair.
* The findings. `WritesReachTheScreen` does not hold on `Overlooked`. `AssignsOnlyEligible` does not hold; `AdministratorRemains` holds
  under `NoRestores`, as proved, and not without it.

## 5. Not modelled

* Reference data and settings without rules over several steps; the HTTP layer,
  permission checks, schemas and configuration; migrations, seeds and operator
  scripts.
* Requests that fail validation before they touch the database, and the text of
  identifiers, labels and messages; lists, filters and pagination.
* The figures of the read models (`ServerRows` names only the rows behind them),
  and the reconciliation report, whose equations are invariants here.
* Activation gates without effect on money: schema, environment, client version.
* Manual company adjustments, notes and audit rows, which no rule reads.
* A save of the expenses grid, or a sign-out, that is served after its page gave
  up, as an action of its own: the first is to the grid like a write of another
  administrator (`OtherWrites`), the second like the end of the row
  (`SessionExpires`). Of a proposal in `HistoricalReconciliation`, the checks of the
  audit's own text and of the settlement named beside it.
* Writes of other sessions on a screen's data: the client is not told of them
  (`OwnAndTimely`).
* What a delivery posts is in `FinancialRelease` and which order it is in
  `OrderLifecycle`; the two meet only in the amount (`DeliveredAmountStands`).

## 6. Plan

1. *Done*: all modules of section 2, their runs, and the theorems of section 4.
2. *Open*: a refinement that joins `FinancialRelease` and `OrderLifecycle`, which
   meet only in the amount; the activation as one protocol of `LockOrder` and the
   two registers; the dialogs that `BoundToOneAttempt` leaves out, for the weaker
   promise they make.
