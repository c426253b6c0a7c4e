--------------------------- MODULE FinancialRelease ---------------------------
(***************************************************************************)
(* The settlement-based financial release of SwiftDrop: the money side of  *)
(* a delivered order, from the cash the driver collects to the wallet      *)
(* credit and the company revenue it finally becomes.                      *)
(*                                                                         *)
(* Every operation of the server is one interactive database transaction   *)
(* that takes its row locks in one global order (activation row, driver    *)
(* cash account, release rows by id, orders, wallets) before it reads what *)
(* it decides on, so a transaction is one action here.  Reads made before  *)
(* the transaction are of columns that never change afterwards, or are     *)
(* repeated inside it.  An order is identified with its release row        *)
(* (UNIQUE order_id) and with its ledger rows, each of which has a         *)
(* deterministic idempotency key derived from the order.                   *)
(***************************************************************************)
EXTENDS Integers, FiniteSets, FiniteSetsExt

CONSTANTS
    Orders,        \* orders out for delivery
    Drivers,       \* drivers, each with a driver_cash_accounts row
    Customers,     \* customers, each with a customer_wallets row
    Settlements,   \* identities of driver_settlements rows
    Adjustments,   \* identities of manual ledger adjustments
    Payouts,       \* identities of customer_payouts rows
    DriverOf,      \* the driver an order is out with
    CustomerOf,    \* the customer an order belongs to
    OrderType,     \* "DELIVERY_ONLY" or "COMPANY_ORDER", fixed at creation
    RemainingOrderAmount,
    RemainingDeliveryFee,
    BalanceLimit,  \* range of the DECIMAL(14,2) balance columns
    MaxActual,     \* bound: largest amount a driver reports as collected
    MaxManual      \* bound: largest manual adjustment, payout or shortfall

ASSUME ConstantsAssumption ==
    /\ DriverOf \in [Orders -> Drivers]
    /\ CustomerOf \in [Orders -> Customers]
    /\ OrderType \in [Orders -> {"DELIVERY_ONLY", "COMPANY_ORDER"}]
    /\ RemainingOrderAmount \in [Orders -> Nat]
    /\ RemainingDeliveryFee \in [Orders -> Nat]
    /\ BalanceLimit \in Nat
    /\ MaxActual \in Nat
    /\ MaxManual \in Nat

ASSUME LedgersAssumption ==
    /\ Drivers # {} /\ Customers # {}
    /\ Drivers \cap Customers = {}

ASSUME FiniteAssumption ==
    /\ IsFiniteSet(Orders)
    /\ IsFiniteSet(Settlements)
    /\ IsFiniteSet(Adjustments)
    /\ IsFiniteSet(Payouts)

VARIABLES
    enabled,       \* system_settings: settlement mode is active
    account,       \* driver_cash_accounts.current_balance
    wallet,        \* customer_wallets.available_balance
    orders,        \* the financial columns of orders
    releases,      \* order_financial_releases
    rows,          \* ledger rows keyed by order
    settlements,   \* driver_settlements with their allocations and corrections
    adjustments,   \* ADJUSTMENT rows of both balance-keeping ledgers
    payouts        \* customer_payouts with their PAYOUT rows

vars == <<enabled, account, wallet, orders, releases, rows, settlements,
          adjustments, payouts>>

-----------------------------------------------------------------------------
(* Rows and records *)

RowStates == {"ABSENT", "POSTED", "REVERSED"}
Row == [state : RowStates, amount : Nat]
NoRow == [state |-> "ABSENT", amount |-> 0]

\* Zero amounts are skipped: the ledger primitives reject a zero row.
PostedRow(a) == IF a > 0 THEN [state |-> "POSTED", amount |-> a] ELSE NoRow

\* A reversal is a second row that points at the original (reversal_of_id).
ReversedRow(r) == IF r.state = "POSTED" THEN [r EXCEPT !.state = "REVERSED"] ELSE r

\* What the row still contributes to its ledger.
Net(r) == IF r.state = "POSTED" THEN r.amount ELSE 0

OrderRows == [collection : Row, direct : Row, credit : Row, product : Row, fee : Row]
NoRows == [collection |-> NoRow, direct |-> NoRow, credit |-> NoRow,
           product |-> NoRow, fee |-> NoRow]

FinancialStatuses == {"PENDING", "REVIEW_REQUIRED", "AWAITING_SETTLEMENT",
                      "FINALIZED", "COLLECTION_VOIDED", "RELEASE_REVERSED"}
Modes == {"NULL", "IMMEDIATE", "ON_SETTLEMENT"}
Order == [delivered : BOOLEAN, financial : FinancialStatuses, mode : Modes,
          needsReview : BOOLEAN, actual : Nat]
UndeliveredOrder == [delivered |-> FALSE, financial |-> "PENDING", mode |-> "NULL",
                     needsReview |-> FALSE, actual |-> 0]

\* Planned ownership of a collection.  The three planned columns are NULL
\* together; a real plan sums to a positive collection, so the zero plan
\* stands for NULL.
Plan == [wallet : Nat, product : Nat, fee : Nat]
NoPlan == [wallet |-> 0, product |-> 0, fee |-> 0]

ReleaseStatuses == {"NONE", "PENDING", "RELEASED", "VOIDED", "RELEASE_REVERSED"}
Reviews == {"NOT_REQUIRED", "AWAITING_REVIEW", "RESOLVED"}
Release == [status : ReleaseStatuses, review : Reviews, collection : Nat,
            allocated : Nat, plan : Plan]
NoRelease == [status |-> "NONE", review |-> "NOT_REQUIRED", collection |-> 0,
              allocated |-> 0, plan |-> NoPlan]

NoAllocations == [o \in Orders |-> 0]
Settlement == [state : RowStates, driver : Drivers, amount : Nat,
               legacy : BOOLEAN, alloc : [Orders -> Nat], shortfall : Nat]

Adjustment == [state : RowStates, of : Drivers \cup Customers, amount : Nat,
               direction : {"CREDIT", "DEBIT"}]
Payout == [state : RowStates, of : Customers, amount : Nat]

SomeDriver == CHOOSE d \in Drivers : TRUE
SomeCustomer == CHOOSE c \in Customers : TRUE
NoSettlement == [state |-> "ABSENT", driver |-> SomeDriver, amount |-> 0,
                 legacy |-> FALSE, alloc |-> NoAllocations, shortfall |-> 0]
NoAdjustment == [state |-> "ABSENT", of |-> SomeDriver, amount |-> 0, direction |-> "CREDIT"]
NoPayout == [state |-> "ABSENT", of |-> SomeCustomer, amount |-> 0]

-----------------------------------------------------------------------------
(* The order's expected amounts and the split of a collection *)

AmountToCollect(o) == RemainingOrderAmount[o] + RemainingDeliveryFee[o]

\* plannedAmountProblems: type buckets, and an exact sum.
PlanFits(o, p, collection) ==
    /\ OrderType[o] = "COMPANY_ORDER" => p.wallet = 0
    /\ OrderType[o] = "DELIVERY_ONLY" => p.product = 0
    /\ p.wallet + p.product + p.fee = collection

ExactPlan(o) ==
    [wallet  |-> IF OrderType[o] = "DELIVERY_ONLY" THEN RemainingOrderAmount[o] ELSE 0,
     product |-> IF OrderType[o] = "COMPANY_ORDER" THEN RemainingOrderAmount[o] ELSE 0,
     fee     |-> RemainingDeliveryFee[o]]

CandidatePlans == [wallet : 0..MaxActual, product : 0..MaxActual, fee : 0..MaxActual]

\* A posting whose deterministic key already exists makes the transaction fail.
KeysFree(r, p) ==
    /\ p.wallet > 0 => r.credit.state = "ABSENT"
    /\ p.product > 0 => r.product.state = "ABSENT"
    /\ p.fee > 0 => r.fee.state = "ABSENT"

WithPostings(r, p) ==
    [r EXCEPT !.credit = PostedRow(p.wallet), !.product = PostedRow(p.product),
              !.fee = PostedRow(p.fee)]

WithPostingsReversed(r) ==
    [r EXCEPT !.credit = ReversedRow(@), !.product = ReversedRow(@), !.fee = ReversedRow(@)]

-----------------------------------------------------------------------------
(* The driver's cash position *)

\* PENDING_RELEASE_HOLDS_CASH
HoldsCash(o) ==
    /\ releases[o].status = "PENDING"
    /\ rows[o].collection.state # "REVERSED"

HoldingReleases(d) == {o \in Orders : DriverOf[o] = d /\ HoldsCash(o)}

Outstanding(o) == releases[o].collection - releases[o].allocated

AttributedOutstanding(d) == SumFunctionOnSet([o \in Orders |-> Outstanding(o)], HoldingReleases(d))

Unattributed(d) == account[d] - AttributedOutstanding(d)

\* lockDriverCashPosition answers 500 when the position is inconsistent.
PositionConsistent(d) == Unattributed(d) >= 0

DebitWithinUnattributed(d, amount) ==
    PositionConsistent(d) /\ amount <= Unattributed(d)

\* The ledger primitives' conditional debit.
CanDebitAccount(d, amount) == account[d] >= amount

CanDebitWallet(c, amount) == wallet[c] >= amount

\* An increment beyond the column's range fails, and the transaction with it.
Balances == 0..BalanceLimit
CanCredit(balance, who, amount) == balance[who] + amount \in Balances

Credit(balance, who, amount) == [balance EXCEPT ![who] = @ + amount]
Debit(balance, who, amount) == [balance EXCEPT ![who] = @ - amount]

-----------------------------------------------------------------------------
(* Activation of settlement mode *)

\* Gates G2 (no unattributed cash), G3 and G4 (balances equal their ledgers)
\* and G5 (no legacy collection difference awaits review).
LegacyReviewPending(o) ==
    orders[o].delivered /\ orders[o].mode = "NULL" /\ orders[o].financial = "REVIEW_REQUIRED"

CollectionsOf(d) ==
    SumFunctionOnSet([o \in Orders |-> Net(rows[o].collection)], {o \in Orders : DriverOf[o] = d})

SettledBy(d) ==
    SumFunctionOnSet([s \in Settlements |-> Net(settlements[s]) - settlements[s].shortfall],
          {s \in Settlements : settlements[s].driver = d})

Signed(adjustment) ==
    IF adjustment.direction = "CREDIT" THEN Net(adjustment) ELSE -Net(adjustment)

AdjustedFor(who) ==
    SumFunctionOnSet([a \in Adjustments |-> Signed(adjustments[a])],
          {a \in Adjustments : adjustments[a].of = who})

CashLedgerNet(d) == CollectionsOf(d) - SettledBy(d) + AdjustedFor(d)

WalletLedgerNet(c) ==
    SumFunctionOnSet([o \in Orders |-> Net(rows[o].credit)], {o \in Orders : CustomerOf[o] = c})
    - SumFunctionOnSet([p \in Payouts |-> Net(payouts[p])], {p \in Payouts : payouts[p].of = c})
    + AdjustedFor(c)

\* The gates that depend on money.  The others (schema, environment, client
\* version, the stored rows' own reconciliation) only refuse more.
GatesPass ==
    /\ \A d \in Drivers : Unattributed(d) = 0
    /\ \A d \in Drivers : account[d] = CashLedgerNet(d)
    /\ \A c \in Customers : wallet[c] = WalletLedgerNet(c)
    /\ \A o \in Orders : ~LegacyReviewPending(o)

Activate ==
    /\ ~enabled
    /\ GatesPass
    /\ enabled' = TRUE
    /\ UNCHANGED <<account, wallet, orders, releases, rows, settlements, adjustments, payouts>>

\* No gate: only future deliveries change.
Deactivate ==
    /\ enabled
    /\ enabled' = FALSE
    /\ UNCHANGED <<account, wallet, orders, releases, rows, settlements, adjustments, payouts>>

-----------------------------------------------------------------------------
(* Delivery *)

CollectionRoute(actual, bypass) ==
    IF actual = 0 THEN "NONE" ELSE IF bypass THEN "DIRECT_COMPANY" ELSE "DRIVER_CASH"

DecideMode(on, route) ==
    IF ~on THEN "NULL" ELSE IF route = "DRIVER_CASH" THEN "ON_SETTLEMENT" ELSE "IMMEDIATE"

DeliveredOrder(o, actual, mode) ==
    LET exact == actual = AmountToCollect(o)
    IN  [delivered   |-> TRUE,
         mode        |-> mode,
         needsReview |-> ~exact,
         actual      |-> actual,
         financial   |-> IF ~exact THEN "REVIEW_REQUIRED"
                         ELSE IF mode = "ON_SETTLEMENT" THEN "AWAITING_SETTLEMENT"
                         ELSE "FINALIZED"]

\* The custody row: exactly one of Driver Cash and direct company collection.
CustodyRows(actual, route) ==
    [NoRows EXCEPT !.collection = IF route = "DRIVER_CASH" THEN PostedRow(actual) ELSE NoRow,
                   !.direct = IF route = "DIRECT_COMPANY" THEN PostedRow(actual) ELSE NoRow]

CollectedCash(actual, route) == IF route = "DRIVER_CASH" THEN actual ELSE 0

\* Settlement mode: cash is recorded, ownership is only planned.
DeliverOnSettlement(o, actual) ==
    /\ enabled
    /\ ~orders[o].delivered
    /\ actual > 0
    /\ CanCredit(account, DriverOf[o], actual)
    /\ orders' = [orders EXCEPT ![o] = DeliveredOrder(o, actual, "ON_SETTLEMENT")]
    /\ account' = Credit(account, DriverOf[o], actual)
    /\ rows' = [rows EXCEPT ![o] = CustodyRows(actual, "DRIVER_CASH")]
    /\ releases' = [releases EXCEPT ![o] =
            [status     |-> "PENDING",
             review     |-> IF actual = AmountToCollect(o) THEN "NOT_REQUIRED" ELSE "AWAITING_REVIEW",
             collection |-> actual,
             allocated  |-> 0,
             plan       |-> IF actual = AmountToCollect(o) THEN ExactPlan(o) ELSE NoPlan]]
    /\ UNCHANGED <<enabled, wallet, settlements, adjustments, payouts>>

\* Activation off (NULL), or nothing entered Driver Cash (IMMEDIATE): an exact
\* collection posts its ownership at once, a difference posts none.
DeliverImmediately(o, actual, bypass) ==
    LET route == CollectionRoute(actual, bypass)
        mode  == DecideMode(enabled, route)
        exact == actual = AmountToCollect(o)
        cash  == CollectedCash(actual, route)
        owed  == IF exact THEN ExactPlan(o).wallet ELSE 0
    IN  /\ ~orders[o].delivered
        /\ mode # "ON_SETTLEMENT"
        /\ CanCredit(account, DriverOf[o], cash)
        /\ CanCredit(wallet, CustomerOf[o], owed)
        /\ orders' = [orders EXCEPT ![o] = DeliveredOrder(o, actual, mode)]
        /\ account' = Credit(account, DriverOf[o], cash)
        /\ rows' = [rows EXCEPT ![o] = IF exact THEN WithPostings(CustodyRows(actual, route), ExactPlan(o))
                                                ELSE CustodyRows(actual, route)]
        /\ wallet' = Credit(wallet, CustomerOf[o], owed)
        /\ UNCHANGED <<enabled, releases, settlements, adjustments, payouts>>

-----------------------------------------------------------------------------
(* Release of ownership: the single path releaseOrders *)

\* assertReleaseCollectionsIntact
CollectionIntact(o) ==
    rows[o].collection = [state |-> "POSTED", amount |-> releases[o].collection]

OrderMatchesRelease(o) ==
    /\ orders[o].delivered
    /\ orders[o].mode = "ON_SETTLEMENT"
    /\ orders[o].actual = releases[o].collection

Releasable(o, rel, financial) ==
    /\ rel.status = "PENDING"
    /\ rel.review # "AWAITING_REVIEW"
    /\ rel.allocated = rel.collection
    /\ PlanFits(o, rel.plan, rel.collection)
    /\ OrderMatchesRelease(o)
    /\ financial = "AWAITING_SETTLEMENT"
    /\ CollectionIntact(o)
    /\ KeysFree(rows[o], rel.plan)

WalletCredits(c, R) ==
    SumFunctionOnSet([o \in R |-> releases[o].plan.wallet], {o \in R : CustomerOf[o] = c})

-----------------------------------------------------------------------------
(* Settlements *)

\* lockAndValidateAllocations, for one positive allocation.
AllocationAccepted(d, o, amount) ==
    /\ DriverOf[o] = d
    /\ releases[o].status = "PENDING"
    /\ rows[o].collection.state # "REVERSED"
    /\ amount <= Outstanding(o)

Allocated(alloc) == {o \in Orders : alloc[o] > 0}
AllocationTotal(alloc) == SumFunctionOnSet(alloc, Allocated(alloc))

WithAllocation(o, amount) == [releases[o] EXCEPT !.allocated = @ + amount]

\* Mutant: completeness is read before the allocation is applied.
CompletedBefore(alloc) ==
    {o \in Allocated(alloc) : releases[o].allocated = releases[o].collection}

\* Fully settled and review-cleared: these are released by the settlement.
CompletedBy(alloc) ==
    {o \in Allocated(alloc) :
        /\ WithAllocation(o, alloc[o]).allocated = releases[o].collection
        /\ releases[o].review # "AWAITING_REVIEW"}

NewSettlement(d, amount, legacy, alloc) ==
    [state |-> "POSTED", driver |-> d, amount |-> amount, legacy |-> legacy,
     alloc |-> alloc, shortfall |-> 0]

\* Allocation format: the amount received is split exactly into explicit
\* collections and an unattributed part.
CreateSettlement(s, d, amount, alloc, unattributed) ==
    LET done == CompletedBy(alloc)
    IN  /\ settlements[s].state = "ABSENT"
        /\ \A o \in Allocated(alloc) : AllocationAccepted(d, o, alloc[o])
        /\ amount = AllocationTotal(alloc) + unattributed
        /\ PositionConsistent(d)
        /\ unattributed <= Unattributed(d)
        /\ CanDebitAccount(d, amount)
        /\ \A o \in done : Releasable(o, WithAllocation(o, alloc[o]), orders[o].financial)
        /\ \A c \in Customers : CanCredit(wallet, c, WalletCredits(c, done))
        /\ account' = Debit(account, d, amount)
        /\ settlements' = [settlements EXCEPT ![s] = NewSettlement(d, amount, FALSE, alloc)]
        /\ releases' = [o \in Orders |->
                IF o \in done THEN [WithAllocation(o, alloc[o]) EXCEPT !.status = "RELEASED"]
                ELSE WithAllocation(o, alloc[o])]
        /\ orders' = [o \in Orders |->
                IF o \in done THEN [orders[o] EXCEPT !.financial = "FINALIZED"] ELSE orders[o]]
        /\ rows' = [o \in Orders |->
                IF o \in done THEN WithPostings(rows[o], releases[o].plan) ELSE rows[o]]
        /\ wallet' = [c \in Customers |-> wallet[c] + WalletCredits(c, done)]
        /\ UNCHANGED <<enabled, adjustments, payouts>>

\* Mutant: the legacy format forgets that the cash may be reserved.
CreateLegacySettlementFromReserved(s, d, amount) ==
    /\ settlements[s].state = "ABSENT"
    /\ amount > 0
    /\ PositionConsistent(d)
    /\ ~enabled
    /\ CanDebitAccount(d, amount)
    /\ account' = Debit(account, d, amount)
    /\ settlements' = [settlements EXCEPT ![s] = NewSettlement(d, amount, TRUE, NoAllocations)]
    /\ UNCHANGED <<enabled, wallet, orders, releases, rows, adjustments, payouts>>

\* Legacy format: an amount only, refused while the driver's cash may be reserved.
CreateLegacySettlement(s, d, amount) ==
    /\ settlements[s].state = "ABSENT"
    /\ amount > 0
    /\ PositionConsistent(d)
    /\ ~enabled
    /\ HoldingReleases(d) = {}
    /\ CanDebitAccount(d, amount)
    /\ account' = Debit(account, d, amount)
    /\ settlements' = [settlements EXCEPT ![s] = NewSettlement(d, amount, TRUE, NoAllocations)]
    /\ UNCHANGED <<enabled, wallet, orders, releases, rows, adjustments, payouts>>

\* Mutant: the allocated amounts are not taken back.
ReverseSettlementKeepingAllocations(s) ==
    LET st == settlements[s]
    IN  /\ st.state = "POSTED" /\ st.shortfall = 0
        /\ PositionConsistent(st.driver)
        /\ \A o \in Allocated(st.alloc) : releases[o].status = "PENDING"
        /\ CanCredit(account, st.driver, st.amount)
        /\ account' = Credit(account, st.driver, st.amount)
        /\ settlements' = [settlements EXCEPT ![s].state = "REVERSED"]
        /\ UNCHANGED <<enabled, wallet, orders, releases, rows, adjustments, payouts>>

\* Mutant: a settlement is reversed after it released a collection.
ReverseSettlementAnyStatus(s) ==
    LET st == settlements[s]
    IN  /\ st.state = "POSTED" /\ st.shortfall = 0
        /\ PositionConsistent(st.driver)
        /\ CanCredit(account, st.driver, st.amount)
        /\ account' = Credit(account, st.driver, st.amount)
        /\ settlements' = [settlements EXCEPT ![s].state = "REVERSED"]
        /\ releases' = [o \in Orders |->
                IF st.alloc[o] > 0 THEN [releases[o] EXCEPT !.allocated = @ - st.alloc[o]]
                ELSE releases[o]]
        /\ UNCHANGED <<enabled, wallet, orders, rows, adjustments, payouts>>

\* One action for reverseSettlement (both formats) and for the generic
\* reversal of a legacy SETTLEMENT row, which refuses allocation settlements.
ReverseSettlement(s) ==
    LET st == settlements[s]
    IN  /\ st.state = "POSTED"
        /\ PositionConsistent(st.driver)
        /\ st.shortfall = 0
        /\ \A o \in Allocated(st.alloc) :
                /\ releases[o].status = "PENDING"
                /\ releases[o].allocated >= st.alloc[o]
        /\ CanCredit(account, st.driver, st.amount)
        /\ account' = Credit(account, st.driver, st.amount)
        /\ settlements' = [settlements EXCEPT ![s].state = "REVERSED"]
        /\ releases' = [o \in Orders |->
                IF st.alloc[o] > 0 THEN [releases[o] EXCEPT !.allocated = @ - st.alloc[o]]
                ELSE releases[o]]
        /\ UNCHANGED <<enabled, wallet, orders, rows, adjustments, payouts>>

\* Where the deployment has approved shortfalls; elsewhere it is refused.
RecordShortfall(s, amount) ==
    LET st == settlements[s]
    IN  /\ st.state = "POSTED"
        /\ amount > 0
        /\ PositionConsistent(st.driver)
        /\ st.shortfall + amount <= st.amount
        /\ CanCredit(account, st.driver, amount)
        /\ account' = Credit(account, st.driver, amount)
        /\ settlements' = [settlements EXCEPT ![s].shortfall = @ + amount]
        /\ UNCHANGED <<enabled, wallet, orders, releases, rows, adjustments, payouts>>

-----------------------------------------------------------------------------
(* Collection differences *)

ReviewPending(o) ==
    orders[o].delivered /\ orders[o].financial = "REVIEW_REQUIRED" /\ orders[o].needsReview

\* Legacy and IMMEDIATE orders: the approved split is posted at once.
ResolveImmediately(o, plan) ==
    /\ ReviewPending(o)
    /\ orders[o].mode # "ON_SETTLEMENT"
    /\ PlanFits(o, plan, orders[o].actual)
    /\ KeysFree(rows[o], plan)
    /\ CanCredit(wallet, CustomerOf[o], plan.wallet)
    /\ orders' = [orders EXCEPT ![o].financial = "FINALIZED", ![o].needsReview = FALSE]
    /\ rows' = [rows EXCEPT ![o] = WithPostings(@, plan)]
    /\ wallet' = Credit(wallet, CustomerOf[o], plan.wallet)
    /\ UNCHANGED <<enabled, account, releases, settlements, adjustments, payouts>>

\* Settlement mode: the split is recorded on the release, and the release
\* completes here only when the collection is already fully settled.
ResolveReleaseDifference(o, plan) ==
    LET resolved == [releases[o] EXCEPT !.review = "RESOLVED", !.plan = plan]
        settled  == releases[o].allocated = releases[o].collection
        owed     == IF settled THEN plan.wallet ELSE 0
    IN  /\ ReviewPending(o)
        /\ orders[o].mode = "ON_SETTLEMENT"
        /\ releases[o].status = "PENDING"
        /\ releases[o].review = "AWAITING_REVIEW"
        /\ OrderMatchesRelease(o)
        /\ CollectionIntact(o)
        /\ PlanFits(o, plan, releases[o].collection)
        /\ settled => Releasable(o, resolved, "AWAITING_SETTLEMENT")
        /\ CanCredit(wallet, CustomerOf[o], owed)
        /\ releases' = [releases EXCEPT ![o] =
                IF settled THEN [resolved EXCEPT !.status = "RELEASED"] ELSE resolved]
        /\ orders' = [orders EXCEPT
                ![o].financial = IF settled THEN "FINALIZED" ELSE "AWAITING_SETTLEMENT",
                ![o].needsReview = FALSE]
        /\ rows' = [rows EXCEPT ![o] = IF settled THEN WithPostings(@, plan) ELSE @]
        /\ wallet' = Credit(wallet, CustomerOf[o], owed)
        /\ UNCHANGED <<enabled, account, settlements, adjustments, payouts>>

-----------------------------------------------------------------------------
(* Release corrections *)

VoidTo(o, after) ==
    LET d == DriverOf[o]
    IN  /\ PositionConsistent(d)
        /\ releases[o].status = "PENDING"
        /\ OrderMatchesRelease(o)
        /\ CollectionIntact(o)
        /\ orders[o].financial \in {"AWAITING_SETTLEMENT", "REVIEW_REQUIRED"}
        /\ CanDebitAccount(d, releases[o].collection)
        /\ orders' = [orders EXCEPT ![o] = after]
        /\ account' = Debit(account, d, releases[o].collection)
        /\ rows' = [rows EXCEPT ![o].collection = ReversedRow(@)]
        /\ releases' = [releases EXCEPT ![o].status = "VOIDED"]
        /\ UNCHANGED <<enabled, wallet, settlements, adjustments, payouts>>

\* Mutant: a collection that was settled in part is voided.
VoidAllocatedCollection(o) ==
    VoidTo(o, [orders[o] EXCEPT !.financial = "COLLECTION_VOIDED", !.needsReview = FALSE])

\* Mutant: the order stays in the review queue after its collection is void.
VoidLeavingReview(o) ==
    /\ releases[o].allocated = 0
    /\ VoidTo(o, [orders[o] EXCEPT !.financial = "COLLECTION_VOIDED"])

VoidReleaseCollection(o) ==
    /\ releases[o].allocated = 0
    /\ VoidTo(o, [orders[o] EXCEPT !.financial = "COLLECTION_VOIDED", !.needsReview = FALSE])

\* Each posting must still be there, unreversed, with its planned amount.
PostingsIntact(o) ==
    LET p == releases[o].plan
    IN  /\ rows[o].credit = PostedRow(p.wallet)
        /\ rows[o].product = PostedRow(p.product)
        /\ rows[o].fee = PostedRow(p.fee)
        /\ p.wallet + p.product + p.fee > 0

\* The wallet must still cover the credit; allocations stay active.
ReverseRelease(o) ==
    LET p == releases[o].plan
    IN  /\ releases[o].status = "RELEASED"
        /\ OrderMatchesRelease(o)
        /\ orders[o].financial = "FINALIZED"
        /\ PostingsIntact(o)
        /\ CanDebitWallet(CustomerOf[o], p.wallet)
        /\ orders' = [orders EXCEPT ![o].financial = "RELEASE_REVERSED"]
        /\ wallet' = Debit(wallet, CustomerOf[o], p.wallet)
        /\ rows' = [rows EXCEPT ![o] = WithPostingsReversed(@)]
        /\ releases' = [releases EXCEPT ![o].status = "RELEASE_REVERSED"]
        /\ UNCHANGED <<enabled, account, settlements, adjustments, payouts>>

-----------------------------------------------------------------------------
(* Generic ledger corrections: refused for rows a release owns *)

\* A COLLECTION row that a release points at uses the void workflow.
ReverseCollection(o) ==
    LET d == DriverOf[o]
    IN  /\ rows[o].collection.state = "POSTED"
        /\ releases[o].status = "NONE"
        /\ DebitWithinUnattributed(d, rows[o].collection.amount)
        /\ CanDebitAccount(d, rows[o].collection.amount)
        /\ account' = Debit(account, d, rows[o].collection.amount)
        /\ rows' = [rows EXCEPT ![o].collection = ReversedRow(@)]
        /\ UNCHANGED <<enabled, wallet, orders, releases, settlements, adjustments, payouts>>

\* The release's posting ids are set when it is released, and kept after.
ReleaseLinked(o) == releases[o].status \in {"RELEASED", "RELEASE_REVERSED"}

ReverseWalletCredit(o) ==
    LET c == CustomerOf[o]
    IN  /\ rows[o].credit.state = "POSTED"
        /\ ~ReleaseLinked(o)
        /\ CanDebitWallet(c, rows[o].credit.amount)
        /\ wallet' = Debit(wallet, c, rows[o].credit.amount)
        /\ rows' = [rows EXCEPT ![o].credit = ReversedRow(@)]
        /\ UNCHANGED <<enabled, account, orders, releases, settlements, adjustments, payouts>>

ReverseProductRevenue(o) ==
    /\ rows[o].product.state = "POSTED"
    /\ ~ReleaseLinked(o)
    /\ rows' = [rows EXCEPT ![o].product = ReversedRow(@)]
    /\ UNCHANGED <<enabled, account, wallet, orders, releases, settlements, adjustments, payouts>>

ReverseFeeRevenue(o) ==
    /\ rows[o].fee.state = "POSTED"
    /\ ~ReleaseLinked(o)
    /\ rows' = [rows EXCEPT ![o].fee = ReversedRow(@)]
    /\ UNCHANGED <<enabled, account, wallet, orders, releases, settlements, adjustments, payouts>>

NewAdjustment(who, direction, amount) ==
    [state |-> "POSTED", of |-> who, direction |-> direction, amount |-> amount]

Move(balance, who, direction, amount) ==
    IF direction = "CREDIT" THEN Credit(balance, who, amount) ELSE Debit(balance, who, amount)

\* Mutant: a reversal copies the direction of its original.
SameDirection(direction) == direction

Opposite(direction) == IF direction = "CREDIT" THEN "DEBIT" ELSE "CREDIT"

\* A driver cash debit that settles nothing may take unattributed cash only.
CashMoveAllowed(d, direction, amount) ==
    /\ PositionConsistent(d)
    /\ direction = "DEBIT" => DebitWithinUnattributed(d, amount) /\ CanDebitAccount(d, amount)
    /\ direction = "CREDIT" => CanCredit(account, d, amount)

WalletMoveAllowed(c, direction, amount) ==
    IF direction = "DEBIT" THEN CanDebitWallet(c, amount) ELSE CanCredit(wallet, c, amount)

AdjustDriverCash(a, d, direction, amount) ==
    /\ adjustments[a].state = "ABSENT"
    /\ amount > 0
    /\ CashMoveAllowed(d, direction, amount)
    /\ account' = Move(account, d, direction, amount)
    /\ adjustments' = [adjustments EXCEPT ![a] = NewAdjustment(d, direction, amount)]
    /\ UNCHANGED <<enabled, wallet, orders, releases, rows, settlements, payouts>>

ReverseCashAdjustment(a) ==
    LET d == adjustments[a].of
        back == Opposite(adjustments[a].direction)
    IN  /\ adjustments[a].state = "POSTED"
        /\ d \in Drivers
        /\ CashMoveAllowed(d, back, adjustments[a].amount)
        /\ account' = Move(account, d, back, adjustments[a].amount)
        /\ adjustments' = [adjustments EXCEPT ![a].state = "REVERSED"]
        /\ UNCHANGED <<enabled, wallet, orders, releases, rows, settlements, payouts>>

AdjustWallet(a, c, direction, amount) ==
    /\ adjustments[a].state = "ABSENT"
    /\ amount > 0
    /\ WalletMoveAllowed(c, direction, amount)
    /\ wallet' = Move(wallet, c, direction, amount)
    /\ adjustments' = [adjustments EXCEPT ![a] = NewAdjustment(c, direction, amount)]
    /\ UNCHANGED <<enabled, account, orders, releases, rows, settlements, payouts>>

ReverseWalletAdjustment(a) ==
    LET c == adjustments[a].of
        back == Opposite(adjustments[a].direction)
    IN  /\ adjustments[a].state = "POSTED"
        /\ c \in Customers
        /\ WalletMoveAllowed(c, back, adjustments[a].amount)
        /\ wallet' = Move(wallet, c, back, adjustments[a].amount)
        /\ adjustments' = [adjustments EXCEPT ![a].state = "REVERSED"]
        /\ UNCHANGED <<enabled, account, orders, releases, rows, settlements, payouts>>

-----------------------------------------------------------------------------
(* Payouts *)

CreatePayout(p, c, amount) ==
    /\ payouts[p].state = "ABSENT"
    /\ amount > 0
    /\ CanDebitWallet(c, amount)
    /\ wallet' = Debit(wallet, c, amount)
    /\ payouts' = [payouts EXCEPT ![p] = [state |-> "POSTED", of |-> c, amount |-> amount]]
    /\ UNCHANGED <<enabled, account, orders, releases, rows, settlements, adjustments>>

\* Only a COMPLETED payout; it becomes REVERSED with the credit.
ReversePayout(p) ==
    /\ payouts[p].state = "POSTED"
    /\ CanCredit(wallet, payouts[p].of, payouts[p].amount)
    /\ wallet' = Credit(wallet, payouts[p].of, payouts[p].amount)
    /\ payouts' = [payouts EXCEPT ![p].state = "REVERSED"]
    /\ UNCHANGED <<enabled, account, orders, releases, rows, settlements, adjustments>>

-----------------------------------------------------------------------------
(* The specification *)

Init ==
    /\ enabled = FALSE
    /\ account = [d \in Drivers |-> 0]
    /\ wallet = [c \in Customers |-> 0]
    /\ orders = [o \in Orders |-> UndeliveredOrder]
    /\ releases = [o \in Orders |-> NoRelease]
    /\ rows = [o \in Orders |-> NoRows]
    /\ settlements = [s \in Settlements |-> NoSettlement]
    /\ adjustments = [a \in Adjustments |-> NoAdjustment]
    /\ payouts = [p \in Payouts |-> NoPayout]

Collected == 0..MaxActual
Manual == 1..MaxManual

Delivering ==
    \E o \in Orders, actual \in Collected :
        \/ DeliverOnSettlement(o, actual)
        \/ \E bypass \in BOOLEAN : DeliverImmediately(o, actual, bypass)

Settling ==
    \E s \in Settlements :
        \/ \E d \in Drivers, alloc \in [Orders -> Collected],
              unattributed \in 0..MaxManual, amount \in 1..BalanceLimit :
                CreateSettlement(s, d, amount, alloc, unattributed)
        \/ \E d \in Drivers, amount \in Manual : CreateLegacySettlement(s, d, amount)
        \/ ReverseSettlement(s)
        \/ \E amount \in Manual : RecordShortfall(s, amount)

Reviewing ==
    \E o \in Orders, plan \in CandidatePlans :
        ResolveImmediately(o, plan) \/ ResolveReleaseDifference(o, plan)

Correcting ==
    \E o \in Orders :
        \/ VoidReleaseCollection(o)
        \/ ReverseRelease(o)
        \/ ReverseCollection(o)
        \/ ReverseWalletCredit(o)
        \/ ReverseProductRevenue(o)
        \/ ReverseFeeRevenue(o)

Adjusting ==
    \E a \in Adjustments :
        \/ \E direction \in {"CREDIT", "DEBIT"}, amount \in Manual :
                \/ \E d \in Drivers : AdjustDriverCash(a, d, direction, amount)
                \/ \E c \in Customers : AdjustWallet(a, c, direction, amount)
        \/ ReverseCashAdjustment(a)
        \/ ReverseWalletAdjustment(a)

Paying ==
    \E p \in Payouts :
        \/ \E c \in Customers, amount \in Manual : CreatePayout(p, c, amount)
        \/ ReversePayout(p)

Next ==
    \/ Activate
    \/ Deactivate
    \/ Delivering
    \/ Settling
    \/ Reviewing
    \/ Correcting
    \/ Adjusting
    \/ Paying

Spec == Init /\ [][Next]_vars

-----------------------------------------------------------------------------
(* Properties *)

\* Every variable keeps its type.
TypeOK ==
    /\ enabled \in BOOLEAN
    /\ account \in [Drivers -> Balances]
    /\ wallet \in [Customers -> Balances]
    /\ orders \in [Orders -> Order]
    /\ releases \in [Orders -> Release]
    /\ rows \in [Orders -> OrderRows]
    /\ settlements \in [Settlements -> Settlement]
    /\ adjustments \in [Adjustments -> Adjustment]
    /\ payouts \in [Payouts -> Payout]

\* R1 and R13 of the server's reconciliation: a cached balance equals the net
\* of its ledger whatever mix of deliveries, settlements, corrections and
\* payouts led to it.
BalancesEqualLedgers ==
    /\ \A d \in Drivers : account[d] = CashLedgerNet(d)
    /\ \A c \in Customers : wallet[c] = WalletLedgerNet(c)

\* R2: a driver always still holds the cash reserved for the collections that
\* wait for settlement, so none of them can become unsettleable and
\* lockDriverCashPosition never answers 500.
ReservedCashIsHeld ==
    \A d \in Drivers : Unattributed(d) >= 0

\* R3: what a release believes is settled equals the allocations of the
\* settlements that still stand, and never exceeds the collection.
HandedOver(o) ==
    SumFunctionOnSet([s \in Settlements |-> settlements[s].alloc[o]],
          {s \in Settlements : settlements[s].state = "POSTED"})

AllocationsAgree ==
    \A o \in Orders :
        /\ releases[o].allocated = HandedOver(o)
        /\ releases[o].allocated <= releases[o].collection

\* The promise of settlement mode (R5, R6): the customer and the company own a
\* cash collection exactly as planned, and only once all of it was settled
\* (AllocationsAgree ties the settled amount to settlements that stand).
OwnedOnlyWhenSettled ==
    \A o \in Orders : orders[o].mode = "ON_SETTLEMENT" =>
        LET posted == {rows[o].credit, rows[o].product, rows[o].fee}
            plan   == releases[o].plan
        IN  /\ releases[o].status \in {"PENDING", "VOIDED"} => posted = {NoRow}
            /\ releases[o].status \in {"RELEASED", "RELEASE_REVERSED"} =>
                    /\ releases[o].allocated = orders[o].actual
                    /\ PlanFits(o, plan, orders[o].actual)
                    /\ rows[o].credit.amount = plan.wallet
                    /\ rows[o].product.amount = plan.product
                    /\ rows[o].fee.amount = plan.fee
                    /\ \A r \in posted : r.amount > 0 =>
                         r.state = IF releases[o].status = "RELEASED" THEN "POSTED" ELSE "REVERSED"

\* R11: the order's financial status and its release never tell two stories.
FinancialStatusOf(rel) ==
    CASE rel.status = "PENDING" /\ rel.review = "AWAITING_REVIEW" -> "REVIEW_REQUIRED"
      [] rel.status = "PENDING" /\ rel.review # "AWAITING_REVIEW" -> "AWAITING_SETTLEMENT"
      [] rel.status = "RELEASED" -> "FINALIZED"
      [] rel.status = "VOIDED" -> "COLLECTION_VOIDED"
      [] OTHER -> "RELEASE_REVERSED"

OrderAndReleaseAgree ==
    \A o \in Orders :
        /\ (releases[o].status # "NONE") <=> (orders[o].mode = "ON_SETTLEMENT")
        /\ releases[o].status # "NONE" =>
                /\ orders[o].financial = FinancialStatusOf(releases[o])
                /\ orders[o].needsReview <=> orders[o].financial = "REVIEW_REQUIRED"
                /\ releases[o].plan = NoPlan <=> releases[o].review = "AWAITING_REVIEW"

\* Settlement and review finish in either order, and whichever comes last
\* releases: a release that meets both conditions is never left pending.
NothingLeftPending ==
    \A o \in Orders :
        releases[o].status = "PENDING" /\ releases[o].allocated = releases[o].collection
            => releases[o].review = "AWAITING_REVIEW"

\* A release is corrected at most once and never revived; the mode decided at
\* delivery is never decided again, whatever activation does later.
ReleaseStep(o) ==
    /\ releases[o].status \in {"VOIDED", "RELEASE_REVERSED"} => releases'[o] = releases[o]
    /\ releases[o].status = "RELEASED" => releases'[o].status \in {"RELEASED", "RELEASE_REVERSED"}
    /\ orders[o].delivered => orders'[o].delivered /\ orders'[o].mode = orders[o].mode

CorrectionsAreFinal == [][\A o \in Orders : ReleaseStep(o)]_vars

\* A settlement whose allocation has released funds stands for ever.
SettlementStep(s) ==
    (\E o \in Orders : settlements[s].alloc[o] > 0 /\ releases[o].status \in {"RELEASED", "RELEASE_REVERSED"})
        => settlements'[s].state = settlements[s].state /\ settlements'[s].alloc = settlements[s].alloc

ReleasedSettlementsStand == [][\A s \in Settlements : SettlementStep(s)]_vars

\* The inductive strengthening of the invariants that speak of one order:
\* everything a release's status says about its order and its ledger rows.
ReleaseMatchesOrder(o) ==
    IF releases[o].status = "NONE"
    THEN releases[o] = NoRelease /\ orders[o].mode # "ON_SETTLEMENT"
    ELSE /\ OrderMatchesRelease(o)
         /\ orders[o].financial = FinancialStatusOf(releases[o])
         /\ orders[o].needsReview <=> orders[o].financial = "REVIEW_REQUIRED"

AmountsCoherent(o) ==
    LET rel == releases[o]
    IN  rel.status # "NONE" =>
            /\ rel.collection > 0 /\ rel.allocated <= rel.collection
            /\ rel.review = "AWAITING_REVIEW" => rel.plan = NoPlan
            /\ rel.review # "AWAITING_REVIEW" => PlanFits(o, rel.plan, rel.collection)

StatusCoherent(o) ==
    LET rel == releases[o]
    IN  /\ rel.status = "PENDING" /\ rel.allocated = rel.collection => rel.review = "AWAITING_REVIEW"
        /\ rel.status = "VOIDED" => rel.allocated = 0
        /\ ReleaseLinked(o) => rel.allocated = rel.collection /\ rel.review # "AWAITING_REVIEW"

PostingsCoherent(o) ==
    LET plan == releases[o].plan
        Postings(p, q, r) == rows[o].credit = p /\ rows[o].product = q /\ rows[o].fee = r
    IN  /\ releases[o].status \in {"PENDING", "VOIDED"} => Postings(NoRow, NoRow, NoRow)
        /\ releases[o].status = "RELEASED" =>
                Postings(PostedRow(plan.wallet), PostedRow(plan.product), PostedRow(plan.fee))
        /\ releases[o].status = "RELEASE_REVERSED" =>
                Postings(ReversedRow(PostedRow(plan.wallet)), ReversedRow(PostedRow(plan.product)),
                         ReversedRow(PostedRow(plan.fee)))

ReleaseCoherent(o) ==
    ReleaseMatchesOrder(o) /\ AmountsCoherent(o) /\ StatusCoherent(o) /\ PostingsCoherent(o)

\* A settlement that was not created allocates nothing.
SettlementCoherent(s) == settlements[s].state = "ABSENT" => settlements[s].alloc = NoAllocations

\* The inductive invariant the proofs rest on: releases, orders and ledger rows
\* stay mutually consistent through every delivery, settlement and correction.
Coherent ==
    /\ TypeOK
    /\ \A o \in Orders : ReleaseCoherent(o)
    /\ \A s \in Settlements : SettlementCoherent(s)

\* What the sums over the ledgers rest on: an order that was not delivered has
\* no rows, a difference under review has posted no credit, a release that
\* waits has its collection intact, only a settlement that stands has a
\* shortfall, and what a settlement allocates lies within its amount and among
\* the collections of its own driver.
RowsFit(o) ==
    /\ ~orders[o].delivered => rows[o] = NoRows
    /\ orders[o].needsReview => rows[o].credit = NoRow
    /\ releases[o].status = "PENDING" => CollectionIntact(o)

SettlementFits(s) ==
    LET st == settlements[s]
    IN  /\ st.state # "POSTED" => st.shortfall = 0
        /\ AllocationTotal(st.alloc) <= st.amount
        /\ \A o \in Allocated(st.alloc) : DriverOf[o] = st.driver

\* The inductive invariant of the money: the balances, the reserved cash and
\* the settled amounts add up together with the rows they are sums of.
AddsUp ==
    /\ BalancesEqualLedgers
    /\ ReservedCashIsHeld
    /\ \A o \in Orders : releases[o].allocated = HandedOver(o)

Sound ==
    /\ Coherent
    /\ \A o \in Orders : RowsFit(o)
    /\ \A s \in Settlements : SettlementFits(s)
    /\ AddsUp

-----------------------------------------------------------------------------
(* Refinement: every cash collection in settlement mode keeps the promise of  *)
(* module Custody.  Orders delivered in another mode never have a release and *)
(* map to a collection that does not exist.                                   *)

PhaseOf(rel) ==
    CASE rel.status = "NONE" -> "none"
      [] rel.status = "PENDING" -> "held"
      [] rel.status = "RELEASED" -> "owned"
      [] rel.status = "VOIDED" -> "voided"
      [] OTHER -> "returned"

CustodyOf(rel, r) ==
    [phase  |-> PhaseOf(rel),
     amount |-> rel.collection,
     handed |-> rel.allocated,
     agreed |-> rel.review # "AWAITING_REVIEW",
     owned  |-> IF rel.status = "NONE" THEN 0 ELSE Net(r.credit) + Net(r.product) + Net(r.fee)]

CustodyState == [o \in Orders |-> CustodyOf(releases[o], rows[o])]

Promise == INSTANCE Custody WITH Collections <- Orders, custody <- CustodyState

\* The ledgers implement the promise: ownership of a settlement-mode collection
\* appears in one step, in full, when the last part is handed over or the
\* difference is resolved, and no correction path breaks that.
ImplementsCustody == Promise!Spec

=============================================================================
