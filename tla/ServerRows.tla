----------------------------- MODULE ServerRows -----------------------------
(***************************************************************************)
(* Which rows of the database the server puts an answer together from, and *)
(* which rows a request writes, for the requests of the web client.        *)
(*                                                                         *)
(* A row is a pair <<kind, id>>.  The columns of one order are told apart  *)
(* by what changes them together:                                          *)
(*   "order"   status and history                                          *)
(*   "active"  whether it is active, delivered or cancelled                *)
(*   "holder"  the driver who holds it and how far the delivery is         *)
(*   "attempt" finished delivery attempts                                  *)
(*   "terms"   receiver, package, amounts and customer                     *)
(*   "parcel"  parcel collection: its status and current driver            *)
(*   "fetch"   the assignments and attempts of the parcel collection       *)
(*   "money"   financial status, review and release status                 *)
(*   "plan"    whether a release is pending, and how it will be split      *)
(*   "alloc"   what settlements allocated to its collection                *)
(*   "posted"  the wallet, cash and company transactions of the order      *)
(* The others are a customer, a driver, a wallet with its transactions, a  *)
(* driver's cash account with its transactions, a settlement with its      *)
(* corrections, the payouts of a customer, the company ledger, the         *)
(* receivers remembered of a customer, and a catalogue of the settings.    *)
(* The names of a customer or a driver an answer joins are told apart for  *)
(* the orders; other lists that only join a name leave it out.             *)
(*                                                                         *)
(* A request is <<name, id>>: the name of the endpoint in the client and   *)
(* what it is about, ALL for a list.  A request of another name reads or   *)
(* writes nothing in the operators below.                                  *)
(*                                                                         *)
(* The second half are the tags the web client's cache knows: which tags   *)
(* each query provides and which each mutation invalidates                 *)
(* (services/*Api.ts).  A tag is <<type, id>>.  Invalidates(m, answered)   *)
(* has the tags of a mutation that the server answered with success, or    *)
(* that failed or lost its answer; they differ only where the tags are     *)
(* taken from the answer.                                                  *)
(***************************************************************************)
EXTENDS Naturals, FiniteSets

CONSTANTS
    OrderIds, CustomerIds, DriverIds, SettlementIds, Catalogues,
    ALL,            \* the id of a request about a list
    CustomerOf,     \* the customer of an order
    DriverOf,       \* the driver who delivers an order, or collects its parcel
    Allocated,      \* the orders whose collections a settlement allocates to
    SettledBy       \* the driver whose cash a settlement takes

ASSUME RowsAssumption ==
    /\ CustomerOf \in [OrderIds -> CustomerIds]
    /\ DriverOf \in [OrderIds -> DriverIds]
    /\ Allocated \in [SettlementIds -> SUBSET OrderIds]
    /\ SettledBy \in [SettlementIds -> DriverIds]
    /\ \A s \in SettlementIds : \A o \in Allocated[s] : DriverOf[o] = SettledBy[s]

Rows(kinds, ids) == kinds \X ids

OrdersOfCustomer(c) == {o \in OrderIds : CustomerOf[o] = c}
OrdersOfDriver(d) == {o \in OrderIds : DriverOf[o] = d}

(***************************************************************************)
(* The driver whose cash a reversed row of the cash ledger belongs to.     *)
(***************************************************************************)
CashOwner(id) ==
    CASE id \in OrderIds -> DriverOf[id] [] id \in SettlementIds -> SettledBy[id] [] OTHER -> id

SettlementsOf(o) == {s \in SettlementIds : o \in Allocated[s]}

-----------------------------------------------------------------------------
(***************************************************************************)
(* Reads.                                                                  *)
(***************************************************************************)

(***************************************************************************)
(* An order is shown with the names, as they are now, of its customer and  *)
(* of its drivers: one delivers it, and another may collect its parcel.    *)
(***************************************************************************)
NamesRead(orders) ==
    Rows({"customer"}, {CustomerOf[o] : o \in orders})
        \union Rows({"driver"}, {DriverOf[o] : o \in OrderIds})

OrderListReads(orders) ==
    Rows({"order", "holder", "terms", "parcel", "money"}, orders) \union NamesRead(orders)

OrderDetailReads(o) ==
    Rows({"order", "holder", "attempt", "terms", "parcel", "money", "posted"}, {o})
        \union NamesRead({o})

HistoryReads(o) == Rows({"order", "holder", "attempt"}, {o})
TimelineReads(o) == Rows({"order", "holder", "attempt", "parcel", "fetch", "posted"}, {o})
ReleasePanelReads(o) == Rows({"money", "plan", "alloc"}, {o})
ParcelReads(o) == Rows({"parcel", "fetch"}, {o})

OrderReads(q) ==
    CASE q[1] = "getOrders"                -> OrderListReads(OrderIds)
      [] q[1] = "getOrder"                 -> OrderDetailReads(q[2])
      [] q[1] = "getOrderHistory"          -> HistoryReads(q[2])
      [] q[1] = "getOrderTimeline"         -> TimelineReads(q[2])
      [] q[1] = "getOrderFinancialRelease" -> ReleasePanelReads(q[2])
      [] q[1] = "getParcelCollection"      -> ParcelReads(q[2])
      [] OTHER -> {}

(***************************************************************************)
(* A driver's counters: the orders held, out for delivery and delivered    *)
(* today, by their finished attempts.                                      *)
(***************************************************************************)
OperationalReads(drivers) ==
    Rows({"active", "holder", "attempt"}, {o \in OrderIds : DriverOf[o] \in drivers})

DriverReads(q) ==
    LET d == q[2] IN
    CASE q[1] = "getDrivers" -> Rows({"driver"}, DriverIds) \union OperationalReads(DriverIds)
      [] q[1] = "getDriver"  -> {<<"driver", d>>} \union OperationalReads({d})
      [] q[1] = "getDriverOperationalTotals" -> OperationalReads(DriverIds)
      [] q[1] = "getDriverCurrentOrders" -> OrderListReads(OrdersOfDriver(d))
      [] q[1] = "getDriverDeliveryHistory" -> Rows({"order", "attempt", "terms"}, OrdersOfDriver(d))
      [] q[1] = "getDriverParcelCollectionHistory" ->
            Rows({"parcel", "fetch"}, OrdersOfDriver(d))
      [] OTHER -> {}

(***************************************************************************)
(* The cash position of a driver is the account and, for the collections   *)
(* it holds, the releases that are not settled.                            *)
(***************************************************************************)
OutstandingReads(d) == {<<"cash", d>>} \union Rows({"plan", "alloc"}, OrdersOfDriver(d))

DriverCashReads(q) ==
    CASE q[1] = "getOutstandingCollections" -> OutstandingReads(q[2])
      [] q[1] \in {"getManagementDriverCash", "getManagementDriverCashTransactions"} ->
            {<<"cash", q[2]>>}
      [] q[1] \in {"getDriverCashSummaries", "getDriverCashTotals"} -> Rows({"cash"}, DriverIds)
      [] OTHER -> {}

(***************************************************************************)
(* The orders of a customer that are active or delivered: an edit may give *)
(* an order another customer.                                              *)
(***************************************************************************)
ActiveCounts(customers) ==
    Rows({"active", "terms"}, {o \in OrderIds : CustomerOf[o] \in customers})

CustomerReads(q) ==
    LET c == q[2] IN
    CASE q[1] = "getCustomers" -> Rows({"customer"}, CustomerIds) \union ActiveCounts(CustomerIds)
      [] q[1] = "getCustomer"  -> {<<"customer", c>>} \union ActiveCounts({c})
      [] q[1] = "getCustomerOrderTotals" -> ActiveCounts(CustomerIds)
      [] q[1] = "getCustomerReceivers" -> {<<"receivers", c>>}
      [] OTHER -> {}

(***************************************************************************)
(* Pending money: the amounts of the active orders and the planned credits *)
(* of the releases that still hold cash.                                   *)
(***************************************************************************)
PendingReads(orders) == Rows({"active", "terms", "plan"}, orders)

WalletListReads ==
    Rows({"wallet", "payout", "customer"}, CustomerIds) \union PendingReads(OrderIds)
WalletDetailReads(c) == Rows({"wallet", "customer"}, {c}) \union PendingReads(OrdersOfCustomer(c))
WalletTransactionReads(c) == Rows({"wallet", "payout"}, {c})

WalletReads(q) ==
    CASE q[1] = "getWallets" -> WalletListReads
      [] q[1] = "getWallet"  -> WalletDetailReads(q[2])
      [] q[1] \in {"getWalletCustomerSummaries", "getWalletTotals"} ->
            Rows({"wallet"}, CustomerIds) \union PendingReads(OrderIds)
      [] q[1] = "getWalletTransactions" -> WalletTransactionReads(q[2])
      [] q[1] = "getPayouts" -> Rows({"payout"}, CustomerIds)
      [] OTHER -> {}

(***************************************************************************)
(* The detail of a settlement shows the current state of every collection  *)
(* it allocated to.                                                        *)
(***************************************************************************)
SettlementReads(q) ==
    CASE q[1] = "getSettlements" -> Rows({"settlement"}, SettlementIds)
      [] q[1] = "getSettlement"  ->
            {<<"settlement", q[2]>>} \union Rows({"money", "alloc"}, Allocated[q[2]])
      [] OTHER -> {}

(***************************************************************************)
(* The figures of the finance pages: net flows of the ledgers, snapshots   *)
(* of what is owed and held, and the releases between them.                *)
(***************************************************************************)
FlowReads ==
    {<<"company", ALL>>} \union Rows({"wallet", "payout"}, CustomerIds)
        \union Rows({"cash"}, DriverIds)
SummaryReads == FlowReads \union Rows({"money", "plan", "alloc"}, OrderIds)
FeedReads == FlowReads \union Rows({"money"}, OrderIds)
FinanceReportReads == SummaryReads \union Rows({"settlement"}, SettlementIds)

DashboardFigures ==
    FlowReads \union Rows({"driver"}, DriverIds)
        \union Rows({"order", "active", "holder", "parcel", "money", "plan"}, OrderIds)
AttentionReads == Rows({"order", "holder", "parcel", "money"}, OrderIds)
ActivityReads == FlowReads \union Rows({"order"}, OrderIds)
DeliveredTodayReads == Rows({"order", "terms"}, OrderIds)

FinanceReads(q) ==
    CASE q[1] = "getFinanceSummary"      -> SummaryReads
      [] q[1] = "getFinanceTransactions" -> FeedReads
      [] q[1] = "getFinanceReport"       -> FinanceReportReads
      [] q[1] = "getDashboard" -> UNION {DashboardFigures, AttentionReads, ActivityReads}
      [] q[1] = "getDailyDeliverySummary" -> DeliveredTodayReads
      [] OTHER -> {}

(***************************************************************************)
(* The reports.  The order report always counts the queues of the parcel   *)
(* collection; the driver report counts collections beside deliveries.     *)
(***************************************************************************)
OrderTotalsReads == Rows({"order", "active", "terms", "money", "parcel"}, OrderIds)
OrderGroupReads == OrderTotalsReads \union Rows({"holder", "attempt"}, OrderIds)

DriverReportReads ==
    Rows({"driver", "cash"}, DriverIds) \union Rows({"settlement"}, SettlementIds)
        \union Rows({"holder", "attempt", "fetch", "posted", "plan", "alloc"}, OrderIds)

CustomerReportReads ==
    Rows({"customer", "wallet", "payout"}, CustomerIds) \union PendingReads(OrderIds)

ReportReads(q) ==
    CASE q[1] = "getOrderReport"    -> OrderGroupReads
      [] q[1] = "getDriverReport"   -> DriverReportReads
      [] q[1] = "getCustomerReport" -> CustomerReportReads
      [] OTHER -> {}

CatalogueReads(q) ==
    IF q[1] \in {"getCatalogue", "getDriverReasons"} THEN {<<"catalogue", q[2]>>} ELSE {}

(***************************************************************************)
(* What a driver's own screens are put together from.                      *)
(***************************************************************************)
JobListReads(d) == Rows({"order", "holder", "parcel", "fetch"}, OrdersOfDriver(d))
WorkHistoryReads(d) == Rows({"attempt", "fetch"}, OrdersOfDriver(d))

DriverScreenReads(q) ==
    CASE q[1] = "getDriverJobs" -> JobListReads(q[2])
      [] q[1] = "getDriverWorkHistory" -> WorkHistoryReads(q[2])
      [] q[1] = "getCollectionJob" -> ParcelReads(q[2])
      [] q[1] \in {"getDeliveryJob", "getDriverOrder"} -> Rows({"order", "holder"}, {q[2]})
      [] q[1] = "getDriverOrders" -> Rows({"order", "holder"}, OrdersOfDriver(q[2]))
      [] q[1] = "getDriverCash" -> {<<"cash", q[2]>>}
      [] OTHER -> {}

Reads(q) ==
    UNION {OrderReads(q), DriverReads(q), DriverCashReads(q), CustomerReads(q), WalletReads(q),
           SettlementReads(q), FinanceReads(q), ReportReads(q), CatalogueReads(q),
           DriverScreenReads(q)}

-----------------------------------------------------------------------------
(***************************************************************************)
(* Writes.  The parcel collection's actions touch the parcel columns only, *)
(* a reschedule none of its assignments; a cancellation also closes an     *)
(* open collection.                                                        *)
(***************************************************************************)
OrderWrites(m) ==
    LET o == m[2] IN
    CASE m[1] = "createOrder" ->
            Rows({"order", "active", "holder", "terms", "parcel", "fetch"}, {o})
                \union {<<"receivers", CustomerOf[o]>>}
      [] m[1] = "updateOrder" -> {<<"terms", o>>, <<"receivers", CustomerOf[o]>>}
      [] m[1] \in {"assignOrder", "reassignOrder", "unassignOrder"} ->
            Rows({"order", "holder"}, {o})
      [] m[1] \in {"readyOrder", "rescheduleOrder"} -> {<<"order", o>>}
      [] m[1] = "bulkAssignOrders" -> Rows({"order", "holder"}, OrderIds)
      [] m[1] = "cancelOrder" -> Rows({"order", "active", "holder", "parcel", "fetch"}, {o})
      [] m[1] \in {"assignParcelCollectionDriver", "reassignParcelCollectionDriver",
                   "receiveParcelAtCompany"} -> Rows({"parcel", "fetch"}, {o})
      [] m[1] = "rescheduleParcelCollection" -> {<<"parcel", o>>}
      [] OTHER -> {}

(***************************************************************************)
(* The driver's steps.  A delivery settles what the order is worth: the    *)
(* driver's cash, and at once or later the wallet and the company ledger.  *)
(***************************************************************************)
DriverStepWrites(m) ==
    LET o == m[2] IN
    CASE m[1] \in {"pickupDriverOrder", "scanPickupDriverOrder", "startDriverOrderDelivery"} ->
            Rows({"order", "holder"}, {o})
      [] m[1] = "failDriverOrder" -> Rows({"order", "holder", "attempt"}, {o})
      [] m[1] = "deliverDriverOrder" ->
            Rows({"order", "active", "holder", "attempt", "money", "plan", "posted"}, {o})
                \union {<<"cash", DriverOf[o]>>, <<"wallet", CustomerOf[o]>>, <<"company", ALL>>}
      [] m[1] \in {"markParcelCollected", "reportParcelCollectionFailed"} ->
            Rows({"parcel", "fetch"}, {o})
      [] OTHER -> {}

(***************************************************************************)
(* A resolution writes the release of the order or, in the immediate mode, *)
(* the wallet and the company ledger.                                      *)
(***************************************************************************)
ResolutionWrites(m) ==
    IF m[1] = "resolveCollectionDifference"
    THEN Rows({"money", "plan", "posted"}, {m[2]})
             \union {<<"wallet", CustomerOf[m[2]]>>, <<"company", ALL>>}
    ELSE {}

(***************************************************************************)
(* A settlement takes the cash, allocates it and releases what is paid in  *)
(* full; its reversal puts the cash and the allocations back.              *)
(***************************************************************************)
SettlementWrites(m) ==
    LET s == m[2] IN
    CASE m[1] = "createSettlement" ->
            {<<"settlement", s>>, <<"cash", SettledBy[s]>>, <<"company", ALL>>}
                \union Rows({"money", "plan", "alloc", "posted"}, Allocated[s])
                \union Rows({"wallet"}, {CustomerOf[o] : o \in Allocated[s]})
      [] m[1] = "reverseSettlement" ->
            {<<"settlement", s>>, <<"cash", SettledBy[s]>>}
                \union Rows({"alloc"}, Allocated[s])
      [] OTHER -> {}

CorrectionWrites(m) ==
    LET o == m[2] IN
    CASE m[1] = "voidReleaseCollection" ->
            Rows({"money", "plan", "posted"}, {o}) \union {<<"cash", DriverOf[o]>>}
      [] m[1] = "reverseFinancialRelease" ->
            Rows({"money", "posted"}, {o})
                \union {<<"wallet", CustomerOf[o]>>, <<"company", ALL>>}
      [] m[1] = "adjustDriverCash" -> {<<"cash", m[2]>>}
      [] m[1] = "adjustWallet" -> {<<"wallet", m[2]>>}
      [] m[1] = "adjustCompanyFinance" -> {<<"company", ALL>>}
      [] m[1] = "createPayout" -> Rows({"wallet", "payout"}, {m[2]})
      [] OTHER -> {}

(***************************************************************************)
(* The reversal of one ledger row: what an order posted outside the        *)
(* releases, a payout or an adjustment, or a settlement of the old format. *)
(* The reversing row keeps the order of the row it reverses.               *)
(***************************************************************************)
PostingOf(id) == IF id \in OrderIds THEN {<<"posted", id>>} ELSE {}

ReversalWrites(m) ==
    LET id == m[2] IN
    CASE m[1] = "reverseWalletTransaction" ->
            PostingOf(id) \union (IF id \in OrderIds THEN {<<"wallet", CustomerOf[id]>>}
                                  ELSE Rows({"wallet", "payout"}, {id}))
      [] m[1] = "reverseDriverCashTransaction" ->
            PostingOf(id) \union (IF id \in SettlementIds THEN {<<"settlement", id>>} ELSE {})
                \union {<<"cash", CashOwner(id)>>}
      [] m[1] = "reverseCompanyTransaction" -> PostingOf(id) \union {<<"company", ALL>>}
      [] OTHER -> {}

AccountWrites(m) ==
    CASE m[1] \in {"createCustomer", "updateCustomer"} -> {<<"customer", m[2]>>}
      [] m[1] \in {"createDriver", "updateDriver"} -> {<<"driver", m[2]>>}
      [] m[1] = "updateCatalogue" -> {<<"catalogue", m[2]>>}
      [] OTHER -> {}

Writes(m) ==
    UNION {OrderWrites(m), DriverStepWrites(m), ResolutionWrites(m), SettlementWrites(m),
           CorrectionWrites(m), ReversalWrites(m), AccountWrites(m)}

-----------------------------------------------------------------------------
Tag(type, id) == {<<type, id>>}
List(type) == Tag(type, "LIST")
Root == Tag("Dashboard", "ROOT")
Report == List("Report")
FinanceViews == Rows({"Finance"}, {"SUMMARY", "TRANSACTIONS"}) \union Root \union Report

-----------------------------------------------------------------------------
OrderTags(q) ==
    CASE q[1] = "getOrders" -> List("Order")
      [] q[1] \in {"getOrder", "getOrderHistory", "getOrderFinancialRelease"} ->
            Tag("Order", q[2])
      [] q[1] = "getOrderTimeline" -> Tag("Order", q[2]) \union Tag("ParcelCollection", q[2])
      [] q[1] = "getParcelCollection" -> Tag("ParcelCollection", q[2])
      [] OTHER -> {}

DriverTags(q) ==
    CASE q[1] = "getDrivers" -> List("Driver")
      [] q[1] = "getDriver" -> Tag("Driver", q[2])
      [] q[1] = "getDriverOperationalTotals" -> List("Driver") \union List("Order")
      [] q[1] = "getDriverCurrentOrders" -> List("Order") \union Tag("Driver", q[2])
      [] q[1] = "getDriverDeliveryHistory" -> List("Order")
      [] q[1] = "getDriverParcelCollectionHistory" ->
            List("ParcelCollection") \union Tag("Driver", q[2])
      [] q[1] \in {"getOutstandingCollections", "getManagementDriverCash",
                   "getManagementDriverCashTransactions"} -> Tag("DriverCash", q[2])
      [] q[1] = "getDriverCashSummaries" -> Tag("DriverCash", "SUMMARIES")
      [] q[1] = "getDriverCashTotals" -> Tag("DriverCash", "SUMMARIES") \union List("Order")
      [] OTHER -> {}

CustomerTags(q) ==
    CASE q[1] = "getCustomers" -> List("Customer")
      [] q[1] = "getCustomer" -> Tag("Customer", q[2])
      [] q[1] = "getCustomerOrderTotals" -> List("Customer") \union List("Order")
      [] q[1] = "getCustomerReceivers" -> Tag("CustomerReceiver", q[2])
      [] OTHER -> {}

WalletTags(q) ==
    CASE q[1] \in {"getWallets", "getWalletCustomerSummaries"} -> List("Wallet")
      [] q[1] = "getWallet" -> Tag("Wallet", q[2])
      [] q[1] = "getWalletTotals" -> List("Wallet") \union List("Order")
      [] q[1] = "getWalletTransactions" -> List("WalletTransaction")
      [] q[1] = "getPayouts" -> List("Payout")
      [] OTHER -> {}

FinanceTags(q) ==
    CASE q[1] = "getSettlements" -> List("Settlement")
      [] q[1] = "getSettlement" -> Tag("Settlement", q[2])
      [] q[1] = "getFinanceSummary" -> Tag("Finance", "SUMMARY")
      [] q[1] = "getFinanceTransactions" -> Tag("Finance", "TRANSACTIONS")
      [] q[1] \in {"getFinanceReport", "getOrderReport", "getDriverReport",
                   "getCustomerReport"} -> Report
      [] q[1] = "getDashboard" -> Root
      [] q[1] = "getDailyDeliverySummary" -> List("Order") \union Root
      [] OTHER -> {}

(***************************************************************************)
(* The lists a driver's dialogs offer carry the tags of the settings pages.*)
(***************************************************************************)
CatalogueTags(q) ==
    IF q[1] \in {"getCatalogue", "getDriverReasons"} THEN Tag("Settings", q[2]) ELSE {}

DriverScreenTags(q) ==
    CASE q[1] = "getDriverJobs" -> List("DriverJob")
      [] q[1] = "getDriverWorkHistory" -> List("DriverHistory")
      [] q[1] = "getCollectionJob" -> Tag("CollectionJob", q[2])
      [] q[1] = "getDeliveryJob" -> Tag("DeliveryJob", q[2])
      [] q[1] = "getDriverOrders" -> List("DriverOrder")
      [] q[1] = "getDriverOrder" -> Tag("DriverOrder", q[2])
      [] q[1] = "getDriverCash" -> Tag("DriverCash", "ME")
      [] OTHER -> {}

Provides(q) ==
    UNION {OrderTags(q), DriverTags(q), CustomerTags(q), WalletTags(q), FinanceTags(q),
           CatalogueTags(q), DriverScreenTags(q)}

-----------------------------------------------------------------------------
OrderInvalidates(m) ==
    LET o == m[2]
        anOrder == Tag("Order", o) \union List("Order") \union Root
        assignment == List("Driver") \union List("DriverOrder") \union Report
    IN
    CASE m[1] = "createOrder" ->
            List("Order") \union Root \union assignment
                \union Rows({"CustomerReceiver"}, CustomerIds)
      [] m[1] = "updateOrder" ->
            anOrder \union Report \union Rows({"CustomerReceiver"}, CustomerIds)
      [] m[1] \in {"assignOrder", "reassignOrder", "unassignOrder"} -> anOrder \union assignment
      [] m[1] = "bulkAssignOrders" -> List("Order") \union Root \union assignment
      [] m[1] = "readyOrder" -> anOrder
      [] m[1] = "rescheduleOrder" -> anOrder \union Report
      [] m[1] = "cancelOrder" ->
            anOrder \union Tag("ParcelCollection", o) \union List("Driver") \union Report
      [] OTHER -> {}

\* Mutant: a collection's assignment does not concern the order's own views.
ParcelOnlyInvalidates(m) ==
    IF m[1] \in {"assignParcelCollectionDriver", "reassignParcelCollectionDriver",
                 "rescheduleParcelCollection", "receiveParcelAtCompany"}
    THEN Rows({"ParcelCollection"}, {m[2], "LIST"}) \union Root
    ELSE {}

(***************************************************************************)
(* invalidateForOrder: the parcel collection actions of the management.    *)
(***************************************************************************)
ParcelInvalidates(m) ==
    IF m[1] \in {"assignParcelCollectionDriver", "reassignParcelCollectionDriver",
                 "rescheduleParcelCollection", "receiveParcelAtCompany"}
    THEN Rows({"ParcelCollection", "Order"}, {m[2], "LIST"}) \union List("Driver") \union Root
    ELSE {}

(***************************************************************************)
(* The tags of a difference's resolution from the order it returns         *)
(* (resolutionInvalidationTags): nothing when there is no answer.          *)
(***************************************************************************)
ResolutionTags(o, answered) ==
    IF answered
    THEN Rows({"Wallet", "Customer"}, {CustomerOf[o]}) \union Tag("DriverCash", DriverOf[o])
    ELSE {}

ResolutionInvalidates(m, answered) ==
    IF m[1] = "resolveCollectionDifference"
    THEN Rows({"Order"}, {m[2], "LIST"}) \union List("Wallet") \union List("WalletTransaction")
             \union FinanceViews \union ResolutionTags(m[2], answered)
    ELSE {}

DriverCashTags(d) == Rows({"DriverCash"}, {d, "SUMMARIES", "ME"})

(***************************************************************************)
(* settlementInvalidationTags; the settlement's own tag needs its answer.  *)
(***************************************************************************)
SettlementCreated(s, answered) ==
    List("Settlement") \union DriverCashTags(SettledBy[s]) \union FinanceViews
        \union (IF answered THEN Tag("Settlement", s) ELSE {})
        \union (IF Allocated[s] = {} THEN {}
                ELSE Rows({"Wallet", "WalletTransaction", "Order"}, {"LIST"})
                         \union Rows({"Wallet", "Customer"}, {CustomerOf[o] : o \in Allocated[s]})
                         \union Rows({"Order"}, Allocated[s]))

SettlementReversed(s) ==
    Rows({"Settlement"}, {s, "LIST"}) \union DriverCashTags(SettledBy[s])
        \union Rows({"Order"}, Allocated[s]) \union FinanceViews

(***************************************************************************)
(* A void posts nothing to the wallet, but what is pending for it drops.   *)
(***************************************************************************)
CollectionVoided(o) ==
    Rows({"Order"}, {o, "LIST"}) \union DriverCashTags(DriverOf[o])
        \union Rows({"Wallet"}, {CustomerOf[o], "LIST"}) \union Tag("Customer", CustomerOf[o])
        \union FinanceViews

ReleaseReversed(o) ==
    Rows({"Order"}, {o, "LIST"}) \union Rows({"Wallet"}, {CustomerOf[o], "LIST"})
        \union List("WalletTransaction") \union Tag("Customer", CustomerOf[o])
        \union Rows({"Settlement"}, SettlementsOf(o) \union {"LIST"}) \union FinanceViews

MoneyInvalidates(m, answered) ==
    CASE m[1] = "createSettlement" -> SettlementCreated(m[2], answered)
      [] m[1] = "reverseSettlement" -> SettlementReversed(m[2])
      [] m[1] = "voidReleaseCollection" -> CollectionVoided(m[2])
      [] m[1] = "reverseFinancialRelease" -> ReleaseReversed(m[2])
      [] m[1] = "adjustDriverCash" ->
            DriverCashTags(m[2]) \union Tag("Driver", m[2]) \union FinanceViews
      [] m[1] = "adjustCompanyFinance" -> FinanceViews
      [] OTHER -> {}

WalletInvalidates(m) ==
    LET c == m[2] IN
    CASE m[1] = "adjustWallet" ->
            Rows({"Wallet", "Customer"}, {c}) \union List("Wallet")
                \union List("WalletTransaction") \union FinanceViews
      [] m[1] = "createPayout" ->
            List("Payout") \union Rows({"Wallet"}, {c, "LIST"}) \union List("WalletTransaction")
                \union FinanceViews
      [] OTHER -> {}

(***************************************************************************)
(* The reversal of a ledger row takes its tags from the row on the page.   *)
(***************************************************************************)
OrderTag(id) == IF id \in OrderIds THEN Tag("Order", id) ELSE {}

ReversalInvalidates(m) ==
    LET id == m[2]
        customer == IF id \in OrderIds THEN CustomerOf[id] ELSE id
    IN
    CASE m[1] = "reverseWalletTransaction" ->
            Rows({"Wallet", "Customer"}, {customer}) \union List("Wallet")
                \union List("WalletTransaction") \union FinanceViews \union OrderTag(id)
                \union (IF id \in CustomerIds THEN List("Payout") ELSE {})
      [] m[1] = "reverseDriverCashTransaction" ->
            DriverCashTags(CashOwner(id)) \union Tag("Driver", CashOwner(id))
                \union FinanceViews \union OrderTag(id)
                \union (IF id \in SettlementIds THEN List("Settlement") ELSE {})
      [] m[1] = "reverseCompanyTransaction" -> FinanceViews \union OrderTag(id)
      [] OTHER -> {}

(***************************************************************************)
(* The driver's steps.  A scan knows which order it picked up only from    *)
(* its answer.                                                             *)
(***************************************************************************)
DriverStepInvalidates(m, answered) ==
    LET o == m[2]
        lists == Rows({"DriverOrder", "DriverJob", "Order"}, {"LIST"}) \union Root
        one == Rows({"DriverOrder", "DeliveryJob", "Order"}, {o})
    IN
    CASE m[1] \in {"pickupDriverOrder", "startDriverOrderDelivery"} -> lists \union one
      [] m[1] = "scanPickupDriverOrder" -> lists \union (IF answered THEN one ELSE {})
      [] m[1] = "failDriverOrder" -> lists \union one \union List("DriverHistory") \union Report
      [] m[1] = "deliverDriverOrder" ->
            lists \union one \union List("DriverHistory") \union Tag("DriverCash", "ME")
                \union List("Wallet") \union List("WalletTransaction") \union FinanceViews
      [] m[1] \in {"markParcelCollected", "reportParcelCollectionFailed"} ->
            Tag("CollectionJob", o) \union Rows({"DriverJob", "DriverHistory", "Driver"}, {"LIST"})
                \union Rows({"ParcelCollection", "Order"}, {o, "LIST"}) \union Root
      [] OTHER -> {}

AccountInvalidates(m) ==
    CASE m[1] = "updateCustomer" -> Rows({"Customer"}, {m[2], "LIST"})
      [] m[1] = "updateDriver" -> Rows({"Driver"}, {m[2], "LIST"})
      [] m[1] = "createCustomer" -> List("Customer")
      [] m[1] = "createDriver" -> List("Driver")
      [] m[1] = "updateCatalogue" -> Tag("Settings", m[2])
      [] OTHER -> {}

Invalidates(m, answered) ==
    UNION {OrderInvalidates(m), ParcelInvalidates(m), ResolutionInvalidates(m, answered),
           MoneyInvalidates(m, answered), WalletInvalidates(m), ReversalInvalidates(m),
           DriverStepInvalidates(m, answered), AccountInvalidates(m)}
=============================================================================
