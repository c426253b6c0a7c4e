----------------------------- MODULE MCScreens -----------------------------
(***************************************************************************)
(* What a screen shows and sends: the cache of server data (QueryCache),   *)
(* the driver's job page (DriverJobScreen), the order page (OrderScreen),  *)
(* and the two forms that write an order, Edit Order (OrderEditing) and    *)
(* Create Order (OrderCreation).                                           *)
(*                                                                         *)
(* A behaviour is one of one part, which part says; the others stay as     *)
(* they begin, so the states of the parts add up instead of multiplying.   *)
(***************************************************************************)
EXTENDS ServerRows, QueryCache, DriverJobScreen, OrderScreen, OrderEditing,
        OrderCreation, TLC

CONSTANTS
    d1, d2, j1, r1, r2, l1, l2,                 \* the driver's job and the order page
    c1, c2, a1, a2, p1, p2, old, k1, k2, i1, i2, i3, x1, t1, t2, m1, m2,
    b1, api, s1, s2, n1, n2, n3, e1, alt1 \* the forms

VARIABLE part

-----------------------------------------------------------------------------
(***************************************************************************)
(* The cache.  Three orders are enough for what a request can be about:    *)
(* o1, o2 of another customer with another driver, and o3, which is        *)
(* created.  Two settlements allocate to o1 and two, of the old format, to *)
(* no order; one of each is created.                                       *)
(***************************************************************************)
OwnCustomer == "o1" :> "c1" @@ "o2" :> "c2" @@ "o3" :> "c1"
OwnDriver == "o1" :> "d1" @@ "o2" :> "d2" @@ "o3" :> "d1"
OwnSettlement == "s1" :> {"o1"} @@ "s2" :> {"o1"} @@ "s3" :> {} @@ "s4" :> {}
OwnCash == [s \in {"s1", "s2", "s3", "s4"} |-> "d1"]

Known == {"o1", "o2"}

ListQueries ==
    Rows({"getOrders", "getDrivers", "getDriverOperationalTotals", "getDriverCashSummaries",
          "getDriverCashTotals", "getCustomers", "getCustomerOrderTotals", "getWallets",
          "getWalletCustomerSummaries", "getWalletTotals", "getPayouts", "getSettlements",
          "getFinanceSummary", "getFinanceTransactions", "getFinanceReport", "getDashboard",
          "getDailyDeliverySummary", "getOrderReport", "getDriverReport",
          "getCustomerReport"}, {ALL})

DetailQueries ==
    UNION {Rows({"getOrder", "getOrderHistory", "getOrderTimeline",
                 "getOrderFinancialRelease", "getParcelCollection"}, {"o1"}),
           Rows({"getDriver", "getDriverCurrentOrders", "getDriverDeliveryHistory",
                 "getDriverParcelCollectionHistory", "getOutstandingCollections",
                 "getManagementDriverCash", "getManagementDriverCashTransactions"}, {"d1"}),
           Rows({"getCustomer", "getCustomerReceivers", "getWallet",
                 "getWalletTransactions"}, {"c1"}),
           Rows({"getSettlement"}, {"s1", "s3"}),
           Rows({"getCatalogue"}, Catalogues)}

AssignmentActions ==
    {"assignOrder", "reassignOrder", "unassignOrder", "readyOrder", "rescheduleOrder"}
ParcelActions ==
    {"assignParcelCollectionDriver", "reassignParcelCollectionDriver",
     "rescheduleParcelCollection", "receiveParcelAtCompany"}

OrderMutations ==
    UNION {Rows(AssignmentActions \union ParcelActions \union {"updateOrder", "cancelOrder"},
                Known),
           {<<"createOrder", "o3">>, <<"bulkAssignOrders", ALL>>}}

MoneyMutations ==
    UNION {Rows({"resolveCollectionDifference", "voidReleaseCollection",
                 "reverseFinancialRelease", "reverseWalletTransaction",
                 "reverseDriverCashTransaction", "reverseCompanyTransaction"}, Known),
           Rows({"adjustWallet", "createPayout", "reverseWalletTransaction"}, {"c1", "c2"}),
           Rows({"adjustDriverCash", "reverseDriverCashTransaction"}, {"d1", "d2"}),
           Rows({"adjustCompanyFinance", "reverseCompanyTransaction"}, {ALL}),
           Rows({"createSettlement"}, {"s2", "s4"}),
           Rows({"reverseSettlement"}, {"s1", "s2"}),
           {<<"reverseDriverCashTransaction", "s3">>}}

AccountMutations ==
    UNION {Rows({"updateCustomer"}, {"c1", "c2"}), Rows({"updateDriver"}, {"d1", "d2"}),
           {<<"createCustomer", "c3">>, <<"createDriver", "d3">>},
           Rows({"updateCatalogue"}, Catalogues)}

DriverQueries ==
    UNION {Rows({"getDriverJobs", "getDriverWorkHistory", "getDriverOrders",
                 "getDriverCash"}, {"d1"}),
           Rows({"getCollectionJob", "getDeliveryJob", "getDriverOrder"}, {"o1"}),
           Rows({"getDriverReasons"}, Catalogues)}

DriverMutations ==
    Rows({"pickupDriverOrder", "scanPickupDriverOrder", "startDriverOrderDelivery",
          "failDriverOrder", "deliverDriverOrder", "markParcelCollected",
          "reportParcelCollectionFailed"}, Known)

(***************************************************************************)
(* Every query beside every mutation of the same session that writes a row *)
(* it reads.  The sessions are the management's and a driver's.            *)
(***************************************************************************)
Concerned(pairs) == {p \in pairs : Concerns(p[2], p[1])}

SessionPairs ==
    Concerned((ListQueries \union DetailQueries)
                  \X UNION {OrderMutations, MoneyMutations, AccountMutations})
        \union Concerned(DriverQueries \X DriverMutations)

-----------------------------------------------------------------------------
(***************************************************************************)
(* The pairs on which the client's tags miss: the screen keeps what it     *)
(* showed before the write.                                                *)
(***************************************************************************)
Beside(queries, mutations) ==
    {p \in SessionPairs : p[1][1] \in queries /\ p[2][1] \in mutations}

\* Counters of orders and pending money, beside the actions on orders.
CountersMissed ==
    Beside({"getCustomers", "getCustomer", "getWallets", "getWallet",
            "getWalletCustomerSummaries"}, {"createOrder", "updateOrder", "cancelOrder"})
        \union Beside({"getDriver"}, {"createOrder", "assignOrder", "reassignOrder",
                                     "unassignOrder", "bulkAssignOrders", "cancelOrder"})

\* Reports and the dashboard, beside the writes that move their counts.
ReportsMissed ==
    UNION {Beside({"getOrderReport"}, ParcelActions \union {"readyOrder"}),
           Beside({"getDriverReport"}, ParcelActions \ {"rescheduleParcelCollection"}),
           Beside({"getDriverReport", "getDashboard"}, {"createDriver", "updateDriver"}),
           Beside({"getCustomerReport"}, {"createCustomer", "updateCustomer"})}

\* The current name of a customer or a driver, shown with something else.
OwnName == {<<<<"getDriverCurrentOrders", "d1">>, <<"updateDriver", "d1">>>>}
NamesMissed ==
    UNION {Beside({"getOrders", "getOrder", "getDriverCurrentOrders"},
                  {"updateCustomer", "updateDriver"}) \ OwnName,
           Beside({"getWallets"}, {"createCustomer", "updateCustomer"}),
           Beside({"getWallet"}, {"updateCustomer"})}

\* The page of an order, a driver or a settlement, beside a write made
\* through another one.
OwnReversal == {<<<<"getSettlement", "s1">>, <<"reverseSettlement", "s1">>>>}
DetailsMissed ==
    UNION {Beside({"getOrder", "getOrderHistory", "getOrderTimeline"}, {"bulkAssignOrders"}),
           Beside({"getDriverParcelCollectionHistory"}, {"createOrder", "cancelOrder"}),
           Beside({"getSettlement"},
                  {"createSettlement", "reverseSettlement", "resolveCollectionDifference",
                   "voidReleaseCollection", "reverseDriverCashTransaction"}) \ OwnReversal}

\* Only when the answer is lost that names the driver, the customer or the order.
AnswersMissed ==
    Beside({"getOutstandingCollections", "getWallet"}, {"resolveCollectionDifference"})
        \union Beside({"getDeliveryJob", "getDriverOrder"}, {"scanPickupDriverOrder"})

Overlooked ==
    UNION {CountersMissed, ReportsMissed, NamesMissed, DetailsMissed, AnswersMissed}

(***************************************************************************)
(* No pair is left out of ScreenCases that the tags do not miss, at least  *)
(* when the answer is lost.                                                *)
(***************************************************************************)
ASSUME OverlookedAssumption ==
    \A p \in Overlooked : \E answered \in BOOLEAN :
        Provides(p[1]) \intersect Invalidates(p[2], answered) = {}

OneCase(p) == <<{p[1]}, {p[2]}>>

\* Two mutations, and two queries of which each holds back the tags of the other.
Pairs(set) == {{x, y} : x, y \in set}
CrowdedCases ==
    ({{<<"getParcelCollection", "o1">>}} \X Pairs(Rows({"assignOrder", "cancelOrder",
                                                   "receiveParcelAtCompany"}, {"o1"})))
        \union {<<{<<"getOutstandingCollections", "d1">>, <<"getOrderFinancialRelease", "o1">>},
                  {<<"reverseSettlement", "s1">>, <<"adjustDriverCash", "d1">>}>>}

ScreenCases == {OneCase(p) : p \in SessionPairs \ Overlooked} \union CrowdedCases
OverlookedCases == {OneCase(p) : p \in Overlooked}

-----------------------------------------------------------------------------
(***************************************************************************)
(* The forms.  A value typed into the Create Order form differs from every *)
(* profile and from every saved receiver, except that fields may also be   *)
(* cleared.                                                                *)
(***************************************************************************)
\* p1 and p2 belong to two people; old was stored before the format rule.
KeyOfPhone == p1 :> k1 @@ p2 :> k2 @@ old :> k2

Row(phone, extra, payment) ==
    payment @@ ("customer" :> c1 @@ "area" :> a1 @@ "phone" :> phone
                @@ "details" :> i1 @@ "extra" :> extra
                @@ "description" :> t1 @@ "status" :> "OUT_FOR_DELIVERY"
                @@ "toCollect" :> AmountToCollect(payment))

Unpaid == [type |-> "CASH_ON_DELIVERY", orderAmount |-> 2, deliveryFee |-> 1,
           prepaidOrder |-> 0, prepaidFee |-> 0,
           prepaidMethod |-> NoMethod, collectionMethod |-> m1]
Paid == [type |-> "ALREADY_PAID", orderAmount |-> 1, deliveryFee |-> 1,
         prepaidOrder |-> 1, prepaidFee |-> 0,
         prepaidMethod |-> m1, collectionMethod |-> m1]
PartlyPaid == [type |-> "PARTIALLY_PAID", orderAmount |-> 2, deliveryFee |-> 0,
               prepaidOrder |-> 1, prepaidFee |-> 0,
               prepaidMethod |-> m1, collectionMethod |-> m1]

OneRow == {Row(p1, x1, Unpaid)}
ThreeRows == {Row(p1, x1, Unpaid), Row(old, NoExtra, Paid), Row(p1, NoExtra, PartlyPaid)}

DeliveredOrNot ==
    {<<"OUT_FOR_DELIVERY", "DELIVERED">>, <<"OUT_FOR_DELIVERY", "FAILED_DELIVERY">>}

\* What is typed into the Edit Order form in one go, a field or two at a time.
FormEdits ==
    {[orderAmount |-> 1, extra |-> x1], [prepaidOrder |-> 2, extra |-> NoExtra],
     [deliveryFee |-> 0, collectionMethod |-> m2], [type |-> "CASH_ON_DELIVERY"],
     [type |-> "ALREADY_PAID", prepaidMethod |-> m1],
     [type |-> "PARTIALLY_PAID", prepaidOrder |-> 1, prepaidMethod |-> m2],
     [phone |-> p2], [phone |-> old], [details |-> i2, description |-> t2],
     [customer |-> c2]}

FewEdits == {[phone |-> p2], [details |-> i2, description |-> t2], [customer |-> c2]}

PartialBodies ==
    {[orderAmount |-> 1],
     [prepaidOrder |-> 1, prepaidMethod |-> m1, type |-> "PARTIALLY_PAID"],
     [phone |-> p2, details |-> i2]}

\* Beside the dialog, a caller that sends a few fields.
Raced == INSTANCE OrderEditing WITH
    Callers <- {api}, Slots <- {s1, s2}, StoredOrders <- OneRow, Edits <- FewEdits,
    Deactivatable <- {}

-----------------------------------------------------------------------------
Profiles == c1 :> [contact |-> n1, alt |-> alt1, collectionArea |-> a1]
            @@ c2 :> [contact |-> n2, alt |-> NoText, collectionArea |-> NoText]

TypedFrom(some) == [f \in {"phone", "details", "area", "extra", "contact", "alt",
                           "collectionArea", "notes"} |->
                       IF f \in DOMAIN some THEN some[f] ELSE {}]

NothingSaved == [c \in {c1, c2} |-> [k \in {k1, k2} |-> NoReceiver]]
OneSaved ==
    c1 :> (k1 :> [phone |-> p1, details |-> i1, area |-> a1, extra |-> x1]
           @@ k2 :> NoReceiver)

\* The receiver is filled in once, the collection fields change.
CollectionTyped ==
    TypedFrom([phone |-> {p1}, details |-> {i3}, area |-> {a1},
               contact |-> {n3}, alt |-> {NoText},
               collectionArea |-> {a2}])

OneUnpaid == {Unpaid}

\* A saved receiver does the rest; the payment changes, and another page follows.
Paying == INSTANCE OrderCreation WITH
    Drivers <- {e1}, InitReceivers <- OneSaved,
    Customers <- {c1}, Profile <- [c \in {c1} |-> Profile[c]],
    PaymentEdits <- {[type |-> "ALREADY_PAID"], [orderAmount |-> 0], [prepaidFee |-> 1],
                     [prepaidMethod |-> m1]},
    Retirable <- {e1}, Typed <- TypedFrom(<< >>), MaxPages <- 2

-----------------------------------------------------------------------------
AloneInit ==
    /\ part # "job" => job.type = "DELIVERY"
    /\ part # "job" \/ job.type = "COLLECTION" => job.amount = 0 /\ job.method = NoJobMethod
    /\ part # "page" => orderNow.parcel = "AWAITING_ASSIGNMENT"
    /\ part \notin {"typed", "raced"} => order = Row(p1, x1, Unpaid)

PartsInit ==
    /\ part \in {"cache", "job", "page", "typed", "raced", "collected", "paying"}
    /\ part # "cache" => /\ watched = {<<"getOrder", "o1">>}
                         /\ intents = {<<"cancelOrder", "o1">>}
    /\ CacheInit /\ JobInit /\ DetailInit
    /\ IF part = "raced" THEN Raced!Init ELSE Init
    /\ IF part = "paying" THEN Paying!PageInit ELSE PageInit
    /\ AloneInit

CacheStep == CacheNext /\ UNCHANGED <<jobVars, detailVars, vars, pageVars>>
JobStep == JobNext /\ UNCHANGED <<cacheVars, detailVars, vars, pageVars>>

\* A scope has one request under way at a time (DetailBusy), so it does not
\* matter which slot is whose: l1 is the page's and l2 the section's.
OwnSlots ==
    \A s \in {l1, l2} : calls[s].at # "free" =>
        ScopeOf(calls[s].action) = IF s = l1 THEN "page" ELSE "section"

DetailStep == DetailNext /\ OwnSlots' /\ UNCHANGED <<cacheVars, jobVars, vars, pageVars>>

FormStep == /\ UNCHANGED <<cacheVars, jobVars, detailVars>>
            /\ \/ part = "typed" /\ Next /\ UNCHANGED pageVars
               \/ part = "raced" /\ Raced!Next /\ UNCHANGED pageVars
               \/ part = "collected" /\ PageNext /\ UNCHANGED vars
               \/ part = "paying" /\ Paying!PageNext /\ UNCHANGED vars

PartsNext ==
    /\ UNCHANGED part
    /\ \/ part = "cache" /\ CacheStep
       \/ part = "job" /\ JobStep
       \/ part = "page" /\ DetailStep
       \/ FormStep

PartsSpec ==
    PartsInit /\ [][PartsNext]_<<part, cacheVars, jobVars, detailVars, vars, pageVars>>

-----------------------------------------------------------------------------
\* What is recorded is what was confirmed on the page: a delivery with the
\* amount the driver saw or a reason for the difference, and the removal of
\* the very driver who was shown.
RecordedAsShown == DifferenceExplained /\ UnassignRemovesShownDriver
=============================================================================
