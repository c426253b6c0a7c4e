--------------------------- MODULE OrderLifecycle ---------------------------
(***************************************************************************)
(* The whole operational life of an order: the parcel's collection and the *)
(* delivery workflow over the same rows, with the two handlers that reach  *)
(* into both, creation and cancellation.                                   *)
(***************************************************************************)
EXTENDS ParcelCollection, DeliveryWorkflow

ReadCreate(r, o) ==
    \E intake \in IntakeMethods, d \in DriverRefs :
        /\ orders[o] = NoOrder
        /\ d # NoDriver => assertDriverEligibleForAssignment(d)
        /\ Begin(r, "createOrder", {o}, d, intake,
                 IF d = NoDriver THEN <<>>
                 ELSE IF intake = "DRIVER_COLLECTION"
                      THEN <<"eligibility", "noCollection">>
                      ELSE <<"eligibility">>)

\* The order row, its first history row and, when a driver was chosen, that
\* driver's assignment: to collect the parcel, or to deliver it when the
\* parcel is already at the company.
createOrder(r) ==
    /\ AtClaim(r, "createOrder")
    /\ LET o == Target(r)
           d == requests[r].driver
           received == [from |-> "NONE", to |-> "RECEIVED", at |-> 0]
           entered == [from |-> "RECEIVED", to |-> "ASSIGNED", at |-> 0]
       IN /\ orders[o] = NoOrder
          /\ \E amount \in Amounts :
             LET created == [NoOrder EXCEPT !.status = "RECEIVED",
                                            !.amount = amount]
                 present == [created EXCEPT !.parcel = "RECEIVED_AT_COMPANY"]
             IN \/ /\ requests[r].intake = "ALREADY_AT_COMPANY"
                   /\ d = NoDriver
                   /\ orders' = [orders EXCEPT ![o] = present]
                   /\ history' = [history EXCEPT ![o] = <<received>>]
                   /\ UNCHANGED <<assignments, collections>>
                \/ /\ requests[r].intake = "ALREADY_AT_COMPANY"
                   /\ d # NoDriver
                   /\ orders' = [orders EXCEPT ![o] =
                          [present EXCEPT !.status = "ASSIGNED", !.driver = d]]
                   /\ history' = [history EXCEPT ![o] = <<received, entered>>]
                   /\ assignments' = [assignments EXCEPT ![o] = Opened(@, d)]
                   /\ UNCHANGED collections
                \/ /\ requests[r].intake = "DRIVER_COLLECTION"
                   /\ d = NoDriver
                   /\ orders' = [orders EXCEPT ![o] = created]
                   /\ history' = [history EXCEPT ![o] = <<received>>]
                   /\ UNCHANGED <<assignments, collections>>
                \/ /\ requests[r].intake = "DRIVER_COLLECTION"
                   /\ d # NoDriver
                   /\ orders' = [orders EXCEPT ![o] =
                          [created EXCEPT !.parcel = "ASSIGNED",
                                          !.collector = d]]
                   /\ history' = [history EXCEPT ![o] = <<received>>]
                   /\ collections' = [collections EXCEPT ![o] = Opened(@, d)]
                   /\ UNCHANGED assignments
    /\ Finish(r)
    /\ UNCHANGED <<active, attempts, pickups>>

CANCELLABLE_STATUSES ==
    {"RECEIVED", "READY_FOR_PICKUP", "ASSIGNED", "FAILED_DELIVERY",
     "RESCHEDULED"}
CANCEL_STATUSES_WITH_ACTIVE_ASSIGNMENT ==
    {"ASSIGNED", "FAILED_DELIVERY", "RESCHEDULED"}

closesParcelCollectionAssignment(row) == row.parcel = "ASSIGNED"

hasActiveAssignment(row) ==
    /\ row.status \in CANCEL_STATUSES_WITH_ACTIVE_ASSIGNMENT
    /\ ~(row.status = "RESCHEDULED" /\ row.driver = NoDriver)

ReadCancel(r, o) ==
    LET row == orders[o] IN
    /\ row.status \in CANCELLABLE_STATUSES
    /\ row.parcel # "COLLECTED_FROM_SENDER"
    /\ ~closesParcelCollectionAssignment(row) => row.collector = NoDriver
    /\ ~hasActiveAssignment(row) => row.driver = NoDriver
    /\ Begin(r, "cancelOrder", {o}, NoDriver, "NONE",
             (IF closesParcelCollectionAssignment(row)
              THEN <<"collection">> ELSE <<>>) \o
             (IF hasActiveAssignment(row) THEN <<"assignment">> ELSE <<>>))

\* mutant: the claim does not restate the parcel's stage
CancelClaimWithoutParcel(r) == ClaimStatusAndDriver(r)

CancelClaim(r) ==
    /\ ClaimStatusAndDriver(r)
    /\ orders[Target(r)].parcel = Seen(r).parcel

\* The parcel's stage is left as it was; there is no cancelled stage.
cancelOrder(r) ==
    /\ AtClaim(r, "cancelOrder")
    /\ CancelClaim(r)
    /\ LET o == Target(r)
           row == orders[o]
           q == requests[r]
           closesDelivery == hasActiveAssignment(Seen(r))
           closesParcel == closesParcelCollectionAssignment(Seen(r))
       IN /\ closesDelivery => assignments[o][q.row].current
          /\ closesParcel => collections[o][q.job].current
          /\ Advance(r, [row EXCEPT
                 !.status = "CANCELLED",
                 !.driver = IF closesDelivery THEN NoDriver ELSE @,
                 !.collector = IF closesParcel THEN NoDriver ELSE @])
          /\ assignments' = IF closesDelivery
                 THEN [assignments EXCEPT ![o] = Ended(@, q.row)]
                 ELSE assignments
          /\ collections' = IF closesParcel
                 THEN [collections EXCEPT ![o] = Ended(@, q.job)]
                 ELSE collections
    /\ Finish(r)
    /\ UNCHANGED <<active, attempts, pickups>>

-----------------------------------------------------------------------------

Init ==
    /\ active = [d \in Drivers |-> TRUE]
    /\ orders = [o \in Orders |-> NoOrder]
    /\ assignments = [o \in Orders |-> <<>>]
    /\ collections = [o \in Orders |-> <<>>]
    /\ history = [o \in Orders |-> <<>>]
    /\ attempts = [o \in Orders |-> <<>>]
    /\ pickups = [o \in Orders |-> <<>>]
    /\ requests = [r \in Requests |-> Idle]

Read(r) ==
    \/ \E o \in Orders : ReadCreate(r, o)
    \/ \E o \in Orders : ReadCancel(r, o)
    \/ \E o \in Orders : ReadManagement(r, o)
    \/ \E o \in Orders : ReadDriver(r, o)
    \/ \E o \in Orders : ReadParcel(r, o)
    \/ \E targets \in (SUBSET Orders) \ {{}} : ReadAssign(r, targets)

Check(r) ==
    \/ CheckEligibility(r)
    \/ assertConsistentCurrentAssignment(r)
    \/ assertConsistentCurrentParcelCollectionAssignment(r)
    \/ assertNoCurrentParcelCollectionAssignment(r)
    \/ ReadEntered(r)

Commit(r) ==
    \/ createOrder(r)
    \/ cancelOrder(r)
    \/ CommitParcel(r)
    \/ CommitDelivery(r)

Next ==
    \/ \E r \in Requests : Read(r) \/ Check(r) \/ Commit(r) \/ Abandon(r)
    \/ \E d \in Deactivatable : updateDriver(d)

Spec == Init /\ [][Next]_vars

-----------------------------------------------------------------------------
(* Properties.                                                               *)

\* The rows have the types of their columns.
TypeOK ==
    /\ active \in [Drivers -> BOOLEAN]
    /\ orders \in [Orders -> OrderRow]
    /\ assignments \in [Orders -> Seq(AssignmentRow)]
    /\ collections \in [Orders -> Seq(AssignmentRow)]
    /\ history \in [Orders -> Seq(HistoryRow)]
    /\ attempts \in [Orders -> Seq(AttemptRow)]
    /\ pickups \in [Orders -> Seq(PickupRow)]

\* The driver columns of an order and its assignment tables never disagree: no
\* driver, no current row; a driver, exactly one current row, and it is that
\* driver's.  The handlers fail with an integrity error when they meet
\* anything else (isAssignmentStateConsistent), so no interleaving of them may
\* produce it.
PointerMatches(d, rows) ==
    IF d = NoDriver THEN CurrentRows(rows) = {} ELSE SoleCurrent(rows, d)

AssignmentsConsistent == \A o \in Orders :
    /\ PointerMatches(orders[o].driver, assignments[o])
    /\ PointerMatches(orders[o].collector, collections[o])

\* The status says whether there is a delivery driver, the stage whether there
\* is a collection driver, and delivery starts only with the parcel at the
\* company.  (A RESCHEDULED order is driverless after an unassign; an order
\* cancelled while ASSIGNED for collection keeps that stage without a
\* driver.)  readyOrder, reassignOrder and cancelOrder answer 500 otherwise.
DriverMatchesStatus == \A o \in Orders :
    LET row == orders[o] IN
    /\ row.status \in {"ASSIGNED", "PICKED_UP", "OUT_FOR_DELIVERY",
                        "FAILED_DELIVERY", "DELIVERED"} => row.driver # NoDriver
    /\ row.status \in {"RECEIVED", "READY_FOR_PICKUP", "CANCELLED"}
           => row.driver = NoDriver
    /\ row.driver # NoDriver => isParcelReadyForDelivery(row.parcel)
    /\ row.collector # NoDriver
           => row.parcel \in {"ASSIGNED", "COLLECTED_FROM_SENDER"}
    /\ row.parcel \in {"ASSIGNED", "COLLECTED_FROM_SENDER"}
           => row.collector # NoDriver \/ row.status = "CANCELLED"

\* order_status_history tells the whole story without a gap: each row starts
\* where the one before it ended, the first at the creation and the last at
\* the order's status.  Several handlers write rows from values they read
\* before the transaction.
HistoryIsAChain == \A o \in Orders : LET rows == history[o] IN
    /\ orders[o].status = IF rows = <<>> THEN "NONE" ELSE rows[Len(rows)].to
    /\ \A i \in DOMAIN rows :
           rows[i].from = IF i = 1 THEN "NONE" ELSE rows[i - 1].to

\* The history rows that end a delivery attempt, and which attempt row i ends.
Outcome(row) == IF row.to = "DELIVERED" THEN "DELIVERED" ELSE "FAILED"
Ends(rows) == {i \in DOMAIN rows : rows[i].from = "OUT_FOR_DELIVERY"}
Nth(rows, i) == Cardinality({j \in Ends(rows) : j <= i})

\* Every delivery attempt has its row in delivery_attempts, in the order the
\* attempts ended, and a delivered order has exactly one DELIVERED attempt,
\* the last: a /fail racing a /deliver never records both.
AttemptsMatchHistory == \A o \in Orders :
    /\ Len(attempts[o]) = Cardinality(Ends(history[o]))
    /\ \A i \in Ends(history[o]) :
           attempts[o][Nth(history[o], i)].outcome = Outcome(history[o][i])
    /\ \A k \in DOMAIN attempts[o] :
           attempts[o][k].outcome = "DELIVERED" => k = Len(attempts[o])

\* What the driver was asked to collect is what the delivered order still
\* says: an edit is either seen by the delivery or refused by it.
DeliveredAmountStands == \A o \in Orders :
    orders[o].status = "DELIVERED" =>
        attempts[o][Len(attempts[o])].expected = orders[o].amount

\* A parcel is collected from the sender once, after which it is with its
\* collector or at the company; the other attempts failed
\* (parcel_collection_attempts: one COLLECTED per order).
CollectedOnce == \A o \in Orders :
    LET collected == {k \in DOMAIN pickups[o] :
                         pickups[o][k].outcome = "COLLECTED"} IN
    /\ \A k \in collected : k = Len(pickups[o])
    /\ orders[o].parcel = "COLLECTED_FROM_SENDER" =>
           /\ collected # {}
           /\ pickups[o][Len(pickups[o])].driver = orders[o].collector
    /\ collected # {} => orders[o].parcel \in {"COLLECTED_FROM_SENDER",
                                              "RECEIVED_AT_COMPANY"}

\* While a driver is in possession of the parcel nobody else becomes its
\* driver, and only a request of that driver moves the order on.
InPossession(row) == row.status \in {"PICKED_UP", "OUT_FOR_DELIVERY"}

PossessionStands(o) ==
    /\ InPossession(orders[o]) => orders'[o].driver = orders[o].driver
    /\ InPossession(orders'[o]) /\ orders'[o].status # orders[o].status =>
           \E r \in Requests :
               /\ requests[r] # Idle /\ requests'[r] = Idle
               /\ o \in requests[r].targets
               /\ requests[r].driver = orders[o].driver

DriverKeepsPossession == [][\A o \in Orders : PossessionStands(o)]_vars

\* An order is never cancelled while a collection driver is on the way with
\* its parcel, and DELIVERED and CANCELLED are final.
CancelStep(o) ==
    /\ orders'[o].status = "CANCELLED" /\ orders[o].status # "CANCELLED" =>
           orders[o].parcel # "COLLECTED_FROM_SENDER"
    /\ orders[o].status \in ORDER_TERMINAL_STATUSES =>
           orders'[o].status = orders[o].status

CancelNeverStrandsParcel == [][\A o \in Orders : CancelStep(o)]_vars

\* The lifecycle implements the journey of the parcel.
PlaceOf(o) ==
    LET row == orders[o]
        withDriver == row.driver # NoDriver /\ row.status \in
            {"PICKED_UP", "OUT_FOR_DELIVERY", "FAILED_DELIVERY", "RESCHEDULED"}
    IN CASE row.parcel = "COLLECTED_FROM_SENDER" ->
              [at |-> "inbound", with |-> row.collector]
         [] row.parcel = "RECEIVED_AT_COMPANY" /\ withDriver ->
              [at |-> "outbound", with |-> row.driver]
         [] row.parcel = "RECEIVED_AT_COMPANY" /\ row.status = "DELIVERED" ->
              [at |-> "receiver", with |-> NoDriver]
         [] row.parcel = "RECEIVED_AT_COMPANY" /\ ~withDriver
                /\ row.status # "DELIVERED" ->
              [at |-> "company", with |-> NoDriver]
         [] OTHER -> [at |-> "sender", with |-> NoDriver]

Places == [o \in Orders |-> PlaceOf(o)]

Journey == INSTANCE ParcelJourney WITH Parcels <- Orders, place <- Places

\* Every behaviour of the handlers is a journey of each parcel.
ImplementsJourney == Journey!Spec

-----------------------------------------------------------------------------
(* What comments and contracts of the repository say and the code does not   *)
(* guarantee.                                                                *)

\* A driver deactivated before an assignment commits is not assigned
\* (assertDriverEligibleForAssignment: "no row lock needed").
AssignsOnlyEligible == [][\A o \in Orders :
    /\ orders'[o].driver \notin {orders[o].driver, NoDriver}
           => active[orders'[o].driver]
    /\ orders'[o].collector \notin {orders[o].collector, NoDriver}
           => active[orders'[o].collector]]_vars
=============================================================================
