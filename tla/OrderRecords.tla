---------------------------- MODULE OrderRecords ----------------------------
(***************************************************************************)
(* The rows an order's operational life is kept in, and the shape every    *)
(* handler of orders, driver-orders and parcel-collection shares:          *)
(*                                                                         *)
(*   1. read the order, outside any transaction, and reject early;         *)
(*   2. further reads (assignment row, history, driver eligibility), each  *)
(*      a statement of its own;                                            *)
(*   3. a transaction whose first write is a conditional UPDATE of the     *)
(*      order (the claim) that restates what step 1 saw.  The claim locks  *)
(*      the row and re-evaluates its condition against the committed row,  *)
(*      so the claim and the writes that follow it are one action here.    *)
(*                                                                         *)
(* A request carries what its handler has read and has yet to read.  It    *)
(* may end at any point without effect: a failed check, a claim that       *)
(* matches no row (409, everything rolled back), or a lost connection.     *)
(***************************************************************************)
EXTENDS Integers, Sequences, FiniteSets

CONSTANTS
    Orders,          \* identities of orders rows
    Drivers,         \* identities of drivers rows
    NoDriver,        \* a NULL driver reference
    Requests,        \* requests the server handles at the same time
    Amounts,         \* values amount_to_collect takes
    IntakeMethods,   \* the ParcelIntakeMethods orders are created with
    Deactivatable,   \* drivers an administrator may deactivate
    MaxHistory,      \* bound: order_status_history rows of an order
    MaxAssignments   \* bound: rows of an order in each assignment table

ASSUME RecordsAssumption ==
    /\ NoDriver \notin Drivers
    /\ Amounts \subseteq Nat
    /\ IntakeMethods \subseteq {"ALREADY_AT_COMPANY", "DRIVER_COLLECTION"}
    /\ Deactivatable \subseteq Drivers
    /\ MaxHistory \in Nat /\ MaxAssignments \in Nat

VARIABLES
    active,        \* drivers.is_active, which the eligibility check reads
    orders,        \* the operational columns of orders
    assignments,   \* order_assignments of each order, oldest first
    collections,   \* parcel_collection_assignments of each order
    history,       \* order_status_history of each order, in commit order
    attempts,      \* delivery_attempts of each order, by attempt_number
    pickups,       \* parcel_collection_attempts of each order
    requests       \* the handlers in flight

tables == <<orders, assignments, collections, history, attempts, pickups>>
vars == <<active, tables, requests>>

OrderStatuses ==
    {"RECEIVED", "READY_FOR_PICKUP", "ASSIGNED", "PICKED_UP",
     "OUT_FOR_DELIVERY", "DELIVERED", "FAILED_DELIVERY", "RESCHEDULED",
     "CANCELLED"}

\* "NONE" stands for no row: an order not yet created, the NULL from_status of
\* the first history row.
Statuses == OrderStatuses \cup {"NONE"}

ParcelStatuses ==
    {"AWAITING_ASSIGNMENT", "ASSIGNED", "COLLECTED_FROM_SENDER", "FAILED",
     "RESCHEDULED", "RECEIVED_AT_COMPANY"}

ORDER_TERMINAL_STATUSES == {"DELIVERED", "CANCELLED"}
ORDER_DELIVERY_ASSIGNABLE_STATUSES ==
    {"RECEIVED", "READY_FOR_PICKUP", "RESCHEDULED"}
isParcelReadyForDelivery(parcel) == parcel = "RECEIVED_AT_COMPANY"

DriverRefs == Drivers \cup {NoDriver}

\* startedAt is out_for_delivery_at: the history row of the start it records
\* (0 for NULL), which tells one start from another as a timestamp does.  An
\* ALREADY_AT_COMPANY parcel is RECEIVED_AT_COMPANY from creation, a status no
\* parcel handler accepts, so the intake method needs no field.
OrderRow == [status : Statuses, driver : DriverRefs, amount : Nat,
             startedAt : Nat, parcel : ParcelStatuses, collector : DriverRefs]

NoOrder == [status |-> "NONE", driver |-> NoDriver, amount |-> 0,
            startedAt |-> 0, parcel |-> "AWAITING_ASSIGNMENT",
            collector |-> NoDriver]

AssignmentRow == [driver : Drivers, current : BOOLEAN]

\* at is created_at, as the number of rows committed before it.  Only the
\* search for the row that entered ASSIGNED orders by it; it is 0 elsewhere.
HistoryRow == [from : Statuses, to : OrderStatuses, at : Nat]

AttemptRow == [outcome : {"DELIVERED", "FAILED"}, driver : Drivers,
               expected : Nat, startedAt : Nat]
PickupRow == [outcome : {"COLLECTED", "FAILED"}, driver : Drivers]

Operations ==
    {"createOrder", "updateOrder", "assignOrder", "reassignOrder",
     "unassignOrder", "readyOrder", "rescheduleOrder", "cancelOrder",
     "pickupDriverOrder", "startDeliveryDriverOrder", "failDriverOrder",
     "deliverDriverOrder", "assignParcelCollectionDriver",
     "reassignParcelCollectionDriver", "rescheduleParcelCollection",
     "confirmReceivedAtCompany", "markCollectedFromSender",
     "failParcelCollection"}

Reads == {"assignment", "collection", "noCollection", "entered", "eligibility"}

\* targets are the orders of the request (several only for a bulk assign) and
\* seen the rows read for them; row, job and restore are what the later reads
\* found.
Request ==
    [op : Operations, targets : SUBSET Orders, driver : DriverRefs,
     intake : {"NONE", "ALREADY_AT_COMPANY", "DRIVER_COLLECTION"},
     seen : UNION {[T -> OrderRow] : T \in SUBSET Orders},
     since : UNION {[T -> Nat] : T \in SUBSET Orders},
     todo : Seq(Reads), row : Nat, job : Nat, restore : Statuses]

Idle == [op |-> "none"]

EntersAssigned ==
    {"createOrder", "assignOrder", "reassignOrder"}

\* Step 1 of a handler: the order rows as the last commit left them.  The
\* creation time of a history row lies between here and the commit, because
\* the transaction starts in between.
Begin(r, op, targets, d, intake, todo) ==
    /\ requests[r] = Idle
    /\ requests' = [requests EXCEPT ![r] =
           [op |-> op, targets |-> targets, driver |-> d, intake |-> intake,
            seen |-> [o \in targets |-> orders[o]],
            since |-> [o \in targets |-> IF op \in EntersAssigned
                                         THEN Len(history[o]) ELSE 0],
            todo |-> todo, row |-> 0, job |-> 0, restore |-> "NONE"]]
    /\ UNCHANGED <<active, tables>>

\* Step 2: the next read of request r is `read`.
Pending(r, read) ==
    /\ requests[r] # Idle
    /\ requests[r].todo # <<>>
    /\ Head(requests[r].todo) = read

Passed(r) == [requests[r] EXCEPT !.todo = Tail(@)]

\* Step 3: request r is at its claim.
AtClaim(r, op) ==
    /\ requests[r] # Idle
    /\ requests[r].op = op
    /\ requests[r].todo = <<>>

Finish(r) == requests' = [requests EXCEPT ![r] = Idle]

Abandon(r) ==
    /\ requests[r] # Idle
    /\ Finish(r)
    /\ UNCHANGED <<active, tables>>

-----------------------------------------------------------------------------
(* The rows read and written by more than one handler.                       *)

CurrentRows(rows) == {i \in DOMAIN rows : rows[i].current}

\* exactly one current row, and it is the driver's
SoleCurrent(rows, d) == \E i \in CurrentRows(rows) :
    /\ CurrentRows(rows) = {i}
    /\ rows[i].driver = d

Opened(rows, d) == Append(rows, [driver |-> d, current |-> TRUE])
Ended(rows, i) == [rows EXCEPT ![i].current = FALSE]

Moved(o, from, to, at) ==
    Append(history[o], [from |-> from, to |-> to, at |-> at])

RoomForHistory(o) == Len(history[o]) < MaxHistory

\* The order of the requests that have one.
Target(r) == CHOOSE o \in requests[r].targets : TRUE
Seen(r) == requests[r].seen[Target(r)]

assertDriverEligibleForAssignment(d) == active[d]

\* The check repeated inside the transaction, before the claim.  It takes no
\* lock on the driver.
CheckEligibility(r) ==
    /\ Pending(r, "eligibility")
    /\ assertDriverEligibleForAssignment(requests[r].driver)
    /\ requests' = [requests EXCEPT ![r] = Passed(r)]
    /\ UNCHANGED <<active, tables>>

\* The assignment row the handler goes on to use.  A mismatch is a concurrent
\* change (409): the committed state itself is never inconsistent.
assertConsistentCurrentAssignment(r) ==
    /\ Pending(r, "assignment")
    /\ LET rows == assignments[Target(r)] IN
       /\ SoleCurrent(rows, Seen(r).driver)
       /\ \E i \in CurrentRows(rows) :
              requests' = [requests EXCEPT ![r] = [Passed(r) EXCEPT !.row = i]]
    /\ UNCHANGED <<active, tables>>

assertConsistentCurrentParcelCollectionAssignment(r) ==
    /\ Pending(r, "collection")
    /\ LET rows == collections[Target(r)] IN
       /\ SoleCurrent(rows, Seen(r).collector)
       /\ \E i \in CurrentRows(rows) :
              requests' = [requests EXCEPT ![r] = [Passed(r) EXCEPT !.job = i]]
    /\ UNCHANGED <<active, tables>>

assertNoCurrentParcelCollectionAssignment(r) ==
    /\ Pending(r, "noCollection")
    /\ CurrentRows(collections[Target(r)]) = {}
    /\ requests' = [requests EXCEPT ![r] = Passed(r)]
    /\ UNCHANGED <<active, tables>>

\* PATCH /drivers/:id.  An administrator deactivates or reactivates a driver
\* whatever work the driver holds.
updateDriver(d) ==
    /\ active' = [active EXCEPT ![d] = ~@]
    /\ UNCHANGED <<tables, requests>>
=============================================================================
