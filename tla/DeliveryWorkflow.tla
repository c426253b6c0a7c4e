-------------------------- MODULE DeliveryWorkflow --------------------------
(***************************************************************************)
(* The order's way from the company to the receiver: assigned to a         *)
(* delivery driver (once its parcel is at the company), picked up, out for *)
(* delivery, delivered or failed, rescheduled; and the edits management    *)
(* makes meanwhile.  Money is left to FinancialRelease: here a delivery    *)
(* records what it expected to collect.                                    *)
(***************************************************************************)
EXTENDS OrderRecords

REASSIGNABLE_SOURCE_STATUSES == {"ASSIGNED", "RESCHEDULED"}
START_DELIVERY_SOURCE_STATUSES == {"PICKED_UP", "RESCHEDULED"}

assignable(o) ==
    /\ orders[o].driver = NoDriver
    /\ orders[o].status \in ORDER_DELIVERY_ASSIGNABLE_STATUSES
    /\ isParcelReadyForDelivery(orders[o].parcel)

\* A single assign is a bulk assign of one order.
ReadAssign(r, targets) == \E d \in Drivers :
    /\ assertDriverEligibleForAssignment(d)
    /\ \A o \in targets : assignable(o)
    /\ Begin(r, "assignOrder", targets, d, "NONE", <<"eligibility">>)

\* Management's handlers.
ReadManagement(r, o) ==
    \/ \E d \in Drivers \ {orders[o].driver} :
          /\ orders[o].status \in REASSIGNABLE_SOURCE_STATUSES
          /\ orders[o].driver # NoDriver
          /\ isParcelReadyForDelivery(orders[o].parcel)
          /\ assertDriverEligibleForAssignment(d)
          /\ Begin(r, "reassignOrder", {o}, d, "NONE",
                   <<"assignment", "eligibility">>)
    \/ /\ orders[o].driver # NoDriver
       /\ orders[o].status = "ASSIGNED"
       /\ Begin(r, "unassignOrder", {o}, NoDriver, "NONE",
                <<"assignment", "entered">>)
    \/ /\ orders[o].status = "RECEIVED"
       /\ orders[o].driver = NoDriver
       /\ Begin(r, "readyOrder", {o}, NoDriver, "NONE", <<>>)
    \/ /\ orders[o].status = "FAILED_DELIVERY"
       /\ Begin(r, "rescheduleOrder", {o}, NoDriver, "NONE", <<"assignment">>)
    \/ /\ orders[o].status \in OrderStatuses \ {"DELIVERED"}
       /\ Begin(r, "updateOrder", {o}, NoDriver, "NONE", <<>>)

\* The handlers of the order's own driver.  A scan of the barcode leads to
\* the same pickup.
ReadDriver(r, o) ==
    LET d == orders[o].driver
        own(op) == Begin(r, op, {o}, d, "NONE", <<"assignment">>)
    IN /\ d # NoDriver
       /\ \/ orders[o].status = "ASSIGNED" /\ own("pickupDriverOrder")
          \/ /\ orders[o].status \in START_DELIVERY_SOURCE_STATUSES
             /\ own("startDeliveryDriverOrder")
          \/ orders[o].status = "OUT_FOR_DELIVERY" /\ own("failDriverOrder")
          \/ orders[o].status = "OUT_FOR_DELIVERY" /\ own("deliverDriverOrder")

\* findFirst ... to_status ASSIGNED, created_at desc; equal times are broken by
\* a random id.
LatestEntry(rows, i) ==
    /\ rows[i].to = "ASSIGNED"
    /\ \A j \in DOMAIN rows : rows[j].to = "ASSIGNED" => rows[j].at <= rows[i].at

\* unassignOrder reads which status the order entered ASSIGNED from.
ReadEntered(r) ==
    /\ Pending(r, "entered")
    /\ \E i \in DOMAIN history[Target(r)] :
          LET row == history[Target(r)][i] IN
          /\ LatestEntry(history[Target(r)], i)
          /\ row.from \in ORDER_DELIVERY_ASSIGNABLE_STATUSES
          /\ requests' = [requests EXCEPT ![r] =
                              [Passed(r) EXCEPT !.restore = row.from]]
    /\ UNCHANGED <<active, tables>>

-----------------------------------------------------------------------------
(* The transactions.                                                         *)

\* Every order of the request or, when one claim fails, none.  The rows are
\* created no earlier than the orders were read.
assignOrder(r) ==
    /\ AtClaim(r, "assignOrder")
    /\ LET q == requests[r] IN
       /\ \A o \in q.targets :
             /\ orders[o].driver = NoDriver
             /\ orders[o].status = q.seen[o].status
             /\ orders[o].parcel = "RECEIVED_AT_COMPANY"
             /\ RoomForHistory(o) /\ Len(assignments[o]) < MaxAssignments
       /\ orders' = [o \in Orders |-> IF o \in q.targets
              THEN [orders[o] EXCEPT !.driver = q.driver, !.status = "ASSIGNED"]
              ELSE orders[o]]
       /\ assignments' = [o \in Orders |-> IF o \in q.targets
              THEN Opened(assignments[o], q.driver) ELSE assignments[o]]
       /\ \E at \in [q.targets -> 0 .. MaxHistory] :
             /\ \A o \in q.targets : at[o] \in q.since[o] .. Len(history[o])
             /\ history' = [o \in Orders |-> IF o \in q.targets
                    THEN Moved(o, q.seen[o].status, "ASSIGNED", at[o])
                    ELSE history[o]]
    /\ Finish(r)
    /\ UNCHANGED <<active, collections, attempts, pickups>>

\* mutant: the claim restates the driver and not the status
ReassignInAnyStatus(r) ==
    /\ AtClaim(r, "reassignOrder")
    /\ LET o == Target(r)
           i == requests[r].row
           from == Seen(r).status
       IN /\ orders[o].driver = Seen(r).driver
          /\ orders[o].parcel = "RECEIVED_AT_COMPANY"
          /\ assignments[o][i].current
          /\ Len(assignments[o]) < MaxAssignments
          /\ orders' = [orders EXCEPT ![o].driver = requests[r].driver,
                                      ![o].status = "ASSIGNED"]
          /\ assignments' = [assignments EXCEPT ![o] =
                                 Opened(Ended(@, i), requests[r].driver)]
          /\ IF from = "RESCHEDULED"
             THEN /\ RoomForHistory(o)
                  /\ history' = [history EXCEPT ![o] =
                         Moved(o, from, "ASSIGNED", Len(@))]
             ELSE UNCHANGED history
    /\ Finish(r)
    /\ UNCHANGED <<active, collections, attempts, pickups>>

\* ASSIGNED to ASSIGNED is no transition and leaves no history row.
reassignOrder(r) ==
    /\ AtClaim(r, "reassignOrder")
    /\ LET o == Target(r)
           i == requests[r].row
           from == Seen(r).status
       IN /\ orders[o].status = from
          /\ orders[o].driver = Seen(r).driver
          /\ orders[o].parcel = "RECEIVED_AT_COMPANY"
          /\ assignments[o][i].current
          /\ Len(assignments[o]) < MaxAssignments
          /\ orders' = [orders EXCEPT ![o].driver = requests[r].driver,
                                      ![o].status = "ASSIGNED"]
          /\ assignments' = [assignments EXCEPT ![o] =
                                 Opened(Ended(@, i), requests[r].driver)]
          /\ \/ /\ from = "RESCHEDULED"
                /\ RoomForHistory(o)
                /\ \E at \in requests[r].since[o] .. Len(history[o]) :
                       history' = [history EXCEPT ![o] =
                                       Moved(o, from, "ASSIGNED", at)]
             \/ from = "ASSIGNED" /\ UNCHANGED history
    /\ Finish(r)
    /\ UNCHANGED <<active, collections, attempts, pickups>>

unassignOrder(r) ==
    /\ AtClaim(r, "unassignOrder")
    /\ LET o == Target(r)
           i == requests[r].row
           to == requests[r].restore
       IN /\ orders[o].status = "ASSIGNED"
          /\ orders[o].driver = Seen(r).driver
          /\ assignments[o][i].current
          /\ RoomForHistory(o)
          /\ orders' = [orders EXCEPT ![o].driver = NoDriver, ![o].status = to]
          /\ assignments' = [assignments EXCEPT ![o] = Ended(@, i)]
          /\ history' = [history EXCEPT ![o] = Moved(o, "ASSIGNED", to, 0)]
    /\ Finish(r)
    /\ UNCHANGED <<active, collections, attempts, pickups>>

\* A transition that changes the order's row alone.
Advance(r, row) ==
    LET o == Target(r) IN
    /\ RoomForHistory(o)
    /\ orders' = [orders EXCEPT ![o] = row]
    /\ history' = [history EXCEPT ![o] =
                       Moved(o, Seen(r).status, row.status, 0)]

readyOrder(r) ==
    /\ AtClaim(r, "readyOrder")
    /\ orders[Target(r)].status = "RECEIVED"
    /\ orders[Target(r)].driver = NoDriver
    /\ Advance(r, [orders[Target(r)] EXCEPT !.status = "READY_FOR_PICKUP"])
    /\ Finish(r)
    /\ UNCHANGED <<active, assignments, collections, attempts, pickups>>

\* mutant: the claim restates the driver and not the status
ClaimDriver(r) == orders[Target(r)].driver = Seen(r).driver

\* The claim of every handler that leaves the assignment alone: nobody moved
\* the order or gave it to another driver since it was read.
ClaimStatusAndDriver(r) ==
    /\ orders[Target(r)].status = Seen(r).status
    /\ orders[Target(r)].driver = Seen(r).driver

rescheduleOrder(r) ==
    /\ AtClaim(r, "rescheduleOrder")
    /\ ClaimStatusAndDriver(r)
    /\ Advance(r, [orders[Target(r)] EXCEPT !.status = "RESCHEDULED"])
    /\ Finish(r)
    /\ UNCHANGED <<active, assignments, collections, attempts, pickups>>

pickupDriverOrder(r) ==
    /\ AtClaim(r, "pickupDriverOrder")
    /\ ClaimStatusAndDriver(r)
    /\ Advance(r, [orders[Target(r)] EXCEPT !.status = "PICKED_UP"])
    /\ Finish(r)
    /\ UNCHANGED <<active, assignments, collections, attempts, pickups>>

startDeliveryDriverOrder(r) ==
    /\ AtClaim(r, "startDeliveryDriverOrder")
    /\ ClaimStatusAndDriver(r)
    /\ Advance(r, [orders[Target(r)] EXCEPT
                       !.status = "OUT_FOR_DELIVERY",
                       !.startedAt = Len(history[Target(r)]) + 1])
    /\ Finish(r)
    /\ UNCHANGED <<active, assignments, collections, attempts, pickups>>

\* The attempt row takes its start from the order as it was first read, which
\* the claim does not restate.
Recorded(r, outcome) == Append(attempts[Target(r)],
    [outcome |-> outcome, driver |-> requests[r].driver,
     expected |-> Seen(r).amount, startedAt |-> Seen(r).startedAt])

\* mutant: the claim restates the driver and the amount but not the status
FailInAnyStatus(r) ==
    /\ AtClaim(r, "failDriverOrder")
    /\ ClaimDriver(r)
    /\ orders[Target(r)].amount = Seen(r).amount
    /\ Advance(r, [orders[Target(r)] EXCEPT !.status = "FAILED_DELIVERY"])
    /\ attempts' = [attempts EXCEPT ![Target(r)] = Recorded(r, "FAILED")]
    /\ Finish(r)
    /\ UNCHANGED <<active, assignments, collections, pickups>>

failDriverOrder(r) ==
    /\ AtClaim(r, "failDriverOrder")
    /\ ClaimStatusAndDriver(r)
    /\ orders[Target(r)].amount = Seen(r).amount
    /\ Advance(r, [orders[Target(r)] EXCEPT !.status = "FAILED_DELIVERY"])
    /\ attempts' = [attempts EXCEPT ![Target(r)] = Recorded(r, "FAILED")]
    /\ Finish(r)
    /\ UNCHANGED <<active, assignments, collections, pickups>>

\* mutant: an edit that commits after the read is not noticed
DeliverUnclaimedAmount(r) ==
    /\ AtClaim(r, "deliverDriverOrder")
    /\ ClaimStatusAndDriver(r)
    /\ Advance(r, [orders[Target(r)] EXCEPT !.status = "DELIVERED"])
    /\ attempts' = [attempts EXCEPT ![Target(r)] = Recorded(r, "DELIVERED")]
    /\ Finish(r)
    /\ UNCHANGED <<active, assignments, collections, pickups>>

\* amount stands for every editable field the posting reads.
deliverDriverOrder(r) ==
    /\ AtClaim(r, "deliverDriverOrder")
    /\ ClaimStatusAndDriver(r)
    /\ orders[Target(r)].amount = Seen(r).amount
    /\ Advance(r, [orders[Target(r)] EXCEPT !.status = "DELIVERED"])
    /\ attempts' = [attempts EXCEPT ![Target(r)] = Recorded(r, "DELIVERED")]
    /\ Finish(r)
    /\ UNCHANGED <<active, assignments, collections, pickups>>

\* PATCH restates the status only, so of two edits the later one stands.
updateOrder(r) ==
    /\ AtClaim(r, "updateOrder")
    /\ orders[Target(r)].status = Seen(r).status
    /\ \E amount \in Amounts :
           orders' = [orders EXCEPT ![Target(r)].amount = amount]
    /\ Finish(r)
    /\ UNCHANGED <<active, assignments, collections, history, attempts,
                   pickups>>

CommitDelivery(r) ==
    \/ assignOrder(r)
    \/ reassignOrder(r)
    \/ unassignOrder(r)
    \/ readyOrder(r)
    \/ rescheduleOrder(r)
    \/ pickupDriverOrder(r)
    \/ startDeliveryDriverOrder(r)
    \/ failDriverOrder(r)
    \/ deliverDriverOrder(r)
    \/ updateOrder(r)
=============================================================================
