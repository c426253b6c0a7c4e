-------------------------- MODULE ParcelCollection --------------------------
(***************************************************************************)
(* The parcel's way from the sender to the company: assigned to a          *)
(* collection driver, collected or failed, rescheduled, received.  The     *)
(* order keeps the stage (parcel) and the collection driver (collector);   *)
(* collections keeps the assignment rows and pickups the outcomes.         *)
(*                                                                         *)
(* Every handler rejects a terminal order when it first reads it; no claim *)
(* restates the order's status.                                            *)
(***************************************************************************)
EXTENDS OrderRecords

loadOrderForParcelMutation(o) ==
    orders[o].status \in OrderStatuses \ ORDER_TERMINAL_STATUSES

loadDriverOwnedAssignedJob(o, d) ==
    /\ orders[o].collector = d
    /\ orders[o].status \notin ORDER_TERMINAL_STATUSES
    /\ orders[o].parcel = "ASSIGNED"

ReadParcel(r, o) ==
    \/ \E d \in Drivers :
          /\ loadOrderForParcelMutation(o)
          /\ orders[o].parcel \in {"AWAITING_ASSIGNMENT", "RESCHEDULED"}
          /\ orders[o].collector = NoDriver
          /\ assertDriverEligibleForAssignment(d)
          /\ Begin(r, "assignParcelCollectionDriver", {o}, d, "NONE",
                   <<"eligibility", "noCollection">>)
    \/ \E d \in Drivers \ {orders[o].collector} :
          /\ loadOrderForParcelMutation(o)
          /\ orders[o].parcel = "ASSIGNED"
          /\ assertDriverEligibleForAssignment(d)
          /\ Begin(r, "reassignParcelCollectionDriver", {o}, d, "NONE",
                   <<"collection", "eligibility">>)
    \/ /\ loadOrderForParcelMutation(o)
       /\ orders[o].parcel = "FAILED"
       /\ Begin(r, "rescheduleParcelCollection", {o}, NoDriver, "NONE",
                <<"noCollection">>)
    \/ /\ loadOrderForParcelMutation(o)
       /\ orders[o].parcel = "COLLECTED_FROM_SENDER"
       /\ Begin(r, "confirmReceivedAtCompany", {o}, NoDriver, "NONE",
                <<"collection">>)
    \/ \E d \in Drivers, op \in {"markCollectedFromSender",
                                 "failParcelCollection"} :
          /\ loadDriverOwnedAssignedJob(o, d)
          /\ Begin(r, op, {o}, d, "NONE", <<"collection">>)

assignParcelCollectionDriver(r) ==
    /\ AtClaim(r, "assignParcelCollectionDriver")
    /\ LET o == Target(r) IN
       /\ orders[o].parcel = Seen(r).parcel
       /\ orders[o].collector = NoDriver
       /\ Len(collections[o]) < MaxAssignments
       /\ orders' = [orders EXCEPT ![o].collector = requests[r].driver,
                                   ![o].parcel = "ASSIGNED"]
       /\ collections' = [collections EXCEPT ![o] =
                              Opened(@, requests[r].driver)]
    /\ Finish(r)
    /\ UNCHANGED <<active, assignments, history, attempts, pickups>>

\* mutant: the claim restates the collector and not the stage
ReassignInTransit(r) ==
    /\ AtClaim(r, "reassignParcelCollectionDriver")
    /\ LET o == Target(r)
           i == requests[r].job
       IN /\ orders[o].collector = Seen(r).collector
          /\ collections[o][i].current
          /\ Len(collections[o]) < MaxAssignments
          /\ orders' = [orders EXCEPT ![o].collector = requests[r].driver]
          /\ collections' = [collections EXCEPT ![o] =
                                 Opened(Ended(@, i), requests[r].driver)]
    /\ Finish(r)
    /\ UNCHANGED <<active, assignments, history, attempts, pickups>>

reassignParcelCollectionDriver(r) ==
    /\ AtClaim(r, "reassignParcelCollectionDriver")
    /\ LET o == Target(r)
           i == requests[r].job
       IN /\ orders[o].parcel = "ASSIGNED"
          /\ orders[o].collector = Seen(r).collector
          /\ collections[o][i].current
          /\ Len(collections[o]) < MaxAssignments
          /\ orders' = [orders EXCEPT ![o].collector = requests[r].driver]
          /\ collections' = [collections EXCEPT ![o] =
                                 Opened(Ended(@, i), requests[r].driver)]
    /\ Finish(r)
    /\ UNCHANGED <<active, assignments, history, attempts, pickups>>

rescheduleParcelCollection(r) ==
    /\ AtClaim(r, "rescheduleParcelCollection")
    /\ LET o == Target(r) IN
       /\ orders[o].parcel = "FAILED"
       /\ orders[o].collector = NoDriver
       /\ orders' = [orders EXCEPT ![o].parcel = "RESCHEDULED"]
    /\ Finish(r)
    /\ UNCHANGED <<active, assignments, collections, history, attempts,
                   pickups>>

confirmReceivedAtCompany(r) ==
    /\ AtClaim(r, "confirmReceivedAtCompany")
    /\ LET o == Target(r)
           i == requests[r].job
       IN /\ orders[o].parcel = "COLLECTED_FROM_SENDER"
          /\ orders[o].collector = Seen(r).collector
          /\ collections[o][i].current
          /\ orders' = [orders EXCEPT ![o].parcel = "RECEIVED_AT_COMPANY",
                                      ![o].collector = NoDriver]
          /\ collections' = [collections EXCEPT ![o] = Ended(@, i)]
    /\ Finish(r)
    /\ UNCHANGED <<active, assignments, history, attempts, pickups>>

\* mutant: the claim checks the stage and not whose job it is
AnyJob(r) == orders[Target(r)].parcel = "ASSIGNED"

\* The claim of a driver that reports an outcome.
OwnJob(r) ==
    /\ orders[Target(r)].parcel = "ASSIGNED"
    /\ orders[Target(r)].collector = requests[r].driver

\* The driver holds the parcel now, so the assignment stays current.
markCollectedFromSender(r) ==
    /\ AtClaim(r, "markCollectedFromSender")
    /\ OwnJob(r)
    /\ LET o == Target(r) IN
       /\ orders' = [orders EXCEPT ![o].parcel = "COLLECTED_FROM_SENDER"]
       /\ pickups' = [pickups EXCEPT ![o] = Append(@,
              [outcome |-> "COLLECTED", driver |-> requests[r].driver])]
    /\ Finish(r)
    /\ UNCHANGED <<active, assignments, collections, history, attempts>>

\* mutant: the assignment row is left current
FailLeavingAssignment(r) ==
    /\ AtClaim(r, "failParcelCollection")
    /\ OwnJob(r)
    /\ LET o == Target(r) IN
       /\ orders' = [orders EXCEPT ![o].parcel = "FAILED",
                                   ![o].collector = NoDriver]
       /\ pickups' = [pickups EXCEPT ![o] = Append(@,
              [outcome |-> "FAILED", driver |-> requests[r].driver])]
    /\ Finish(r)
    /\ UNCHANGED <<active, assignments, collections, history, attempts>>

failParcelCollection(r) ==
    /\ AtClaim(r, "failParcelCollection")
    /\ OwnJob(r)
    /\ LET o == Target(r)
           i == requests[r].job
       IN /\ collections[o][i].current
          /\ orders' = [orders EXCEPT ![o].parcel = "FAILED",
                                      ![o].collector = NoDriver]
          /\ pickups' = [pickups EXCEPT ![o] = Append(@,
                 [outcome |-> "FAILED", driver |-> requests[r].driver])]
          /\ collections' = [collections EXCEPT ![o] = Ended(@, i)]
    /\ Finish(r)
    /\ UNCHANGED <<active, assignments, history, attempts>>

CommitParcel(r) ==
    \/ assignParcelCollectionDriver(r)
    \/ reassignParcelCollectionDriver(r)
    \/ rescheduleParcelCollection(r)
    \/ confirmReceivedAtCompany(r)
    \/ markCollectedFromSender(r)
    \/ failParcelCollection(r)
=============================================================================
