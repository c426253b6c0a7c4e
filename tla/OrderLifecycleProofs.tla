------------------------ MODULE OrderLifecycleProofs ------------------------
(***************************************************************************)
(* What is proved about OrderLifecycle, for any orders, drivers and number *)
(* of requests in flight, and any bounds.                                  *)
(*                                                                         *)
(* The invariant has two halves.  OrderFits says of the rows of one order, *)
(* as values, that they agree with one another.  RequestFits says what a   *)
(* handler in flight still knows when it reaches its claim: what it has    *)
(* seen was legal when it was seen, and the assignment row it will end     *)
(* exists, if it is not still to be read.                                  *)
(*                                                                         *)
(* That the attempts tell the same story as the history is a second        *)
(* invariant over this one: a commit extends neither, or the history by    *)
(* rows that end no attempt, or both by one row each.                      *)
(***************************************************************************)
EXTENDS OrderLifecycle, FiniteSetTheorems, TLAPS

-----------------------------------------------------------------------------
(* The rows of one order.                                                    *)

StatusFits(row) ==
    /\ row.status \in {"ASSIGNED", "PICKED_UP", "OUT_FOR_DELIVERY",
                        "FAILED_DELIVERY", "DELIVERED"}
           => row.driver # NoDriver
    /\ row.status \in {"RECEIVED", "READY_FOR_PICKUP", "CANCELLED"}
           => row.driver = NoDriver
    /\ row.driver # NoDriver => row.parcel = "RECEIVED_AT_COMPANY"
    /\ row.collector # NoDriver
           => row.parcel \in {"ASSIGNED", "COLLECTED_FROM_SENDER"}
    /\ row.parcel = "ASSIGNED"
           => row.collector # NoDriver \/ row.status = "CANCELLED"
    /\ row.parcel = "COLLECTED_FROM_SENDER" => row.collector # NoDriver

Chained(status, rows) ==
    /\ status = IF rows = <<>> THEN "NONE" ELSE rows[Len(rows)].to
    /\ \A i \in DOMAIN rows :
           rows[i].from = IF i = 1 THEN "NONE" ELSE rows[i - 1].to

AmountStands(row, tries) ==
    row.status = "DELIVERED" => tries[Len(tries)].expected = row.amount

Collected(tries) == {k \in DOMAIN tries : tries[k].outcome = "COLLECTED"}

CollectedFits(row, tries) ==
    /\ \A k \in Collected(tries) : k = Len(tries)
    /\ row.parcel = "COLLECTED_FROM_SENDER" =>
           /\ Collected(tries) # {}
           /\ tries[Len(tries)].driver = row.collector
    /\ Collected(tries) # {} =>
           row.parcel \in {"COLLECTED_FROM_SENDER", "RECEIVED_AT_COMPANY"}

OrderFits(row, given, jobs, story, tries, fetches) ==
    /\ row \in OrderRow
    /\ given \in Seq(AssignmentRow) /\ jobs \in Seq(AssignmentRow)
    /\ story \in Seq(HistoryRow)
    /\ tries \in Seq(AttemptRow) /\ fetches \in Seq(PickupRow)
    /\ PointerMatches(row.driver, given)
    /\ PointerMatches(row.collector, jobs)
    /\ StatusFits(row)
    /\ Chained(row.status, story)
    /\ AmountStands(row, tries)
    /\ CollectedFits(row, fetches)

Fits(o) == OrderFits(orders[o], assignments[o], collections[o], history[o],
                     attempts[o], pickups[o])

Tabled == /\ orders = [o \in Orders |-> orders[o]]
          /\ assignments = [o \in Orders |-> assignments[o]]
          /\ collections = [o \in Orders |-> collections[o]]
          /\ history = [o \in Orders |-> history[o]]
          /\ attempts = [o \in Orders |-> attempts[o]]
          /\ pickups = [o \in Orders |-> pickups[o]]

OrdersFit == Tabled /\ \A o \in Orders : Fits(o)

-----------------------------------------------------------------------------
(* The handlers in flight.                                                   *)

Aim(q) == CHOOSE o \in q.targets : TRUE

\* the read is still to be made
Awaits(todo, read) == \E i \in DOMAIN todo : todo[i] = read

DriversOwn == {"pickupDriverOrder", "startDeliveryDriverOrder",
               "failDriverOrder", "deliverDriverOrder"}

\* What was legal when it was seen, per handler.
SeenFits(op, d, row) ==
    /\ op = "assignOrder" => row.status \in ORDER_DELIVERY_ASSIGNABLE_STATUSES
    /\ op = "reassignOrder" =>
          row.status \in REASSIGNABLE_SOURCE_STATUSES /\ row.driver # NoDriver
    /\ op = "unassignOrder" => row.driver # NoDriver
    /\ op = "readyOrder" => row.status = "RECEIVED"
    /\ op = "rescheduleOrder" => row.status = "FAILED_DELIVERY"
    /\ op = "updateOrder" => row.status \in OrderStatuses \ {"DELIVERED"}
    /\ op \in DriversOwn => d = row.driver
    /\ op = "pickupDriverOrder" => row.status = "ASSIGNED"
    /\ op = "startDeliveryDriverOrder" =>
          row.status \in START_DELIVERY_SOURCE_STATUSES
    /\ op \in {"failDriverOrder", "deliverDriverOrder"} =>
          row.status = "OUT_FOR_DELIVERY"
    /\ op = "cancelOrder" =>
          /\ row.status \in CANCELLABLE_STATUSES
          /\ row.parcel # "COLLECTED_FROM_SENDER"
          /\ ~hasActiveAssignment(row) => row.driver = NoDriver
    /\ op = "assignParcelCollectionDriver" =>
          row.parcel \in {"AWAITING_ASSIGNMENT", "RESCHEDULED"}
    /\ op = "reassignParcelCollectionDriver" => row.collector # NoDriver

NamesDriver ==
    DriversOwn \cup
    {"assignOrder", "reassignOrder", "assignParcelCollectionDriver",
     "reassignParcelCollectionDriver", "markCollectedFromSender",
     "failParcelCollection"}

\* The handlers that end an assignment row.
EndsRow(op, row) ==
    \/ op \in {"reassignOrder", "unassignOrder"}
    \/ op = "cancelOrder" /\ hasActiveAssignment(row)
EndsJob(op, row) ==
    \/ op \in {"reassignParcelCollectionDriver", "confirmReceivedAtCompany",
               "failParcelCollection"}
    \/ op = "cancelOrder" /\ closesParcelCollectionAssignment(row)

\* only a bulk assign has several orders
OneTarget(op, targets) ==
    op # "assignOrder" => \A o \in targets : targets = {o}

RequestTyped(q) ==
    /\ q \in Request
    /\ q.targets # {}
    /\ OneTarget(q.op, q.targets)
    /\ q.seen \in [q.targets -> OrderRow]
    /\ q.since \in [q.targets -> Nat]
    /\ q.op \in NamesDriver => q.driver \in Drivers

\* q is of an order whose assignment rows are given and jobs.
Fitting(q, given, jobs) ==
    LET row == q.seen[Aim(q)] IN
    /\ RequestTyped(q)
    /\ \A o \in q.targets : SeenFits(q.op, q.driver, q.seen[o])
    /\ EndsRow(q.op, row) =>
          Awaits(q.todo, "assignment") \/ q.row \in DOMAIN given
    /\ EndsJob(q.op, row) =>
          Awaits(q.todo, "collection") \/ q.job \in DOMAIN jobs
    /\ q.op = "unassignOrder" =>
          Awaits(q.todo, "entered")
          \/ q.restore \in ORDER_DELIVERY_ASSIGNABLE_STATUSES

RequestFits(q) == Fitting(q, assignments[Aim(q)], collections[Aim(q)])

RequestsFit ==
    /\ requests = [r \in Requests |-> requests[r]]
    /\ \A r \in Requests : requests[r] = Idle \/ RequestFits(requests[r])

Inv == active \in [Drivers -> BOOLEAN] /\ OrdersFit /\ RequestsFit

-----------------------------------------------------------------------------
(* Tables, as values.                                                        *)

LEMMA DriversAreNotNull == \A d \in Drivers : d # NoDriver
BY RecordsAssumption

\* A row opened in a table without a current row is the only current one.
LEMMA OpenedFits ==
    ASSUME NEW rows \in Seq(AssignmentRow), NEW d \in Drivers,
           CurrentRows(rows) = {}
    PROVE  /\ Opened(rows, d) \in Seq(AssignmentRow)
           /\ PointerMatches(d, Opened(rows, d))
           /\ DOMAIN rows \subseteq DOMAIN Opened(rows, d)
<1> DEFINE new == [driver |-> d, current |-> TRUE]
           more == Append(rows, new)
           n == Len(rows) + 1
<1>1. new \in AssignmentRow /\ new.driver = d /\ new.current = TRUE
  BY DEF AssignmentRow
<1> HIDE DEF new
<1>2. /\ more \in Seq(AssignmentRow)
      /\ DOMAIN more = 1 .. n /\ DOMAIN rows = 1 .. Len(rows)
      /\ more[n] = new /\ \A i \in DOMAIN rows : more[i] = rows[i]
      /\ Len(rows) \in Nat
  BY <1>1
<1> HIDE DEF more
<1>3. CurrentRows(more) = {n}
  <2>1. \A i \in DOMAIN rows : ~rows[i].current
    BY DEF CurrentRows
  <2>2. \A i \in 1 .. n : i \in DOMAIN rows \/ i = n
    BY <1>2
  <2>3. n \in 1 .. n
    BY <1>2
  <2> QED BY <1>1, <1>2, <2>1, <2>2, <2>3, Zenon DEF CurrentRows
<1>4. SoleCurrent(more, d)
  BY <1>1, <1>2, <1>3, Zenon DEF SoleCurrent
<1>5. Opened(rows, d) = more
  BY DEF Opened, more, new
<1> QED BY <1>2, <1>4, <1>5, DriversAreNotNull DEF PointerMatches

\* Ending the current row of a table leaves none.
LEMMA EndedFits ==
    ASSUME NEW rows \in Seq(AssignmentRow), NEW d \in DriverRefs,
           PointerMatches(d, rows), NEW i \in DOMAIN rows, rows[i].current
    PROVE  /\ Ended(rows, i) \in Seq(AssignmentRow)
           /\ CurrentRows(Ended(rows, i)) = {}
           /\ PointerMatches(NoDriver, Ended(rows, i))
           /\ DOMAIN Ended(rows, i) = DOMAIN rows
           /\ d # NoDriver
<1>1. i \in CurrentRows(rows)
  BY DEF CurrentRows
<1>2. CurrentRows(rows) = {i} /\ d # NoDriver
  BY <1>1 DEF PointerMatches, SoleCurrent
<1> DEFINE less == Ended(rows, i)
<1> DEFINE ended == [rows[i] EXCEPT !.current = FALSE]
<1>3. rows[i] \in AssignmentRow
  OBVIOUS
<1>4. ended \in AssignmentRow /\ ended.current = FALSE
  BY <1>3 DEF AssignmentRow
<1>5. less = [rows EXCEPT ![i] = ended]
  BY DEF Ended
<1> HIDE DEF less, ended
<1>6. /\ less \in Seq(AssignmentRow) /\ DOMAIN less = DOMAIN rows
      /\ less[i] = ended
      /\ \A j \in DOMAIN rows \ {i} : less[j] = rows[j]
  BY <1>4, <1>5
<1>7. CurrentRows(less) = {}
  BY <1>2, <1>4, <1>6, Zenon DEF CurrentRows
<1> QED BY <1>2, <1>6, <1>7 DEF PointerMatches, less

\* A row from the status the story ended with continues the story.
LEMMA StoryGoesOn ==
    ASSUME NEW story \in Seq(HistoryRow), NEW status \in Statuses,
           Chained(status, story), NEW to \in OrderStatuses, NEW at \in Nat
    PROVE  LET more == Append(story, [from |-> status, to |-> to, at |-> at])
           IN  more \in Seq(HistoryRow) /\ Chained(to, more)
<1> DEFINE new == [from |-> status, to |-> to, at |-> at]
           more == Append(story, new)
           n == Len(story)
<1>1. new \in HistoryRow /\ new.from = status /\ new.to = to
  BY DEF HistoryRow
<1> HIDE DEF new
<1>2. /\ more \in Seq(HistoryRow) /\ more # <<>>
      /\ Len(more) = n + 1 /\ DOMAIN more = 1 .. n + 1
      /\ DOMAIN story = 1 .. n /\ n \in Nat
      /\ more[n + 1] = new /\ \A i \in 1 .. n : more[i] = story[i]
  BY <1>1
<1>3. story = <<>> <=> n = 0
  BY <1>2
<1> HIDE DEF more, n
<1>4. to = more[Len(more)].to
  BY <1>1, <1>2
<1>5. ASSUME NEW i \in DOMAIN more
      PROVE  more[i].from = IF i = 1 THEN "NONE" ELSE more[i - 1].to
  <2>1. CASE i \in 1 .. n
    <3>1. story[i].from = IF i = 1 THEN "NONE" ELSE story[i - 1].to
      BY <1>2, <2>1 DEF Chained
    <3>2. i # 1 => i - 1 \in 1 .. n
      BY <1>2, <2>1
    <3> QED BY <1>2, <2>1, <3>1, <3>2
  <2>2. CASE i = n + 1
    <3>1. status = IF n = 0 THEN "NONE" ELSE story[n].to
      BY <1>3 DEF Chained, n
    <3>2. n # 0 => n \in 1 .. n
      BY <1>2
    <3>3. n = 0 <=> i = 1
      BY <1>2, <2>2
    <3>4. i - 1 = n
      BY <1>2, <2>2
    <3> QED BY <1>1, <1>2, <2>2, <3>1, <3>2, <3>3, <3>4
  <2> QED BY <1>2, <1>5, <2>1, <2>2
<1>6. Chained(to, more)
  BY <1>2, <1>4, <1>5 DEF Chained
<1> QED BY <1>2, <1>6 DEF more, new

LEMMA AttemptsGoOn ==
    ASSUME NEW tries \in Seq(AttemptRow), NEW new \in AttemptRow
    PROVE  LET more == Append(tries, new)
           IN  more \in Seq(AttemptRow) /\ more[Len(more)] = new
OBVIOUS

\* Nothing is said of the collections made by a change that keeps the parcel
\* where it is, receives it, or happens before it was collected.
LEMMA CollectedStays ==
    ASSUME NEW row, NEW next, NEW fetches, CollectedFits(row, fetches),
           \/ next.parcel = row.parcel /\ next.collector = row.collector
           \/ /\ next.parcel # "COLLECTED_FROM_SENDER"
              /\ \/ next.parcel = row.parcel
                 \/ next.parcel = "RECEIVED_AT_COMPANY"
                 \/ row.parcel \notin {"COLLECTED_FROM_SENDER",
                                      "RECEIVED_AT_COMPANY"}
    PROVE  CollectedFits(next, fetches)
BY DEF CollectedFits

\* The outcome of an attempt to fetch a parcel nobody has collected yet.
LEMMA FetchesGoOn ==
    ASSUME NEW row, NEW next, NEW fetches \in Seq(PickupRow),
           CollectedFits(row, fetches), row.parcel = "ASSIGNED",
           NEW new \in PickupRow,
           \/ new.outcome = "COLLECTED" /\ new.driver = next.collector
              /\ next.parcel = "COLLECTED_FROM_SENDER"
           \/ new.outcome = "FAILED" /\ next.parcel = "FAILED"
    PROVE  /\ Append(fetches, new) \in Seq(PickupRow)
           /\ CollectedFits(next, Append(fetches, new))
<1> DEFINE more == Append(fetches, new)
           n == Len(fetches) + 1
<1>1. /\ more \in Seq(PickupRow) /\ Len(more) = n /\ DOMAIN more = 1 .. n
      /\ DOMAIN fetches = 1 .. Len(fetches) /\ Len(fetches) \in Nat
      /\ more[n] = new /\ \A i \in DOMAIN fetches : more[i] = fetches[i]
  OBVIOUS
<1>2. \A i \in 1 .. n : i \in DOMAIN fetches \/ i = n
  BY <1>1
<1>3. n \in 1 .. n
  BY <1>1
<1> HIDE DEF more, n
<1>4. Collected(fetches) = {}
  BY DEF CollectedFits
<1>5. \A i \in DOMAIN fetches : fetches[i].outcome # "COLLECTED"
  BY <1>4 DEF Collected
<1>6. Collected(more) = IF new.outcome = "COLLECTED" THEN {n} ELSE {}
  BY <1>1, <1>2, <1>3, <1>5 DEF Collected
<1>7. CollectedFits(next, more)
  BY <1>1, <1>6 DEF CollectedFits
<1> QED BY <1>1, <1>7 DEF more

-----------------------------------------------------------------------------
(* Where a parcel is, from the order's row alone, and what one step may do.  *)

OnTheRoad(row) ==
    /\ row.driver # NoDriver
    /\ row.status \in
          {"PICKED_UP", "OUT_FOR_DELIVERY", "FAILED_DELIVERY", "RESCHEDULED"}

PlaceOfRow(row) ==
    IF row.parcel = "COLLECTED_FROM_SENDER" THEN Journey!Inbound(row.collector)
    ELSE IF row.parcel # "RECEIVED_AT_COMPANY" THEN Journey!Sender
    ELSE IF OnTheRoad(row) THEN Journey!Outbound(row.driver)
    ELSE IF row.status = "DELIVERED" THEN Journey!Receiver ELSE Journey!Company

LEMMA PlacesOfRows ==
    ASSUME NEW o
    PROVE  /\ PlaceOf(o) = PlaceOfRow(orders[o])
           /\ PlaceOf(o)' = PlaceOfRow(orders'[o])
BY DEF PlaceOf, PlaceOfRow, OnTheRoad, Journey!Inbound, Journey!Outbound,
       Journey!Sender, Journey!Receiver, Journey!Company

\* One of the arrows of ParcelJourney, or none.
Travels(from, to) ==
    \/ from = to
    \/ from = Journey!Sender /\ to = Journey!Company
    \/ \E d \in Drivers :
          \/ from = Journey!Sender /\ to = Journey!Inbound(d)
          \/ from = Journey!Inbound(d) /\ to = Journey!Company
          \/ from = Journey!Company /\ to = Journey!Outbound(d)
          \/ from = Journey!Outbound(d) /\ to = Journey!Company
          \/ from = Journey!Outbound(d) /\ to = Journey!Receiver

\* What the action properties allow a request of driver d to do to a row.
Step(row, next, d) ==
    /\ InPossession(row) => next.driver = row.driver
    /\ InPossession(next) /\ next.status # row.status => d = row.driver
    /\ next.status = "CANCELLED" /\ row.status # "CANCELLED"
           => row.parcel # "COLLECTED_FROM_SENDER"
    /\ row.status \in ORDER_TERMINAL_STATUSES => next.status = row.status
    /\ Travels(PlaceOfRow(row), PlaceOfRow(next))

\* What every commit does: it answers its request and touches no order that
\* is not a target of it.
Committed(r) ==
    /\ requests[r] # Idle /\ Finish(r) /\ active' = active
    /\ OrdersFit'
    /\ \A o \in Orders :
          /\ DOMAIN assignments[o] \subseteq DOMAIN assignments'[o]
          /\ DOMAIN collections[o] \subseteq DOMAIN collections'[o]
    /\ \A o \in Orders :
          \/ orders'[o] = orders[o]
          \/ /\ o \in requests[r].targets
             /\ Step(orders[o], orders'[o], requests[r].driver)
    /\ \A o, p \in Orders :
          /\ PlaceOfRow(orders'[o]) # PlaceOfRow(orders[o])
          /\ PlaceOfRow(orders'[p]) # PlaceOfRow(orders[p])
          => o = p

Rewrites(o, row, given, jobs, story, tries, fetches) ==
    /\ orders' = [orders EXCEPT ![o] = row]
    /\ assignments' = [assignments EXCEPT ![o] = given]
    /\ collections' = [collections EXCEPT ![o] = jobs]
    /\ history' = [history EXCEPT ![o] = story]
    /\ attempts' = [attempts EXCEPT ![o] = tries]
    /\ pickups' = [pickups EXCEPT ![o] = fetches]

\* The commit of a request of one order.
LEMMA RewrittenCommits ==
    ASSUME OrdersFit, NEW r \in Requests,
           requests[r] # Idle, Finish(r), active' = active,
           NEW o \in Orders, o \in requests[r].targets,
           NEW row, NEW given, NEW jobs, NEW story, NEW tries, NEW fetches,
           Rewrites(o, row, given, jobs, story, tries, fetches),
           OrderFits(row, given, jobs, story, tries, fetches),
           DOMAIN assignments[o] \subseteq DOMAIN given,
           DOMAIN collections[o] \subseteq DOMAIN jobs,
           Step(orders[o], row, requests[r].driver)
    PROVE  Committed(r)
<1>1. Tabled
  BY DEF OrdersFit
<1>2. /\ orders'[o] = row /\ assignments'[o] = given
      /\ collections'[o] = jobs /\ history'[o] = story
      /\ attempts'[o] = tries /\ pickups'[o] = fetches
  BY <1>1 DEF Tabled, Rewrites
<1>3. \A p \in Orders \ {o} :
          /\ orders'[p] = orders[p] /\ assignments'[p] = assignments[p]
          /\ collections'[p] = collections[p] /\ history'[p] = history[p]
          /\ attempts'[p] = attempts[p] /\ pickups'[p] = pickups[p]
  BY <1>1 DEF Tabled, Rewrites
<1>4. Tabled'
  BY <1>1 DEF Tabled, Rewrites
<1>5. ASSUME NEW p \in Orders
      PROVE  Fits(p)'
  <2>1. CASE p = o
    BY <1>2, <2>1 DEF Fits
  <2>2. CASE p # o
    BY <1>3, <2>2 DEF Fits, OrdersFit
  <2> QED BY <2>1, <2>2
<1>6. OrdersFit'
  BY <1>4, <1>5 DEF OrdersFit
<1>7. \A p \in Orders :
          /\ DOMAIN assignments[p] \subseteq DOMAIN assignments'[p]
          /\ DOMAIN collections[p] \subseteq DOMAIN collections'[p]
  BY <1>2, <1>3
<1>8. \A p \in Orders :
          \/ orders'[p] = orders[p]
          \/ /\ p \in requests[r].targets
             /\ Step(orders[p], orders'[p], requests[r].driver)
  BY <1>2, <1>3
<1>9. \A p \in Orders :
          PlaceOfRow(orders'[p]) # PlaceOfRow(orders[p]) => p = o
  BY <1>3
<1> QED BY <1>6, <1>7, <1>8, <1>9 DEF Committed

-----------------------------------------------------------------------------
(* The handlers in flight, from their first read to their claim.             *)

LEMMA Aims ==
    ASSUME NEW q, RequestTyped(q)
    PROVE  /\ Aim(q) \in q.targets /\ Aim(q) \in Orders
           /\ q.seen[Aim(q)] \in OrderRow
           /\ q.op # "assignOrder" => q.targets = {Aim(q)}
<1>1. Aim(q) \in q.targets
  BY Zenon DEF RequestTyped, Aim
<1>2. q.targets \subseteq Orders
  BY DEF RequestTyped, Request
<1> QED BY <1>1, <1>2 DEF RequestTyped, OneTarget

LEMMA TargetIsAim == \A r : Target(r) = Aim(requests[r])
BY Zenon DEF Target, Aim

\* Tables only grow, so an assignment row once found stays.
LEMMA FittingGrows ==
    ASSUME NEW q, NEW given, NEW jobs, NEW given2, NEW jobs2,
           Fitting(q, given, jobs),
           DOMAIN given \subseteq DOMAIN given2,
           DOMAIN jobs \subseteq DOMAIN jobs2
    PROVE  Fitting(q, given2, jobs2)
BY DEF Fitting

LEMMA CommittedKeepsInv ==
    ASSUME Inv, NEW r \in Requests, Committed(r)
    PROVE  Inv'
<1>1. requests' = [requests EXCEPT ![r] = Idle]
  BY DEF Committed, Finish
<1>2. requests = [s \in Requests |-> requests[s]]
  BY DEF Inv, RequestsFit
<1>3. requests' = [s \in Requests |-> requests'[s]]
  BY <1>1, <1>2
<1>4. ASSUME NEW s \in Requests, requests'[s] # Idle
      PROVE  RequestFits(requests[s])' /\ requests'[s] = requests[s]
  <2>1. requests'[s] = requests[s]
    BY <1>1, <1>2, <1>4
  <2>2. RequestFits(requests[s])
    BY <1>4, <2>1 DEF Inv, RequestsFit
  <2> DEFINE o == Aim(requests[s])
  <2>3. Fitting(requests[s], assignments[o], collections[o])
    BY <2>2 DEF RequestFits
  <2>4. o \in Orders
    BY <2>3, Aims DEF Fitting
  <2>5. /\ DOMAIN assignments[o] \subseteq DOMAIN assignments'[o]
        /\ DOMAIN collections[o] \subseteq DOMAIN collections'[o]
    BY <2>4 DEF Committed
  <2>6. Fitting(requests[s], assignments'[o], collections'[o])
    BY <2>3, <2>5, FittingGrows
  <2> QED BY <2>1, <2>6 DEF RequestFits
<1>5. RequestsFit'
  BY <1>3, <1>4 DEF RequestsFit
<1>6. (active \in [Drivers -> BOOLEAN])' /\ OrdersFit'
  BY DEF Committed, Inv
<1> QED BY <1>5, <1>6 DEF Inv

\* A step that changes one request and no table.
LEMMA RequestStepKeepsInv ==
    ASSUME Inv, NEW r \in Requests, UNCHANGED <<active, tables>>, NEW q,
           requests' = [requests EXCEPT ![r] = q], q = Idle \/ RequestFits(q)
    PROVE  Inv'
<1>1. requests = [s \in Requests |-> requests[s]]
  BY DEF Inv, RequestsFit
<1>2. requests' = [s \in Requests |-> requests'[s]]
  BY <1>1
<1>3. \A s \in Requests : requests'[s] = IF s = r THEN q ELSE requests[s]
  BY <1>1
<1>4. \A p : RequestFits(p) => RequestFits(p)'
  BY DEF RequestFits, tables
<1>5. \A s \in Requests : requests'[s] = Idle \/ RequestFits(requests'[s])
  BY <1>3 DEF Inv, RequestsFit
<1>6. \A s \in Requests : requests'[s] = Idle \/ RequestFits(requests[s])'
  BY <1>4, <1>5 DEF RequestFits, tables
<1>7. RequestsFit'
  BY <1>2, <1>6 DEF RequestsFit
<1>8. (active \in [Drivers -> BOOLEAN])' /\ OrdersFit'
  BY DEF Inv, OrdersFit, Tabled, Fits, tables
<1> QED BY <1>7, <1>8 DEF Inv

\* A handler that has made its next read and noted what it found.
Reading(q, i, j, to) ==
    [q EXCEPT !.todo = Tail(q.todo), !.row = i, !.job = j, !.restore = to]

LEMMA ReadingFits ==
    ASSUME NEW q, NEW given, NEW jobs, Fitting(q, given, jobs),
           q.todo # <<>>, NEW i \in Nat, NEW j \in Nat, NEW to \in Statuses,
           IF Head(q.todo) = "assignment" THEN i \in DOMAIN given
                                          ELSE i = q.row,
           IF Head(q.todo) = "collection" THEN j \in DOMAIN jobs
                                          ELSE j = q.job,
           IF Head(q.todo) = "entered"
              THEN to \in ORDER_DELIVERY_ASSIGNABLE_STATUSES
              ELSE to = q.restore
    PROVE  /\ Fitting(Reading(q, i, j, to), given, jobs)
           /\ Aim(Reading(q, i, j, to)) = Aim(q)
<1> DEFINE p == Reading(q, i, j, to)
<1>1. RequestTyped(q) /\ q \in Request
  BY DEF Fitting, RequestTyped
<1>2. q.todo \in Seq(Reads)
  BY <1>1 DEF Request
<1>3. /\ Tail(q.todo) \in Seq(Reads)
      /\ \A x : (\E k \in DOMAIN q.todo : q.todo[k] = x)
               => x = Head(q.todo)
                  \/ \E k \in DOMAIN Tail(q.todo) : Tail(q.todo)[k] = x
  <2>1. Tail(q.todo) \in Seq(Reads) /\ Len(q.todo) \in Nat \ {0}
    BY <1>2
  <2>2. ASSUME NEW x, NEW k \in DOMAIN q.todo, q.todo[k] = x, x # Head(q.todo)
        PROVE  \E m \in DOMAIN Tail(q.todo) : Tail(q.todo)[m] = x
    <3>1. k \in 1 .. Len(q.todo) /\ k # 1
      BY <1>2, <2>2
    <3>2. k - 1 \in DOMAIN Tail(q.todo) /\ Tail(q.todo)[k - 1] = x
      BY <1>2, <2>1, <2>2, <3>1
    <3> QED BY <3>2
  <2> QED BY <2>1, <2>2
<1>4. /\ p.op = q.op /\ p.targets = q.targets /\ p.driver = q.driver
      /\ p.intake = q.intake /\ p.seen = q.seen /\ p.since = q.since
      /\ p.todo = Tail(q.todo) /\ p.row = i /\ p.job = j /\ p.restore = to
  BY <1>1 DEF Reading, Request
<1>5. p \in Request
  BY <1>1, <1>3 DEF Reading, Request
<1> HIDE DEF p
<1>6. Aim(p) = Aim(q)
  BY <1>4 DEF Aim
<1>7. RequestTyped(p)
  BY <1>1, <1>4, <1>5 DEF RequestTyped
<1>8. \A x : Awaits(q.todo, x) => x = Head(q.todo) \/ Awaits(p.todo, x)
  BY <1>3, <1>4 DEF Awaits
<1>9. Fitting(p, given, jobs)
  BY <1>4, <1>6, <1>7, <1>8 DEF Fitting
<1> QED BY <1>6, <1>9 DEF p

LEMMA CheckKeepsInv ==
    ASSUME Inv, NEW r \in Requests, Check(r)
    PROVE  Inv'
<1>0. requests[r] # Idle /\ requests[r].todo # <<>>
  BY DEF Check, CheckEligibility, assertConsistentCurrentAssignment,
         assertConsistentCurrentParcelCollectionAssignment,
         assertNoCurrentParcelCollectionAssignment, ReadEntered, Pending
<1>1. PICK q : q = requests[r]
  OBVIOUS
<1>2. PICK o : o = Target(r)
  OBVIOUS
<1>3. o = Aim(q)
  BY <1>1, <1>2, TargetIsAim
<1>4. Fitting(q, assignments[o], collections[o])
  BY <1>0, <1>1, <1>3 DEF Inv, RequestsFit, RequestFits
<1>5. /\ q \in Request /\ o \in Orders
      /\ q.row \in Nat /\ q.job \in Nat /\ q.restore \in Statuses
  BY <1>3, <1>4, Aims DEF Fitting, RequestTyped, Request
<1>6. /\ assignments[o] \in Seq(AssignmentRow)
      /\ collections[o] \in Seq(AssignmentRow)
      /\ history[o] \in Seq(HistoryRow)
  BY <1>5 DEF Inv, OrdersFit, Fits, OrderFits
<1>7. UNCHANGED <<active, tables>>
  BY DEF Check, CheckEligibility, assertConsistentCurrentAssignment,
         assertConsistentCurrentParcelCollectionAssignment,
         assertNoCurrentParcelCollectionAssignment, ReadEntered
<1>8. ASSUME NEW i \in Nat, NEW j \in Nat, NEW to \in Statuses,
             requests' = [requests EXCEPT ![r] = Reading(q, i, j, to)],
             IF Head(q.todo) = "assignment" THEN i \in DOMAIN assignments[o]
                                            ELSE i = q.row,
             IF Head(q.todo) = "collection" THEN j \in DOMAIN collections[o]
                                            ELSE j = q.job,
             IF Head(q.todo) = "entered"
                THEN to \in ORDER_DELIVERY_ASSIGNABLE_STATUSES
                ELSE to = q.restore
      PROVE  Inv'
  <2>1. PICK p : p = Reading(q, i, j, to)
    OBVIOUS
  <2>2. Fitting(p, assignments[o], collections[o]) /\ Aim(p) = o
    BY <1>0, <1>1, <1>3, <1>4, <1>8, <2>1, ReadingFits
  <2>3. RequestFits(p)
    BY <2>2 DEF RequestFits
  <2> QED BY <1>7, <1>8, <2>1, <2>3, RequestStepKeepsInv
\* A read that finds nothing to note, and the three that do.
<1>9. /\ Passed(r) = Reading(q, q.row, q.job, q.restore)
      /\ \A i \in Nat :
            /\ [Passed(r) EXCEPT !.row = i] = Reading(q, i, q.job, q.restore)
            /\ [Passed(r) EXCEPT !.job = i] = Reading(q, q.row, i, q.restore)
      /\ \A to \in Statuses :
            [Passed(r) EXCEPT !.restore = to] = Reading(q, q.row, q.job, to)
  BY <1>1, <1>5 DEF Passed, Reading, Request
<1>10. CASE CheckEligibility(r)
  <2>1. Head(q.todo) = "eligibility"
    BY <1>1, <1>10 DEF CheckEligibility, Pending
  <2>2. requests' =
            [requests EXCEPT ![r] = Reading(q, q.row, q.job, q.restore)]
    BY <1>9, <1>10 DEF CheckEligibility
  <2> QED BY ONLY <1>5, <1>8, <2>1, <2>2
<1>11. CASE assertNoCurrentParcelCollectionAssignment(r)
  <2>1. Head(q.todo) = "noCollection"
    BY <1>1, <1>11 DEF assertNoCurrentParcelCollectionAssignment, Pending
  <2>2. requests' =
            [requests EXCEPT ![r] = Reading(q, q.row, q.job, q.restore)]
    BY <1>9, <1>11 DEF assertNoCurrentParcelCollectionAssignment
  <2> QED BY ONLY <1>5, <1>8, <2>1, <2>2
<1>12. CASE assertConsistentCurrentAssignment(r)
  <2>1. Head(q.todo) = "assignment"
    BY <1>1, <1>12 DEF assertConsistentCurrentAssignment, Pending
  <2>2. PICK i \in CurrentRows(assignments[o]) :
            requests' = [requests EXCEPT ![r] = [Passed(r) EXCEPT !.row = i]]
    BY <1>2, <1>12 DEF assertConsistentCurrentAssignment
  <2>3. i \in DOMAIN assignments[o] /\ i \in Nat
    BY <1>6, <2>2 DEF CurrentRows
  <2>4. requests' =
            [requests EXCEPT ![r] = Reading(q, i, q.job, q.restore)]
    BY <1>9, <2>2, <2>3
  <2> QED BY <1>5, <1>8, <2>1, <2>3, <2>4
<1>13. CASE assertConsistentCurrentParcelCollectionAssignment(r)
  <2>1. Head(q.todo) = "collection"
    BY <1>1, <1>13
       DEF assertConsistentCurrentParcelCollectionAssignment, Pending
  <2>2. PICK i \in CurrentRows(collections[o]) :
            requests' = [requests EXCEPT ![r] = [Passed(r) EXCEPT !.job = i]]
    BY <1>2, <1>13 DEF assertConsistentCurrentParcelCollectionAssignment
  <2>3. i \in DOMAIN collections[o] /\ i \in Nat
    BY <1>6, <2>2 DEF CurrentRows
  <2>4. requests' =
            [requests EXCEPT ![r] = Reading(q, q.row, i, q.restore)]
    BY <1>9, <2>2, <2>3
  <2> QED BY <1>5, <1>8, <2>1, <2>3, <2>4
<1>14. CASE ReadEntered(r)
  <2>1. Head(q.todo) = "entered"
    BY <1>1, <1>14 DEF ReadEntered, Pending
  <2>2. PICK i \in DOMAIN history[o] :
            /\ history[o][i].from \in ORDER_DELIVERY_ASSIGNABLE_STATUSES
            /\ requests' = [requests EXCEPT ![r] =
                   [Passed(r) EXCEPT !.restore = history[o][i].from]]
    BY <1>2, <1>14 DEF ReadEntered
  <2>3. PICK to : to = history[o][i].from
    OBVIOUS
  <2>4. to \in ORDER_DELIVERY_ASSIGNABLE_STATUSES /\ to \in Statuses
    BY <2>2, <2>3
       DEF ORDER_DELIVERY_ASSIGNABLE_STATUSES, Statuses, OrderStatuses
  <2>5. requests' = [requests EXCEPT ![r] = Reading(q, q.row, q.job, to)]
    BY <1>9, <2>2, <2>3, <2>4
  <2> QED BY <1>5, <1>8, <2>1, <2>4, <2>5
<1> QED BY <1>10, <1>11, <1>12, <1>13, <1>14 DEF Check

-----------------------------------------------------------------------------
(* The first read of each handler.                                           *)

\* A request that sees the orders as they are now knows what it needs, or has
\* yet to read it.
Legal(op, d, todo, row) ==
    /\ SeenFits(op, d, row)
    /\ EndsRow(op, row) => Awaits(todo, "assignment")
    /\ EndsJob(op, row) => Awaits(todo, "collection")
    /\ op = "unassignOrder" => Awaits(todo, "entered")

LEMMA BegunFits ==
    ASSUME Inv, NEW r \in Requests, NEW op \in Operations,
           NEW targets \in SUBSET Orders, targets # {}, NEW d \in DriverRefs,
           NEW intake \in {"NONE", "ALREADY_AT_COMPANY", "DRIVER_COLLECTION"},
           NEW todo \in Seq(Reads),
           Begin(r, op, targets, d, intake, todo),
           OneTarget(op, targets),
           op \in NamesDriver => d \in Drivers,
           \A o \in targets : Legal(op, d, todo, orders[o])
    PROVE  Inv'
<1> DEFINE seen == [o \in targets |-> orders[o]]
           since == [o \in targets |-> IF op \in EntersAssigned
                                       THEN Len(history[o]) ELSE 0]
           new == [op |-> op, targets |-> targets, driver |-> d,
                   intake |-> intake, seen |-> seen, since |-> since,
                   todo |-> todo, row |-> 0, job |-> 0, restore |-> "NONE"]
<1>1. PICK q : q = new
  OBVIOUS
<1>2. \A o \in targets : orders[o] \in OrderRow /\ Len(history[o]) \in Nat
  <2>1. ASSUME NEW o \in targets
        PROVE  orders[o] \in OrderRow /\ history[o] \in Seq(HistoryRow)
    BY <2>1 DEF Inv, OrdersFit, Fits, OrderFits
  <2> QED BY <2>1
<1>3. seen \in [targets -> OrderRow] /\ since \in [targets -> Nat]
  BY <1>2
<1>4. /\ seen \in UNION {[T -> OrderRow] : T \in SUBSET Orders}
      /\ since \in UNION {[T -> Nat] : T \in SUBSET Orders}
  BY <1>3
<1>5. requests' = [requests EXCEPT ![r] = q]
  BY <1>1 DEF Begin
<1>6. \A o \in targets : seen[o] = orders[o]
  OBVIOUS
<1> HIDE DEF seen, since
<1>7. /\ q.op = op /\ q.targets = targets /\ q.driver = d
      /\ q.intake = intake /\ q.seen = seen /\ q.since = since
      /\ q.todo = todo
  BY <1>1
<1>8. q \in Request
  BY <1>1, <1>4 DEF Request, Statuses
<1> HIDE DEF new
<1>9. RequestTyped(q)
  BY <1>3, <1>7, <1>8 DEF RequestTyped
<1>10. Aim(q) \in targets
  BY <1>7, <1>9, Aims
<1>11. \A o \in q.targets : Legal(q.op, q.driver, q.todo, q.seen[o])
  BY <1>6, <1>7
<1>12. Legal(q.op, q.driver, q.todo, q.seen[Aim(q)])
  BY <1>7, <1>10, <1>11
<1>13. RequestFits(q)
  BY <1>9, <1>11, <1>12 DEF RequestFits, Fitting, Legal
<1> QED BY <1>5, <1>13, RequestStepKeepsInv DEF Begin

\* The handlers of one order.
LEMMA BegunOneFits ==
    ASSUME Inv, NEW r \in Requests, NEW op \in Operations \ {"assignOrder"},
           NEW o \in Orders, NEW d \in DriverRefs,
           NEW intake \in {"NONE", "ALREADY_AT_COMPANY", "DRIVER_COLLECTION"},
           NEW todo \in Seq(Reads),
           Begin(r, op, {o}, d, intake, todo),
           op \in NamesDriver => d \in Drivers,
           Legal(op, d, todo, orders[o])
    PROVE  Inv'
<1>1. PICK targets : targets = {o}
  OBVIOUS
<1>2. targets \in SUBSET Orders /\ targets # {}
  BY <1>1
<1>3. OneTarget(op, targets)
  BY <1>1 DEF OneTarget
<1>4. \A p \in targets : Legal(op, d, todo, orders[p])
  BY <1>1
<1>5. Begin(r, op, targets, d, intake, todo)
  BY <1>1
<1>6. op \in Operations
  OBVIOUS
<1> QED BY <1>2, <1>3, <1>4, <1>5, <1>6, BegunFits

LEMMA Awaited ==
    /\ <<>> \in Seq(Reads)
    /\ \A x \in Reads : <<x>> \in Seq(Reads) /\ Awaits(<<x>>, x)
    /\ \A x, y \in Reads : /\ <<x, y>> \in Seq(Reads)
                          /\ Awaits(<<x, y>>, x) /\ Awaits(<<x, y>>, y)
<1>1. ASSUME NEW x \in Reads
      PROVE  <<x>> \in Seq(Reads) /\ Awaits(<<x>>, x)
  <2>1. 1 \in DOMAIN <<x>> /\ <<x>>[1] = x
    OBVIOUS
  <2> QED BY <2>1 DEF Awaits
<1>2. ASSUME NEW x \in Reads, NEW y \in Reads
      PROVE  /\ <<x, y>> \in Seq(Reads)
             /\ Awaits(<<x, y>>, x) /\ Awaits(<<x, y>>, y)
  <2>1. /\ 1 \in DOMAIN <<x, y>> /\ <<x, y>>[1] = x
        /\ 2 \in DOMAIN <<x, y>> /\ <<x, y>>[2] = y
    OBVIOUS
  <2> QED BY <2>1 DEF Awaits
<1> QED BY <1>1, <1>2

\* What an order row says when it fits its tables.
LEMMA RowFits ==
    ASSUME OrdersFit, NEW o \in Orders
    PROVE  orders[o] \in OrderRow /\ StatusFits(orders[o])
BY DEF OrdersFit, Fits, OrderFits

LEMMA ReadAssignKeepsInv ==
    ASSUME Inv, NEW r \in Requests, NEW targets \in (SUBSET Orders) \ {{}},
           ReadAssign(r, targets)
    PROVE  Inv'
<1> USE DEF Operations, NamesDriver, DriverRefs
<1>1. PICK d \in Drivers :
          /\ \A o \in targets : assignable(o)
          /\ Begin(r, "assignOrder", targets, d, "NONE", <<"eligibility">>)
  BY DEF ReadAssign
<1>2. PICK todo : todo = <<"eligibility">>
  OBVIOUS
<1>3. todo \in Seq(Reads)
  BY <1>2, Awaited DEF Reads
<1>4. \A o \in targets : Legal("assignOrder", d, todo, orders[o])
  BY <1>1 DEF Legal, assignable, SeenFits, EndsRow, EndsJob, DriversOwn
<1>5. Begin(r, "assignOrder", targets, d, "NONE", todo)
  BY <1>1, <1>2
<1>6. OneTarget("assignOrder", targets)
  BY DEF OneTarget
<1> QED BY <1>3, <1>4, <1>5, <1>6, BegunFits

LEMMA ReadManagementKeepsInv ==
    ASSUME Inv, NEW r \in Requests, NEW o \in Orders, ReadManagement(r, o)
    PROVE  Inv'
<1> USE DEF Operations, NamesDriver, DriversOwn, DriverRefs
<1>1. ASSUME NEW d \in Drivers,
             orders[o].status \in REASSIGNABLE_SOURCE_STATUSES,
             orders[o].driver # NoDriver,
             NEW todo, todo = <<"assignment", "eligibility">>,
             Begin(r, "reassignOrder", {o}, d, "NONE", todo)
      PROVE  Inv'
  <2>1. todo \in Seq(Reads) /\ Awaits(todo, "assignment")
    BY <1>1, Awaited DEF Reads
  <2>2. Legal("reassignOrder", d, todo, orders[o])
    BY <1>1, <2>1 DEF Legal, SeenFits, EndsRow, EndsJob
  <2> QED BY <1>1, <2>1, <2>2, BegunOneFits
<1>2. ASSUME orders[o].driver # NoDriver,
             NEW todo, todo = <<"assignment", "entered">>,
             Begin(r, "unassignOrder", {o}, NoDriver, "NONE", todo)
      PROVE  Inv'
  <2>1. /\ todo \in Seq(Reads)
        /\ Awaits(todo, "assignment")
        /\ Awaits(todo, "entered")
    BY <1>2, Awaited DEF Reads
  <2>2. Legal("unassignOrder", NoDriver, todo, orders[o])
    BY <1>2, <2>1 DEF Legal, SeenFits, EndsRow, EndsJob
  <2> QED BY <1>2, <2>1, <2>2, BegunOneFits
<1>3. ASSUME orders[o].status = "RECEIVED",
             NEW todo, todo = <<>>,
             Begin(r, "readyOrder", {o}, NoDriver, "NONE", todo)
      PROVE  Inv'
  <2>1. todo \in Seq(Reads)
    BY <1>3, Awaited DEF Reads
  <2>2. Legal("readyOrder", NoDriver, todo, orders[o])
    BY <1>3, <2>1 DEF Legal, SeenFits, EndsRow, EndsJob
  <2> QED BY <1>3, <2>1, <2>2, BegunOneFits
<1>4. ASSUME orders[o].status = "FAILED_DELIVERY",
             NEW todo, todo = <<"assignment">>,
             Begin(r, "rescheduleOrder", {o}, NoDriver, "NONE", todo)
      PROVE  Inv'
  <2>1. todo \in Seq(Reads) /\ Awaits(todo, "assignment")
    BY <1>4, Awaited DEF Reads
  <2>2. Legal("rescheduleOrder", NoDriver, todo, orders[o])
    BY <1>4, <2>1 DEF Legal, SeenFits, EndsRow, EndsJob
  <2> QED BY <1>4, <2>1, <2>2, BegunOneFits
<1>5. ASSUME orders[o].status \in OrderStatuses \ {"DELIVERED"},
             NEW todo, todo = <<>>,
             Begin(r, "updateOrder", {o}, NoDriver, "NONE", todo)
      PROVE  Inv'
  <2>1. todo \in Seq(Reads)
    BY <1>5, Awaited DEF Reads
  <2>2. Legal("updateOrder", NoDriver, todo, orders[o])
    BY <1>5, <2>1 DEF Legal, SeenFits, EndsRow, EndsJob
  <2> QED BY <1>5, <2>1, <2>2, BegunOneFits
<1> QED BY <1>1, <1>2, <1>3, <1>4, <1>5 DEF ReadManagement

LEMMA ReadDriverKeepsInv ==
    ASSUME Inv, NEW r \in Requests, NEW o \in Orders, ReadDriver(r, o)
    PROVE  Inv'
<1> USE DEF Operations, NamesDriver, DriversOwn, DriverRefs
<1>1. PICK d : d = orders[o].driver
  OBVIOUS
<1>2. d \in Drivers
  BY <1>1, RowFits DEF Inv, OrderRow, ReadDriver
<1>3. PICK op \in DriversOwn :
          /\ Begin(r, op, {o}, d, "NONE", <<"assignment">>)
          /\ op = "pickupDriverOrder" => orders[o].status = "ASSIGNED"
          /\ op = "startDeliveryDriverOrder" =>
                orders[o].status \in START_DELIVERY_SOURCE_STATUSES
          /\ op \in {"failDriverOrder", "deliverDriverOrder"} =>
                orders[o].status = "OUT_FOR_DELIVERY"
  BY <1>1 DEF ReadDriver
<1>4. PICK todo : todo = <<"assignment">>
  OBVIOUS
<1>5. todo \in Seq(Reads)
  BY <1>4, Awaited DEF Reads
<1>6. Legal(op, d, todo, orders[o])
  BY <1>1, <1>3 DEF Legal, SeenFits, EndsRow, EndsJob
<1>7. Begin(r, op, {o}, d, "NONE", todo)
  BY <1>3, <1>4
<1> QED BY <1>2, <1>5, <1>6, <1>7, BegunOneFits

LEMMA ReadParcelKeepsInv ==
    ASSUME Inv, NEW r \in Requests, NEW o \in Orders, ReadParcel(r, o)
    PROVE  Inv'
<1> USE DEF Operations, NamesDriver, DriversOwn, DriverRefs
<1>1. ASSUME NEW d \in Drivers,
             orders[o].parcel \in {"AWAITING_ASSIGNMENT", "RESCHEDULED"},
             NEW todo, todo = <<"eligibility", "noCollection">>,
             Begin(r, "assignParcelCollectionDriver", {o}, d, "NONE", todo)
      PROVE  Inv'
  <2>1. todo \in Seq(Reads)
    BY <1>1, Awaited DEF Reads
  <2>2. Legal("assignParcelCollectionDriver", d, todo, orders[o])
    BY <1>1, <2>1 DEF Legal, SeenFits, EndsRow, EndsJob
  <2> QED BY <1>1, <2>1, <2>2, BegunOneFits
<1>2. ASSUME NEW d \in Drivers,
             loadOrderForParcelMutation(o),
             orders[o].parcel = "ASSIGNED",
             NEW todo, todo = <<"collection", "eligibility">>,
             Begin(r, "reassignParcelCollectionDriver", {o}, d, "NONE", todo)
      PROVE  Inv'
  <2>1. todo \in Seq(Reads) /\ Awaits(todo, "collection")
    BY <1>2, Awaited DEF Reads
  <2>2. orders[o].collector # NoDriver
    BY <1>2, RowFits DEF Inv, StatusFits, loadOrderForParcelMutation,
       ORDER_TERMINAL_STATUSES, OrderStatuses
  <2>3. Legal("reassignParcelCollectionDriver", d, todo, orders[o])
    BY <1>2, <2>1, <2>2 DEF Legal, SeenFits, EndsRow, EndsJob
  <2> QED BY <1>2, <2>1, <2>3, BegunOneFits
<1>3. ASSUME NEW todo, todo = <<"noCollection">>,
             Begin(r, "rescheduleParcelCollection", {o}, NoDriver, "NONE",
                   todo)
      PROVE  Inv'
  <2>1. todo \in Seq(Reads)
    BY <1>3, Awaited DEF Reads
  <2>2. Legal("rescheduleParcelCollection", NoDriver, todo, orders[o])
    BY <1>3, <2>1 DEF Legal, SeenFits, EndsRow, EndsJob
  <2> QED BY <1>3, <2>1, <2>2, BegunOneFits
<1>4. ASSUME NEW todo, todo = <<"collection">>,
             Begin(r, "confirmReceivedAtCompany", {o}, NoDriver, "NONE", todo)
      PROVE  Inv'
  <2>1. todo \in Seq(Reads) /\ Awaits(todo, "collection")
    BY <1>4, Awaited DEF Reads
  <2>2. Legal("confirmReceivedAtCompany", NoDriver, todo, orders[o])
    BY <1>4, <2>1 DEF Legal, SeenFits, EndsRow, EndsJob
  <2> QED BY <1>4, <2>1, <2>2, BegunOneFits
<1>5. ASSUME NEW d \in Drivers,
             NEW todo, todo = <<"collection">>,
             Begin(r, "markCollectedFromSender", {o}, d, "NONE", todo)
      PROVE  Inv'
  <2>1. todo \in Seq(Reads) /\ Awaits(todo, "collection")
    BY <1>5, Awaited DEF Reads
  <2>2. Legal("markCollectedFromSender", d, todo, orders[o])
    BY <1>5, <2>1 DEF Legal, SeenFits, EndsRow, EndsJob
  <2> QED BY <1>5, <2>1, <2>2, BegunOneFits
<1>6. ASSUME NEW d \in Drivers,
             NEW todo, todo = <<"collection">>,
             Begin(r, "failParcelCollection", {o}, d, "NONE", todo)
      PROVE  Inv'
  <2>1. todo \in Seq(Reads) /\ Awaits(todo, "collection")
    BY <1>6, Awaited DEF Reads
  <2>2. Legal("failParcelCollection", d, todo, orders[o])
    BY <1>6, <2>1 DEF Legal, SeenFits, EndsRow, EndsJob
  <2> QED BY <1>6, <2>1, <2>2, BegunOneFits
<1> QED BY <1>1, <1>2, <1>3, <1>4, <1>5, <1>6 DEF ReadParcel

LEMMA ReadCreateKeepsInv ==
    ASSUME Inv, NEW r \in Requests, NEW o \in Orders, ReadCreate(r, o)
    PROVE  Inv'
<1> USE DEF Operations, NamesDriver, DriversOwn
<1>1. PICK intake, d, todo :
          /\ intake \in IntakeMethods /\ d \in DriverRefs
          /\ \/ todo = <<>>
             \/ todo = <<"eligibility">>
             \/ todo = <<"eligibility", "noCollection">>
          /\ Begin(r, "createOrder", {o}, d, intake, todo)
  BY DEF ReadCreate
<1>2. intake \in {"ALREADY_AT_COMPANY", "DRIVER_COLLECTION"}
  BY <1>1, RecordsAssumption
<1>3. todo \in Seq(Reads)
  BY <1>1, Awaited DEF Reads
<1>4. Legal("createOrder", d, todo, orders[o])
  BY DEF Legal, SeenFits, EndsRow, EndsJob
<1> QED BY <1>1, <1>2, <1>3, <1>4, BegunOneFits

LEMMA AwaitedTogether ==
    ASSUME NEW s \in Seq(Reads), NEW t \in Seq(Reads)
    PROVE  /\ s \o t \in Seq(Reads)
           /\ \A x : Awaits(s, x) \/ Awaits(t, x) => Awaits(s \o t, x)
<1>1. /\ s \o t \in Seq(Reads) /\ Len(s) \in Nat /\ Len(t) \in Nat
      /\ DOMAIN s = 1 .. Len(s) /\ DOMAIN t = 1 .. Len(t)
      /\ DOMAIN (s \o t) = 1 .. Len(s) + Len(t)
      /\ \A i \in 1 .. Len(s) : (s \o t)[i] = s[i]
      /\ \A i \in 1 .. Len(t) : (s \o t)[Len(s) + i] = t[i]
  OBVIOUS
<1>2. ASSUME NEW x, Awaits(s, x)
      PROVE  Awaits(s \o t, x)
  <2>1. PICK i \in DOMAIN s : s[i] = x
    BY <1>2 DEF Awaits
  <2>2. i \in DOMAIN (s \o t) /\ (s \o t)[i] = x
    BY <1>1, <2>1
  <2> QED BY <2>2 DEF Awaits
<1>3. ASSUME NEW x, Awaits(t, x)
      PROVE  Awaits(s \o t, x)
  <2>1. PICK i \in DOMAIN t : t[i] = x
    BY <1>3 DEF Awaits
  <2>2. Len(s) + i \in DOMAIN (s \o t) /\ (s \o t)[Len(s) + i] = x
    BY <1>1, <2>1
  <2> QED BY <2>2 DEF Awaits
<1> QED BY <1>1, <1>2, <1>3

LEMMA ReadCancelKeepsInv ==
    ASSUME Inv, NEW r \in Requests, NEW o \in Orders, ReadCancel(r, o)
    PROVE  Inv'
<1> USE DEF Operations, NamesDriver, DriversOwn, DriverRefs
<1> DEFINE closesParcel == closesParcelCollectionAssignment(orders[o])
           closesDelivery == hasActiveAssignment(orders[o])
           job == IF closesParcel THEN <<"collection">> ELSE <<>>
           row == IF closesDelivery THEN <<"assignment">> ELSE <<>>
<1>1. PICK todo : /\ todo = job \o row
                  /\ Begin(r, "cancelOrder", {o}, NoDriver, "NONE", todo)
  BY DEF ReadCancel
<1>2. /\ EndsRow("cancelOrder", orders[o]) => closesDelivery
      /\ EndsJob("cancelOrder", orders[o]) => closesParcel
  BY DEF EndsRow, EndsJob
<1>3. SeenFits("cancelOrder", NoDriver, orders[o])
  BY DEF ReadCancel, SeenFits
<1> HIDE DEF closesParcel, closesDelivery
<1>4. /\ job \in Seq(Reads) /\ row \in Seq(Reads)
      /\ closesParcel => Awaits(job, "collection")
      /\ closesDelivery => Awaits(row, "assignment")
  BY Awaited DEF Reads
<1> HIDE DEF job, row
<1>5. /\ todo \in Seq(Reads)
      /\ closesDelivery => Awaits(todo, "assignment")
      /\ closesParcel => Awaits(todo, "collection")
  BY <1>1, <1>4, AwaitedTogether
<1>6. Legal("cancelOrder", NoDriver, todo, orders[o])
  BY <1>2, <1>3, <1>5 DEF Legal
<1> QED BY <1>1, <1>5, <1>6, BegunOneFits

LEMMA ReadKeepsInv ==
    ASSUME Inv, NEW r \in Requests, Read(r)
    PROVE  Inv'
BY ReadAssignKeepsInv, ReadManagementKeepsInv, ReadDriverKeepsInv,
   ReadParcelKeepsInv, ReadCreateKeepsInv, ReadCancelKeepsInv DEF Read

-----------------------------------------------------------------------------
(* The commits.                                                              *)

\* What a handler knows at its claim.
LEMMA Claims ==
    ASSUME Inv, NEW r \in Requests, requests[r] # Idle
    PROVE  /\ Target(r) \in Orders /\ Target(r) \in requests[r].targets
           /\ Seen(r) = requests[r].seen[Target(r)] /\ Seen(r) \in OrderRow
           /\ requests[r] \in Request
           /\ SeenFits(requests[r].op, requests[r].driver, Seen(r))
           /\ requests[r].op \in NamesDriver => requests[r].driver \in Drivers
           /\ requests[r].todo = <<>> =>
                 /\ EndsRow(requests[r].op, Seen(r)) =>
                       requests[r].row \in DOMAIN assignments[Target(r)]
                 /\ EndsJob(requests[r].op, Seen(r)) =>
                       requests[r].job \in DOMAIN collections[Target(r)]
                 /\ requests[r].op = "unassignOrder" =>
                       requests[r].restore
                          \in ORDER_DELIVERY_ASSIGNABLE_STATUSES
<1>1. PICK q : q = requests[r]
  OBVIOUS
<1>2. PICK o : o = Target(r)
  OBVIOUS
<1>3. o = Aim(q) /\ Seen(r) = q.seen[o]
  BY <1>1, <1>2, TargetIsAim DEF Seen
<1>4. Fitting(q, assignments[o], collections[o])
  BY <1>1, <1>3 DEF Inv, RequestsFit, RequestFits
<1>5. /\ o \in q.targets /\ o \in Orders /\ q.seen[o] \in OrderRow
      /\ RequestTyped(q)
  BY <1>3, <1>4, Aims DEF Fitting
<1>6. q.todo = <<>> => \A x : ~Awaits(q.todo, x)
  BY DEF Awaits
<1>7. SeenFits(q.op, q.driver, q.seen[o])
  BY <1>4, <1>5 DEF Fitting
<1>8. /\ q \in Request
      /\ q.op \in NamesDriver => q.driver \in Drivers
  BY <1>5 DEF RequestTyped
<1>9. q.todo = <<>> =>
         /\ EndsRow(q.op, q.seen[o]) => q.row \in DOMAIN assignments[o]
         /\ EndsJob(q.op, q.seen[o]) => q.job \in DOMAIN collections[o]
         /\ q.op = "unassignOrder" =>
               q.restore \in ORDER_DELIVERY_ASSIGNABLE_STATUSES
  BY <1>3, <1>4, <1>6 DEF Fitting
<1> QED BY <1>1, <1>2, <1>3, <1>5, <1>7, <1>8, <1>9

\* A transition that leaves the drivers and the parcel alone.
LEMMA AdvanceCommits ==
    ASSUME Inv, NEW r \in Requests, requests[r] # Idle, Finish(r),
           active' = active, NEW o, o = Target(r),
           NEW row, row = orders[o],
           NEW next \in OrderRow, Advance(r, next),
           Seen(r).status = row.status,
           NEW tries \in Seq(AttemptRow),
           attempts' = [attempts EXCEPT ![o] = tries],
           UNCHANGED <<assignments, collections, pickups>>,
           next.status \in OrderStatuses, next.driver = row.driver,
           next.parcel = row.parcel, next.collector = row.collector,
           StatusFits(next), AmountStands(next, tries),
           Step(row, next, requests[r].driver)
    PROVE  Committed(r)
<1>1. o \in Orders /\ o \in requests[r].targets
  BY Claims
<1>2. Fits(o) /\ Tabled /\ OrdersFit
  BY <1>1 DEF Inv, OrdersFit
<1> DEFINE story == Append(history[o], [from |-> row.status,
                                       to |-> next.status, at |-> 0])
<1>3. history' = [history EXCEPT ![o] = story]
      /\ orders' = [orders EXCEPT ![o] = next]
  BY DEF Advance, Moved
<1>4. story \in Seq(HistoryRow) /\ Chained(next.status, story)
  BY <1>2, StoryGoesOn DEF Fits, OrderFits, OrderRow
<1> HIDE DEF story
<1>5. Rewrites(o, next, assignments[o], collections[o], story, tries,
               pickups[o])
  BY <1>1, <1>2, <1>3 DEF Rewrites, Tabled
<1>6. CollectedFits(next, pickups[o])
  BY <1>2, CollectedStays DEF Fits, OrderFits
<1>7. OrderFits(next, assignments[o], collections[o], story, tries, pickups[o])
  BY <1>2, <1>4, <1>6 DEF Fits, OrderFits
<1> QED BY <1>1, <1>2, <1>5, <1>7, RewrittenCommits

LEMMA readyOrderCommits ==
    ASSUME Inv, NEW r \in Requests, readyOrder(r)
    PROVE  Committed(r)
<1>1. /\ requests[r] # Idle /\ requests[r].op = "readyOrder" /\ Finish(r)
      /\ active' = active /\ UNCHANGED <<assignments, collections, pickups>>
  BY DEF readyOrder, AtClaim
<1>2. PICK o, row : o \in Orders /\ o = Target(r) /\ row = orders[o]
  BY <1>1, Claims
<1>3. PICK tries : tries = attempts[o]
  OBVIOUS
<1>4. /\ row \in OrderRow /\ StatusFits(row) /\ tries \in Seq(AttemptRow)
      /\ row.status = "RECEIVED" /\ Seen(r).status = "RECEIVED"
  BY <1>1, <1>2, <1>3, Claims
     DEF readyOrder, SeenFits, Inv, OrdersFit, Fits, OrderFits
<1>5. PICK next : next = [row EXCEPT !.status = "READY_FOR_PICKUP"]
  OBVIOUS
<1>6. /\ next \in OrderRow /\ next.status = "READY_FOR_PICKUP"
      /\ next.driver = row.driver /\ next.parcel = row.parcel
      /\ next.collector = row.collector
  BY <1>4, <1>5 DEF OrderRow, Statuses, OrderStatuses
<1>7. Advance(r, next) /\ attempts' = [attempts EXCEPT ![o] = tries]
  BY <1>2, <1>3, <1>5 DEF readyOrder, Inv, OrdersFit, Tabled
<1>8. StatusFits(next) /\ AmountStands(next, tries)
  BY <1>4, <1>6 DEF StatusFits, AmountStands
<1>9. Step(row, next, requests[r].driver)
  BY <1>4, <1>6 DEF Step, InPossession, ORDER_TERMINAL_STATUSES, Travels,
     PlaceOfRow, OnTheRoad
<1> QED BY <1>1, <1>2, <1>4, <1>6, <1>7, <1>8, <1>9, AdvanceCommits
        DEF OrderStatuses

LEMMA rescheduleOrderCommits ==
    ASSUME Inv, NEW r \in Requests, rescheduleOrder(r)
    PROVE  Committed(r)
<1>1. /\ requests[r] # Idle /\ requests[r].op = "rescheduleOrder"
      /\ Finish(r) /\ active' = active
      /\ UNCHANGED <<assignments, collections, pickups>>
  BY DEF rescheduleOrder, AtClaim
<1>2. PICK o, row, seen, d :
          o \in Orders /\ o = Target(r) /\ row = orders[o] /\ seen = Seen(r)
          /\ d = requests[r].driver
  BY <1>1, Claims
<1>3. /\ row \in OrderRow /\ StatusFits(row) /\ seen \in OrderRow
      /\ seen.status = row.status /\ seen.driver = row.driver
  BY <1>1, <1>2, Claims, RowFits DEF rescheduleOrder, ClaimStatusAndDriver, Inv
<1>4. /\ row.status = "FAILED_DELIVERY"
  BY <1>1, <1>2, <1>3, Claims, DriversAreNotNull
     DEF SeenFits, NamesDriver, DriversOwn
<1>5. PICK tries : tries = attempts[o]
  OBVIOUS
<1>6. tries \in Seq(AttemptRow) /\ attempts' = [attempts EXCEPT ![o] = tries]
  BY <1>2, <1>5 DEF rescheduleOrder, Inv, OrdersFit, Fits, OrderFits, Tabled
<1>7. PICK next : next = [row EXCEPT !.status = "RESCHEDULED"]
  OBVIOUS
<1>8. /\ next \in OrderRow /\ next.status = "RESCHEDULED"
       /\ next.driver = row.driver /\ next.parcel = row.parcel
       /\ next.collector = row.collector /\ next.amount = row.amount
  BY <1>3, <1>7 DEF OrderRow, Statuses, OrderStatuses
<1>9. Advance(r, next)
  BY <1>2, <1>7 DEF rescheduleOrder
<1>10. StatusFits(next) /\ AmountStands(next, tries)
  BY <1>3, <1>4, <1>6, <1>8 DEF StatusFits, AmountStands
<1>11. Step(row, next, d)
  BY <1>3, <1>4, <1>8
     DEF Step, StatusFits, OrderRow, DriverRefs, InPossession,
         ORDER_TERMINAL_STATUSES, Travels, PlaceOfRow, OnTheRoad
<1> QED BY <1>1, <1>2, <1>3, <1>6, <1>8, <1>9, <1>10, <1>11,
           AdvanceCommits DEF OrderStatuses

LEMMA pickupDriverOrderCommits ==
    ASSUME Inv, NEW r \in Requests, pickupDriverOrder(r)
    PROVE  Committed(r)
<1>1. /\ requests[r] # Idle /\ requests[r].op = "pickupDriverOrder"
      /\ Finish(r) /\ active' = active
      /\ UNCHANGED <<assignments, collections, pickups>>
  BY DEF pickupDriverOrder, AtClaim
<1>2. PICK o, row, seen, d :
          o \in Orders /\ o = Target(r) /\ row = orders[o] /\ seen = Seen(r)
          /\ d = requests[r].driver
  BY <1>1, Claims
<1>3. /\ row \in OrderRow /\ StatusFits(row) /\ seen \in OrderRow
      /\ seen.status = row.status /\ seen.driver = row.driver
  BY <1>1, <1>2, Claims, RowFits
     DEF pickupDriverOrder, ClaimStatusAndDriver, Inv
<1>4. /\ row.status = "ASSIGNED"
      /\ d = row.driver /\ d \in Drivers /\ d # NoDriver
  BY <1>1, <1>2, <1>3, Claims, DriversAreNotNull
     DEF SeenFits, NamesDriver, DriversOwn
<1>5. PICK tries : tries = attempts[o]
  OBVIOUS
<1>6. tries \in Seq(AttemptRow) /\ attempts' = [attempts EXCEPT ![o] = tries]
  BY <1>2, <1>5 DEF pickupDriverOrder, Inv, OrdersFit, Fits, OrderFits, Tabled
<1>7. PICK next : next = [row EXCEPT !.status = "PICKED_UP"]
  OBVIOUS
<1>8. /\ next \in OrderRow /\ next.status = "PICKED_UP"
       /\ next.driver = row.driver /\ next.parcel = row.parcel
       /\ next.collector = row.collector /\ next.amount = row.amount
  BY <1>3, <1>7 DEF OrderRow, Statuses, OrderStatuses
<1>9. Advance(r, next)
  BY <1>2, <1>7 DEF pickupDriverOrder
<1>10. StatusFits(next) /\ AmountStands(next, tries)
  BY <1>3, <1>4, <1>6, <1>8 DEF StatusFits, AmountStands
<1>11. Step(row, next, d)
  BY <1>3, <1>4, <1>8
     DEF Step, StatusFits, OrderRow, DriverRefs, InPossession,
         ORDER_TERMINAL_STATUSES, Travels, PlaceOfRow, OnTheRoad
<1> QED BY <1>1, <1>2, <1>3, <1>6, <1>8, <1>9, <1>10, <1>11,
           AdvanceCommits DEF OrderStatuses

LEMMA startDeliveryDriverOrderCommits ==
    ASSUME Inv, NEW r \in Requests, startDeliveryDriverOrder(r)
    PROVE  Committed(r)
<1>1. /\ requests[r] # Idle /\ requests[r].op = "startDeliveryDriverOrder"
      /\ Finish(r) /\ active' = active
      /\ UNCHANGED <<assignments, collections, pickups>>
  BY DEF startDeliveryDriverOrder, AtClaim
<1>2. PICK o, row, seen, d :
          o \in Orders /\ o = Target(r) /\ row = orders[o] /\ seen = Seen(r)
          /\ d = requests[r].driver
  BY <1>1, Claims
<1>3. /\ row \in OrderRow /\ StatusFits(row) /\ seen \in OrderRow
      /\ seen.status = row.status /\ seen.driver = row.driver
  BY <1>1, <1>2, Claims, RowFits
     DEF startDeliveryDriverOrder, ClaimStatusAndDriver, Inv
<1>4. /\ row.status \in START_DELIVERY_SOURCE_STATUSES
      /\ d = row.driver /\ d \in Drivers /\ d # NoDriver
  BY <1>1, <1>2, <1>3, Claims, DriversAreNotNull
     DEF SeenFits, NamesDriver, DriversOwn
<1>5. PICK tries : tries = attempts[o]
  OBVIOUS
<1>6. tries \in Seq(AttemptRow) /\ attempts' = [attempts EXCEPT ![o] = tries]
  BY <1>2, <1>5 DEF startDeliveryDriverOrder, Inv, OrdersFit, Fits, OrderFits,
                   Tabled
<1>7. PICK next : next = [row EXCEPT !.status = "OUT_FOR_DELIVERY",
                              !.startedAt = Len(history[o]) + 1]
  OBVIOUS
<1>8. Len(history[o]) + 1 \in Nat
  <2>1. history[o] \in Seq(HistoryRow)
    BY <1>2 DEF Inv, OrdersFit, Fits, OrderFits
  <2> QED BY <2>1
<1>9. /\ next \in OrderRow /\ next.status = "OUT_FOR_DELIVERY"
       /\ next.driver = row.driver /\ next.parcel = row.parcel
       /\ next.collector = row.collector /\ next.amount = row.amount
  BY <1>3, <1>7, <1>8 DEF OrderRow, Statuses, OrderStatuses
<1>10. Advance(r, next)
  BY <1>2, <1>7 DEF startDeliveryDriverOrder
<1>11. StatusFits(next) /\ AmountStands(next, tries)
  BY <1>3, <1>4, <1>6, <1>9
     DEF StatusFits, AmountStands, START_DELIVERY_SOURCE_STATUSES
<1>12. Step(row, next, d)
  BY <1>3, <1>4, <1>9
     DEF Step, StatusFits, OrderRow, DriverRefs, InPossession,
         ORDER_TERMINAL_STATUSES, Travels, PlaceOfRow, OnTheRoad,
         START_DELIVERY_SOURCE_STATUSES
<1> QED BY <1>1, <1>2, <1>3, <1>6, <1>9, <1>10, <1>11, <1>12,
           AdvanceCommits DEF OrderStatuses

LEMMA failDriverOrderCommits ==
    ASSUME Inv, NEW r \in Requests, failDriverOrder(r)
    PROVE  Committed(r)
<1>1. /\ requests[r] # Idle /\ requests[r].op = "failDriverOrder"
      /\ Finish(r) /\ active' = active
      /\ UNCHANGED <<assignments, collections, pickups>>
  BY DEF failDriverOrder, AtClaim
<1>2. PICK o, row, seen, d :
          o \in Orders /\ o = Target(r) /\ row = orders[o] /\ seen = Seen(r)
          /\ d = requests[r].driver
  BY <1>1, Claims
<1>3. /\ row \in OrderRow /\ StatusFits(row) /\ seen \in OrderRow
      /\ seen.status = row.status /\ seen.driver = row.driver
  BY <1>1, <1>2, Claims, RowFits DEF failDriverOrder, ClaimStatusAndDriver, Inv
<1>4. /\ row.status = "OUT_FOR_DELIVERY"
      /\ d = row.driver /\ d \in Drivers /\ d # NoDriver
  BY <1>1, <1>2, <1>3, Claims, DriversAreNotNull
     DEF SeenFits, NamesDriver, DriversOwn
<1>5. PICK new : new = [outcome |-> "FAILED", driver |-> d,
                        expected |-> seen.amount, startedAt |-> seen.startedAt]
  OBVIOUS
<1>6. new \in AttemptRow /\ new.expected = row.amount
  BY <1>1, <1>2, <1>3, <1>4, <1>5 DEF AttemptRow, OrderRow, failDriverOrder
<1>7. PICK tries : tries = Append(attempts[o], new)
  OBVIOUS
<1>8. /\ tries \in Seq(AttemptRow) /\ tries[Len(tries)] = new
      /\ attempts' = [attempts EXCEPT ![o] = tries]
  <2>1. attempts[o] \in Seq(AttemptRow)
    BY <1>2 DEF Inv, OrdersFit, Fits, OrderFits
  <2>2. tries \in Seq(AttemptRow) /\ tries[Len(tries)] = new
    BY <1>6, <1>7, <2>1, AttemptsGoOn, Zenon
  <2> QED BY <1>2, <1>5, <1>7, <2>2 DEF failDriverOrder, Recorded
<1>9. PICK next : next = [row EXCEPT !.status = "FAILED_DELIVERY"]
  OBVIOUS
<1>10. /\ next \in OrderRow /\ next.status = "FAILED_DELIVERY"
       /\ next.driver = row.driver /\ next.parcel = row.parcel
       /\ next.collector = row.collector /\ next.amount = row.amount
  BY <1>3, <1>9 DEF OrderRow, Statuses, OrderStatuses
<1>11. Advance(r, next)
  BY <1>2, <1>9 DEF failDriverOrder
<1>12. StatusFits(next) /\ AmountStands(next, tries)
  BY <1>3, <1>4, <1>8, <1>10, <1>6 DEF StatusFits, AmountStands
<1>13. Step(row, next, d)
  BY <1>3, <1>4, <1>10
     DEF Step, StatusFits, OrderRow, DriverRefs, InPossession,
         ORDER_TERMINAL_STATUSES, Travels, PlaceOfRow, OnTheRoad
<1> QED BY <1>1, <1>2, <1>3, <1>8, <1>10, <1>11, <1>12, <1>13,
           AdvanceCommits DEF OrderStatuses

LEMMA deliverDriverOrderCommits ==
    ASSUME Inv, NEW r \in Requests, deliverDriverOrder(r)
    PROVE  Committed(r)
<1>1. /\ requests[r] # Idle /\ requests[r].op = "deliverDriverOrder"
      /\ Finish(r) /\ active' = active
      /\ UNCHANGED <<assignments, collections, pickups>>
  BY DEF deliverDriverOrder, AtClaim
<1>2. PICK o, row, seen, d :
          o \in Orders /\ o = Target(r) /\ row = orders[o] /\ seen = Seen(r)
          /\ d = requests[r].driver
  BY <1>1, Claims
<1>3. /\ row \in OrderRow /\ StatusFits(row) /\ seen \in OrderRow
      /\ seen.status = row.status /\ seen.driver = row.driver
  BY <1>1, <1>2, Claims, RowFits
     DEF deliverDriverOrder, ClaimStatusAndDriver, Inv
<1>4. /\ row.status = "OUT_FOR_DELIVERY"
      /\ d = row.driver /\ d \in Drivers /\ d # NoDriver
  BY <1>1, <1>2, <1>3, Claims, DriversAreNotNull
     DEF SeenFits, NamesDriver, DriversOwn
<1>5. PICK new : new = [outcome |-> "DELIVERED", driver |-> d,
                        expected |-> seen.amount, startedAt |-> seen.startedAt]
  OBVIOUS
<1>6. new \in AttemptRow /\ new.expected = row.amount
  BY <1>1, <1>2, <1>3, <1>4, <1>5 DEF AttemptRow, OrderRow, deliverDriverOrder
<1>7. PICK tries : tries = Append(attempts[o], new)
  OBVIOUS
<1>8. /\ tries \in Seq(AttemptRow) /\ tries[Len(tries)] = new
      /\ attempts' = [attempts EXCEPT ![o] = tries]
  <2>1. attempts[o] \in Seq(AttemptRow)
    BY <1>2 DEF Inv, OrdersFit, Fits, OrderFits
  <2>2. tries \in Seq(AttemptRow) /\ tries[Len(tries)] = new
    BY <1>6, <1>7, <2>1, AttemptsGoOn, Zenon
  <2> QED BY <1>2, <1>5, <1>7, <2>2 DEF deliverDriverOrder, Recorded
<1>9. PICK next : next = [row EXCEPT !.status = "DELIVERED"]
  OBVIOUS
<1>10. /\ next \in OrderRow /\ next.status = "DELIVERED"
       /\ next.driver = row.driver /\ next.parcel = row.parcel
       /\ next.collector = row.collector /\ next.amount = row.amount
  BY <1>3, <1>9 DEF OrderRow, Statuses, OrderStatuses
<1>11. Advance(r, next)
  BY <1>2, <1>9 DEF deliverDriverOrder
<1>12. StatusFits(next) /\ AmountStands(next, tries)
  BY <1>3, <1>4, <1>8, <1>10, <1>6 DEF StatusFits, AmountStands
<1>13. Step(row, next, d)
  BY <1>3, <1>4, <1>10
     DEF Step, StatusFits, OrderRow, DriverRefs, InPossession,
         ORDER_TERMINAL_STATUSES, Travels, PlaceOfRow, OnTheRoad
<1> QED BY <1>1, <1>2, <1>3, <1>8, <1>10, <1>11, <1>12, <1>13,
           AdvanceCommits DEF OrderStatuses

LEMMA updateOrderCommits ==
    ASSUME Inv, NEW r \in Requests, updateOrder(r)
    PROVE  Committed(r)
<1>1. /\ requests[r] # Idle /\ requests[r].op = "updateOrder"
      /\ Finish(r) /\ active' = active
      /\ UNCHANGED <<assignments, collections, history, attempts, pickups>>
  BY DEF updateOrder, AtClaim
<1>2. PICK o, row, seen, amount :
          /\ o \in Orders /\ o = Target(r) /\ row = orders[o]
          /\ seen = Seen(r) /\ amount \in Amounts
          /\ orders' = [orders EXCEPT ![o].amount = amount]
          /\ row.status = seen.status
  <2>1. PICK amount \in Amounts :
            orders' = [orders EXCEPT ![Target(r)].amount = amount]
    BY DEF updateOrder
  <2> QED BY <1>1, <2>1, Claims DEF updateOrder
<1>3. /\ Fits(o) /\ Tabled /\ OrdersFit /\ o \in requests[r].targets
      /\ row \in OrderRow /\ StatusFits(row) /\ amount \in Nat
  BY <1>1, <1>2, Claims, RowFits, RecordsAssumption DEF Inv, OrdersFit
<1>4. row.status \in OrderStatuses \ {"DELIVERED"}
  BY <1>1, <1>2, Claims DEF SeenFits
<1>5. PICK next : next = [row EXCEPT !.amount = amount]
  OBVIOUS
<1>6. /\ next \in OrderRow /\ next.status = row.status
      /\ next.driver = row.driver /\ next.parcel = row.parcel
      /\ next.collector = row.collector
  BY <1>3, <1>5 DEF OrderRow
<1>7. Rewrites(o, next, assignments[o], collections[o], history[o],
               attempts[o], pickups[o])
  BY <1>1, <1>2, <1>3, <1>5 DEF Rewrites, Tabled
<1>8. /\ StatusFits(next) /\ AmountStands(next, attempts[o])
      /\ CollectedFits(next, pickups[o])
  BY <1>2, <1>3, <1>4, <1>6, CollectedStays
     DEF StatusFits, AmountStands, Fits, OrderFits
<1>9. OrderFits(next, assignments[o], collections[o], history[o],
                attempts[o], pickups[o])
  BY <1>2, <1>3, <1>6, <1>8 DEF Fits, OrderFits
<1>10. Step(row, next, requests[r].driver)
  BY <1>6 DEF Step, Travels, PlaceOfRow, OnTheRoad
<1> QED BY <1>1, <1>2, <1>3, <1>7, <1>9, <1>10, RewrittenCommits

LEMMA reassignOrderCommits ==
    ASSUME Inv, NEW r \in Requests, reassignOrder(r)
    PROVE  Committed(r)
<1>1. /\ requests[r] # Idle /\ requests[r].op = "reassignOrder"
      /\ requests[r].todo = <<>> /\ Finish(r) /\ active' = active
      /\ UNCHANGED <<collections, attempts, pickups>>
  BY DEF reassignOrder, AtClaim
<1>2. PICK o, row, seen, d, i :
          /\ o \in Orders /\ o = Target(r) /\ row = orders[o] /\ seen = Seen(r)
          /\ d = requests[r].driver /\ i = requests[r].row
  BY <1>1, Claims
<1>3. /\ Fits(o) /\ Tabled /\ OrdersFit /\ o \in requests[r].targets
      /\ row \in OrderRow /\ StatusFits(row)
  BY <1>1, <1>2, Claims, RowFits DEF Inv, OrdersFit
<1>4. /\ row.status = seen.status /\ row.driver = seen.driver
      /\ row.status \in {"ASSIGNED", "RESCHEDULED"} /\ row.driver # NoDriver
      /\ row.parcel = "RECEIVED_AT_COMPANY"
      /\ d \in Drivers /\ d # NoDriver
  BY <1>1, <1>2, Claims, DriversAreNotNull
     DEF reassignOrder, SeenFits, NamesDriver, REASSIGNABLE_SOURCE_STATUSES
<1>5. i \in DOMAIN assignments[o] /\ assignments[o][i].current
  BY <1>1, <1>2, Claims DEF reassignOrder, EndsRow
<1>6. PICK given : given = Opened(Ended(assignments[o], i), d)
  OBVIOUS
<1>7. /\ given \in Seq(AssignmentRow) /\ PointerMatches(d, given)
      /\ DOMAIN assignments[o] \subseteq DOMAIN given
  <2>1. /\ assignments[o] \in Seq(AssignmentRow)
        /\ PointerMatches(row.driver, assignments[o])
        /\ row.driver \in DriverRefs
    BY <1>2, <1>3 DEF Fits, OrderFits, OrderRow
  <2>2. PICK ended : ended = Ended(assignments[o], i)
    OBVIOUS
  <2>3. /\ ended \in Seq(AssignmentRow) /\ CurrentRows(ended) = {}
        /\ DOMAIN ended = DOMAIN assignments[o]
    BY <1>5, <2>1, <2>2, EndedFits
  <2> QED BY <1>4, <1>6, <2>2, <2>3, OpenedFits
<1>8. PICK next : next = [row EXCEPT !.driver = d, !.status = "ASSIGNED"]
  OBVIOUS
<1>9. /\ next \in OrderRow /\ next.status = "ASSIGNED"
      /\ next.driver = d /\ next.parcel = row.parcel
      /\ next.collector = row.collector
  BY <1>3, <1>4, <1>8 DEF OrderRow, Statuses, OrderStatuses, DriverRefs
<1>10. PICK story : /\ history' = [history EXCEPT ![o] = story]
                    /\ story \in Seq(HistoryRow) /\ Chained("ASSIGNED", story)
  <2>1. /\ history[o] \in Seq(HistoryRow) /\ Chained(row.status, history[o])
        /\ row.status \in Statuses
    BY <1>2, <1>3 DEF Fits, OrderFits, OrderRow
  <2>2. CASE row.status = "ASSIGNED" /\ UNCHANGED history
    BY <1>3, <2>1, <2>2 DEF Tabled
  <2>3. CASE \E at \in requests[r].since[o] .. Len(history[o]) :
                history' = [history EXCEPT ![o] =
                                Moved(o, row.status, "ASSIGNED", at)]
    <3>1. PICK at \in requests[r].since[o] .. Len(history[o]) :
              history' = [history EXCEPT ![o] =
                              Moved(o, row.status, "ASSIGNED", at)]
      BY <2>3
    <3>2. at \in Nat
      <4>1. requests[r].since[o] \in Nat
        BY <1>1, <1>3 DEF Inv, RequestsFit, RequestFits, Fitting, RequestTyped
      <4>2. Len(history[o]) \in Nat
        BY <2>1
      <4> QED BY <3>1, <4>1, <4>2
    <3>3. PICK story : story = Moved(o, row.status, "ASSIGNED", at)
      OBVIOUS
    <3>4. story \in Seq(HistoryRow) /\ Chained("ASSIGNED", story)
      BY <2>1, <3>2, <3>3, StoryGoesOn DEF Moved, OrderStatuses
    <3> QED BY <3>1, <3>3, <3>4
  <2> QED BY <1>2, <1>4, <2>2, <2>3 DEF reassignOrder
<1>11. Rewrites(o, next, given, collections[o], story, attempts[o], pickups[o])
  BY <1>1, <1>2, <1>3, <1>6, <1>8, <1>10 DEF reassignOrder, Rewrites, Tabled
<1>12. /\ StatusFits(next) /\ AmountStands(next, attempts[o])
       /\ CollectedFits(next, pickups[o])
  BY <1>2, <1>3, <1>4, <1>9, CollectedStays
     DEF StatusFits, AmountStands, Fits, OrderFits
<1>13. OrderFits(next, given, collections[o], story, attempts[o], pickups[o])
  BY <1>2, <1>3, <1>7, <1>9, <1>10, <1>12 DEF Fits, OrderFits
<1>14. Step(row, next, d)
  BY <1>3, <1>4, <1>9 DEF Step, Travels, PlaceOfRow, OnTheRoad, InPossession,
     ORDER_TERMINAL_STATUSES, OrderRow, DriverRefs
<1> QED BY <1>1, <1>2, <1>3, <1>7, <1>11, <1>13, <1>14, RewrittenCommits

LEMMA unassignOrderCommits ==
    ASSUME Inv, NEW r \in Requests, unassignOrder(r)
    PROVE  Committed(r)
<1>1. /\ requests[r] # Idle /\ requests[r].op = "unassignOrder"
      /\ requests[r].todo = <<>> /\ Finish(r) /\ active' = active
      /\ UNCHANGED <<collections, attempts, pickups>>
  BY DEF unassignOrder, AtClaim
<1>2. PICK o, row, to, i :
          /\ o \in Orders /\ o = Target(r) /\ row = orders[o]
          /\ to = requests[r].restore /\ i = requests[r].row
  BY <1>1, Claims
<1>3. /\ Fits(o) /\ Tabled /\ OrdersFit /\ o \in requests[r].targets
      /\ row \in OrderRow /\ StatusFits(row)
  BY <1>1, <1>2, Claims, RowFits DEF Inv, OrdersFit
<1>4. /\ row.status = "ASSIGNED"
      /\ to \in {"RECEIVED", "READY_FOR_PICKUP", "RESCHEDULED"}
  BY <1>1, <1>2, Claims
     DEF unassignOrder, ORDER_DELIVERY_ASSIGNABLE_STATUSES
<1>5. i \in DOMAIN assignments[o] /\ assignments[o][i].current
  BY <1>1, <1>2, Claims DEF unassignOrder, EndsRow
<1>6. PICK given : given = Ended(assignments[o], i)
  OBVIOUS
<1>7. /\ given \in Seq(AssignmentRow) /\ PointerMatches(NoDriver, given)
      /\ DOMAIN assignments[o] \subseteq DOMAIN given
  <2>1. /\ assignments[o] \in Seq(AssignmentRow)
        /\ PointerMatches(row.driver, assignments[o])
        /\ row.driver \in DriverRefs
    BY <1>2, <1>3 DEF Fits, OrderFits, OrderRow
  <2> QED BY <1>5, <1>6, <2>1, EndedFits
<1>8. PICK next : next = [row EXCEPT !.driver = NoDriver, !.status = to]
  OBVIOUS
<1>9. /\ next \in OrderRow /\ next.status = to
      /\ next.driver = NoDriver /\ next.parcel = row.parcel
      /\ next.collector = row.collector
  BY <1>3, <1>4, <1>8 DEF OrderRow, Statuses, OrderStatuses, DriverRefs
<1>10. PICK story : story = Moved(o, "ASSIGNED", to, 0)
  OBVIOUS
<1>11. story \in Seq(HistoryRow) /\ Chained(to, story)
  <2>1. /\ history[o] \in Seq(HistoryRow) /\ Chained("ASSIGNED", history[o])
    BY <1>2, <1>3, <1>4 DEF Fits, OrderFits
  <2> QED BY <1>4, <1>10, <2>1, StoryGoesOn DEF Moved, Statuses, OrderStatuses
<1>12. Rewrites(o, next, given, collections[o], story, attempts[o], pickups[o])
  BY <1>1, <1>2, <1>3, <1>6, <1>8, <1>10 DEF unassignOrder, Rewrites, Tabled
<1>13. /\ StatusFits(next) /\ AmountStands(next, attempts[o])
       /\ CollectedFits(next, pickups[o])
  BY <1>2, <1>3, <1>4, <1>9, CollectedStays
     DEF StatusFits, AmountStands, Fits, OrderFits
<1>14. OrderFits(next, given, collections[o], story, attempts[o], pickups[o])
  BY <1>2, <1>3, <1>7, <1>9, <1>11, <1>13 DEF Fits, OrderFits
<1>15. Step(row, next, requests[r].driver)
  BY <1>3, <1>4, <1>9 DEF Step, Travels, PlaceOfRow, OnTheRoad, InPossession,
     ORDER_TERMINAL_STATUSES
<1> QED BY <1>1, <1>2, <1>3, <1>7, <1>12, <1>14, <1>15, RewrittenCommits

LEMMA cancelOrderCommits ==
    ASSUME Inv, NEW r \in Requests, cancelOrder(r)
    PROVE  Committed(r)
<1>1. /\ requests[r] # Idle /\ requests[r].op = "cancelOrder"
      /\ requests[r].todo = <<>> /\ Finish(r) /\ active' = active
      /\ UNCHANGED <<attempts, pickups>>
  BY DEF cancelOrder, AtClaim
<1>2. PICK o, row, seen, i, j :
          /\ o \in Orders /\ o = Target(r) /\ row = orders[o] /\ seen = Seen(r)
          /\ i = requests[r].row /\ j = requests[r].job
  BY <1>1, Claims
<1>3. /\ Fits(o) /\ Tabled /\ OrdersFit /\ o \in requests[r].targets
      /\ row \in OrderRow /\ StatusFits(row)
  BY <1>1, <1>2, Claims, RowFits DEF Inv, OrdersFit
<1>4. /\ row.status = seen.status /\ row.driver = seen.driver
      /\ row.parcel = seen.parcel
  BY <1>2 DEF cancelOrder, CancelClaim, ClaimStatusAndDriver
<1>5. PICK closesDelivery, closesParcel :
          /\ closesDelivery = hasActiveAssignment(seen)
          /\ closesParcel = closesParcelCollectionAssignment(seen)
  OBVIOUS
<1>6. /\ closesDelivery \in BOOLEAN /\ closesParcel \in BOOLEAN
      /\ row.status \in CANCELLABLE_STATUSES
      /\ row.parcel # "COLLECTED_FROM_SENDER"
      /\ ~closesDelivery => row.driver = NoDriver
      /\ closesParcel <=> row.parcel = "ASSIGNED"
      /\ ~closesParcel => row.collector = NoDriver
  <2>1. SeenFits("cancelOrder", requests[r].driver, seen)
    BY <1>1, <1>2, Claims
  <2>2. /\ closesDelivery \in BOOLEAN /\ closesParcel \in BOOLEAN
        /\ closesParcel <=> row.parcel = "ASSIGNED"
    BY <1>4, <1>5 DEF hasActiveAssignment, closesParcelCollectionAssignment
  <2>3. /\ row.status \in CANCELLABLE_STATUSES
        /\ row.parcel # "COLLECTED_FROM_SENDER"
        /\ ~closesDelivery => row.driver = NoDriver
    BY <1>4, <1>5, <2>1 DEF SeenFits
  <2> QED BY <1>3, <2>2, <2>3 DEF StatusFits
<1>7. PICK given : given = IF closesDelivery THEN Ended(assignments[o], i)
                                             ELSE assignments[o]
  OBVIOUS
<1>8. PICK jobs : jobs = IF closesParcel THEN Ended(collections[o], j)
                                         ELSE collections[o]
  OBVIOUS
<1>9. /\ given \in Seq(AssignmentRow) /\ PointerMatches(NoDriver, given)
      /\ DOMAIN assignments[o] \subseteq DOMAIN given
  <2>1. /\ assignments[o] \in Seq(AssignmentRow)
        /\ PointerMatches(row.driver, assignments[o])
        /\ row.driver \in DriverRefs
    BY <1>2, <1>3 DEF Fits, OrderFits, OrderRow
  <2>2. CASE closesDelivery
    <3>1. i \in DOMAIN assignments[o] /\ assignments[o][i].current
      BY <1>1, <1>2, <1>5, <2>2, Claims DEF cancelOrder, EndsRow
    <3> QED BY <1>7, <2>1, <2>2, <3>1, EndedFits
  <2>3. CASE ~closesDelivery
    BY <1>6, <1>7, <2>1, <2>3
  <2> QED BY <1>6, <2>2, <2>3
<1>10. /\ jobs \in Seq(AssignmentRow) /\ PointerMatches(NoDriver, jobs)
       /\ DOMAIN collections[o] \subseteq DOMAIN jobs
  <2>1. /\ collections[o] \in Seq(AssignmentRow)
        /\ PointerMatches(row.collector, collections[o])
        /\ row.collector \in DriverRefs
    BY <1>2, <1>3 DEF Fits, OrderFits, OrderRow
  <2>2. CASE closesParcel
    <3>1. j \in DOMAIN collections[o] /\ collections[o][j].current
      BY <1>1, <1>2, <1>5, <2>2, Claims DEF cancelOrder, EndsJob
    <3> QED BY <1>8, <2>1, <2>2, <3>1, EndedFits
  <2>3. CASE ~closesParcel
    BY <1>6, <1>8, <2>1, <2>3
  <2> QED BY <1>6, <2>2, <2>3
<1>11. PICK next : next = [row EXCEPT
           !.status = "CANCELLED",
           !.driver = IF closesDelivery THEN NoDriver ELSE @,
           !.collector = IF closesParcel THEN NoDriver ELSE @]
  OBVIOUS
<1>12. /\ next \in OrderRow /\ next.status = "CANCELLED"
       /\ next.driver = NoDriver /\ next.parcel = row.parcel
       /\ next.collector = NoDriver
  BY <1>3, <1>6, <1>11 DEF OrderRow, Statuses, OrderStatuses, DriverRefs
<1>13. PICK story : story = Moved(o, row.status, "CANCELLED", 0)
  OBVIOUS
<1>14. story \in Seq(HistoryRow) /\ Chained("CANCELLED", story)
  <2>1. /\ history[o] \in Seq(HistoryRow) /\ Chained(row.status, history[o])
        /\ row.status \in Statuses
    BY <1>2, <1>3 DEF Fits, OrderFits, OrderRow
  <2> QED BY <1>13, <2>1, StoryGoesOn DEF Moved, OrderStatuses
<1>15. Rewrites(o, next, given, jobs, story, attempts[o], pickups[o])
  <2>1. Advance(r, next)
    BY <1>2, <1>5, <1>11 DEF cancelOrder
  <2>2. /\ orders' = [orders EXCEPT ![o] = next]
        /\ history' = [history EXCEPT ![o] = story]
    BY <1>2, <1>4, <1>12, <1>13, <2>1 DEF Advance
  <2>3. assignments' = [assignments EXCEPT ![o] = given]
    BY <1>2, <1>3, <1>5, <1>7 DEF cancelOrder, Tabled
  <2>4. collections' = [collections EXCEPT ![o] = jobs]
    BY <1>2, <1>3, <1>5, <1>8 DEF cancelOrder, Tabled
  <2> QED BY <1>1, <1>2, <1>3, <2>2, <2>3, <2>4 DEF Rewrites, Tabled
<1>16. /\ StatusFits(next) /\ AmountStands(next, attempts[o])
       /\ CollectedFits(next, pickups[o])
  BY <1>2, <1>3, <1>6, <1>12, CollectedStays
     DEF StatusFits, AmountStands, Fits, OrderFits
<1>17. OrderFits(next, given, jobs, story, attempts[o], pickups[o])
  BY <1>2, <1>3, <1>9, <1>10, <1>12, <1>14, <1>16 DEF Fits, OrderFits
<1>18. Step(row, next, requests[r].driver)
  BY <1>3, <1>6, <1>12 DEF Step, Travels, PlaceOfRow, OnTheRoad, InPossession,
     ORDER_TERMINAL_STATUSES, CANCELLABLE_STATUSES, OrderRow, DriverRefs
<1> QED BY <1>1, <1>2, <1>3, <1>9, <1>10, <1>15, <1>17, <1>18,
           RewrittenCommits

LEMMA assignOrderCommits ==
    ASSUME Inv, NEW r \in Requests, assignOrder(r)
    PROVE  Committed(r)
<1>1. /\ requests[r] # Idle /\ requests[r].op = "assignOrder" /\ Finish(r)
      /\ active' = active /\ UNCHANGED <<collections, attempts, pickups>>
  BY DEF assignOrder, AtClaim
<1>2. PICK q, d, targets : /\ q = requests[r] /\ d = q.driver
                           /\ targets = q.targets
  OBVIOUS
<1>3. /\ RequestTyped(q) /\ q.op = "assignOrder"
      /\ \A o \in targets : SeenFits(q.op, d, q.seen[o])
  BY <1>1, <1>2 DEF Inv, RequestsFit, RequestFits, Fitting
<1>4. d \in Drivers /\ d # NoDriver /\ targets \subseteq Orders
  BY <1>2, <1>3, DriversAreNotNull DEF RequestTyped, NamesDriver, Request
<1>5. PICK at \in [targets -> 0 .. MaxHistory] :
          history' = [o \in Orders |-> IF o \in targets
              THEN Moved(o, q.seen[o].status, "ASSIGNED", at[o])
              ELSE history[o]]
  BY <1>2 DEF assignOrder
<1>6. Tabled /\ OrdersFit
  BY DEF Inv, OrdersFit
<1>7. ASSUME NEW o \in targets
      PROVE  /\ Fits(o)' /\ Step(orders[o], orders'[o], d)
             /\ DOMAIN assignments[o] \subseteq DOMAIN assignments'[o]
             /\ PlaceOfRow(orders'[o]) = PlaceOfRow(orders[o])
  <2>1. PICK row, next, given, story :
            /\ row = orders[o]
            /\ next = [row EXCEPT !.driver = d, !.status = "ASSIGNED"]
            /\ given = Opened(assignments[o], d)
            /\ story = Moved(o, q.seen[o].status, "ASSIGNED", at[o])
    OBVIOUS
  <2>2. /\ o \in Orders /\ Fits(o) /\ row \in OrderRow /\ StatusFits(row)
    BY <1>4, <1>6, <1>7, <2>1, RowFits DEF OrdersFit
  <2>3. /\ row.driver = NoDriver /\ row.status = q.seen[o].status
        /\ row.parcel = "RECEIVED_AT_COMPANY"
        /\ row.status \in {"RECEIVED", "READY_FOR_PICKUP", "RESCHEDULED"}
    BY <1>2, <1>3, <1>7, <2>1
       DEF assignOrder, SeenFits, ORDER_DELIVERY_ASSIGNABLE_STATUSES
  <2>4. /\ orders'[o] = next /\ assignments'[o] = given /\ history'[o] = story
        /\ collections'[o] = collections[o] /\ attempts'[o] = attempts[o]
        /\ pickups'[o] = pickups[o]
    BY <1>1, <1>2, <1>5, <1>7, <2>1, <2>2 DEF assignOrder
  <2>5. /\ next \in OrderRow /\ next.status = "ASSIGNED" /\ next.driver = d
        /\ next.parcel = row.parcel /\ next.collector = row.collector
    BY <1>4, <2>1, <2>2 DEF OrderRow, Statuses, OrderStatuses, DriverRefs
  <2>6. /\ given \in Seq(AssignmentRow) /\ PointerMatches(d, given)
        /\ DOMAIN assignments[o] \subseteq DOMAIN given
    <3>1. /\ assignments[o] \in Seq(AssignmentRow)
          /\ CurrentRows(assignments[o]) = {}
      BY <2>1, <2>2, <2>3 DEF Fits, OrderFits, PointerMatches
    <3> QED BY <1>4, <2>1, <3>1, OpenedFits
  <2>7. story \in Seq(HistoryRow) /\ Chained("ASSIGNED", story)
    <3>1. /\ history[o] \in Seq(HistoryRow) /\ Chained(row.status, history[o])
          /\ row.status \in Statuses
      BY <2>1, <2>2 DEF Fits, OrderFits, OrderRow
    <3>2. at[o] \in Nat
      BY <1>5, <1>7, RecordsAssumption
    <3> QED BY <2>1, <2>3, <3>1, <3>2, StoryGoesOn DEF Moved, OrderStatuses
  <2>8. /\ StatusFits(next) /\ AmountStands(next, attempts[o])
        /\ CollectedFits(next, pickups[o])
    <3>1. StatusFits(next)
      BY <1>4, <2>2, <2>3, <2>5 DEF StatusFits
    <3>2. AmountStands(next, attempts[o])
      BY <2>5 DEF AmountStands
    <3>3. CollectedFits(row, pickups[o])
      BY <2>1, <2>2 DEF Fits, OrderFits
    <3> QED BY <2>5, <3>1, <3>2, <3>3, CollectedStays
  <2>9. OrderFits(next, given, collections[o], story, attempts[o], pickups[o])
    BY <2>1, <2>2, <2>5, <2>6, <2>7, <2>8 DEF Fits, OrderFits
  <2>10. PlaceOfRow(next) = PlaceOfRow(row)
    BY <2>3, <2>5 DEF PlaceOfRow, OnTheRoad
  <2>11. Step(row, next, d)
    BY <2>3, <2>5, <2>10
       DEF Step, Travels, InPossession, ORDER_TERMINAL_STATUSES
  <2> QED BY <2>1, <2>4, <2>6, <2>9, <2>10, <2>11 DEF Fits
<1>8. \A o \in Orders \ targets :
          /\ orders'[o] = orders[o] /\ assignments'[o] = assignments[o]
          /\ collections'[o] = collections[o] /\ history'[o] = history[o]
          /\ attempts'[o] = attempts[o] /\ pickups'[o] = pickups[o]
  BY <1>1, <1>2, <1>5 DEF assignOrder
<1>9. Tabled'
  BY <1>1, <1>2, <1>5, <1>6 DEF assignOrder, Tabled
<1>10. ASSUME NEW o \in Orders PROVE Fits(o)'
  BY <1>6, <1>7, <1>8 DEF Fits, OrdersFit
<1>11. OrdersFit'
  BY <1>9, <1>10 DEF OrdersFit
<1>12. \A o \in Orders :
          /\ DOMAIN assignments[o] \subseteq DOMAIN assignments'[o]
          /\ DOMAIN collections[o] \subseteq DOMAIN collections'[o]
          /\ \/ orders'[o] = orders[o]
             \/ o \in targets /\ Step(orders[o], orders'[o], d)
          /\ PlaceOfRow(orders'[o]) = PlaceOfRow(orders[o])
  BY <1>1, <1>7, <1>8
<1> QED BY <1>1, <1>2, <1>11, <1>12 DEF Committed

\* The rows a created order starts with.
Received == [from |-> "NONE", to |-> "RECEIVED", at |-> 0]
Entered == [from |-> "RECEIVED", to |-> "ASSIGNED", at |-> 0]

LEMMA FirstStory ==
    /\ <<Received>> \in Seq(HistoryRow) /\ Chained("RECEIVED", <<Received>>)
    /\ <<Received, Entered>> \in Seq(HistoryRow)
    /\ Chained("ASSIGNED", <<Received, Entered>>)
<1>1. /\ Received \in HistoryRow /\ Received.from = "NONE"
      /\ Received.to = "RECEIVED"
      /\ Entered \in HistoryRow /\ Entered.from = "RECEIVED"
      /\ Entered.to = "ASSIGNED"
  BY DEF HistoryRow, Statuses, OrderStatuses, Received, Entered
<1>2. PICK short, long : short = <<Received>> /\ long = <<Received, Entered>>
  OBVIOUS
<1>3. /\ short \in Seq(HistoryRow) /\ Len(short) = 1 /\ short # <<>>
      /\ DOMAIN short = {1} /\ short[1] = Received
  BY <1>1, <1>2
<1>4. /\ long \in Seq(HistoryRow) /\ Len(long) = 2 /\ long # <<>>
      /\ DOMAIN long = {1, 2} /\ long[1] = Received /\ long[2] = Entered
  BY <1>1, <1>2
<1>5. Chained("RECEIVED", short)
  BY <1>1, <1>3 DEF Chained
<1>6. Chained("ASSIGNED", long)
  <2>1. "ASSIGNED" = long[Len(long)].to
    BY <1>1, <1>4
  <2>2. long[1].from = "NONE" /\ long[2].from = long[2 - 1].to
    BY <1>1, <1>4
  <2> QED BY <1>4, <2>1, <2>2 DEF Chained
<1> QED BY <1>2, <1>3, <1>4, <1>5, <1>6

Created(o, d, next, given, jobs, story) ==
    \/ /\ next.parcel \in {"RECEIVED_AT_COMPANY", "AWAITING_ASSIGNMENT"}
       /\ next.status = "RECEIVED" /\ story = <<Received>>
       /\ next.driver = NoDriver /\ given = assignments[o]
       /\ next.collector = NoDriver /\ jobs = collections[o]
    \/ /\ next.parcel = "RECEIVED_AT_COMPANY" /\ d \in Drivers
       /\ next.status = "ASSIGNED" /\ story = <<Received, Entered>>
       /\ next.driver = d /\ given = Opened(assignments[o], d)
       /\ next.collector = NoDriver /\ jobs = collections[o]
    \/ /\ next.parcel = "ASSIGNED" /\ d \in Drivers
       /\ next.status = "RECEIVED" /\ story = <<Received>>
       /\ next.driver = NoDriver /\ given = assignments[o]
       /\ next.collector = d /\ jobs = Opened(collections[o], d)

LEMMA CreatedCommits ==
    ASSUME Inv, NEW r \in Requests, requests[r] # Idle, Finish(r),
           active' = active, NEW o, o = Target(r), orders[o] = NoOrder,
           NEW d, NEW next \in OrderRow, NEW given, NEW jobs, NEW story,
           Created(o, d, next, given, jobs, story),
           Rewrites(o, next, given, jobs, story, attempts[o], pickups[o])
    PROVE  Committed(r)
<1>1. PICK row : row = orders[o]
  OBVIOUS
<1>2. /\ Fits(o) /\ Tabled /\ OrdersFit /\ o \in requests[r].targets
      /\ o \in Orders
  BY Claims DEF Inv, OrdersFit
<1>3. /\ row.status = "NONE" /\ row.driver = NoDriver
      /\ row.collector = NoDriver /\ row.parcel = "AWAITING_ASSIGNMENT"
  BY <1>1 DEF NoOrder
<1>4. /\ assignments[o] \in Seq(AssignmentRow)
      /\ CurrentRows(assignments[o]) = {}
      /\ PointerMatches(NoDriver, assignments[o])
      /\ collections[o] \in Seq(AssignmentRow)
      /\ CurrentRows(collections[o]) = {}
      /\ PointerMatches(NoDriver, collections[o])
      /\ attempts[o] \in Seq(AttemptRow) /\ pickups[o] \in Seq(PickupRow)
      /\ CollectedFits(row, pickups[o])
  BY <1>1, <1>2, <1>3 DEF Fits, OrderFits, PointerMatches
<1>5. PICK given0, jobs0 : given0 = assignments[o] /\ jobs0 = collections[o]
  OBVIOUS
<1>6. d \in Drivers =>
          /\ d # NoDriver
          /\ Opened(given0, d) \in Seq(AssignmentRow)
          /\ PointerMatches(d, Opened(given0, d))
          /\ DOMAIN given0 \subseteq DOMAIN Opened(given0, d)
          /\ Opened(jobs0, d) \in Seq(AssignmentRow)
          /\ PointerMatches(d, Opened(jobs0, d))
          /\ DOMAIN jobs0 \subseteq DOMAIN Opened(jobs0, d)
  BY <1>4, <1>5, OpenedFits, DriversAreNotNull
<1>7. /\ given \in Seq(AssignmentRow) /\ PointerMatches(next.driver, given)
      /\ jobs \in Seq(AssignmentRow) /\ PointerMatches(next.collector, jobs)
      /\ DOMAIN assignments[o] \subseteq DOMAIN given
      /\ DOMAIN collections[o] \subseteq DOMAIN jobs
  BY <1>4, <1>5, <1>6 DEF Created
<1>8. story \in Seq(HistoryRow) /\ Chained(next.status, story)
  BY FirstStory, Zenon DEF Created
<1>9. StatusFits(next) /\ AmountStands(next, attempts[o])
  BY <1>6 DEF Created, StatusFits, AmountStands
<1>10. CollectedFits(next, pickups[o])
  BY <1>3, <1>4, CollectedStays DEF Created
<1>11. OrderFits(next, given, jobs, story, attempts[o], pickups[o])
  BY <1>4, <1>7, <1>8, <1>9, <1>10 DEF OrderFits
<1>12. Step(row, next, requests[r].driver)
  BY <1>3 DEF Created, Step, Travels, PlaceOfRow, OnTheRoad, InPossession,
     ORDER_TERMINAL_STATUSES
<1> QED BY <1>1, <1>2, <1>7, <1>11, <1>12, RewrittenCommits

LEMMA createOrderCommits ==
    ASSUME Inv, NEW r \in Requests, createOrder(r)
    PROVE  Committed(r)
<1>1. /\ requests[r] # Idle /\ Finish(r) /\ active' = active
      /\ UNCHANGED <<attempts, pickups>>
  BY DEF createOrder, AtClaim
<1>2. PICK o, d : /\ o \in Orders /\ o = Target(r) /\ d = requests[r].driver
  BY <1>1, Claims
<1>3. /\ d \in DriverRefs /\ Tabled /\ orders[o] = NoOrder
  BY <1>1, <1>2, Claims DEF Inv, OrdersFit, Request, createOrder
<1> DEFINE created(amount) ==
               [NoOrder EXCEPT !.status = "RECEIVED", !.amount = amount]
           present(amount) ==
               [created(amount) EXCEPT !.parcel = "RECEIVED_AT_COMPANY"]
           given(amount) ==
               [present(amount) EXCEPT !.status = "ASSIGNED", !.driver = d]
           fetched(amount) ==
               [created(amount) EXCEPT !.parcel = "ASSIGNED", !.collector = d]
<1>4. PICK amount \in Amounts :
          \/ /\ \/ orders' = [orders EXCEPT ![o] = present(amount)]
                \/ orders' = [orders EXCEPT ![o] = created(amount)]
             /\ history' = [history EXCEPT ![o] = <<Received>>]
             /\ UNCHANGED <<assignments, collections>>
          \/ /\ d # NoDriver
             /\ orders' = [orders EXCEPT ![o] = given(amount)]
             /\ history' = [history EXCEPT ![o] = <<Received, Entered>>]
             /\ assignments' = [assignments EXCEPT ![o] = Opened(@, d)]
             /\ UNCHANGED collections
          \/ /\ d # NoDriver
             /\ orders' = [orders EXCEPT ![o] = fetched(amount)]
             /\ history' = [history EXCEPT ![o] = <<Received>>]
             /\ collections' = [collections EXCEPT ![o] = Opened(@, d)]
             /\ UNCHANGED assignments
  BY <1>2 DEF createOrder, Received, Entered
<1>5. amount \in Nat
  BY RecordsAssumption
<1> HIDE DEF created, present, given, fetched
<1>6. CASE /\ \/ orders' = [orders EXCEPT ![o] = present(amount)]
              \/ orders' = [orders EXCEPT ![o] = created(amount)]
           /\ history' = [history EXCEPT ![o] = <<Received>>]
           /\ UNCHANGED <<assignments, collections>>
  <2>1. PICK next : /\ next \in {present(amount), created(amount)}
                    /\ orders' = [orders EXCEPT ![o] = next]
    BY <1>6
  <2>2. /\ next \in OrderRow /\ next.status = "RECEIVED"
        /\ next.parcel \in {"RECEIVED_AT_COMPANY", "AWAITING_ASSIGNMENT"}
        /\ next.driver = NoDriver /\ next.collector = NoDriver
    <3> USE DEF NoOrder, OrderRow, Statuses, OrderStatuses, ParcelStatuses,
                DriverRefs
    <3>1. CASE next = created(amount)
      BY <1>5, <3>1 DEF created
    <3>2. CASE next = present(amount)
      BY <1>5, <3>2 DEF created, present
    <3> QED BY <2>1, <3>1, <3>2
  <2>3. PICK story : story = <<Received>>
    OBVIOUS
  <2>4. Created(o, d, next, assignments[o], collections[o], story)
    BY <2>2, <2>3 DEF Created
  <2>5. Rewrites(o, next, assignments[o], collections[o], story, attempts[o],
                 pickups[o])
    BY <1>1, <1>3, <1>6, <2>1, <2>3 DEF Rewrites, Tabled
  <2> QED BY <1>1, <1>2, <1>3, <2>2, <2>4, <2>5, CreatedCommits
<1>7. CASE /\ d # NoDriver
           /\ orders' = [orders EXCEPT ![o] = given(amount)]
           /\ history' = [history EXCEPT ![o] = <<Received, Entered>>]
           /\ assignments' = [assignments EXCEPT ![o] = Opened(@, d)]
           /\ UNCHANGED collections
  <2>1. PICK next, story, more :
            /\ next = given(amount) /\ story = <<Received, Entered>>
            /\ more = Opened(assignments[o], d)
    OBVIOUS
  <2>2. /\ next \in OrderRow /\ next.status = "ASSIGNED"
        /\ next.parcel = "RECEIVED_AT_COMPANY" /\ d \in Drivers
        /\ next.driver = d /\ next.collector = NoDriver
    BY <1>3, <1>5, <1>7, <2>1 DEF created, present, given, NoOrder, OrderRow,
       Statuses, OrderStatuses, ParcelStatuses, DriverRefs
  <2>3. Created(o, d, next, more, collections[o], story)
    BY <2>1, <2>2 DEF Created
  <2>4. Rewrites(o, next, more, collections[o], story, attempts[o], pickups[o])
    BY <1>1, <1>3, <1>7, <2>1 DEF Rewrites, Tabled
  <2> QED BY <1>1, <1>2, <1>3, <2>2, <2>3, <2>4, CreatedCommits
<1>8. CASE /\ d # NoDriver
           /\ orders' = [orders EXCEPT ![o] = fetched(amount)]
           /\ history' = [history EXCEPT ![o] = <<Received>>]
           /\ collections' = [collections EXCEPT ![o] = Opened(@, d)]
           /\ UNCHANGED assignments
  <2>1. PICK next, story, more :
            /\ next = fetched(amount) /\ story = <<Received>>
            /\ more = Opened(collections[o], d)
    OBVIOUS
  <2>2. /\ next \in OrderRow /\ next.status = "RECEIVED"
        /\ next.parcel = "ASSIGNED" /\ d \in Drivers
        /\ next.driver = NoDriver /\ next.collector = d
    BY <1>3, <1>5, <1>8, <2>1 DEF created, fetched, NoOrder, OrderRow,
       Statuses, OrderStatuses, ParcelStatuses, DriverRefs
  <2>3. Created(o, d, next, assignments[o], more, story)
    BY <2>1, <2>2 DEF Created
  <2>4. Rewrites(o, next, assignments[o], more, story, attempts[o], pickups[o])
    BY <1>1, <1>3, <1>8, <2>1 DEF Rewrites, Tabled
  <2> QED BY <1>1, <1>2, <1>3, <2>2, <2>3, <2>4, CreatedCommits
<1> QED BY <1>4, <1>6, <1>7, <1>8

LEMMA ParcelCommits ==
    ASSUME Inv, NEW r \in Requests, requests[r] # Idle, Finish(r),
           active' = active, UNCHANGED <<assignments, history, attempts>>,
           NEW o, o = Target(r), NEW row, row = orders[o],
           NEW next \in OrderRow, orders' = [orders EXCEPT ![o] = next],
           NEW jobs \in Seq(AssignmentRow),
           collections' = [collections EXCEPT ![o] = jobs],
           PointerMatches(next.collector, jobs),
           DOMAIN collections[o] \subseteq DOMAIN jobs,
           NEW fetches \in Seq(PickupRow),
           pickups' = [pickups EXCEPT ![o] = fetches],
           CollectedFits(next, fetches), StatusFits(next),
           next.status = row.status, next.driver = row.driver,
           next.amount = row.amount, Travels(PlaceOfRow(row), PlaceOfRow(next))
    PROVE  Committed(r)
<1>1. o \in Orders /\ o \in requests[r].targets
  BY Claims
<1>2. Fits(o) /\ Tabled /\ OrdersFit
  BY <1>1 DEF Inv, OrdersFit
<1>3. Rewrites(o, next, assignments[o], jobs, history[o], attempts[o], fetches)
  BY <1>1, <1>2 DEF Rewrites, Tabled
<1>4. AmountStands(next, attempts[o])
  BY <1>2 DEF AmountStands, Fits, OrderFits
<1>5. OrderFits(next, assignments[o], jobs, history[o], attempts[o], fetches)
  BY <1>2, <1>4 DEF Fits, OrderFits
<1>6. Step(row, next, requests[r].driver)
  BY DEF Step
<1> QED BY <1>1, <1>2, <1>3, <1>5, <1>6, RewrittenCommits

LEMMA assignParcelCollectionDriverCommits ==
    ASSUME Inv, NEW r \in Requests, assignParcelCollectionDriver(r)
    PROVE  Committed(r)
<1>1. /\ requests[r] # Idle
      /\ requests[r].op = "assignParcelCollectionDriver"
      /\ requests[r].todo = <<>> /\ Finish(r) /\ active' = active
      /\ UNCHANGED <<assignments, history, attempts>>
  BY DEF assignParcelCollectionDriver, AtClaim
<1>2. PICK o, row, d, j :
          /\ o \in Orders /\ o = Target(r) /\ row = orders[o]
          /\ d = requests[r].driver /\ j = requests[r].job
  BY <1>1, Claims
<1>3. /\ Fits(o) /\ Tabled /\ row \in OrderRow /\ StatusFits(row)
      /\ collections[o] \in Seq(AssignmentRow)
      /\ PointerMatches(row.collector, collections[o])
      /\ pickups[o] \in Seq(PickupRow) /\ CollectedFits(row, pickups[o])
  BY <1>2, RowFits DEF Inv, OrdersFit, Fits, OrderFits
<1>4. /\ row.collector = NoDriver
      /\ row.parcel \in {"AWAITING_ASSIGNMENT", "RESCHEDULED"}
      /\ d \in Drivers /\ d # NoDriver
  BY <1>1, <1>2, <1>3, Claims, DriversAreNotNull
     DEF assignParcelCollectionDriver, SeenFits, NamesDriver, OwnJob,
         StatusFits
<1>5. PICK next, jobs, fetches :
          /\ next = [row EXCEPT !.collector = d, !.parcel = "ASSIGNED"]
          /\ jobs = Opened(collections[o], d)
          /\ fetches = pickups[o]
  OBVIOUS
<1>6. /\ next \in OrderRow /\ next.status = row.status
      /\ next.driver = row.driver /\ next.amount = row.amount
      /\ next.parcel = "ASSIGNED"
      /\ next.collector = d
  BY <1>3, <1>4, <1>5 DEF OrderRow, ParcelStatuses, DriverRefs
<1>7. /\ jobs \in Seq(AssignmentRow)
       /\ PointerMatches(next.collector, jobs)
       /\ DOMAIN collections[o] \subseteq DOMAIN jobs
  <2>1. CurrentRows(collections[o]) = {}
    BY <1>3, <1>4 DEF PointerMatches
  <2> QED BY <1>3, <1>4, <1>5, <1>6, <2>1, OpenedFits
<1>8. fetches \in Seq(PickupRow) /\ CollectedFits(next, fetches)
  BY <1>3, <1>4, <1>5, <1>6, CollectedStays
<1>9. /\ StatusFits(next)
       /\ Travels(PlaceOfRow(row), PlaceOfRow(next))
  BY <1>3, <1>4, <1>6, DriversAreNotNull
     DEF StatusFits, Travels, PlaceOfRow, OnTheRoad, OrderRow, DriverRefs
<1>10. /\ orders' = [orders EXCEPT ![o] = next]
       /\ collections' = [collections EXCEPT ![o] = jobs]
       /\ pickups' = [pickups EXCEPT ![o] = fetches]
  BY <1>2, <1>3, <1>5 DEF assignParcelCollectionDriver, Tabled
<1> QED BY <1>1, <1>2, <1>6, <1>7, <1>8, <1>9, <1>10, ParcelCommits

LEMMA reassignParcelCollectionDriverCommits ==
    ASSUME Inv, NEW r \in Requests, reassignParcelCollectionDriver(r)
    PROVE  Committed(r)
<1>1. /\ requests[r] # Idle
      /\ requests[r].op = "reassignParcelCollectionDriver"
      /\ requests[r].todo = <<>> /\ Finish(r) /\ active' = active
      /\ UNCHANGED <<assignments, history, attempts>>
  BY DEF reassignParcelCollectionDriver, AtClaim
<1>2. PICK o, row, d, j :
          /\ o \in Orders /\ o = Target(r) /\ row = orders[o]
          /\ d = requests[r].driver /\ j = requests[r].job
  BY <1>1, Claims
<1>3. /\ Fits(o) /\ Tabled /\ row \in OrderRow /\ StatusFits(row)
      /\ collections[o] \in Seq(AssignmentRow)
      /\ PointerMatches(row.collector, collections[o])
      /\ pickups[o] \in Seq(PickupRow) /\ CollectedFits(row, pickups[o])
  BY <1>2, RowFits DEF Inv, OrdersFit, Fits, OrderFits
<1>4. /\ row.parcel = "ASSIGNED"
      /\ d \in Drivers /\ d # NoDriver
      /\ row.collector # NoDriver
  BY <1>1, <1>2, <1>3, Claims, DriversAreNotNull
     DEF reassignParcelCollectionDriver, SeenFits, NamesDriver, OwnJob,
         StatusFits
<1>5. j \in DOMAIN collections[o] /\ collections[o][j].current
  BY <1>1, <1>2, Claims DEF reassignParcelCollectionDriver, EndsJob
<1>6. PICK next, jobs, fetches :
          /\ next = [row EXCEPT !.collector = d]
          /\ jobs = Opened(Ended(collections[o], j), d)
          /\ fetches = pickups[o]
  OBVIOUS
<1>7. /\ next \in OrderRow /\ next.status = row.status
      /\ next.driver = row.driver /\ next.amount = row.amount
      /\ next.parcel = row.parcel
      /\ next.collector = d
  BY <1>3, <1>4, <1>6 DEF OrderRow, ParcelStatuses, DriverRefs
<1>8. /\ jobs \in Seq(AssignmentRow)
       /\ PointerMatches(next.collector, jobs)
       /\ DOMAIN collections[o] \subseteq DOMAIN jobs
  <2>1. PICK ended : ended = Ended(collections[o], j)
    OBVIOUS
  <2>2. /\ ended \in Seq(AssignmentRow) /\ CurrentRows(ended) = {}
        /\ DOMAIN ended = DOMAIN collections[o]
    BY <1>3, <1>5, <2>1, EndedFits DEF OrderRow
  <2> QED BY <1>4, <1>6, <1>7, <2>1, <2>2, OpenedFits
<1>9. fetches \in Seq(PickupRow) /\ CollectedFits(next, fetches)
  BY <1>3, <1>4, <1>6, <1>7, CollectedStays
<1>10. /\ StatusFits(next)
       /\ Travels(PlaceOfRow(row), PlaceOfRow(next))
  BY <1>3, <1>4, <1>7, DriversAreNotNull
     DEF StatusFits, Travels, PlaceOfRow, OnTheRoad, OrderRow, DriverRefs
<1>11. /\ orders' = [orders EXCEPT ![o] = next]
       /\ collections' = [collections EXCEPT ![o] = jobs]
       /\ pickups' = [pickups EXCEPT ![o] = fetches]
  BY <1>2, <1>3, <1>6 DEF reassignParcelCollectionDriver, Tabled
<1> QED BY <1>1, <1>2, <1>7, <1>8, <1>9, <1>10, <1>11, ParcelCommits

LEMMA rescheduleParcelCollectionCommits ==
    ASSUME Inv, NEW r \in Requests, rescheduleParcelCollection(r)
    PROVE  Committed(r)
<1>1. /\ requests[r] # Idle
      /\ requests[r].op = "rescheduleParcelCollection"
      /\ requests[r].todo = <<>> /\ Finish(r) /\ active' = active
      /\ UNCHANGED <<assignments, history, attempts>>
  BY DEF rescheduleParcelCollection, AtClaim
<1>2. PICK o, row, d, j :
          /\ o \in Orders /\ o = Target(r) /\ row = orders[o]
          /\ d = requests[r].driver /\ j = requests[r].job
  BY <1>1, Claims
<1>3. /\ Fits(o) /\ Tabled /\ row \in OrderRow /\ StatusFits(row)
      /\ collections[o] \in Seq(AssignmentRow)
      /\ PointerMatches(row.collector, collections[o])
      /\ pickups[o] \in Seq(PickupRow) /\ CollectedFits(row, pickups[o])
  BY <1>2, RowFits DEF Inv, OrdersFit, Fits, OrderFits
<1>4. row.parcel = "FAILED" /\ row.collector = NoDriver
  BY <1>1, <1>2, <1>3, Claims, DriversAreNotNull
     DEF rescheduleParcelCollection, SeenFits, NamesDriver, OwnJob, StatusFits
<1>5. PICK next, jobs, fetches :
          /\ next = [row EXCEPT !.parcel = "RESCHEDULED"]
          /\ jobs = collections[o]
          /\ fetches = pickups[o]
  OBVIOUS
<1>6. /\ next \in OrderRow /\ next.status = row.status
      /\ next.driver = row.driver /\ next.amount = row.amount
      /\ next.parcel = "RESCHEDULED"
      /\ next.collector = row.collector
  BY <1>3, <1>4, <1>5 DEF OrderRow, ParcelStatuses, DriverRefs
<1>7. /\ jobs \in Seq(AssignmentRow)
       /\ PointerMatches(next.collector, jobs)
       /\ DOMAIN collections[o] \subseteq DOMAIN jobs
  BY <1>3, <1>4, <1>5, <1>6
<1>8. fetches \in Seq(PickupRow) /\ CollectedFits(next, fetches)
  BY <1>3, <1>4, <1>5, <1>6, CollectedStays
<1>9. /\ StatusFits(next)
       /\ Travels(PlaceOfRow(row), PlaceOfRow(next))
  BY <1>3, <1>4, <1>6, DriversAreNotNull
     DEF StatusFits, Travels, PlaceOfRow, OnTheRoad, OrderRow, DriverRefs
<1>10. /\ orders' = [orders EXCEPT ![o] = next]
       /\ collections' = [collections EXCEPT ![o] = jobs]
       /\ pickups' = [pickups EXCEPT ![o] = fetches]
  BY <1>2, <1>3, <1>5 DEF rescheduleParcelCollection, Tabled
<1> QED BY <1>1, <1>2, <1>6, <1>7, <1>8, <1>9, <1>10, ParcelCommits

LEMMA confirmReceivedAtCompanyCommits ==
    ASSUME Inv, NEW r \in Requests, confirmReceivedAtCompany(r)
    PROVE  Committed(r)
<1>1. /\ requests[r] # Idle
      /\ requests[r].op = "confirmReceivedAtCompany"
      /\ requests[r].todo = <<>> /\ Finish(r) /\ active' = active
      /\ UNCHANGED <<assignments, history, attempts>>
  BY DEF confirmReceivedAtCompany, AtClaim
<1>2. PICK o, row, d, j :
          /\ o \in Orders /\ o = Target(r) /\ row = orders[o]
          /\ d = requests[r].driver /\ j = requests[r].job
  BY <1>1, Claims
<1>3. /\ Fits(o) /\ Tabled /\ row \in OrderRow /\ StatusFits(row)
      /\ collections[o] \in Seq(AssignmentRow)
      /\ PointerMatches(row.collector, collections[o])
      /\ pickups[o] \in Seq(PickupRow) /\ CollectedFits(row, pickups[o])
  BY <1>2, RowFits DEF Inv, OrdersFit, Fits, OrderFits
<1>4. row.parcel = "COLLECTED_FROM_SENDER"
  BY <1>1, <1>2, <1>3, Claims, DriversAreNotNull
     DEF confirmReceivedAtCompany, SeenFits, NamesDriver, OwnJob, StatusFits
<1>5. j \in DOMAIN collections[o] /\ collections[o][j].current
  BY <1>1, <1>2, Claims DEF confirmReceivedAtCompany, EndsJob
<1>6. PICK next, jobs, fetches :
          /\ next = [row EXCEPT !.parcel = "RECEIVED_AT_COMPANY",
                             !.collector = NoDriver]
          /\ jobs = Ended(collections[o], j)
          /\ fetches = pickups[o]
  OBVIOUS
<1>7. /\ next \in OrderRow /\ next.status = row.status
      /\ next.driver = row.driver /\ next.amount = row.amount
      /\ next.parcel = "RECEIVED_AT_COMPANY"
      /\ next.collector = NoDriver
  BY <1>3, <1>4, <1>6 DEF OrderRow, ParcelStatuses, DriverRefs
<1>8. /\ jobs \in Seq(AssignmentRow)
       /\ PointerMatches(next.collector, jobs)
       /\ DOMAIN collections[o] \subseteq DOMAIN jobs
  BY <1>3, <1>5, <1>6, <1>7, EndedFits DEF OrderRow
<1>9. fetches \in Seq(PickupRow) /\ CollectedFits(next, fetches)
  BY <1>3, <1>4, <1>6, <1>7, CollectedStays
<1>10. /\ StatusFits(next)
       /\ Travels(PlaceOfRow(row), PlaceOfRow(next))
  BY <1>3, <1>4, <1>7, DriversAreNotNull
     DEF StatusFits, Travels, PlaceOfRow, OnTheRoad, OrderRow, DriverRefs
<1>11. /\ orders' = [orders EXCEPT ![o] = next]
       /\ collections' = [collections EXCEPT ![o] = jobs]
       /\ pickups' = [pickups EXCEPT ![o] = fetches]
  BY <1>2, <1>3, <1>6 DEF confirmReceivedAtCompany, Tabled
<1> QED BY <1>1, <1>2, <1>7, <1>8, <1>9, <1>10, <1>11, ParcelCommits

LEMMA markCollectedFromSenderCommits ==
    ASSUME Inv, NEW r \in Requests, markCollectedFromSender(r)
    PROVE  Committed(r)
<1>1. /\ requests[r] # Idle
      /\ requests[r].op = "markCollectedFromSender"
      /\ requests[r].todo = <<>> /\ Finish(r) /\ active' = active
      /\ UNCHANGED <<assignments, history, attempts>>
  BY DEF markCollectedFromSender, AtClaim
<1>2. PICK o, row, d, j :
          /\ o \in Orders /\ o = Target(r) /\ row = orders[o]
          /\ d = requests[r].driver /\ j = requests[r].job
  BY <1>1, Claims
<1>3. /\ Fits(o) /\ Tabled /\ row \in OrderRow /\ StatusFits(row)
      /\ collections[o] \in Seq(AssignmentRow)
      /\ PointerMatches(row.collector, collections[o])
      /\ pickups[o] \in Seq(PickupRow) /\ CollectedFits(row, pickups[o])
  BY <1>2, RowFits DEF Inv, OrdersFit, Fits, OrderFits
<1>4. /\ row.parcel = "ASSIGNED"
      /\ d \in Drivers /\ d # NoDriver
      /\ row.collector = d
  BY <1>1, <1>2, <1>3, Claims, DriversAreNotNull
     DEF markCollectedFromSender, SeenFits, NamesDriver, OwnJob, StatusFits
<1>5. PICK new : new = [outcome |-> "COLLECTED", driver |-> d]
  OBVIOUS
<1>6. /\ new \in PickupRow /\ new.outcome = "COLLECTED" /\ new.driver = d
  BY <1>4, <1>5 DEF PickupRow
<1>7. PICK next, jobs, fetches :
          /\ next = [row EXCEPT !.parcel = "COLLECTED_FROM_SENDER"]
          /\ jobs = collections[o]
          /\ fetches = Append(pickups[o], new)
  OBVIOUS
<1>8. /\ next \in OrderRow /\ next.status = row.status
      /\ next.driver = row.driver /\ next.amount = row.amount
      /\ next.parcel = "COLLECTED_FROM_SENDER"
      /\ next.collector = row.collector
  BY <1>3, <1>4, <1>7 DEF OrderRow, ParcelStatuses, DriverRefs
<1>9. /\ jobs \in Seq(AssignmentRow)
       /\ PointerMatches(next.collector, jobs)
       /\ DOMAIN collections[o] \subseteq DOMAIN jobs
  BY <1>3, <1>4, <1>7, <1>8
<1>10. fetches \in Seq(PickupRow) /\ CollectedFits(next, fetches)
  BY <1>3, <1>4, <1>6, <1>7, <1>8, FetchesGoOn
<1>11. /\ StatusFits(next)
       /\ Travels(PlaceOfRow(row), PlaceOfRow(next))
  BY <1>3, <1>4, <1>8, DriversAreNotNull
     DEF StatusFits, Travels, PlaceOfRow, OnTheRoad, OrderRow, DriverRefs
<1>12. /\ orders' = [orders EXCEPT ![o] = next]
       /\ collections' = [collections EXCEPT ![o] = jobs]
       /\ pickups' = [pickups EXCEPT ![o] = fetches]
  BY <1>2, <1>3, <1>5, <1>7 DEF markCollectedFromSender, Tabled
<1> QED BY <1>1, <1>2, <1>8, <1>9, <1>10, <1>11, <1>12, ParcelCommits

LEMMA failParcelCollectionCommits ==
    ASSUME Inv, NEW r \in Requests, failParcelCollection(r)
    PROVE  Committed(r)
<1>1. /\ requests[r] # Idle
      /\ requests[r].op = "failParcelCollection"
      /\ requests[r].todo = <<>> /\ Finish(r) /\ active' = active
      /\ UNCHANGED <<assignments, history, attempts>>
  BY DEF failParcelCollection, AtClaim
<1>2. PICK o, row, d, j :
          /\ o \in Orders /\ o = Target(r) /\ row = orders[o]
          /\ d = requests[r].driver /\ j = requests[r].job
  BY <1>1, Claims
<1>3. /\ Fits(o) /\ Tabled /\ row \in OrderRow /\ StatusFits(row)
      /\ collections[o] \in Seq(AssignmentRow)
      /\ PointerMatches(row.collector, collections[o])
      /\ pickups[o] \in Seq(PickupRow) /\ CollectedFits(row, pickups[o])
  BY <1>2, RowFits DEF Inv, OrdersFit, Fits, OrderFits
<1>4. /\ row.parcel = "ASSIGNED"
      /\ d \in Drivers /\ d # NoDriver
      /\ row.collector = d
  BY <1>1, <1>2, <1>3, Claims, DriversAreNotNull
     DEF failParcelCollection, SeenFits, NamesDriver, OwnJob, StatusFits
<1>5. j \in DOMAIN collections[o] /\ collections[o][j].current
  BY <1>1, <1>2, Claims DEF failParcelCollection, EndsJob
<1>6. PICK new : new = [outcome |-> "FAILED", driver |-> d]
  OBVIOUS
<1>7. /\ new \in PickupRow /\ new.outcome = "FAILED" /\ new.driver = d
  BY <1>4, <1>6 DEF PickupRow
<1>8. PICK next, jobs, fetches :
          /\ next = [row EXCEPT !.parcel = "FAILED",
                             !.collector = NoDriver]
          /\ jobs = Ended(collections[o], j)
          /\ fetches = Append(pickups[o], new)
  OBVIOUS
<1>9. /\ next \in OrderRow /\ next.status = row.status
      /\ next.driver = row.driver /\ next.amount = row.amount
      /\ next.parcel = "FAILED"
      /\ next.collector = NoDriver
  BY <1>3, <1>4, <1>8 DEF OrderRow, ParcelStatuses, DriverRefs
<1>10. /\ jobs \in Seq(AssignmentRow)
       /\ PointerMatches(next.collector, jobs)
       /\ DOMAIN collections[o] \subseteq DOMAIN jobs
  BY <1>3, <1>5, <1>8, <1>9, EndedFits DEF OrderRow
<1>11. fetches \in Seq(PickupRow) /\ CollectedFits(next, fetches)
  BY <1>3, <1>4, <1>7, <1>8, <1>9, FetchesGoOn
<1>12. /\ StatusFits(next)
       /\ Travels(PlaceOfRow(row), PlaceOfRow(next))
  BY <1>3, <1>4, <1>9, DriversAreNotNull
     DEF StatusFits, Travels, PlaceOfRow, OnTheRoad, OrderRow, DriverRefs
<1>13. /\ orders' = [orders EXCEPT ![o] = next]
       /\ collections' = [collections EXCEPT ![o] = jobs]
       /\ pickups' = [pickups EXCEPT ![o] = fetches]
  BY <1>2, <1>3, <1>6, <1>8 DEF failParcelCollection, Tabled
<1> QED BY <1>1, <1>2, <1>9, <1>10, <1>11, <1>12, <1>13, ParcelCommits

-----------------------------------------------------------------------------
(* The invariant, and what follows from it.                                  *)

LEMMA CommitCommits ==
    ASSUME Inv, NEW r \in Requests, Commit(r)
    PROVE  Committed(r)
<1>1. ASSUME CommitDelivery(r)
      PROVE  Committed(r)
  BY <1>1, assignOrderCommits, reassignOrderCommits, unassignOrderCommits,
     readyOrderCommits, rescheduleOrderCommits, pickupDriverOrderCommits,
     startDeliveryDriverOrderCommits, failDriverOrderCommits,
     deliverDriverOrderCommits, updateOrderCommits DEF CommitDelivery
<1>2. ASSUME CommitParcel(r)
      PROVE  Committed(r)
  BY <1>2, assignParcelCollectionDriverCommits,
     reassignParcelCollectionDriverCommits, rescheduleParcelCollectionCommits,
     confirmReceivedAtCompanyCommits, markCollectedFromSenderCommits,
     failParcelCollectionCommits DEF CommitParcel
<1> QED BY <1>1, <1>2, createOrderCommits, cancelOrderCommits DEF Commit

LEMMA InvInit == Init => Inv
<1> SUFFICES ASSUME Init PROVE Inv
  OBVIOUS
<1>1. /\ active \in [Drivers -> BOOLEAN] /\ Tabled /\ RequestsFit
  BY DEF Init, Tabled, RequestsFit
<1>2. ASSUME NEW o \in Orders PROVE Fits(o)
  <2>1. PICK none : none = <<>>
    OBVIOUS
  <2>2. /\ none \in Seq(AssignmentRow) /\ none \in Seq(HistoryRow)
        /\ none \in Seq(AttemptRow) /\ none \in Seq(PickupRow)
        /\ DOMAIN none = {} /\ none = <<>>
    BY <2>1
  <2>3. /\ orders[o] = NoOrder /\ assignments[o] = none
        /\ collections[o] = none /\ history[o] = none
        /\ attempts[o] = none /\ pickups[o] = none
    BY <2>1 DEF Init
  <2>4. /\ NoOrder \in OrderRow /\ NoOrder.status = "NONE"
        /\ NoOrder.driver = NoDriver /\ NoOrder.collector = NoDriver
        /\ NoOrder.parcel = "AWAITING_ASSIGNMENT"
    BY DEF NoOrder, OrderRow, Statuses, ParcelStatuses, DriverRefs
  <2>5. CurrentRows(none) = {} /\ Collected(none) = {}
    BY <2>2 DEF CurrentRows, Collected
  <2>6. /\ PointerMatches(NoDriver, none) /\ StatusFits(NoOrder)
        /\ Chained("NONE", none) /\ AmountStands(NoOrder, none)
        /\ CollectedFits(NoOrder, none)
    BY <2>2, <2>4, <2>5 DEF PointerMatches, StatusFits, Chained, AmountStands,
       CollectedFits
  <2> QED BY <2>2, <2>3, <2>4, <2>6 DEF Fits, OrderFits
<1> QED BY <1>1, <1>2 DEF Inv, OrdersFit

LEMMA StepKeepsInv ==
    ASSUME Inv, [Next]_vars
    PROVE  Inv' /\ (orders' = orders \/ \E r \in Requests : Committed(r))
<1>1. CASE UNCHANGED vars
  BY <1>1 DEF Inv, OrdersFit, Tabled, Fits, RequestsFit, RequestFits, vars,
     tables
<1>2. ASSUME NEW r \in Requests, Read(r)
      PROVE  Inv' /\ orders' = orders
  <2>1. orders' = orders
    BY <1>2 DEF Read, ReadCreate, ReadCancel, ReadManagement, ReadDriver,
       ReadParcel, ReadAssign, Begin, tables
  <2> QED BY <1>2, <2>1, ReadKeepsInv
<1>3. ASSUME NEW r \in Requests, Check(r)
      PROVE  Inv' /\ orders' = orders
  <2>1. orders' = orders
    BY <1>3 DEF Check, CheckEligibility, assertConsistentCurrentAssignment,
       assertConsistentCurrentParcelCollectionAssignment,
       assertNoCurrentParcelCollectionAssignment, ReadEntered, tables
  <2> QED BY <1>3, <2>1, CheckKeepsInv
<1>4. ASSUME NEW r \in Requests, Commit(r)
      PROVE  Inv' /\ Committed(r)
  BY <1>4, CommitCommits, CommittedKeepsInv
<1>5. ASSUME NEW r \in Requests, Abandon(r)
      PROVE  Inv' /\ orders' = orders
  <2>1. /\ requests' = [requests EXCEPT ![r] = Idle]
        /\ UNCHANGED <<active, tables>>
    BY <1>5 DEF Abandon, Finish
  <2> QED BY <2>1, RequestStepKeepsInv DEF tables
<1>6. ASSUME NEW d \in Deactivatable, updateDriver(d)
      PROVE  Inv' /\ orders' = orders
  <2>1. active' \in [Drivers -> BOOLEAN]
    BY <1>6 DEF updateDriver, Inv
  <2>2. UNCHANGED <<tables, requests>>
    BY <1>6 DEF updateDriver
  <2> QED BY <2>1, <2>2 DEF Inv, OrdersFit, Tabled, Fits, RequestsFit,
          RequestFits, tables
<1> QED BY <1>1, <1>2, <1>3, <1>4, <1>5, <1>6 DEF Next, vars, tables

LEMMA InvHolds == Spec => []Inv
<1>1. Inv /\ [Next]_vars => Inv'
  BY StepKeepsInv
<1> QED BY InvInit, <1>1, PTL DEF Spec

\* The rows always have the types of their columns.
THEOREM TypeCorrect == Spec => []TypeOK
<1>1. Inv => TypeOK
  BY DEF Inv, OrdersFit, Tabled, Fits, OrderFits, TypeOK
<1> QED BY InvHolds, <1>1, PTL

\* The status of an order always says whether it has a driver.
THEOREM DriverAlwaysFits == Spec => []DriverMatchesStatus
<1>1. Inv => DriverMatchesStatus
  BY DEF Inv, OrdersFit, Fits, OrderFits, DriverMatchesStatus, StatusFits,
     isParcelReadyForDelivery
<1> QED BY InvHolds, <1>1, PTL

\* The driver columns and the assignment tables never disagree.
THEOREM AssignmentsAlwaysConsistent == Spec => []AssignmentsConsistent
<1>1. Inv => AssignmentsConsistent
  BY DEF Inv, OrdersFit, Fits, OrderFits, AssignmentsConsistent
<1> QED BY InvHolds, <1>1, PTL

\* order_status_history always tells the whole story without a gap.
THEOREM HistoryStaysAChain == Spec => []HistoryIsAChain
<1>1. Inv => HistoryIsAChain
  BY DEF Inv, OrdersFit, Fits, OrderFits, HistoryIsAChain, Chained
<1> QED BY InvHolds, <1>1, PTL

\* A delivered order always still says what its driver was asked to collect.
THEOREM AmountStaysDelivered == Spec => []DeliveredAmountStands
<1>1. Inv => DeliveredAmountStands
  BY DEF Inv, OrdersFit, Fits, OrderFits, DeliveredAmountStands, AmountStands
<1> QED BY InvHolds, <1>1, PTL

\* A parcel is collected from the sender at most once.
THEOREM NeverCollectedTwice == Spec => []CollectedOnce
<1>1. Inv => CollectedOnce
  BY DEF Inv, OrdersFit, Fits, OrderFits, CollectedOnce, CollectedFits,
     Collected
<1> QED BY InvHolds, <1>1, PTL

\* Nobody takes a parcel out of the hands of the driver in possession of it.
THEOREM PossessionAlwaysStands == Spec => DriverKeepsPossession
<1>1. ASSUME Inv, [Next]_vars
      PROVE  \A o \in Orders : PossessionStands(o)
  <2>1. CASE orders' = orders
    BY <2>1 DEF PossessionStands
  <2>2. ASSUME NEW r \in Requests, Committed(r), NEW o \in Orders
        PROVE  PossessionStands(o)
    <3>1. CASE orders'[o] = orders[o]
      BY <3>1 DEF PossessionStands
    <3>2. CASE /\ o \in requests[r].targets
               /\ Step(orders[o], orders'[o], requests[r].driver)
      <4>1. requests[r] # Idle /\ requests'[r] = Idle
        BY <1>1, <2>2 DEF Committed, Finish, Inv, RequestsFit
      <4> QED BY <2>2, <3>2, <4>1 DEF PossessionStands, Step
    <3> QED BY <2>2, <3>1, <3>2 DEF Committed
  <2> QED BY <1>1, <2>1, <2>2, StepKeepsInv
<1>2. Inv /\ [Next]_vars => [\A o \in Orders : PossessionStands(o)]_vars
  BY <1>1
<1> QED BY InvHolds, <1>2, PTL DEF Spec, DriverKeepsPossession

\* No order is cancelled while its parcel is on the way in, and an order that
\* was delivered or cancelled stays so.
THEOREM CancelAlwaysWaits == Spec => CancelNeverStrandsParcel
<1>1. ASSUME Inv, [Next]_vars
      PROVE  \A o \in Orders : CancelStep(o)
  <2>1. CASE orders' = orders
    BY <2>1 DEF CancelStep
  <2>2. ASSUME NEW r \in Requests, Committed(r), NEW o \in Orders
        PROVE  CancelStep(o)
    BY <2>2 DEF Committed, CancelStep, Step
  <2> QED BY <1>1, <2>1, <2>2, StepKeepsInv
<1>2. Inv /\ [Next]_vars => [\A o \in Orders : CancelStep(o)]_vars
  BY <1>1
<1> QED BY InvHolds, <1>2, PTL DEF Spec, CancelNeverStrandsParcel

\* The handlers implement the journey of the parcel: one place at a time, and
\* from one driver to another only over the company.
THEOREM LifecycleImplementsJourney == Spec => ImplementsJourney
<1>1. Init => Journey!Init
  BY PlacesOfRows DEF Init, Journey!Init, Places, PlaceOfRow, NoOrder
<1>2. ASSUME Inv, [Next]_vars
      PROVE  [Journey!Next]_Places
  <2>1. CASE orders' = orders
    <3>1. \A o \in Orders : PlaceOf(o)' = PlaceOf(o)
      BY <2>1, PlacesOfRows
    <3> QED BY <3>1 DEF Places
  <2>2. ASSUME NEW r \in Requests, Committed(r)
        PROVE  [Journey!Next]_Places
    <3>1. /\ Places = [o \in Orders |-> PlaceOfRow(orders[o])]
          /\ Places' = [o \in Orders |-> PlaceOfRow(orders'[o])]
      BY PlacesOfRows DEF Places
    <3>2. CASE \A o \in Orders :
                   PlaceOfRow(orders'[o]) = PlaceOfRow(orders[o])
      BY <3>1, <3>2
    <3>3. CASE \E o \in Orders :
                   PlaceOfRow(orders'[o]) # PlaceOfRow(orders[o])
      <4>1. PICK o \in Orders :
                PlaceOfRow(orders'[o]) # PlaceOfRow(orders[o])
        BY <3>3
      <4>2. PICK from, to : /\ from = PlaceOfRow(orders[o])
                            /\ to = PlaceOfRow(orders'[o])
        OBVIOUS
      <4>3. Travels(from, to) /\ from # to
        BY <2>2, <4>1, <4>2 DEF Committed, Step
      <4>4. \A p \in Orders \ {o} :
                PlaceOfRow(orders'[p]) = PlaceOfRow(orders[p])
        BY <2>2, <4>1 DEF Committed
      <4>5. Places[o] = from /\ Places' = [Places EXCEPT ![o] = to]
        BY <3>1, <4>2, <4>4
      <4>6. Journey!Carry(o, from, to)
        BY <4>5 DEF Journey!Carry
      <4> QED BY <4>3, <4>6 DEF Travels, Journey!Next, Journey!BringIn,
              Journey!Collect, Journey!Receive, Journey!TakeOut,
              Journey!BringBack, Journey!HandOver
    <3> QED BY <3>2, <3>3
  <2> QED BY <1>2, <2>1, <2>2, StepKeepsInv
<1> QED BY InvHolds, <1>1, <1>2, PTL DEF Spec, ImplementsJourney, Journey!Spec

-----------------------------------------------------------------------------
(* The attempts, which follow from the invariant above and the history.      *)

\* What the attempts of an order of this status and with this history are.
Told(status, story, tries) ==
    /\ Len(tries) = Cardinality(Ends(story))
    /\ \A i \in Ends(story) :
           tries[Nth(story, i)].outcome = Outcome(story[i])
    /\ \A k \in DOMAIN tries : tries[k].outcome = "DELIVERED" =>
           k = Len(tries) /\ status = "DELIVERED"

AllTold == \A o \in Orders : Told(orders[o].status, history[o], attempts[o])

\* A row ends one of the attempts there are.
LEMMA EndsAreCounted ==
    ASSUME NEW story \in Seq(HistoryRow)
    PROVE  /\ IsFiniteSet(Ends(story)) /\ Cardinality(Ends(story)) \in Nat
           /\ \A i \in Ends(story) :
                 Nth(story, i) \in 1 .. Cardinality(Ends(story))
<1>1. /\ DOMAIN story = 1 .. Len(story) /\ Len(story) \in Nat
      /\ Ends(story) \subseteq 1 .. Len(story)
  BY DEF Ends
<1>2. IsFiniteSet(1 .. Len(story))
  BY <1>1, FS_Interval
<1>3. IsFiniteSet(Ends(story))
  BY <1>1, <1>2, FS_Subset
<1>4. Cardinality(Ends(story)) \in Nat
  BY <1>3, FS_CardinalityType
<1>5. ASSUME NEW i \in Ends(story)
      PROVE  Nth(story, i) \in 1 .. Cardinality(Ends(story))
  <2> DEFINE upTo == {j \in Ends(story) : j <= i}
  <2>1. upTo \subseteq Ends(story) /\ i \in upTo
    BY <1>1
  <2>2. /\ IsFiniteSet(upTo)
        /\ Cardinality(upTo) <= Cardinality(Ends(story))
    BY <1>3, <2>1, FS_Subset
  <2>3. Cardinality(upTo) \in Nat /\ Cardinality(upTo) # 0
    BY <2>1, <2>2, FS_CardinalityType, FS_EmptySet
  <2>4. Nth(story, i) = Cardinality(upTo)
    BY DEF Nth
  <2> HIDE DEF upTo
  <2> QED BY <1>4, <2>2, <2>3, <2>4
<1> QED BY <1>3, <1>4, <1>5

\* One more row leaves the numbers of the earlier ones.
Continues(more, story, new) == LET n == Len(story) + 1 IN
    /\ more \in Seq(HistoryRow) /\ more[n] = new
    /\ \A i \in Ends(story) :
          more[i] = story[i] /\ i # n /\ Nth(more, i) = Nth(story, i)
    /\ new.from # "OUT_FOR_DELIVERY" => Ends(more) = Ends(story)
    /\ new.from = "OUT_FOR_DELIVERY" =>
          /\ Ends(more) = Ends(story) \cup {n}
          /\ Cardinality(Ends(more)) = Cardinality(Ends(story)) + 1
          /\ Nth(more, n) = Cardinality(Ends(more))

LEMMA EndsGoOn ==
    ASSUME NEW story \in Seq(HistoryRow), NEW new \in HistoryRow,
           NEW more, more = Append(story, new)
    PROVE  Continues(more, story, new)
<1> DEFINE n == Len(story) + 1
<1>1. /\ more \in Seq(HistoryRow) /\ more[n] = new /\ DOMAIN more = 1 .. n
      /\ DOMAIN story = 1 .. Len(story) /\ Len(story) \in Nat
      /\ \A i \in DOMAIN story : more[i] = story[i]
  OBVIOUS
<1>2. \A i \in 1 .. n : i \in DOMAIN story \/ i = n
  BY <1>1
<1>3. DOMAIN story \subseteq 1 .. n /\ n \notin DOMAIN story /\ n \in 1 .. n
  BY <1>1
<1>4. \A i \in 1 .. n : i \in Nat /\ i <= n
  BY <1>1
<1>5. \A i \in DOMAIN story : ~(n <= i)
  BY <1>1
<1> HIDE DEF n
<1>6. Ends(more) = IF new.from = "OUT_FOR_DELIVERY"
                   THEN Ends(story) \cup {n} ELSE Ends(story)
  BY <1>1, <1>2, <1>3 DEF Ends
<1>7. \A i \in Ends(story) : i \in DOMAIN story
  BY DEF Ends
<1>8. ASSUME NEW i \in Ends(story)
      PROVE  Nth(more, i) = Nth(story, i)
  <2>1. {j \in Ends(more) : j <= i} = {j \in Ends(story) : j <= i}
    BY <1>5, <1>6, <1>7
  <2> QED BY <2>1 DEF Nth
<1>9. ASSUME new.from = "OUT_FOR_DELIVERY"
      PROVE  /\ Cardinality(Ends(more)) = Cardinality(Ends(story)) + 1
             /\ Nth(more, n) = Cardinality(Ends(more))
  <2>1. n \notin Ends(story)
    BY <1>3, <1>7
  <2>2. Cardinality(Ends(story) \cup {n}) = Cardinality(Ends(story)) + 1
    BY <2>1, EndsAreCounted, FS_AddElement
  <2>3. {j \in Ends(more) : j <= n} = Ends(more)
    BY <1>1, <1>4 DEF Ends
  <2> QED BY <1>6, <1>9, <2>2, <2>3 DEF Nth
<1>10. \A i \in Ends(story) : more[i] = story[i] /\ i # n
  BY <1>1, <1>3, <1>7
<1> QED BY <1>1, <1>6, <1>8, <1>9, <1>10 DEF n, Continues

\* A row that ends no attempt.
LEMMA ToldFurther ==
    ASSUME NEW story \in Seq(HistoryRow), NEW tries, NEW status, NEW next,
           Told(status, story, tries),
           status = "DELIVERED" => next = "DELIVERED",
           NEW new \in HistoryRow, new.from # "OUT_FOR_DELIVERY",
           NEW more, more = Append(story, new)
    PROVE  Told(next, more, tries)
<1>0. Continues(more, story, new)
  BY EndsGoOn
<1>1. /\ Ends(more) = Ends(story)
      /\ \A i \in Ends(story) :
            more[i] = story[i] /\ Nth(more, i) = Nth(story, i)
  BY <1>0 DEF Continues
<1>2. Len(tries) = Cardinality(Ends(more))
  BY <1>1 DEF Told
<1>3. \A i \in Ends(more) : tries[Nth(more, i)].outcome = Outcome(more[i])
  BY <1>1, Zenon DEF Told
<1>4. \A k \in DOMAIN tries : tries[k].outcome = "DELIVERED" =>
          k = Len(tries) /\ next = "DELIVERED"
  BY DEF Told
<1> QED BY <1>2, <1>3, <1>4 DEF Told

\* A row that ends an attempt, with the attempt.
LEMMA ToldOfAttempt ==
    ASSUME NEW story \in Seq(HistoryRow), NEW tries \in Seq(AttemptRow),
           NEW status, Told(status, story, tries), status # "DELIVERED",
           NEW new \in HistoryRow, new.from = "OUT_FOR_DELIVERY",
           NEW attempt \in AttemptRow, attempt.outcome = Outcome(new),
           NEW more, more = Append(story, new),
           NEW retries, retries = Append(tries, attempt)
    PROVE  Told(new.to, more, retries)
<1> DEFINE n == Len(story) + 1
           c == Cardinality(Ends(story))
<1>1. /\ c \in Nat /\ \A i \in Ends(story) : Nth(story, i) \in 1 .. c
  BY EndsAreCounted
<1>0. Continues(more, story, new)
  BY EndsGoOn
<1>2. /\ \A i \in Ends(story) :
            more[i] = story[i] /\ Nth(more, i) = Nth(story, i)
      /\ Ends(more) = Ends(story) \cup {n} /\ more[n] = new
      /\ Cardinality(Ends(more)) = c + 1 /\ Nth(more, n) = c + 1
  BY <1>0 DEF Continues
<1> HIDE DEF n, c
<1>3. Len(tries) = c
  BY DEF Told, c
<1>4. /\ retries \in Seq(AttemptRow) /\ Len(retries) = c + 1
      /\ retries[c + 1] = attempt /\ \A k \in 1 .. c : retries[k] = tries[k]
      /\ DOMAIN retries = 1 .. c + 1 /\ DOMAIN tries = 1 .. c
  <2>1. Len(retries) = Len(tries) + 1 /\ retries[Len(tries) + 1] = attempt
    OBVIOUS
  <2>2. /\ \A k \in 1 .. Len(tries) : retries[k] = tries[k]
        /\ DOMAIN retries = 1 .. Len(tries) + 1 /\ DOMAIN tries = 1 .. Len(tries)
        /\ retries \in Seq(AttemptRow)
    OBVIOUS
  <2> QED BY <1>3, <2>1, <2>2
<1>5. ASSUME NEW i \in Ends(more)
      PROVE  retries[Nth(more, i)].outcome = Outcome(more[i])
  <2>1. CASE i = n
    BY <1>2, <1>4, <2>1
  <2>2. CASE i \in Ends(story)
    <3>1. tries[Nth(story, i)].outcome = Outcome(story[i])
      BY <2>2 DEF Told
    <3>2. retries[Nth(story, i)] = tries[Nth(story, i)]
      BY <1>1, <1>4, <2>2
    <3> QED BY <1>2, <2>2, <3>1, <3>2
  <2> QED BY <1>2, <1>5, <2>1, <2>2
<1>6. ASSUME NEW k \in DOMAIN retries, retries[k].outcome = "DELIVERED"
      PROVE  k = Len(retries) /\ new.to = "DELIVERED"
  <2>1. CASE k \in 1 .. c
    <3>1. tries[k].outcome = "DELIVERED" /\ k \in DOMAIN tries
      BY <1>4, <1>6, <2>1
    <3> QED BY <3>1 DEF Told
  <2>2. CASE k = c + 1
    BY <1>4, <1>6, <2>2 DEF Outcome
  <2> QED BY <1>1, <1>4, <1>6, <2>1, <2>2
<1> QED BY <1>2, <1>4, <1>5, <1>6 DEF Told

-----------------------------------------------------------------------------
(* Every commit keeps the two together.                                      *)

\* What the proof of a commit may use of the order o it is about.
LEMMA ToldOf ==
    ASSUME Inv, AllTold, NEW r \in Requests, Committed(r), NEW o \in Orders
    PROVE  /\ history[o] \in Seq(HistoryRow) /\ attempts[o] \in Seq(AttemptRow)
           /\ history = [p \in Orders |-> history[p]]
           /\ attempts = [p \in Orders |-> attempts[p]]
           /\ Told(orders[o].status, history[o], attempts[o])
           /\ orders[o].status = "DELIVERED" => orders'[o].status = "DELIVERED"
<1>1. Fits(o) /\ Tabled
  BY DEF Inv, OrdersFit
<1>2. orders[o].status = "DELIVERED" => orders'[o].status = "DELIVERED"
  BY DEF Committed, Step, ORDER_TERMINAL_STATUSES
<1> QED BY <1>1, <1>2 DEF Fits, OrderFits, Tabled, AllTold

\* An order whose history and attempts stay.
LEMMA StayedTold ==
    ASSUME Inv, AllTold, NEW r \in Requests, Committed(r), NEW o \in Orders,
           history'[o] = history[o], attempts'[o] = attempts[o]
    PROVE  Told(orders'[o].status, history'[o], attempts'[o])
<1>1. /\ Told(orders[o].status, history[o], attempts[o])
      /\ orders[o].status = "DELIVERED" => orders'[o].status = "DELIVERED"
  BY ToldOf
<1>2. PICK s, t, h, a : /\ s = orders[o].status /\ t = orders'[o].status
                        /\ h = history[o] /\ a = attempts[o]
  OBVIOUS
<1>3. Told(t, h, a)
  BY <1>1, <1>2 DEF Told
<1> QED BY <1>2, <1>3

\* A commit that writes one history row, which ends no attempt.
LEMMA MovedTold ==
    ASSUME Inv, AllTold, NEW r \in Requests, Committed(r), NEW o \in Orders,
           NEW new \in HistoryRow, new.from # "OUT_FOR_DELIVERY",
           history' = [history EXCEPT ![o] = Append(history[o], new)],
           attempts' = attempts
    PROVE  AllTold'
<1>1. ASSUME NEW p \in Orders, p # o
      PROVE  Told(orders'[p].status, history'[p], attempts'[p])
  <2>1. history'[p] = history[p] /\ attempts'[p] = attempts[p]
    BY <1>1, ToldOf
  <2> QED BY <2>1, StayedTold
<1>2. Told(orders'[o].status, history'[o], attempts'[o])
  <2>1. /\ history[o] \in Seq(HistoryRow)
        /\ history'[o] = Append(history[o], new)
        /\ Told(orders[o].status, history[o], attempts[o])
        /\ orders[o].status = "DELIVERED" => orders'[o].status = "DELIVERED"
    BY ToldOf
  <2> QED BY <2>1, ToldFurther
<1> QED BY <1>1, <1>2 DEF AllTold

LEMMA AdvancedTold ==
    ASSUME Inv, AllTold, NEW r \in Requests, Committed(r),
           NEW next, Advance(r, next), next.status \in OrderStatuses,
           Seen(r).status # "OUT_FOR_DELIVERY", attempts' = attempts
    PROVE  AllTold'
<1>1. Target(r) \in Orders /\ Seen(r).status \in Statuses
  BY Claims DEF Committed, OrderRow
<1>2. PICK new : new = [from |-> Seen(r).status, to |-> next.status, at |-> 0]
  OBVIOUS
<1>3. new \in HistoryRow /\ new.from # "OUT_FOR_DELIVERY"
  BY <1>1, <1>2 DEF HistoryRow
<1>4. history' = [history EXCEPT ![Target(r)] = Append(history[Target(r)], new)]
  BY <1>2 DEF Advance, Moved
<1> QED BY <1>1, <1>3, <1>4, MovedTold

\* A commit that writes a history row that ends an attempt, and the attempt.
LEMMA EndedTold ==
    ASSUME Inv, AllTold, NEW r \in Requests, Committed(r),
           NEW to \in {"FAILED_DELIVERY", "DELIVERED"}, NEW next,
           next = [orders[Target(r)] EXCEPT !.status = to], Advance(r, next),
           requests[r].op \in {"failDriverOrder", "deliverDriverOrder"},
           ClaimStatusAndDriver(r), NEW outcome \in {"DELIVERED", "FAILED"},
           outcome = "DELIVERED" <=> to = "DELIVERED",
           attempts' = [attempts EXCEPT ![Target(r)] = Recorded(r, outcome)]
    PROVE  AllTold'
<1>1. PICK o, seen, d : /\ o = Target(r) /\ seen = Seen(r)
                        /\ d = requests[r].driver
  OBVIOUS
<1>2. /\ o \in Orders /\ seen \in OrderRow /\ d \in Drivers
      /\ seen.status = "OUT_FOR_DELIVERY"
      /\ orders[o].status = "OUT_FOR_DELIVERY" /\ orders[o] \in OrderRow
  <2>1. /\ o \in Orders /\ seen \in OrderRow /\ d \in Drivers
        /\ seen.status = "OUT_FOR_DELIVERY"
    BY <1>1, Claims DEF Committed, SeenFits, NamesDriver, DriversOwn
  <2>2. orders[o].status = seen.status
    BY <1>1 DEF ClaimStatusAndDriver
  <2> QED BY <2>1, <2>2, RowFits DEF Inv
<1>3. PICK new : new = [from |-> "OUT_FOR_DELIVERY", to |-> to, at |-> 0]
  OBVIOUS
<1>4. PICK attempt : attempt = [outcome |-> outcome, driver |-> d,
                expected |-> seen.amount, startedAt |-> seen.startedAt]
  OBVIOUS
<1>5. /\ new \in HistoryRow /\ new.from = "OUT_FOR_DELIVERY" /\ new.to = to
      /\ Outcome(new) = outcome
  BY <1>3 DEF HistoryRow, Statuses, OrderStatuses, Outcome
<1>6. attempt \in AttemptRow /\ attempt.outcome = outcome
  BY <1>2, <1>4 DEF AttemptRow, OrderRow
<1>7. next.status = to
  BY <1>1, <1>2 DEF OrderRow
<1>8. /\ history' = [history EXCEPT ![o] = Append(history[o], new)]
      /\ orders' = [orders EXCEPT ![o] = next]
      /\ attempts' = [attempts EXCEPT ![o] = Append(attempts[o], attempt)]
  BY <1>1, <1>2, <1>3, <1>4, <1>7 DEF Advance, Moved, Recorded
<1>9. ASSUME NEW p \in Orders, p # o
      PROVE  Told(orders'[p].status, history'[p], attempts'[p])
  <2>1. history'[p] = history[p] /\ attempts'[p] = attempts[p]
    BY <1>8, <1>9, ToldOf
  <2> QED BY <2>1, StayedTold
<1>10. Told(orders'[o].status, history'[o], attempts'[o])
  <2>1. /\ history[o] \in Seq(HistoryRow) /\ attempts[o] \in Seq(AttemptRow)
        /\ history'[o] = Append(history[o], new)
        /\ attempts'[o] = Append(attempts[o], attempt)
        /\ Told(orders[o].status, history[o], attempts[o])
    BY <1>2, <1>8, ToldOf
  <2>2. orders'[o].status = new.to
    <3>1. orders = [p \in Orders |-> orders[p]]
      BY DEF Inv, OrdersFit, Tabled
    <3> QED BY <1>2, <1>5, <1>7, <1>8, <3>1
  <2> QED BY <1>2, <1>5, <1>6, <2>1, <2>2, ToldOfAttempt
<1> QED BY <1>9, <1>10 DEF AllTold

\* The commits that write neither history nor attempts.
LEMMA SilentTold ==
    ASSUME Inv, AllTold, NEW r \in Requests, Committed(r),
           CommitParcel(r) \/ updateOrder(r)
    PROVE  AllTold'
<1>1. history' = history /\ attempts' = attempts
  BY DEF CommitParcel, updateOrder, assignParcelCollectionDriver,
     reassignParcelCollectionDriver, rescheduleParcelCollection,
     confirmReceivedAtCompany, markCollectedFromSender, failParcelCollection
<1> QED BY <1>1, StayedTold DEF AllTold

\* The commits that move the order on, and its row alone.
LEMMA OnwardTold ==
    ASSUME Inv, AllTold, NEW r \in Requests, Committed(r),
           \/ readyOrder(r) \/ rescheduleOrder(r) \/ pickupDriverOrder(r)
           \/ startDeliveryDriverOrder(r) \/ cancelOrder(r)
    PROVE  AllTold'
<1>1. PICK q, o, seen : q = requests[r] /\ o = Target(r) /\ seen = Seen(r)
  OBVIOUS
<1>2. /\ SeenFits(q.op, q.driver, seen) /\ orders[o] \in OrderRow
  BY <1>1, Claims, RowFits DEF Committed, Inv
<1>3. attempts' = attempts
  BY DEF readyOrder, rescheduleOrder, pickupDriverOrder,
     startDeliveryDriverOrder, cancelOrder
<1>4. seen.status # "OUT_FOR_DELIVERY"
  <2>1. q.op \in {"readyOrder", "rescheduleOrder", "pickupDriverOrder",
                  "startDeliveryDriverOrder", "cancelOrder"}
    BY <1>1 DEF readyOrder, rescheduleOrder, pickupDriverOrder,
       startDeliveryDriverOrder, cancelOrder, AtClaim
  <2> QED BY <1>2, <2>1 DEF SeenFits, START_DELIVERY_SOURCE_STATUSES,
             CANCELLABLE_STATUSES
<1>5. \E next : Advance(r, next) /\ next.status \in OrderStatuses
  <2>1. CASE readyOrder(r)
    BY <1>1, <1>2, <2>1 DEF readyOrder, OrderRow, OrderStatuses
  <2>2. CASE rescheduleOrder(r)
    BY <1>1, <1>2, <2>2 DEF rescheduleOrder, OrderRow, OrderStatuses
  <2>3. CASE pickupDriverOrder(r)
    BY <1>1, <1>2, <2>3 DEF pickupDriverOrder, OrderRow, OrderStatuses
  <2>4. CASE startDeliveryDriverOrder(r)
    <3>1. PICK row, next : /\ row = orders[o]
                           /\ next = [row EXCEPT !.status = "OUT_FOR_DELIVERY",
                                          !.startedAt = Len(history[o]) + 1]
      OBVIOUS
    <3>2. Advance(r, next)
      BY <1>1, <2>4, <3>1 DEF startDeliveryDriverOrder
    <3>3. next.status = "OUT_FOR_DELIVERY"
      BY <1>2, <3>1 DEF OrderRow
    <3> QED BY <3>2, <3>3 DEF OrderStatuses
  <2>5. CASE cancelOrder(r)
    <3>1. PICK row, next :
              /\ row = orders[o]
              /\ next = [row EXCEPT
                     !.status = "CANCELLED",
                     !.driver = IF hasActiveAssignment(seen)
                                THEN NoDriver ELSE @,
                     !.collector = IF closesParcelCollectionAssignment(seen)
                                   THEN NoDriver ELSE @]
      OBVIOUS
    <3>2. Advance(r, next)
      BY <1>1, <2>5, <3>1 DEF cancelOrder
    <3>3. next.status = "CANCELLED"
      BY <1>2, <3>1 DEF OrderRow
    <3> QED BY <3>2, <3>3 DEF OrderStatuses
  <2> QED BY <2>1, <2>2, <2>3, <2>4, <2>5
<1> QED BY <1>1, <1>3, <1>4, <1>5, AdvancedTold

LEMMA reassignOrderTold ==
    ASSUME Inv, AllTold, NEW r \in Requests, Committed(r), reassignOrder(r)
    PROVE  AllTold'
<1>1. PICK o, from : o = Target(r) /\ from = Seen(r).status
  OBVIOUS
<1>2. o \in Orders /\ attempts' = attempts
  BY <1>1, Claims DEF reassignOrder, Committed
<1>3. CASE history' = history
  BY <1>2, <1>3, StayedTold DEF AllTold
<1>4. CASE history' # history
  <2>1. PICK at : /\ at \in requests[r].since[o] .. Len(history[o])
                  /\ history' = [history EXCEPT ![o] =
                                    Moved(o, "RESCHEDULED", "ASSIGNED", at)]
    BY <1>1, <1>4 DEF reassignOrder
  <2>2. at \in Nat
    <3>1. requests[r].since[o] \in Nat
      BY <1>1, Claims DEF Inv, RequestsFit, RequestFits, Fitting, RequestTyped,
         Committed
    <3>2. Len(history[o]) \in Nat
      BY <1>2, ToldOf
    <3> QED BY <2>1, <3>1, <3>2
  <2>3. PICK new : new = [from |-> "RESCHEDULED", to |-> "ASSIGNED", at |-> at]
    OBVIOUS
  <2>4. new \in HistoryRow /\ new.from # "OUT_FOR_DELIVERY"
    BY <2>2, <2>3 DEF HistoryRow, Statuses, OrderStatuses
  <2>5. history' = [history EXCEPT ![o] = Append(history[o], new)]
    BY <2>1, <2>3 DEF Moved
  <2> QED BY <1>2, <2>4, <2>5, MovedTold
<1> QED BY <1>3, <1>4

LEMMA unassignOrderTold ==
    ASSUME Inv, AllTold, NEW r \in Requests, Committed(r), unassignOrder(r)
    PROVE  AllTold'
<1>1. PICK o, to : o = Target(r) /\ to = requests[r].restore
  OBVIOUS
<1>2. /\ o \in Orders /\ attempts' = attempts
      /\ to \in ORDER_DELIVERY_ASSIGNABLE_STATUSES
  BY <1>1, Claims DEF unassignOrder, AtClaim, Committed
<1>3. PICK new : new = [from |-> "ASSIGNED", to |-> to, at |-> 0]
  OBVIOUS
<1>4. new \in HistoryRow /\ new.from # "OUT_FOR_DELIVERY"
  BY <1>2, <1>3 DEF HistoryRow, Statuses, OrderStatuses,
     ORDER_DELIVERY_ASSIGNABLE_STATUSES
<1>5. history' = [history EXCEPT ![o] = Append(history[o], new)]
  BY <1>1, <1>3 DEF unassignOrder, Moved
<1> QED BY <1>2, <1>4, <1>5, MovedTold

LEMMA assignOrderTold ==
    ASSUME Inv, AllTold, NEW r \in Requests, Committed(r), assignOrder(r)
    PROVE  AllTold'
<1>1. PICK q, targets : q = requests[r] /\ targets = q.targets
  OBVIOUS
<1>2. /\ q.op = "assignOrder" /\ attempts' = attempts
      /\ \A o \in targets : SeenFits(q.op, q.driver, q.seen[o])
  BY <1>1 DEF assignOrder, AtClaim, Inv, RequestsFit, RequestFits, Fitting
<1>3. PICK at \in [targets -> 0 .. MaxHistory] :
          history' = [o \in Orders |-> IF o \in targets
              THEN Moved(o, q.seen[o].status, "ASSIGNED", at[o])
              ELSE history[o]]
  BY <1>1 DEF assignOrder
<1>4. ASSUME NEW o \in Orders
      PROVE  Told(orders'[o].status, history'[o], attempts'[o])
  <2>1. CASE o \notin targets
    <3>1. history'[o] = history[o]
      BY <1>3, <2>1
    <3> QED BY <1>2, <3>1, StayedTold
  <2>2. CASE o \in targets
    <3>1. PICK new : new = [from |-> q.seen[o].status, to |-> "ASSIGNED",
                            at |-> at[o]]
      OBVIOUS
    <3>2. q.seen[o].status \in ORDER_DELIVERY_ASSIGNABLE_STATUSES
      BY <1>2, <2>2 DEF SeenFits
    <3>3. at[o] \in Nat
      BY <1>3, <2>2, RecordsAssumption
    <3>4. new \in HistoryRow /\ new.from # "OUT_FOR_DELIVERY"
      BY <3>1, <3>2, <3>3 DEF HistoryRow, Statuses, OrderStatuses,
         ORDER_DELIVERY_ASSIGNABLE_STATUSES
    <3>5. history'[o] = Append(history[o], new)
      BY <1>3, <2>2, <3>1 DEF Moved
    <3>6. /\ history[o] \in Seq(HistoryRow)
          /\ Told(orders[o].status, history[o], attempts[o])
          /\ orders[o].status = "DELIVERED" => orders'[o].status = "DELIVERED"
      BY ToldOf
    <3> QED BY <1>2, <3>4, <3>5, <3>6, ToldFurther
  <2> QED BY <2>1, <2>2
<1> QED BY <1>4 DEF AllTold

\* A created order has no attempt yet to tell of.
LEMMA createOrderTold ==
    ASSUME Inv, AllTold, NEW r \in Requests, Committed(r), createOrder(r)
    PROVE  AllTold'
<1>1. PICK o : o = Target(r)
  OBVIOUS
<1>2. o \in Orders /\ attempts' = attempts /\ orders[o] = NoOrder
  BY <1>1, Claims DEF createOrder, Committed
<1>3. /\ history[o] \in Seq(HistoryRow)
      /\ history = [p \in Orders |-> history[p]]
      /\ Told(orders[o].status, history[o], attempts[o])
  BY <1>2, ToldOf
<1>4. history[o] = <<>>
  <2>1. Chained("NONE", history[o])
    BY <1>2 DEF Inv, OrdersFit, Fits, OrderFits, NoOrder
  <2>2. ASSUME history[o] # <<>> PROVE FALSE
    <3>1. Len(history[o]) \in DOMAIN history[o]
      BY <1>3, <2>2
    <3>2. history[o][Len(history[o])] \in HistoryRow
      BY <1>3, <3>1
    <3> QED BY <2>1, <2>2, <3>2 DEF Chained, HistoryRow, OrderStatuses
  <2> QED BY <2>2
<1>5. \/ history' = [history EXCEPT ![o] = <<Received>>]
      \/ history' = [history EXCEPT ![o] = <<Received, Entered>>]
  BY <1>1 DEF createOrder, Received, Entered
<1>6. /\ Received \in HistoryRow /\ Received.from # "OUT_FOR_DELIVERY"
      /\ Entered \in HistoryRow /\ Entered.from # "OUT_FOR_DELIVERY"
  BY DEF Received, Entered, HistoryRow, Statuses, OrderStatuses
<1>7. PICK status : status = orders'[o].status
  OBVIOUS
<1>8. PICK one, two : one = <<Received>> /\ two = <<Received, Entered>>
  OBVIOUS
<1>9. /\ one = Append(history[o], Received) /\ two = Append(one, Entered)
      /\ one \in Seq(HistoryRow)
  BY <1>4, <1>6, <1>8
<1>10. Told(status, one, attempts[o])
  <2>1. PICK none, story, tries :
            /\ none = orders[o].status /\ story = history[o]
            /\ tries = attempts[o]
    OBVIOUS
  <2>2. none # "DELIVERED"
    BY <1>2, <2>1 DEF NoOrder
  <2>3. Told(none, story, tries) /\ one = Append(story, Received)
        /\ story \in Seq(HistoryRow)
    BY <1>3, <1>9, <2>1
  <2>4. Told(status, one, tries)
    BY <1>6, <2>2, <2>3, ToldFurther
  <2> QED BY <2>1, <2>4
<1>11. Told(status, two, attempts[o])
  BY <1>6, <1>9, <1>10, ToldFurther
<1>12. ASSUME NEW p \in Orders
       PROVE  Told(orders'[p].status, history'[p], attempts'[p])
  <2>1. CASE p = o
    <3>1. history'[o] = one \/ history'[o] = two
      BY <1>2, <1>3, <1>5, <1>8
    <3> QED BY <1>2, <1>7, <1>10, <1>11, <2>1, <3>1
  <2>2. CASE p # o
    <3>1. history'[p] = history[p]
      BY <1>3, <1>5, <2>2
    <3> QED BY <1>2, <3>1, StayedTold
  <2> QED BY <2>1, <2>2
<1> QED BY <1>12 DEF AllTold

LEMMA CommitTold ==
    ASSUME Inv, AllTold, NEW r \in Requests, Commit(r)
    PROVE  AllTold'
<1>1. Committed(r)
  BY CommitCommits
<1>2. CASE failDriverOrder(r)
  <2>1. /\ requests[r].op = "failDriverOrder" /\ ClaimStatusAndDriver(r)
        /\ attempts' = [attempts EXCEPT ![Target(r)] = Recorded(r, "FAILED")]
    BY <1>2 DEF failDriverOrder, AtClaim
  <2>2. PICK next :
            next = [orders[Target(r)] EXCEPT !.status = "FAILED_DELIVERY"]
    OBVIOUS
  <2>3. Advance(r, next)
    BY <1>2, <2>2 DEF failDriverOrder
  <2> QED BY <1>1, <2>1, <2>2, <2>3, EndedTold
<1>3. CASE deliverDriverOrder(r)
  <2>1. /\ requests[r].op = "deliverDriverOrder" /\ ClaimStatusAndDriver(r)
        /\ attempts' = [attempts EXCEPT ![Target(r)] = Recorded(r, "DELIVERED")]
    BY <1>3 DEF deliverDriverOrder, AtClaim
  <2>2. PICK next : next = [orders[Target(r)] EXCEPT !.status = "DELIVERED"]
    OBVIOUS
  <2>3. Advance(r, next)
    BY <1>3, <2>2 DEF deliverDriverOrder
  <2> QED BY <1>1, <2>1, <2>2, <2>3, EndedTold
<1> QED BY <1>1, <1>2, <1>3, SilentTold, OnwardTold, reassignOrderTold,
           unassignOrderTold, assignOrderTold, createOrderTold
        DEF Commit, CommitDelivery

LEMMA StepTold ==
    ASSUME Inv, AllTold, [Next]_vars
    PROVE  AllTold'
<1>1. ASSUME NEW r \in Requests, Commit(r)
      PROVE  AllTold'
  BY <1>1, CommitTold
<1>2. ASSUME UNCHANGED tables
      PROVE  AllTold'
  BY <1>2 DEF tables, AllTold
<1>3. ASSUME NEW r \in Requests, Read(r) \/ Check(r) \/ Abandon(r)
      PROVE  UNCHANGED tables
  <2>1. CASE Read(r)
    BY <2>1 DEF Read, ReadCreate, ReadCancel, ReadManagement, ReadDriver,
       ReadParcel, ReadAssign, Begin, tables
  <2>2. CASE Check(r)
    BY <2>2 DEF Check, CheckEligibility, assertConsistentCurrentAssignment,
       assertConsistentCurrentParcelCollectionAssignment,
       assertNoCurrentParcelCollectionAssignment, ReadEntered, tables
  <2>3. CASE Abandon(r)
    BY <2>3 DEF Abandon, tables
  <2> QED BY <1>3, <2>1, <2>2, <2>3
<1>4. ASSUME NEW d \in Deactivatable, updateDriver(d)
      PROVE  UNCHANGED tables
  BY <1>4 DEF updateDriver, tables
<1>5. CASE UNCHANGED vars
  BY <1>2, <1>5 DEF vars
<1> QED BY <1>1, <1>2, <1>3, <1>4, <1>5 DEF Next

\* The history and the attempts always tell one story: an attempt is recorded
\* exactly when a history row ends it, with the outcome of that row, and after
\* a delivery there is none.
THEOREM AttemptsAlwaysMatch == Spec => []AttemptsMatchHistory
<1>1. Init => AllTold
  <2> SUFFICES ASSUME Init, NEW o \in Orders
               PROVE  Told(orders[o].status, history[o], attempts[o])
    BY DEF AllTold
  <2>1. history[o] = <<>> /\ attempts[o] = <<>>
    BY DEF Init
  <2>2. Ends(history[o]) = {}
    BY <2>1 DEF Ends
  <2>3. Cardinality({}) = 0
    BY FS_EmptySet
  <2>4. Len(attempts[o]) = 0 /\ DOMAIN attempts[o] = {}
    BY <2>1
  <2> QED BY <2>2, <2>3, <2>4 DEF Told
<1>2. Inv /\ AllTold /\ [Next]_vars => AllTold'
  BY StepTold
<1>3. AllTold => AttemptsMatchHistory
  BY DEF AllTold, Told, AttemptsMatchHistory
<1> QED BY InvHolds, <1>1, <1>2, <1>3, PTL DEF Spec
=============================================================================
