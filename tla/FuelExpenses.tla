---- MODULE FuelExpenses ----
(***************************************************************************)
(* The server of driver expenses: fuel settings versions, default vehicles *)
(* and the expense of a driver's day, written by concurrent transactions   *)
(* (driver-expenses/*.service.ts).                                         *)
(*                                                                         *)
(* A request is one of three transactions.  Recording a day takes the      *)
(* timeline lock shared, reads the driver's default and the version in     *)
(* force, then inserts.  Adding a version takes the lock exclusively,      *)
(* looks for days it would re-price, then inserts.  A correction takes no  *)
(* lock: it reads the row, then updates it where the stamp still stands.   *)
(* Each statement is a step, and a transaction may be rolled back between  *)
(* two of them.                                                            *)
(*                                                                         *)
(* Abstracted: notes, which are written like the distance; the audit rows; *)
(* the answers.  Bounds: Stamps (see MaxStamp), the days and the requests. *)
(***************************************************************************)
EXTENDS ExpensePricing

CONSTANTS Requests,     \* transactions the server runs at the same time
          MaxEstimate,  \* the largest value of the estimated_expense column
          MaxStamp,     \* bound: the last stamp a correction starts from
          NoVehicle, NoDistance

ASSUME BoundsAssumption == MaxEstimate \in Nat /\ MaxStamp \in Nat
ASSUME NoVehicleAssumption == NoVehicle \notin Vehicles
ASSUME NoDistanceAssumption == NoDistance \notin Distances

VARIABLES
  versions,   \* driver_fuel_settings by effective_from, or NoRates
  profiles,   \* driver_expense_profiles.default_vehicle_type, or NoVehicle
  expenses,   \* driver_daily_expenses by driver and date, or NoExpense
  requests,   \* what each running transaction does and has read
  today,      \* the UTC business day
  clock       \* Date.now() of the server, which may be set back

vars == <<versions, profiles, expenses, requests, today, clock>>

Expense == [row : Row, updatedAt : Nat]

ASSUME NoExpenseAssumption == NoExpense \notin Row /\ NoExpense \notin Expense

Idle == [stage |-> "idle"]

Recorded == {k \in Keys : expenses[k] # NoExpense}

Running(p, stage) == requests[p].stage = stage

Becomes(p, state) == requests' = [requests EXCEPT ![p] = state]

(* --------------------------- the timeline lock --------------------------- *)

Sharing(p) == Running(p, "resolved")

Excluding(p) == Running(p, "checked")

MayShare == \A q \in Requests : ~Excluding(q)

MayExclude == \A q \in Requests : ~Excluding(q) /\ ~Sharing(q)

(* ------------------------------- recording ------------------------------- *)

\* findApplicableFuelSettings: effective_from <= date, newest first.
Effective(day) == {v \in Days : versions[v] # NoRates /\ v <= day}

\* Mutant: a version is not yet in force on its effective date.
VersionAfter(day) ==
  {v \in Effective(day) : v < day /\ \A w \in Effective(day) : w < day => w <= v}

ApplicableVersion(day) ==
  {v \in Effective(day) : \A w \in Effective(day) : w <= v}

Record(p, k, vehicle, distance) ==
  /\ requests[p] = Idle
  /\ k[2] <= today
  /\ Becomes(p, [stage |-> "recording", key |-> k, vehicle |-> vehicle,
                 distance |-> distance])
  /\ UNCHANGED <<versions, profiles, expenses, today, clock>>

\* The vehicle the request names, else the driver's default.
ChosenVehicle(call) ==
  IF call.vehicle # NoVehicle THEN call.vehicle ELSE profiles[call.key[1]]

ResolveDay(p) ==
  /\ Running(p, "recording")
  /\ MayShare
  /\ LET call == requests[p]
         vehicle == ChosenVehicle(call)
     IN \/ /\ vehicle = NoVehicle \/ ApplicableVersion(call.key[2]) = {}
           /\ Becomes(p, Idle)
        \/ /\ vehicle # NoVehicle
           /\ \E v \in ApplicableVersion(call.key[2]) :
                Becomes(p, [stage |-> "resolved", key |-> call.key,
                            row |-> PricedRow(v, versions[v], vehicle, call.distance)])
  /\ UNCHANGED <<versions, profiles, expenses, today, clock>>

Insertable(call) ==
  /\ expenses[call.key] = NoExpense
  /\ call.row.estimated <= MaxEstimate

InsertExpense(p) ==
  /\ Running(p, "resolved")
  /\ LET call == requests[p]
     IN \/ /\ Insertable(call)
           /\ expenses' = [expenses EXCEPT
                ![call.key] = [row |-> call.row, updatedAt |-> clock]]
        \/ ~Insertable(call) /\ UNCHANGED expenses
  /\ Becomes(p, Idle)
  /\ UNCHANGED <<versions, profiles, today, clock>>

(* -------------------------- fuel settings versions ------------------------ *)

AddVersion(p, day, rates) ==
  /\ requests[p] = Idle
  /\ Becomes(p, [stage |-> "pricing", day |-> day, rates |-> rates])
  /\ UNCHANGED <<versions, profiles, expenses, today, clock>>

\* Days on or after the date that were recorded with earlier settings.
Affected(day) ==
  {k \in Recorded : k[2] >= day /\ expenses[k].row.version < day}

CheckVersion(p) ==
  /\ Running(p, "pricing")
  /\ MayExclude
  /\ LET call == requests[p]
         free == versions[call.day] = NoRates /\ Affected(call.day) = {}
     IN Becomes(p, IF free THEN [call EXCEPT !.stage = "checked"] ELSE Idle)
  /\ UNCHANGED <<versions, profiles, expenses, today, clock>>

InsertVersion(p) ==
  /\ Running(p, "checked")
  /\ versions' = [versions EXCEPT ![requests[p].day] = requests[p].rates]
  /\ Becomes(p, Idle)
  /\ UNCHANGED <<profiles, expenses, today, clock>>

(* ------------------------------ corrections ------------------------------ *)

\* Sent for a row as somebody loaded it: `basis`, its stamp the expectedUpdatedAt.
Correct(p, k, vehicle, distance) ==
  /\ requests[p] = Idle
  /\ expenses[k] # NoExpense
  /\ expenses[k].updatedAt <= MaxStamp
  /\ Becomes(p, [stage |-> "correcting", key |-> k, vehicle |-> vehicle,
                 distance |-> distance, basis |-> expenses[k]])
  /\ UNCHANGED <<versions, profiles, expenses, today, clock>>

CorrectedVehicle(call, row) ==
  IF call.vehicle # NoVehicle THEN call.vehicle ELSE row.vehicle

CorrectedDistance(call, row) ==
  IF call.distance # NoDistance THEN call.distance ELSE row.distance

\* The row's own version and price snapshot stay; the vehicle's consumption is
\* the one of that version.
CorrectedRow(call, row) ==
  PricedRow(row.version,
            [price |-> row.price, consumption |-> versions[row.version].consumption],
            CorrectedVehicle(call, row), CorrectedDistance(call, row))

\* The stored snapshots still equal the version they reference.
Consistent(row) ==
  /\ row.price = versions[row.version].price
  /\ row.consumption = versions[row.version].consumption[row.vehicle]

ReadExpense(p) ==
  /\ Running(p, "correcting")
  /\ LET call == requests[p]
         existing == expenses[call.key]
         row == CorrectedRow(call, existing.row)
         proceeds == /\ existing.updatedAt = call.basis.updatedAt
                     /\ Consistent(existing.row)
                     /\ row.estimated <= MaxEstimate
                     /\ row # existing.row
     IN Becomes(p, IF proceeds
                     THEN [stage |-> "claiming", key |-> call.key, basis |-> call.basis,
                           row |-> row, read |-> existing.updatedAt]
                     ELSE Idle)
  /\ UNCHANGED <<versions, profiles, expenses, today, clock>>

\* Mutant: the stamp is the time of the write.
ClockStamp(read) == clock

\* max(Date.now(), existing.updated_at + 1)
NextStamp(read) == IF clock > read THEN clock ELSE read + 1

Claims(call) == expenses[call.key].updatedAt = call.read

ClaimExpense(p) ==
  /\ Running(p, "claiming")
  /\ LET call == requests[p]
     IN \/ /\ Claims(call)
           /\ expenses' = [expenses EXCEPT
                ![call.key] = [row |-> call.row, updatedAt |-> NextStamp(call.read)]]
        \/ ~Claims(call) /\ UNCHANGED expenses
  /\ Becomes(p, Idle)
  /\ UNCHANGED <<versions, profiles, today, clock>>

(* ------------------------- profiles, time, failures ----------------------- *)

\* upsertExpenseProfile, serialized per driver by its own lock.
SetDefaultVehicle(d, vehicle) ==
  /\ profiles[d] # vehicle
  /\ profiles' = [profiles EXCEPT ![d] = vehicle]
  /\ UNCHANGED <<versions, expenses, requests, today, clock>>

\* A statement fails, the connection is lost or the transaction times out.
RollBack(p) ==
  /\ requests[p] # Idle
  /\ Becomes(p, Idle)
  /\ UNCHANGED <<versions, profiles, expenses, today, clock>>

SetClock(t) ==
  /\ clock # t
  /\ clock' = t
  /\ UNCHANGED <<versions, profiles, expenses, requests, today>>

NextDay ==
  /\ today + 1 \in Days
  /\ today' = today + 1
  /\ UNCHANGED <<versions, profiles, expenses, requests, clock>>

(* ------------------------------ specification ----------------------------- *)

Init ==
  /\ versions = [d \in Days |-> NoRates]
  /\ profiles = [d \in Drivers |-> NoVehicle]
  /\ expenses = [k \in Keys |-> NoExpense]
  /\ requests = [p \in Requests |-> Idle]
  /\ today \in Days
  /\ clock = 0

Advance(p) ==
  \/ ResolveDay(p)
  \/ InsertExpense(p)
  \/ CheckVersion(p)
  \/ InsertVersion(p)
  \/ ReadExpense(p)
  \/ ClaimExpense(p)

Receive(p) ==
  \/ \E k \in Keys, vehicle \in Vehicles \cup {NoVehicle}, distance \in Distances :
       Record(p, k, vehicle, distance)
  \/ \E day \in Days, rates \in Rates : AddVersion(p, day, rates)
  \/ \E k \in Keys, vehicle \in Vehicles \cup {NoVehicle},
        distance \in Distances \cup {NoDistance} : Correct(p, k, vehicle, distance)

Next ==
  \/ \E p \in Requests : Receive(p) \/ Advance(p) \/ RollBack(p)
  \/ \E d \in Drivers, vehicle \in Vehicles : SetDefaultVehicle(d, vehicle)
  \/ \E t \in 0..MaxStamp : SetClock(t)
  \/ NextDay

Spec == Init /\ [][Next]_vars

(* -------------------------------- properties ------------------------------ *)

RecordingCall == [stage : {"recording"}, key : Keys, vehicle : Vehicles \cup {NoVehicle},
                  distance : Distances]
ResolvedCall == [stage : {"resolved"}, key : Keys, row : Row]
VersionCall == [stage : {"pricing", "checked"}, day : Days, rates : Rates]
CorrectingCall == [stage : {"correcting"}, key : Keys, vehicle : Vehicles \cup {NoVehicle},
                   distance : Distances \cup {NoDistance}, basis : Expense]
ClaimingCall == [stage : {"claiming"}, key : Keys, basis : Expense, row : Row, read : Nat]

\* What a request is, by what its transaction has read so far.
RequestType ==
  {Idle} \cup RecordingCall \cup ResolvedCall \cup VersionCall \cup CorrectingCall
         \cup ClaimingCall

\* The tables, the running requests and the clock have their types.
TypeOK ==
  /\ versions \in [Days -> Rates \cup {NoRates}]
  /\ profiles \in [Drivers -> Vehicles \cup {NoVehicle}]
  /\ expenses \in [Keys -> Expense \cup {NoExpense}]
  /\ requests \in [Requests -> RequestType]
  /\ today \in Days
  /\ clock \in Nat

\* A recorded day is priced with the version in force on it, now and after any
\* later version: no writer of the timeline slipped between resolving a day's
\* settings and inserting it, or between the retroactive check and the version.
ResolvedAsRecorded ==
  \A k \in Recorded : expenses[k].row.version \in ApplicableVersion(k[2])

\* The price and consumption a row froze are those of the version it names for
\* the vehicle it names, and its estimate is their product: the correction's
\* integrity error (500) and the table's CHECK never fire.
SnapshotsMatchVersion ==
  \A k \in Recorded :
    LET row == expenses[k].row
    IN /\ Consistent(row)
       /\ row.estimated = EstimatedExpense(row.distance, row.price, row.consumption)

\* A row is only ever replaced by a correction of exactly that row, as the
\* administrator had loaded it: not of one somebody else has changed since, not
\* even when both changes carry the same millisecond or the clock was set back.
\* A recorded day is never removed, and never recorded over.
NothingOverwrittenUnseen ==
  [][\A k \in Recorded : expenses'[k] # expenses[k] =>
       \E p \in Requests : /\ Running(p, "claiming")
                           /\ requests[p].key = k
                           /\ requests[p].basis = expenses[k]
                           /\ requests'[p] = Idle]_vars

\* Every request is answered: no transaction waits for the timeline lock forever.
Answered == \A p \in Requests : requests[p] # Idle ~> requests[p] = Idle

RowOf(k) == IF expenses[k] = NoExpense THEN NoExpense ELSE expenses[k].row

Ledger == INSTANCE ExpenseLedger WITH rows <- [k \in Keys |-> RowOf(k)]

\* The transactions implement the ledger of priced days, each by its insert or
\* its update.
ImplementsLedger == Ledger!LedgerSpec
====
