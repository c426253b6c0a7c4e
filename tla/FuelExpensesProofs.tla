---- MODULE FuelExpensesProofs ----
(***************************************************************************)
(* The days of FuelExpenses keep the settings in force on them, for every  *)
(* set of drivers, days, rates, distances and concurrent requests.         *)
(*                                                                         *)
(* The invariant that carries the argument says what a transaction between *)
(* two statements may rely on: the one that resolved a day still has the   *)
(* version in force in its hands, because the shared lock keeps writers of *)
(* the timeline out; the one that checked a version still re-prices no     *)
(* day, because the exclusive lock keeps recorders out; and a correction,  *)
(* which takes no lock, still has the row it read if the stamp is the one  *)
(* it read, because stamps only grow.                                      *)
(*                                                                         *)
(* The last part is about the grid that records the days (DailyExpenseGrid)*)
(* and rests on the same fact: a copy of a record, however old, is the     *)
(* record if it has the record's stamp.                                    *)
(***************************************************************************)
EXTENDS FuelExpenses, DailyExpenseGrid, FiniteSetTheorems, TLAPS

\* A row of a driver's day: its version is in force then and priced it.
Standing(k, row) ==
  /\ row.version \in ApplicableVersion(k[2])
  /\ row = PricedRow(row.version, versions[row.version], row.vehicle, row.distance)

\* The row a correction was made for is an earlier state of the record, or the record.
BasisStands(k, basis) ==
  /\ k \in Recorded
  /\ basis.updatedAt <= expenses[k].updatedAt
  /\ basis.updatedAt = expenses[k].updatedAt => basis = expenses[k]

RowsStand == \A k \in Recorded : Standing(k, expenses[k].row)

LocksExclude ==
  \A p, q \in Requests : Excluding(p) => ~Sharing(q) /\ (Excluding(q) => p = q)

ResolvedStands(call) == call.stage = "resolved" => Standing(call.key, call.row)

CheckedStands(call) ==
  call.stage = "checked" => versions[call.day] = NoRates /\ Affected(call.day) = {}

CorrectingStands(call) ==
  call.stage = "correcting" => BasisStands(call.key, call.basis)

ClaimingStands(call) ==
  call.stage = "claiming" =>
    /\ BasisStands(call.key, call.basis)
    /\ call.read = call.basis.updatedAt
    /\ call.row.version = expenses[call.key].row.version
    /\ Standing(call.key, call.row)

RequestStands(call) ==
  /\ ResolvedStands(call)
  /\ CheckedStands(call)
  /\ CorrectingStands(call)
  /\ ClaimingStands(call)

Inv ==
  /\ TypeOK
  /\ LocksExclude
  /\ RowsStand
  /\ \A p \in Requests : RequestStands(requests[p])

-----------------------------------------------------------------------------
(* Types. *)

LEMMA EstimateType ==
  ASSUME NEW a \in Nat, NEW b \in Nat, NEW c \in Nat
  PROVE  EstimatedExpense(a, b, c) \in Nat
BY DEF EstimatedExpense

LEMMA PricedRowType ==
  ASSUME NEW v \in Days, NEW rates, rates.price \in Nat,
         rates.consumption \in [Vehicles -> Nat],
         NEW vehicle \in Vehicles, NEW distance \in Distances
  PROVE  /\ PricedRow(v, rates, vehicle, distance) \in Row
         /\ PricedRow(v, rates, vehicle, distance).version = v
         /\ PricedRow(v, rates, vehicle, distance).vehicle = vehicle
         /\ PricedRow(v, rates, vehicle, distance).distance = distance
         /\ PricedRow(v, rates, vehicle, distance).price = rates.price
         /\ PricedRow(v, rates, vehicle, distance).consumption = rates.consumption[vehicle]
         /\ PricedRow(v, rates, vehicle, distance).estimated
              = EstimatedExpense(distance, rates.price, rates.consumption[vehicle])
<1>1. distance \in Nat /\ rates.consumption[vehicle] \in Nat
  BY DistancesAssumption
<1>2. EstimatedExpense(distance, rates.price, rates.consumption[vehicle]) \in Nat
  BY <1>1, EstimateType
<1> QED BY <1>1, <1>2 DEF PricedRow, Row

LEMMA CallOfStage ==
  ASSUME NEW call \in RequestType
  PROVE  /\ call.stage = "recording" => call \in RecordingCall
         /\ call.stage = "resolved" => call \in ResolvedCall
         /\ call.stage \in {"pricing", "checked"} => call \in VersionCall
         /\ call.stage = "correcting" => call \in CorrectingCall
         /\ call.stage = "claiming" => call \in ClaimingCall
BY DEF RequestType, Idle, RecordingCall, ResolvedCall, VersionCall, CorrectingCall,
       ClaimingCall

LEMMA BecomesType ==
  ASSUME requests \in [Requests -> RequestType], NEW p \in Requests,
         NEW x \in RequestType, Becomes(p, x)
  PROVE  /\ requests' \in [Requests -> RequestType]
         /\ requests'[p] = x
         /\ \A q \in Requests : q # p => requests'[q] = requests[q]
BY DEF Becomes

LEMMA RatesOf ==
  ASSUME TypeOK, NEW v \in Days, versions[v] # NoRates
  PROVE  /\ versions[v] \in Rates
         /\ versions[v].price \in Nat
         /\ versions[v].consumption \in [Vehicles -> Nat]
BY RatesAssumption DEF TypeOK

LEMMA IdleType == Idle \in RequestType
BY DEF RequestType

LEMMA RecordedType ==
  ASSUME TypeOK, NEW k \in Keys
  PROVE  /\ k \in Recorded <=> expenses[k] # NoExpense
         /\ k \in Recorded => /\ expenses[k] \in Expense
                              /\ expenses[k].row \in Row
                              /\ expenses[k].updatedAt \in Nat
BY DEF TypeOK, Recorded, Expense

LEMMA KeyDay == \A k \in Keys : k[1] \in Drivers /\ k[2] \in Days
BY DEF Keys

-----------------------------------------------------------------------------
(* Steps that only move a transaction. *)

\* What every request relies on is about the versions and the expenses alone.
LEMMA StandsWhileTablesStand ==
  ASSUME UNCHANGED <<versions, expenses>>
  PROVE  /\ RowsStand => RowsStand'
         /\ \A k, row : Standing(k, row) => Standing(k, row)'
         /\ \A k, basis : BasisStands(k, basis) => BasisStands(k, basis)'
<1>1. Recorded' = Recorded /\ (\A d : ApplicableVersion(d)' = ApplicableVersion(d))
  BY DEF Recorded, ApplicableVersion, Effective
<1>2. \A k, row : Standing(k, row) => Standing(k, row)'
  BY <1>1 DEF Standing
<1>3. \A k, basis : BasisStands(k, basis) => BasisStands(k, basis)'
  BY <1>1 DEF BasisStands
<1>4. RowsStand => RowsStand'
  BY <1>1, <1>2 DEF RowsStand
<1> QED BY <1>2, <1>3, <1>4

LEMMA RequestStandsWhileTablesStand ==
  ASSUME UNCHANGED <<versions, expenses>>, NEW call, RequestStands(call)
  PROVE  /\ call.stage = "resolved" => Standing(call.key, call.row)'
         /\ call.stage = "checked" => versions'[call.day] = NoRates /\ Affected(call.day)' = {}
         /\ call.stage = "correcting" => BasisStands(call.key, call.basis)'
         /\ call.stage = "claiming" =>
              /\ BasisStands(call.key, call.basis)'
              /\ call.read = call.basis.updatedAt
              /\ call.row.version = expenses'[call.key].row.version
              /\ Standing(call.key, call.row)'
<1>1. Affected(call.day)' = Affected(call.day)
  BY DEF Affected, Recorded
<1> QED BY <1>1, StandsWhileTablesStand
     DEF RequestStands, ResolvedStands, CheckedStands, CorrectingStands, ClaimingStands

LEMMA LocksStep ==
  ASSUME LocksExclude, TypeOK, NEW p \in Requests, NEW x \in RequestType, Becomes(p, x),
         x.stage = "resolved" => MayShare,
         x.stage = "checked" => MayExclude
  PROVE  LocksExclude'
<1>1. /\ requests'[p] = x
      /\ \A q \in Requests : q # p => requests'[q] = requests[q]
  BY BecomesType DEF TypeOK
<1> SUFFICES ASSUME NEW a \in Requests, NEW b \in Requests, Excluding(a)'
             PROVE  ~Sharing(b)' /\ (Excluding(b)' => a = b)
  BY DEF LocksExclude
<1>2. CASE a = p
  <2>1. MayExclude
    BY <1>1, <1>2 DEF Excluding, Running
  <2> QED BY <1>1, <1>2, <2>1 DEF Excluding, Sharing, Running, MayExclude
<1>3. CASE a # p
  <2>1. Excluding(a)
    BY <1>1, <1>3 DEF Excluding, Running
  <2> QED BY <1>1, <1>3, <2>1 DEF Excluding, Sharing, Running, MayExclude, MayShare,
                                  LocksExclude
<1> QED BY <1>2, <1>3

LEMMA MoveStep ==
  ASSUME Inv, NEW p \in Requests, NEW x \in RequestType, Becomes(p, x),
         UNCHANGED <<versions, profiles, expenses, today, clock>>,
         RequestStands(x),
         x.stage = "resolved" => MayShare,
         x.stage = "checked" => MayExclude
  PROVE  Inv'
<1>1. /\ requests' \in [Requests -> RequestType]
      /\ requests'[p] = x
      /\ \A q \in Requests : q # p => requests'[q] = requests[q]
  BY BecomesType DEF Inv, TypeOK
<1>2. TypeOK'
  BY <1>1 DEF Inv, TypeOK
<1>3. LocksExclude'
  BY LocksStep DEF Inv
<1>4. RowsStand'
  BY StandsWhileTablesStand DEF Inv
<1>5. \A q \in Requests : RequestStands(requests[q])'
  <2> TAKE q \in Requests
  <2>1. RequestStands(requests'[q])
    BY <1>1 DEF Inv
  <2> QED BY <2>1, RequestStandsWhileTablesStand
       DEF RequestStands, ResolvedStands, CheckedStands, CorrectingStands, ClaimingStands
<1> QED BY <1>2, <1>3, <1>4, <1>5 DEF Inv

LEMMA IdleStands == RequestStands(Idle) /\ Idle.stage = "idle"
BY DEF Idle, RequestStands, ResolvedStands, CheckedStands, CorrectingStands, ClaimingStands

LEMMA IdleStep ==
  ASSUME Inv, NEW p \in Requests, Becomes(p, Idle),
         UNCHANGED <<versions, profiles, expenses, today, clock>>
  PROVE  Inv'
BY MoveStep, IdleStands, IdleType

LEMMA ReceiveStep ==
  ASSUME Inv, NEW p \in Requests, Receive(p)
  PROVE  Inv'
<1>1. ASSUME NEW k \in Keys, NEW vehicle \in Vehicles \cup {NoVehicle},
             NEW distance \in Distances, Record(p, k, vehicle, distance)
      PROVE  Inv'
  <2> DEFINE x == [stage |-> "recording", key |-> k, vehicle |-> vehicle,
                   distance |-> distance]
  <2>1. x \in RecordingCall /\ x.stage = "recording"
    BY DEF RecordingCall
  <2>2. x \in RequestType
    BY <2>1 DEF RequestType
  <2>3. RequestStands(x)
    BY <2>1 DEF RequestStands, ResolvedStands, CheckedStands, CorrectingStands, ClaimingStands
  <2>4. Becomes(p, x) /\ UNCHANGED <<versions, profiles, expenses, today, clock>>
    BY <1>1 DEF Record
  <2> HIDE DEF x
  <2> QED BY <2>1, <2>2, <2>3, <2>4, MoveStep
<1>2. ASSUME NEW day \in Days, NEW rates \in Rates, AddVersion(p, day, rates)
      PROVE  Inv'
  <2> DEFINE x == [stage |-> "pricing", day |-> day, rates |-> rates]
  <2>1. x \in VersionCall /\ x.stage = "pricing"
    BY DEF VersionCall
  <2>2. x \in RequestType
    BY <2>1 DEF RequestType
  <2>3. RequestStands(x)
    BY <2>1 DEF RequestStands, ResolvedStands, CheckedStands, CorrectingStands, ClaimingStands
  <2>4. Becomes(p, x) /\ UNCHANGED <<versions, profiles, expenses, today, clock>>
    BY <1>2 DEF AddVersion
  <2> HIDE DEF x
  <2> QED BY <2>1, <2>2, <2>3, <2>4, MoveStep
<1>3. ASSUME NEW k \in Keys, NEW vehicle \in Vehicles \cup {NoVehicle},
             NEW distance \in Distances \cup {NoDistance}, Correct(p, k, vehicle, distance)
      PROVE  Inv'
  <2> DEFINE x == [stage |-> "correcting", key |-> k, vehicle |-> vehicle,
                   distance |-> distance, basis |-> expenses[k]]
  <2>1. k \in Recorded /\ expenses[k] \in Expense /\ expenses[k].updatedAt \in Nat
    BY <1>3, RecordedType DEF Correct, Inv
  <2>2. /\ x \in CorrectingCall /\ x.stage = "correcting" /\ x.key = k
        /\ x.basis = expenses[k]
    BY <2>1 DEF CorrectingCall
  <2>3. x \in RequestType
    BY <2>2 DEF RequestType
  <2>4. Becomes(p, x) /\ UNCHANGED <<versions, profiles, expenses, today, clock>>
    BY <1>3 DEF Correct
  <2> HIDE DEF x
  <2>5. RequestStands(x)
    BY <2>1, <2>2
       DEF RequestStands, ResolvedStands, CheckedStands, CorrectingStands, ClaimingStands,
           BasisStands
  <2> QED BY <2>2, <2>3, <2>4, <2>5, MoveStep
<1> QED BY <1>1, <1>2, <1>3 DEF Receive

LEMMA ApplicableType ==
  ASSUME NEW day, NEW v \in ApplicableVersion(day)
  PROVE  v \in Days /\ versions[v] # NoRates
BY DEF ApplicableVersion, Effective

LEMMA ResolveStep ==
  ASSUME Inv, NEW p \in Requests, ResolveDay(p)
  PROVE  Inv'
<1> DEFINE call == requests[p]
           vehicle == ChosenVehicle(call)
<1>0. /\ call \in RecordingCall
      /\ UNCHANGED <<versions, profiles, expenses, today, clock>>
      /\ MayShare
  BY CallOfStage DEF ResolveDay, Running, Inv, TypeOK
<1>1. CASE Becomes(p, Idle)
  BY <1>0, <1>1, IdleStep
<1>2. CASE /\ vehicle # NoVehicle
           /\ \E v \in ApplicableVersion(call.key[2]) :
                Becomes(p, [stage |-> "resolved", key |-> call.key,
                            row |-> PricedRow(v, versions[v], vehicle, call.distance)])
  <2>1. /\ call.key \in Keys /\ call.distance \in Distances /\ vehicle \in Vehicles
    BY <1>0, <1>2, KeyDay DEF RecordingCall, ChosenVehicle, Inv, TypeOK
  <2>2. PICK v \in ApplicableVersion(call.key[2]) :
          Becomes(p, [stage |-> "resolved", key |-> call.key,
                      row |-> PricedRow(v, versions[v], vehicle, call.distance)])
    BY <1>2
  <2> DEFINE row == PricedRow(v, versions[v], vehicle, call.distance)
             x == [stage |-> "resolved", key |-> call.key, row |-> row]
  <2>3. v \in Days /\ versions[v] # NoRates
    BY <2>2, ApplicableType
  <2>4. /\ versions[v].price \in Nat
        /\ versions[v].consumption \in [Vehicles -> Nat]
    BY <2>3, RatesOf DEF Inv
  <2>5. /\ row \in Row /\ row.version = v /\ row.vehicle = vehicle
        /\ row.distance = call.distance
    BY <2>1, <2>3, <2>4, PricedRowType
  <2>6. Standing(call.key, row)
    BY <2>2, <2>5 DEF Standing
  <2>7. Becomes(p, x)
    BY <2>2
  <2> HIDE DEF row
  <2>8. x \in ResolvedCall /\ x.stage = "resolved" /\ x.key = call.key /\ x.row = row
    BY <2>1, <2>5 DEF ResolvedCall
  <2> HIDE DEF x
  <2>9. x \in RequestType
    BY <2>8 DEF RequestType
  <2>10. RequestStands(x)
    BY <2>6, <2>8
       DEF RequestStands, ResolvedStands, CheckedStands, CorrectingStands, ClaimingStands
  <2> QED BY <1>0, <2>7, <2>8, <2>9, <2>10, MoveStep
<1> QED BY <1>1, <1>2 DEF ResolveDay

LEMMA CheckStep ==
  ASSUME Inv, NEW p \in Requests, CheckVersion(p)
  PROVE  Inv'
<1> DEFINE call == requests[p]
           free == versions[call.day] = NoRates /\ Affected(call.day) = {}
           x == [call EXCEPT !.stage = "checked"]
<1>0. /\ call \in VersionCall
      /\ UNCHANGED <<versions, profiles, expenses, today, clock>>
      /\ MayExclude
      /\ Becomes(p, IF free THEN x ELSE Idle)
  BY CallOfStage DEF CheckVersion, Running, Inv, TypeOK
<1>1. CASE ~free
  BY <1>0, <1>1, IdleStep
<1>2. CASE free
  <2>1. Becomes(p, x)
    BY <1>0, <1>2
  <2>2. x \in VersionCall /\ x.stage = "checked" /\ x.day = call.day
    BY <1>0 DEF VersionCall
  <2> HIDE DEF x
  <2>3. x \in RequestType
    BY <2>2 DEF RequestType
  <2>4. RequestStands(x)
    BY <1>2, <2>2
       DEF RequestStands, ResolvedStands, CheckedStands, CorrectingStands, ClaimingStands
  <2> QED BY <1>0, <2>1, <2>2, <2>3, <2>4, MoveStep
<1> QED BY <1>1, <1>2

\* The row a correction writes stands on the row it corrects.
LEMMA CorrectedRowStands ==
  ASSUME Inv, NEW call \in CorrectingCall, NEW row \in Row, Standing(call.key, row)
  PROVE  /\ CorrectedRow(call, row) \in Row
         /\ CorrectedRow(call, row).version = row.version
         /\ Standing(call.key, CorrectedRow(call, row))
         /\ CorrectedRow(call, row) =
              PricedRow(row.version, versions[row.version],
                        CorrectedVehicle(call, row), CorrectedDistance(call, row))
         /\ CorrectedVehicle(call, row) \in Vehicles
         /\ CorrectedDistance(call, row) \in Distances
<1> DEFINE v == row.version
           vehicle == CorrectedVehicle(call, row)
           distance == CorrectedDistance(call, row)
           rates == [price |-> row.price, consumption |-> versions[v].consumption]
           new == PricedRow(v, rates, vehicle, distance)
<1>1. v \in ApplicableVersion(call.key[2]) /\ v \in Days /\ versions[v] # NoRates
  BY ApplicableType DEF Standing
<1>2. /\ versions[v].price \in Nat
      /\ versions[v].consumption \in [Vehicles -> Nat]
  BY <1>1, RatesOf DEF Inv
<1>3. row.vehicle \in Vehicles /\ row.distance \in Distances
  BY DEF Row
<1>4. vehicle \in Vehicles /\ distance \in Distances
  BY <1>3 DEF CorrectedVehicle, CorrectedDistance, CorrectingCall
<1>5. row.price = versions[v].price
  BY <1>1, <1>2, <1>3, PricedRowType DEF Standing
<1>6. /\ rates.price = versions[v].price /\ rates.price \in Nat
      /\ rates.consumption = versions[v].consumption
      /\ rates.consumption \in [Vehicles -> Nat]
  BY <1>2, <1>5
<1>7. new = PricedRow(v, versions[v], vehicle, distance)
  BY <1>6 DEF PricedRow
<1>8. /\ new \in Row /\ new.version = v /\ new.vehicle = vehicle /\ new.distance = distance
  BY <1>1, <1>2, <1>4, <1>7, PricedRowType
<1>9. new = CorrectedRow(call, row)
  BY DEF CorrectedRow
<1> HIDE DEF new
<1>10. Standing(call.key, new)
  BY <1>1, <1>7, <1>8 DEF Standing
<1> QED BY <1>4, <1>7, <1>8, <1>9, <1>10

LEMMA ReadStep ==
  ASSUME Inv, NEW p \in Requests, ReadExpense(p)
  PROVE  Inv'
<1> DEFINE call == requests[p]
           existing == expenses[call.key]
           row == CorrectedRow(call, existing.row)
           x == [stage |-> "claiming", key |-> call.key, basis |-> call.basis,
                 row |-> row, read |-> existing.updatedAt]
<1>0. /\ call \in CorrectingCall /\ call.stage = "correcting"
      /\ UNCHANGED <<versions, profiles, expenses, today, clock>>
  BY CallOfStage DEF ReadExpense, Running, Inv, TypeOK
<1>1. CASE Becomes(p, Idle)
  BY <1>0, <1>1, IdleStep
<1>2. CASE Becomes(p, x) /\ existing.updatedAt = call.basis.updatedAt
  <2>1. BasisStands(call.key, call.basis) /\ call.key \in Keys /\ call.basis \in Expense
    BY <1>0 DEF Inv, RequestStands, CorrectingStands, CorrectingCall
  <2>2. /\ call.key \in Recorded /\ existing.row \in Row /\ existing.updatedAt \in Nat
    BY <2>1, RecordedType DEF BasisStands, Inv
  <2>3. Standing(call.key, existing.row)
    BY <2>2 DEF Inv, RowsStand
  <2>4. row \in Row /\ row.version = existing.row.version /\ Standing(call.key, row)
    BY <1>0, <2>2, <2>3, CorrectedRowStands
  <2> HIDE DEF row
  <2>5. /\ x \in ClaimingCall /\ x.stage = "claiming" /\ x.key = call.key
        /\ x.basis = call.basis /\ x.row = row /\ x.read = existing.updatedAt
    BY <2>1, <2>2, <2>4 DEF ClaimingCall
  <2> HIDE DEF x
  <2>6. x \in RequestType
    BY <2>5 DEF RequestType
  <2>7. RequestStands(x)
    BY <1>2, <2>1, <2>4, <2>5
       DEF RequestStands, ResolvedStands, CheckedStands, CorrectingStands, ClaimingStands
  <2>8. Becomes(p, x)
    BY <1>2 DEF x, row
  <2> QED BY <1>0, <2>5, <2>6, <2>7, <2>8, MoveStep
<1> QED BY <1>1, <1>2 DEF ReadExpense

-----------------------------------------------------------------------------
(* Steps that write a table. *)

LEMMA StandingNeedsVersionsOnly ==
  ASSUME UNCHANGED versions, NEW k, NEW row
  PROVE  Standing(k, row) <=> Standing(k, row)'
BY DEF Standing, ApplicableVersion, Effective

\* A version no day is affected by leaves in force what was in force.
LEMMA VersionKeepsStanding ==
  ASSUME TypeOK, NEW day \in Days, NEW rates \in Rates, versions[day] = NoRates,
         versions' = [versions EXCEPT ![day] = rates],
         NEW k \in Keys, NEW row, Standing(k, row),
         ~(k[2] >= day /\ row.version < day)
  PROVE  Standing(k, row)'
<1> DEFINE v == row.version
<1>0. v \in Days /\ versions[v] # NoRates /\ k[2] \in Days /\ v \in Int /\ k[2] \in Int
      /\ day \in Int
  BY ApplicableType, KeyDay, DaysAssumption DEF Standing
<1>1. versions'[v] = versions[v] /\ versions[v] # NoRates
  BY <1>0 DEF TypeOK
<1>2. v <= k[2] /\ \A w \in Effective(k[2]) : w <= v
  BY DEF Standing, ApplicableVersion, Effective
<1>3. ASSUME NEW w \in Days, versions'[w] # NoRates, w <= k[2]
      PROVE  w <= v
  <2>1. CASE w = day
    BY <1>0, <1>3, <2>1
  <2>2. CASE w # day
    <3>1. w \in Effective(k[2])
      BY <1>3, <2>2 DEF Effective, TypeOK
    <3> QED BY <1>2, <3>1
  <2> QED BY <2>1, <2>2
<1>4. v \in ApplicableVersion(k[2])'
  BY <1>0, <1>1, <1>2, <1>3 DEF ApplicableVersion, Effective
<1> QED BY <1>1, <1>4 DEF Standing

LEMMA InsertVersionStep ==
  ASSUME Inv, NEW p \in Requests, InsertVersion(p)
  PROVE  Inv'
<1> DEFINE call == requests[p]
<1>0. /\ call \in VersionCall /\ call.stage = "checked"
      /\ versions' = [versions EXCEPT ![call.day] = call.rates]
      /\ Becomes(p, Idle)
      /\ UNCHANGED <<profiles, expenses, today, clock>>
      /\ Excluding(p)
  BY CallOfStage DEF InsertVersion, Running, Inv, TypeOK, Excluding
<1>1. /\ call.day \in Days /\ call.rates \in Rates
      /\ versions[call.day] = NoRates /\ Affected(call.day) = {}
  BY <1>0 DEF VersionCall, Inv, RequestStands, CheckedStands
<1>2. /\ requests' \in [Requests -> RequestType]
      /\ requests'[p] = Idle
      /\ \A q \in Requests : q # p => requests'[q] = requests[q]
  BY <1>0, BecomesType, IdleType DEF Inv, TypeOK
<1>3. TypeOK'
  BY <1>0, <1>1, <1>2 DEF Inv, TypeOK
<1>4. LocksExclude'
  BY <1>0, LocksStep, IdleType, IdleStands DEF Inv
<1>5. Recorded' = Recorded
  BY <1>0 DEF Recorded
<1>6. ASSUME NEW k \in Recorded, NEW row, row.version = expenses[k].row.version,
             Standing(k, row)
      PROVE  Standing(k, row)'
  <2>1. k \in Keys /\ k \notin Affected(call.day)
    BY <1>1 DEF Recorded
  <2>2. ~(k[2] >= call.day /\ row.version < call.day)
    BY <1>6, <2>1 DEF Affected
  <2> QED BY <1>0, <1>1, <1>6, <2>1, <2>2, VersionKeepsStanding DEF Inv
<1>7. RowsStand'
  <2> SUFFICES ASSUME NEW k \in Recorded PROVE Standing(k, expenses[k].row)'
    BY <1>0, <1>5 DEF RowsStand
  <2>1. Standing(k, expenses[k].row)
    BY DEF Inv, RowsStand
  <2> DEFINE row == expenses[k].row
  <2>2. row' = row
    BY <1>0
  <2>3. row.version = expenses[k].row.version /\ Standing(k, row)
    BY <2>1
  <2> HIDE DEF row
  <2>4. Standing(k, row)'
    BY <1>6, <2>2, <2>3 DEF Standing
  <2> QED BY <2>4 DEF row
<1>8. \A q \in Requests : RequestStands(requests[q])'
  <2> TAKE q \in Requests
  <2>1. CASE q = p
    BY <1>2, <2>1, IdleStands
       DEF RequestStands, ResolvedStands, CheckedStands, CorrectingStands, ClaimingStands
  <2>2. CASE q # p
    <3>0. PICK other : other = requests[q] /\ other = requests'[q]
      BY <1>2, <2>2
    <3>1. RequestStands(other)
      BY <3>0 DEF Inv
    <3>2. other.stage # "resolved" /\ other.stage # "checked"
      BY <1>0, <2>2, <3>0 DEF Inv, LocksExclude, Sharing, Excluding, Running
    <3>3. other.stage = "correcting" => BasisStands(other.key, other.basis)'
      BY <1>0, <1>5, <3>1 DEF RequestStands, CorrectingStands, BasisStands
    <3>4. ASSUME other.stage = "claiming"
          PROVE  /\ BasisStands(other.key, other.basis)'
                 /\ other.read = other.basis.updatedAt
                 /\ other.row.version = expenses'[other.key].row.version
                 /\ Standing(other.key, other.row)'
      <4>1. /\ BasisStands(other.key, other.basis)
            /\ other.read = other.basis.updatedAt
            /\ other.row.version = expenses[other.key].row.version
            /\ Standing(other.key, other.row)
        BY <3>1, <3>4 DEF RequestStands, ClaimingStands
      <4>2. BasisStands(other.key, other.basis)'
        BY <1>0, <1>5, <4>1 DEF BasisStands
      <4>3. other.key \in Recorded
        BY <4>1 DEF BasisStands
      <4>4. Standing(other.key, other.row)'
        BY <1>6, <4>1, <4>3
      <4> QED BY <1>0, <4>1, <4>2, <4>4
    <3> QED BY <3>0, <3>1, <3>2, <3>3, <3>4
         DEF RequestStands, ResolvedStands, CheckedStands, CorrectingStands, ClaimingStands
  <2> QED BY <2>1, <2>2
<1> QED BY <1>3, <1>4, <1>7, <1>8 DEF Inv

\* A row that is written, new or corrected, keeps what everybody else relies on.
LEMMA WriteStep ==
  ASSUME Inv, NEW p \in Requests, Becomes(p, Idle),
         UNCHANGED <<versions, profiles, today, clock>>,
         NEW k \in Keys, NEW row \in Row, NEW stamp \in Nat, Standing(k, row),
         expenses' = [expenses EXCEPT ![k] = [row |-> row, updatedAt |-> stamp]],
         \/ expenses[k] = NoExpense /\ Sharing(p)
         \/ /\ k \in Recorded
            /\ row.version = expenses[k].row.version
            /\ stamp > expenses[k].updatedAt
  PROVE  Inv'
<1> DEFINE new == [row |-> row, updatedAt |-> stamp]
<1>0. /\ new \in Expense /\ new # NoExpense /\ new.row = row /\ new.updatedAt = stamp
  BY NoExpenseAssumption DEF Expense
<1>1. /\ requests' \in [Requests -> RequestType]
      /\ requests'[p] = Idle
      /\ \A q \in Requests : q # p => requests'[q] = requests[q]
  BY BecomesType, IdleType DEF Inv, TypeOK
<1>2. /\ expenses'[k] = new
      /\ \A j \in Keys : j # k => expenses'[j] = expenses[j]
      /\ expenses' \in [Keys -> Expense \cup {NoExpense}]
  BY <1>0 DEF Inv, TypeOK
<1> HIDE DEF new
<1>3. TypeOK'
  BY <1>1, <1>2 DEF Inv, TypeOK
<1>4. LocksExclude'
  BY LocksStep, IdleType, IdleStands DEF Inv
<1>5. Recorded' = Recorded \cup {k}
  BY <1>0, <1>2 DEF Recorded
<1>6. RowsStand'
  <2> SUFFICES ASSUME NEW j \in Recorded' PROVE Standing(j, expenses[j].row)'
    BY DEF RowsStand
  <2>0. PICK r : r = expenses'[j].row
    OBVIOUS
  <2>1. Standing(j, r)
    <3>1. CASE j = k
      BY <1>0, <1>2, <2>0, <3>1
    <3>2. CASE j # k
      <4>1. j \in Recorded /\ expenses'[j] = expenses[j]
        BY <1>2, <1>5, <3>2 DEF Recorded
      <4> QED BY <2>0, <4>1 DEF Inv, RowsStand
    <3> QED BY <3>1, <3>2
  <2>2. Standing(j, r)'
    BY <2>1, StandingNeedsVersionsOnly
  <2> QED BY <2>0, <2>2 DEF Standing
<1>7. ASSUME NEW j, NEW basis, basis.updatedAt \in Nat, BasisStands(j, basis)
      PROVE  /\ BasisStands(j, basis)'
             /\ expenses'[j].row.version = expenses[j].row.version
  <2>1. j \in Recorded /\ j \in Keys /\ j \in Recorded'
    BY <1>5, <1>7 DEF BasisStands, Recorded
  <2>2. CASE j # k
    BY <1>2, <1>7, <2>1, <2>2 DEF BasisStands
  <2>3. CASE j = k
    <3>1. /\ stamp > expenses[k].updatedAt
          /\ row.version = expenses[k].row.version
          /\ expenses[k].updatedAt \in Nat
      BY <2>1, <2>3, RecordedType DEF Recorded, Inv
    <3>2. basis.updatedAt <= expenses[k].updatedAt
      BY <1>7, <2>3 DEF BasisStands
    <3>3. expenses'[j] = new
      BY <1>2, <2>3
    <3> QED BY <1>0, <1>7, <2>1, <2>3, <3>1, <3>2, <3>3 DEF BasisStands
  <2> QED BY <2>2, <2>3
<1>8. ASSUME NEW day, versions[day] = NoRates, Affected(day) = {},
             k \in Recorded, row.version = expenses[k].row.version
      PROVE  Affected(day)' = {}
  <2> SUFFICES ASSUME NEW j \in Affected(day)' PROVE FALSE
    OBVIOUS
  <2>1. j \in Recorded' /\ j[2] >= day /\ expenses'[j].row.version < day
    BY DEF Affected
  <2>2. j \in Recorded /\ expenses'[j].row.version = expenses[j].row.version
    BY <1>0, <1>2, <1>5, <1>8, <2>1 DEF Recorded
  <2> QED BY <1>8, <2>1, <2>2 DEF Affected
<1>9. \A q \in Requests : RequestStands(requests[q])'
  <2> TAKE q \in Requests
  <2>1. CASE q = p
    BY <1>1, <2>1, IdleStands
       DEF RequestStands, ResolvedStands, CheckedStands, CorrectingStands, ClaimingStands
  <2>2. CASE q # p
    <3>0. PICK other : other = requests[q] /\ other = requests'[q]
      BY <1>1, <2>2
    <3>1. RequestStands(other) /\ other \in RequestType
      BY <3>0 DEF Inv, TypeOK
    <3>2. other.stage = "resolved" => Standing(other.key, other.row)'
      BY <3>1, StandingNeedsVersionsOnly DEF RequestStands, ResolvedStands
    <3>3. other.stage = "checked" =>
            versions'[other.day] = NoRates /\ Affected(other.day)' = {}
      <4>1. other.stage = "checked" => Excluding(q) /\ ~Sharing(p)
        BY <3>0 DEF Excluding, Running, Inv, LocksExclude
      <4> QED BY <1>8, <3>1, <4>1 DEF RequestStands, CheckedStands
    <3>4. other.stage = "correcting" => BasisStands(other.key, other.basis)'
      BY <1>7, <3>1, CallOfStage
         DEF RequestStands, CorrectingStands, CorrectingCall, Expense
    <3>5. ASSUME other.stage = "claiming"
          PROVE  /\ BasisStands(other.key, other.basis)'
                 /\ other.read = other.basis.updatedAt
                 /\ other.row.version = expenses'[other.key].row.version
                 /\ Standing(other.key, other.row)'
      BY <1>7, <3>1, <3>5, CallOfStage, StandingNeedsVersionsOnly
         DEF RequestStands, ClaimingStands, ClaimingCall, Expense
    <3> QED BY <3>0, <3>2, <3>3, <3>4, <3>5
         DEF RequestStands, ResolvedStands, CheckedStands, CorrectingStands, ClaimingStands
  <2> QED BY <2>1, <2>2
<1> QED BY <1>3, <1>4, <1>6, <1>9 DEF Inv

LEMMA InsertExpenseStep ==
  ASSUME Inv, NEW p \in Requests, InsertExpense(p)
  PROVE  Inv'
<1>0. PICK call : call = requests[p]
  OBVIOUS
<1>1. /\ call \in ResolvedCall /\ call.stage = "resolved" /\ Sharing(p)
      /\ Becomes(p, Idle)
      /\ UNCHANGED <<versions, profiles, today, clock>>
  BY <1>0, CallOfStage DEF InsertExpense, Running, Sharing, Inv, TypeOK
<1>2. CASE UNCHANGED expenses
  BY <1>1, <1>2, IdleStep
<1>3. CASE /\ expenses[call.key] = NoExpense
           /\ expenses' = [expenses EXCEPT
                ![call.key] = [row |-> call.row, updatedAt |-> clock]]
  <2>1. Standing(call.key, call.row) /\ call.key \in Keys /\ call.row \in Row
    BY <1>0, <1>1 DEF Inv, RequestStands, ResolvedStands, ResolvedCall
  <2>2. clock \in Nat
    BY DEF Inv, TypeOK
  <2> QED BY <1>1, <1>3, <2>1, <2>2, WriteStep
<1> QED BY <1>0, <1>2, <1>3 DEF InsertExpense, Insertable

LEMMA ClaimStep ==
  ASSUME Inv, NEW p \in Requests, ClaimExpense(p)
  PROVE  Inv'
<1>0. PICK call : call = requests[p]
  OBVIOUS
<1>1. /\ call \in ClaimingCall /\ call.stage = "claiming"
      /\ Becomes(p, Idle)
      /\ UNCHANGED <<versions, profiles, today, clock>>
  BY <1>0, CallOfStage DEF ClaimExpense, Running, Inv, TypeOK
<1>2. CASE UNCHANGED expenses
  BY <1>1, <1>2, IdleStep
<1>3. CASE /\ expenses[call.key].updatedAt = call.read
           /\ expenses' = [expenses EXCEPT
                ![call.key] = [row |-> call.row, updatedAt |-> NextStamp(call.read)]]
  <2>1. /\ Standing(call.key, call.row) /\ call.key \in Keys /\ call.row \in Row
        /\ call.key \in Recorded /\ call.row.version = expenses[call.key].row.version
        /\ call.read \in Nat
    BY <1>0, <1>1 DEF Inv, RequestStands, ClaimingStands, ClaimingCall, BasisStands
  <2>2. NextStamp(call.read) \in Nat /\ NextStamp(call.read) > call.read
    BY <2>1 DEF NextStamp, Inv, TypeOK
  <2> QED BY <1>1, <1>3, <2>1, <2>2, WriteStep
<1> QED BY <1>0, <1>2, <1>3 DEF ClaimExpense, Claims

\* Time and the default vehicles: nothing a request relies on.
LEMMA SurroundingsStep ==
  ASSUME Inv, UNCHANGED <<versions, expenses, requests>>,
         profiles' \in [Drivers -> Vehicles \cup {NoVehicle}],
         today' \in Days, clock' \in Nat
  PROVE  Inv'
<1>1. TypeOK'
  BY DEF Inv, TypeOK
<1>2. LocksExclude'
  BY DEF Inv, LocksExclude, Excluding, Sharing, Running
<1>3. RowsStand'
  BY StandsWhileTablesStand DEF Inv
<1>4. \A q \in Requests : RequestStands(requests[q])'
  <2> TAKE q \in Requests
  <2>1. RequestStands(requests[q])
    BY DEF Inv
  <2>2. PICK other : other = requests[q] /\ other = requests'[q]
    OBVIOUS
  <2> QED BY <2>1, <2>2, RequestStandsWhileTablesStand
       DEF RequestStands, ResolvedStands, CheckedStands, CorrectingStands, ClaimingStands
<1> QED BY <1>1, <1>2, <1>3, <1>4 DEF Inv

LEMMA InitInv == Init => Inv
<1> SUFFICES ASSUME Init PROVE Inv
  OBVIOUS
<1>1. TypeOK
  BY IdleType DEF Init, TypeOK
<1>2. Recorded = {}
  BY DEF Init, Recorded
<1>3. LocksExclude
  BY IdleStands DEF Init, LocksExclude, Excluding, Running
<1>4. \A p \in Requests : RequestStands(requests[p])
  BY IdleStands DEF Init
<1> QED BY <1>1, <1>2, <1>3, <1>4 DEF Inv, RowsStand

LEMMA NextInv == Inv /\ [Next]_vars => Inv'
<1> SUFFICES ASSUME Inv, [Next]_vars PROVE Inv'
  OBVIOUS
<1>1. ASSUME NEW p \in Requests, Receive(p) PROVE Inv'
  BY <1>1, ReceiveStep
<1>2. ASSUME NEW p \in Requests, Advance(p) PROVE Inv'
  BY <1>2, ResolveStep, InsertExpenseStep, CheckStep, InsertVersionStep, ReadStep, ClaimStep
     DEF Advance
<1>3. ASSUME NEW p \in Requests, RollBack(p) PROVE Inv'
  BY <1>3, IdleStep DEF RollBack
<1>4. ASSUME NEW d \in Drivers, NEW vehicle \in Vehicles, SetDefaultVehicle(d, vehicle)
      PROVE  Inv'
  <2>1. /\ profiles' \in [Drivers -> Vehicles \cup {NoVehicle}]
        /\ UNCHANGED <<versions, expenses, requests, today, clock>>
    BY <1>4 DEF SetDefaultVehicle, Inv, TypeOK
  <2> QED BY <2>1, SurroundingsStep DEF Inv, TypeOK
<1>5. ASSUME NEW t \in 0..MaxStamp, SetClock(t) PROVE Inv'
  BY <1>5, SurroundingsStep, BoundsAssumption DEF SetClock, Inv, TypeOK
<1>6. CASE NextDay
  BY <1>6, SurroundingsStep DEF NextDay, Inv, TypeOK
<1>7. CASE UNCHANGED vars
  BY <1>7, SurroundingsStep DEF vars, Inv, TypeOK
<1> QED BY <1>1, <1>2, <1>3, <1>4, <1>5, <1>6, <1>7 DEF Next

LEMMA SpecInv == Spec => []Inv
BY InitInv, NextInv, PTL DEF Spec

-----------------------------------------------------------------------------
(* Theorems. *)

\* Every table, request and stamp keeps its type, whatever the interleaving of
\* the transactions of driver-expenses/*.service.ts.
THEOREM TypeCorrect == Spec => []TypeOK
<1>1. Inv => TypeOK
  BY DEF Inv
<1> QED BY <1>1, SpecInv, PTL

\* A recorded day is priced with the version in force on it for ever: the shared
\* and the exclusive timeline lock and the retroactive guard leave no gap between
\* createDailyExpense and createFuelSettings.
THEOREM ResolvedForEver == Spec => []ResolvedAsRecorded
<1>1. Inv => ResolvedAsRecorded
  BY DEF Inv, RowsStand, Standing, ResolvedAsRecorded
<1> QED BY <1>1, SpecInv, PTL

\* What a standing row froze is what its version says of its vehicle.
LEMMA StandingRow ==
  ASSUME TypeOK, NEW k, NEW row \in Row, Standing(k, row)
  PROVE  /\ Consistent(row)
         /\ row.estimated = EstimatedExpense(row.distance, row.price, row.consumption)
<1> DEFINE v == row.version
<1>1. v \in Days /\ versions[v] # NoRates /\ row.vehicle \in Vehicles
      /\ row.distance \in Distances
  BY ApplicableType DEF Standing, Row
<1>2. /\ versions[v].price \in Nat /\ versions[v].consumption \in [Vehicles -> Nat]
  BY <1>1, RatesOf
<1>3. /\ row.price = versions[v].price
      /\ row.consumption = versions[v].consumption[row.vehicle]
      /\ row.estimated = EstimatedExpense(row.distance, versions[v].price,
                                          versions[v].consumption[row.vehicle])
  BY <1>1, <1>2, PricedRowType DEF Standing
<1> QED BY <1>3 DEF Consistent

\* The frozen price, consumption and estimate of a recorded day are those of the
\* version it names: updateDailyExpense's integrity error cannot occur.
THEOREM SnapshotsFrozen == Spec => []SnapshotsMatchVersion
<1>1. Inv => SnapshotsMatchVersion
  <2> SUFFICES ASSUME Inv, NEW k \in Recorded
               PROVE  /\ Consistent(expenses[k].row)
                      /\ expenses[k].row.estimated =
                           EstimatedExpense(expenses[k].row.distance, expenses[k].row.price,
                                            expenses[k].row.consumption)
    BY DEF SnapshotsMatchVersion
  <2>1. expenses[k].row \in Row /\ Standing(k, expenses[k].row)
    BY RecordedType DEF Inv, RowsStand, Recorded
  <2> QED BY <2>1, StandingRow DEF Inv
<1> QED BY <1>1, SpecInv, PTL

LEMMA OnlyWritersChangeExpenses ==
  ASSUME [Next]_vars, expenses' # expenses
  PROVE  \E p \in Requests : InsertExpense(p) \/ ClaimExpense(p)
BY DEF Next, vars, Receive, Advance, Record, AddVersion, Correct, ResolveDay, CheckVersion,
       InsertVersion, ReadExpense, RollBack, SetDefaultVehicle, SetClock, NextDay

LEMMA UnseenStep ==
  ASSUME Inv, [Next]_vars, NEW k \in Recorded, expenses'[k] # expenses[k]
  PROVE  \E p \in Requests : /\ Running(p, "claiming")
                             /\ requests[p].key = k
                             /\ requests[p].basis = expenses[k]
                             /\ requests'[p] = Idle
<1>0. k \in Keys /\ expenses[k] # NoExpense
  BY DEF Recorded
<1>1. PICK p \in Requests : InsertExpense(p) \/ ClaimExpense(p)
  BY OnlyWritersChangeExpenses
<1>2. PICK call : call = requests[p]
  OBVIOUS
<1>3. requests'[p] = Idle
  BY <1>1 DEF InsertExpense, ClaimExpense, Becomes, Inv, TypeOK
<1>4. CASE InsertExpense(p)
  <2>1. PICK row, stamp : expenses' = [expenses EXCEPT
                            ![call.key] = [row |-> row, updatedAt |-> stamp]]
                          /\ expenses[call.key] = NoExpense
    BY <1>0, <1>2, <1>4 DEF InsertExpense, Insertable
  <2>2. call.key # k
    BY <1>0, <2>1
  <2> QED BY <1>0, <2>1, <2>2 DEF Inv, TypeOK
<1>5. CASE ClaimExpense(p)
  <2>1. /\ call \in ClaimingCall /\ call.stage = "claiming" /\ Running(p, "claiming")
    BY <1>2, <1>5, CallOfStage DEF ClaimExpense, Running, Inv, TypeOK
  <2>2. PICK stamp : expenses' = [expenses EXCEPT
                            ![call.key] = [row |-> call.row, updatedAt |-> stamp]]
                     /\ expenses[call.key].updatedAt = call.read
    BY <1>0, <1>2, <1>5 DEF ClaimExpense, Claims
  <2>3. call.key = k
    BY <1>0, <2>2 DEF Inv, TypeOK
  <2>4. call.basis = expenses[k]
    BY <1>2, <2>1, <2>2, <2>3 DEF Inv, RequestStands, ClaimingStands, BasisStands
  <2> QED BY <1>2, <1>3, <2>1, <2>3, <2>4
<1> QED BY <1>1, <1>4, <1>5

\* No correction replaces a row its author had not loaded, however many
\* administrators correct it, in the same millisecond or with the clock set back.
THEOREM NothingUnseenIsOverwritten == Spec => NothingOverwrittenUnseen
<1>1. Inv /\ [Next]_vars =>
        \A k \in Recorded : expenses'[k] # expenses[k] =>
          \E p \in Requests : /\ Running(p, "claiming")
                              /\ requests[p].key = k
                              /\ requests[p].basis = expenses[k]
                              /\ requests'[p] = Idle
  BY UnseenStep
<1> QED BY <1>1, SpecInv, PTL DEF Spec, NothingOverwrittenUnseen

-----------------------------------------------------------------------------
(* The refinement. *)

Rows == [k \in Keys |-> RowOf(k)]

LEMMA RowsOf ==
  ASSUME TypeOK, NEW k \in Keys
  PROVE  /\ k \notin Recorded => Rows[k] = NoExpense
         /\ k \in Recorded => Rows[k] = expenses[k].row /\ Rows[k] # NoExpense
BY RecordedType, NoExpenseAssumption DEF Rows, RowOf

\* Writing an expense writes its row.
LEMMA RowsWritten ==
  ASSUME TypeOK, NEW k \in Keys, NEW row \in Row, NEW stamp \in Nat,
         expenses' = [expenses EXCEPT ![k] = [row |-> row, updatedAt |-> stamp]]
  PROVE  Rows' = [Rows EXCEPT ![k] = row]
<1> DEFINE new == [row |-> row, updatedAt |-> stamp]
<1>1. new \in Expense /\ new # NoExpense /\ new.row = row
  BY NoExpenseAssumption DEF Expense
<1>2. expenses'[k] = new /\ \A j \in Keys : j # k => expenses'[j] = expenses[j]
  BY DEF TypeOK
<1> HIDE DEF new
<1>3. \A j \in Keys : Rows'[j] = IF j = k THEN row ELSE Rows[j]
  BY <1>1, <1>2 DEF Rows, RowOf
<1> QED BY <1>3 DEF Rows

LEMMA InForceIsApplicable ==
  ASSUME NEW day, NEW v \in ApplicableVersion(day)
  PROVE  Ledger!InForce(v, day)
BY DEF ApplicableVersion, Effective, Ledger!InForce

LEMMA SamePricing ==
  ASSUME NEW v, NEW rates, NEW vehicle, NEW distance
  PROVE  Ledger!PricedRow(v, rates, vehicle, distance) = PricedRow(v, rates, vehicle, distance)
BY DEF Ledger!PricedRow, PricedRow, Ledger!EstimatedExpense, EstimatedExpense

LEMMA RecordRefines ==
  ASSUME Inv, NEW p \in Requests, InsertExpense(p)
  PROVE  [Ledger!LedgerNext]_(Ledger!ledgerVars)
<1>0. PICK call : call = requests[p]
  OBVIOUS
<1>1. /\ call \in ResolvedCall /\ call.stage = "resolved" /\ UNCHANGED versions
  BY <1>0, CallOfStage DEF InsertExpense, Running, Inv, TypeOK
<1>2. CASE UNCHANGED expenses
  BY <1>1, <1>2 DEF Ledger!ledgerVars, RowOf
<1>3. CASE /\ expenses[call.key] = NoExpense
           /\ expenses' = [expenses EXCEPT
                ![call.key] = [row |-> call.row, updatedAt |-> clock]]
  <2>1. /\ Standing(call.key, call.row) /\ call.key \in Keys /\ call.row \in Row
        /\ clock \in Nat /\ TypeOK
    BY <1>0, <1>1 DEF Inv, RequestStands, ResolvedStands, ResolvedCall, TypeOK
  <2>2. Rows' = [Rows EXCEPT ![call.key] = call.row] /\ Rows[call.key] = NoExpense
    BY <1>3, <2>1, RowsWritten, RowsOf DEF Recorded
  <2> DEFINE v == call.row.version
             vehicle == call.row.vehicle
             distance == call.row.distance
  <2>3. v \in Days /\ vehicle \in Vehicles /\ distance \in Distances
    BY <2>1 DEF Row
  <2>4. Ledger!InForce(v, call.key[2]) /\ call.row = PricedRow(v, versions[v], vehicle, distance)
    BY <2>1, InForceIsApplicable DEF Standing
  <2> HIDE DEF v, vehicle, distance
  <2>5. Ledger!RecordDay(call.key, v, vehicle, distance)
    BY <1>1, <2>2, <2>4, SamePricing DEF Ledger!RecordDay, Rows
  <2>6. call.key \in Ledger!Keys /\ vehicle \in Ledger!Vehicles
    BY <2>1, <2>3 DEF Keys, Ledger!Keys, Vehicles, Ledger!Vehicles
  <2> QED BY <2>3, <2>5, <2>6 DEF Ledger!LedgerNext
<1> QED BY <1>0, <1>2, <1>3 DEF InsertExpense, Insertable

LEMMA CorrectRefines ==
  ASSUME Inv, NEW p \in Requests, ClaimExpense(p)
  PROVE  [Ledger!LedgerNext]_(Ledger!ledgerVars)
<1>0. PICK call : call = requests[p]
  OBVIOUS
<1>1. /\ call \in ClaimingCall /\ call.stage = "claiming" /\ UNCHANGED versions
  BY <1>0, CallOfStage DEF ClaimExpense, Running, Inv, TypeOK
<1>2. CASE UNCHANGED expenses
  BY <1>1, <1>2 DEF Ledger!ledgerVars, RowOf
<1>3. CASE expenses' = [expenses EXCEPT
             ![call.key] = [row |-> call.row, updatedAt |-> NextStamp(call.read)]]
  <2>1. /\ Standing(call.key, call.row) /\ call.key \in Keys /\ call.row \in Row
        /\ call.key \in Recorded /\ call.row.version = expenses[call.key].row.version
        /\ call.read \in Nat /\ TypeOK
    BY <1>0, <1>1 DEF Inv, RequestStands, ClaimingStands, ClaimingCall, BasisStands
  <2>2. NextStamp(call.read) \in Nat
    BY <2>1 DEF NextStamp, TypeOK
  <2>3. /\ Rows' = [Rows EXCEPT ![call.key] = call.row]
        /\ Rows[call.key] # NoExpense
        /\ Rows[call.key].version = call.row.version
    BY <1>3, <2>1, <2>2, RowsWritten, RowsOf
  <2> DEFINE v == Rows[call.key].version
             vehicle == call.row.vehicle
             distance == call.row.distance
  <2>4. vehicle \in Vehicles /\ distance \in Distances
    BY <2>1 DEF Row
  <2>5. call.row = PricedRow(v, versions[v], vehicle, distance)
    BY <2>1, <2>3 DEF Standing
  <2> HIDE DEF vehicle, distance
  <2>6. Ledger!CorrectDay(call.key, vehicle, distance)
    BY <1>1, <2>3, <2>5, SamePricing DEF Ledger!CorrectDay, Rows
  <2>7. call.key \in Ledger!Keys /\ vehicle \in Ledger!Vehicles
    BY <2>1, <2>4 DEF Keys, Ledger!Keys, Vehicles, Ledger!Vehicles
  <2> QED BY <2>4, <2>6, <2>7 DEF Ledger!LedgerNext
<1> QED BY <1>0, <1>2, <1>3 DEF ClaimExpense

LEMMA VersionRefines ==
  ASSUME Inv, NEW p \in Requests, InsertVersion(p)
  PROVE  [Ledger!LedgerNext]_(Ledger!ledgerVars)
<1>0. PICK call : call = requests[p]
  OBVIOUS
<1>1. /\ call \in VersionCall /\ call.stage = "checked" /\ UNCHANGED expenses
      /\ versions' = [versions EXCEPT ![call.day] = call.rates]
  BY <1>0, CallOfStage DEF InsertVersion, Running, Inv, TypeOK
<1>2. /\ call.day \in Days /\ call.rates \in Rates
      /\ versions[call.day] = NoRates /\ Affected(call.day) = {} /\ TypeOK
  BY <1>0, <1>1 DEF VersionCall, Inv, RequestStands, CheckedStands
<1>3. ASSUME NEW k \in Keys, Rows[k] # NoExpense, k[2] >= call.day
      PROVE  Rows[k].version > call.day
  <2>1. k \in Recorded /\ Rows[k] = expenses[k].row
    BY <1>2, <1>3, RowsOf
  <2>2. Standing(k, expenses[k].row) /\ k \notin Affected(call.day)
    BY <1>2, <2>1 DEF Inv, RowsStand
  <2>3. PICK v : v = expenses[k].row.version
    OBVIOUS
  <2>4. v \in Days /\ versions[v] # NoRates
    BY <2>2, <2>3, ApplicableType DEF Standing
  <2>5. ~(v < call.day)
    BY <1>3, <2>1, <2>2, <2>3 DEF Affected
  <2>6. v # call.day /\ v \in Int /\ call.day \in Int
    BY <1>2, <2>4, DaysAssumption
  <2> QED BY <2>1, <2>3, <2>5, <2>6
<1>4. Ledger!AddVersion(call.day, call.rates)
  <2>1. Ledger!Keys = Keys
    BY DEF Keys, Ledger!Keys
  <2>2. Rows' = Rows
    BY <1>1 DEF Rows, RowOf
  <2> QED BY <1>1, <1>2, <1>3, <2>1, <2>2 DEF Ledger!AddVersion, Rows
<1> QED BY <1>2, <1>4 DEF Ledger!LedgerNext

\* The concurrent transactions implement the ledger of priced days: each of them
\* takes effect at its insert or its update, and everything else is a stutter.
THEOREM TransactionsImplementLedger == Spec => ImplementsLedger
<1>1. Init => Ledger!LedgerInit
  BY DEF Init, Ledger!LedgerInit, RowOf, Keys, Ledger!Keys
<1>2. Inv /\ [Next]_vars => [Ledger!LedgerNext]_(Ledger!ledgerVars)
  <2> SUFFICES ASSUME Inv, [Next]_vars PROVE [Ledger!LedgerNext]_(Ledger!ledgerVars)
    OBVIOUS
  <2>1. CASE UNCHANGED <<versions, expenses>>
    BY <2>1 DEF Ledger!ledgerVars, RowOf
  <2>2. CASE expenses' # expenses
    BY <2>2, OnlyWritersChangeExpenses, RecordRefines, CorrectRefines
  <2>3. CASE versions' # versions
    <3>1. \E p \in Requests : InsertVersion(p)
      BY <2>3 DEF Next, vars, Receive, Advance, Record, AddVersion, Correct, ResolveDay,
         CheckVersion, InsertExpense, ReadExpense, ClaimExpense, RollBack,
         SetDefaultVehicle, SetClock, NextDay
    <3> QED BY <3>1, VersionRefines
  <2> QED BY <2>1, <2>2, <2>3
<1> QED BY <1>1, <1>2, SpecInv, PTL DEF Spec, ImplementsLedger, Ledger!LedgerSpec

-----------------------------------------------------------------------------
(* The grid. *)

IsRecord(record) ==
  /\ record = [key |-> record.key, values |-> record.values, stamp |-> record.stamp]
  /\ record.key \in Cells
  /\ record.stamp \in Nat /\ record.stamp > 0
  /\ record.values = [f \in Fields |-> record.values[f]]

\* A copy of a record is an earlier state of it, or the record as it is.
Reflects(record) ==
  \/ record = NoRecord
  \/ /\ IsRecord(record)
     /\ records[record.key] # NoRecord
     /\ record.stamp <= records[record.key].stamp
     /\ record.stamp = records[record.key].stamp => record = records[record.key]

AllReflect(data) == \A d \in RowDrivers : Reflects(data[d])

\* A row that was captured: a copy of a record, and values that fill it.
Ready(row) ==
  /\ Reflects(row.record)
  /\ row.values = [f \in Fields |-> row.values[f]]

SaveReady(save) ==
  /\ "phase" \in DOMAIN save
  /\ save.phase = "sent" =>
       /\ Ready(save)
       /\ save.body = IF save.record = NoRecord THEN save.values
                      ELSE ChangedFields(save.record, save.values)

GridShape ==
  /\ DOMAIN records = Cells /\ DOMAIN saves = Cells
  /\ DOMAIN cache = Dates /\ DOMAIN fetching = Dates /\ date \in Dates

RecordsStand ==
  \A k \in Cells : records[k] = NoRecord \/ (IsRecord(records[k]) /\ records[k].key = k)

CopiesReflect ==
  /\ \A day \in Dates : cache[day] # NotLoaded => AllReflect(cache[day])
  /\ \A day \in Dates : fetching[day] \notin {NoFetch, Reading} => AllReflect(fetching[day])
  /\ lastData # NotLoaded => AllReflect(lastData)

SavesReady == \A k \in Cells : SaveReady(saves[k])

QueueReady == \E rows : queue \in Seq(rows) /\ \A row \in rows : Ready(row)

GridInv == GridShape /\ RecordsStand /\ CopiesReflect /\ SavesReady /\ QueueReady

\* What the grid shows are copies of records, of whatever date.
LEMMA ShownReflects ==
  ASSUME GridInv, NEW day \in Dates
  PROVE  AllReflect(DataShown(cache, lastData, day))
<1>1. AllReflect([d \in RowDrivers |-> NoRecord])
  BY DEF AllReflect, Reflects
<1> QED BY <1>1 DEF DataShown, GridInv, CopiesReflect

LEMMA CapturedReady ==
  ASSUME GridInv, NEW d \in RowDrivers
  PROVE  Ready(Captured(d))
<1>1. Reflects(Shown[d])
  BY ShownReflects DEF Shown, AllReflect, GridInv, GridShape
<1>2. /\ Captured(d).record = Shown[d]
      /\ Captured(d).values = RowValues(Shown[d], drafts[<<d, date>>])
  BY DEF Captured
<1>3. Captured(d).values = [f \in Fields |-> Captured(d).values[f]]
  BY <1>2 DEF RowValues
<1> QED BY <1>1, <1>2, <1>3 DEF Ready

LEMMA SentReady ==
  ASSUME NEW row, Ready(row)
  PROVE  SaveReady(Sent(row))
<1>1. /\ Sent(row).record = row.record /\ Sent(row).values = row.values
      /\ Sent(row).body = IF row.record = NoRecord THEN row.values
                          ELSE ChangedFields(row.record, row.values)
      /\ "phase" \in DOMAIN Sent(row)
  BY DEF Sent
<1> QED BY <1>1 DEF SaveReady, Ready

\* A new record of a day, or a new stamp of the one that is there, leaves every
\* copy a state the record has been in.
RecordWritten(k, new) ==
  /\ records' = [records EXCEPT ![k] = new]
  /\ IsRecord(new) /\ new.key = k
  /\ records[k] = NoRecord \/ records[k].stamp < new.stamp

LEMMA WritingReflects ==
  ASSUME GridShape, RecordsStand, NEW k \in Cells, NEW new, RecordWritten(k, new)
  PROVE  /\ DOMAIN records' = Cells /\ RecordsStand'
         /\ \A record : Reflects(record) => Reflects(record)'
<1>1. /\ DOMAIN records' = Cells
      /\ \A j \in Cells : records'[j] = IF j = k THEN new ELSE records[j]
  BY DEF RecordWritten, GridShape
<1>2. new # NoRecord /\ new.stamp \in Nat
  BY DEF RecordWritten, IsRecord, NoRecord
<1>3. RecordsStand'
  BY <1>1 DEF RecordsStand, RecordWritten, IsRecord
<1>4. ASSUME NEW record, Reflects(record), record # NoRecord PROVE Reflects(record)'
  <2>1. /\ IsRecord(record) /\ record.key \in Cells /\ record.stamp \in Nat
        /\ records[record.key] # NoRecord
        /\ record.stamp <= records[record.key].stamp
        /\ record.stamp = records[record.key].stamp => record = records[record.key]
    BY <1>4 DEF Reflects, IsRecord
  <2>2. records[record.key].stamp \in Nat
    BY <2>1 DEF RecordsStand, IsRecord
  <2>3. CASE record.key = k
    <3>1. record.stamp < new.stamp /\ records'[record.key] = new
      BY <1>1, <1>2, <2>1, <2>2, <2>3 DEF RecordWritten
    <3> QED BY <1>2, <2>1, <3>1 DEF Reflects, IsRecord
  <2>4. CASE record.key # k
    <3>1. records'[record.key] = records[record.key]
      BY <1>1, <2>1, <2>4
    <3> QED BY <2>1, <3>1 DEF Reflects, IsRecord
  <2> QED BY <2>3, <2>4
<1>5. \A record : Reflects(record) => Reflects(record)'
  BY <1>4 DEF Reflects
<1> QED BY <1>1, <1>3, <1>5

LEMMA ReflectsStays ==
  ASSUME records' = records
  PROVE  /\ \A record : Reflects(record) => Reflects(record)'
         /\ RecordsStand => RecordsStand'
<1>1. \A record : Reflects(record) => Reflects(record)'
  BY DEF Reflects, IsRecord
<1>2. RecordsStand => RecordsStand'
  BY DEF RecordsStand, IsRecord
<1> QED BY <1>1, <1>2

\* What only the copies of records say stays true as long as they reflect.
LEMMA CopiesStay ==
  ASSUME \A record : Reflects(record) => Reflects(record)'
  PROVE  /\ \A data : AllReflect(data) => AllReflect(data)'
         /\ \A row : Ready(row) => Ready(row)'
         /\ \A save : SaveReady(save) => SaveReady(save)'
<1>1. \A data : AllReflect(data) => AllReflect(data)'
  BY DEF AllReflect
<1>2. \A row : Ready(row) => Ready(row)'
  BY DEF Ready
<1>3. \A save : SaveReady(save) => SaveReady(save)'
  BY <1>2 DEF SaveReady
<1> QED BY <1>1, <1>2, <1>3

\* The cache after a settled request holds copies of records still.
LEMMA InvalidatingReflects ==
  ASSUME NEW days, NEW sv, NEW c, NEW fetches, Invalidating(days, sv, c, fetches),
         DOMAIN c = Dates, DOMAIN fetches = Dates,
         \A day \in Dates : c[day] # NotLoaded => AllReflect(c[day]),
         \A day \in Dates : fetches[day] \notin {NoFetch, Reading} => AllReflect(fetches[day]),
         \A data : AllReflect(data) => AllReflect(data)'
  PROVE  /\ DOMAIN cache' = Dates /\ DOMAIN fetching' = Dates
         /\ \A day \in Dates : (cache[day] # NotLoaded => AllReflect(cache[day]))'
         /\ \A day \in Dates :
               (fetching[day] \notin {NoFetch, Reading} => AllReflect(fetching[day]))'
<1>1. CASE Pending(sv, fetches)
  <2>1. cache' = c /\ fetching' = fetches
    BY <1>1 DEF Invalidating
  <2> QED BY <2>1
<1>2. CASE ~Pending(sv, fetches)
  <2>1. /\ cache' = [day \in Dates |-> IF day \in days \ {date} THEN NotLoaded ELSE c[day]]
        /\ fetching' = [day \in Dates |->
                          IF day \in days /\ day = date /\ fetches[day] = NoFetch
                          THEN Reading ELSE fetches[day]]
    BY <1>2 DEF Invalidating
  <2>2. \A day \in Dates : /\ cache'[day] = NotLoaded \/ cache'[day] = c[day]
                           /\ fetching'[day] = Reading \/ fetching'[day] = fetches[day]
    BY <2>1
  <2> QED BY <2>1, <2>2
<1> QED BY <1>1, <1>2

LEMMA SaveAnswered ==
  ASSUME GridInv, NEW k \in Cells, NEW save, saves' = [saves EXCEPT ![k] = save],
         \A row : Ready(row) => Ready(row)',
         \A old : SaveReady(old) => SaveReady(old)', SaveReady(save)'
  PROVE  DOMAIN saves' = Cells /\ SavesReady'
<1>1. /\ DOMAIN saves' = Cells
      /\ \A j \in Cells : saves'[j] = IF j = k THEN save ELSE saves[j]
  BY DEF GridInv, GridShape
<1> QED BY <1>1 DEF GridInv, SavesReady

\* A row that has its answer leaves the head of the queue.
LEMMA AdvancedReady ==
  ASSUME QueueReady, NEW k, queue' = Advanced(k) \/ queue' = queue,
         \A row : Ready(row) => Ready(row)'
  PROVE  QueueReady'
<1>1. PICK rows : queue \in Seq(rows) /\ \A row \in rows : Ready(row)
  BY DEF QueueReady
<1>2. queue' \in Seq(rows)
  <2>1. CASE queue' = queue
    BY <1>1, <2>1
  <2>2. CASE queue' = Advanced(k) /\ queue # <<>>
    BY <1>1, <2>2 DEF Advanced
  <2>3. CASE queue' = Advanced(k) /\ queue = <<>>
    BY <1>1, <2>3 DEF Advanced
  <2> QED BY <2>1, <2>2, <2>3
<1> QED BY <1>1, <1>2 DEF QueueReady

LEMMA GridInitInv == GridInit => GridInv
<1> SUFFICES ASSUME GridInit PROVE GridInv
  OBVIOUS
<1>1. GridShape
  BY DEF GridInit, GridShape
<1>2. RecordsStand /\ CopiesReflect
  BY DEF GridInit, RecordsStand, CopiesReflect
<1>3. SavesReady
  BY DEF GridInit, SavesReady, SaveReady, NoSave
<1>4. QueueReady
  <2>1. queue \in Seq({})
    BY DEF GridInit
  <2> QED BY <2>1 DEF QueueReady
<1> QED BY <1>1, <1>2, <1>3, <1>4 DEF GridInv

\* The user's clicks and keys.
LEMMA UserKeeps == GridInv /\ User => GridInv'
<1> SUFFICES ASSUME GridInv, User PROVE GridInv'
  OBVIOUS
<1>0. records' = records
  BY DEF User, Type, Discard, SaveRow, ReloadLatest, SaveAll, ChangeDate
<1>1. /\ \A record : Reflects(record) => Reflects(record)'
      /\ RecordsStand'
  BY <1>0, ReflectsStays DEF GridInv
<1>2. /\ \A data : AllReflect(data) => AllReflect(data)'
      /\ \A row : Ready(row) => Ready(row)'
      /\ \A save : SaveReady(save) => SaveReady(save)'
  BY <1>1, CopiesStay
<1>3. queue' = queue => QueueReady'
  BY <1>2 DEF GridInv, QueueReady
<1>4. UNCHANGED cacheVars => CopiesReflect'
  BY <1>2 DEF GridInv, CopiesReflect, cacheVars
<1>5. saves' = saves => SavesReady'
  BY <1>2 DEF GridInv, SavesReady
<1>6. ASSUME NEW d \in RowDrivers, NEW f \in Fields, NEW value, Type(d, f, value) \/ Discard(d)
      PROVE  GridInv'
  <2>1. UNCHANGED <<records, cacheVars, date, saves, queue>>
    BY <1>6 DEF Type, Discard
  <2>2. GridShape'
    BY <2>1 DEF GridInv, GridShape, cacheVars
  <2> QED BY <1>1, <1>3, <1>4, <1>5, <2>1, <2>2 DEF GridInv
<1>7. ASSUME NEW d \in RowDrivers, SaveRow(d) PROVE GridInv'
  <2>1. /\ saves' = [saves EXCEPT ![<<d, date>>] = Sent(Captured(d))]
        /\ UNCHANGED <<records, cacheVars, date, queue>>
    BY <1>7 DEF SaveRow
  <2>2. <<d, date>> \in Cells
    BY DEF GridInv, GridShape, Cells
  <2>3. PICK save : save = Sent(Captured(d))
    OBVIOUS
  <2>4. DOMAIN saves' = Cells /\ SavesReady'
    <3>1. SaveReady(save)'
      BY <1>2, <2>3, CapturedReady, SentReady
    <3>2. saves' = [saves EXCEPT ![<<d, date>>] = save]
      BY <2>1, <2>3
    <3> QED BY <1>2, <2>2, <3>1, <3>2, SaveAnswered
  <2>5. GridShape'
    BY <2>1, <2>4 DEF GridInv, GridShape, cacheVars
  <2> QED BY <1>1, <1>3, <1>4, <2>1, <2>4, <2>5 DEF GridInv
<1>8. ASSUME SaveAll PROVE GridInv'
  <2>1. /\ UNCHANGED <<records, cacheVars, date, saves>>
        /\ \E order \in Bijection(1..Cardinality(SaveableRows), SaveableRows) :
              queue' = [i \in 1..Cardinality(SaveableRows) |-> Captured(order[i])]
    BY <1>8 DEF SaveAll
  <2>2. Cardinality(SaveableRows) \in Nat
    <3>1. SaveableRows \in SUBSET RowDrivers
      BY DEF SaveableRows
    <3> QED BY <3>1, FiniteRowsAssumption, FS_Subset, FS_CardinalityType
  <2>3. PICK order \in [1..Cardinality(SaveableRows) -> SaveableRows] :
            queue' = [i \in 1..Cardinality(SaveableRows) |-> Captured(order[i])]
    BY <2>1 DEF Bijection, Injection, Surjection
  <2> DEFINE rows == {Captured(d) : d \in RowDrivers}
  <2>4. \A row \in rows : Ready(row)
    BY CapturedReady
  <2>5. \A i \in 1..Cardinality(SaveableRows) : Captured(order[i]) \in rows
    BY <2>3 DEF SaveableRows
  <2> HIDE DEF rows
  <2>6. queue' \in Seq(rows)
    BY <2>2, <2>3, <2>5
  <2>7. QueueReady'
    <3>1. PICK all : all = rows
      OBVIOUS
    <3>2. queue' \in Seq(all) /\ \A row \in all : Ready(row)'
      BY <1>2, <2>4, <2>6, <3>1
    <3> QED BY <3>2 DEF QueueReady
  <2>8. GridShape'
    BY <2>1 DEF GridInv, GridShape, cacheVars
  <2> QED BY <1>1, <1>4, <1>5, <2>1, <2>7, <2>8 DEF GridInv
<1>9. ASSUME NEW d \in RowDrivers, ReloadLatest(d) PROVE GridInv'
  <2>1. /\ saves' = [saves EXCEPT ![<<d, date>>] = NoSave] /\ fetching' = Refetched
        /\ UNCHANGED <<records, cache, lastData, date, queue>>
    BY <1>9 DEF ReloadLatest
  <2>2. <<d, date>> \in Cells
    BY DEF GridInv, GridShape, Cells
  <2>3. DOMAIN saves' = Cells /\ SavesReady'
    <3>1. SaveReady(NoSave)'
      BY DEF SaveReady, NoSave
    <3> QED BY <1>2, <2>1, <2>2, <3>1, SaveAnswered
  <2>4. /\ DOMAIN fetching' = Dates
        /\ \A day \in Dates : fetching'[day] \in {fetching[day], Reading}
    BY <2>1 DEF GridInv, GridShape, Refetched
  <2>5. CopiesReflect'
    BY <1>2, <2>1, <2>4 DEF GridInv, CopiesReflect
  <2>6. GridShape'
    BY <2>1, <2>3, <2>4 DEF GridInv, GridShape
  <2> QED BY <1>1, <1>3, <2>1, <2>3, <2>5, <2>6 DEF GridInv
<1>10. ASSUME NEW day \in Dates, ChangeDate(day) PROVE GridInv'
  <2>1. /\ date' = day /\ lastData' = Shown /\ UNCHANGED <<records, cache, saves, queue>>
        /\ fetching' = IF cache[day] = NotLoaded /\ fetching[day] = NoFetch
                       THEN [fetching EXCEPT ![day] = Reading] ELSE fetching
    BY <1>10 DEF ChangeDate
  <2>2. /\ DOMAIN fetching' = Dates
        /\ \A other \in Dates : fetching'[other] \in {fetching[other], Reading}
    BY <2>1 DEF GridInv, GridShape
  <2>3. AllReflect(lastData)'
    <3>1. PICK data : data = Shown
      OBVIOUS
    <3>2. AllReflect(data)
      BY <3>1, ShownReflects DEF Shown, GridInv, GridShape
    <3> QED BY <1>2, <2>1, <3>1, <3>2
  <2>4. CopiesReflect'
    BY <1>2, <2>1, <2>2, <2>3 DEF GridInv, CopiesReflect
  <2>5. GridShape'
    BY <2>1, <2>2 DEF GridInv, GridShape
  <2> QED BY <1>1, <1>3, <1>5, <2>1, <2>4, <2>5 DEF GridInv
<1> QED BY <1>6, <1>7, <1>8, <1>9, <1>10 DEF User, Fields

\* The server creates or corrects a record: the copies stay, and the save has
\* its answer.
LEMMA AnswerKeeps ==
  ASSUME GridInv, NEW k \in Cells, UNCHANGED <<cacheVars, date, queue>>,
         \/ saves' = saves
         \/ \E save : saves' = [saves EXCEPT ![k] = save] /\ SaveReady(save)',
         \/ records' = records
         \/ \E j \in Cells : \E new : RecordWritten(j, new)
  PROVE  GridInv'
<1>1. /\ DOMAIN records' = Cells /\ RecordsStand'
      /\ \A record : Reflects(record) => Reflects(record)'
  BY ReflectsStays, WritingReflects DEF GridInv, GridShape
<1>2. /\ \A data : AllReflect(data) => AllReflect(data)'
      /\ \A row : Ready(row) => Ready(row)'
      /\ \A old : SaveReady(old) => SaveReady(old)'
  BY <1>1, CopiesStay
<1>3. DOMAIN saves' = Cells /\ SavesReady'
  <2>1. CASE saves' = saves
    BY <1>2, <2>1 DEF GridInv, GridShape, SavesReady
  <2> QED BY <1>2, <2>1, SaveAnswered
<1>4. CopiesReflect'
  BY <1>2 DEF GridInv, CopiesReflect, cacheVars
<1>5. QueueReady'
  BY <1>2 DEF GridInv, QueueReady
<1>6. GridShape'
  BY <1>1, <1>3 DEF GridInv, GridShape, cacheVars
<1> QED BY <1>1, <1>3, <1>4, <1>5, <1>6 DEF GridInv

\* What a correction writes: the record, with the fields that differed from it
\* when it was shown, is what was shown.
LEMMA CorrectionIsWhatWasShown ==
  ASSUME NEW record, IsRecord(record), NEW values,
         values = [f \in Fields |-> values[f]]
  PROVE  Overlaid(record.values, ChangedFields(record, values)) = values
<1>1. DOMAIN ChangedFields(record, values) = {g \in Fields : values[g] # record.values[g]}
  BY DEF ChangedFields
<1>2. \A f \in Fields : Overlaid(record.values, ChangedFields(record, values))[f] = values[f]
  BY <1>1 DEF Overlaid, ChangedFields
<1>3. Overlaid(record.values, ChangedFields(record, values))
        = [f \in Fields |-> Overlaid(record.values, ChangedFields(record, values))[f]]
  BY DEF Overlaid
<1> QED BY <1>2, <1>3

\* What the server does with a save that reached it.
LEMMA CreatedRecord ==
  ASSUME GridInv, NEW k \in Cells, ServerCreates(k), saves'[k].phase = "done"
  PROVE  /\ records[k] = NoRecord /\ RecordWritten(k, NewRecord(k, saves[k].values))
         /\ records'[k].values = saves[k].values
<1>1. /\ saves[k].phase = "sent" /\ saves[k].record = NoRecord
      /\ SaveReady(saves[k]) /\ DOMAIN saves = Cells /\ DOMAIN records = Cells
  BY DEF ServerCreates, GridInv, SavesReady, GridShape
<1>2. CASE IsFree(k)
  <2>1. records[k] = NoRecord /\ records' = [records EXCEPT ![k] = NewRecord(k, saves[k].values)]
    BY <1>2 DEF ServerCreates, IsFree
  <2>2. IsRecord(NewRecord(k, saves[k].values))
    BY <1>1 DEF NewRecord, IsRecord, SaveReady, Ready
  <2> QED BY <1>1, <2>1, <2>2 DEF RecordWritten, NewRecord
<1>3. CASE ~IsFree(k)
  <2>1. saves' = [saves EXCEPT ![k].phase = "duplicate"]
    BY <1>3 DEF ServerCreates
  <2>2. saves'[k].phase = "duplicate"
    BY <1>1, <2>1 DEF SaveReady
  <2> QED BY <2>2
<1> QED BY <1>2, <1>3

LEMMA CorrectedRecord ==
  ASSUME GridInv, NEW k \in Cells, ServerCorrects(k), saves'[k].phase = "done"
  PROVE  LET record == saves[k].record IN
         /\ record # NoRecord /\ record.key \in Cells /\ records[record.key] = record
         /\ records'[record.key].values = saves[k].values
         /\ records' = records \/ RecordWritten(record.key, records'[record.key])
<1> DEFINE record == saves[k].record
           new == [records[record.key] EXCEPT
                      !.values = Overlaid(@, saves[k].body), !.stamp = @ + 1]
<1>1. /\ saves[k].phase = "sent" /\ record # NoRecord
      /\ SaveReady(saves[k]) /\ DOMAIN saves = Cells /\ DOMAIN records = Cells
  BY DEF ServerCorrects, GridInv, SavesReady, GridShape
<1>2. /\ Reflects(record) /\ IsRecord(record) /\ record.key \in Cells
      /\ saves[k].body = ChangedFields(record, saves[k].values)
      /\ saves[k].values = [f \in Fields |-> saves[k].values[f]]
  BY <1>1 DEF SaveReady, Ready, Reflects, IsRecord
<1>3. IsCurrent(saves[k])
  <2> SUFFICES ASSUME ~IsCurrent(saves[k]) PROVE FALSE
    OBVIOUS
  <2>1. saves' = [saves EXCEPT ![k].phase = "stale"]
    BY DEF ServerCorrects
  <2>2. saves'[k].phase = "stale"
    BY <1>1, <2>1 DEF SaveReady
  <2> QED BY <2>2
<1>4. records[record.key] = record
  BY <1>1, <1>2, <1>3 DEF IsCurrent, Reflects
<1>5. Overlaid(record.values, saves[k].body) = saves[k].values
  BY <1>2, CorrectionIsWhatWasShown
<1>6. new = [key |-> record.key, values |-> saves[k].values, stamp |-> record.stamp + 1]
  <2>1. PICK old : old = record
    OBVIOUS
  <2>2. new = [old EXCEPT !.values = Overlaid(@, saves[k].body), !.stamp = @ + 1]
    BY <1>4, <2>1
  <2>3. old = [key |-> old.key, values |-> old.values, stamp |-> old.stamp]
    BY <1>2, <2>1 DEF IsRecord
  <2>4. Overlaid(old.values, saves[k].body) = saves[k].values
    BY <1>5, <2>1
  <2> HIDE DEF new, record
  <2>5. new = [key |-> old.key, values |-> saves[k].values, stamp |-> old.stamp + 1]
    BY <2>2, <2>3, <2>4
  <2> QED BY <2>1, <2>5
<1>7. CASE new.values = records[record.key].values
  <2>1. records' = records
    BY <1>3, <1>7 DEF ServerCorrects
  <2>2. record.values = saves[k].values
    BY <1>4, <1>6, <1>7
  <2> QED BY <1>1, <1>2, <1>4, <2>1, <2>2
<1>8. CASE new.values # records[record.key].values
  <2>1. records' = [records EXCEPT ![record.key] = new]
    BY <1>3, <1>8 DEF ServerCorrects
  <2>2. records'[record.key] = new
    BY <1>1, <1>2, <2>1
  <2>3. /\ IsRecord(new) /\ new.key = record.key /\ new.values = saves[k].values
        /\ records[record.key].stamp < new.stamp
    <3>1. record.stamp \in Nat /\ record.stamp > 0
      BY <1>2 DEF IsRecord
    <3> HIDE DEF new, record
    <3> QED BY <1>2, <1>4, <1>6, <3>1 DEF IsRecord
  <2>4. RecordWritten(record.key, records'[record.key])
    BY <2>1, <2>2, <2>3 DEF RecordWritten
  <2> QED BY <1>1, <1>2, <1>4, <2>2, <2>3, <2>4
<1> QED BY <1>7, <1>8

\* A save that gets another phase than "sent", with or without a stamp.
LEMMA PhaseKeeps ==
  ASSUME GridInv, NEW k \in Cells, NEW phase, phase # "sent", NEW stamp,
         \/ saves' = [saves EXCEPT ![k].phase = phase]
         \/ saves' = [saves EXCEPT ![k].phase = phase, ![k].stamp = stamp]
  PROVE  /\ saves'[k].phase = phase
         /\ \E save : saves' = [saves EXCEPT ![k] = save] /\ SaveReady(save)'
<1>1. "phase" \in DOMAIN saves[k] /\ DOMAIN saves = Cells
  BY DEF GridInv, SavesReady, SaveReady, GridShape
<1>2. PICK old : old = saves[k]
  OBVIOUS
<1>3. \A save \in {[old EXCEPT !.phase = phase], [old EXCEPT !.phase = phase, !.stamp = stamp]} :
          save.phase = phase /\ SaveReady(save)'
  BY <1>1, <1>2 DEF SaveReady
<1>4. \E save \in {[old EXCEPT !.phase = phase], [old EXCEPT !.phase = phase, !.stamp = stamp]} :
          saves' = [saves EXCEPT ![k] = save]
  BY <1>1, <1>2
<1> QED BY <1>1, <1>3, <1>4

\* The server, and the other administrators.
LEMMA ServerKeeps ==
  ASSUME GridInv, NEW k \in Cells,
         \/ ServerCreates(k) \/ ServerCorrects(k) \/ LoseSave(k)
         \/ \E values \in [Fields -> Kilometers \cup VehicleTypes] : OtherWrites(k, values)
  PROVE  GridInv'
<1>1. CASE ServerCreates(k)
  <2>1. UNCHANGED <<cacheVars, date, queue>>
    BY <1>1 DEF ServerCreates
  <2>2. CASE IsFree(k)
    <3>1. saves' = [saves EXCEPT ![k].phase = "done", ![k].stamp = 1]
      BY <1>1, <2>2 DEF ServerCreates
    <3>2. saves'[k].phase = "done" /\ \E save : saves' = [saves EXCEPT ![k] = save] /\ SaveReady(save)'
      BY <3>1, PhaseKeeps
    <3>3. RecordWritten(k, NewRecord(k, saves[k].values))
      BY <1>1, <3>2, CreatedRecord
    <3> QED BY <2>1, <3>2, <3>3, AnswerKeeps
  <2>3. CASE ~IsFree(k)
    <3>1. saves' = [saves EXCEPT ![k].phase = "duplicate"] /\ UNCHANGED records
      BY <1>1, <2>3 DEF ServerCreates
    <3>2. \E save : saves' = [saves EXCEPT ![k] = save] /\ SaveReady(save)'
      BY <3>1, PhaseKeeps
    <3> QED BY <2>1, <3>1, <3>2, AnswerKeeps
  <2> QED BY <2>2, <2>3
<1>2. CASE ServerCorrects(k)
  <2>1. UNCHANGED <<cacheVars, date, queue>>
    BY <1>2 DEF ServerCorrects
  <2>2. CASE IsCurrent(saves[k])
    <3>1. \E stamp : saves' = [saves EXCEPT ![k].phase = "done", ![k].stamp = stamp]
      BY <1>2, <2>2 DEF ServerCorrects
    <3>2. saves'[k].phase = "done" /\ \E save : saves' = [saves EXCEPT ![k] = save] /\ SaveReady(save)'
      BY <3>1, PhaseKeeps
    <3>3. records' = records \/ \E j \in Cells : \E new : RecordWritten(j, new)
      BY <1>2, <3>2, CorrectedRecord
    <3> QED BY <2>1, <3>2, <3>3, AnswerKeeps
  <2>3. CASE ~IsCurrent(saves[k])
    <3>1. saves' = [saves EXCEPT ![k].phase = "stale"] /\ UNCHANGED records
      BY <1>2, <2>3 DEF ServerCorrects
    <3>2. \E save : saves' = [saves EXCEPT ![k] = save] /\ SaveReady(save)'
      BY <3>1, PhaseKeeps
    <3> QED BY <2>1, <3>1, <3>2, AnswerKeeps
  <2> QED BY <2>2, <2>3
<1>3. CASE LoseSave(k)
  <2>1. /\ saves' = [saves EXCEPT ![k].phase = "failed"]
        /\ UNCHANGED <<cacheVars, date, queue, records>>
    BY <1>3 DEF LoseSave
  <2>2. \E save : saves' = [saves EXCEPT ![k] = save] /\ SaveReady(save)'
    BY <2>1, PhaseKeeps
  <2> QED BY <2>1, <2>2, AnswerKeeps
<1>4. ASSUME NEW values \in [Fields -> Kilometers \cup VehicleTypes], OtherWrites(k, values)
      PROVE  GridInv'
  <2>1. UNCHANGED <<cacheVars, date, saves, queue>> /\ DOMAIN records = Cells
    BY <1>4 DEF OtherWrites, GridInv, GridShape
  <2>2. \E new : RecordWritten(k, new)
    <3>1. CASE records[k] = NoRecord
      <4>1. records' = [records EXCEPT ![k] = NewRecord(k, values)]
        BY <1>4, <3>1 DEF OtherWrites
      <4>2. IsRecord(NewRecord(k, values)) /\ NewRecord(k, values).key = k
        BY DEF NewRecord, IsRecord
      <4> QED BY <3>1, <4>1, <4>2 DEF RecordWritten
    <3>2. CASE records[k] # NoRecord
      <4>1. PICK old : old = records[k]
        OBVIOUS
      <4>2. IsRecord(old) /\ old.key = k
        BY <3>2, <4>1 DEF GridInv, RecordsStand
      <4> DEFINE new == [key |-> k, values |-> values, stamp |-> old.stamp + 1]
      <4>3. records' = [records EXCEPT ![k].values = values, ![k].stamp = @ + 1]
        BY <1>4, <3>2 DEF OtherWrites
      <4>4. old = [key |-> k, values |-> old.values, stamp |-> old.stamp]
        BY <4>2 DEF IsRecord
      <4>5. records' = [records EXCEPT ![k] = new]
        <5>1. records' = [records EXCEPT ![k] = [old EXCEPT !.values = values, !.stamp = @ + 1]]
          BY <2>1, <4>1, <4>3
        <5>2. PICK row : row = [old EXCEPT !.values = values, !.stamp = @ + 1]
          OBVIOUS
        <5>3. PICK was, stamp : old = [key |-> k, values |-> was, stamp |-> stamp]
          BY <4>4
        <5>4. row = [key |-> k, values |-> values, stamp |-> stamp + 1] /\ old.stamp = stamp
          BY <5>2, <5>3
        <5> QED BY <5>1, <5>2, <5>4
      <4>6. IsRecord(new) /\ new.key = k /\ old.stamp < new.stamp
        BY <4>2 DEF IsRecord
      <4> QED BY <4>1, <4>5, <4>6 DEF RecordWritten
    <3> QED BY <3>1, <3>2
  <2> QED BY <2>1, <2>2, AnswerKeeps
<1> QED BY <1>1, <1>2, <1>3, <1>4

\* The browser and its cache.
LEMMA BrowserKeeps ==
  ASSUME GridInv,
         \/ Browser
         \/ \E day \in Dates : ServerReads(day) \/ Expire(day)
  PROVE  GridInv'
<1>0. records' = records
  BY DEF Browser, SendQueued, FetchArrives, SaveSucceeds, SaveFails, ServerReads, Expire
<1>1. /\ \A record : Reflects(record) => Reflects(record)'
      /\ RecordsStand'
  BY <1>0, ReflectsStays DEF GridInv
<1>2. /\ \A data : AllReflect(data) => AllReflect(data)'
      /\ \A row : Ready(row) => Ready(row)'
      /\ \A save : SaveReady(save) => SaveReady(save)'
  BY <1>1, CopiesStay
<1>3. queue' = queue => QueueReady'
  BY <1>2 DEF GridInv, QueueReady
<1>4. UNCHANGED cacheVars => CopiesReflect'
  BY <1>2 DEF GridInv, CopiesReflect, cacheVars
<1>5. saves' = saves => SavesReady'
  BY <1>2 DEF GridInv, SavesReady
<1>6. /\ \A day \in Dates : cache[day] # NotLoaded => AllReflect(cache[day])
      /\ \A day \in Dates : fetching[day] \notin {NoFetch, Reading} => AllReflect(fetching[day])
      /\ (lastData # NotLoaded => AllReflect(lastData))
      /\ DOMAIN cache = Dates /\ DOMAIN fetching = Dates
      /\ DOMAIN saves = Cells /\ DOMAIN records = Cells /\ date \in Dates
  BY DEF GridInv, CopiesReflect, GridShape
<1>7. lastData' = lastData => (lastData # NotLoaded => AllReflect(lastData))'
  BY <1>2, <1>6
<1>8. ASSUME SendQueued PROVE GridInv'
  <2>1. /\ queue # <<>> /\ UNCHANGED <<records, cacheVars, date, queue>>
        /\ saves' = [saves EXCEPT ![Head(queue).key] = Sent(Head(queue))]
    BY <1>8 DEF SendQueued
  <2>2. PICK row : row = Head(queue)
    OBVIOUS
  <2>3. Ready(row)
    BY <2>1, <2>2 DEF GridInv, QueueReady
  <2>4. PICK save : save = Sent(row)
    OBVIOUS
  <2>5. SaveReady(save)'
    BY <1>2, <2>3, <2>4, SentReady
  <2>6. /\ DOMAIN saves' = Cells
        /\ \A k \in Cells : saves'[k] = IF k = row.key THEN save ELSE saves[k]
    BY <1>6, <2>1, <2>2, <2>4
  <2>7. SavesReady'
    BY <1>2, <2>5, <2>6 DEF GridInv, SavesReady
  <2>8. GridShape'
    BY <1>6, <2>1, <2>6, <1>0 DEF GridShape, cacheVars
  <2> QED BY <1>1, <1>3, <1>4, <2>1, <2>7, <2>8 DEF GridInv
<1>9. ASSUME NEW day \in Dates, FetchArrives(day) PROVE GridInv'
  <2> DEFINE c == [cache EXCEPT ![day] = fetching[day]]
             fetches == [fetching EXCEPT ![day] = NoFetch]
  <2>1. /\ fetching[day] \notin {NoFetch, Reading} /\ Invalidating(tags, saves, c, fetches)
        /\ UNCHANGED <<records, lastData, date, saves, queue>>
    BY <1>9 DEF FetchArrives
  <2>2. /\ DOMAIN c = Dates /\ DOMAIN fetches = Dates
        /\ \A other \in Dates : /\ c[other] = IF other = day THEN fetching[day] ELSE cache[other]
                                /\ fetches[other] = IF other = day THEN NoFetch ELSE fetching[other]
    BY <1>6
  <2> HIDE DEF c, fetches
  <2>3. /\ \A other \in Dates : c[other] # NotLoaded => AllReflect(c[other])
        /\ \A other \in Dates : fetches[other] \notin {NoFetch, Reading} => AllReflect(fetches[other])
    BY <1>6, <2>1, <2>2
  <2>4. /\ DOMAIN cache' = Dates /\ DOMAIN fetching' = Dates
        /\ \A other \in Dates : (cache[other] # NotLoaded => AllReflect(cache[other]))'
        /\ \A other \in Dates :
              (fetching[other] \notin {NoFetch, Reading} => AllReflect(fetching[other]))'
    BY <1>2, <2>1, <2>2, <2>3, InvalidatingReflects
  <2>5. CopiesReflect'
    BY <1>7, <2>1, <2>4 DEF CopiesReflect
  <2>6. GridShape'
    BY <1>6, <2>1, <2>4 DEF GridShape
  <2> QED BY <1>1, <1>3, <1>5, <2>1, <2>5, <2>6 DEF GridInv
<1>10. ASSUME NEW k \in Cells, NEW save, SaveReady(save)', NEW days, NEW fetches,
              saves' = [saves EXCEPT ![k] = save],
              DOMAIN fetches = Dates,
              \A day \in Dates : fetches[day] \in {fetching[day], Reading},
              Invalidating(days, saves', cache, fetches),
              UNCHANGED <<records, lastData, date>>,
              queue' = Advanced(k)
       PROVE  GridInv'
  <2>1. DOMAIN saves' = Cells /\ SavesReady'
    BY <1>2, <1>10, SaveAnswered
  <2>2. QueueReady'
    BY <1>2, <1>10, AdvancedReady DEF GridInv
  <2>3. \A day \in Dates : fetches[day] \notin {NoFetch, Reading} => AllReflect(fetches[day])
    BY <1>6, <1>10
  <2>4. PICK sv : sv = saves'
    OBVIOUS
  <2>5. /\ DOMAIN cache' = Dates /\ DOMAIN fetching' = Dates
        /\ \A other \in Dates : (cache[other] # NotLoaded => AllReflect(cache[other]))'
        /\ \A other \in Dates :
              (fetching[other] \notin {NoFetch, Reading} => AllReflect(fetching[other]))'
    BY <1>2, <1>6, <1>10, <2>3, <2>4, InvalidatingReflects
  <2>6. CopiesReflect'
    BY <1>7, <1>10, <2>5 DEF CopiesReflect
  <2>7. GridShape'
    BY <1>6, <1>10, <2>1, <2>5 DEF GridShape
  <2> QED BY <1>1, <2>1, <2>2, <2>6, <2>7 DEF GridInv
<1>11. ASSUME NEW k \in Cells, SaveSucceeds(k) PROVE GridInv'
  <2>1. /\ saves' = [saves EXCEPT ![k] = NoSave] /\ queue' = Advanced(k)
        /\ Invalidating(tags \cup {k[2]}, saves', cache, fetching)
        /\ UNCHANGED <<records, lastData, date>>
    BY <1>11 DEF SaveSucceeds
  <2>2. PICK save : save = NoSave
    OBVIOUS
  <2>3. SaveReady(save)'
    BY <2>2 DEF SaveReady, NoSave
  <2> QED BY <1>6, <1>10, <2>1, <2>2, <2>3
<1>12. ASSUME NEW k \in Cells, SaveFails(k) PROVE GridInv'
  <2> DEFINE fetches == IF saves[k].phase = "duplicate" THEN Refetched ELSE fetching
  <2>1. PICK save : save = [phase |-> IF saves[k].phase = "stale" THEN "conflict" ELSE "none"]
    OBVIOUS
  <2>2. /\ saves' = [saves EXCEPT ![k] = save] /\ queue' = Advanced(k)
        /\ Invalidating(tags, saves', cache, fetches)
        /\ UNCHANGED <<records, lastData, date>>
    BY <1>12, <2>1 DEF SaveFails
  <2>3. SaveReady(save)'
    BY <2>1 DEF SaveReady
  <2>4. DOMAIN fetches = Dates /\ \A day \in Dates : fetches[day] \in {fetching[day], Reading}
    BY <1>6 DEF Refetched
  <2> HIDE DEF fetches
  <2> QED BY <1>10, <2>2, <2>3, <2>4
<1>13. ASSUME NEW day \in Dates, ServerReads(day) PROVE GridInv'
  <2>1. /\ fetching' = [fetching EXCEPT ![day] = [d \in RowDrivers |-> records[<<d, day>>]]]
        /\ UNCHANGED <<records, cache, lastData, date, saves, queue>>
    BY <1>13 DEF ServerReads
  <2>2. PICK data : data = [d \in RowDrivers |-> records[<<d, day>>]]
    OBVIOUS
  <2>3. AllReflect(data)
    <3>1. ASSUME NEW d \in RowDrivers PROVE Reflects(data[d])
      <4>1. data[d] = records[<<d, day>>] /\ <<d, day>> \in Cells
        BY <2>2 DEF Cells
      <4>2. PICK record : record = data[d]
        OBVIOUS
      <4>3. record = NoRecord \/ (IsRecord(record) /\ record = records[record.key])
        BY <4>1, <4>2 DEF GridInv, RecordsStand
      <4>4. IsRecord(record) => record # NoRecord /\ record.stamp \in Nat
        BY DEF IsRecord, NoRecord
      <4>5. Reflects(record)
        BY <4>3, <4>4 DEF Reflects
      <4> QED BY <4>2, <4>5
    <3> QED BY <3>1 DEF AllReflect
  <2>4. /\ DOMAIN fetching' = Dates
        /\ \A other \in Dates : fetching'[other] = IF other = day THEN data ELSE fetching[other]
    BY <1>6, <2>1, <2>2
  <2>5. CopiesReflect'
    BY <1>2, <1>6, <1>7, <2>1, <2>3, <2>4 DEF CopiesReflect
  <2>6. GridShape'
    BY <1>6, <2>1, <2>4 DEF GridShape
  <2> QED BY <1>1, <1>3, <1>5, <2>1, <2>5, <2>6 DEF GridInv
<1>14. ASSUME NEW day \in Dates, Expire(day) PROVE GridInv'
  <2>1. /\ cache' = [cache EXCEPT ![day] = NotLoaded]
        /\ UNCHANGED <<records, lastData, fetching, date, saves, queue>>
    BY <1>14 DEF Expire
  <2>2. /\ DOMAIN cache' = Dates
        /\ \A other \in Dates : cache'[other] \in {cache[other], NotLoaded}
    BY <1>6, <2>1
  <2>3. CopiesReflect'
    BY <1>2, <1>6, <1>7, <2>1, <2>2 DEF CopiesReflect
  <2>4. GridShape'
    BY <1>6, <2>1, <2>2 DEF GridShape
  <2> QED BY <1>1, <1>3, <1>5, <2>1, <2>3, <2>4 DEF GridInv
<1> QED BY <1>8, <1>9, <1>11, <1>12, <1>13, <1>14 DEF Browser

LEMMA GridNextInv == GridInv /\ [GridNext]_gridVars => GridInv'
<1> SUFFICES ASSUME GridInv, [GridNext]_gridVars PROVE GridInv'
  OBVIOUS
<1>1. CASE UNCHANGED gridVars
  <2>1. UNCHANGED <<records, cache, lastData, fetching, date, saves, queue>>
    BY <1>1 DEF gridVars
  <2>2. /\ RecordsStand' /\ \A record : Reflects(record) => Reflects(record)'
    BY <2>1, ReflectsStays DEF GridInv
  <2>3. /\ \A data : AllReflect(data) => AllReflect(data)'
        /\ \A row : Ready(row) => Ready(row)'
        /\ \A save : SaveReady(save) => SaveReady(save)'
    BY <2>2, CopiesStay
  <2> QED BY <2>1, <2>2, <2>3 DEF GridInv, GridShape, CopiesReflect, SavesReady, QueueReady
<1> QED BY <1>1, UserKeeps, ServerKeeps, BrowserKeeps DEF GridNext, Server, Surroundings

\* A save the server accepts leaves the values its row showed when it was
\* clicked, and a correction replaces exactly the record the row showed: for any
\* number of drivers, days and administrators, however stale the grid was.
THEOREM GridSavesWhatItShowed == GridSpec => SavedIsWhatWasShown
<1>1. GridSpec => []GridInv
  BY GridInitInv, GridNextInv, PTL DEF GridSpec
<1>2. ASSUME GridInv, [GridNext]_gridVars, NEW k \in DOMAIN saves,
             saves[k].phase = "sent", saves'[k].phase = "done"
      PROVE  IF saves[k].record = NoRecord
             THEN records[k] = NoRecord /\ records'[k].values = saves[k].values
             ELSE /\ records[saves[k].record.key] = saves[k].record
                  /\ records'[saves[k].record.key].values = saves[k].values
  <2>1. k \in Cells /\ DOMAIN saves = Cells /\ \A j \in Cells : "phase" \in DOMAIN saves[j]
    BY <1>2 DEF GridInv, GridShape, SavesReady, SaveReady
  <2>2. ServerCreates(k) \/ ServerCorrects(k)
    <3>1. saves' # saves
      BY <1>2
    <3>2. ~User
      <4>1. \A d \in RowDrivers : ~SaveRow(d)
        <5> SUFFICES ASSUME NEW d \in RowDrivers, SaveRow(d) PROVE FALSE
          OBVIOUS
        <5>1. /\ Sent(Captured(d)).phase = "sent"
              /\ saves' = [saves EXCEPT ![<<d, date>>] = Sent(Captured(d))]
          BY DEF SaveRow, Sent
        <5> QED BY <1>2, <5>1
      <4>2. \A d \in RowDrivers : ~ReloadLatest(d)
        BY <1>2 DEF ReloadLatest, NoSave
      <4> QED BY <3>1, <4>1, <4>2 DEF User, Type, Discard, SaveAll, ChangeDate
    <3>3. ~Browser
      <4>1. ~SendQueued
        <5> SUFFICES ASSUME SendQueued PROVE FALSE
          OBVIOUS
        <5>1. /\ Sent(Head(queue)).phase = "sent"
              /\ saves' = [saves EXCEPT ![Head(queue).key] = Sent(Head(queue))]
          BY DEF SendQueued, Sent
        <5> QED BY <1>2, <5>1
      <4>2. \A j \in Cells : ~SaveSucceeds(j)
        BY <1>2 DEF SaveSucceeds, NoSave
      <4>3. \A j \in Cells : ~SaveFails(j)
        BY <1>2 DEF SaveFails
      <4> QED BY <3>1, <4>1, <4>2, <4>3 DEF Browser, FetchArrives
    <3>4. ~Surroundings
      BY <1>2, <2>1, <3>1 DEF Surroundings, OtherWrites, LoseSave, Expire
    <3>5. PICK j \in Cells : ServerCreates(j) \/ ServerCorrects(j)
      BY <1>2, <3>1, <3>2, <3>3, <3>4 DEF GridNext, Server, ServerReads, gridVars
    <3>6. j = k
      BY <1>2, <2>1, <3>5 DEF ServerCreates, ServerCorrects
    <3> QED BY <3>5, <3>6
  <2>3. CASE ServerCreates(k)
    BY <1>2, <2>1, <2>3, CreatedRecord DEF ServerCreates
  <2>4. CASE ServerCorrects(k)
    BY <1>2, <2>1, <2>4, CorrectedRecord DEF ServerCorrects
  <2> QED BY <2>2, <2>3, <2>4
<1>3. GridInv /\ [GridNext]_gridVars =>
        [\A k \in DOMAIN saves : saves[k].phase = "sent" /\ saves'[k].phase = "done" =>
           IF saves[k].record = NoRecord
             THEN records[k] = NoRecord /\ records'[k].values = saves[k].values
             ELSE /\ records[saves[k].record.key] = saves[k].record
                  /\ records'[saves[k].record.key].values = saves[k].values]_gridVars
  BY <1>2
<1> QED BY <1>1, <1>3, PTL DEF GridSpec, SavedIsWhatWasShown
====
