---- MODULE ExpenseLedger ----
(***************************************************************************)
(* What driver expenses promise: every recorded day is priced with the     *)
(* fuel settings version effective on it, for good.  A version may only    *)
(* be added where it re-prices no recorded day, a day is recorded once,    *)
(* and a correction changes the vehicle or the distance within the version *)
(* the day was recorded with.  Every operation is one step here;           *)
(* FuelExpenses has the concurrent transactions that implement it.         *)
(***************************************************************************)
EXTENDS ExpensePricing

VARIABLES versions,   \* the rates of each effective date, or NoRates
          rows        \* the recorded row of each driver and day, or NoExpense

ledgerVars == <<versions, rows>>

\* Version v is the one in force on the day.
InForce(v, day) ==
  /\ versions[v] # NoRates
  /\ v <= day
  /\ \A w \in Days : versions[w] # NoRates /\ w <= day => w <= v

LedgerInit ==
  /\ versions = [d \in Days |-> NoRates]
  /\ rows = [k \in Keys |-> NoExpense]

AddVersion(day, rates) ==
  /\ versions[day] = NoRates
  /\ \A k \in Keys : rows[k] # NoExpense /\ k[2] >= day => rows[k].version > day
  /\ versions' = [versions EXCEPT ![day] = rates]
  /\ UNCHANGED rows

RecordDay(k, v, vehicle, distance) ==
  /\ rows[k] = NoExpense
  /\ InForce(v, k[2])
  /\ rows' = [rows EXCEPT ![k] = PricedRow(v, versions[v], vehicle, distance)]
  /\ UNCHANGED versions

CorrectDay(k, vehicle, distance) ==
  /\ rows[k] # NoExpense
  /\ rows' = [rows EXCEPT ![k] =
       PricedRow(rows[k].version, versions[rows[k].version], vehicle, distance)]
  /\ UNCHANGED versions

LedgerNext ==
  \/ \E day \in Days, rates \in Rates : AddVersion(day, rates)
  \/ \E k \in Keys, v \in Days, vehicle \in Vehicles, distance \in Distances :
       RecordDay(k, v, vehicle, distance)
  \/ \E k \in Keys, vehicle \in Vehicles, distance \in Distances :
       CorrectDay(k, vehicle, distance)

LedgerSpec == LedgerInit /\ [][LedgerNext]_ledgerVars
====
