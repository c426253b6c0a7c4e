---- MODULE ExpensePricing ----
(***************************************************************************)
(* The pricing of a driver's day: the fuel settings versions, the vehicles *)
(* and the row a recorded day is stored as (driver-expense-calculation.ts).*)
(***************************************************************************)
EXTENDS Integers

CONSTANTS Drivers, Days, Rates, Distances, NoRates, NoExpense

Vehicles == {"MOTORCYCLE", "CAR"}

Keys == Drivers \X Days

ASSUME DaysAssumption == Days \subseteq Int
ASSUME DistancesAssumption == Distances \subseteq Nat
ASSUME RatesAssumption == Rates \subseteq [price : Nat, consumption : [Vehicles -> Nat]]
ASSUME NoRatesAssumption == NoRates \notin Rates

Row == [version : Days, vehicle : Vehicles, distance : Distances, price : Nat,
        consumption : Nat, estimated : Nat]

\* Exact products; the constant factor 0.05 * 0.01 is left out.
EstimatedExpense(distance, price, consumption) == distance * price * consumption

\* The snapshot of a day driven with a vehicle, priced by version v's rates.
PricedRow(v, rates, vehicle, distance) ==
  [version |-> v, vehicle |-> vehicle, distance |-> distance,
   price |-> rates.price, consumption |-> rates.consumption[vehicle],
   estimated |-> EstimatedExpense(distance, rates.price, rates.consumption[vehicle])]
====
