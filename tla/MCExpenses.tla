----------------------------- MODULE MCExpenses -----------------------------
(***************************************************************************)
(* The driver expenses: the transactions of the server (FuelExpenses) and  *)
(* the Daily Expenses grid that records them (DailyExpenseGrid).           *)
(*                                                                         *)
(* A behaviour is one of one part, which part says; the others stay as     *)
(* they begin, so the states of the parts add up instead of multiplying.   *)
(***************************************************************************)
EXTENDS FuelExpenses, DailyExpenseGrid, TLC

CONSTANTS d1, d2, car, motorcycle

VARIABLE part

Rate(price, onMotorcycle, inCar) ==
  [price |-> price, consumption |-> "MOTORCYCLE" :> onMotorcycle @@ "CAR" :> inCar]

TwoRates == {Rate(1, 1, 2), Rate(1, 2, 3)}

SymmetricRequests == Permutations(Requests)

\* The grid of the configuration is one row, whose two fields are typed and
\* corrected again and again.  "Save all" over two drivers:
TwoRows == INSTANCE DailyExpenseGrid WITH
  RowDrivers <- {d1, d2}, Kilometers <- {5}, VehicleTypes <- {car}

\* A date picker that changes between two days; nobody else writes.
TwoDates == INSTANCE DailyExpenseGrid WITH
  Dates <- {1, 2}, Kilometers <- {5}, VehicleTypes <- {car}, MaxChanges <- 1

UndisturbedNext ==
  \/ TwoDates!User \/ TwoDates!Browser \/ TwoDates!Server
  \/ \E day \in {1, 2} : TwoDates!Expire(day)

PartsInit ==
  /\ Init
  /\ \/ part = "server" /\ GridInit
     \/ part = "row" /\ today = 1 /\ GridInit
     \/ part = "all" /\ today = 1 /\ TwoRows!GridInit
     \/ part = "dates" /\ today = 1 /\ TwoDates!GridInit

PartsNext ==
  /\ UNCHANGED part
  /\ \/ part = "server" /\ Next /\ UNCHANGED gridVars
     \/ part = "row" /\ GridNext /\ UNCHANGED vars
     \/ part = "all" /\ TwoRows!GridNext /\ UNCHANGED vars
     \/ part = "dates" /\ UndisturbedNext /\ UNCHANGED vars

PartsSpec == PartsInit /\ [][PartsNext]_<<part, vars, gridVars>>
=============================================================================
