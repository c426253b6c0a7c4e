----------------------------- MODULE MCAnswers -----------------------------
(***************************************************************************)
(* Who waits for whom: the requests of a page that share one refresh       *)
(* (Sessions), the keyed transactions of the money services                *)
(* (IdempotentRequests) and the transactions on the fuel timeline          *)
(* (FuelExpenses).                                                         *)
(*                                                                         *)
(* A behaviour is one of one part, which part says; the others stay as     *)
(* they begin, so the states of the parts add up instead of multiplying.   *)
(* The fairness of a part is that of its module, while the part runs.      *)
(***************************************************************************)
EXTENDS Sessions, TLC

CONSTANTS t1, c1, c2, r1, r2, r3, settle1, short1, cash, remaining, lock1, Nothing, Nobody,
          d1, NoRates, NoExpense, NoVehicle, NoDistance

VARIABLES part,
    recorded, reversed, available, credited, keyLock, rowLock, pc, asked, tries, outcome,
    versions, profiles, expenses, transactions, today, clock

keyedVars == <<recorded, reversed, available, credited, keyLock, rowLock, pc, asked, tries,
               outcome>>
fuelVars == <<versions, profiles, expenses, transactions, today, clock>>

\* Two requests of one page.
BothOfOne == c1 :> t1 @@ c2 :> t1

\* A settlement's key and a shortfall's, whose hashes are the same lock id.
Keyed == INSTANCE IdempotentRequests WITH
    Requests <- {r1, r2, r3}, Keys <- {settle1, short1}, Locks <- {lock1},
    Funds <- {cash, remaining},
    LockOf <- settle1 :> lock1 @@ short1 :> lock1,
    OperationOf <- settle1 :> "settlement" @@ short1 :> "settlement-shortfall",
    OperationOn <- cash :> "settlement" @@ remaining :> "settlement-shortfall",
    MaxAttempts <- 2, MaxAmount <- 1, MaxCredit <- 1

Fuel == INSTANCE FuelExpenses WITH
    requests <- transactions,
    Drivers <- {d1}, Days <- {1, 2}, Requests <- {r1, r2}, Distances <- {1},
    Rates <- {[price |-> 1, consumption |-> "MOTORCYCLE" :> 1 @@ "CAR" :> 2]},
    MaxEstimate <- 1, MaxStamp <- 0

PartsInit ==
    /\ Init /\ Keyed!Init /\ Fuel!Init
    /\ part \in {"sessions", "keyed", "fuel"}
    /\ part # "fuel" => today = 1

PartsNext ==
    /\ UNCHANGED part
    /\ \/ part = "sessions" /\ Next /\ UNCHANGED <<keyedVars, fuelVars>>
       \/ part = "keyed" /\ Keyed!Next /\ UNCHANGED <<vars, fuelVars>>
       \/ part = "fuel" /\ Fuel!Next /\ UNCHANGED <<vars, keyedVars>>

PartsSpec == PartsInit /\ [][PartsNext]_<<part, vars, keyedVars, fuelVars>>

FairParts ==
    /\ PartsSpec
    /\ \A t \in Tabs :
          /\ WF_vars(part = "sessions" /\ (Claim(t) \/ ClaimNothing(t) \/ Rotate(t) \/ RevokeOnly(t)))
          /\ WF_vars(part = "sessions" /\ (Refreshed(t) \/ RefreshRefused(t)))
          /\ WF_vars(/\ part = "sessions" /\ tab[t].status = "unknown"
                     /\ \E c \in CallsOf(t) : Send(c))
    /\ \A c \in Calls :
          WF_vars(part = "sessions" /\ (Serve(c) \/ Finish(c) \/ AwaitRefresh(c) \/ GiveUp(c)))
    /\ \A r \in {r1, r2, r3} : WF_keyedVars(part = "keyed" /\ Keyed!Proceed(r))
    /\ \A r \in {r1, r2} : SF_fuelVars(part = "fuel" /\ Fuel!Advance(r))

-----------------------------------------------------------------------------
\* No handler waits for a lock for ever: the keyed transactions whose keys
\* hash to one lock, and the writers and readers of the fuel timeline.
EveryTransactionEnds == Keyed!EveryRequestEnds /\ Fuel!Answered
=============================================================================
