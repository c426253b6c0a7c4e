-------------------------- MODULE MCFinancialRelease --------------------------
(***************************************************************************)
(* Small instances of FinancialRelease: one order of each type, out with   *)
(* the same driver and of the same customer, so that the cash position and *)
(* the wallet are shared.  Their shares are unequal, so that swapping two  *)
(* buckets is visible.                                                     *)
(*                                                                         *)
(* A behaviour is one of two parts, which part says: two orders and two    *)
(* settlements without manual movements, or manual movements around one    *)
(* order and one settlement.                                               *)
(***************************************************************************)
EXTENDS FinancialRelease, TLC

CONSTANTS o1, o2, d1, c1

VARIABLE part

SharedDriver == (o1 :> d1) @@ (o2 :> d1)
SharedCustomer == (o1 :> c1) @@ (o2 :> c1)
BothTypes == (o1 :> "DELIVERY_ONLY") @@ (o2 :> "COMPANY_ORDER")
OrderAmounts == (o1 :> 1) @@ (o2 :> 1)
Fees == (o1 :> 1) @@ (o2 :> 0)

Symmetric == Permutations(Settlements) \union Permutations(Adjustments)

-----------------------------------------------------------------------------
Together ==
    \/ Activate \/ Deactivate
    \/ Delivering \/ Settling \/ Reviewing \/ Correcting

Alone ==
    /\ Next
    /\ orders'[o2] = UndeliveredOrder
    /\ Cardinality({s \in Settlements : settlements'[s] # NoSettlement}) <= 1

PartsInit == Init /\ part \in {"shared", "ledgers"}

PartsNext ==
    /\ UNCHANGED part
    /\ \/ part = "shared" /\ Together
       \/ part = "ledgers" /\ Alone

PartsSpec == PartsInit /\ [][PartsNext]_<<part, vars>>
=============================================================================
