----------------------------- MODULE MCRequests -----------------------------
(***************************************************************************)
(* Repeated requests: those that move money, from both ends, the server's  *)
(* idempotent handlers (IdempotentRequests) and the dialogs of the web     *)
(* client (MoneyDialogs, SettlementDialog), and the pickups of a driver's  *)
(* scanner (ScanSession).                                                  *)
(*                                                                         *)
(* The four share no variable.   A behaviour is one of one part, which     *)
(* part says; the others stay as they begin, so the states of the parts    *)
(* add up instead of multiplying.                                          *)
(***************************************************************************)
EXTENDS IdempotentRequests, MoneyDialogs, SettlementDialog, ScanSession, TLC

CONSTANTS pay1, pay2, wallet, lock1, lock2, code1

VARIABLE part

\* Two payouts of one wallet under different keys.
TwoPayouts == pay1 :> "payout" @@ pay2 :> "payout"
OneWallet == wallet :> "payout"
OwnLocks == pay1 :> lock1 @@ pay2 :> lock2

OneCollection == {1}
OneOwner == 1 :> "d1"

Symmetric == Permutations(Requests)

-----------------------------------------------------------------------------
(* The settlement dialog posts once with every amount and difference        *)
(* ("settle"), or twice with amounts of 1 and nothing to review ("again").  *)

Small == \A r \in Releases : books.due[r] <= 1 /\ ~books.review[r]

Bounded ==
    IF part = "settle" THEN posted <= 1
    ELSE \A r \in DOMAIN draft.chosen : draft.chosen[r].amount <= 1

PartsInit ==
    /\ Init /\ DialogInit /\ SettlementInit /\ ScanInit
    /\ part \in {"requests", "dialogs", "settle", "again", "scan"}
    /\ part # "settle" => Small
    /\ part # "dialogs" => kind = "proposal"
    /\ part \notin {"settle", "again"} =>
          books.active /\ books.loose["d1"] = 0
    /\ part # "scan" => orders[code1] = "AWAY"

PartsNext ==
    /\ UNCHANGED part
    /\ \/ /\ part = "requests" /\ Next
          /\ UNCHANGED <<dialogVars, settlementVars, scanVars>>
       \/ /\ part = "dialogs" /\ DialogNext
          /\ UNCHANGED <<vars, settlementVars, scanVars>>
       \/ /\ part \in {"settle", "again"} /\ SettlementNext /\ Bounded'
          /\ UNCHANGED <<vars, dialogVars, scanVars>>
       \/ /\ part = "scan" /\ ScanNext
          /\ UNCHANGED <<vars, dialogVars, settlementVars>>

PartsSpec == PartsInit /\ [][PartsNext]_<<part, vars, dialogVars, settlementVars, scanVars>>

=============================================================================
