------------------------ MODULE FinancialReleaseProofs ------------------------
(***************************************************************************)
(* Proofs about FinancialRelease for every set of orders, drivers,         *)
(* customers and settlements and for all amounts.  Two inductive           *)
(* invariants: Coherent, which speaks of one order at a time (types, what  *)
(* each release status says about its order and its ledger rows), and      *)
(* Sound, which adds the sums: balances equal their ledgers, reserved cash *)
(* is held, settled amounts are what the settlements allocated.            *)
(*                                                                         *)
(* The sums are folds over finite sets.  SetInduction is induction over    *)
(* the subsets of a finite set, with a set of subsets in place of a        *)
(* predicate; from it follow that a sum does not depend on the order in    *)
(* which it is taken, moves by what one row moves, and adds up element by  *)
(* element (SelectionMoves, SelectionsAdd).  One lemma per table says how  *)
(* its sum moves, and one lemma per action what it adds to which sum.      *)
(***************************************************************************)
EXTENDS FinancialRelease, SumTheorems, FiniteSetTheorems, TLAPS

USE DEF RowStates, FinancialStatuses, Modes, ReleaseStatuses, Reviews

-----------------------------------------------------------------------------
(* Facts about rows and records *)

LEMMA RowTyping ==
    /\ NoRow \in Row
    /\ \A a \in Nat : PostedRow(a) \in Row
    /\ \A r \in Row : ReversedRow(r) \in Row
BY DEF Row, NoRow, PostedRow, ReversedRow

LEMMA OrderRowsTyping ==
    /\ NoRows \in OrderRows
    /\ \A actual \in Nat, route \in {"NONE", "DIRECT_COMPANY", "DRIVER_CASH"} :
            CustodyRows(actual, route) \in OrderRows
    /\ \A r \in OrderRows, p \in Plan : WithPostings(r, p) \in OrderRows
    /\ \A r \in OrderRows : WithPostingsReversed(r) \in OrderRows
    /\ \A r \in OrderRows :
            /\ [r EXCEPT !.collection = ReversedRow(@)] \in OrderRows
            /\ [r EXCEPT !.credit = ReversedRow(@)] \in OrderRows
            /\ [r EXCEPT !.product = ReversedRow(@)] \in OrderRows
            /\ [r EXCEPT !.fee = ReversedRow(@)] \in OrderRows
BY RowTyping
   DEF OrderRows, NoRows, CustodyRows, WithPostings, WithPostingsReversed, Plan

LEMMA PlanTyping ==
    /\ NoPlan \in Plan
    /\ CandidatePlans \subseteq Plan
    /\ \A o \in Orders : /\ AmountToCollect(o) \in Nat
                         /\ ExactPlan(o) \in Plan
                         /\ PlanFits(o, ExactPlan(o), AmountToCollect(o))
BY ConstantsAssumption DEF NoPlan, CandidatePlans, Plan, ExactPlan, AmountToCollect, PlanFits

LEMMA DefaultTyping ==
    /\ SomeDriver \in Drivers /\ SomeCustomer \in Customers
    /\ UndeliveredOrder \in Order
    /\ NoRelease \in Release
    /\ NoAllocations \in [Orders -> Nat]
    /\ NoSettlement \in Settlement
    /\ NoAdjustment \in Adjustment
    /\ NoPayout \in Payout
<1>1. SomeDriver \in Drivers /\ SomeCustomer \in Customers
    BY LedgersAssumption DEF SomeDriver, SomeCustomer
<1>2. UndeliveredOrder \in Order
    BY DEF UndeliveredOrder, Order
<1>3. NoRelease \in Release
    BY PlanTyping DEF NoRelease, Release
<1>4. NoAllocations \in [Orders -> Nat]
    BY DEF NoAllocations
<1>5. NoSettlement \in Settlement
    BY <1>1, <1>4 DEF NoSettlement, Settlement
<1>6. NoAdjustment \in Adjustment
    BY <1>1 DEF NoAdjustment, Adjustment
<1>7. NoPayout \in Payout
    BY <1>1 DEF NoPayout, Payout
<1> QED
    BY <1>1, <1>2, <1>3, <1>4, <1>5, <1>6, <1>7

LEMMA DeliveredTyping ==
    ASSUME NEW o \in Orders, NEW actual \in Nat, NEW mode \in Modes
    PROVE  DeliveredOrder(o, actual, mode) \in Order
BY DEF DeliveredOrder, Order

-----------------------------------------------------------------------------
(* Type correctness *)

LEMMA InitTyped == Init => TypeOK
<1> SUFFICES ASSUME Init PROVE TypeOK
    OBVIOUS
<1>1. 0 \in Balances
    BY ConstantsAssumption DEF Balances
<1> QED
    BY <1>1, DefaultTyping, OrderRowsTyping DEF Init, TypeOK

\* Moving money keeps a balance within its column when the guards hold.
LEMMA BalanceTyping ==
    ASSUME NEW Who, NEW balance \in [Who -> Balances], NEW w \in Who, NEW amount \in Nat
    PROVE  /\ balance[w] + amount \in Balances => Credit(balance, w, amount) \in [Who -> Balances]
           /\ balance[w] >= amount => Debit(balance, w, amount) \in [Who -> Balances]
BY ConstantsAssumption DEF Credit, Debit, Balances

LEMMA DeliveryTyped ==
    ASSUME TypeOK, NEW o \in Orders, NEW actual \in Collected,
           \/ DeliverOnSettlement(o, actual)
           \/ \E bypass \in BOOLEAN : DeliverImmediately(o, actual, bypass)
    PROVE  TypeOK'
<1> USE DEF TypeOK
<1>1. actual \in Nat
    BY ConstantsAssumption DEF Collected
<1>2. DriverOf[o] \in Drivers /\ CustomerOf[o] \in Customers
    BY ConstantsAssumption
<1>3. CASE DeliverOnSettlement(o, actual)
    <2>1. account' \in [Drivers -> Balances]
        BY <1>1, <1>2, <1>3, BalanceTyping DEF DeliverOnSettlement, CanCredit
    <2>2. orders' \in [Orders -> Order]
        BY <1>1, <1>3, DeliveredTyping DEF DeliverOnSettlement
    <2>3. rows' \in [Orders -> OrderRows]
        BY <1>1, <1>3, OrderRowsTyping DEF DeliverOnSettlement
    <2>4. releases' \in [Orders -> Release]
        BY <1>1, <1>3, PlanTyping DEF DeliverOnSettlement, Release
    <2> QED
        BY <1>3, <2>1, <2>2, <2>3, <2>4 DEF DeliverOnSettlement
<1>4. ASSUME NEW bypass \in BOOLEAN, DeliverImmediately(o, actual, bypass)
      PROVE  TypeOK'
    <2> DEFINE route == CollectionRoute(actual, bypass)
    <2> DEFINE owed == IF actual = AmountToCollect(o) THEN ExactPlan(o).wallet ELSE 0
    <2>1. /\ route \in {"NONE", "DIRECT_COMPANY", "DRIVER_CASH"}
          /\ DecideMode(enabled, route) \in Modes
          /\ CollectedCash(actual, route) \in Nat
          /\ owed \in Nat
        BY <1>1, PlanTyping DEF CollectionRoute, DecideMode, CollectedCash, Plan
    <2>2. /\ account' = Credit(account, DriverOf[o], CollectedCash(actual, route))
          /\ CanCredit(account, DriverOf[o], CollectedCash(actual, route))
          /\ wallet' = Credit(wallet, CustomerOf[o], owed)
          /\ CanCredit(wallet, CustomerOf[o], owed)
          /\ orders' = [orders EXCEPT ![o] = DeliveredOrder(o, actual, DecideMode(enabled, route))]
          /\ rows' = [rows EXCEPT ![o] = IF actual = AmountToCollect(o)
                                         THEN WithPostings(CustodyRows(actual, route), ExactPlan(o))
                                         ELSE CustodyRows(actual, route)]
          /\ UNCHANGED <<enabled, releases, settlements, adjustments, payouts>>
        BY <1>4 DEF DeliverImmediately
    <2> HIDE DEF route, owed
    <2>3. account' \in [Drivers -> Balances] /\ wallet' \in [Customers -> Balances]
        BY <1>2, <2>1, <2>2, BalanceTyping DEF CanCredit
    <2>4. orders' \in [Orders -> Order]
        BY <1>1, <2>1, <2>2, DeliveredTyping
    <2>5. CustodyRows(actual, route) \in OrderRows
        BY <1>1, <2>1, OrderRowsTyping
    <2>6. WithPostings(CustodyRows(actual, route), ExactPlan(o)) \in OrderRows
        BY <2>5, OrderRowsTyping, PlanTyping
    <2>7. rows' \in [Orders -> OrderRows]
        BY <2>2, <2>5, <2>6
    <2> QED
        BY <2>2, <2>3, <2>4, <2>7
<1> QED
    BY <1>3, <1>4

LEMMA SettlementCreationTyped ==
    ASSUME TypeOK, NEW s \in Settlements, NEW d \in Drivers, NEW amount \in Nat,
           \/ \E alloc \in [Orders -> Collected], unattributed \in 0..MaxManual :
                    CreateSettlement(s, d, amount, alloc, unattributed)
           \/ CreateLegacySettlement(s, d, amount)
    PROVE  TypeOK'
<1> USE DEF TypeOK
<1>1. ASSUME NEW alloc \in [Orders -> Collected], NEW unattributed \in 0..MaxManual,
             CreateSettlement(s, d, amount, alloc, unattributed)
      PROVE  TypeOK'
    <2>1. alloc \in [Orders -> Nat]
        BY ConstantsAssumption DEF Collected
    <2>2. account' \in [Drivers -> Balances]
        BY <1>1, BalanceTyping DEF CreateSettlement, CanDebitAccount
    <2>3. wallet' \in [Customers -> Balances]
        BY <1>1 DEF CreateSettlement, CanCredit
    <2>4. settlements' \in [Settlements -> Settlement]
        BY <1>1, <2>1 DEF CreateSettlement, NewSettlement, Settlement
    <2>5. \A o \in Orders : WithAllocation(o, alloc[o]) \in Release
        BY <2>1 DEF WithAllocation, Release
    <2>6. releases' \in [Orders -> Release]
        BY <1>1, <2>5 DEF CreateSettlement, Release
    <2>7. orders' \in [Orders -> Order]
        BY <1>1 DEF CreateSettlement, Order
    <2>8. \A o \in Orders : WithPostings(rows[o], releases[o].plan) \in OrderRows
        BY OrderRowsTyping DEF Release
    <2>9. rows' \in [Orders -> OrderRows]
        BY <1>1, <2>8 DEF CreateSettlement
    <2> QED
        BY <1>1, <2>2, <2>3, <2>4, <2>6, <2>7, <2>9 DEF CreateSettlement
<1>2. ASSUME CreateLegacySettlement(s, d, amount)
      PROVE  TypeOK'
    <2>1. account' \in [Drivers -> Balances]
        BY <1>2, BalanceTyping DEF CreateLegacySettlement, CanDebitAccount
    <2>2. settlements' \in [Settlements -> Settlement]
        BY <1>2, DefaultTyping DEF CreateLegacySettlement, NewSettlement, Settlement
    <2> QED
        BY <1>2, <2>1, <2>2 DEF CreateLegacySettlement
<1> QED
    BY <1>1, <1>2

LEMMA SettlementCorrectionTyped ==
    ASSUME TypeOK, NEW s \in Settlements,
           ReverseSettlement(s) \/ \E amount \in Manual : RecordShortfall(s, amount)
    PROVE  TypeOK'
<1> USE DEF TypeOK
<1>0. settlements[s] \in Settlement
    OBVIOUS
<1>1. CASE ReverseSettlement(s)
    <2>1. account' \in [Drivers -> Balances]
        BY <1>0, <1>1, BalanceTyping DEF ReverseSettlement, CanCredit, Settlement
    <2>2. settlements' \in [Settlements -> Settlement]
        BY <1>0, <1>1 DEF ReverseSettlement, Settlement
    <2>3. \A o \in Orders : settlements[s].alloc[o] \in Nat
        BY <1>0 DEF Settlement
    <2>4. \A o \in Orders : settlements[s].alloc[o] > 0 => releases[o].allocated >= settlements[s].alloc[o]
        BY <1>1 DEF ReverseSettlement, Allocated
    <2>5. \A o \in Orders : settlements[s].alloc[o] > 0 =>
                [releases[o] EXCEPT !.allocated = @ - settlements[s].alloc[o]] \in Release
        BY <2>3, <2>4 DEF Release
    <2>6. releases' \in [Orders -> Release]
        BY <1>1, <2>5 DEF ReverseSettlement
    <2> QED
        BY <1>1, <2>1, <2>2, <2>6 DEF ReverseSettlement
<1>2. ASSUME NEW amount \in Manual, RecordShortfall(s, amount)
      PROVE  TypeOK'
    <2>1. amount \in Nat
        BY ConstantsAssumption DEF Manual
    <2>2. account' \in [Drivers -> Balances]
        BY <1>0, <1>2, <2>1, BalanceTyping DEF RecordShortfall, CanCredit, Settlement
    <2>3. settlements' \in [Settlements -> Settlement]
        BY <1>0, <1>2, <2>1 DEF RecordShortfall, Settlement
    <2> QED
        BY <1>2, <2>2, <2>3 DEF RecordShortfall
<1> QED
    BY <1>1, <1>2

LEMMA ReviewTyped ==
    ASSUME TypeOK, NEW o \in Orders, NEW plan \in CandidatePlans,
           ResolveImmediately(o, plan) \/ ResolveReleaseDifference(o, plan)
    PROVE  TypeOK'
<1> USE DEF TypeOK
<1>1. plan \in Plan /\ plan.wallet \in Nat
    BY PlanTyping DEF Plan
<1>2. CustomerOf[o] \in Customers
    BY ConstantsAssumption
<1>3. WithPostings(rows[o], plan) \in OrderRows
    BY <1>1, OrderRowsTyping
<1>4. CASE ResolveImmediately(o, plan)
    <2>1. wallet' \in [Customers -> Balances]
        BY <1>1, <1>2, <1>4, BalanceTyping DEF ResolveImmediately, CanCredit
    <2>2. orders' \in [Orders -> Order]
        BY <1>4 DEF ResolveImmediately, Order
    <2>3. rows' \in [Orders -> OrderRows]
        BY <1>3, <1>4 DEF ResolveImmediately
    <2> QED
        BY <1>4, <2>1, <2>2, <2>3 DEF ResolveImmediately
<1>5. CASE ResolveReleaseDifference(o, plan)
    <2> DEFINE settled == releases[o].allocated = releases[o].collection
    <2> DEFINE owed == IF settled THEN plan.wallet ELSE 0
    <2>1. owed \in Nat
        BY <1>1
    <2>2. CanCredit(wallet, CustomerOf[o], owed) /\ wallet' = Credit(wallet, CustomerOf[o], owed)
        BY <1>5 DEF ResolveReleaseDifference
    <2>3. wallet' \in [Customers -> Balances]
        BY <1>2, <2>1, <2>2, BalanceTyping DEF CanCredit
    <2> DEFINE resolved == [releases[o] EXCEPT !.review = "RESOLVED", !.plan = plan]
    <2> DEFINE outcome == IF settled THEN "FINALIZED" ELSE "AWAITING_SETTLEMENT"
    <2>4. /\ orders' = [orders EXCEPT ![o].financial = outcome, ![o].needsReview = FALSE]
          /\ outcome \in FinancialStatuses
          /\ rows' = [rows EXCEPT ![o] = IF settled THEN WithPostings(@, plan) ELSE @]
          /\ releases' = [releases EXCEPT ![o] =
                IF settled THEN [resolved EXCEPT !.status = "RELEASED"] ELSE resolved]
        BY <1>5 DEF ResolveReleaseDifference
    <2>5. resolved \in Release /\ [resolved EXCEPT !.status = "RELEASED"] \in Release
        BY <1>1 DEF Release
    <2> HIDE DEF settled, resolved, outcome
    <2>6. orders' \in [Orders -> Order]
        BY <2>4 DEF Order
    <2>7. rows' \in [Orders -> OrderRows]
        BY <1>3, <2>4
    <2>8. releases' \in [Orders -> Release]
        BY <2>4, <2>5
    <2> QED
        BY <1>5, <2>3, <2>6, <2>7, <2>8 DEF ResolveReleaseDifference
<1> QED
    BY <1>4, <1>5

LEMMA ReleaseCorrectionTyped ==
    ASSUME TypeOK, NEW o \in Orders, VoidReleaseCollection(o) \/ ReverseRelease(o)
    PROVE  TypeOK'
<1> USE DEF TypeOK
<1>1. DriverOf[o] \in Drivers /\ CustomerOf[o] \in Customers
    BY ConstantsAssumption
<1>2. releases[o].collection \in Nat /\ releases[o].plan.wallet \in Nat
    BY DEF Release, Plan
<1>3. CASE VoidReleaseCollection(o)
    <2>1. account' \in [Drivers -> Balances]
        BY <1>1, <1>2, <1>3, BalanceTyping DEF VoidReleaseCollection, VoidTo, CanDebitAccount
    <2>2. orders' \in [Orders -> Order]
        BY <1>3 DEF VoidReleaseCollection, VoidTo, Order
    <2>3. rows' \in [Orders -> OrderRows]
        BY <1>3, RowTyping DEF VoidReleaseCollection, VoidTo, OrderRows
    <2>4. releases' \in [Orders -> Release]
        BY <1>3 DEF VoidReleaseCollection, VoidTo, Release
    <2> QED
        BY <1>3, <2>1, <2>2, <2>3, <2>4 DEF VoidReleaseCollection, VoidTo
<1>4. CASE ReverseRelease(o)
    <2>1. wallet' \in [Customers -> Balances]
        BY <1>1, <1>2, <1>4, BalanceTyping DEF ReverseRelease, CanDebitWallet
    <2>2. orders' \in [Orders -> Order]
        BY <1>4 DEF ReverseRelease, Order
    <2>3. rows' \in [Orders -> OrderRows]
        BY <1>4, OrderRowsTyping DEF ReverseRelease
    <2>4. releases' \in [Orders -> Release]
        BY <1>4 DEF ReverseRelease, Release
    <2> QED
        BY <1>4, <2>1, <2>2, <2>3, <2>4 DEF ReverseRelease
<1> QED
    BY <1>3, <1>4

LEMMA LedgerReversalTyped ==
    ASSUME TypeOK, NEW o \in Orders,
           \/ ReverseCollection(o)
           \/ ReverseWalletCredit(o)
           \/ ReverseProductRevenue(o)
           \/ ReverseFeeRevenue(o)
    PROVE  TypeOK'
<1> USE DEF TypeOK
<1>1. DriverOf[o] \in Drivers /\ CustomerOf[o] \in Customers
    BY ConstantsAssumption
<1>2. rows[o].collection.amount \in Nat /\ rows[o].credit.amount \in Nat
    BY DEF OrderRows, Row
<1>3. rows' \in [Orders -> OrderRows]
    BY RowTyping
       DEF ReverseCollection, ReverseWalletCredit, ReverseProductRevenue, ReverseFeeRevenue, OrderRows
<1>4. account' \in [Drivers -> Balances]
    BY <1>1, <1>2, BalanceTyping
       DEF ReverseCollection, ReverseWalletCredit, ReverseProductRevenue, ReverseFeeRevenue,
           CanDebitAccount
<1>5. wallet' \in [Customers -> Balances]
    BY <1>1, <1>2, BalanceTyping
       DEF ReverseCollection, ReverseWalletCredit, ReverseProductRevenue, ReverseFeeRevenue,
           CanDebitWallet
<1> QED
    BY <1>3, <1>4, <1>5
       DEF ReverseCollection, ReverseWalletCredit, ReverseProductRevenue, ReverseFeeRevenue

LEMMA AdjustmentTyped ==
    ASSUME TypeOK, NEW a \in Adjustments, NEW direction \in {"CREDIT", "DEBIT"}, NEW amount \in Manual,
           \/ \E d \in Drivers : AdjustDriverCash(a, d, direction, amount)
           \/ \E c \in Customers : AdjustWallet(a, c, direction, amount)
    PROVE  TypeOK'
<1> USE DEF TypeOK
<1>1. amount \in Nat
    BY ConstantsAssumption DEF Manual
<1>2. ASSUME NEW d \in Drivers, AdjustDriverCash(a, d, direction, amount)
      PROVE  TypeOK'
    <2>1. account' \in [Drivers -> Balances]
        BY <1>1, <1>2, BalanceTyping DEF AdjustDriverCash, Move, CashMoveAllowed, CanDebitAccount, CanCredit
    <2>2. adjustments' \in [Adjustments -> Adjustment]
        BY <1>1, <1>2 DEF AdjustDriverCash, NewAdjustment, Adjustment
    <2> QED
        BY <1>2, <2>1, <2>2 DEF AdjustDriverCash
<1>3. ASSUME NEW c \in Customers, AdjustWallet(a, c, direction, amount)
      PROVE  TypeOK'
    <2>1. wallet' \in [Customers -> Balances]
        BY <1>1, <1>3, BalanceTyping DEF AdjustWallet, Move, WalletMoveAllowed, CanDebitWallet, CanCredit
    <2>2. adjustments' \in [Adjustments -> Adjustment]
        BY <1>1, <1>3 DEF AdjustWallet, NewAdjustment, Adjustment
    <2> QED
        BY <1>3, <2>1, <2>2 DEF AdjustWallet
<1> QED
    BY <1>2, <1>3

LEMMA AdjustmentReversalTyped ==
    ASSUME TypeOK, NEW a \in Adjustments, ReverseCashAdjustment(a) \/ ReverseWalletAdjustment(a)
    PROVE  TypeOK'
<1> USE DEF TypeOK
<1>1. /\ adjustments[a].amount \in Nat
      /\ Opposite(adjustments[a].direction) \in {"CREDIT", "DEBIT"}
    BY DEF Adjustment, Opposite
<1>2. adjustments' \in [Adjustments -> Adjustment]
    BY DEF ReverseCashAdjustment, ReverseWalletAdjustment, Adjustment
<1>3. CASE ReverseCashAdjustment(a)
    <2>1. account' \in [Drivers -> Balances]
        BY <1>1, <1>3, BalanceTyping DEF ReverseCashAdjustment, Move, CashMoveAllowed, CanDebitAccount, CanCredit
    <2> QED
        BY <1>2, <1>3, <2>1 DEF ReverseCashAdjustment
<1>4. CASE ReverseWalletAdjustment(a)
    <2>1. wallet' \in [Customers -> Balances]
        BY <1>1, <1>4, BalanceTyping DEF ReverseWalletAdjustment, Move, WalletMoveAllowed, CanDebitWallet, CanCredit
    <2> QED
        BY <1>2, <1>4, <2>1 DEF ReverseWalletAdjustment
<1> QED
    BY <1>3, <1>4

LEMMA PayoutTyped ==
    ASSUME TypeOK, NEW p \in Payouts,
           \/ \E c \in Customers, amount \in Manual : CreatePayout(p, c, amount)
           \/ ReversePayout(p)
    PROVE  TypeOK'
<1> USE DEF TypeOK
<1>1. ASSUME NEW c \in Customers, NEW amount \in Manual, CreatePayout(p, c, amount)
      PROVE  TypeOK'
    <2>1. amount \in Nat
        BY ConstantsAssumption DEF Manual
    <2>2. wallet' \in [Customers -> Balances]
        BY <1>1, <2>1, BalanceTyping DEF CreatePayout, CanDebitWallet
    <2>3. payouts' \in [Payouts -> Payout]
        BY <1>1, <2>1 DEF CreatePayout, Payout
    <2> QED
        BY <1>1, <2>2, <2>3 DEF CreatePayout
<1>2. CASE ReversePayout(p)
    <2>1. payouts[p].of \in Customers /\ payouts[p].amount \in Nat
        BY DEF Payout
    <2>2. wallet' \in [Customers -> Balances]
        BY <1>2, <2>1, BalanceTyping DEF ReversePayout, CanCredit
    <2>3. payouts' \in [Payouts -> Payout]
        BY <1>2 DEF ReversePayout, Payout
    <2> QED
        BY <1>2, <2>2, <2>3 DEF ReversePayout
<1> QED
    BY <1>1, <1>2

LEMMA NextTyped == TypeOK /\ [Next]_vars => TypeOK'
<1> SUFFICES ASSUME TypeOK, [Next]_vars PROVE TypeOK'
    OBVIOUS
<1>1. CASE Activate \/ Deactivate
    BY <1>1 DEF Activate, Deactivate, TypeOK
<1>2. CASE Delivering
    BY <1>2, DeliveryTyped DEF Delivering
<1>3. CASE Settling
    <2>1. 1..BalanceLimit \subseteq Nat /\ Manual \subseteq Nat
        BY ConstantsAssumption DEF Manual
    <2> QED
        BY <1>3, <2>1, SettlementCreationTyped, SettlementCorrectionTyped DEF Settling
<1>4. CASE Reviewing
    BY <1>4, ReviewTyped DEF Reviewing
<1>5. CASE Correcting
    BY <1>5, ReleaseCorrectionTyped, LedgerReversalTyped DEF Correcting
<1>6. CASE Adjusting
    BY <1>6, AdjustmentTyped, AdjustmentReversalTyped DEF Adjusting
<1>7. CASE Paying
    BY <1>7, PayoutTyped DEF Paying
<1>8. CASE UNCHANGED vars
    BY <1>8 DEF vars, TypeOK
<1> QED
    BY <1>1, <1>2, <1>3, <1>4, <1>5, <1>6, <1>7, <1>8 DEF Next

\* Balances stay within their columns and never go negative, and every record
\* keeps its shape, for any number of orders, settlements and corrections.
THEOREM TypeCorrect == Spec => []TypeOK
<1> QED
    BY InitTyped, NextTyped, PTL DEF Spec

-----------------------------------------------------------------------------
(* Coherence of releases, orders and ledger rows *)

\* The definitions an order's coherence is made of, expanded in every proof below.
USE DEF ReleaseCoherent, ReleaseLinked, OrderMatchesRelease

SamePostings(o) ==
    /\ rows'[o].credit = rows[o].credit
    /\ rows'[o].product = rows[o].product
    /\ rows'[o].fee = rows[o].fee

\* An order whose release, financial columns and postings stay is still
\* coherent; without a release its postings do not matter.
LEMMA StaysCoherent ==
    ASSUME NEW o \in Orders, ReleaseCoherent(o),
           releases'[o] = releases[o], orders'[o] = orders[o],
           releases[o].status = "NONE" \/ SamePostings(o)
    PROVE  ReleaseCoherent(o)'
<1>1. ReleaseMatchesOrder(o)'
    BY DEF ReleaseMatchesOrder, FinancialStatusOf
<1>2. AmountsCoherent(o)'
    BY DEF AmountsCoherent, PlanFits
<1>3. StatusCoherent(o)'
    BY DEF StatusCoherent
<1>4. PostingsCoherent(o)'
    BY DEF PostingsCoherent, SamePostings
<1> QED
    BY <1>1, <1>2, <1>3, <1>4

\* An order that never entered settlement mode has no release at all.
LEMMA WithoutReleaseCoherent ==
    ASSUME NEW o \in Orders, releases'[o] = NoRelease, orders'[o].mode # "ON_SETTLEMENT"
    PROVE  ReleaseCoherent(o)'
BY DEF ReleaseMatchesOrder, AmountsCoherent, StatusCoherent, PostingsCoherent, NoRelease

LEMMA ModeDecidesRelease ==
    ASSUME NEW o \in Orders, ReleaseCoherent(o)
    PROVE  /\ orders[o].mode # "ON_SETTLEMENT" => releases[o] = NoRelease
           /\ releases[o].status = "NONE" => releases[o] = NoRelease /\ orders[o].mode # "ON_SETTLEMENT"
           /\ ~orders[o].delivered => releases[o] = NoRelease /\ orders[o].mode # "ON_SETTLEMENT"
BY DEF ReleaseMatchesOrder

LEMMA InitCoherent == Init => Coherent
<1> SUFFICES ASSUME Init PROVE Coherent
    OBVIOUS
<1>1. TypeOK
    BY InitTyped
<1>2. ASSUME NEW o \in Orders PROVE ReleaseCoherent(o)
    BY DEF Init, NoRelease, UndeliveredOrder, ReleaseMatchesOrder, AmountsCoherent,
           StatusCoherent, PostingsCoherent
<1>3. ASSUME NEW s \in Settlements PROVE SettlementCoherent(s)
    BY DEF Init, SettlementCoherent, NoSettlement
<1> QED
    BY <1>1, <1>2, <1>3 DEF Coherent

LEMMA DeliveryOnSettlementCoherent ==
    ASSUME NEW o \in Orders, NEW actual \in Nat, o \in DOMAIN orders, o \in DOMAIN releases,
           o \in DOMAIN rows, DeliverOnSettlement(o, actual)
    PROVE  ReleaseCoherent(o)'
<1> DEFINE exact == actual = AmountToCollect(o)
<1>1. orders'[o] = DeliveredOrder(o, actual, "ON_SETTLEMENT") /\ actual > 0
    BY DEF DeliverOnSettlement
<1>2. releases'[o] = [status     |-> "PENDING",
                      review     |-> IF exact THEN "NOT_REQUIRED" ELSE "AWAITING_REVIEW",
                      collection |-> actual,
                      allocated  |-> 0,
                      plan       |-> IF exact THEN ExactPlan(o) ELSE NoPlan]
    BY DEF DeliverOnSettlement
<1>3. rows'[o].credit = NoRow /\ rows'[o].product = NoRow /\ rows'[o].fee = NoRow
    BY DEF DeliverOnSettlement, CustodyRows, NoRows
<1>4. exact => PlanFits(o, ExactPlan(o), actual)
    BY PlanTyping
<1>5. /\ orders'[o].delivered /\ orders'[o].mode = "ON_SETTLEMENT" /\ orders'[o].actual = actual
      /\ orders'[o].needsReview = ~exact
      /\ orders'[o].financial = IF exact THEN "AWAITING_SETTLEMENT" ELSE "REVIEW_REQUIRED"
    BY <1>1 DEF DeliveredOrder
<1>6. ReleaseMatchesOrder(o)'
    <2>1. releases'[o].status = "PENDING" /\ releases'[o].collection = actual
        BY <1>2
    <2>2. FinancialStatusOf(releases'[o]) = IF exact THEN "AWAITING_SETTLEMENT" ELSE "REVIEW_REQUIRED"
        BY <1>2 DEF FinancialStatusOf
    <2>3. orders'[o].needsReview <=> orders'[o].financial = "REVIEW_REQUIRED"
        BY <1>5
    <2> QED
        BY <1>5, <2>1, <2>2, <2>3 DEF ReleaseMatchesOrder
<1>7. AmountsCoherent(o)'
    <2>1. /\ releases'[o].collection = actual /\ releases'[o].allocated = 0
          /\ exact => releases'[o].review = "NOT_REQUIRED" /\ releases'[o].plan = ExactPlan(o)
          /\ ~exact => releases'[o].review = "AWAITING_REVIEW" /\ releases'[o].plan = NoPlan
        BY <1>2
    <2> HIDE DEF exact
    <2> QED
        BY <1>1, <1>4, <2>1 DEF AmountsCoherent
<1>8. StatusCoherent(o)'
    BY <1>1, <1>2 DEF StatusCoherent
<1>9. PostingsCoherent(o)'
    BY <1>2, <1>3 DEF PostingsCoherent
<1> QED
    BY <1>6, <1>7, <1>8, <1>9

LEMMA DeliveryCoherent ==
    ASSUME Coherent, NEW o \in Orders, NEW actual \in Collected,
           \/ DeliverOnSettlement(o, actual)
           \/ \E bypass \in BOOLEAN : DeliverImmediately(o, actual, bypass),
           NEW q \in Orders
    PROVE  ReleaseCoherent(q)'
<1> USE DEF Coherent, TypeOK
<1>1. actual \in Nat
    BY ConstantsAssumption DEF Collected
<1>2. CASE DeliverOnSettlement(o, actual)
    <2>1. CASE q # o
        BY <1>2, <2>1, StaysCoherent DEF DeliverOnSettlement, SamePostings
    <2> QED
        BY <1>1, <1>2, <2>1, DeliveryOnSettlementCoherent
<1>3. ASSUME NEW bypass \in BOOLEAN, DeliverImmediately(o, actual, bypass)
      PROVE  ReleaseCoherent(q)'
    <2>1. releases' = releases
        BY <1>3 DEF DeliverImmediately
    <2>2. CASE q # o
        BY <1>3, <2>1, <2>2, StaysCoherent DEF DeliverImmediately, SamePostings
    <2>3. CASE q = o
        <3>1. releases[o] = NoRelease
            BY <1>3, ModeDecidesRelease DEF DeliverImmediately
        <3>2. orders'[o].mode # "ON_SETTLEMENT"
            BY <1>3 DEF DeliverImmediately, DeliveredOrder
        <3> QED
            BY <2>1, <2>3, <3>1, <3>2, WithoutReleaseCoherent
    <2> QED
        BY <2>2, <2>3
<1> QED
    BY <1>2, <1>3

\* An allocation lowers what is outstanding and never overshoots; the last one
\* releases the collection unless its difference is still under review.
LEMMA AllocationCoherent ==
    ASSUME Coherent, NEW s \in Settlements, NEW d \in Drivers, NEW amount,
           NEW alloc \in [Orders -> Collected], NEW unattributed,
           CreateSettlement(s, d, amount, alloc, unattributed),
           NEW q \in Orders
    PROVE  ReleaseCoherent(q)'
<1> USE DEF Coherent, TypeOK
<1> DEFINE done == CompletedBy(alloc)
<1>1. alloc[q] \in Nat /\ releases[q] \in Release
    BY ConstantsAssumption DEF Collected
<1>2. /\ alloc[q] > 0 => AllocationAccepted(d, q, alloc[q])
      /\ q \in done => Releasable(q, WithAllocation(q, alloc[q]), orders[q].financial)
    BY DEF CreateSettlement, Allocated
<1>3. /\ releases'[q] = IF q \in done THEN [WithAllocation(q, alloc[q]) EXCEPT !.status = "RELEASED"]
                                      ELSE WithAllocation(q, alloc[q])
      /\ orders'[q] = IF q \in done THEN [orders[q] EXCEPT !.financial = "FINALIZED"] ELSE orders[q]
      /\ rows'[q] = IF q \in done THEN WithPostings(rows[q], releases[q].plan) ELSE rows[q]
    BY DEF CreateSettlement
<1>4. q \in done <=> /\ alloc[q] > 0
                     /\ releases[q].allocated + alloc[q] = releases[q].collection
                     /\ releases[q].review # "AWAITING_REVIEW"
    BY <1>1 DEF CompletedBy, Allocated, WithAllocation, Release
<1> HIDE DEF done
<1>5. CASE alloc[q] = 0
    <2>1. releases'[q] = releases[q] /\ orders'[q] = orders[q] /\ rows'[q] = rows[q]
        BY <1>1, <1>3, <1>4, <1>5 DEF WithAllocation, Release
    <2> QED
        BY <2>1, StaysCoherent DEF SamePostings
<1>6. CASE alloc[q] > 0
    <2>1. /\ releases[q].status = "PENDING"
          /\ releases[q].allocated + alloc[q] <= releases[q].collection
        BY <1>1, <1>2, <1>6 DEF AllocationAccepted, Outstanding, Release
    <2>2. /\ releases'[q].status = IF q \in done THEN "RELEASED" ELSE "PENDING"
          /\ releases'[q].review = releases[q].review
          /\ releases'[q].collection = releases[q].collection
          /\ releases'[q].allocated = releases[q].allocated + alloc[q]
          /\ releases'[q].plan = releases[q].plan
        BY <1>1, <1>3, <2>1 DEF WithAllocation, Release
    <2>3. /\ orders'[q].delivered = orders[q].delivered
          /\ orders'[q].mode = orders[q].mode
          /\ orders'[q].actual = orders[q].actual
          /\ orders'[q].needsReview = orders[q].needsReview
          /\ orders'[q].financial = IF q \in done THEN "FINALIZED" ELSE orders[q].financial
        BY <1>3 DEF Order
    <2>4. ReleaseMatchesOrder(q)'
        <3>1. FinancialStatusOf(releases'[q]) = IF q \in done THEN "FINALIZED" ELSE FinancialStatusOf(releases[q])
            BY <2>1, <2>2 DEF FinancialStatusOf
        <3>2. ReleaseMatchesOrder(q)
            OBVIOUS
        <3>3. q \in done => ~orders[q].needsReview
            BY <1>4, <2>1, <3>2 DEF ReleaseMatchesOrder, FinancialStatusOf
        <3> QED
            BY <2>1, <2>2, <2>3, <3>1, <3>2, <3>3 DEF ReleaseMatchesOrder
    <2>5. AmountsCoherent(q)'
        BY <1>1, <2>1, <2>2 DEF AmountsCoherent, Release
    <2>6. StatusCoherent(q)'
        BY <1>1, <1>4, <1>6, <2>2 DEF StatusCoherent
    <2>7. PostingsCoherent(q)'
        <3>1. CASE q \in done
            <4>1. rows'[q] = WithPostings(rows[q], releases[q].plan) /\ rows[q] \in OrderRows
                BY <1>3, <3>1
            <4> QED
                BY <2>2, <3>1, <4>1 DEF PostingsCoherent, WithPostings, OrderRows
        <3>2. CASE q \notin done
            BY <1>3, <2>1, <2>2, <3>2 DEF PostingsCoherent
        <3> QED
            BY <3>1, <3>2
    <2> QED
        BY <2>4, <2>5, <2>6, <2>7
<1> QED
    BY <1>1, <1>5, <1>6

\* A settlement is only reversed while everything it allocated is pending, so
\* no release loses an allocation it was released on.
LEMMA SettlementReversalCoherent ==
    ASSUME Coherent, NEW s \in Settlements, ReverseSettlement(s), NEW q \in Orders
    PROVE  ReleaseCoherent(q)'
<1> USE DEF Coherent, TypeOK
<1> DEFINE taken == settlements[s].alloc[q]
<1>1. taken \in Nat /\ releases[q] \in Release
    BY DEF Settlement
<1>2. taken > 0 => releases[q].status = "PENDING" /\ releases[q].allocated >= taken
    BY DEF ReverseSettlement, Allocated
<1>3. /\ releases'[q] = IF taken > 0 THEN [releases[q] EXCEPT !.allocated = @ - taken] ELSE releases[q]
      /\ orders' = orders /\ rows' = rows
    BY DEF ReverseSettlement
<1> HIDE DEF taken
<1>4. CASE taken = 0
    BY <1>3, <1>4, StaysCoherent DEF SamePostings
<1>5. CASE taken > 0
    <2>1. /\ releases'[q].status = "PENDING"
          /\ releases'[q].review = releases[q].review
          /\ releases'[q].collection = releases[q].collection
          /\ releases'[q].allocated = releases[q].allocated - taken
          /\ releases'[q].plan = releases[q].plan
        BY <1>1, <1>2, <1>3, <1>5 DEF Release
    <2>2. ReleaseMatchesOrder(q)'
        <3>1. ReleaseMatchesOrder(q) /\ releases[q].status = "PENDING"
            BY <1>2, <1>5
        <3>2. FinancialStatusOf(releases'[q]) = FinancialStatusOf(releases[q])
            BY <2>1, <3>1 DEF FinancialStatusOf
        <3> QED
            BY <1>3, <2>1, <3>1, <3>2 DEF ReleaseMatchesOrder
    <2>3. AmountsCoherent(q)' /\ StatusCoherent(q)'
        BY <1>1, <1>2, <1>5, <2>1 DEF AmountsCoherent, StatusCoherent, Release
    <2>4. PostingsCoherent(q)'
        BY <1>2, <1>3, <1>5, <2>1 DEF PostingsCoherent
    <2> QED
        BY <2>2, <2>3, <2>4
<1> QED
    BY <1>1, <1>4, <1>5

\* A resolved difference gets a plan that sums to the collection, and releases
\* at once when settlement came first.
LEMMA ReviewCoherent ==
    ASSUME Coherent, NEW o \in Orders, NEW plan \in CandidatePlans,
           ResolveImmediately(o, plan) \/ ResolveReleaseDifference(o, plan),
           NEW q \in Orders
    PROVE  ReleaseCoherent(q)'
<1> USE DEF Coherent, TypeOK
<1>1. CASE q # o
    <2>1. releases'[q] = releases[q] /\ orders'[q] = orders[q] /\ rows'[q] = rows[q]
        BY <1>1 DEF ResolveImmediately, ResolveReleaseDifference
    <2> QED
        BY <2>1, StaysCoherent DEF SamePostings
<1>2. ASSUME ResolveImmediately(o, plan) PROVE ReleaseCoherent(o)'
    <2>1. orders[o].mode # "ON_SETTLEMENT" /\ orders'[o].mode = orders[o].mode /\ releases' = releases
        BY <1>2 DEF ResolveImmediately, Order
    <2>2. releases[o] = NoRelease
        BY <2>1, ModeDecidesRelease
    <2> QED
        BY <2>1, <2>2, WithoutReleaseCoherent
<1>3. ASSUME ResolveReleaseDifference(o, plan) PROVE ReleaseCoherent(o)'
    <2> DEFINE settled == releases[o].allocated = releases[o].collection
    <2> DEFINE resolved == [releases[o] EXCEPT !.review = "RESOLVED", !.plan = plan]
    <2>1. releases[o] \in Release /\ orders[o] \in Order /\ rows[o] \in OrderRows
        OBVIOUS
    <2>2. /\ releases[o].status = "PENDING"
          /\ OrderMatchesRelease(o)
          /\ PlanFits(o, plan, releases[o].collection)
        BY <1>3 DEF ResolveReleaseDifference
    <2>3. releases'[o] = IF settled THEN [resolved EXCEPT !.status = "RELEASED"] ELSE resolved
        BY <1>3 DEF ResolveReleaseDifference
    <2>4. rows'[o] = IF settled THEN WithPostings(rows[o], plan) ELSE rows[o]
        BY <1>3 DEF ResolveReleaseDifference
    <2>5. orders'[o] = [orders[o] EXCEPT !.financial = IF settled THEN "FINALIZED" ELSE "AWAITING_SETTLEMENT",
                                         !.needsReview = FALSE]
        BY <1>3 DEF ResolveReleaseDifference
    <2>6. /\ releases'[o].status = IF settled THEN "RELEASED" ELSE "PENDING"
          /\ releases'[o].review = "RESOLVED"
          /\ releases'[o].collection = releases[o].collection
          /\ releases'[o].allocated = releases[o].allocated
          /\ releases'[o].plan = plan
        BY <2>1, <2>2, <2>3 DEF Release
    <2>7. /\ orders'[o].delivered = orders[o].delivered
          /\ orders'[o].mode = orders[o].mode
          /\ orders'[o].actual = orders[o].actual
          /\ orders'[o].needsReview = FALSE
          /\ orders'[o].financial = IF settled THEN "FINALIZED" ELSE "AWAITING_SETTLEMENT"
        BY <2>1, <2>5 DEF Order
    <2>8. ReleaseMatchesOrder(o)'
        <3>1. FinancialStatusOf(releases'[o]) = IF settled THEN "FINALIZED" ELSE "AWAITING_SETTLEMENT"
            BY <2>6 DEF FinancialStatusOf
        <3> QED
            BY <2>2, <2>6, <2>7, <3>1 DEF ReleaseMatchesOrder
    <2>9. AmountsCoherent(o)'
        BY <2>2, <2>6 DEF AmountsCoherent
    <2>10. StatusCoherent(o)'
        BY <2>6 DEF StatusCoherent
    <2>11. PostingsCoherent(o)'
        <3>1. CASE settled
            <4>1. rows'[o] = WithPostings(rows[o], plan) /\ releases'[o].status = "RELEASED"
                BY <2>4, <2>6, <3>1
            <4> QED
                BY <2>1, <2>6, <4>1 DEF PostingsCoherent, WithPostings, OrderRows
        <3>2. CASE ~settled
            <4>1. rows'[o] = rows[o] /\ releases'[o].status = "PENDING"
                BY <2>4, <2>6, <3>2
            <4> QED
                BY <2>2, <4>1 DEF PostingsCoherent
        <3> QED
            BY <3>1, <3>2
    <2> QED
        BY <2>8, <2>9, <2>10, <2>11
<1> QED
    BY <1>1, <1>2, <1>3

\* Voiding happens before any allocation; reversing a release reverses exactly
\* the postings it made and keeps its allocations.
LEMMA ReleaseCorrectionCoherent ==
    ASSUME Coherent, NEW o \in Orders, VoidReleaseCollection(o) \/ ReverseRelease(o), NEW q \in Orders
    PROVE  ReleaseCoherent(q)'
<1> USE DEF Coherent, TypeOK
<1>1. CASE q # o
    <2>1. releases'[q] = releases[q] /\ orders'[q] = orders[q] /\ rows'[q] = rows[q]
        BY <1>1 DEF VoidReleaseCollection, VoidTo, ReverseRelease
    <2> QED
        BY <2>1, StaysCoherent DEF SamePostings
<1>2. releases[o] \in Release /\ orders[o] \in Order /\ rows[o] \in OrderRows
    OBVIOUS
<1>3. ASSUME VoidReleaseCollection(o) PROVE ReleaseCoherent(o)'
    <2>1. /\ releases[o].status = "PENDING" /\ releases[o].allocated = 0
          /\ releases'[o] = [releases[o] EXCEPT !.status = "VOIDED"]
          /\ orders'[o] = [orders[o] EXCEPT !.financial = "COLLECTION_VOIDED", !.needsReview = FALSE]
          /\ rows'[o] = [rows[o] EXCEPT !.collection = ReversedRow(@)]
        BY <1>3 DEF VoidReleaseCollection, VoidTo
    <2>2. ReleaseMatchesOrder(o)'
        <3>1. OrderMatchesRelease(o)
            BY <1>3 DEF VoidReleaseCollection, VoidTo
        <3>2. FinancialStatusOf(releases'[o]) = "COLLECTION_VOIDED"
            BY <1>2, <2>1 DEF FinancialStatusOf, Release
        <3> QED
            BY <1>2, <2>1, <3>1, <3>2 DEF ReleaseMatchesOrder, Release, Order
    <2>3. AmountsCoherent(o)' /\ StatusCoherent(o)'
        BY <1>2, <2>1 DEF AmountsCoherent, StatusCoherent, Release
    <2>4. PostingsCoherent(o)'
        BY <1>2, <2>1 DEF PostingsCoherent, Release, OrderRows
    <2> QED
        BY <2>2, <2>3, <2>4
<1>4. ASSUME ReverseRelease(o) PROVE ReleaseCoherent(o)'
    <2>1. /\ releases[o].status = "RELEASED"
          /\ releases'[o] = [releases[o] EXCEPT !.status = "RELEASE_REVERSED"]
          /\ orders'[o] = [orders[o] EXCEPT !.financial = "RELEASE_REVERSED"]
          /\ rows'[o] = WithPostingsReversed(rows[o])
        BY <1>4 DEF ReverseRelease
    <2>2. ReleaseMatchesOrder(o)'
        <3>1. OrderMatchesRelease(o) /\ orders[o].financial = "FINALIZED"
            BY <1>4 DEF ReverseRelease
        <3>2. ~orders[o].needsReview
            BY <2>1, <3>1 DEF ReleaseMatchesOrder
        <3>3. FinancialStatusOf(releases'[o]) = "RELEASE_REVERSED"
            BY <1>2, <2>1 DEF FinancialStatusOf, Release
        <3> QED
            BY <1>2, <2>1, <3>1, <3>2, <3>3 DEF ReleaseMatchesOrder, Release, Order
    <2>3. AmountsCoherent(o)' /\ StatusCoherent(o)'
        BY <1>2, <2>1 DEF AmountsCoherent, StatusCoherent, Release
    <2>4. PostingsCoherent(o)'
        BY <1>2, <2>1 DEF PostingsCoherent, WithPostingsReversed, Release, OrderRows
    <2> QED
        BY <2>2, <2>3, <2>4
<1> QED
    BY <1>1, <1>3, <1>4

\* The generic ledger reversals never touch a posting a release made: a pending
\* or voided release has none, and a released one is refused.
LEMMA LedgerReversalCoherent ==
    ASSUME Coherent, NEW o \in Orders,
           \/ ReverseCollection(o)
           \/ ReverseWalletCredit(o)
           \/ ReverseProductRevenue(o)
           \/ ReverseFeeRevenue(o),
           NEW q \in Orders
    PROVE  ReleaseCoherent(q)'
<1> USE DEF Coherent, TypeOK
<1>1. releases'[q] = releases[q] /\ orders'[q] = orders[q]
    BY DEF ReverseCollection, ReverseWalletCredit, ReverseProductRevenue, ReverseFeeRevenue
<1>2. rows \in [Orders -> OrderRows] /\ rows[o] \in OrderRows /\ releases[o] \in Release
    OBVIOUS
<1>3. CASE q # o
    <2>1. rows'[q] = rows[q]
        BY <1>3 DEF ReverseCollection, ReverseWalletCredit, ReverseProductRevenue, ReverseFeeRevenue
    <2> QED
        BY <1>1, <2>1, StaysCoherent DEF SamePostings
<1>4. CASE ReverseCollection(o)
    <2>1. SamePostings(o)
        BY <1>2, <1>4 DEF ReverseCollection, SamePostings, OrderRows
    <2> QED
        BY <1>1, <1>3, <2>1, StaysCoherent
<1>5. CASE ReverseWalletCredit(o) \/ ReverseProductRevenue(o) \/ ReverseFeeRevenue(o)
    <2>1. PostingsCoherent(o)
        OBVIOUS
    <2>2. /\ ~ReleaseLinked(o)
          /\ rows[o].credit # NoRow \/ rows[o].product # NoRow \/ rows[o].fee # NoRow
        BY <1>5 DEF ReverseWalletCredit, ReverseProductRevenue, ReverseFeeRevenue, NoRow
    <2>3. releases[o].status = "NONE"
        BY <1>2, <2>1, <2>2 DEF PostingsCoherent, Release
    <2> QED
        BY <1>1, <1>3, <2>3, StaysCoherent
<1> QED
    BY <1>4, <1>5

\* Only settlements and their corrections write settlement records.
LEMMA SettlementsUntouched ==
    ASSUME Activate \/ Deactivate \/ Delivering \/ Reviewing \/ Correcting \/ Adjusting \/ Paying
    PROVE  settlements' = settlements
<1>1. CASE Activate \/ Deactivate
    BY <1>1 DEF Activate, Deactivate
<1>2. CASE Delivering
    BY <1>2 DEF Delivering, DeliverOnSettlement, DeliverImmediately
<1>3. CASE Reviewing
    <2>1. PICK o \in Orders, plan \in CandidatePlans :
              ResolveImmediately(o, plan) \/ ResolveReleaseDifference(o, plan)
        BY <1>3 DEF Reviewing
    <2>2. CASE ResolveImmediately(o, plan)
        BY <2>2 DEF ResolveImmediately
    <2>3. CASE ResolveReleaseDifference(o, plan)
        BY <2>3 DEF ResolveReleaseDifference
    <2> QED
        BY <2>1, <2>2, <2>3
<1>4. CASE Correcting
    BY <1>4 DEF Correcting, VoidReleaseCollection, VoidTo, ReverseRelease, ReverseCollection,
                ReverseWalletCredit, ReverseProductRevenue, ReverseFeeRevenue
<1>5. CASE Adjusting
    BY <1>5 DEF Adjusting, AdjustDriverCash, AdjustWallet, ReverseCashAdjustment,
                ReverseWalletAdjustment
<1>6. CASE Paying
    BY <1>6 DEF Paying, CreatePayout, ReversePayout
<1> QED
    BY <1>1, <1>2, <1>3, <1>4, <1>5, <1>6

LEMMA SettlementsCoherent ==
    ASSUME Coherent, [Next]_vars, NEW s \in Settlements
    PROVE  SettlementCoherent(s)'
<1> USE DEF Coherent, TypeOK
<1>1. SettlementCoherent(s) /\ settlements[s] \in Settlement
    OBVIOUS
<1>2. CASE UNCHANGED settlements
    BY <1>1, <1>2 DEF SettlementCoherent
<1>3. CASE Settling
    <2>1. PICK t \in Settlements :
              \/ \E d \in Drivers, alloc \in [Orders -> Collected],
                    unattributed \in 0..MaxManual, amount \in 1..BalanceLimit :
                      CreateSettlement(t, d, amount, alloc, unattributed)
              \/ \E d \in Drivers, amount \in Manual : CreateLegacySettlement(t, d, amount)
              \/ ReverseSettlement(t)
              \/ \E amount \in Manual : RecordShortfall(t, amount)
        BY <1>3 DEF Settling
    <2>2. CASE s = t
        <3>1. settlements[s].state = "POSTED" => settlements'[s].state \in {"POSTED", "REVERSED"}
            BY <1>1, <2>1, <2>2
               DEF CreateSettlement, CreateLegacySettlement, ReverseSettlement, RecordShortfall, Settlement
        <3>2. settlements[s].state = "ABSENT" => settlements'[s].state = "POSTED"
            BY <1>1, <2>1, <2>2
               DEF CreateSettlement, CreateLegacySettlement, ReverseSettlement, RecordShortfall, NewSettlement
        <3>3. settlements[s].state \in {"ABSENT", "POSTED"}
            BY <1>1, <2>1, <2>2
               DEF CreateSettlement, CreateLegacySettlement, ReverseSettlement, RecordShortfall
        <3> QED
            BY <3>1, <3>2, <3>3 DEF SettlementCoherent
    <2>3. CASE s # t
        <3>1. settlements'[s] = settlements[s]
            BY <2>1, <2>3 DEF CreateSettlement, CreateLegacySettlement, ReverseSettlement, RecordShortfall
        <3> QED
            BY <1>1, <3>1 DEF SettlementCoherent
    <2> QED
        BY <2>2, <2>3
<1> QED
    BY <1>2, <1>3, SettlementsUntouched DEF Next, vars

\* Steps that only move money between balances and their own records.
LEMMA ElsewhereUnchanged ==
    ASSUME \/ Activate \/ Deactivate \/ Adjusting \/ Paying
           \/ \E s \in Settlements :
                 \/ \E d \in Drivers, amount \in Manual : CreateLegacySettlement(s, d, amount)
                 \/ \E amount \in Manual : RecordShortfall(s, amount)
    PROVE  UNCHANGED <<orders, releases, rows>>
<1>1. CASE Activate \/ Deactivate
    BY <1>1 DEF Activate, Deactivate
<1>2. CASE Adjusting
    BY <1>2 DEF Adjusting, AdjustDriverCash, AdjustWallet, ReverseCashAdjustment, ReverseWalletAdjustment
<1>3. CASE Paying
    BY <1>3 DEF Paying, CreatePayout, ReversePayout
<1> QED
    BY <1>1, <1>2, <1>3 DEF CreateLegacySettlement, RecordShortfall

LEMMA NextCoherent == Coherent /\ [Next]_vars => Coherent'
<1> SUFFICES ASSUME Coherent, [Next]_vars PROVE Coherent'
    OBVIOUS
<1>1. TypeOK'
    BY NextTyped DEF Coherent
<1>2. ASSUME NEW s \in Settlements PROVE SettlementCoherent(s)'
    BY SettlementsCoherent
<1>3. ASSUME NEW q \in Orders PROVE ReleaseCoherent(q)'
    <2>1. ReleaseCoherent(q)
        BY DEF Coherent
    <2>2. CASE UNCHANGED <<orders, releases, rows>>
        BY <2>1, <2>2, StaysCoherent DEF SamePostings
    <2>3. CASE Activate \/ Deactivate \/ Adjusting \/ Paying
        BY <2>2, <2>3, ElsewhereUnchanged
    <2>4. CASE Delivering
        BY <2>4, DeliveryCoherent DEF Delivering
    <2>5. CASE Settling
        <3>1. PICK s \in Settlements :
                  \/ \E d \in Drivers, alloc \in [Orders -> Collected],
                        unattributed \in 0..MaxManual, amount \in 1..BalanceLimit :
                          CreateSettlement(s, d, amount, alloc, unattributed)
                  \/ \E d \in Drivers, amount \in Manual : CreateLegacySettlement(s, d, amount)
                  \/ ReverseSettlement(s)
                  \/ \E amount \in Manual : RecordShortfall(s, amount)
            BY <2>5 DEF Settling
        <3> QED
            BY <2>2, <3>1, AllocationCoherent, SettlementReversalCoherent, ElsewhereUnchanged
    <2>6. CASE Reviewing
        BY <2>6, ReviewCoherent DEF Reviewing
    <2>7. CASE Correcting
        BY <2>7, ReleaseCorrectionCoherent, LedgerReversalCoherent DEF Correcting
    <2>8. CASE UNCHANGED vars
        BY <2>2, <2>8 DEF vars
    <2> QED
        BY <2>3, <2>4, <2>5, <2>6, <2>7, <2>8 DEF Next
<1> QED
    BY <1>1, <1>2, <1>3 DEF Coherent

\* Releases, orders and ledger rows stay mutually consistent through every
\* delivery, settlement, review and correction, for any number of them.
THEOREM CoherenceHolds == Spec => []Coherent
<1> QED
    BY InitCoherent, NextCoherent, PTL DEF Spec

-----------------------------------------------------------------------------
(* What follows from coherence *)

LEMMA CoherentAgrees == Coherent => OrderAndReleaseAgree
<1> SUFFICES ASSUME Coherent, NEW o \in Orders
             PROVE  /\ (releases[o].status # "NONE") <=> (orders[o].mode = "ON_SETTLEMENT")
                    /\ releases[o].status # "NONE" =>
                        /\ orders[o].financial = FinancialStatusOf(releases[o])
                        /\ orders[o].needsReview <=> orders[o].financial = "REVIEW_REQUIRED"
                        /\ releases[o].plan = NoPlan <=> releases[o].review = "AWAITING_REVIEW"
    BY DEF OrderAndReleaseAgree
<1>1. ReleaseMatchesOrder(o) /\ AmountsCoherent(o)
    BY DEF Coherent
<1>2. ASSUME releases[o].status # "NONE", releases[o].plan = NoPlan
      PROVE  releases[o].review = "AWAITING_REVIEW"
    BY <1>1, <1>2 DEF AmountsCoherent, PlanFits, NoPlan
<1> QED
    BY <1>1, <1>2 DEF ReleaseMatchesOrder, AmountsCoherent

\* The order's financial status is always the one its release implies.
THEOREM OrderAndReleaseAlwaysAgree == Spec => []OrderAndReleaseAgree
<1> QED
    BY CoherenceHolds, CoherentAgrees, PTL

LEMMA CoherentComplete == Coherent => NothingLeftPending
BY DEF Coherent, NothingLeftPending, StatusCoherent

\* Whatever order settlement and review finish in, a release that meets both
\* conditions has been released.
THEOREM CompletedReleasesAreReleased == Spec => []NothingLeftPending
<1> QED
    BY CoherenceHolds, CoherentComplete, PTL

\* What a posting is while its release stands, and after it was reversed.
LEMMA PostingFacts ==
    ASSUME NEW a \in Nat
    PROVE  /\ PostedRow(a).amount = a /\ ReversedRow(PostedRow(a)).amount = a
           /\ a > 0 => /\ PostedRow(a).state = "POSTED"
                       /\ ReversedRow(PostedRow(a)).state = "REVERSED"
           /\ Net(PostedRow(a)) = a /\ Net(ReversedRow(PostedRow(a))) = 0
           /\ Net(NoRow) = 0
BY DEF PostedRow, ReversedRow, NoRow, Net

LEMMA CoherentOwnership == Coherent => OwnedOnlyWhenSettled
<1> SUFFICES ASSUME Coherent, NEW o \in Orders, orders[o].mode = "ON_SETTLEMENT"
             PROVE  LET posted == {rows[o].credit, rows[o].product, rows[o].fee}
                        plan   == releases[o].plan
                    IN  /\ releases[o].status \in {"PENDING", "VOIDED"} => posted = {NoRow}
                        /\ releases[o].status \in {"RELEASED", "RELEASE_REVERSED"} =>
                            /\ releases[o].allocated = orders[o].actual
                            /\ PlanFits(o, plan, orders[o].actual)
                            /\ rows[o].credit.amount = plan.wallet
                            /\ rows[o].product.amount = plan.product
                            /\ rows[o].fee.amount = plan.fee
                            /\ \A r \in posted : r.amount > 0 =>
                                 r.state = IF releases[o].status = "RELEASED" THEN "POSTED" ELSE "REVERSED"
    BY DEF OwnedOnlyWhenSettled
<1> DEFINE plan == releases[o].plan
<1>1. ReleaseMatchesOrder(o) /\ AmountsCoherent(o) /\ StatusCoherent(o) /\ PostingsCoherent(o)
    BY DEF Coherent
<1>2. plan.wallet \in Nat /\ plan.product \in Nat /\ plan.fee \in Nat
    BY DEF Coherent, TypeOK, Release, Plan
<1>3. releases[o].status # "NONE" /\ orders[o].actual = releases[o].collection
    BY <1>1 DEF ReleaseMatchesOrder
<1>4. CASE releases[o].status \in {"PENDING", "VOIDED"}
    BY <1>1, <1>4 DEF PostingsCoherent
<1>5. CASE releases[o].status \in {"RELEASED", "RELEASE_REVERSED"}
    <2>1. /\ releases[o].allocated = orders[o].actual
          /\ PlanFits(o, plan, orders[o].actual)
        BY <1>1, <1>3, <1>5 DEF AmountsCoherent, StatusCoherent
    <2>2. CASE releases[o].status = "RELEASED"
        BY <1>1, <1>2, <2>1, <2>2, PostingFacts DEF PostingsCoherent
    <2>3. CASE releases[o].status = "RELEASE_REVERSED"
        BY <1>1, <1>2, <2>1, <2>3, PostingFacts DEF PostingsCoherent
    <2> QED
        BY <1>5, <2>2, <2>3
<1>6. releases[o].status \in ReleaseStatuses
    BY DEF Coherent, TypeOK, Release
<1> QED
    BY <1>3, <1>4, <1>5, <1>6

\* The promise of settlement mode: nobody owns a cash collection before all of
\* it was handed over, and then exactly as planned.
THEOREM OwnershipFollowsSettlement == Spec => []OwnedOnlyWhenSettled
<1> QED
    BY CoherenceHolds, CoherentOwnership, PTL

-----------------------------------------------------------------------------
(* What a step may do to one release *)

KeepsDelivery(o) ==
    orders[o].delivered => orders'[o].delivered /\ orders'[o].mode = orders[o].mode

Opened(was, now) ==
    was = NoRelease /\ now.status = "PENDING" /\ now.collection > 0 /\ now.allocated = 0

Progressed(was, now) ==
    /\ was.status = "PENDING" /\ now.status \in {"PENDING", "RELEASED"}
    /\ now.collection = was.collection
    /\ was.review # "AWAITING_REVIEW" => now.review # "AWAITING_REVIEW"

Voided(was, now) ==
    was.status = "PENDING" /\ was.allocated = 0 /\ now = [was EXCEPT !.status = "VOIDED"]

Reversed(was, now) ==
    was.status = "RELEASED" /\ now = [was EXCEPT !.status = "RELEASE_REVERSED"]

ReleaseMoves(was, now) ==
    now = was \/ Opened(was, now) \/ Progressed(was, now) \/ Voided(was, now) \/ Reversed(was, now)

LEMMA DeliveryMoves ==
    ASSUME Coherent, NEW o \in Orders, NEW actual \in Collected,
           \/ DeliverOnSettlement(o, actual)
           \/ \E bypass \in BOOLEAN : DeliverImmediately(o, actual, bypass),
           NEW q \in Orders
    PROVE  KeepsDelivery(q) /\ ReleaseMoves(releases[q], releases'[q])
<1> USE DEF Coherent, TypeOK
<1>1. ~orders[o].delivered
    BY DEF DeliverOnSettlement, DeliverImmediately
<1>2. q # o => orders'[q] = orders[q] /\ releases'[q] = releases[q]
    BY DEF DeliverOnSettlement, DeliverImmediately
<1>3. KeepsDelivery(q)
    BY <1>1, <1>2 DEF KeepsDelivery
<1>4. CASE DeliverOnSettlement(o, actual)
    <2>1. releases[o] = NoRelease
        BY <1>1, ModeDecidesRelease
    <2>2. releases'[o].status = "PENDING" /\ releases'[o].collection > 0 /\ releases'[o].allocated = 0
        BY <1>4 DEF DeliverOnSettlement
    <2> QED
        BY <1>2, <1>3, <2>1, <2>2 DEF ReleaseMoves, Opened
<1>5. CASE \E bypass \in BOOLEAN : DeliverImmediately(o, actual, bypass)
    BY <1>3, <1>5 DEF DeliverImmediately, ReleaseMoves
<1> QED
    BY <1>4, <1>5

LEMMA SettlementMoves ==
    ASSUME Coherent, Settling, NEW q \in Orders
    PROVE  KeepsDelivery(q) /\ ReleaseMoves(releases[q], releases'[q])
<1> USE DEF Coherent, TypeOK
<1>1. releases[q] \in Release /\ orders[q] \in Order
    OBVIOUS
<1>2. ASSUME NEW s \in Settlements, NEW d \in Drivers, NEW alloc \in [Orders -> Collected],
             NEW unattributed, NEW amount, CreateSettlement(s, d, amount, alloc, unattributed)
      PROVE  KeepsDelivery(q) /\ ReleaseMoves(releases[q], releases'[q])
    <2>1. alloc[q] \in Nat
        BY ConstantsAssumption DEF Collected
    <2>2. KeepsDelivery(q)
        BY <1>1, <1>2 DEF CreateSettlement, KeepsDelivery, Order
    <2>3. q \in CompletedBy(alloc) => alloc[q] > 0
        BY DEF CompletedBy, Allocated
    <2>4. CASE alloc[q] = 0
        <3>1. releases'[q] = WithAllocation(q, alloc[q])
            BY <1>2, <2>3, <2>4 DEF CreateSettlement
        <3>2. releases'[q] = releases[q]
            BY <1>1, <2>4, <3>1 DEF WithAllocation, Release
        <3> QED
            BY <2>2, <3>2 DEF ReleaseMoves
    <2>5. CASE alloc[q] > 0
        <3>1. releases[q].status = "PENDING"
            BY <1>2, <2>5 DEF CreateSettlement, Allocated, AllocationAccepted
        <3>2. \/ releases'[q] = WithAllocation(q, alloc[q])
              \/ releases'[q] = [WithAllocation(q, alloc[q]) EXCEPT !.status = "RELEASED"]
            BY <1>2 DEF CreateSettlement
        <3> QED
            BY <1>1, <2>2, <3>1, <3>2 DEF WithAllocation, ReleaseMoves, Progressed, Release
    <2> QED
        BY <2>1, <2>4, <2>5
<1>3. ASSUME NEW s \in Settlements, ReverseSettlement(s)
      PROVE  KeepsDelivery(q) /\ ReleaseMoves(releases[q], releases'[q])
    <2>1. settlements[s].alloc[q] > 0 => releases[q].status = "PENDING"
        BY <1>3 DEF ReverseSettlement, Allocated
    <2>2. releases'[q] = IF settlements[s].alloc[q] > 0
                         THEN [releases[q] EXCEPT !.allocated = @ - settlements[s].alloc[q]]
                         ELSE releases[q]
        BY <1>3 DEF ReverseSettlement
    <2>3. ReleaseMoves(releases[q], releases'[q])
        BY <1>1, <2>1, <2>2 DEF ReleaseMoves, Progressed, Release
    <2> QED
        BY <1>3, <2>3 DEF ReverseSettlement, KeepsDelivery
<1> QED
    BY <1>2, <1>3 DEF Settling, CreateLegacySettlement, RecordShortfall, KeepsDelivery, ReleaseMoves

LEMMA ReviewMoves ==
    ASSUME Coherent, Reviewing, NEW q \in Orders
    PROVE  KeepsDelivery(q) /\ ReleaseMoves(releases[q], releases'[q])
<1> USE DEF Coherent, TypeOK
<1>1. releases[q] \in Release /\ orders[q] \in Order
    OBVIOUS
<1>2. PICK o \in Orders, plan \in CandidatePlans :
          ResolveImmediately(o, plan) \/ ResolveReleaseDifference(o, plan)
    BY DEF Reviewing
<1>3. KeepsDelivery(q)
    <2>1. CASE ResolveImmediately(o, plan)
        BY <1>1, <2>1 DEF ResolveImmediately, KeepsDelivery, Order
    <2>2. CASE ResolveReleaseDifference(o, plan)
        <3> DEFINE outcome == IF releases[o].allocated = releases[o].collection
                              THEN "FINALIZED" ELSE "AWAITING_SETTLEMENT"
        <3>1. orders' = [orders EXCEPT ![o].financial = outcome, ![o].needsReview = FALSE]
            BY <2>2 DEF ResolveReleaseDifference
        <3> HIDE DEF outcome
        <3> QED
            BY <1>1, <3>1 DEF KeepsDelivery, Order
    <2> QED
        BY <1>2, <2>1, <2>2
<1>4. CASE releases'[q] = releases[q]
    BY <1>3, <1>4 DEF ReleaseMoves
<1>5. CASE ResolveReleaseDifference(o, plan) /\ q = o
    <2> DEFINE resolved == [releases[q] EXCEPT !.review = "RESOLVED", !.plan = plan]
    <2>1. releases'[q] = resolved \/ releases'[q] = [resolved EXCEPT !.status = "RELEASED"]
        BY <1>5 DEF ResolveReleaseDifference
    <2>2. releases[q].status = "PENDING"
        BY <1>5 DEF ResolveReleaseDifference
    <2> QED
        BY <1>1, <1>3, <2>1, <2>2 DEF ReleaseMoves, Progressed, Release
<1> QED
    BY <1>2, <1>4, <1>5 DEF ResolveImmediately, ResolveReleaseDifference

LEMMA CorrectionMoves ==
    ASSUME Coherent, Correcting, NEW q \in Orders
    PROVE  KeepsDelivery(q) /\ ReleaseMoves(releases[q], releases'[q])
<1> USE DEF Coherent, TypeOK
<1>1. releases[q] \in Release /\ orders[q] \in Order
    OBVIOUS
<1>2. PICK o \in Orders : \/ VoidReleaseCollection(o)
                          \/ ReverseRelease(o)
                          \/ ReverseCollection(o)
                          \/ ReverseWalletCredit(o)
                          \/ ReverseProductRevenue(o)
                          \/ ReverseFeeRevenue(o)
    BY DEF Correcting
<1>3. CASE VoidReleaseCollection(o)
    BY <1>1, <1>3 DEF VoidReleaseCollection, VoidTo, KeepsDelivery, ReleaseMoves, Voided, Order
<1>4. CASE ReverseRelease(o)
    BY <1>1, <1>4 DEF ReverseRelease, KeepsDelivery, ReleaseMoves, Reversed, Order
<1>5. CASE UNCHANGED <<orders, releases>>
    BY <1>5 DEF KeepsDelivery, ReleaseMoves
<1> QED
    BY <1>2, <1>3, <1>4, <1>5
       DEF ReverseCollection, ReverseWalletCredit, ReverseProductRevenue, ReverseFeeRevenue

LEMMA NextMoves ==
    ASSUME Coherent, [Next]_vars, NEW q \in Orders
    PROVE  KeepsDelivery(q) /\ ReleaseMoves(releases[q], releases'[q])
<1>1. CASE UNCHANGED <<orders, releases>>
    BY <1>1 DEF KeepsDelivery, ReleaseMoves
<1>2. CASE Activate \/ Deactivate \/ Adjusting \/ Paying
    BY <1>1, <1>2, ElsewhereUnchanged
<1>3. CASE Delivering
    BY <1>3, DeliveryMoves DEF Delivering
<1> QED
    BY <1>1, <1>2, <1>3, SettlementMoves, ReviewMoves, CorrectionMoves DEF Next, vars

LEMMA NextFinal == Coherent /\ [Next]_vars => \A o \in Orders : ReleaseStep(o)
<1> SUFFICES ASSUME Coherent, [Next]_vars, NEW o \in Orders PROVE ReleaseStep(o)
    OBVIOUS
<1>1. releases[o] \in Release
    BY DEF Coherent, TypeOK
<1>2. KeepsDelivery(o) /\ ReleaseMoves(releases[o], releases'[o])
    BY NextMoves
<1>3. CASE releases'[o] = releases[o]
    BY <1>2, <1>3 DEF ReleaseStep, KeepsDelivery
<1>4. CASE Opened(releases[o], releases'[o]) \/ Progressed(releases[o], releases'[o])
    BY <1>2, <1>4 DEF ReleaseStep, KeepsDelivery, Opened, Progressed, NoRelease
<1>5. CASE Voided(releases[o], releases'[o]) \/ Reversed(releases[o], releases'[o])
    BY <1>1, <1>2, <1>5 DEF ReleaseStep, KeepsDelivery, Voided, Reversed, Release
<1> QED
    BY <1>2, <1>3, <1>4, <1>5 DEF ReleaseMoves

\* A release is corrected at most once and never revived, and the mode decided
\* at delivery is final.
THEOREM CorrectionsStayFinal == Spec => CorrectionsAreFinal
<1>1. Coherent /\ [Next]_vars => [\A o \in Orders : ReleaseStep(o)]_vars
    BY NextFinal
<1> QED
    BY <1>1, CoherenceHolds, PTL DEF Spec, CorrectionsAreFinal

LEMMA NextStands == Coherent /\ [Next]_vars => [\A s \in Settlements : SettlementStep(s)]_vars
<1> SUFFICES ASSUME Coherent, Next, NEW s \in Settlements,
                    NEW o \in Orders, settlements[s].alloc[o] > 0, ReleaseLinked(o)
             PROVE  settlements'[s].state = settlements[s].state /\ settlements'[s].alloc = settlements[s].alloc
    BY DEF SettlementStep
<1> USE DEF Coherent, TypeOK
<1>1. settlements[s] \in Settlement /\ SettlementCoherent(s)
    OBVIOUS
<1>2. settlements[s].state # "ABSENT"
    BY <1>1 DEF SettlementCoherent, NoAllocations
<1>3. CASE UNCHANGED settlements
    BY <1>3
<1>4. CASE Settling
    <2>1. PICK t \in Settlements :
              \/ \E d \in Drivers, alloc \in [Orders -> Collected],
                    unattributed \in 0..MaxManual, amount \in 1..BalanceLimit :
                      CreateSettlement(t, d, amount, alloc, unattributed)
              \/ \E d \in Drivers, amount \in Manual : CreateLegacySettlement(t, d, amount)
              \/ ReverseSettlement(t)
              \/ \E amount \in Manual : RecordShortfall(t, amount)
        BY <1>4 DEF Settling
    <2>2. CASE s # t
        BY <2>1, <2>2 DEF CreateSettlement, CreateLegacySettlement, ReverseSettlement, RecordShortfall
    <2>3. ~ReverseSettlement(s)
        BY DEF ReverseSettlement, Allocated
    <2>4. CASE s = t
        <3>1. PICK amount \in Manual : RecordShortfall(s, amount)
            BY <1>2, <2>1, <2>3, <2>4 DEF CreateSettlement, CreateLegacySettlement
        <3> QED
            BY <1>1, <3>1 DEF RecordShortfall, Settlement
    <2> QED
        BY <2>2, <2>4
<1> QED
    BY <1>3, <1>4, SettlementsUntouched DEF Next

\* A settlement whose allocation was released on can never be reversed.
THEOREM ReleasedSettlementsNeverFall == Spec => ReleasedSettlementsStand
<1> QED
    BY NextStands, CoherenceHolds, PTL DEF Spec, ReleasedSettlementsStand

-----------------------------------------------------------------------------
(* Refinement of Custody *)

\* In a coherent state an order maps to a custody record that owns the whole
\* collection while it is released and nothing otherwise.
Summary(rel) ==
    [phase  |-> PhaseOf(rel),
     amount |-> rel.collection,
     handed |-> rel.allocated,
     agreed |-> rel.review # "AWAITING_REVIEW",
     owned  |-> IF rel.status = "RELEASED" THEN rel.collection ELSE 0]

LEMMA CustodyIsSummary ==
    Coherent => \A o \in Orders : CustodyOf(releases[o], rows[o]) = Summary(releases[o])
<1> SUFFICES ASSUME Coherent, NEW o \in Orders
             PROVE  CustodyOf(releases[o], rows[o]) = Summary(releases[o])
    OBVIOUS
<1> DEFINE rel == releases[o]
<1> DEFINE owned == Net(rows[o].credit) + Net(rows[o].product) + Net(rows[o].fee)
<1>1. AmountsCoherent(o) /\ StatusCoherent(o) /\ PostingsCoherent(o)
    BY DEF Coherent
<1>2. /\ rel.status \in ReleaseStatuses
      /\ rel.plan.wallet \in Nat /\ rel.plan.product \in Nat /\ rel.plan.fee \in Nat
    BY DEF Coherent, TypeOK, Release, Plan
<1>3. CASE rel.status \in {"PENDING", "VOIDED"}
    <2>1. owned = 0
        BY <1>1, <1>3, PostingFacts DEF PostingsCoherent
    <2> QED
        BY <1>3, <2>1 DEF CustodyOf, Summary
<1>4. CASE rel.status = "RELEASED"
    <2>1. rel.plan.wallet + rel.plan.product + rel.plan.fee = rel.collection
        BY <1>1, <1>4 DEF AmountsCoherent, StatusCoherent, PlanFits
    <2>2. owned = rel.collection
        BY <1>1, <1>2, <1>4, <2>1, PostingFacts DEF PostingsCoherent
    <2> QED
        BY <1>4, <2>2 DEF CustodyOf, Summary
<1>5. CASE rel.status = "RELEASE_REVERSED"
    <2>1. owned = 0
        BY <1>1, <1>2, <1>5, PostingFacts DEF PostingsCoherent
    <2> QED
        BY <1>5, <2>1 DEF CustodyOf, Summary
<1>6. CASE rel.status = "NONE"
    BY <1>6 DEF CustodyOf, Summary
<1> QED
    BY <1>2, <1>3, <1>4, <1>5, <1>6

\* Each way a release may move is a step of the promise.
LEMMA MoveIsCustodyStep ==
    ASSUME NEW was \in Release, NEW now \in Release, ReleaseMoves(was, now),
           now.status # "NONE" => now.allocated <= now.collection,
           now.status = "PENDING" /\ now.allocated = now.collection => now.review = "AWAITING_REVIEW",
           now.status = "RELEASED" => now.allocated = now.collection /\ now.review # "AWAITING_REVIEW"
    PROVE  Promise!Step(Summary(was), Summary(now))
<1>1. CASE now = was
    BY <1>1 DEF Promise!Step
<1>2. CASE Opened(was, now)
    BY <1>2 DEF Opened, Promise!Step, Promise!Collect, Promise!Nothing, Summary, PhaseOf, NoRelease
<1>3. CASE Progressed(was, now)
    <2>1. /\ Summary(was).phase = "held"
          /\ Summary(now).amount = Summary(was).amount
          /\ Summary(now).handed <= Summary(now).amount
          /\ Summary(was).agreed => Summary(now).agreed
        BY <1>3 DEF Progressed, Summary, PhaseOf
    <2>2. CASE now.status = "PENDING"
        <3>1. ~(Summary(now).agreed /\ Summary(now).handed = Summary(now).amount)
            BY <2>2 DEF Summary
        <3>2. Summary(now).phase = "held" /\ Summary(now).owned = 0
            BY <2>2 DEF Summary, PhaseOf
        <3> QED
            BY <2>1, <3>1, <3>2 DEF Promise!Step, Promise!Progress
    <2>3. CASE now.status = "RELEASED"
        <3>1. /\ Summary(now).agreed /\ Summary(now).handed = Summary(now).amount
              /\ Summary(now).phase = "owned" /\ Summary(now).owned = Summary(now).amount
            BY <2>3 DEF Summary, PhaseOf
        <3> QED
            BY <2>1, <3>1 DEF Promise!Step, Promise!Progress
    <2> QED
        BY <1>3, <2>2, <2>3 DEF Progressed
<1>4. CASE Voided(was, now)
    BY <1>4 DEF Voided, Promise!Step, Promise!CallOff, Summary, PhaseOf, Release
<1>5. CASE Reversed(was, now)
    <2>1. Summary(was).phase = "owned"
        BY <1>5 DEF Reversed, Summary, PhaseOf
    <2>2. /\ now.status = "RELEASE_REVERSED" /\ now.collection = was.collection
          /\ now.allocated = was.allocated /\ now.review = was.review
        BY <1>5 DEF Reversed, Release
    <2>3. Summary(now).phase = "returned" /\ Summary(now).owned = 0
        BY <2>2 DEF Summary, PhaseOf
    <2>4. /\ Summary(now).amount = Summary(was).amount
          /\ Summary(now).handed = Summary(was).handed
          /\ Summary(now).agreed = Summary(was).agreed
        BY <2>2 DEF Summary
    <2> QED
        BY <2>1, <2>3, <2>4 DEF Promise!Step, Promise!TakeBack
<1> QED
    BY <1>1, <1>2, <1>3, <1>4, <1>5 DEF ReleaseMoves

LEMMA InitKeepsPromise == Init => Promise!Init
<1> SUFFICES ASSUME Init PROVE Promise!Init
    OBVIOUS
<1>1. ASSUME NEW o \in Orders PROVE CustodyOf(releases[o], rows[o]) = Promise!Nothing
    BY DEF Init, CustodyOf, PhaseOf, NoRelease, Promise!Nothing
<1> QED
    BY <1>1 DEF Promise!Init, CustodyState

LEMMA CustodyIsSummaryNext ==
    Coherent' => (\A o \in Orders : CustodyOf(releases[o], rows[o]) = Summary(releases[o]))'
BY CustodyIsSummary, PTL

LEMMA NextKeepsPromise ==
    Coherent /\ Coherent' /\ [Next]_vars => Promise!Next
<1> SUFFICES ASSUME Coherent, Coherent', [Next]_vars, NEW o \in Orders
             PROVE  Promise!Step(CustodyOf(releases[o], rows[o]), CustodyOf(releases'[o], rows'[o]))
    BY DEF Promise!Next, CustodyState
<1>1. /\ CustodyOf(releases[o], rows[o]) = Summary(releases[o])
      /\ CustodyOf(releases'[o], rows'[o]) = Summary(releases'[o])
    BY CustodyIsSummary, CustodyIsSummaryNext
<1>2. releases[o] \in Release /\ releases'[o] \in Release
    BY DEF Coherent, TypeOK
<1>3. ReleaseMoves(releases[o], releases'[o])
    BY NextMoves
<1>4. AmountsCoherent(o)' /\ StatusCoherent(o)'
    BY DEF Coherent
<1>5. /\ releases'[o].status # "NONE" => releases'[o].allocated <= releases'[o].collection
      /\ releases'[o].status = "PENDING" /\ releases'[o].allocated = releases'[o].collection
            => releases'[o].review = "AWAITING_REVIEW"
      /\ releases'[o].status = "RELEASED"
            => releases'[o].allocated = releases'[o].collection /\ releases'[o].review # "AWAITING_REVIEW"
    BY <1>4 DEF AmountsCoherent, StatusCoherent
<1> QED
    BY <1>1, <1>2, <1>3, <1>5, MoveIsCustodyStep

\* The settlement ledgers implement the promise of Custody: ownership appears
\* at once, in full, and only when everything was handed over and agreed.
THEOREM ReleaseImplementsCustody == Spec => ImplementsCustody
<1>1. Coherent /\ Coherent' /\ [Next]_vars => [Promise!Next]_CustodyState
    BY NextKeepsPromise
<1> QED
    BY <1>1, InitKeepsPromise, CoherenceHolds, PTL DEF Spec, ImplementsCustody, Promise!Spec

HIDE DEF ReleaseCoherent, ReleaseLinked, OrderMatchesRelease

Counted(f, R, x) == IF x \in R THEN f[x] ELSE 0

\* R selects from the rows of S the numbers that f gives them.
Selects(f, R, S) == R \subseteq S /\ \A x \in R : f[x] \in Int

\* Two selections agree except at y; the third is the sum of the other two.
AlikeBut(f, P, g, Q, S, y) == \A x \in S : x # y => Counted(f, P, x) = Counted(g, Q, x)
Splits(h, R, f, P, g, Q, S) == \A x \in S : Counted(h, R, x) = Counted(f, P, x) + Counted(g, Q, x)

LEMMA CountedAll ==
    ASSUME NEW S, IsFiniteSet(S), NEW f, NEW P, Selects(f, P, S)
    PROVE  /\ Summable([x \in S |-> Counted(f, P, x)], S)
           /\ SumFunctionOnSet(f, P) = SumFunctionOnSet([x \in S |-> Counted(f, P, x)], S)
           /\ SumFunctionOnSet(f, P) \in Int
<1> DEFINE F == [x \in S |-> Counted(f, P, x)]
<1>1. \A x \in S : F[x] = IF x \in P THEN f[x] ELSE 0
  BY DEF Counted
<1>2. P \in SUBSET S /\ Summable(f, P)
  BY FS_Subset DEF Summable, Selects
<1>3. Summable(F, S)
  BY <1>1 DEF Summable, Selects
<1> HIDE DEF F
<1>4. SumFunctionOnSet(f, P) = SumFunctionOnSet(F, S)
  BY <1>1, <1>2, SumOverAll
<1>5. SumFunctionOnSet(f, P) \in Int
  BY <1>2, SumIsInt
<1> QED BY <1>3, <1>4, <1>5 DEF F

\* Sums over selections from one set: what every row adds is what it adds to
\* the sum.
LEMMA SelectionsAdd ==
    ASSUME NEW S, IsFiniteSet(S), NEW f, NEW g, NEW h, NEW P, NEW Q, NEW R,
           Selects(f, P, S), Selects(g, Q, S), Selects(h, R, S),
           Splits(h, R, f, P, g, Q, S)
    PROVE  SumFunctionOnSet(h, R) = SumFunctionOnSet(f, P) + SumFunctionOnSet(g, Q)
<1> DEFINE F == [x \in S |-> Counted(f, P, x)]
           G == [x \in S |-> Counted(g, Q, x)]
           H == [x \in S |-> Counted(h, R, x)]
<1>1. \A x \in S : H[x] = F[x] + G[x]
  BY DEF Splits
<1>2. Summable(F, S) /\ SumFunctionOnSet(f, P) = SumFunctionOnSet(F, S)
  BY CountedAll
<1>3. Summable(G, S) /\ SumFunctionOnSet(g, Q) = SumFunctionOnSet(G, S)
  BY CountedAll
<1>4. SumFunctionOnSet(h, R) = SumFunctionOnSet(H, S)
  BY CountedAll
<1> HIDE DEF F, G, H
<1>5. SumFunctionOnSet(H, S) = SumFunctionOnSet(F, S) + SumFunctionOnSet(G, S)
  BY <1>1, <1>2, <1>3, SumsAdd
<1> QED BY <1>2, <1>3, <1>4, <1>5

\* When only y moves, the sum moves by what y counts for.
LEMMA SelectionMoves ==
    ASSUME NEW S, IsFiniteSet(S), NEW f, NEW g, NEW P, NEW Q, NEW y \in S,
           Selects(f, P, S), Selects(g, Q, S), AlikeBut(f, P, g, Q, S, y)
    PROVE  SumFunctionOnSet(g, Q) = SumFunctionOnSet(f, P) - Counted(f, P, y) + Counted(g, Q, y)
<1> DEFINE F == [x \in S |-> Counted(f, P, x)]
           G == [x \in S |-> Counted(g, Q, x)]
<1>1. \A x \in S : x # y => F[x] = G[x]
  BY DEF AlikeBut
<1>2. Summable(F, S) /\ SumFunctionOnSet(f, P) = SumFunctionOnSet(F, S)
  BY CountedAll
<1>3. Summable(G, S) /\ SumFunctionOnSet(g, Q) = SumFunctionOnSet(G, S)
  BY CountedAll
<1>4. F[y] = Counted(f, P, y) /\ G[y] = Counted(g, Q, y)
  OBVIOUS
<1> HIDE DEF F, G
<1>5. SumFunctionOnSet(G, S) = SumFunctionOnSet(F, S) - F[y] + G[y]
  BY <1>1, <1>2, <1>3, SumMoves
<1> QED BY <1>2, <1>3, <1>4, <1>5

-----------------------------------------------------------------------------
(* How the sums over rows move with the rows.                                *)

LEMMA NetIsNat ==
    /\ \A r \in Row : Net(r) \in Nat
    /\ \A st \in Settlement : Net(st) \in Nat /\ Net(st) - st.shortfall \in Int
    /\ \A a \in Adjustment : Net(a) \in Nat /\ Signed(a) \in Int
    /\ \A p \in Payout : Net(p) \in Nat
BY DEF Net, Signed, Row, Settlement, Adjustment, Payout

\* The two halves of a wallet's ledger.
CreditsOf(c) ==
    SumFunctionOnSet([o \in Orders |-> Net(rows[o].credit)], {o \in Orders : CustomerOf[o] = c})
PaidTo(c) ==
    SumFunctionOnSet([p \in Payouts |-> Net(payouts[p])], {p \in Payouts : payouts[p].of = c})

\* What one release reserves, as a value.
Owing(rel) == rel.collection - rel.allocated
Holds(rel, r) == rel.status = "PENDING" /\ r.collection.state # "REVERSED"

LEMMA OrderSumsAreInts ==
    ASSUME TypeOK
    PROVE  /\ \A d \in Drivers : CollectionsOf(d) \in Int /\ AttributedOutstanding(d) \in Int
           /\ \A c \in Customers : CreditsOf(c) \in Int
<1>1. IsFiniteSet(Orders)
  BY FiniteAssumption
<1>2. ASSUME NEW d \in Drivers PROVE CollectionsOf(d) \in Int
  <2>1. Selects([o \in Orders |-> Net(rows[o].collection)], {o \in Orders : DriverOf[o] = d}, Orders)
    BY NetIsNat DEF Selects, TypeOK, OrderRows
  <2> QED BY <1>1, <2>1, CountedAll DEF CollectionsOf
<1>3. ASSUME NEW d \in Drivers PROVE AttributedOutstanding(d) \in Int
  <2>1. Selects([o \in Orders |-> Outstanding(o)], HoldingReleases(d), Orders)
    BY DEF Selects, TypeOK, Outstanding, HoldingReleases, Release
  <2> QED BY <1>1, <2>1, CountedAll DEF AttributedOutstanding
<1>4. ASSUME NEW c \in Customers PROVE CreditsOf(c) \in Int
  <2>1. Selects([o \in Orders |-> Net(rows[o].credit)], {o \in Orders : CustomerOf[o] = c}, Orders)
    BY NetIsNat DEF Selects, TypeOK, OrderRows
  <2> QED BY <1>1, <2>1, CountedAll DEF CreditsOf
<1> QED BY <1>2, <1>3, <1>4

LEMMA OtherSumsAreInts ==
    ASSUME TypeOK
    PROVE  /\ \A d \in Drivers : SettledBy(d) \in Int
           /\ \A c \in Customers : PaidTo(c) \in Int
           /\ \A w \in Drivers \cup Customers : AdjustedFor(w) \in Int
           /\ \A o \in Orders : HandedOver(o) \in Int
<1>1. IsFiniteSet(Settlements) /\ IsFiniteSet(Adjustments) /\ IsFiniteSet(Payouts)
  BY FiniteAssumption
<1>2. ASSUME NEW d \in Drivers PROVE SettledBy(d) \in Int
  <2>1. Selects([s \in Settlements |-> Net(settlements[s]) - settlements[s].shortfall],
                {s \in Settlements : settlements[s].driver = d}, Settlements)
    BY NetIsNat DEF Selects, TypeOK
  <2> QED BY <1>1, <2>1, CountedAll DEF SettledBy
<1>3. ASSUME NEW c \in Customers PROVE PaidTo(c) \in Int
  <2>1. Selects([p \in Payouts |-> Net(payouts[p])], {p \in Payouts : payouts[p].of = c}, Payouts)
    BY NetIsNat DEF Selects, TypeOK
  <2> QED BY <1>1, <2>1, CountedAll DEF PaidTo
<1>4. ASSUME NEW w \in Drivers \cup Customers PROVE AdjustedFor(w) \in Int
  <2>1. Selects([a \in Adjustments |-> Signed(adjustments[a])],
                {a \in Adjustments : adjustments[a].of = w}, Adjustments)
    BY NetIsNat DEF Selects, TypeOK
  <2> QED BY <1>1, <2>1, CountedAll DEF AdjustedFor
<1>5. ASSUME NEW o \in Orders PROVE HandedOver(o) \in Int
  <2>1. Selects([s \in Settlements |-> settlements[s].alloc[o]],
                {s \in Settlements : settlements[s].state = "POSTED"}, Settlements)
    BY DEF Selects, TypeOK, Settlement
  <2> QED BY <1>1, <2>1, CountedAll DEF HandedOver
<1> QED BY <1>2, <1>3, <1>4, <1>5

LEMMA LedgersAreInts ==
    ASSUME TypeOK
    PROVE  /\ \A d \in Drivers : account[d] \in Int /\ CashLedgerNet(d) \in Int
           /\ \A d \in Drivers : Unattributed(d) = account[d] - AttributedOutstanding(d)
           /\ \A d \in Drivers : CashLedgerNet(d) = CollectionsOf(d) - SettledBy(d) + AdjustedFor(d)
           /\ \A c \in Customers : wallet[c] \in Int /\ WalletLedgerNet(c) \in Int
           /\ \A c \in Customers : WalletLedgerNet(c) = CreditsOf(c) - PaidTo(c) + AdjustedFor(c)
<1>1. \A d \in Drivers : account[d] \in Int
  BY ConstantsAssumption DEF TypeOK, Balances
<1>2. \A c \in Customers : wallet[c] \in Int
  BY ConstantsAssumption DEF TypeOK, Balances
<1>3. \A c \in Customers : WalletLedgerNet(c) = CreditsOf(c) - PaidTo(c) + AdjustedFor(c)
  BY DEF WalletLedgerNet, CreditsOf, PaidTo
<1>4. \A d \in Drivers : CashLedgerNet(d) = CollectionsOf(d) - SettledBy(d) + AdjustedFor(d)
  BY DEF CashLedgerNet
<1>5. \A d \in Drivers : Unattributed(d) = account[d] - AttributedOutstanding(d)
  BY DEF Unattributed
<1>6. \A d \in Drivers : CashLedgerNet(d) \in Int
  BY <1>4, OrderSumsAreInts, OtherSumsAreInts
<1>7. \A c \in Customers : WalletLedgerNet(c) \in Int
  BY <1>3, OrderSumsAreInts, OtherSumsAreInts
<1> QED BY <1>1, <1>2, <1>3, <1>4, <1>5, <1>6, <1>7

LEMMA CollectionsMove ==
    ASSUME TypeOK, TypeOK', NEW d \in Drivers, NEW o \in Orders,
           \A q \in Orders : q # o => rows'[q].collection = rows[q].collection
    PROVE  CollectionsOf(d)' =
                  CollectionsOf(d) - (IF DriverOf[o] = d THEN Net(rows[o].collection) ELSE 0)
                  + (IF DriverOf[o] = d THEN Net(rows'[o].collection) ELSE 0)
<1>1. PICK f, g, P, Q :
          /\ f = [x \in Orders |-> Net(rows[x].collection)]
          /\ g = [x \in Orders |-> Net(rows'[x].collection)]
          /\ P = {x \in Orders : DriverOf[x] = d}
          /\ Q = {x \in Orders : DriverOf[x] = d}
  OBVIOUS
<1>2. CollectionsOf(d) = SumFunctionOnSet(f, P)
  BY <1>1 DEF CollectionsOf
<1>3. CollectionsOf(d)' = SumFunctionOnSet(g, Q)
  <2>1. CollectionsOf(d)' =
          SumFunctionOnSet([x \in Orders |-> Net(rows'[x].collection)],
                           {x \in Orders : DriverOf[x] = d})
    BY DEF CollectionsOf, Net
  <2> QED BY <1>1, <2>1
<1>4. Selects(f, P, Orders)
  BY <1>1, NetIsNat DEF Selects, TypeOK, OrderRows
<1>5. Selects(g, Q, Orders)
  BY <1>1, NetIsNat DEF Selects, TypeOK, OrderRows
<1>6. AlikeBut(f, P, g, Q, Orders, o)
  BY <1>1 DEF Counted, AlikeBut
<1>7. IsFiniteSet(Orders)
  BY FiniteAssumption
<1>8. SumFunctionOnSet(g, Q) = SumFunctionOnSet(f, P) - Counted(f, P, o) + Counted(g, Q, o)
  BY <1>4, <1>5, <1>6, <1>7, SelectionMoves
<1>9. /\ Counted(f, P, o) = IF DriverOf[o] = d THEN Net(rows[o].collection) ELSE 0
      /\ Counted(g, Q, o) = IF DriverOf[o] = d THEN Net(rows'[o].collection) ELSE 0
  BY <1>1 DEF Counted
<1> QED BY <1>2, <1>3, <1>8, <1>9

LEMMA CreditsMove ==
    ASSUME TypeOK, TypeOK', NEW c \in Customers, NEW o \in Orders,
           \A q \in Orders : q # o => rows'[q].credit = rows[q].credit
    PROVE  CreditsOf(c)' =
                  CreditsOf(c) - (IF CustomerOf[o] = c THEN Net(rows[o].credit) ELSE 0)
                  + (IF CustomerOf[o] = c THEN Net(rows'[o].credit) ELSE 0)
<1>1. PICK f, g, P, Q :
          /\ f = [x \in Orders |-> Net(rows[x].credit)]
          /\ g = [x \in Orders |-> Net(rows'[x].credit)]
          /\ P = {x \in Orders : CustomerOf[x] = c}
          /\ Q = {x \in Orders : CustomerOf[x] = c}
  OBVIOUS
<1>2. CreditsOf(c) = SumFunctionOnSet(f, P)
  BY <1>1 DEF CreditsOf
<1>3. CreditsOf(c)' = SumFunctionOnSet(g, Q)
  <2>1. CreditsOf(c)' =
          SumFunctionOnSet([x \in Orders |-> Net(rows'[x].credit)],
                           {x \in Orders : CustomerOf[x] = c})
    BY DEF CreditsOf, Net
  <2> QED BY <1>1, <2>1
<1>4. Selects(f, P, Orders)
  BY <1>1, NetIsNat DEF Selects, TypeOK, OrderRows
<1>5. Selects(g, Q, Orders)
  BY <1>1, NetIsNat DEF Selects, TypeOK, OrderRows
<1>6. AlikeBut(f, P, g, Q, Orders, o)
  BY <1>1 DEF Counted, AlikeBut
<1>7. IsFiniteSet(Orders)
  BY FiniteAssumption
<1>8. SumFunctionOnSet(g, Q) = SumFunctionOnSet(f, P) - Counted(f, P, o) + Counted(g, Q, o)
  BY <1>4, <1>5, <1>6, <1>7, SelectionMoves
<1>9. /\ Counted(f, P, o) = IF CustomerOf[o] = c THEN Net(rows[o].credit) ELSE 0
      /\ Counted(g, Q, o) = IF CustomerOf[o] = c THEN Net(rows'[o].credit) ELSE 0
  BY <1>1 DEF Counted
<1> QED BY <1>2, <1>3, <1>8, <1>9

LEMMA SettledMoves ==
    ASSUME TypeOK, TypeOK', NEW d \in Drivers, NEW s \in Settlements,
           \A t \in Settlements : t # s => settlements'[t] = settlements[t]
    PROVE  SettledBy(d)' =
                  SettledBy(d) - (IF settlements[s].driver = d THEN Net(settlements[s]) - settlements[s].shortfall ELSE 0)
                  + (IF settlements'[s].driver = d THEN Net(settlements'[s]) - settlements'[s].shortfall ELSE 0)
<1>1. PICK f, g, P, Q :
          /\ f = [x \in Settlements |-> Net(settlements[x]) - settlements[x].shortfall]
          /\ g = [x \in Settlements |-> Net(settlements'[x]) - settlements'[x].shortfall]
          /\ P = {x \in Settlements : settlements[x].driver = d}
          /\ Q = {x \in Settlements : settlements'[x].driver = d}
  OBVIOUS
<1>2. SettledBy(d) = SumFunctionOnSet(f, P)
  BY <1>1 DEF SettledBy
<1>3. SettledBy(d)' = SumFunctionOnSet(g, Q)
  <2>1. SettledBy(d)' =
          SumFunctionOnSet([x \in Settlements |-> Net(settlements'[x]) - settlements'[x].shortfall],
                           {x \in Settlements : settlements'[x].driver = d})
    BY DEF SettledBy, Net
  <2> QED BY <1>1, <2>1
<1>4. Selects(f, P, Settlements)
  BY <1>1, NetIsNat DEF Selects, TypeOK
<1>5. Selects(g, Q, Settlements)
  BY <1>1, NetIsNat DEF Selects, TypeOK
<1>6. AlikeBut(f, P, g, Q, Settlements, s)
  BY <1>1 DEF Counted, AlikeBut
<1>7. IsFiniteSet(Settlements)
  BY FiniteAssumption
<1>8. SumFunctionOnSet(g, Q) = SumFunctionOnSet(f, P) - Counted(f, P, s) + Counted(g, Q, s)
  BY <1>4, <1>5, <1>6, <1>7, SelectionMoves
<1>9. /\ Counted(f, P, s) = IF settlements[s].driver = d THEN Net(settlements[s]) - settlements[s].shortfall ELSE 0
      /\ Counted(g, Q, s) = IF settlements'[s].driver = d THEN Net(settlements'[s]) - settlements'[s].shortfall ELSE 0
  BY <1>1 DEF Counted
<1> QED BY <1>2, <1>3, <1>8, <1>9

LEMMA AdjustedMoves ==
    ASSUME TypeOK, TypeOK', NEW who, NEW a \in Adjustments,
           \A b \in Adjustments : b # a => adjustments'[b] = adjustments[b]
    PROVE  AdjustedFor(who)' =
                  AdjustedFor(who) - (IF adjustments[a].of = who THEN Signed(adjustments[a]) ELSE 0)
                  + (IF adjustments'[a].of = who THEN Signed(adjustments'[a]) ELSE 0)
<1>1. PICK f, g, P, Q :
          /\ f = [x \in Adjustments |-> Signed(adjustments[x])]
          /\ g = [x \in Adjustments |-> Signed(adjustments'[x])]
          /\ P = {x \in Adjustments : adjustments[x].of = who}
          /\ Q = {x \in Adjustments : adjustments'[x].of = who}
  OBVIOUS
<1>2. AdjustedFor(who) = SumFunctionOnSet(f, P)
  BY <1>1 DEF AdjustedFor
<1>3. AdjustedFor(who)' = SumFunctionOnSet(g, Q)
  <2>1. AdjustedFor(who)' =
          SumFunctionOnSet([x \in Adjustments |-> Signed(adjustments'[x])],
                           {x \in Adjustments : adjustments'[x].of = who})
    BY DEF AdjustedFor, Signed, Net
  <2> QED BY <1>1, <2>1
<1>4. Selects(f, P, Adjustments)
  BY <1>1, NetIsNat DEF Selects, TypeOK
<1>5. Selects(g, Q, Adjustments)
  BY <1>1, NetIsNat DEF Selects, TypeOK
<1>6. AlikeBut(f, P, g, Q, Adjustments, a)
  BY <1>1 DEF Counted, AlikeBut
<1>7. IsFiniteSet(Adjustments)
  BY FiniteAssumption
<1>8. SumFunctionOnSet(g, Q) = SumFunctionOnSet(f, P) - Counted(f, P, a) + Counted(g, Q, a)
  BY <1>4, <1>5, <1>6, <1>7, SelectionMoves
<1>9. /\ Counted(f, P, a) = IF adjustments[a].of = who THEN Signed(adjustments[a]) ELSE 0
      /\ Counted(g, Q, a) = IF adjustments'[a].of = who THEN Signed(adjustments'[a]) ELSE 0
  BY <1>1 DEF Counted
<1> QED BY <1>2, <1>3, <1>8, <1>9

LEMMA PaidMoves ==
    ASSUME TypeOK, TypeOK', NEW c \in Customers, NEW p \in Payouts,
           \A q \in Payouts : q # p => payouts'[q] = payouts[q]
    PROVE  PaidTo(c)' =
                  PaidTo(c) - (IF payouts[p].of = c THEN Net(payouts[p]) ELSE 0)
                  + (IF payouts'[p].of = c THEN Net(payouts'[p]) ELSE 0)
<1>1. PICK f, g, P, Q :
          /\ f = [x \in Payouts |-> Net(payouts[x])]
          /\ g = [x \in Payouts |-> Net(payouts'[x])]
          /\ P = {x \in Payouts : payouts[x].of = c}
          /\ Q = {x \in Payouts : payouts'[x].of = c}
  OBVIOUS
<1>2. PaidTo(c) = SumFunctionOnSet(f, P)
  BY <1>1 DEF PaidTo
<1>3. PaidTo(c)' = SumFunctionOnSet(g, Q)
  <2>1. PaidTo(c)' =
          SumFunctionOnSet([x \in Payouts |-> Net(payouts'[x])],
                           {x \in Payouts : payouts'[x].of = c})
    BY DEF PaidTo, Net
  <2> QED BY <1>1, <2>1
<1>4. Selects(f, P, Payouts)
  BY <1>1, NetIsNat DEF Selects, TypeOK
<1>5. Selects(g, Q, Payouts)
  BY <1>1, NetIsNat DEF Selects, TypeOK
<1>6. AlikeBut(f, P, g, Q, Payouts, p)
  BY <1>1 DEF Counted, AlikeBut
<1>7. IsFiniteSet(Payouts)
  BY FiniteAssumption
<1>8. SumFunctionOnSet(g, Q) = SumFunctionOnSet(f, P) - Counted(f, P, p) + Counted(g, Q, p)
  BY <1>4, <1>5, <1>6, <1>7, SelectionMoves
<1>9. /\ Counted(f, P, p) = IF payouts[p].of = c THEN Net(payouts[p]) ELSE 0
      /\ Counted(g, Q, p) = IF payouts'[p].of = c THEN Net(payouts'[p]) ELSE 0
  BY <1>1 DEF Counted
<1> QED BY <1>2, <1>3, <1>8, <1>9

LEMMA HandedMoves ==
    ASSUME TypeOK, TypeOK', NEW o \in Orders, NEW s \in Settlements,
           \A t \in Settlements : t # s => settlements'[t] = settlements[t]
    PROVE  HandedOver(o)' =
                  HandedOver(o) - (IF settlements[s].state = "POSTED" THEN settlements[s].alloc[o] ELSE 0)
                  + (IF settlements'[s].state = "POSTED" THEN settlements'[s].alloc[o] ELSE 0)
<1>1. PICK f, g, P, Q :
          /\ f = [x \in Settlements |-> settlements[x].alloc[o]]
          /\ g = [x \in Settlements |-> settlements'[x].alloc[o]]
          /\ P = {x \in Settlements : settlements[x].state = "POSTED"}
          /\ Q = {x \in Settlements : settlements'[x].state = "POSTED"}
  OBVIOUS
<1>2. HandedOver(o) = SumFunctionOnSet(f, P)
  BY <1>1 DEF HandedOver
<1>3. HandedOver(o)' = SumFunctionOnSet(g, Q)
  <2>1. HandedOver(o)' =
          SumFunctionOnSet([x \in Settlements |-> settlements'[x].alloc[o]],
                           {x \in Settlements : settlements'[x].state = "POSTED"})
    BY DEF HandedOver
  <2> QED BY <1>1, <2>1
<1>4. Selects(f, P, Settlements)
  BY <1>1, NetIsNat DEF Selects, TypeOK, Settlement
<1>5. Selects(g, Q, Settlements)
  BY <1>1, NetIsNat DEF Selects, TypeOK, Settlement
<1>6. AlikeBut(f, P, g, Q, Settlements, s)
  BY <1>1 DEF Counted, AlikeBut
<1>7. IsFiniteSet(Settlements)
  BY FiniteAssumption
<1>8. SumFunctionOnSet(g, Q) = SumFunctionOnSet(f, P) - Counted(f, P, s) + Counted(g, Q, s)
  BY <1>4, <1>5, <1>6, <1>7, SelectionMoves
<1>9. /\ Counted(f, P, s) = IF settlements[s].state = "POSTED" THEN settlements[s].alloc[o] ELSE 0
      /\ Counted(g, Q, s) = IF settlements'[s].state = "POSTED" THEN settlements'[s].alloc[o] ELSE 0
  BY <1>1 DEF Counted
<1> QED BY <1>2, <1>3, <1>8, <1>9

LEMMA OutstandingMoves ==
    ASSUME TypeOK, TypeOK', NEW d \in Drivers, NEW o \in Orders,
           /\ \A q \in Orders : q # o => releases'[q] = releases[q]
           /\ \A q \in Orders : q # o => rows'[q].collection = rows[q].collection
    PROVE  AttributedOutstanding(d)' =
                  AttributedOutstanding(d) - (IF DriverOf[o] = d /\ Holds(releases[o], rows[o]) THEN Owing(releases[o]) ELSE 0)
                  + (IF DriverOf[o] = d /\ Holds(releases'[o], rows'[o]) THEN Owing(releases'[o]) ELSE 0)
<1>1. PICK f, g, P, Q :
          /\ f = [x \in Orders |-> Owing(releases[x])]
          /\ g = [x \in Orders |-> Owing(releases'[x])]
          /\ P = {x \in Orders : DriverOf[x] = d /\ Holds(releases[x], rows[x])}
          /\ Q = {x \in Orders : DriverOf[x] = d /\ Holds(releases'[x], rows'[x])}
  OBVIOUS
<1>2. AttributedOutstanding(d) = SumFunctionOnSet(f, P)
  BY <1>1 DEF AttributedOutstanding, Outstanding, HoldingReleases, HoldsCash, Owing, Holds
<1>3. AttributedOutstanding(d)' = SumFunctionOnSet(g, Q)
  <2>1. AttributedOutstanding(d)' =
          SumFunctionOnSet([x \in Orders |-> Owing(releases'[x])],
                           {x \in Orders : DriverOf[x] = d /\ Holds(releases'[x], rows'[x])})
    BY DEF AttributedOutstanding, Outstanding, HoldingReleases, HoldsCash, Owing, Holds
  <2> QED BY <1>1, <2>1
<1>4. Selects(f, P, Orders)
  BY <1>1, NetIsNat DEF Selects, TypeOK, Owing, Release
<1>5. Selects(g, Q, Orders)
  BY <1>1, NetIsNat DEF Selects, TypeOK, Owing, Release
<1>6. AlikeBut(f, P, g, Q, Orders, o)
  BY <1>1 DEF Counted, AlikeBut, Holds
<1>7. IsFiniteSet(Orders)
  BY FiniteAssumption
<1>8. SumFunctionOnSet(g, Q) = SumFunctionOnSet(f, P) - Counted(f, P, o) + Counted(g, Q, o)
  BY <1>4, <1>5, <1>6, <1>7, SelectionMoves
<1>9. /\ Counted(f, P, o) = IF DriverOf[o] = d /\ Holds(releases[o], rows[o]) THEN Owing(releases[o]) ELSE 0
      /\ Counted(g, Q, o) = IF DriverOf[o] = d /\ Holds(releases'[o], rows'[o]) THEN Owing(releases'[o]) ELSE 0
  BY <1>1 DEF Counted
<1> QED BY <1>2, <1>3, <1>8, <1>9

Within(i, n) == IF i THEN n ELSE 0
Reserved(rel, r) == IF Holds(rel, r) THEN Owing(rel) ELSE 0

\* The sums after a step, from the sums over its rows.
LEMMA LedgersNext ==
    ASSUME TypeOK'
    PROVE  /\ \A d \in Drivers : account'[d] \in Int
           /\ \A c \in Customers : wallet'[c] \in Int
           /\ \A d \in Drivers : Unattributed(d)' = account'[d] - AttributedOutstanding(d)'
           /\ \A d \in Drivers :
                 CashLedgerNet(d)' = CollectionsOf(d)' - SettledBy(d)' + AdjustedFor(d)'
           /\ \A c \in Customers :
                 WalletLedgerNet(c)' = CreditsOf(c)' - PaidTo(c)' + AdjustedFor(c)'
<1>1. \A d \in Drivers : account'[d] \in Int
  BY ConstantsAssumption DEF TypeOK, Balances
<1>2. \A c \in Customers : wallet'[c] \in Int
  BY ConstantsAssumption DEF TypeOK, Balances
<1>3. \A c \in Customers :
          WalletLedgerNet(c)' = CreditsOf(c)' - PaidTo(c)' + AdjustedFor(c)'
  BY DEF WalletLedgerNet, CreditsOf, PaidTo
<1>4. \A d \in Drivers :
          CashLedgerNet(d)' = CollectionsOf(d)' - SettledBy(d)' + AdjustedFor(d)'
  BY DEF CashLedgerNet
<1>5. \A d \in Drivers : Unattributed(d)' = account'[d] - AttributedOutstanding(d)'
  BY DEF Unattributed
<1> QED BY <1>1, <1>2, <1>3, <1>4, <1>5

\* Balances that move with their ledgers, and reserves that stay covered.
Balanced == BalancesEqualLedgers /\ ReservedCashIsHeld

LEMMA BalancesMove ==
    ASSUME TypeOK, TypeOK', Balanced,
           \A d \in Drivers : CashLedgerNet(d)' - CashLedgerNet(d) = account'[d] - account[d],
           \A c \in Customers : WalletLedgerNet(c)' - WalletLedgerNet(c) = wallet'[c] - wallet[c],
           \A d \in Drivers : account'[d] - AttributedOutstanding(d)' >= 0,
           \A d \in Drivers : CashLedgerNet(d)' \in Int,
           \A c \in Customers : WalletLedgerNet(c)' \in Int
    PROVE  Balanced'
<1>1. ASSUME NEW d \in Drivers PROVE account'[d] = CashLedgerNet(d)'
  <2>1. account[d] = CashLedgerNet(d) /\ account[d] \in Int
    BY LedgersAreInts DEF Balanced, BalancesEqualLedgers
  <2>2. account'[d] \in Int
    BY LedgersNext
  <2> QED BY <2>1, <2>2
<1>2. ASSUME NEW c \in Customers PROVE wallet'[c] = WalletLedgerNet(c)'
  <2>1. wallet[c] = WalletLedgerNet(c) /\ wallet[c] \in Int
    BY LedgersAreInts DEF Balanced, BalancesEqualLedgers
  <2>2. wallet'[c] \in Int
    BY LedgersNext
  <2> QED BY <2>1, <2>2
<1>3. ASSUME NEW d \in Drivers PROVE Unattributed(d)' >= 0
  BY LedgersNext
<1>4. BalancesEqualLedgers'
  BY <1>1, <1>2 DEF BalancesEqualLedgers
<1>5. ReservedCashIsHeld'
  BY <1>3 DEF ReservedCashIsHeld
<1> QED BY <1>4, <1>5 DEF Balanced

-----------------------------------------------------------------------------
(* Steps over one order                                                     *)

\* A step over the rows and the release of one order.
OnlyOrder(o) ==
    /\ \A q \in Orders : q # o => rows'[q] = rows[q] /\ releases'[q] = releases[q]
    /\ UNCHANGED <<settlements, adjustments, payouts>>

\* What such a step adds to the order's three sums.
OrderAdds(o, cash, credit, reserve) ==
    /\ Net(rows'[o].collection) = Net(rows[o].collection) + cash
    /\ Net(rows'[o].credit) = Net(rows[o].credit) + credit
    /\ Reserved(releases'[o], rows'[o]) = Reserved(releases[o], rows[o]) + reserve

LEMMA OrderSumsMove ==
    ASSUME TypeOK, TypeOK', NEW o \in Orders, OnlyOrder(o),
           NEW cash \in Int, NEW credit \in Int, NEW reserve \in Int,
           OrderAdds(o, cash, credit, reserve)
    PROVE  /\ \A d \in Drivers :
                 CollectionsOf(d)' = CollectionsOf(d) + Within(DriverOf[o] = d, cash)
           /\ \A d \in Drivers :
                 AttributedOutstanding(d)' = AttributedOutstanding(d) + Within(DriverOf[o] = d, reserve)
           /\ \A c \in Customers :
                 CreditsOf(c)' = CreditsOf(c) + Within(CustomerOf[o] = c, credit)
<1>1. /\ \A q \in Orders : q # o => rows'[q].collection = rows[q].collection
      /\ \A q \in Orders : q # o => rows'[q].credit = rows[q].credit
      /\ \A q \in Orders : q # o => releases'[q] = releases[q]
  BY DEF OnlyOrder
<1>2. /\ Net(rows[o].collection) \in Int /\ Net(rows'[o].collection) \in Int
      /\ Net(rows[o].credit) \in Int /\ Net(rows'[o].credit) \in Int
  BY NetIsNat DEF TypeOK, OrderRows
<1>3. Reserved(releases[o], rows[o]) \in Int /\ Reserved(releases'[o], rows'[o]) \in Int
  BY DEF TypeOK, Release, Reserved, Owing
<1>4. ASSUME NEW d \in Drivers
      PROVE  CollectionsOf(d)' = CollectionsOf(d) + Within(DriverOf[o] = d, cash)
  <2>1. CollectionsOf(d)' =
            CollectionsOf(d) - (IF DriverOf[o] = d THEN Net(rows[o].collection) ELSE 0)
            + (IF DriverOf[o] = d THEN Net(rows'[o].collection) ELSE 0)
    BY <1>1, CollectionsMove
  <2>2. CollectionsOf(d) \in Int
    BY OrderSumsAreInts
  <2> QED BY <1>2, <2>1, <2>2 DEF OrderAdds, Within
<1>5. ASSUME NEW d \in Drivers
      PROVE  AttributedOutstanding(d)' =
                 AttributedOutstanding(d) + Within(DriverOf[o] = d, reserve)
  <2>1. AttributedOutstanding(d)' =
            AttributedOutstanding(d)
            - (IF DriverOf[o] = d /\ Holds(releases[o], rows[o]) THEN Owing(releases[o]) ELSE 0)
            + (IF DriverOf[o] = d /\ Holds(releases'[o], rows'[o]) THEN Owing(releases'[o]) ELSE 0)
    BY <1>1, OutstandingMoves
  <2>2. AttributedOutstanding(d)' =
            AttributedOutstanding(d)
            - (IF DriverOf[o] = d THEN Reserved(releases[o], rows[o]) ELSE 0)
            + (IF DriverOf[o] = d THEN Reserved(releases'[o], rows'[o]) ELSE 0)
    BY <2>1 DEF Reserved
  <2>3. AttributedOutstanding(d) \in Int
    BY OrderSumsAreInts
  <2> QED BY <1>3, <2>2, <2>3 DEF OrderAdds, Within
<1>6. ASSUME NEW c \in Customers
      PROVE  CreditsOf(c)' = CreditsOf(c) + Within(CustomerOf[o] = c, credit)
  <2>1. CreditsOf(c)' =
            CreditsOf(c) - (IF CustomerOf[o] = c THEN Net(rows[o].credit) ELSE 0)
            + (IF CustomerOf[o] = c THEN Net(rows'[o].credit) ELSE 0)
    BY <1>1, CreditsMove
  <2>2. CreditsOf(c) \in Int
    BY OrderSumsAreInts
  <2> QED BY <1>2, <2>1, <2>2 DEF OrderAdds, Within
<1> QED BY <1>4, <1>5, <1>6

LEMMA OrderStepBalances ==
    ASSUME TypeOK, TypeOK', Balanced, NEW o \in Orders, OnlyOrder(o),
           NEW cash \in Int, NEW credit \in Int, NEW reserve \in Int,
           OrderAdds(o, cash, credit, reserve),
           \A d \in Drivers : account'[d] = account[d] + Within(DriverOf[o] = d, cash),
           \A c \in Customers : wallet'[c] = wallet[c] + Within(CustomerOf[o] = c, credit),
           Unattributed(DriverOf[o]) + cash >= reserve
    PROVE  Balanced' /\ \A q \in Orders : HandedOver(q)' = HandedOver(q)
<1>1. \A d \in Drivers :
          SettledBy(d)' = SettledBy(d) /\ AdjustedFor(d)' = AdjustedFor(d)
  BY DEF OnlyOrder, SettledBy, AdjustedFor, Net, Signed
<1>2. \A c \in Customers :
          PaidTo(c)' = PaidTo(c) /\ AdjustedFor(c)' = AdjustedFor(c)
  BY DEF OnlyOrder, PaidTo, AdjustedFor, Net, Signed
<1>3. \A q \in Orders : HandedOver(q)' = HandedOver(q)
  BY DEF OnlyOrder, HandedOver
<1>4. ASSUME NEW d \in Drivers
      PROVE  /\ CashLedgerNet(d)' - CashLedgerNet(d) = account'[d] - account[d]
             /\ CashLedgerNet(d)' \in Int
             /\ account'[d] - AttributedOutstanding(d)' >= 0
  <2>1. /\ CollectionsOf(d) \in Int /\ SettledBy(d) \in Int /\ AdjustedFor(d) \in Int
        /\ AttributedOutstanding(d) \in Int /\ account[d] \in Int
    BY OrderSumsAreInts, OtherSumsAreInts, LedgersAreInts
  <2>2. Within(DriverOf[o] = d, cash) \in Int /\ Within(DriverOf[o] = d, reserve) \in Int
    BY DEF Within
  <2>3. CashLedgerNet(d) = CollectionsOf(d) - SettledBy(d) + AdjustedFor(d)
    BY LedgersAreInts
  <2>4. CashLedgerNet(d)' = CollectionsOf(d)' - SettledBy(d) + AdjustedFor(d)
    BY <1>1, LedgersNext
  <2>5. CollectionsOf(d)' = CollectionsOf(d) + Within(DriverOf[o] = d, cash)
    BY OrderSumsMove
  <2>6. AttributedOutstanding(d)' =
            AttributedOutstanding(d) + Within(DriverOf[o] = d, reserve)
    BY OrderSumsMove
  <2>7. account[d] - AttributedOutstanding(d) >= 0
    BY LedgersAreInts DEF Balanced, ReservedCashIsHeld
  <2>8. CASE DriverOf[o] = d
    <3>1. account[d] - AttributedOutstanding(d) + cash >= reserve
      BY <2>8, LedgersAreInts
    <3> QED BY <2>1, <2>3, <2>4, <2>5, <2>6, <2>8, <3>1 DEF Within
  <2>9. CASE DriverOf[o] # d
    BY <2>1, <2>3, <2>4, <2>5, <2>6, <2>7, <2>9 DEF Within
  <2> QED BY <2>8, <2>9
<1>5. ASSUME NEW c \in Customers
      PROVE  /\ WalletLedgerNet(c)' - WalletLedgerNet(c) = wallet'[c] - wallet[c]
             /\ WalletLedgerNet(c)' \in Int
  <2>1. /\ CreditsOf(c) \in Int /\ PaidTo(c) \in Int /\ AdjustedFor(c) \in Int
        /\ wallet[c] \in Int
    BY OrderSumsAreInts, OtherSumsAreInts, LedgersAreInts
  <2>2. Within(CustomerOf[o] = c, credit) \in Int
    BY DEF Within
  <2>3. WalletLedgerNet(c) = CreditsOf(c) - PaidTo(c) + AdjustedFor(c)
    BY LedgersAreInts
  <2>4. WalletLedgerNet(c)' = CreditsOf(c)' - PaidTo(c) + AdjustedFor(c)
    BY <1>2, LedgersNext
  <2>5. CreditsOf(c)' = CreditsOf(c) + Within(CustomerOf[o] = c, credit)
    BY OrderSumsMove
  <2> QED BY <2>1, <2>2, <2>3, <2>4, <2>5
<1>6. Balanced'
  BY <1>4, <1>5, BalancesMove
<1> QED BY <1>3, <1>6

LEMMA OrderStepAddsUp ==
    ASSUME TypeOK, TypeOK', AddsUp, NEW o \in Orders, OnlyOrder(o),
           NEW cash \in Int, NEW credit \in Int, NEW reserve \in Int,
           OrderAdds(o, cash, credit, reserve),
           \A d \in Drivers : account'[d] = account[d] + Within(DriverOf[o] = d, cash),
           \A c \in Customers : wallet'[c] = wallet[c] + Within(CustomerOf[o] = c, credit),
           Unattributed(DriverOf[o]) + cash >= reserve,
           releases'[o].allocated = releases[o].allocated
    PROVE  AddsUp'
<1>1. Balanced
  BY DEF AddsUp, Balanced
<1>2. Balanced' /\ \A q \in Orders : HandedOver(q)' = HandedOver(q)
  BY <1>1, OrderStepBalances
<1>3. \A q \in Orders : releases'[q].allocated = releases[q].allocated
  BY DEF OnlyOrder
<1>4. \A q \in Orders : releases'[q].allocated = HandedOver(q)'
  BY <1>2, <1>3 DEF AddsUp
<1>5. BalancesEqualLedgers' /\ ReservedCashIsHeld'
  BY <1>2 DEF Balanced
<1> QED BY <1>4, <1>5 DEF AddsUp

\* A balance that is credited or debited moves by the amount, the others stay.
LEMMA AccountMoves ==
    ASSUME TypeOK, NEW w \in Drivers, NEW n \in Nat
    PROVE  /\ \A d \in Drivers : Credit(account, w, n)[d] = account[d] + Within(w = d, n)
           /\ \A d \in Drivers : Debit(account, w, n)[d] = account[d] + Within(w = d, 0 - n)
BY ConstantsAssumption DEF TypeOK, Credit, Debit, Within, Balances

LEMMA AccountStays ==
    ASSUME TypeOK, NEW w \in Drivers
    PROVE  \A d \in Drivers : account[d] = account[d] + Within(w = d, 0)
BY ConstantsAssumption DEF TypeOK, Within, Balances

LEMMA WalletMoves ==
    ASSUME TypeOK, NEW w \in Customers, NEW n \in Nat
    PROVE  /\ \A c \in Customers : Credit(wallet, w, n)[c] = wallet[c] + Within(w = c, n)
           /\ \A c \in Customers : Debit(wallet, w, n)[c] = wallet[c] + Within(w = c, 0 - n)
BY ConstantsAssumption DEF TypeOK, Credit, Debit, Within, Balances

LEMMA WalletStays ==
    ASSUME TypeOK, NEW w \in Customers
    PROVE  \A c \in Customers : wallet[c] = wallet[c] + Within(w = c, 0)
BY ConstantsAssumption DEF TypeOK, Within, Balances

LEMMA RowNets ==
    /\ Net(NoRow) = 0
    /\ \A n \in Nat : Net(PostedRow(n)) = n
    /\ \A r \in Row : Net(ReversedRow(r)) = 0
BY DEF Net, NoRow, PostedRow, ReversedRow, Row

\* Cash position facts every order's step uses.
LEMMA PositionFacts ==
    ASSUME Sound, NEW o \in Orders
    PROVE  /\ TypeOK /\ AddsUp
           /\ DriverOf[o] \in Drivers /\ CustomerOf[o] \in Customers
           /\ releases[o] \in Release /\ rows[o] \in OrderRows /\ orders[o] \in Order
           /\ Unattributed(DriverOf[o]) \in Int /\ Unattributed(DriverOf[o]) >= 0
           /\ ReleaseCoherent(o) /\ RowsFit(o)
<1>1. TypeOK /\ AddsUp
  BY DEF Sound, Coherent
<1>2. DriverOf[o] \in Drivers /\ CustomerOf[o] \in Customers
  BY ConstantsAssumption
<1>3. Unattributed(DriverOf[o]) \in Int
  BY <1>1, <1>2, LedgersAreInts, OrderSumsAreInts
<1>4. Unattributed(DriverOf[o]) >= 0
  BY <1>1, <1>2 DEF AddsUp, ReservedCashIsHeld
<1>5. ReleaseCoherent(o) /\ RowsFit(o)
  BY DEF Sound, Coherent
<1> QED BY <1>1, <1>2, <1>3, <1>4, <1>5 DEF TypeOK

\* An order that was not delivered has no release and no rows.
LEMMA Undelivered ==
    ASSUME Sound, NEW o \in Orders, ~orders[o].delivered
    PROVE  releases[o] = NoRelease /\ rows[o] = NoRows
BY PositionFacts DEF RowsFit, ReleaseCoherent, ReleaseMatchesOrder, OrderMatchesRelease

LEMMA DeliverOnSettlementAddsUp ==
    ASSUME Sound, TypeOK', NEW o \in Orders, NEW actual \in Collected,
           DeliverOnSettlement(o, actual)
    PROVE  AddsUp'
<1>0. actual \in Nat
  BY ConstantsAssumption DEF Collected
<1>1. rows[o] = NoRows /\ releases[o] = NoRelease
  BY Undelivered DEF DeliverOnSettlement
<1>2. OnlyOrder(o)
  BY DEF DeliverOnSettlement, OnlyOrder
<1>3. /\ rows'[o] = CustodyRows(actual, "DRIVER_CASH")
      /\ releases'[o].status = "PENDING" /\ releases'[o].collection = actual
      /\ releases'[o].allocated = 0
      /\ actual > 0
  BY PositionFacts DEF DeliverOnSettlement, TypeOK
<1>3a. account' = Credit(account, DriverOf[o], actual) /\ wallet' = wallet
  BY DEF DeliverOnSettlement
<1>4. /\ rows'[o].collection = [state |-> "POSTED", amount |-> actual]
      /\ rows'[o].credit = NoRow
  BY <1>3 DEF CustodyRows, NoRows, PostedRow
<1>5. /\ Net(rows[o].collection) = 0 /\ Net(rows[o].credit) = 0
      /\ Reserved(releases[o], rows[o]) = 0
  BY <1>1 DEF Net, NoRows, NoRow, Reserved, Holds, NoRelease
<1>6. /\ Net(rows'[o].collection) = actual /\ Net(rows'[o].credit) = 0
      /\ Reserved(releases'[o], rows'[o]) = actual
  BY <1>0, <1>3, <1>4 DEF Net, NoRow, Reserved, Holds, Owing
<1>7. OrderAdds(o, actual, 0, actual)
  BY <1>0, <1>5, <1>6 DEF OrderAdds
<1>8. \A d \in Drivers : account'[d] = account[d] + Within(DriverOf[o] = d, actual)
  BY <1>0, <1>3a, PositionFacts, AccountMoves
<1>9. \A c \in Customers : wallet'[c] = wallet[c] + Within(CustomerOf[o] = c, 0)
  BY <1>3a, PositionFacts, WalletStays
<1>10. releases'[o].allocated = releases[o].allocated
  BY <1>1, <1>3 DEF NoRelease
<1>11. Unattributed(DriverOf[o]) + actual >= actual
  BY <1>0, PositionFacts
<1>12. TypeOK /\ AddsUp /\ actual \in Int /\ 0 \in Int
  BY <1>0, PositionFacts
<1> QED BY <1>2, <1>7, <1>8, <1>9, <1>10, <1>11, <1>12, OrderStepAddsUp

LEMMA DeliverImmediatelyAddsUp ==
    ASSUME Sound, TypeOK', NEW o \in Orders, NEW actual \in Collected, NEW bypass \in BOOLEAN,
           DeliverImmediately(o, actual, bypass)
    PROVE  AddsUp'
<1> DEFINE route == CollectionRoute(actual, bypass)
           cash == CollectedCash(actual, route)
           exact == actual = AmountToCollect(o)
           owed == IF exact THEN ExactPlan(o).wallet ELSE 0
<1>0. actual \in Nat /\ cash \in Nat /\ owed \in Nat
  BY ConstantsAssumption, PlanTyping DEF Collected, CollectedCash, Plan
<1>1. rows[o] = NoRows /\ releases[o] = NoRelease
  BY Undelivered DEF DeliverImmediately
<1>2. OnlyOrder(o)
  BY DEF DeliverImmediately, OnlyOrder
<1>3. /\ rows'[o] = IF exact THEN WithPostings(CustodyRows(actual, route), ExactPlan(o))
                    ELSE CustodyRows(actual, route)
      /\ releases' = releases
      /\ account' = Credit(account, DriverOf[o], cash)
      /\ wallet' = Credit(wallet, CustomerOf[o], owed)
  BY PositionFacts DEF DeliverImmediately, TypeOK
<1>4. rows'[o].collection = IF route = "DRIVER_CASH" THEN PostedRow(actual) ELSE NoRow
  BY <1>3 DEF CustodyRows, NoRows, WithPostings
<1>5. rows'[o].credit = IF exact THEN PostedRow(ExactPlan(o).wallet) ELSE NoRow
  BY <1>3 DEF CustodyRows, NoRows, WithPostings
<1> HIDE DEF route
<1>6. Net(rows'[o].collection) = cash
  BY <1>0, <1>4, RowNets DEF CollectedCash
<1> HIDE DEF cash, exact
<1>7. Net(rows'[o].credit) = owed
  BY <1>0, <1>5, RowNets
<1> HIDE DEF owed
<1>8. /\ Net(rows[o].collection) = 0 /\ Net(rows[o].credit) = 0
      /\ Reserved(releases[o], rows[o]) = 0 /\ Reserved(releases'[o], rows'[o]) = 0
  BY <1>1, <1>3 DEF Net, NoRows, NoRow, Reserved, Holds, NoRelease
<1>9. OrderAdds(o, cash, owed, 0)
  BY <1>0, <1>6, <1>7, <1>8 DEF OrderAdds
<1>10. \A d \in Drivers : account'[d] = account[d] + Within(DriverOf[o] = d, cash)
  BY <1>0, <1>3, PositionFacts, AccountMoves
<1>11. \A c \in Customers : wallet'[c] = wallet[c] + Within(CustomerOf[o] = c, owed)
  BY <1>0, <1>3, PositionFacts, WalletMoves
<1>12. releases'[o].allocated = releases[o].allocated
  BY <1>3
<1>13. Unattributed(DriverOf[o]) + cash >= 0
  BY <1>0, PositionFacts
<1>14. TypeOK /\ AddsUp /\ cash \in Int /\ owed \in Int /\ 0 \in Int
  BY <1>0, PositionFacts
<1> QED BY <1>2, <1>9, <1>10, <1>11, <1>12, <1>13, <1>14, OrderStepAddsUp

LEMMA ResolveImmediatelyAddsUp ==
    ASSUME Sound, TypeOK', NEW o \in Orders, NEW plan \in CandidatePlans,
           ResolveImmediately(o, plan)
    PROVE  AddsUp'
<1>0. plan.wallet \in Nat
  BY PlanTyping DEF Plan
<1>1. OnlyOrder(o)
  BY DEF ResolveImmediately, OnlyOrder
<1>2. /\ rows'[o] = WithPostings(rows[o], plan)
      /\ releases' = releases /\ account' = account
      /\ wallet' = Credit(wallet, CustomerOf[o], plan.wallet)
      /\ orders[o].needsReview
  BY DEF ResolveImmediately, ReviewPending, TypeOK, Sound, Coherent
<1>3. rows[o].credit = NoRow
  BY <1>2, PositionFacts DEF RowsFit
<1>4. rows'[o].collection = rows[o].collection /\ rows'[o].credit = PostedRow(plan.wallet)
  BY <1>2, PositionFacts DEF WithPostings, OrderRows
<1>5. Net(rows[o].collection) \in Int /\ Reserved(releases[o], rows[o]) \in Int
  BY PositionFacts, NetIsNat DEF OrderRows, Reserved, Owing, Release
<1>6. Reserved(releases'[o], rows'[o]) = Reserved(releases[o], rows[o])
  BY <1>2, <1>4 DEF Reserved, Holds
<1>7. Net(rows[o].credit) = 0 /\ Net(rows'[o].credit) = plan.wallet
  BY <1>0, <1>3, <1>4, RowNets
<1>8. OrderAdds(o, 0, plan.wallet, 0)
  BY <1>0, <1>4, <1>5, <1>6, <1>7 DEF OrderAdds
<1>9. \A d \in Drivers : account'[d] = account[d] + Within(DriverOf[o] = d, 0)
  BY <1>2, PositionFacts, AccountStays
<1>10. \A c \in Customers : wallet'[c] = wallet[c] + Within(CustomerOf[o] = c, plan.wallet)
  BY <1>0, <1>2, PositionFacts, WalletMoves
<1>11. Unattributed(DriverOf[o]) + 0 >= 0
  BY PositionFacts
<1>12. TypeOK /\ AddsUp /\ plan.wallet \in Int /\ 0 \in Int
  BY <1>0, PositionFacts
<1>13. releases'[o].allocated = releases[o].allocated
  BY <1>2
<1> QED BY <1>1, <1>8, <1>9, <1>10, <1>11, <1>12, <1>13, OrderStepAddsUp

LEMMA ResolveReleaseAddsUp ==
    ASSUME Sound, TypeOK', NEW o \in Orders, NEW plan \in CandidatePlans,
           ResolveReleaseDifference(o, plan)
    PROVE  AddsUp'
<1> DEFINE settled == releases[o].allocated = releases[o].collection
           owed == IF settled THEN plan.wallet ELSE 0
<1>0. owed \in Nat
  BY PlanTyping DEF Plan
<1>1. OnlyOrder(o)
  BY DEF ResolveReleaseDifference, OnlyOrder
<1>2. /\ rows'[o] = IF settled THEN WithPostings(rows[o], plan) ELSE rows[o]
      /\ account' = account
      /\ wallet' = Credit(wallet, CustomerOf[o], owed)
      /\ releases[o].status = "PENDING"
  BY DEF ResolveReleaseDifference, TypeOK, Sound, Coherent
<1>3. /\ releases'[o].allocated = releases[o].allocated
      /\ releases'[o].collection = releases[o].collection
      /\ ~settled => releases'[o].status = "PENDING"
      /\ settled => releases'[o].status = "RELEASED"
  BY PositionFacts DEF ResolveReleaseDifference, TypeOK, Release
<1>4. rows[o].credit = NoRow
  BY <1>2, PositionFacts DEF ReleaseCoherent, PostingsCoherent
<1>5. /\ rows'[o].collection = rows[o].collection
      /\ rows'[o].credit = IF settled THEN PostedRow(plan.wallet) ELSE NoRow
  BY <1>2, <1>4, PositionFacts DEF WithPostings, OrderRows
<1>6. Net(rows[o].collection) \in Int /\ Reserved(releases[o], rows[o]) \in Int
  BY PositionFacts, NetIsNat DEF OrderRows, Reserved, Owing, Release
<1>7. Reserved(releases'[o], rows'[o]) = Reserved(releases[o], rows[o])
  <2>1. CASE settled
    <3>1. releases[o].collection - releases[o].allocated = 0
      BY <2>1, PositionFacts DEF Release
    <3> QED BY <1>3, <2>1, <3>1 DEF Reserved, Holds, Owing
  <2>2. CASE ~settled
    BY <1>2, <1>3, <1>5, <2>2 DEF Reserved, Holds, Owing
  <2> QED BY <2>1, <2>2
<1> HIDE DEF settled
<1>8. Net(rows[o].credit) = 0 /\ Net(rows'[o].credit) = owed
  BY <1>0, <1>4, <1>5, RowNets
<1> HIDE DEF owed
<1>9. OrderAdds(o, 0, owed, 0)
  BY <1>0, <1>5, <1>6, <1>7, <1>8 DEF OrderAdds
<1>10. \A d \in Drivers : account'[d] = account[d] + Within(DriverOf[o] = d, 0)
  BY <1>2, PositionFacts, AccountStays
<1>11. \A c \in Customers : wallet'[c] = wallet[c] + Within(CustomerOf[o] = c, owed)
  BY <1>0, <1>2, PositionFacts, WalletMoves
<1>12. Unattributed(DriverOf[o]) + 0 >= 0
  BY PositionFacts
<1>13. TypeOK /\ AddsUp /\ owed \in Int /\ 0 \in Int
  BY <1>0, PositionFacts
<1> QED BY <1>1, <1>3, <1>9, <1>10, <1>11, <1>12, <1>13, OrderStepAddsUp

LEMMA VoidAddsUp ==
    ASSUME Sound, TypeOK', NEW o \in Orders, VoidReleaseCollection(o)
    PROVE  AddsUp'
<1> DEFINE n == releases[o].collection
<1>0. n \in Nat
  BY PositionFacts DEF Release
<1>1. OnlyOrder(o)
  BY DEF VoidReleaseCollection, VoidTo, OnlyOrder
<1>2. /\ account' = Debit(account, DriverOf[o], n) /\ wallet' = wallet
      /\ rows[o].collection = [state |-> "POSTED", amount |-> n]
      /\ releases[o].status = "PENDING" /\ releases[o].allocated = 0
  BY DEF VoidReleaseCollection, VoidTo, CollectionIntact
<1>3. /\ rows'[o].collection = ReversedRow(rows[o].collection)
      /\ rows'[o].credit = rows[o].credit
      /\ releases'[o].status = "VOIDED"
      /\ releases'[o].allocated = releases[o].allocated
  BY PositionFacts DEF VoidReleaseCollection, VoidTo, TypeOK, Release, OrderRows
<1>4. /\ Net(rows[o].collection) = n /\ Net(rows'[o].collection) = 0
  BY <1>2, <1>3 DEF Net, ReversedRow
<1>5. Reserved(releases[o], rows[o]) = n /\ Reserved(releases'[o], rows'[o]) = 0
  BY <1>0, <1>2, <1>3 DEF Reserved, Holds, Owing
<1>6. Net(rows[o].credit) \in Int /\ Net(rows'[o].credit) = Net(rows[o].credit)
  BY <1>3, PositionFacts, NetIsNat DEF OrderRows
<1> HIDE DEF n
<1>7. OrderAdds(o, 0 - n, 0, 0 - n)
  BY <1>0, <1>4, <1>5, <1>6 DEF OrderAdds
<1>8. \A d \in Drivers : account'[d] = account[d] + Within(DriverOf[o] = d, 0 - n)
  BY <1>0, <1>2, PositionFacts, AccountMoves
<1>9. \A c \in Customers : wallet'[c] = wallet[c] + Within(CustomerOf[o] = c, 0)
  BY <1>2, PositionFacts, WalletStays
<1>10. Unattributed(DriverOf[o]) + (0 - n) >= 0 - n
  BY <1>0, PositionFacts
<1>11. TypeOK /\ AddsUp /\ 0 - n \in Int /\ 0 \in Int
  BY <1>0, PositionFacts
<1> QED BY <1>1, <1>3, <1>7, <1>8, <1>9, <1>10, <1>11, OrderStepAddsUp

LEMMA ReverseReleaseAddsUp ==
    ASSUME Sound, TypeOK', NEW o \in Orders, ReverseRelease(o)
    PROVE  AddsUp'
<1> DEFINE n == releases[o].plan.wallet
<1>0. n \in Nat
  BY PositionFacts DEF Release, Plan
<1>1. OnlyOrder(o)
  BY DEF ReverseRelease, OnlyOrder
<1>2. /\ account' = account /\ wallet' = Debit(wallet, CustomerOf[o], n)
      /\ rows[o].credit = PostedRow(n)
      /\ releases[o].status = "RELEASED"
  BY DEF ReverseRelease, PostingsIntact
<1>3. /\ rows'[o].collection = rows[o].collection
      /\ rows'[o].credit = ReversedRow(rows[o].credit)
      /\ releases'[o].status = "RELEASE_REVERSED"
      /\ releases'[o].allocated = releases[o].allocated
  BY PositionFacts DEF ReverseRelease, WithPostingsReversed, TypeOK, Release, OrderRows
<1>4. Net(rows[o].credit) = n /\ Net(rows'[o].credit) = 0
  BY <1>0, <1>2, <1>3, PositionFacts, RowNets DEF OrderRows
<1>5. Reserved(releases[o], rows[o]) = 0 /\ Reserved(releases'[o], rows'[o]) = 0
  BY <1>2, <1>3 DEF Reserved, Holds
<1>6. /\ Net(rows[o].collection) \in Int
      /\ Net(rows'[o].collection) = Net(rows[o].collection)
  BY <1>3, PositionFacts, NetIsNat DEF OrderRows
<1> HIDE DEF n
<1>7. OrderAdds(o, 0, 0 - n, 0)
  BY <1>0, <1>4, <1>5, <1>6 DEF OrderAdds
<1>8. \A d \in Drivers : account'[d] = account[d] + Within(DriverOf[o] = d, 0)
  BY <1>2, PositionFacts, AccountStays
<1>9. \A c \in Customers : wallet'[c] = wallet[c] + Within(CustomerOf[o] = c, 0 - n)
  BY <1>0, <1>2, PositionFacts, WalletMoves
<1>10. Unattributed(DriverOf[o]) + 0 >= 0
  BY PositionFacts
<1>11. TypeOK /\ AddsUp /\ 0 - n \in Int /\ 0 \in Int
  BY <1>0, PositionFacts
<1> QED BY <1>1, <1>3, <1>7, <1>8, <1>9, <1>10, <1>11, OrderStepAddsUp

LEMMA ReverseCollectionAddsUp ==
    ASSUME Sound, TypeOK', NEW o \in Orders, ReverseCollection(o)
    PROVE  AddsUp'
<1> DEFINE n == rows[o].collection.amount
<1>0. n \in Nat
  BY PositionFacts DEF OrderRows, Row
<1>1. OnlyOrder(o)
  BY DEF ReverseCollection, OnlyOrder
<1>2. /\ account' = Debit(account, DriverOf[o], n) /\ wallet' = wallet
      /\ rows[o].collection.state = "POSTED"
      /\ releases[o].status = "NONE" /\ releases' = releases
      /\ n <= Unattributed(DriverOf[o])
  BY DEF ReverseCollection, DebitWithinUnattributed
<1>3. /\ rows'[o].collection = ReversedRow(rows[o].collection)
      /\ rows'[o].credit = rows[o].credit
  BY PositionFacts DEF ReverseCollection, TypeOK, OrderRows
<1>4. Net(rows[o].collection) = n /\ Net(rows'[o].collection) = 0
  BY <1>2, <1>3, PositionFacts, RowNets DEF Net, OrderRows
<1>5. Reserved(releases[o], rows[o]) = 0 /\ Reserved(releases'[o], rows'[o]) = 0
  BY <1>2 DEF Reserved, Holds
<1>6. Net(rows[o].credit) \in Int /\ Net(rows'[o].credit) = Net(rows[o].credit)
  BY <1>3, PositionFacts, NetIsNat DEF OrderRows
<1> HIDE DEF n
<1>7. OrderAdds(o, 0 - n, 0, 0)
  BY <1>0, <1>4, <1>5, <1>6 DEF OrderAdds
<1>8. \A d \in Drivers : account'[d] = account[d] + Within(DriverOf[o] = d, 0 - n)
  BY <1>0, <1>2, PositionFacts, AccountMoves
<1>9. \A c \in Customers : wallet'[c] = wallet[c] + Within(CustomerOf[o] = c, 0)
  BY <1>2, PositionFacts, WalletStays
<1>10. Unattributed(DriverOf[o]) + (0 - n) >= 0
  BY <1>0, <1>2, PositionFacts
<1>11. TypeOK /\ AddsUp /\ 0 - n \in Int /\ 0 \in Int
  BY <1>0, PositionFacts
<1>12. releases'[o].allocated = releases[o].allocated
  BY <1>2
<1> QED BY <1>1, <1>7, <1>8, <1>9, <1>10, <1>11, <1>12, OrderStepAddsUp

LEMMA ReverseWalletCreditAddsUp ==
    ASSUME Sound, TypeOK', NEW o \in Orders, ReverseWalletCredit(o)
    PROVE  AddsUp'
<1> DEFINE n == rows[o].credit.amount
<1>0. n \in Nat
  BY PositionFacts DEF OrderRows, Row
<1>1. OnlyOrder(o)
  BY DEF ReverseWalletCredit, OnlyOrder
<1>2. /\ wallet' = Debit(wallet, CustomerOf[o], n) /\ account' = account
      /\ rows[o].credit.state = "POSTED" /\ releases' = releases
  BY DEF ReverseWalletCredit
<1>3. /\ rows'[o].credit = ReversedRow(rows[o].credit)
      /\ rows'[o].collection = rows[o].collection
  BY PositionFacts DEF ReverseWalletCredit, TypeOK, OrderRows
<1>4. Net(rows[o].credit) = n /\ Net(rows'[o].credit) = 0
  BY <1>2, <1>3, PositionFacts, RowNets DEF Net, OrderRows
<1>5. /\ Reserved(releases[o], rows[o]) \in Int
      /\ Reserved(releases'[o], rows'[o]) = Reserved(releases[o], rows[o])
  BY <1>2, <1>3, PositionFacts DEF Reserved, Holds, Owing, Release
<1>6. /\ Net(rows[o].collection) \in Int
      /\ Net(rows'[o].collection) = Net(rows[o].collection)
  BY <1>3, PositionFacts, NetIsNat DEF OrderRows
<1> HIDE DEF n
<1>7. OrderAdds(o, 0, 0 - n, 0)
  BY <1>0, <1>4, <1>5, <1>6 DEF OrderAdds
<1>8. \A d \in Drivers : account'[d] = account[d] + Within(DriverOf[o] = d, 0)
  BY <1>2, PositionFacts, AccountStays
<1>9. \A c \in Customers : wallet'[c] = wallet[c] + Within(CustomerOf[o] = c, 0 - n)
  BY <1>0, <1>2, PositionFacts, WalletMoves
<1>10. Unattributed(DriverOf[o]) + 0 >= 0
  BY PositionFacts
<1>11. TypeOK /\ AddsUp /\ 0 - n \in Int /\ 0 \in Int
  BY <1>0, PositionFacts
<1>12. releases'[o].allocated = releases[o].allocated
  BY <1>2
<1> QED BY <1>1, <1>7, <1>8, <1>9, <1>10, <1>11, <1>12, OrderStepAddsUp

LEMMA ReverseRevenueAddsUp ==
    ASSUME Sound, TypeOK', NEW o \in Orders, ReverseProductRevenue(o) \/ ReverseFeeRevenue(o)
    PROVE  AddsUp'
<1>1. OnlyOrder(o)
  <2>1. CASE ReverseProductRevenue(o)
    BY <2>1 DEF ReverseProductRevenue, OnlyOrder, Sound, Coherent, TypeOK
  <2>2. CASE ReverseFeeRevenue(o)
    BY <2>2 DEF ReverseFeeRevenue, OnlyOrder, Sound, Coherent, TypeOK
  <2> QED BY <2>1, <2>2
<1>2. account' = account /\ wallet' = wallet /\ releases' = releases
  BY DEF ReverseProductRevenue, ReverseFeeRevenue
<1>3. rows'[o].credit = rows[o].credit /\ rows'[o].collection = rows[o].collection
  <2>1. rows \in [Orders -> OrderRows]
    BY PositionFacts DEF TypeOK
  <2>2. CASE ReverseProductRevenue(o)
    BY <2>1, <2>2 DEF ReverseProductRevenue, OrderRows
  <2>3. CASE ReverseFeeRevenue(o)
    BY <2>1, <2>3 DEF ReverseFeeRevenue, OrderRows
  <2> QED BY <2>2, <2>3
<1>4. /\ Reserved(releases[o], rows[o]) \in Int
      /\ Reserved(releases'[o], rows'[o]) = Reserved(releases[o], rows[o])
  BY <1>2, <1>3, PositionFacts DEF Reserved, Holds, Owing, Release
<1>5. /\ Net(rows[o].collection) \in Int /\ Net(rows[o].credit) \in Int
  BY PositionFacts, NetIsNat DEF OrderRows
<1>6. OrderAdds(o, 0, 0, 0)
  BY <1>3, <1>4, <1>5 DEF OrderAdds
<1>7. \A d \in Drivers : account'[d] = account[d] + Within(DriverOf[o] = d, 0)
  BY <1>2, PositionFacts, AccountStays
<1>8. \A c \in Customers : wallet'[c] = wallet[c] + Within(CustomerOf[o] = c, 0)
  BY <1>2, PositionFacts, WalletStays
<1>9. Unattributed(DriverOf[o]) + 0 >= 0
  BY PositionFacts
<1>10. TypeOK /\ AddsUp /\ 0 \in Int
  BY PositionFacts
<1>11. releases'[o].allocated = releases[o].allocated
  BY <1>2
<1> QED BY <1>1, <1>6, <1>7, <1>8, <1>9, <1>10, <1>11, OrderStepAddsUp

-----------------------------------------------------------------------------
(* Steps over one settlement                                                *)

\* What a settlement takes from a driver's account, and hands over for an order.
Takes(st, d) == IF st.driver = d THEN Net(st) - st.shortfall ELSE 0
Gives(st, o) == IF st.state = "POSTED" THEN st.alloc[o] ELSE 0

\* A step over one settlement.
OnlySettlement(s) ==
    /\ \A t \in Settlements : t # s => settlements'[t] = settlements[t]
    /\ UNCHANGED <<adjustments, payouts>>

LEMMA SettlementStepTallies ==
    ASSUME TypeOK, TypeOK', AddsUp, NEW s \in Settlements, OnlySettlement(s),
           \A o \in Orders : releases'[o].allocated =
               releases[o].allocated + Gives(settlements'[s], o) - Gives(settlements[s], o)
    PROVE  \A o \in Orders : releases'[o].allocated = HandedOver(o)'
<1> SUFFICES ASSUME NEW o \in Orders PROVE releases'[o].allocated = HandedOver(o)'
  OBVIOUS
<1>1. \A t \in Settlements : t # s => settlements'[t] = settlements[t]
  BY DEF OnlySettlement
<1>2. HandedOver(o)' =
          HandedOver(o) - (IF settlements[s].state = "POSTED" THEN settlements[s].alloc[o] ELSE 0)
          + (IF settlements'[s].state = "POSTED" THEN settlements'[s].alloc[o] ELSE 0)
  BY <1>1, HandedMoves
<1>3. HandedOver(o)' = HandedOver(o) - Gives(settlements[s], o) + Gives(settlements'[s], o)
  BY <1>2 DEF Gives
<1>4. Gives(settlements[s], o) \in Int /\ Gives(settlements'[s], o) \in Int
  BY DEF Gives, TypeOK, Settlement
<1>5. HandedOver(o) \in Int /\ releases[o].allocated = HandedOver(o)
  BY OtherSumsAreInts DEF AddsUp
<1> QED BY <1>3, <1>4, <1>5

\* The settlement takes n from the account of d and moves what is reserved
\* there by r; the credits it releases are what the wallets gain.
LEMMA SettlementStepBalances ==
    ASSUME TypeOK, TypeOK', Balanced, NEW s \in Settlements, OnlySettlement(s),
           NEW d \in Drivers, NEW n \in Int, NEW r \in Int,
           \A e \in Drivers :
               Takes(settlements'[s], e) = Takes(settlements[s], e) + Within(d = e, n),
           \A e \in Drivers : account'[e] = account[e] + Within(d = e, 0 - n),
           \A e \in Drivers : CollectionsOf(e)' = CollectionsOf(e),
           \A e \in Drivers :
               AttributedOutstanding(e)' = AttributedOutstanding(e) + Within(d = e, r),
           \A c \in Customers : CreditsOf(c)' = CreditsOf(c) + (wallet'[c] - wallet[c]),
           Unattributed(d) - n >= r
    PROVE  Balanced'
<1>1. \A e \in Drivers : AdjustedFor(e)' = AdjustedFor(e)
  BY DEF OnlySettlement, AdjustedFor, Net, Signed
<1>2. \A c \in Customers : PaidTo(c)' = PaidTo(c) /\ AdjustedFor(c)' = AdjustedFor(c)
  BY DEF OnlySettlement, PaidTo, AdjustedFor, Net, Signed
<1>3. ASSUME NEW e \in Drivers
      PROVE  SettledBy(e)' = SettledBy(e) + Within(d = e, n)
  <2>1. \A t \in Settlements : t # s => settlements'[t] = settlements[t]
    BY DEF OnlySettlement
  <2>2. SettledBy(e)' =
            SettledBy(e)
            - (IF settlements[s].driver = e THEN Net(settlements[s]) - settlements[s].shortfall ELSE 0)
            + (IF settlements'[s].driver = e THEN Net(settlements'[s]) - settlements'[s].shortfall ELSE 0)
    BY <2>1, SettledMoves
  <2>3. SettledBy(e)' = SettledBy(e) - Takes(settlements[s], e) + Takes(settlements'[s], e)
    BY <2>2 DEF Takes
  <2>4. Takes(settlements[s], e) \in Int /\ SettledBy(e) \in Int /\ Within(d = e, n) \in Int
    BY NetIsNat, OtherSumsAreInts DEF Takes, TypeOK, Within
  <2> QED BY <2>3, <2>4
<1>4. ASSUME NEW e \in Drivers
      PROVE  /\ CashLedgerNet(e)' - CashLedgerNet(e) = account'[e] - account[e]
             /\ CashLedgerNet(e)' \in Int
             /\ account'[e] - AttributedOutstanding(e)' >= 0
  <2>1. /\ CollectionsOf(e) \in Int /\ SettledBy(e) \in Int /\ AdjustedFor(e) \in Int
        /\ AttributedOutstanding(e) \in Int /\ account[e] \in Int
    BY OrderSumsAreInts, OtherSumsAreInts, LedgersAreInts
  <2>2. CashLedgerNet(e) = CollectionsOf(e) - SettledBy(e) + AdjustedFor(e)
    BY LedgersAreInts
  <2>3. CashLedgerNet(e)' = CollectionsOf(e) - SettledBy(e)' + AdjustedFor(e)
    BY <1>1, LedgersNext
  <2>4. SettledBy(e)' = SettledBy(e) + Within(d = e, n)
    BY <1>3
  <2>5. account[e] - AttributedOutstanding(e) >= 0
    BY LedgersAreInts DEF Balanced, ReservedCashIsHeld
  <2>6. AttributedOutstanding(e)' = AttributedOutstanding(e) + Within(d = e, r)
    OBVIOUS
  <2>7. account'[e] = account[e] + Within(d = e, 0 - n)
    OBVIOUS
  <2>8. CASE d = e
    <3>1. account[e] - AttributedOutstanding(e) - n >= r
      BY <2>8, LedgersAreInts
    <3> QED BY <2>1, <2>2, <2>3, <2>4, <2>6, <2>7, <2>8, <3>1 DEF Within
  <2>9. CASE d # e
    BY <2>1, <2>2, <2>3, <2>4, <2>5, <2>6, <2>7, <2>9 DEF Within
  <2> QED BY <2>8, <2>9
<1>5. ASSUME NEW c \in Customers
      PROVE  /\ WalletLedgerNet(c)' - WalletLedgerNet(c) = wallet'[c] - wallet[c]
             /\ WalletLedgerNet(c)' \in Int
  <2>1. /\ CreditsOf(c) \in Int /\ PaidTo(c) \in Int /\ AdjustedFor(c) \in Int
        /\ wallet[c] \in Int /\ wallet'[c] \in Int
    BY OrderSumsAreInts, OtherSumsAreInts, LedgersAreInts, LedgersNext
  <2>2. WalletLedgerNet(c) = CreditsOf(c) - PaidTo(c) + AdjustedFor(c)
    BY LedgersAreInts
  <2>3. WalletLedgerNet(c)' = CreditsOf(c)' - PaidTo(c) + AdjustedFor(c)
    BY <1>2, LedgersNext
  <2>4. CreditsOf(c)' = CreditsOf(c) + (wallet'[c] - wallet[c])
    OBVIOUS
  <2> QED BY <2>1, <2>2, <2>3, <2>4
<1> QED BY <1>4, <1>5, BalancesMove

\* A settlement step that leaves the orders and their releases alone.
LEMMA SettlementOnlyAddsUp ==
    ASSUME TypeOK, TypeOK', AddsUp, NEW s \in Settlements, OnlySettlement(s),
           UNCHANGED <<rows, releases, wallet>>,
           NEW d \in Drivers, NEW n \in Int,
           \A e \in Drivers :
               Takes(settlements'[s], e) = Takes(settlements[s], e) + Within(d = e, n),
           \A e \in Drivers : account'[e] = account[e] + Within(d = e, 0 - n),
           Unattributed(d) - n >= 0,
           \A o \in Orders : Gives(settlements'[s], o) = Gives(settlements[s], o)
    PROVE  AddsUp'
<1>1. Balanced
  BY DEF AddsUp, Balanced
<1>2. \A e \in Drivers : CollectionsOf(e)' = CollectionsOf(e)
  BY DEF CollectionsOf, Net
<1>3. \A e \in Drivers :
          AttributedOutstanding(e)' = AttributedOutstanding(e) + Within(d = e, 0)
  <2>1. \A e \in Drivers : AttributedOutstanding(e)' = AttributedOutstanding(e)
    BY DEF AttributedOutstanding, HoldingReleases, HoldsCash, Outstanding
  <2>2. \A e \in Drivers : AttributedOutstanding(e) \in Int
    BY OrderSumsAreInts
  <2> QED BY <2>1, <2>2 DEF Within
<1>4. \A c \in Customers : CreditsOf(c)' = CreditsOf(c) + (wallet'[c] - wallet[c])
  <2>1. \A c \in Customers : CreditsOf(c)' = CreditsOf(c)
    BY DEF CreditsOf, Net
  <2>2. \A c \in Customers : CreditsOf(c) \in Int /\ wallet[c] \in Int
    BY OrderSumsAreInts, LedgersAreInts
  <2> QED BY <2>1, <2>2
<1>5. 0 \in Int
  OBVIOUS
<1>6. Balanced'
  BY <1>1, <1>2, <1>3, <1>4, <1>5, SettlementStepBalances
<1>7. \A o \in Orders : releases'[o].allocated = HandedOver(o)'
  <2>1. \A o \in Orders : Gives(settlements[s], o) \in Int /\ releases[o].allocated \in Int
    BY DEF Gives, TypeOK, Settlement, Release
  <2>2. \A o \in Orders : releases'[o].allocated =
            releases[o].allocated + Gives(settlements'[s], o) - Gives(settlements[s], o)
    BY <2>1
  <2> QED BY <2>2, SettlementStepTallies
<1> QED BY <1>6, <1>7 DEF Balanced, AddsUp

LEMMA SoundFacts ==
    ASSUME Sound
    PROVE  /\ TypeOK /\ AddsUp /\ Coherent
           /\ \A s \in Settlements : SettlementFits(s) /\ SettlementCoherent(s)
           /\ \A d \in Drivers : Unattributed(d) \in Int /\ Unattributed(d) >= 0
<1>1. TypeOK /\ AddsUp /\ Coherent
  BY DEF Sound, Coherent
<1>2. \A d \in Drivers : Unattributed(d) \in Int
  BY <1>1, LedgersAreInts, OrderSumsAreInts
<1>3. \A d \in Drivers : Unattributed(d) >= 0
  BY <1>1 DEF AddsUp, ReservedCashIsHeld
<1>4. \A s \in Settlements : SettlementFits(s) /\ SettlementCoherent(s)
  BY DEF Sound, Coherent
<1> QED BY <1>1, <1>2, <1>3, <1>4

\* A settlement that was not created took nothing and gave nothing.
LEMMA NotCreated ==
    ASSUME Sound, NEW s \in Settlements, settlements[s].state = "ABSENT"
    PROVE  /\ \A e \in Drivers : Takes(settlements[s], e) = 0
           /\ \A o \in Orders : Gives(settlements[s], o) = 0
<1>1. settlements[s].shortfall = 0
  BY SoundFacts DEF SettlementFits
<1> QED BY <1>1 DEF Takes, Gives, Net

LEMMA LegacyAddsUp ==
    ASSUME Sound, TypeOK', NEW s \in Settlements, NEW d \in Drivers, NEW amount \in Manual,
           CreateLegacySettlement(s, d, amount)
    PROVE  AddsUp'
<1>0. amount \in Nat
  BY ConstantsAssumption DEF Manual
<1>1. TypeOK /\ AddsUp
  BY SoundFacts
<1>2. /\ settlements' = [settlements EXCEPT ![s] = NewSettlement(d, amount, TRUE, NoAllocations)]
      /\ account' = Debit(account, d, amount) /\ account[d] >= amount
      /\ HoldingReleases(d) = {} /\ settlements[s].state = "ABSENT"
      /\ UNCHANGED <<rows, releases, wallet, adjustments, payouts>>
  BY DEF CreateLegacySettlement, CanDebitAccount
<1>3. OnlySettlement(s)
  BY <1>1, <1>2 DEF OnlySettlement, TypeOK
<1>4. settlements'[s] = NewSettlement(d, amount, TRUE, NoAllocations)
  BY <1>1, <1>2 DEF TypeOK
<1>5. \A e \in Drivers :
          Takes(settlements'[s], e) = Takes(settlements[s], e) + Within(d = e, amount)
  <2>1. \A e \in Drivers : Takes(settlements'[s], e) = Within(d = e, amount)
    BY <1>0, <1>4 DEF NewSettlement, Takes, Net, Within
  <2>2. \A e \in Drivers : Takes(settlements[s], e) = 0
    BY <1>2, NotCreated
  <2> QED BY <1>0, <2>1, <2>2 DEF Within
<1>6. \A o \in Orders : Gives(settlements'[s], o) = Gives(settlements[s], o)
  <2>1. \A o \in Orders : Gives(settlements'[s], o) = NoAllocations[o]
    BY <1>4 DEF NewSettlement, Gives
  <2>2. \A o \in Orders : Gives(settlements[s], o) = 0
    BY <1>2, NotCreated
  <2> QED BY <2>1, <2>2 DEF NoAllocations
<1>7. \A e \in Drivers : account'[e] = account[e] + Within(d = e, 0 - amount)
  BY <1>0, <1>1, <1>2, AccountMoves
<1>8. Unattributed(d) - amount >= 0
  <2>1. AttributedOutstanding(d) = 0
    BY <1>2, SumOfNone DEF AttributedOutstanding
  <2>2. Unattributed(d) = account[d] - AttributedOutstanding(d) /\ account[d] \in Int
    BY <1>1, LedgersAreInts
  <2> QED BY <1>0, <1>2, <2>1, <2>2
<1>9. amount \in Int
  BY <1>0
<1> QED BY <1>1, <1>2, <1>3, <1>5, <1>6, <1>7, <1>8, <1>9, SettlementOnlyAddsUp

LEMMA ShortfallAddsUp ==
    ASSUME Sound, TypeOK', NEW s \in Settlements, NEW amount \in Manual,
           RecordShortfall(s, amount)
    PROVE  AddsUp'
<1> DEFINE d == settlements[s].driver
<1>0. amount \in Nat
  BY ConstantsAssumption DEF Manual
<1>1. TypeOK /\ AddsUp /\ d \in Drivers /\ settlements[s] \in Settlement
  BY SoundFacts DEF TypeOK, Settlement
<1>2. /\ settlements' = [settlements EXCEPT ![s].shortfall = @ + amount]
      /\ account' = Credit(account, d, amount)
      /\ UNCHANGED <<rows, releases, wallet, adjustments, payouts>>
  BY DEF RecordShortfall
<1>3. OnlySettlement(s)
  BY <1>1, <1>2 DEF OnlySettlement, TypeOK
<1>4. /\ settlements'[s].driver = d /\ settlements'[s].state = settlements[s].state
      /\ settlements'[s].amount = settlements[s].amount
      /\ settlements'[s].alloc = settlements[s].alloc
      /\ settlements'[s].shortfall = settlements[s].shortfall + amount
  BY <1>1, <1>2 DEF TypeOK, Settlement
<1>5. Net(settlements'[s]) = Net(settlements[s]) /\ Net(settlements[s]) \in Nat
  BY <1>1, <1>4, NetIsNat DEF Net
<1>6. settlements[s].shortfall \in Nat
  BY <1>1 DEF Settlement
<1>7. \A e \in Drivers :
          Takes(settlements'[s], e) = Takes(settlements[s], e) + Within(d = e, 0 - amount)
  BY <1>0, <1>4, <1>5, <1>6 DEF Takes, Within
<1>8. \A o \in Orders : Gives(settlements'[s], o) = Gives(settlements[s], o)
  BY <1>4 DEF Gives
<1> HIDE DEF d
<1>9. \A e \in Drivers : account'[e] = account[e] + Within(d = e, 0 - (0 - amount))
  <2>1. 0 - (0 - amount) = amount
    BY <1>0
  <2> QED BY <1>0, <1>1, <1>2, <2>1, AccountMoves
<1>10. Unattributed(d) - (0 - amount) >= 0
  BY <1>0, <1>1, SoundFacts
<1>11. 0 - amount \in Int
  BY <1>0
<1> QED BY <1>1, <1>2, <1>3, <1>7, <1>8, <1>9, <1>10, <1>11, SettlementOnlyAddsUp

\* The part of an allocation among one driver's collections.
ShareOf(alloc, e) == {o \in Allocated(alloc) : DriverOf[o] = e}

LEMMA ShareTotals ==
    ASSUME NEW alloc \in [Orders -> Nat], NEW d \in Drivers,
           \A o \in Allocated(alloc) : DriverOf[o] = d
    PROVE  /\ \A e \in Drivers : Selects(alloc, ShareOf(alloc, e), Orders)
           /\ \A e \in Drivers : SumFunctionOnSet(alloc, ShareOf(alloc, e)) = Within(d = e, AllocationTotal(alloc))
           /\ AllocationTotal(alloc) \in Int
<1>1. \A e \in Drivers : Selects(alloc, ShareOf(alloc, e), Orders)
  BY DEF Selects, ShareOf, Allocated
<1>2. \A e \in Drivers : SumFunctionOnSet(alloc, ShareOf(alloc, e)) = Within(d = e, AllocationTotal(alloc))
  <2> SUFFICES ASSUME NEW e \in Drivers
               PROVE  SumFunctionOnSet(alloc, ShareOf(alloc, e)) = Within(d = e, AllocationTotal(alloc))
    OBVIOUS
  <2>1. CASE d = e
    <3>1. ShareOf(alloc, e) = Allocated(alloc)
      BY <2>1 DEF ShareOf
    <3> QED BY <2>1, <3>1 DEF AllocationTotal, Within
  <2>2. CASE d # e
    <3>1. ShareOf(alloc, e) = {}
      BY <2>2 DEF ShareOf
    <3>2. SumFunctionOnSet(alloc, {}) = 0
      BY SumOfNone
    <3> QED BY <2>2, <3>1, <3>2 DEF Within
  <2> QED BY <2>1, <2>2
<1>3. IsFiniteSet(Orders)
  BY FiniteAssumption
<1>4. Selects(alloc, Allocated(alloc), Orders)
  BY DEF Selects, Allocated
<1>5. AllocationTotal(alloc) \in Int
  BY <1>3, <1>4, CountedAll DEF AllocationTotal
<1> QED BY <1>1, <1>2, <1>5

\* What is reserved for a driver, as a value.
ReservedFor(e, rel, r) ==
    SumFunctionOnSet([x \in Orders |-> Owing(rel[x])], {x \in Orders : DriverOf[x] = e /\ Holds(rel[x], r[x])})

LEMMA ReservedForDriver ==
    ASSUME NEW e \in Drivers
    PROVE  /\ AttributedOutstanding(e) = ReservedFor(e, releases, rows)
           /\ AttributedOutstanding(e)' = ReservedFor(e, releases', rows')
BY DEF ReservedFor, AttributedOutstanding, Outstanding, HoldingReleases, HoldsCash, Owing, Holds

\* An allocation within one driver's collections is what separates two
\* states of the releases in which each order's reserve differs by its part.
LEMMA ReservedSplits ==
    ASSUME NEW rel \in [Orders -> Release], NEW after \in [Orders -> Release], NEW r, NEW q,
           NEW alloc \in [Orders -> Nat], NEW d \in Drivers,
           \A o \in Allocated(alloc) : DriverOf[o] = d,
           \A o \in Orders : Reserved(rel[o], r[o]) = Reserved(after[o], q[o]) + alloc[o]
    PROVE  \A e \in Drivers :
               /\ ReservedFor(e, rel, r)
                    = ReservedFor(e, after, q) + Within(d = e, AllocationTotal(alloc))
               /\ ReservedFor(e, after, q) \in Int
<1> SUFFICES ASSUME NEW e \in Drivers
             PROVE  /\ ReservedFor(e, rel, r)
                         = ReservedFor(e, after, q) + Within(d = e, AllocationTotal(alloc))
                    /\ ReservedFor(e, after, q) \in Int
  OBVIOUS
<1>1. PICK f, g, P, Q :
          /\ f = [x \in Orders |-> Owing(rel[x])]
          /\ g = [x \in Orders |-> Owing(after[x])]
          /\ P = {x \in Orders : DriverOf[x] = e /\ Holds(rel[x], r[x])}
          /\ Q = {x \in Orders : DriverOf[x] = e /\ Holds(after[x], q[x])}
  OBVIOUS
<1>2. ReservedFor(e, rel, r) = SumFunctionOnSet(f, P) /\ ReservedFor(e, after, q) = SumFunctionOnSet(g, Q)
  BY <1>1 DEF ReservedFor
<1>3. \A x \in Orders : Owing(rel[x]) \in Int /\ Owing(after[x]) \in Int
  BY DEF Owing, Release
<1>4. Selects(f, P, Orders) /\ Selects(g, Q, Orders)
  BY <1>1, <1>3 DEF Selects
<1>5. \A x \in Orders : Counted(f, P, x) = IF DriverOf[x] = e THEN Reserved(rel[x], r[x]) ELSE 0
  BY <1>1 DEF Counted, Reserved
<1>6. \A x \in Orders : Counted(g, Q, x) = IF DriverOf[x] = e THEN Reserved(after[x], q[x]) ELSE 0
  BY <1>1 DEF Counted, Reserved
<1>7. \A x \in Orders : Counted(alloc, ShareOf(alloc, e), x) = IF DriverOf[x] = e THEN alloc[x] ELSE 0
  BY DEF Counted, ShareOf, Allocated
<1>8. Splits(f, P, g, Q, alloc, ShareOf(alloc, e), Orders)
  BY <1>5, <1>6, <1>7 DEF Splits
<1>9. Selects(alloc, ShareOf(alloc, e), Orders) /\ IsFiniteSet(Orders)
  BY ShareTotals, FiniteAssumption
<1>10. SumFunctionOnSet(f, P) = SumFunctionOnSet(g, Q) + SumFunctionOnSet(alloc, ShareOf(alloc, e))
  BY <1>4, <1>8, <1>9, SelectionsAdd
<1>11. SumFunctionOnSet(g, Q) \in Int
  BY <1>4, <1>9, CountedAll
<1> QED BY <1>2, <1>10, <1>11, ShareTotals

\* What a settlement credits, row by row.
LEMMA CreditsSplit ==
    ASSUME TypeOK, TypeOK', NEW R \in SUBSET Orders, NEW c \in Customers,
           \A o \in Orders : Net(rows'[o].credit) =
               Net(rows[o].credit) + Within(o \in R, releases[o].plan.wallet)
    PROVE  /\ CreditsOf(c)' = CreditsOf(c) + WalletCredits(c, R)
           /\ WalletCredits(c, R) \in Int
<1>1. PICK f, g, h, P, Q :
          /\ f = [x \in Orders |-> Net(rows[x].credit)]
          /\ g = [x \in R |-> releases[x].plan.wallet]
          /\ h = [x \in Orders |-> Net(rows'[x].credit)]
          /\ P = {x \in Orders : CustomerOf[x] = c}
          /\ Q = {x \in R : CustomerOf[x] = c}
  OBVIOUS
<1>2. CreditsOf(c) = SumFunctionOnSet(f, P)
  BY <1>1 DEF CreditsOf
<1>3. CreditsOf(c)' = SumFunctionOnSet(h, P)
  <2>1. CreditsOf(c)' =
          SumFunctionOnSet([x \in Orders |-> Net(rows'[x].credit)],
                           {x \in Orders : CustomerOf[x] = c})
    BY DEF CreditsOf, Net
  <2> QED BY <1>1, <2>1
<1>4. WalletCredits(c, R) = SumFunctionOnSet(g, Q)
  BY <1>1 DEF WalletCredits
<1>5. Selects(f, P, Orders)
  BY <1>1, NetIsNat DEF Selects, TypeOK, OrderRows
<1>6. Selects(h, P, Orders)
  BY <1>1, NetIsNat DEF Selects, TypeOK, OrderRows
<1>7. Selects(g, Q, Orders)
  BY <1>1 DEF Selects, TypeOK, Release, Plan
<1>8. Splits(h, P, f, P, g, Q, Orders)
  <2>1. \A x \in Orders : Counted(f, P, x) = IF CustomerOf[x] = c THEN Net(rows[x].credit) ELSE 0
    BY <1>1 DEF Counted
  <2>2. \A x \in Orders : Counted(h, P, x) = IF CustomerOf[x] = c THEN Net(rows'[x].credit) ELSE 0
    BY <1>1 DEF Counted
  <2>3. \A x \in Orders : Counted(g, Q, x) =
            IF CustomerOf[x] = c THEN Within(x \in R, releases[x].plan.wallet) ELSE 0
    BY <1>1 DEF Counted, Within
  <2> QED BY <2>1, <2>2, <2>3 DEF Splits
<1>9. IsFiniteSet(Orders)
  BY FiniteAssumption
<1>10. SumFunctionOnSet(h, P) = SumFunctionOnSet(f, P) + SumFunctionOnSet(g, Q)
  BY <1>5, <1>6, <1>7, <1>8, <1>9, SelectionsAdd
<1>11. SumFunctionOnSet(g, Q) \in Int
  BY <1>7, <1>9, CountedAll
<1> QED BY <1>2, <1>3, <1>4, <1>10, <1>11

LEMMA CreateOrders ==
    ASSUME Sound, NEW s \in Settlements, NEW d \in Drivers, NEW amount \in 1..BalanceLimit,
           NEW alloc \in [Orders -> Nat], NEW unattributed \in Nat,
           CreateSettlement(s, d, amount, alloc, unattributed),
           NEW o \in Orders
    PROVE  /\ releases'[o].allocated = releases[o].allocated + alloc[o]
           /\ rows'[o].collection = rows[o].collection
           /\ Reserved(releases[o], rows[o]) = Reserved(releases'[o], rows'[o]) + alloc[o]
           /\ Net(rows'[o].credit) =
                Net(rows[o].credit) + Within(o \in CompletedBy(alloc), releases[o].plan.wallet)
           /\ o \in CompletedBy(alloc) => orders[o].financial = "AWAITING_SETTLEMENT"
<1> DEFINE done == CompletedBy(alloc)
<1>0. releases[o] \in Release /\ rows[o] \in OrderRows /\ alloc[o] \in Nat
  BY PositionFacts
<1>1. releases'[o] = IF o \in done THEN [WithAllocation(o, alloc[o]) EXCEPT !.status = "RELEASED"]
                     ELSE WithAllocation(o, alloc[o])
  BY DEF CreateSettlement
<1>2. rows'[o] = IF o \in done THEN WithPostings(rows[o], releases[o].plan) ELSE rows[o]
  BY DEF CreateSettlement
<1>3. /\ releases'[o].allocated = releases[o].allocated + alloc[o]
      /\ releases'[o].collection = releases[o].collection
      /\ releases'[o].status = IF o \in done THEN "RELEASED" ELSE releases[o].status
  BY <1>0, <1>1 DEF WithAllocation, Release
<1>4. rows'[o].collection = rows[o].collection
  BY <1>0, <1>2 DEF WithPostings, OrderRows
<1>5. o \in done =>
        /\ alloc[o] > 0
        /\ releases[o].allocated + alloc[o] = releases[o].collection
        /\ releases[o].status = "PENDING"
        /\ orders[o].financial = "AWAITING_SETTLEMENT"
  <2> SUFFICES ASSUME o \in done
               PROVE  /\ alloc[o] > 0
                      /\ releases[o].allocated + alloc[o] = releases[o].collection
                      /\ releases[o].status = "PENDING"
                      /\ orders[o].financial = "AWAITING_SETTLEMENT"
    OBVIOUS
  <2>1. alloc[o] > 0 /\ releases[o].allocated + alloc[o] = releases[o].collection
    BY <1>0 DEF CompletedBy, Allocated, WithAllocation, Release
  <2>2. Releasable(o, WithAllocation(o, alloc[o]), orders[o].financial)
    BY DEF CreateSettlement
  <2>3. WithAllocation(o, alloc[o]).status = releases[o].status
    BY <1>0 DEF WithAllocation, Release
  <2> QED BY <2>1, <2>2, <2>3 DEF Releasable
<1>6. alloc[o] > 0 => releases[o].status = "PENDING" /\ rows[o].collection.state # "REVERSED"
  BY DEF CreateSettlement, AllocationAccepted, Allocated
<1>7. Reserved(releases[o], rows[o]) = Reserved(releases'[o], rows'[o]) + alloc[o]
  <2>0. /\ releases[o].allocated \in Nat /\ releases[o].collection \in Nat
    BY <1>0 DEF Release
  <2>1. CASE alloc[o] = 0
    <3>1. o \notin done
      BY <1>5, <2>1
    <3> QED BY <1>3, <1>4, <2>0, <2>1, <3>1 DEF Reserved, Holds, Owing
  <2>2. CASE alloc[o] > 0 /\ o \in done
    <3>1. Reserved(releases'[o], rows'[o]) = 0
      BY <1>3, <2>2 DEF Reserved, Holds
    <3>2. Reserved(releases[o], rows[o]) = releases[o].collection - releases[o].allocated
      BY <1>6, <2>2 DEF Reserved, Holds, Owing
    <3> QED BY <1>0, <1>5, <2>0, <2>2, <3>1, <3>2
  <2>3. CASE alloc[o] > 0 /\ o \notin done
    <3>1. Reserved(releases'[o], rows'[o]) = releases[o].collection - (releases[o].allocated + alloc[o])
      BY <1>3, <1>4, <1>6, <2>3 DEF Reserved, Holds, Owing
    <3>2. Reserved(releases[o], rows[o]) = releases[o].collection - releases[o].allocated
      BY <1>6, <2>3 DEF Reserved, Holds, Owing
    <3> QED BY <1>0, <2>0, <3>1, <3>2
  <2> QED BY <1>0, <2>1, <2>2, <2>3
<1>8. Net(rows'[o].credit) = Net(rows[o].credit) + Within(o \in done, releases[o].plan.wallet)
  <2>0. Net(rows[o].credit) \in Nat /\ releases[o].plan.wallet \in Nat
    BY <1>0, NetIsNat DEF OrderRows, Release, Plan
  <2>1. CASE o \in done
    <3>1. rows[o].credit = NoRow
      BY <1>5, <2>1, PositionFacts DEF ReleaseCoherent, PostingsCoherent
    <3>2. rows'[o].credit = PostedRow(releases[o].plan.wallet)
      BY <1>0, <1>2, <2>1 DEF WithPostings, OrderRows
    <3> QED BY <2>0, <2>1, <3>1, <3>2, RowNets DEF Within
  <2>2. CASE o \notin done
    BY <1>2, <2>0, <2>2 DEF Within
  <2> QED BY <2>1, <2>2
<1> QED BY <1>3, <1>4, <1>5, <1>7, <1>8

LEMMA CreateAddsUp ==
    ASSUME Sound, TypeOK', NEW s \in Settlements, NEW d \in Drivers, NEW amount \in 1..BalanceLimit,
           NEW alloc \in [Orders -> Nat], NEW unattributed \in Nat,
           CreateSettlement(s, d, amount, alloc, unattributed)
    PROVE  AddsUp'
<1> DEFINE done == CompletedBy(alloc)
           total == AllocationTotal(alloc)
<1>0. TypeOK /\ AddsUp /\ Balanced
  BY SoundFacts DEF AddsUp, Balanced
<1>1. amount \in Nat /\ done \in SUBSET Orders
  BY ConstantsAssumption DEF CompletedBy, Allocated
<1>2. \A o \in Allocated(alloc) : DriverOf[o] = d
  BY DEF CreateSettlement, AllocationAccepted
<1>3. total \in Int
  BY <1>2, ShareTotals
<1>4. /\ settlements' = [settlements EXCEPT ![s] = NewSettlement(d, amount, FALSE, alloc)]
      /\ settlements[s].state = "ABSENT"
      /\ amount = total + unattributed /\ unattributed <= Unattributed(d)
      /\ account' = Debit(account, d, amount)
      /\ wallet' = [c \in Customers |-> wallet[c] + WalletCredits(c, done)]
      /\ UNCHANGED <<adjustments, payouts>>
  BY DEF CreateSettlement
<1>5. OnlySettlement(s)
  BY <1>0, <1>4 DEF OnlySettlement, TypeOK
<1>6. settlements'[s] = NewSettlement(d, amount, FALSE, alloc)
  BY <1>0, <1>4 DEF TypeOK
<1>7. \A e \in Drivers :
          Takes(settlements'[s], e) = Takes(settlements[s], e) + Within(d = e, amount)
  <2>1. \A e \in Drivers : Takes(settlements'[s], e) = Within(d = e, amount)
    BY <1>1, <1>6 DEF NewSettlement, Takes, Net, Within
  <2>2. \A e \in Drivers : Takes(settlements[s], e) = 0
    BY <1>4, NotCreated
  <2> QED BY <1>1, <2>1, <2>2 DEF Within
<1>8. \A o \in Orders : Gives(settlements'[s], o) = alloc[o] /\ Gives(settlements[s], o) = 0
  <2>1. \A o \in Orders : Gives(settlements'[s], o) = alloc[o]
    BY <1>6 DEF NewSettlement, Gives
  <2>2. \A o \in Orders : Gives(settlements[s], o) = 0
    BY <1>4, NotCreated
  <2> QED BY <2>1, <2>2
<1>9. \A e \in Drivers : account'[e] = account[e] + Within(d = e, 0 - amount)
  BY <1>0, <1>1, <1>4, AccountMoves
<1>10. \A e \in Drivers : CollectionsOf(e)' = CollectionsOf(e)
  <2>1. [o \in Orders |-> Net(rows'[o].collection)] = [o \in Orders |-> Net(rows[o].collection)]
    BY CreateOrders
  <2> QED BY <2>1 DEF CollectionsOf, Net
<1>11. \A e \in Drivers :
           AttributedOutstanding(e)' = AttributedOutstanding(e) + Within(d = e, 0 - total)
  <2>1. \A o \in Orders :
            Reserved(releases[o], rows[o]) = Reserved(releases'[o], rows'[o]) + alloc[o]
    BY CreateOrders
  <2>2. \A e \in Drivers :
            /\ AttributedOutstanding(e) = AttributedOutstanding(e)' + Within(d = e, total)
            /\ AttributedOutstanding(e)' \in Int
    <3>1. releases \in [Orders -> Release] /\ releases' \in [Orders -> Release]
      BY <1>0 DEF TypeOK
    <3>2. \A e \in Drivers :
              /\ ReservedFor(e, releases, rows) = ReservedFor(e, releases', rows') + Within(d = e, total)
              /\ ReservedFor(e, releases', rows') \in Int
      BY <1>2, <2>1, <3>1, ReservedSplits
    <3> QED BY <3>2, ReservedForDriver
  <2> QED BY <1>3, <2>2 DEF Within
<1>12. \A c \in Customers : CreditsOf(c)' = CreditsOf(c) + (wallet'[c] - wallet[c])
  <2> SUFFICES ASSUME NEW c \in Customers
               PROVE  CreditsOf(c)' = CreditsOf(c) + (wallet'[c] - wallet[c])
    OBVIOUS
  <2>1. \A o \in Orders : Net(rows'[o].credit) =
            Net(rows[o].credit) + Within(o \in done, releases[o].plan.wallet)
    BY CreateOrders
  <2> HIDE DEF done
  <2>2. CreditsOf(c)' = CreditsOf(c) + WalletCredits(c, done) /\ WalletCredits(c, done) \in Int
    BY <1>0, <1>1, <2>1, CreditsSplit
  <2>3. wallet[c] \in Int /\ wallet'[c] = wallet[c] + WalletCredits(c, done)
    BY <1>0, <1>4, LedgersAreInts
  <2> QED BY <2>2, <2>3
<1> HIDE DEF total
<1>13. Unattributed(d) - amount >= 0 - total
  BY <1>1, <1>3, <1>4, SoundFacts
<1>14. amount \in Int /\ 0 - total \in Int
  BY <1>1, <1>3
<1>15. Balanced'
  BY <1>0, <1>5, <1>7, <1>9, <1>10, <1>11, <1>12, <1>13, <1>14, SettlementStepBalances
<1>16. \A o \in Orders : releases'[o].allocated = HandedOver(o)'
  <2>1. \A o \in Orders : releases[o].allocated \in Int /\ alloc[o] \in Int
    BY <1>0 DEF TypeOK, Release
  <2>2. \A o \in Orders : releases'[o].allocated = releases[o].allocated + alloc[o]
    BY CreateOrders
  <2>3. \A o \in Orders : releases'[o].allocated =
            releases[o].allocated + Gives(settlements'[s], o) - Gives(settlements[s], o)
    BY <1>8, <2>1, <2>2
  <2> QED BY <1>0, <1>5, <2>3, SettlementStepTallies
<1> QED BY <1>15, <1>16 DEF AddsUp, Balanced

LEMMA ReverseOrders ==
    ASSUME Sound, NEW s \in Settlements, ReverseSettlement(s), NEW o \in Orders
    PROVE  /\ releases'[o].allocated = releases[o].allocated - settlements[s].alloc[o]
           /\ Reserved(releases'[o], rows'[o])
                = Reserved(releases[o], rows[o]) + settlements[s].alloc[o]
<1> DEFINE n == settlements[s].alloc[o]
<1>0. releases[o] \in Release /\ n \in Nat
  BY PositionFacts DEF TypeOK, Settlement
<1>1. /\ releases'[o] = IF n > 0 THEN [releases[o] EXCEPT !.allocated = @ - n] ELSE releases[o]
      /\ rows' = rows
      /\ n > 0 => releases[o].status = "PENDING"
  BY DEF ReverseSettlement, Allocated
<1>2. /\ releases'[o].allocated = releases[o].allocated - n
      /\ releases'[o].collection = releases[o].collection
      /\ releases'[o].status = releases[o].status
  BY <1>0, <1>1 DEF Release
<1>3. n > 0 => rows[o].collection.state # "REVERSED"
  <2>1. RowsFit(o)
    BY PositionFacts
  <2>2. n > 0 => CollectionIntact(o)
    BY <1>1, <2>1 DEF RowsFit
  <2> QED BY <2>2 DEF CollectionIntact
<1>4. releases[o].allocated \in Nat /\ releases[o].collection \in Nat
  BY <1>0 DEF Release
<1> HIDE DEF n
<1>5. Reserved(releases'[o], rows'[o]) = Reserved(releases[o], rows[o]) + n
  <2>1. CASE n > 0
    <3>1. Reserved(releases[o], rows[o]) = releases[o].collection - releases[o].allocated
      BY <1>1, <1>3, <2>1 DEF Reserved, Holds, Owing
    <3>2. Reserved(releases'[o], rows'[o]) = releases[o].collection - (releases[o].allocated - n)
      BY <1>1, <1>2, <1>3, <2>1 DEF Reserved, Holds, Owing
    <3> QED BY <1>0, <1>4, <3>1, <3>2
  <2>2. CASE n = 0
    BY <1>1, <1>2, <1>4, <2>2 DEF Reserved, Holds, Owing
  <2> QED BY <1>0, <2>1, <2>2
<1> QED BY <1>2, <1>5 DEF n

LEMMA ReverseAddsUp ==
    ASSUME Sound, TypeOK', NEW s \in Settlements, ReverseSettlement(s)
    PROVE  AddsUp'
<1> DEFINE d == settlements[s].driver
           n == settlements[s].amount
           alloc == settlements[s].alloc
           total == AllocationTotal(alloc)
<1>0. TypeOK /\ AddsUp /\ Balanced
  BY SoundFacts DEF AddsUp, Balanced
<1>1. settlements[s] \in Settlement /\ d \in Drivers /\ n \in Nat /\ alloc \in [Orders -> Nat]
  BY <1>0 DEF TypeOK, Settlement
<1>2. (\A o \in Allocated(alloc) : DriverOf[o] = d) /\ total <= n
  BY SoundFacts DEF SettlementFits
<1>3. /\ settlements' = [settlements EXCEPT ![s].state = "REVERSED"]
      /\ settlements[s].state = "POSTED" /\ settlements[s].shortfall = 0
      /\ account' = Credit(account, d, n)
      /\ UNCHANGED <<rows, wallet, adjustments, payouts>>
  BY DEF ReverseSettlement
<1>4. OnlySettlement(s)
  BY <1>0, <1>3 DEF OnlySettlement, TypeOK
<1>5. /\ settlements'[s].state = "REVERSED" /\ settlements'[s].driver = d
      /\ settlements'[s].shortfall = 0
  BY <1>1, <1>3, <1>0 DEF TypeOK, Settlement
<1>6. \A o \in Orders : Gives(settlements'[s], o) = 0 /\ Gives(settlements[s], o) = alloc[o]
  BY <1>3, <1>5 DEF Gives
<1>7. \A e \in Drivers : Takes(settlements'[s], e) = 0 /\ Takes(settlements[s], e) = Within(d = e, n)
  BY <1>1, <1>3, <1>5 DEF Takes, Net, Within
<1>8. \A o \in Orders : releases'[o].allocated = releases[o].allocated - alloc[o]
  BY ReverseOrders
<1>9. \A o \in Orders : Reserved(releases'[o], rows'[o]) = Reserved(releases[o], rows[o]) + alloc[o]
  BY ReverseOrders
<1> HIDE DEF d, n, alloc
<1>10. total \in Int
  BY <1>1, <1>2, ShareTotals
<1>11. \A e \in Drivers :
           AttributedOutstanding(e)' = AttributedOutstanding(e) + Within(d = e, total)
  <2>1. releases \in [Orders -> Release] /\ releases' \in [Orders -> Release]
    BY <1>0 DEF TypeOK
  <2>2. \A e \in Drivers :
            ReservedFor(e, releases', rows') = ReservedFor(e, releases, rows) + Within(d = e, total)
    BY <1>1, <1>2, <1>9, <2>1, ReservedSplits
  <2> QED BY <2>2, ReservedForDriver
<1> HIDE DEF total
<1>12. \A e \in Drivers :
           Takes(settlements'[s], e) = Takes(settlements[s], e) + Within(d = e, 0 - n)
  BY <1>1, <1>7 DEF Within
<1>13. \A e \in Drivers : account'[e] = account[e] + Within(d = e, 0 - (0 - n))
  <2>1. 0 - (0 - n) = n
    BY <1>1
  <2> QED BY <1>0, <1>1, <1>3, <2>1, AccountMoves
<1>14. \A e \in Drivers : CollectionsOf(e)' = CollectionsOf(e)
  BY <1>3 DEF CollectionsOf, Net
<1>15. \A c \in Customers : CreditsOf(c)' = CreditsOf(c) + (wallet'[c] - wallet[c])
  <2>1. \A c \in Customers : CreditsOf(c)' = CreditsOf(c)
    BY <1>3 DEF CreditsOf, Net
  <2>2. \A c \in Customers : CreditsOf(c) \in Int /\ wallet[c] \in Int
    BY <1>0, OrderSumsAreInts, LedgersAreInts
  <2> QED BY <1>3, <2>1, <2>2
<1>16. Unattributed(d) - (0 - n) >= total
  BY <1>1, <1>2, <1>10, SoundFacts
<1>17. 0 - n \in Int
  BY <1>1
<1>18. Balanced'
  BY <1>0, <1>1, <1>4, <1>10, <1>11, <1>12, <1>13, <1>14, <1>15, <1>16, <1>17, SettlementStepBalances
<1>19. \A o \in Orders : releases'[o].allocated = HandedOver(o)'
  <2>1. \A o \in Orders : releases[o].allocated \in Int /\ alloc[o] \in Int
    BY <1>0, <1>1 DEF TypeOK, Release
  <2>2. \A o \in Orders : releases'[o].allocated =
            releases[o].allocated + Gives(settlements'[s], o) - Gives(settlements[s], o)
    BY <1>6, <1>8, <2>1
  <2> QED BY <1>0, <1>4, <2>2, SettlementStepTallies
<1> QED BY <1>18, <1>19 DEF AddsUp, Balanced

-----------------------------------------------------------------------------
(* Adjustments and payouts                                                  *)

\* A step that leaves the orders, the releases and the settlements alone.
OrdersStand == UNCHANGED <<rows, releases, settlements>>

LEMMA OrdersStandSums ==
    ASSUME TypeOK, TypeOK', AddsUp, OrdersStand,
           \A d \in Drivers : account'[d] - account[d] = AdjustedFor(d)' - AdjustedFor(d),
           \A c \in Customers : wallet'[c] - wallet[c] =
               (AdjustedFor(c)' - AdjustedFor(c)) - (PaidTo(c)' - PaidTo(c)),
           \A w \in Drivers \cup Customers : AdjustedFor(w)' \in Int,
           \A c \in Customers : PaidTo(c)' \in Int,
           \A d \in Drivers : Unattributed(d) + (account'[d] - account[d]) >= 0
    PROVE  AddsUp'
<1>1. Balanced
  BY DEF AddsUp, Balanced
<1>2. \A d \in Drivers :
          /\ CollectionsOf(d)' = CollectionsOf(d) /\ SettledBy(d)' = SettledBy(d)
          /\ AttributedOutstanding(d)' = AttributedOutstanding(d)
  BY DEF OrdersStand, CollectionsOf, SettledBy, Net, AttributedOutstanding, HoldingReleases,
         HoldsCash, Outstanding
<1>3. \A c \in Customers : CreditsOf(c)' = CreditsOf(c)
  BY DEF OrdersStand, CreditsOf, Net
<1>4. ASSUME NEW d \in Drivers
      PROVE  /\ CashLedgerNet(d)' - CashLedgerNet(d) = account'[d] - account[d]
             /\ CashLedgerNet(d)' \in Int
             /\ account'[d] - AttributedOutstanding(d)' >= 0
  <2>1. /\ CollectionsOf(d) \in Int /\ SettledBy(d) \in Int /\ AdjustedFor(d) \in Int
        /\ AttributedOutstanding(d) \in Int /\ account[d] \in Int /\ account'[d] \in Int
        /\ AdjustedFor(d)' \in Int
    BY OrderSumsAreInts, OtherSumsAreInts, LedgersAreInts, LedgersNext
  <2>2. CashLedgerNet(d) = CollectionsOf(d) - SettledBy(d) + AdjustedFor(d)
    BY LedgersAreInts
  <2>3. CashLedgerNet(d)' = CollectionsOf(d) - SettledBy(d) + AdjustedFor(d)'
    BY <1>2, LedgersNext
  <2>4. Unattributed(d) = account[d] - AttributedOutstanding(d)
    BY LedgersAreInts
  <2>5. Unattributed(d) + (account'[d] - account[d]) >= 0
    OBVIOUS
  <2> QED BY <1>2, <2>1, <2>2, <2>3, <2>4, <2>5
<1>5. ASSUME NEW c \in Customers
      PROVE  /\ WalletLedgerNet(c)' - WalletLedgerNet(c) = wallet'[c] - wallet[c]
             /\ WalletLedgerNet(c)' \in Int
  <2>1. /\ CreditsOf(c) \in Int /\ PaidTo(c) \in Int /\ AdjustedFor(c) \in Int
        /\ PaidTo(c)' \in Int /\ AdjustedFor(c)' \in Int
        /\ wallet[c] \in Int /\ wallet'[c] \in Int
    BY OrderSumsAreInts, OtherSumsAreInts, LedgersAreInts, LedgersNext
  <2>2. WalletLedgerNet(c) = CreditsOf(c) - PaidTo(c) + AdjustedFor(c)
    BY LedgersAreInts
  <2>3. WalletLedgerNet(c)' = CreditsOf(c) - PaidTo(c)' + AdjustedFor(c)'
    BY <1>3, LedgersNext
  <2> QED BY <2>1, <2>2, <2>3
<1>6. Balanced'
  BY <1>1, <1>4, <1>5, BalancesMove
<1>7. \A o \in Orders : releases'[o].allocated = HandedOver(o)'
  BY DEF OrdersStand, AddsUp, HandedOver
<1> QED BY <1>6, <1>7 DEF AddsUp, Balanced

\* A step over one adjustment, which adds n to what was adjusted for v.
LEMMA AdjustmentAddsUp ==
    ASSUME TypeOK, TypeOK', AddsUp, OrdersStand, payouts' = payouts,
           NEW a \in Adjustments,
           \A b \in Adjustments : b # a => adjustments'[b] = adjustments[b],
           NEW v \in Drivers \cup Customers, NEW n \in Int,
           \A w \in Drivers \cup Customers :
               Within(adjustments'[a].of = w, Signed(adjustments'[a]))
                   = Within(adjustments[a].of = w, Signed(adjustments[a])) + Within(v = w, n),
           \A d \in Drivers : account'[d] = account[d] + Within(v = d, n),
           \A c \in Customers : wallet'[c] = wallet[c] + Within(v = c, n),
           \A d \in Drivers : Unattributed(d) + Within(v = d, n) >= 0
    PROVE  AddsUp'
<1>1. ASSUME NEW w \in Drivers \cup Customers
      PROVE  AdjustedFor(w)' = AdjustedFor(w) + Within(v = w, n)
  <2>1. AdjustedFor(w)' =
            AdjustedFor(w) - (IF adjustments[a].of = w THEN Signed(adjustments[a]) ELSE 0)
            + (IF adjustments'[a].of = w THEN Signed(adjustments'[a]) ELSE 0)
    BY AdjustedMoves
  <2>2. AdjustedFor(w)' =
            AdjustedFor(w) - Within(adjustments[a].of = w, Signed(adjustments[a]))
            + Within(adjustments'[a].of = w, Signed(adjustments'[a]))
    BY <2>1 DEF Within
  <2>3. Within(adjustments[a].of = w, Signed(adjustments[a])) \in Int
    BY NetIsNat DEF TypeOK, Within
  <2>4. AdjustedFor(w) \in Int /\ Within(v = w, n) \in Int
    BY OtherSumsAreInts DEF Within
  <2> QED BY <2>2, <2>3, <2>4
<1>2. \A w \in Drivers \cup Customers :
          /\ Within(v = w, n) \in Int /\ AdjustedFor(w) \in Int /\ AdjustedFor(w)' \in Int
  BY <1>1, OtherSumsAreInts DEF Within
<1>3. \A c \in Customers : PaidTo(c)' = PaidTo(c) /\ PaidTo(c) \in Int
  BY OtherSumsAreInts DEF PaidTo, Net
<1>4. \A d \in Drivers : account[d] \in Int
  BY LedgersAreInts
<1>5. \A c \in Customers : wallet[c] \in Int
  BY LedgersAreInts
<1>6. \A d \in Drivers : account'[d] - account[d] = AdjustedFor(d)' - AdjustedFor(d)
  BY <1>1, <1>2, <1>4
<1>7. \A c \in Customers : wallet'[c] - wallet[c] =
          (AdjustedFor(c)' - AdjustedFor(c)) - (PaidTo(c)' - PaidTo(c))
  BY <1>1, <1>2, <1>3, <1>5
<1>8. \A d \in Drivers : Unattributed(d) + (account'[d] - account[d]) >= 0
  BY <1>2, <1>4
<1> QED BY <1>2, <1>3, <1>6, <1>7, <1>8, OrdersStandSums

\* A step over one payout, which pays n more to c.
LEMMA PayoutAddsUp ==
    ASSUME TypeOK, TypeOK', AddsUp, OrdersStand, UNCHANGED <<adjustments, account>>,
           NEW p \in Payouts,
           \A q \in Payouts : q # p => payouts'[q] = payouts[q],
           NEW c \in Customers, NEW n \in Int,
           \A e \in Customers :
               Within(payouts'[p].of = e, Net(payouts'[p]))
                   = Within(payouts[p].of = e, Net(payouts[p])) + Within(c = e, n),
           \A e \in Customers : wallet'[e] = wallet[e] + Within(c = e, 0 - n)
    PROVE  AddsUp'
<1>1. ASSUME NEW e \in Customers
      PROVE  PaidTo(e)' = PaidTo(e) + Within(c = e, n)
  <2>1. PaidTo(e)' =
            PaidTo(e) - (IF payouts[p].of = e THEN Net(payouts[p]) ELSE 0)
            + (IF payouts'[p].of = e THEN Net(payouts'[p]) ELSE 0)
    BY PaidMoves
  <2>2. PaidTo(e)' =
            PaidTo(e) - Within(payouts[p].of = e, Net(payouts[p]))
            + Within(payouts'[p].of = e, Net(payouts'[p]))
    BY <2>1 DEF Within
  <2>3. Within(payouts[p].of = e, Net(payouts[p])) \in Int
    BY NetIsNat DEF TypeOK, Within
  <2>4. PaidTo(e) \in Int /\ Within(c = e, n) \in Int
    BY OtherSumsAreInts DEF Within
  <2> QED BY <2>2, <2>3, <2>4
<1>2. \A w \in Drivers \cup Customers : AdjustedFor(w)' = AdjustedFor(w) /\ AdjustedFor(w) \in Int
  BY OtherSumsAreInts DEF AdjustedFor, Signed, Net
<1>3. \A e \in Customers : PaidTo(e) \in Int /\ PaidTo(e)' \in Int /\ wallet[e] \in Int
  BY <1>1, OtherSumsAreInts, LedgersAreInts DEF Within
<1>4. \A d \in Drivers : account'[d] - account[d] = AdjustedFor(d)' - AdjustedFor(d)
  BY <1>2, LedgersAreInts
<1>5. \A e \in Customers : wallet'[e] - wallet[e] =
          (AdjustedFor(e)' - AdjustedFor(e)) - (PaidTo(e)' - PaidTo(e))
  BY <1>1, <1>2, <1>3 DEF Within
<1>6. \A d \in Drivers : Unattributed(d) + (account'[d] - account[d]) >= 0
  <2>1. \A d \in Drivers : Unattributed(d) >= 0 /\ Unattributed(d) \in Int /\ account[d] \in Int
    BY LedgersAreInts, OrderSumsAreInts DEF AddsUp, ReservedCashIsHeld
  <2> QED BY <2>1
<1> QED BY <1>2, <1>3, <1>4, <1>5, <1>6, OrdersStandSums

LEMMA NothingAddsUp ==
    ASSUME AddsUp, OrdersStand, UNCHANGED <<adjustments, payouts, account, wallet>>
    PROVE  AddsUp'
<1>1. \A d \in Drivers :
          /\ CollectionsOf(d)' = CollectionsOf(d) /\ SettledBy(d)' = SettledBy(d)
          /\ AttributedOutstanding(d)' = AttributedOutstanding(d)
          /\ AdjustedFor(d)' = AdjustedFor(d)
  BY DEF OrdersStand, CollectionsOf, SettledBy, Net, AttributedOutstanding, HoldingReleases,
         HoldsCash, Outstanding, AdjustedFor, Signed
<1>2. \A c \in Customers : WalletLedgerNet(c)' = WalletLedgerNet(c)
  BY DEF OrdersStand, WalletLedgerNet, AdjustedFor, Signed, Net
<1>3. \A o \in Orders : HandedOver(o)' = HandedOver(o)
  BY DEF OrdersStand, HandedOver
<1>4. BalancesEqualLedgers'
  BY <1>1, <1>2 DEF AddsUp, BalancesEqualLedgers, CashLedgerNet
<1>5. ReservedCashIsHeld'
  BY <1>1 DEF AddsUp, ReservedCashIsHeld, Unattributed
<1> QED BY <1>3, <1>4, <1>5 DEF AddsUp, OrdersStand

\* What a movement adds to a balance.
Added(direction, amount) == IF direction = "CREDIT" THEN amount ELSE 0 - amount

LEMMA MovesByAdded ==
    ASSUME TypeOK, NEW direction \in {"CREDIT", "DEBIT"}, NEW amount \in Nat
    PROVE  /\ Added(direction, amount) \in Int
           /\ Added(Opposite(direction), amount) = 0 - Added(direction, amount)
           /\ \A w \in Drivers, d \in Drivers :
                 Move(account, w, direction, amount)[d]
                     = account[d] + Within(w = d, Added(direction, amount))
           /\ \A w \in Customers, c \in Customers :
                 Move(wallet, w, direction, amount)[c]
                     = wallet[c] + Within(w = c, Added(direction, amount))
<1>1. \A w \in Drivers, d \in Drivers :
          Move(account, w, direction, amount)[d]
              = account[d] + Within(w = d, Added(direction, amount))
  BY AccountMoves DEF Move, Added
<1>2. \A w \in Customers, c \in Customers :
          Move(wallet, w, direction, amount)[c]
              = wallet[c] + Within(w = c, Added(direction, amount))
  BY WalletMoves DEF Move, Added
<1>3. /\ Added(direction, amount) \in Int
      /\ Added(Opposite(direction), amount) = 0 - Added(direction, amount)
  BY DEF Added, Opposite
<1> QED BY <1>1, <1>2, <1>3

\* A driver's cash position never falls below zero by a permitted move.
LEMMA CashMoveCovered ==
    ASSUME Sound, NEW d \in Drivers, NEW direction \in {"CREDIT", "DEBIT"}, NEW amount \in Nat,
           CashMoveAllowed(d, direction, amount)
    PROVE  \A e \in Drivers : Unattributed(e) + Within(d = e, Added(direction, amount)) >= 0
<1>1. \A e \in Drivers : Unattributed(e) \in Int /\ Unattributed(e) >= 0
  BY SoundFacts
<1>2. direction = "DEBIT" => amount <= Unattributed(d)
  BY DEF CashMoveAllowed, DebitWithinUnattributed
<1> QED BY <1>1, <1>2 DEF Within, Added

\* An adjustment adds its signed amount while it stands.
LEMMA AdjustmentSigns ==
    ASSUME NEW a \in Adjustment
    PROVE  /\ a.state # "POSTED" => Signed(a) = 0
           /\ a.state = "POSTED" => Signed(a) = Added(a.direction, a.amount)
<1>1. a.direction \in {"CREDIT", "DEBIT"} /\ a.amount \in Nat
  BY DEF Adjustment
<1>2. CASE a.direction = "CREDIT"
  BY <1>1, <1>2 DEF Signed, Net, Added
<1>3. CASE a.direction = "DEBIT"
  <2>1. \A x \in Int : -x = 0 - x
    OBVIOUS
  <2>2. Net(a) \in Int
    BY <1>1 DEF Net
  <2>3. Signed(a) = 0 - Net(a) /\ Added(a.direction, a.amount) = 0 - a.amount
    BY <1>3, <2>1, <2>2 DEF Signed, Added
  <2> QED BY <1>1, <2>3 DEF Net
<1> QED BY <1>1, <1>2, <1>3

LEMMA NewAdjustmentIsOne ==
    ASSUME NEW w \in Drivers \cup Customers, NEW direction \in {"CREDIT", "DEBIT"},
           NEW amount \in Nat
    PROVE  /\ NewAdjustment(w, direction, amount).of = w
           /\ Signed(NewAdjustment(w, direction, amount)) = Added(direction, amount)
<1>1. /\ NewAdjustment(w, direction, amount).state = "POSTED"
      /\ NewAdjustment(w, direction, amount).of = w
      /\ NewAdjustment(w, direction, amount).direction = direction
      /\ NewAdjustment(w, direction, amount).amount = amount
  BY DEF NewAdjustment
<1>2. Net(NewAdjustment(w, direction, amount)) = amount
  BY <1>1 DEF Net
<1>3. -amount = 0 - amount
  OBVIOUS
<1> QED BY <1>1, <1>2, <1>3 DEF Signed, Added

\* The row of an adjustment that is made.
Adjusts(a, v, direction, amount) ==
    adjustments' = [adjustments EXCEPT ![a] = NewAdjustment(v, direction, amount)]

\* What a new adjustment, and a reversal, change in the sums.
LEMMA AdjustmentPosted ==
    ASSUME TypeOK, NEW a \in Adjustments, adjustments[a].state = "ABSENT",
           NEW v \in Drivers \cup Customers, NEW direction \in {"CREDIT", "DEBIT"},
           NEW amount \in Nat, Adjusts(a, v, direction, amount)
    PROVE  /\ \A b \in Adjustments : b # a => adjustments'[b] = adjustments[b]
           /\ \A w \in Drivers \cup Customers :
                Within(adjustments'[a].of = w, Signed(adjustments'[a]))
                    = Within(adjustments[a].of = w, Signed(adjustments[a]))
                      + Within(v = w, Added(direction, amount))
<1>1. adjustments[a] \in Adjustment /\ Signed(adjustments[a]) = 0
  BY AdjustmentSigns DEF TypeOK
<1>2. adjustments'[a] = NewAdjustment(v, direction, amount)
  BY DEF TypeOK, Adjusts
<1>3. adjustments'[a].of = v /\ Signed(adjustments'[a]) = Added(direction, amount)
  BY <1>2, NewAdjustmentIsOne
<1>4. Added(direction, amount) \in Int
  BY DEF Added
<1>5. \A b \in Adjustments : b # a => adjustments'[b] = adjustments[b]
  BY DEF TypeOK, Adjusts
<1> QED BY <1>1, <1>3, <1>4, <1>5 DEF Within

LEMMA AdjustmentReversed ==
    ASSUME TypeOK, NEW a \in Adjustments, adjustments[a].state = "POSTED",
           adjustments' = [adjustments EXCEPT ![a].state = "REVERSED"]
    PROVE  /\ \A b \in Adjustments : b # a => adjustments'[b] = adjustments[b]
           /\ \A w \in Drivers \cup Customers :
                Within(adjustments'[a].of = w, Signed(adjustments'[a]))
                    = Within(adjustments[a].of = w, Signed(adjustments[a]))
                      + Within(adjustments[a].of = w,
                               Added(Opposite(adjustments[a].direction), adjustments[a].amount))
<1>1. /\ adjustments[a] \in Adjustment
      /\ adjustments[a].direction \in {"CREDIT", "DEBIT"} /\ adjustments[a].amount \in Nat
  BY DEF TypeOK, Adjustment
<1>2. Signed(adjustments[a]) = Added(adjustments[a].direction, adjustments[a].amount)
  BY <1>1, AdjustmentSigns
<1>3. /\ adjustments'[a] \in Adjustment /\ adjustments'[a].state = "REVERSED"
      /\ adjustments'[a].of = adjustments[a].of
  <2>1. adjustments'[a] = [adjustments[a] EXCEPT !.state = "REVERSED"]
    BY DEF TypeOK
  <2> QED BY <1>1, <2>1 DEF Adjustment, RowStates
<1>4. Signed(adjustments'[a]) = 0
  BY <1>3, AdjustmentSigns
<1>5. /\ Added(adjustments[a].direction, adjustments[a].amount) \in Int
      /\ Added(Opposite(adjustments[a].direction), adjustments[a].amount)
           = 0 - Added(adjustments[a].direction, adjustments[a].amount)
  BY <1>1, MovesByAdded
<1>6. \A b \in Adjustments : b # a => adjustments'[b] = adjustments[b]
  BY DEF TypeOK
<1> QED BY <1>2, <1>3, <1>4, <1>5, <1>6 DEF Within

LEMMA AdjustCashAddsUp ==
    ASSUME Sound, TypeOK', NEW a \in Adjustments, NEW d \in Drivers,
           NEW direction \in {"CREDIT", "DEBIT"}, NEW amount \in Manual,
           AdjustDriverCash(a, d, direction, amount)
    PROVE  AddsUp'
<1> DEFINE n == Added(direction, amount)
<1>1. TypeOK /\ AddsUp /\ amount \in Nat /\ d \in Drivers \cup Customers
  BY ConstantsAssumption, SoundFacts DEF Manual
<1>2. /\ adjustments[a].state = "ABSENT" /\ CashMoveAllowed(d, direction, amount)
      /\ account' = Move(account, d, direction, amount)
      /\ Adjusts(a, d, direction, amount)
      /\ OrdersStand /\ payouts' = payouts /\ wallet' = wallet
  BY DEF AdjustDriverCash, OrdersStand, Adjusts
<1>3. /\ \A b \in Adjustments : b # a => adjustments'[b] = adjustments[b]
      /\ \A w \in Drivers \cup Customers :
            Within(adjustments'[a].of = w, Signed(adjustments'[a]))
                = Within(adjustments[a].of = w, Signed(adjustments[a])) + Within(d = w, n)
  BY <1>1, <1>2, AdjustmentPosted
<1>4. n \in Int
  BY <1>1, MovesByAdded
<1>5. \A e \in Drivers : account'[e] = account[e] + Within(d = e, n)
  BY <1>1, <1>2, MovesByAdded
<1>6. \A c \in Customers : wallet'[c] = wallet[c] + Within(d = c, n)
  BY <1>1, <1>2, LedgersAssumption, LedgersAreInts DEF Within
<1>7. \A e \in Drivers : Unattributed(e) + Within(d = e, n) >= 0
  BY <1>1, <1>2, CashMoveCovered
<1> HIDE DEF n
<1> QED BY <1>1, <1>2, <1>3, <1>4, <1>5, <1>6, <1>7, AdjustmentAddsUp

LEMMA ReverseCashAdjustmentAddsUp ==
    ASSUME Sound, TypeOK', NEW a \in Adjustments, ReverseCashAdjustment(a)
    PROVE  AddsUp'
<1> DEFINE d == adjustments[a].of
           back == Opposite(adjustments[a].direction)
           n == Added(back, adjustments[a].amount)
<1>1. TypeOK /\ AddsUp
  BY SoundFacts
<1>2. /\ adjustments[a].state = "POSTED" /\ d \in Drivers
      /\ CashMoveAllowed(d, back, adjustments[a].amount)
      /\ account' = Move(account, d, back, adjustments[a].amount)
      /\ adjustments' = [adjustments EXCEPT ![a].state = "REVERSED"]
      /\ OrdersStand /\ payouts' = payouts /\ wallet' = wallet
  BY DEF ReverseCashAdjustment, OrdersStand
<1>3. adjustments[a].amount \in Nat /\ back \in {"CREDIT", "DEBIT"} /\ d \in Drivers \cup Customers
  BY <1>1, <1>2 DEF TypeOK, Adjustment, Opposite
<1>4. /\ \A b \in Adjustments : b # a => adjustments'[b] = adjustments[b]
      /\ \A w \in Drivers \cup Customers :
            Within(adjustments'[a].of = w, Signed(adjustments'[a]))
                = Within(adjustments[a].of = w, Signed(adjustments[a])) + Within(d = w, n)
  BY <1>1, <1>2, AdjustmentReversed
<1> HIDE DEF d, back
<1>5. n \in Int
  BY <1>1, <1>3, MovesByAdded
<1>6. \A e \in Drivers : account'[e] = account[e] + Within(d = e, n)
  BY <1>1, <1>2, <1>3, MovesByAdded
<1>7. \A c \in Customers : wallet'[c] = wallet[c] + Within(d = c, n)
  BY <1>1, <1>2, LedgersAssumption, LedgersAreInts DEF Within
<1>8. \A e \in Drivers : Unattributed(e) + Within(d = e, n) >= 0
  BY <1>2, <1>3, CashMoveCovered
<1> HIDE DEF n
<1> QED BY <1>1, <1>2, <1>3, <1>4, <1>5, <1>6, <1>7, <1>8, AdjustmentAddsUp

LEMMA AdjustWalletAddsUp ==
    ASSUME Sound, TypeOK', NEW a \in Adjustments, NEW c \in Customers,
           NEW direction \in {"CREDIT", "DEBIT"}, NEW amount \in Manual,
           AdjustWallet(a, c, direction, amount)
    PROVE  AddsUp'
<1> DEFINE n == Added(direction, amount)
<1>1. TypeOK /\ AddsUp /\ amount \in Nat /\ c \in Drivers \cup Customers
  BY ConstantsAssumption, SoundFacts DEF Manual
<1>2. /\ adjustments[a].state = "ABSENT"
      /\ wallet' = Move(wallet, c, direction, amount)
      /\ Adjusts(a, c, direction, amount)
      /\ OrdersStand /\ payouts' = payouts /\ account' = account
  BY DEF AdjustWallet, OrdersStand, Adjusts
<1>3. /\ \A b \in Adjustments : b # a => adjustments'[b] = adjustments[b]
      /\ \A w \in Drivers \cup Customers :
            Within(adjustments'[a].of = w, Signed(adjustments'[a]))
                = Within(adjustments[a].of = w, Signed(adjustments[a])) + Within(c = w, n)
  BY <1>1, <1>2, AdjustmentPosted
<1>4. n \in Int
  BY <1>1, MovesByAdded
<1>5. \A e \in Customers : wallet'[e] = wallet[e] + Within(c = e, n)
  BY <1>1, <1>2, MovesByAdded
<1>6. \A d \in Drivers : account'[d] = account[d] + Within(c = d, n)
  BY <1>1, <1>2, LedgersAssumption, LedgersAreInts DEF Within
<1>7. \A d \in Drivers : Unattributed(d) + Within(c = d, n) >= 0
  BY SoundFacts, LedgersAssumption DEF Within
<1> HIDE DEF n
<1> QED BY <1>1, <1>2, <1>3, <1>4, <1>5, <1>6, <1>7, AdjustmentAddsUp

LEMMA ReverseWalletAdjustmentAddsUp ==
    ASSUME Sound, TypeOK', NEW a \in Adjustments, ReverseWalletAdjustment(a)
    PROVE  AddsUp'
<1> DEFINE c == adjustments[a].of
           back == Opposite(adjustments[a].direction)
           n == Added(back, adjustments[a].amount)
<1>1. TypeOK /\ AddsUp
  BY SoundFacts
<1>2. /\ adjustments[a].state = "POSTED" /\ c \in Customers
      /\ wallet' = Move(wallet, c, back, adjustments[a].amount)
      /\ adjustments' = [adjustments EXCEPT ![a].state = "REVERSED"]
      /\ OrdersStand /\ payouts' = payouts /\ account' = account
  BY DEF ReverseWalletAdjustment, OrdersStand
<1>3. adjustments[a].amount \in Nat /\ back \in {"CREDIT", "DEBIT"} /\ c \in Drivers \cup Customers
  BY <1>1, <1>2 DEF TypeOK, Adjustment, Opposite
<1>4. /\ \A b \in Adjustments : b # a => adjustments'[b] = adjustments[b]
      /\ \A w \in Drivers \cup Customers :
            Within(adjustments'[a].of = w, Signed(adjustments'[a]))
                = Within(adjustments[a].of = w, Signed(adjustments[a])) + Within(c = w, n)
  BY <1>1, <1>2, AdjustmentReversed
<1> HIDE DEF c, back
<1>5. n \in Int
  BY <1>1, <1>3, MovesByAdded
<1>6. \A e \in Customers : wallet'[e] = wallet[e] + Within(c = e, n)
  BY <1>1, <1>2, <1>3, MovesByAdded
<1>7. \A d \in Drivers : account'[d] = account[d] + Within(c = d, n)
  BY <1>1, <1>2, LedgersAssumption, LedgersAreInts DEF Within
<1>8. \A d \in Drivers : Unattributed(d) + Within(c = d, n) >= 0
  BY <1>2, SoundFacts, LedgersAssumption DEF Within
<1> HIDE DEF n
<1> QED BY <1>1, <1>2, <1>3, <1>4, <1>5, <1>6, <1>7, <1>8, AdjustmentAddsUp

LEMMA CreatePayoutAddsUp ==
    ASSUME Sound, TypeOK', NEW p \in Payouts, NEW c \in Customers, NEW amount \in Manual,
           CreatePayout(p, c, amount)
    PROVE  AddsUp'
<1>1. TypeOK /\ AddsUp /\ amount \in Nat /\ amount \in Int
  BY ConstantsAssumption, SoundFacts DEF Manual
<1>2. /\ payouts[p].state = "ABSENT" /\ wallet' = Debit(wallet, c, amount)
      /\ payouts' = [payouts EXCEPT ![p] = [state |-> "POSTED", of |-> c, amount |-> amount]]
      /\ OrdersStand /\ UNCHANGED <<adjustments, account>>
  BY DEF CreatePayout, OrdersStand
<1>3. \A q \in Payouts : q # p => payouts'[q] = payouts[q]
  BY <1>1, <1>2 DEF TypeOK
<1>4. payouts'[p] = [state |-> "POSTED", of |-> c, amount |-> amount]
  BY <1>1, <1>2 DEF TypeOK
<1>5. \A e \in Customers :
          Within(payouts'[p].of = e, Net(payouts'[p]))
              = Within(payouts[p].of = e, Net(payouts[p])) + Within(c = e, amount)
  BY <1>1, <1>2, <1>4 DEF Net, Within
<1>6. \A e \in Customers : wallet'[e] = wallet[e] + Within(c = e, 0 - amount)
  BY <1>1, <1>2, WalletMoves
<1> QED BY <1>1, <1>2, <1>3, <1>5, <1>6, PayoutAddsUp

LEMMA ReversePayoutAddsUp ==
    ASSUME Sound, TypeOK', NEW p \in Payouts, ReversePayout(p)
    PROVE  AddsUp'
<1> DEFINE c == payouts[p].of
           n == payouts[p].amount
<1>1. TypeOK /\ AddsUp /\ payouts[p] \in Payout /\ c \in Customers /\ n \in Nat
  BY SoundFacts DEF TypeOK, Payout
<1>2. /\ payouts[p].state = "POSTED" /\ wallet' = Credit(wallet, c, n)
      /\ payouts' = [payouts EXCEPT ![p].state = "REVERSED"]
      /\ OrdersStand /\ UNCHANGED <<adjustments, account>>
  BY DEF ReversePayout, OrdersStand
<1>3. \A q \in Payouts : q # p => payouts'[q] = payouts[q]
  BY <1>1, <1>2 DEF TypeOK
<1>4. payouts'[p].state = "REVERSED" /\ payouts'[p].of = c
  BY <1>1, <1>2 DEF TypeOK, Payout
<1>5. Net(payouts'[p]) = 0 /\ Net(payouts[p]) = n
  BY <1>2, <1>4 DEF Net
<1> HIDE DEF c, n
<1>6. \A e \in Customers :
          Within(payouts'[p].of = e, Net(payouts'[p]))
              = Within(payouts[p].of = e, Net(payouts[p])) + Within(c = e, 0 - n)
  BY <1>1, <1>4, <1>5 DEF Within, c
<1>7. \A e \in Customers : wallet'[e] = wallet[e] + Within(c = e, 0 - (0 - n))
  <2>1. 0 - (0 - n) = n
    BY <1>1
  <2> QED BY <1>1, <1>2, <2>1, WalletMoves
<1>8. 0 - n \in Int
  BY <1>1
<1> QED BY <1>1, <1>2, <1>3, <1>6, <1>7, <1>8, PayoutAddsUp

-----------------------------------------------------------------------------
(* Rows and settlements stay fit                                            *)

\* What RowsFit says of one order depends on these parts of it only.
LEMMA RowsStayFit ==
    ASSUME Sound, NEW o \in Orders,
           orders'[o] = orders[o] \/ (orders'[o].delivered /\ ~orders'[o].needsReview),
           orders'[o] = orders[o] => (orders[o].delivered \/ rows'[o] = rows[o]),
           orders'[o] = orders[o] => (rows'[o].credit = rows[o].credit \/ ~orders[o].needsReview),
           releases'[o].status = "PENDING" =>
               /\ releases[o].status = "PENDING"
               /\ releases'[o].collection = releases[o].collection
               /\ rows'[o].collection = rows[o].collection
    PROVE  RowsFit(o)'
<1>1. RowsFit(o)
  BY SoundFacts DEF Sound
<1>2. ~orders'[o].delivered => rows'[o] = NoRows
  BY <1>1 DEF RowsFit
<1>3. orders'[o].needsReview => rows'[o].credit = NoRow
  BY <1>1 DEF RowsFit
<1>4. releases'[o].status = "PENDING" =>
          rows'[o].collection = [state |-> "POSTED", amount |-> releases'[o].collection]
  BY <1>1 DEF RowsFit, CollectionIntact
<1> QED BY <1>2, <1>3, <1>4 DEF RowsFit, CollectionIntact

LEMMA DeliverOnSettlementFits ==
    ASSUME Sound, NEW o \in Orders, NEW actual \in Collected, DeliverOnSettlement(o, actual)
    PROVE  RowsFit(o)'
<1>0. actual \in Nat /\ TypeOK
  BY ConstantsAssumption, SoundFacts DEF Collected
<1>1. orders'[o].delivered
  BY <1>0 DEF DeliverOnSettlement, DeliveredOrder, TypeOK
<1>2. /\ rows'[o] = CustodyRows(actual, "DRIVER_CASH")
      /\ releases'[o].collection = actual /\ actual > 0
  BY <1>0 DEF DeliverOnSettlement, TypeOK
<1>3. rows'[o].credit = NoRow
  BY <1>2 DEF CustodyRows, NoRows
<1>4. rows'[o].collection = [state |-> "POSTED", amount |-> releases'[o].collection]
  BY <1>2 DEF CustodyRows, NoRows, PostedRow
<1> QED BY <1>1, <1>3, <1>4 DEF RowsFit, CollectionIntact

LEMMA DeliverImmediatelyFits ==
    ASSUME Sound, NEW o \in Orders, NEW actual \in Collected, NEW bypass \in BOOLEAN,
           DeliverImmediately(o, actual, bypass)
    PROVE  RowsFit(o)'
<1> DEFINE route == CollectionRoute(actual, bypass)
           exact == actual = AmountToCollect(o)
<1>0. TypeOK
  BY SoundFacts
<1>1. /\ orders'[o].delivered /\ orders'[o].needsReview = ~exact
  BY <1>0 DEF DeliverImmediately, DeliveredOrder, TypeOK
<1>2. ~exact => rows'[o] = CustodyRows(actual, route)
  BY <1>0 DEF DeliverImmediately, TypeOK
<1>3. ~exact => rows'[o].credit = NoRow
  BY <1>2 DEF CustodyRows, NoRows
<1>4. releases'[o].status = "NONE"
  BY Undelivered DEF DeliverImmediately, NoRelease
<1> QED BY <1>1, <1>3, <1>4 DEF RowsFit

LEMMA CreateFits ==
    ASSUME Sound, NEW s \in Settlements, NEW d \in Drivers, NEW amount \in 1..BalanceLimit,
           NEW alloc \in [Orders -> Nat], NEW unattributed \in Nat,
           CreateSettlement(s, d, amount, alloc, unattributed),
           NEW o \in Orders
    PROVE  RowsFit(o)'
<1> DEFINE done == CompletedBy(alloc)
<1>0. releases[o] \in Release /\ orders[o] \in Order
  BY PositionFacts
<1>1. /\ releases'[o] = IF o \in done THEN [WithAllocation(o, alloc[o]) EXCEPT !.status = "RELEASED"]
                        ELSE WithAllocation(o, alloc[o])
      /\ orders'[o] = IF o \in done THEN [orders[o] EXCEPT !.financial = "FINALIZED"] ELSE orders[o]
      /\ rows'[o] = IF o \in done THEN WithPostings(rows[o], releases[o].plan) ELSE rows[o]
  BY DEF CreateSettlement
<1>2. CASE o \in done
  <2>1. releases'[o].status = "RELEASED"
    BY <1>0, <1>1, <1>2 DEF WithAllocation, Release
  <2>2. Releasable(o, WithAllocation(o, alloc[o]), orders[o].financial)
    BY <1>2 DEF CreateSettlement
  <2>3. orders[o].delivered /\ orders[o].financial = "AWAITING_SETTLEMENT"
    BY <2>2 DEF Releasable, OrderMatchesRelease
  <2>4. releases[o].status = "PENDING"
    BY <1>0, <2>2 DEF Releasable, WithAllocation, Release
  <2>5. ~orders[o].needsReview
    BY <2>3, <2>4, PositionFacts DEF ReleaseCoherent, ReleaseMatchesOrder
  <2>6. orders'[o].delivered /\ ~orders'[o].needsReview
    BY <1>0, <1>1, <1>2, <2>3, <2>5 DEF Order
  <2> QED BY <2>1, <2>6 DEF RowsFit
<1>3. CASE o \notin done
  <2>1. releases'[o].status = releases[o].status /\ releases'[o].collection = releases[o].collection
    BY <1>0, <1>1, <1>3 DEF WithAllocation, Release
  <2> QED BY <1>1, <1>3, <2>1, RowsStayFit
<1> QED BY <1>2, <1>3

LEMMA ReverseSettlementFits ==
    ASSUME Sound, NEW s \in Settlements, ReverseSettlement(s), NEW o \in Orders
    PROVE  RowsFit(o)'
<1>1. releases[o] \in Release
  BY PositionFacts
<1>2. releases'[o].status = releases[o].status /\ releases'[o].collection = releases[o].collection
  BY <1>1 DEF ReverseSettlement, Release
<1>3. rows' = rows /\ orders' = orders
  BY DEF ReverseSettlement
<1> QED BY <1>2, <1>3, RowsStayFit

LEMMA ReviewFits ==
    ASSUME Sound, NEW o \in Orders, NEW plan \in CandidatePlans,
           ResolveImmediately(o, plan) \/ ResolveReleaseDifference(o, plan)
    PROVE  RowsFit(o)'
<1>0. TypeOK /\ orders[o] \in Order /\ releases[o] \in Release /\ rows[o] \in OrderRows
  BY PositionFacts
<1>1. CASE ResolveImmediately(o, plan)
  <2>1. orders'[o].delivered /\ ~orders'[o].needsReview
    BY <1>0, <1>1 DEF ResolveImmediately, ReviewPending, TypeOK, Order
  <2>2. releases' = releases /\ rows'[o] = WithPostings(rows[o], plan)
    BY <1>0, <1>1 DEF ResolveImmediately, TypeOK
  <2>3. rows'[o].collection = rows[o].collection
    BY <1>0, <2>2 DEF WithPostings, OrderRows
  <2> QED BY <2>1, <2>2, <2>3, RowsStayFit
<1>2. CASE ResolveReleaseDifference(o, plan)
  <2>1. orders'[o].delivered /\ ~orders'[o].needsReview
    BY <1>0, <1>2 DEF ResolveReleaseDifference, ReviewPending, TypeOK, Order
  <2>2. rows'[o] = WithPostings(rows[o], plan) \/ rows'[o] = rows[o]
    BY <1>0, <1>2 DEF ResolveReleaseDifference, TypeOK
  <2>3. rows'[o].collection = rows[o].collection
    BY <1>0, <2>2 DEF WithPostings, OrderRows
  <2>4. releases'[o].collection = releases[o].collection /\ releases[o].status = "PENDING"
    BY <1>0, <1>2 DEF ResolveReleaseDifference, TypeOK, Release
  <2> QED BY <2>1, <2>3, <2>4, RowsStayFit
<1> QED BY <1>1, <1>2

LEMMA VoidFits ==
    ASSUME Sound, NEW o \in Orders, VoidReleaseCollection(o)
    PROVE  RowsFit(o)'
<1>0. TypeOK /\ orders[o] \in Order /\ releases[o] \in Release
  BY PositionFacts
<1>1. orders'[o].delivered /\ ~orders'[o].needsReview
  BY <1>0 DEF VoidReleaseCollection, VoidTo, OrderMatchesRelease, TypeOK, Order
<1>2. releases'[o].status = "VOIDED"
  BY <1>0 DEF VoidReleaseCollection, VoidTo, TypeOK, Release
<1> QED BY <1>1, <1>2 DEF RowsFit

LEMMA ReverseReleaseFits ==
    ASSUME Sound, NEW o \in Orders, ReverseRelease(o)
    PROVE  RowsFit(o)'
<1>0. TypeOK /\ orders[o] \in Order /\ releases[o] \in Release
  BY PositionFacts
<1>1. orders[o].delivered /\ orders[o].financial = "FINALIZED" /\ releases[o].status = "RELEASED"
  BY DEF ReverseRelease, OrderMatchesRelease
<1>2. ~orders[o].needsReview
  BY <1>1, PositionFacts DEF ReleaseCoherent, ReleaseMatchesOrder
<1>3. orders'[o].delivered /\ ~orders'[o].needsReview
  BY <1>0, <1>1, <1>2 DEF ReverseRelease, TypeOK, Order
<1>4. releases'[o].status = "RELEASE_REVERSED"
  BY <1>0 DEF ReverseRelease, TypeOK, Release
<1> QED BY <1>3, <1>4 DEF RowsFit

LEMMA LedgerReversalFits ==
    ASSUME Sound, NEW o \in Orders,
           \/ ReverseCollection(o) \/ ReverseWalletCredit(o)
           \/ ReverseProductRevenue(o) \/ ReverseFeeRevenue(o)
    PROVE  RowsFit(o)'
<1>0. TypeOK /\ rows[o] \in OrderRows /\ rows \in [Orders -> OrderRows] /\ RowsFit(o)
  BY PositionFacts DEF TypeOK
<1>1. orders' = orders /\ releases' = releases
  BY DEF ReverseCollection, ReverseWalletCredit, ReverseProductRevenue, ReverseFeeRevenue
<1>2. rows[o] # NoRows
  BY DEF ReverseCollection, ReverseWalletCredit, ReverseProductRevenue, ReverseFeeRevenue,
         NoRows, NoRow
<1>3. orders[o].delivered
  BY <1>0, <1>2 DEF RowsFit
<1>4. CASE ReverseCollection(o)
  <2>1. rows'[o].credit = rows[o].credit /\ releases[o].status # "PENDING"
    BY <1>0, <1>4 DEF ReverseCollection, OrderRows
  <2> QED BY <1>1, <1>3, <2>1, RowsStayFit
<1>5. CASE ReverseWalletCredit(o)
  <2>1. rows'[o].collection = rows[o].collection /\ rows[o].credit # NoRow
    BY <1>0, <1>5 DEF ReverseWalletCredit, OrderRows, NoRow
  <2>2. ~orders[o].needsReview
    BY <1>0, <2>1 DEF RowsFit
  <2> QED BY <1>1, <1>3, <2>1, <2>2, RowsStayFit
<1>6. CASE ReverseProductRevenue(o)
  <2>1. rows'[o].collection = rows[o].collection /\ rows'[o].credit = rows[o].credit
    BY <1>0, <1>6 DEF ReverseProductRevenue, OrderRows
  <2> QED BY <1>1, <1>3, <2>1, RowsStayFit
<1>7. CASE ReverseFeeRevenue(o)
  <2>1. rows'[o].collection = rows[o].collection /\ rows'[o].credit = rows[o].credit
    BY <1>0, <1>7 DEF ReverseFeeRevenue, OrderRows
  <2> QED BY <1>1, <1>3, <2>1, RowsStayFit
<1> QED BY <1>4, <1>5, <1>6, <1>7

LEMMA NoAllocationsTotal == AllocationTotal(NoAllocations) = 0 /\ Allocated(NoAllocations) = {}
<1>1. Allocated(NoAllocations) = {}
  BY DEF Allocated, NoAllocations
<1> QED BY <1>1, SumOfNone DEF AllocationTotal

LEMMA SettlementsFit ==
    ASSUME Sound, [Next]_vars, NEW s \in Settlements
    PROVE  SettlementFits(s)'
<1>0. SettlementFits(s) /\ settlements[s] \in Settlement /\ TypeOK
  BY SoundFacts DEF TypeOK
<1>1. CASE settlements' = settlements
  BY <1>0, <1>1 DEF SettlementFits
<1>2. CASE Settling
  <2>1. PICK t \in Settlements :
            \/ \E d \in Drivers, alloc \in [Orders -> Collected],
                  unattributed \in 0..MaxManual, amount \in 1..BalanceLimit :
                    CreateSettlement(t, d, amount, alloc, unattributed)
            \/ \E d \in Drivers, amount \in Manual : CreateLegacySettlement(t, d, amount)
            \/ ReverseSettlement(t)
            \/ \E amount \in Manual : RecordShortfall(t, amount)
    BY <1>2 DEF Settling
  <2>2. CASE s # t
    <3>1. settlements'[s] = settlements[s]
      BY <1>0, <2>1, <2>2
         DEF CreateSettlement, CreateLegacySettlement, ReverseSettlement, RecordShortfall, TypeOK
    <3> QED BY <1>0, <3>1 DEF SettlementFits
  <2>3. ASSUME NEW d \in Drivers, NEW alloc \in [Orders -> Collected],
               NEW unattributed \in 0..MaxManual, NEW amount \in 1..BalanceLimit,
               CreateSettlement(s, d, amount, alloc, unattributed)
        PROVE  SettlementFits(s)'
    <3>1. settlements'[s] = NewSettlement(d, amount, FALSE, alloc)
      BY <1>0, <2>3 DEF CreateSettlement, TypeOK
    <3>2. \A o \in Allocated(alloc) : DriverOf[o] = d
      BY <2>3 DEF CreateSettlement, AllocationAccepted
    <3>3. alloc \in [Orders -> Nat]
      BY ConstantsAssumption DEF Collected
    <3>4. AllocationTotal(alloc) <= amount
      <4>1. amount = AllocationTotal(alloc) + unattributed /\ unattributed \in Nat
        BY <2>3, ConstantsAssumption DEF CreateSettlement
      <4>2. AllocationTotal(alloc) \in Int
        BY <3>2, <3>3, ShareTotals
      <4> QED BY <4>1, <4>2
    <3> QED BY <3>1, <3>2, <3>4 DEF SettlementFits, NewSettlement
  <2>4. ASSUME NEW d \in Drivers, NEW amount \in Manual, CreateLegacySettlement(s, d, amount)
        PROVE  SettlementFits(s)'
    <3>1. settlements'[s] = NewSettlement(d, amount, TRUE, NoAllocations)
      BY <1>0, <2>4 DEF CreateLegacySettlement, TypeOK
    <3>2. 0 <= amount
      BY ConstantsAssumption DEF Manual
    <3> QED BY <3>1, <3>2, NoAllocationsTotal DEF SettlementFits, NewSettlement
  <2>5. CASE ReverseSettlement(s)
    <3>1. settlements'[s] = [settlements[s] EXCEPT !.state = "REVERSED"] /\ settlements[s].shortfall = 0
      BY <1>0, <2>5 DEF ReverseSettlement, TypeOK
    <3>2. /\ settlements'[s].alloc = settlements[s].alloc
          /\ settlements'[s].amount = settlements[s].amount
          /\ settlements'[s].driver = settlements[s].driver
          /\ settlements'[s].shortfall = 0
      BY <1>0, <3>1 DEF Settlement
    <3> QED BY <1>0, <3>2 DEF SettlementFits
  <2>6. ASSUME NEW amount \in Manual, RecordShortfall(s, amount)
        PROVE  SettlementFits(s)'
    <3>1. /\ settlements'[s] = [settlements[s] EXCEPT !.shortfall = @ + amount]
          /\ settlements[s].state = "POSTED"
      BY <1>0, <2>6 DEF RecordShortfall, TypeOK
    <3>2. /\ settlements'[s].alloc = settlements[s].alloc
          /\ settlements'[s].amount = settlements[s].amount
          /\ settlements'[s].driver = settlements[s].driver
          /\ settlements'[s].state = "POSTED"
      BY <1>0, <3>1 DEF Settlement
    <3> QED BY <1>0, <3>2 DEF SettlementFits
  <2> QED BY <2>1, <2>2, <2>3, <2>4, <2>5, <2>6
<1> QED BY <1>1, <1>2, SettlementsUntouched DEF Next, vars

\* A step over the rows of another order.
LEMMA OthersStayFit ==
    ASSUME Sound, NEW q \in Orders,
           orders'[q] = orders[q], releases'[q] = releases[q], rows'[q] = rows[q]
    PROVE  RowsFit(q)'
BY RowsStayFit

LEMMA NextRowsFit ==
    ASSUME Sound, [Next]_vars, NEW q \in Orders
    PROVE  RowsFit(q)'
<1>0. TypeOK
  BY SoundFacts
<1>1. CASE UNCHANGED <<orders, releases, rows>>
  BY <1>1, OthersStayFit
<1>2. CASE Activate \/ Deactivate \/ Adjusting \/ Paying
  BY <1>1, <1>2, ElsewhereUnchanged
<1>3. CASE Delivering
  <2>1. PICK o \in Orders, actual \in Collected :
            \/ DeliverOnSettlement(o, actual)
            \/ \E bypass \in BOOLEAN : DeliverImmediately(o, actual, bypass)
    BY <1>3 DEF Delivering
  <2>2. CASE q = o
    BY <2>1, <2>2, DeliverOnSettlementFits, DeliverImmediatelyFits
  <2>3. CASE q # o
    <3>1. orders'[q] = orders[q] /\ releases'[q] = releases[q] /\ rows'[q] = rows[q]
      BY <1>0, <2>1, <2>3 DEF DeliverOnSettlement, DeliverImmediately, TypeOK
    <3> QED BY <3>1, OthersStayFit
  <2> QED BY <2>2, <2>3
<1>4. CASE Settling
  <2>1. PICK s \in Settlements :
            \/ \E d \in Drivers, alloc \in [Orders -> Collected],
                  unattributed \in 0..MaxManual, amount \in 1..BalanceLimit :
                    CreateSettlement(s, d, amount, alloc, unattributed)
            \/ \E d \in Drivers, amount \in Manual : CreateLegacySettlement(s, d, amount)
            \/ ReverseSettlement(s)
            \/ \E amount \in Manual : RecordShortfall(s, amount)
    BY <1>4 DEF Settling
  <2>2. ASSUME NEW d \in Drivers, NEW alloc \in [Orders -> Collected],
               NEW unattributed \in 0..MaxManual, NEW amount \in 1..BalanceLimit,
               CreateSettlement(s, d, amount, alloc, unattributed)
        PROVE  RowsFit(q)'
    <3>1. alloc \in [Orders -> Nat] /\ unattributed \in Nat
      BY ConstantsAssumption DEF Collected
    <3> QED BY <2>2, <3>1, CreateFits
  <2>3. CASE ReverseSettlement(s)
    BY <2>3, ReverseSettlementFits
  <2> QED BY <1>1, <2>1, <2>2, <2>3, ElsewhereUnchanged
<1>5. CASE Reviewing
  <2>1. PICK o \in Orders, plan \in CandidatePlans :
            ResolveImmediately(o, plan) \/ ResolveReleaseDifference(o, plan)
    BY <1>5 DEF Reviewing
  <2>2. CASE q = o
    BY <2>1, <2>2, ReviewFits
  <2>3. CASE q # o
    <3>1. CASE ResolveImmediately(o, plan)
      <4>1. orders'[q] = orders[q] /\ releases'[q] = releases[q] /\ rows'[q] = rows[q]
        BY <1>0, <2>3, <3>1 DEF ResolveImmediately, TypeOK
      <4> QED BY <4>1, OthersStayFit
    <3>2. CASE ResolveReleaseDifference(o, plan)
      <4>1. orders'[q] = orders[q] /\ releases'[q] = releases[q] /\ rows'[q] = rows[q]
        BY <1>0, <2>3, <3>2 DEF ResolveReleaseDifference, TypeOK
      <4> QED BY <4>1, OthersStayFit
    <3> QED BY <2>1, <3>1, <3>2
  <2> QED BY <2>2, <2>3
<1>6. CASE Correcting
  <2>1. PICK o \in Orders :
            \/ VoidReleaseCollection(o) \/ ReverseRelease(o) \/ ReverseCollection(o)
            \/ ReverseWalletCredit(o) \/ ReverseProductRevenue(o) \/ ReverseFeeRevenue(o)
    BY <1>6 DEF Correcting
  <2>2. CASE q = o
    BY <2>1, <2>2, VoidFits, ReverseReleaseFits, LedgerReversalFits
  <2>3. CASE q # o
    <3>1. orders'[q] = orders[q] /\ releases'[q] = releases[q] /\ rows'[q] = rows[q]
      BY <1>0, <2>1, <2>3
         DEF VoidReleaseCollection, VoidTo, ReverseRelease, ReverseCollection, ReverseWalletCredit,
             ReverseProductRevenue, ReverseFeeRevenue, TypeOK
    <3> QED BY <3>1, OthersStayFit
  <2> QED BY <2>2, <2>3
<1>7. CASE UNCHANGED vars
  BY <1>1, <1>7 DEF vars
<1> QED BY <1>2, <1>3, <1>4, <1>5, <1>6, <1>7 DEF Next

LEMMA NextAddsUp ==
    ASSUME Sound, [Next]_vars
    PROVE  AddsUp'
<1>0. TypeOK'
  BY SoundFacts, NextTyped
<1>1. AddsUp
  BY SoundFacts
<1>2. CASE Activate \/ Deactivate \/ UNCHANGED vars
  BY <1>1, <1>2, NothingAddsUp DEF Activate, Deactivate, vars, OrdersStand
<1>3. CASE Delivering
  BY <1>0, <1>3, DeliverOnSettlementAddsUp, DeliverImmediatelyAddsUp DEF Delivering
<1>4. CASE Settling
  <2>1. PICK s \in Settlements :
            \/ \E d \in Drivers, alloc \in [Orders -> Collected],
                  unattributed \in 0..MaxManual, amount \in 1..BalanceLimit :
                    CreateSettlement(s, d, amount, alloc, unattributed)
            \/ \E d \in Drivers, amount \in Manual : CreateLegacySettlement(s, d, amount)
            \/ ReverseSettlement(s)
            \/ \E amount \in Manual : RecordShortfall(s, amount)
    BY <1>4 DEF Settling
  <2>2. ASSUME NEW d \in Drivers, NEW alloc \in [Orders -> Collected],
               NEW unattributed \in 0..MaxManual, NEW amount \in 1..BalanceLimit,
               CreateSettlement(s, d, amount, alloc, unattributed)
        PROVE  AddsUp'
    <3>1. alloc \in [Orders -> Nat] /\ unattributed \in Nat
      BY ConstantsAssumption DEF Collected
    <3> QED BY <1>0, <2>2, <3>1, CreateAddsUp
  <2> QED BY <1>0, <2>1, <2>2, LegacyAddsUp, ReverseAddsUp, ShortfallAddsUp
<1>5. CASE Reviewing
  BY <1>0, <1>5, ResolveImmediatelyAddsUp, ResolveReleaseAddsUp DEF Reviewing
<1>6. CASE Correcting
  BY <1>0, <1>6, VoidAddsUp, ReverseReleaseAddsUp, ReverseCollectionAddsUp,
     ReverseWalletCreditAddsUp, ReverseRevenueAddsUp DEF Correcting
<1>7. CASE Adjusting
  BY <1>0, <1>7, AdjustCashAddsUp, AdjustWalletAddsUp, ReverseCashAdjustmentAddsUp,
     ReverseWalletAdjustmentAddsUp DEF Adjusting
<1>8. CASE Paying
  BY <1>0, <1>8, CreatePayoutAddsUp, ReversePayoutAddsUp DEF Paying
<1> QED BY <1>2, <1>3, <1>4, <1>5, <1>6, <1>7, <1>8 DEF Next

LEMMA NextSound == Sound /\ [Next]_vars => Sound'
<1> SUFFICES ASSUME Sound, [Next]_vars PROVE Sound'
  OBVIOUS
<1>1. Coherent'
  BY NextCoherent DEF Sound
<1>2. \A o \in Orders : RowsFit(o)'
  BY NextRowsFit
<1>3. \A s \in Settlements : SettlementFits(s)'
  BY SettlementsFit
<1>4. AddsUp'
  BY NextAddsUp
<1> QED BY <1>1, <1>2, <1>3, <1>4 DEF Sound

-----------------------------------------------------------------------------
(* The initial state: sums of nothing. *)

LEMMA ZerosTotal ==
    ASSUME NEW S, IsFiniteSet(S), NEW f, NEW P \in SUBSET S, \A x \in P : f[x] = 0
    PROVE  SumFunctionOnSet(f, P) = 0
<1>1. Selects(f, P, S) /\ Splits(f, P, f, P, f, P, S)
  BY DEF Selects, Splits, Counted
<1>2. SumFunctionOnSet(f, P) \in Int
  BY <1>1, CountedAll
<1>3. SumFunctionOnSet(f, P) = SumFunctionOnSet(f, P) + SumFunctionOnSet(f, P)
  BY <1>1, SelectionsAdd
<1>4. \A n \in Int : n = n + n => n = 0
  OBVIOUS
<1> QED BY <1>2, <1>3, <1>4

LEMMA InitSound == Init => Sound
<1> SUFFICES ASSUME Init PROVE Sound
  OBVIOUS
<1>1. IsFiniteSet(Orders) /\ IsFiniteSet(Settlements) /\ IsFiniteSet(Adjustments) /\ IsFiniteSet(Payouts)
  BY FiniteAssumption
<1>2. Coherent
  BY InitCoherent
<1>3. \A o \in Orders : RowsFit(o)
  BY DEF Init, RowsFit, UndeliveredOrder, NoRelease
<1>4. \A s \in Settlements : SettlementFits(s)
  BY NoAllocationsTotal DEF Init, SettlementFits, NoSettlement
<1>5. \A d \in Drivers : CollectionsOf(d) = 0
  <2>1. \A o \in Orders : Net(rows[o].collection) = 0
    BY DEF Init, NoRows, NoRow, Net
  <2> QED BY <1>1, <2>1, ZerosTotal DEF CollectionsOf
<1>6. \A c \in Customers : CreditsOf(c) = 0
  <2>1. \A o \in Orders : Net(rows[o].credit) = 0
    BY DEF Init, NoRows, NoRow, Net
  <2> QED BY <1>1, <2>1, ZerosTotal DEF CreditsOf
<1>7. \A d \in Drivers : SettledBy(d) = 0
  <2>1. \A s \in Settlements : Net(settlements[s]) - settlements[s].shortfall = 0
    BY DEF Init, NoSettlement, Net
  <2> QED BY <1>1, <2>1, ZerosTotal DEF SettledBy
<1>8. \A w \in Drivers \cup Customers : AdjustedFor(w) = 0
  <2>1. \A a \in Adjustments : Signed(adjustments[a]) = 0
    BY DEF Init, NoAdjustment, Net, Signed
  <2> QED BY <1>1, <2>1, ZerosTotal DEF AdjustedFor
<1>9. \A c \in Customers : PaidTo(c) = 0
  <2>1. \A p \in Payouts : Net(payouts[p]) = 0
    BY DEF Init, NoPayout, Net
  <2> QED BY <1>1, <2>1, ZerosTotal DEF PaidTo
<1>10. \A d \in Drivers : AttributedOutstanding(d) = 0
  <2>1. \A d \in Drivers : HoldingReleases(d) = {}
    BY DEF Init, HoldingReleases, HoldsCash, NoRelease
  <2> QED BY <2>1, SumOfNone DEF AttributedOutstanding
<1>11. \A o \in Orders : HandedOver(o) = 0
  <2>1. {s \in Settlements : settlements[s].state = "POSTED"} = {}
    BY DEF Init, NoSettlement
  <2> QED BY <2>1, SumOfNone DEF HandedOver
<1>12. BalancesEqualLedgers
  BY <1>5, <1>6, <1>7, <1>8, <1>9
     DEF BalancesEqualLedgers, CashLedgerNet, WalletLedgerNet, CreditsOf, PaidTo, Init
<1>13. ReservedCashIsHeld
  BY <1>10 DEF ReservedCashIsHeld, Unattributed, Init
<1>14. \A o \in Orders : releases[o].allocated = HandedOver(o)
  BY <1>11 DEF Init, NoRelease
<1> QED BY <1>2, <1>3, <1>4, <1>12, <1>13, <1>14 DEF Sound, AddsUp

\* Every sum the ledgers promise holds from the first request on.
THEOREM MoneyStaysSound == Spec => []Sound
<1> QED BY InitSound, NextSound, PTL DEF Spec

\* A cached balance equals the net of its ledger, for any number of orders,
\* drivers, customers, settlements, corrections and payouts.
THEOREM BalancesStayTrue == Spec => []BalancesEqualLedgers
<1>1. Sound => BalancesEqualLedgers
  BY DEF Sound, AddsUp
<1> QED BY <1>1, MoneyStaysSound, PTL

\* A driver always still holds the cash reserved for the collections that wait
\* for settlement.
THEOREM ReservedCashStaysHeld == Spec => []ReservedCashIsHeld
<1>1. Sound => ReservedCashIsHeld
  BY DEF Sound, AddsUp
<1> QED BY <1>1, MoneyStaysSound, PTL

\* What a release believes is settled is what the standing settlements
\* allocated to it, and never more than was collected.
THEOREM AllocationsStayTrue == Spec => []AllocationsAgree
<1>1. Sound => AllocationsAgree
  <2> SUFFICES ASSUME Sound, NEW o \in Orders
               PROVE  /\ releases[o].allocated = HandedOver(o)
                      /\ releases[o].allocated <= releases[o].collection
    BY DEF AllocationsAgree
  <2>1. ReleaseCoherent(o) /\ releases[o] \in Release
    BY PositionFacts
  <2>2. releases[o].allocated <= releases[o].collection
    BY <2>1 DEF ReleaseCoherent, AmountsCoherent, ReleaseMatchesOrder, NoRelease
  <2> QED BY <2>2 DEF Sound, AddsUp
<1> QED BY <1>1, MoneyStaysSound, PTL

===============================================================================
