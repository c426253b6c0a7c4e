-------------------------- MODULE OrderFinancials --------------------------
(***************************************************************************)
(* The arithmetic of an order's amounts, which the server applies to every *)
(* created or edited order (order-financial.service.ts) and the forms of   *)
(* the management client repeat (createOrder.schema.ts,                    *)
(* editOrder.schema.ts).  Amounts are whole cents: both sides compute      *)
(* exactly (Decimal, bigint), so there is no rounding to model.            *)
(*                                                                         *)
(* A payment is a record with the fields type, orderAmount, deliveryFee,   *)
(* prepaidOrder, prepaidFee, prepaidMethod and collectionMethod.           *)
(*                                                                         *)
(* Also what both forms and both handlers share: the saved receivers of a  *)
(* customer (customer_receivers), one row per customer and normalized      *)
(* phone, written only inside the transaction of an order create or edit.  *)
(* details stands for the name and the address, which like the phone as    *)
(* typed and the area always take the latest value; extra for the optional *)
(* columns (alternative phone, building, map link, instructions), which    *)
(* keep the saved value unless a new one is given or the edit cleared it.  *)
(***************************************************************************)
EXTENDS Integers

CONSTANTS MoneyMax,   \* MONEY_MAX_VALUE, in cents
          NoMethod    \* a NULL payment method

CONSTANTS
    Customers,          \* customers
    Areas, Methods,     \* areas and payment methods
    Phones,             \* receiver phones as typed
    PhoneKeys,          \* normalized phones
    NormalizedPhone,    \* [Phones -> PhoneKeys \cup {NoKey}]
    NoKey,              \* a phone that cannot be normalized
    NoReceiver,         \* no row for a customer and a normalized phone
    NoExtra,            \* NULL in the optional columns
    NoMemory            \* an edit that leaves the saved receivers alone

ASSUME MemoryAssumption ==
    /\ NormalizedPhone \in [Phones -> PhoneKeys \cup {NoKey}]
    /\ NoKey \notin PhoneKeys

PaymentTypes == {"CASH_ON_DELIVERY", "ALREADY_PAID", "PARTIALLY_PAID"}

MoneyFields == {"orderAmount", "deliveryFee", "prepaidOrder", "prepaidFee"}
MethodFields == {"prepaidMethod", "collectionMethod"}
PaymentFields == MoneyFields \cup MethodFields \cup {"type"}

RemainingOrder(p) == p.orderAmount - p.prepaidOrder
RemainingFee(p) == p.deliveryFee - p.prepaidFee
PrepaidTotal(p) == p.prepaidOrder + p.prepaidFee
AmountToCollect(p) == RemainingOrder(p) + RemainingFee(p)

(* calculateOrderFinancials refuses anything else.                         *)
Computable(p) ==
    /\ \A f \in MoneyFields : p[f] \in 0 .. MoneyMax
    /\ p.prepaidOrder <= p.orderAmount
    /\ p.prepaidFee <= p.deliveryFee

(* validatePaymentTypeConsistency.                                         *)
TypeConsistent(p) ==
    \/ p.type = "CASH_ON_DELIVERY" /\ p.prepaidOrder = 0 /\ p.prepaidFee = 0
    \/ p.type = "ALREADY_PAID" /\ RemainingOrder(p) = 0
    \/ /\ p.type = "PARTIALLY_PAID"
       /\ ~ (p.prepaidOrder = 0 /\ p.prepaidFee = 0)
       /\ ~ (RemainingOrder(p) = 0 /\ RemainingFee(p) = 0)

(* A method is named exactly when there is an amount it was or will be     *)
(* paid with.                                                              *)
MethodsMatch(p) ==
    /\ (p.prepaidMethod # NoMethod) <=> PrepaidTotal(p) > 0
    /\ (p.collectionMethod # NoMethod) <=> AmountToCollect(p) > 0

\* What the server stores is always of this form.
Sound(p) == Computable(p) /\ TypeConsistent(p) /\ MethodsMatch(p)

(* The superRefine of the forms, over amounts that parse.                  *)
FormAccepts(p) ==
    /\ p.prepaidOrder <= p.orderAmount
    /\ p.prepaidFee <= p.deliveryFee
    /\ p.type = "CASH_ON_DELIVERY" => PrepaidTotal(p) = 0
    /\ p.type = "ALREADY_PAID" => RemainingOrder(p) = 0
    /\ p.type = "PARTIALLY_PAID" => PrepaidTotal(p) # 0 /\ AmountToCollect(p) # 0
    /\ PrepaidTotal(p) > 0 => p.prepaidMethod # NoMethod
    /\ PrepaidTotal(p) = 0 => p.prepaidMethod = NoMethod
    /\ AmountToCollect(p) > 0 => p.collectionMethod # NoMethod
    /\ AmountToCollect(p) <= 0 => p.collectionMethod = NoMethod

(* The effects of both forms that keep the fields in step.                 *)

\* The fields of new where it has them, of old elsewhere.
Over(new, old) ==
    [f \in DOMAIN old |-> IF f \in DOMAIN new THEN new[f] ELSE old[f]]

\* The effects on paymentType and orderAmount.
NormalizedAmounts(form) ==
    IF form.type = "CASH_ON_DELIVERY"
    THEN [form EXCEPT !.prepaidOrder = 0, !.prepaidFee = 0]
    ELSE IF form.type = "ALREADY_PAID"
         THEN [form EXCEPT !.prepaidOrder = form.orderAmount]
         ELSE form

\* The effects on prepaidPositive and collectPositive; calculateOrderPreview
\* has no amount to collect when a prepaid amount exceeds its total.
NormalizedMethods(form) ==
    [form EXCEPT
        !.prepaidMethod = IF PrepaidTotal(form) > 0 THEN @ ELSE NoMethod,
        !.collectionMethod =
            IF /\ form.prepaidOrder <= form.orderAmount
               /\ form.prepaidFee <= form.deliveryFee
               /\ AmountToCollect(form) > 0
            THEN @ ELSE NoMethod]

-----------------------------------------------------------------------------
(* INSERT ... ON CONFLICT (customer_id, normalized_phone) DO UPDATE.       *)
Upserted(row, memory) ==
    [phone |-> memory.phone,
     details |-> memory.details,
     area |-> memory.area,
     extra |-> IF memory.cleared THEN NoExtra
               ELSE IF memory.extra # NoExtra \/ row = NoReceiver
                    THEN memory.extra
               ELSE row.extra]

(* rememberCustomerReceiverTx: a phone without a safe identity is skipped. *)
Remembered(receivers, memory) ==
    LET key == NormalizedPhone[memory.phone] IN
    IF key = NoKey THEN receivers
    ELSE [receivers EXCEPT ![memory.customer][key] = Upserted(@, memory)]
=============================================================================
