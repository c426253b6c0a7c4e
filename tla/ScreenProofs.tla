---------------------------- MODULE ScreenProofs ----------------------------
(***************************************************************************)
(* What holds of the forms and screens, for every number of requests,      *)
(* orders and amounts.                                                     *)
(*                                                                         *)
(* The edit dialog (OrderEditing): the stored payment stays consistent,    *)
(* nothing is edited after the delivery, and an order nobody else touched  *)
(* becomes what the form showed.  The creation page (OrderCreation): what  *)
(* it showed when it was sent is what is stored.  The scanner of the       *)
(* driver (ScanSession): an order is picked up once per assignment.  The   *)
(* cache of server data (QueryCache): a write of the session is never      *)
(* forgotten.  The driver's job page (DriverJobScreen) and the order page  *)
(* (OrderScreen): a delivery differs from what is due only with a reason,  *)
(* and unassigning removes the driver who was shown.                       *)
(***************************************************************************)
EXTENDS OrderEditing, OrderCreation, ScanSession, QueryCache, DriverJobScreen,
        OrderScreen, TLAPS

\* The form refuses what the server's arithmetic refuses: whatever amounts an
\* operator types within the supported range, a form the client accepts is one
\* the server computes and finds consistent (createOrder.schema.ts and
\* editOrder.schema.ts against order-financial.service.ts).
THEOREM FormsMirrorTheServer ==
    ASSUME NEW p, MoneyMax \in Nat,
           \A f \in MoneyFields : p[f] \in 0 .. MoneyMax,
           p.type \in PaymentTypes
    PROVE  FormAccepts(p) <=> Sound(p)
<1>1. /\ p.orderAmount \in 0 .. MoneyMax /\ p.deliveryFee \in 0 .. MoneyMax
      /\ p.prepaidOrder \in 0 .. MoneyMax /\ p.prepaidFee \in 0 .. MoneyMax
  BY DEF MoneyFields
<1>2. ASSUME FormAccepts(p) PROVE Sound(p)
  <2>1. Computable(p)
    BY <1>2 DEF FormAccepts, Computable
  <2>2. TypeConsistent(p)
    BY <1>1, <1>2 DEF FormAccepts, TypeConsistent, PaymentTypes, PrepaidTotal,
                      RemainingOrder, RemainingFee, AmountToCollect
  <2>3. MethodsMatch(p)
    BY <1>1, <1>2 DEF FormAccepts, MethodsMatch, PrepaidTotal,
                      RemainingOrder, RemainingFee, AmountToCollect
  <2> QED BY <2>1, <2>2, <2>3 DEF Sound
<1>3. ASSUME Sound(p) PROVE FormAccepts(p)
  <2>1. /\ p.prepaidOrder <= p.orderAmount /\ p.prepaidFee <= p.deliveryFee
        /\ TypeConsistent(p) /\ MethodsMatch(p)
    BY <1>3 DEF Sound, Computable
  <2>2. /\ PrepaidTotal(p) \in Nat /\ AmountToCollect(p) \in Nat
    BY <1>1, <2>1 DEF PrepaidTotal, AmountToCollect, RemainingOrder, RemainingFee
  <2>3. /\ p.type = "CASH_ON_DELIVERY" => PrepaidTotal(p) = 0
        /\ p.type = "ALREADY_PAID" => RemainingOrder(p) = 0
    BY <1>1, <2>1 DEF TypeConsistent, PrepaidTotal
  <2>4. p.type = "PARTIALLY_PAID" => PrepaidTotal(p) # 0 /\ AmountToCollect(p) # 0
    BY <1>1, <2>1 DEF TypeConsistent, PrepaidTotal, AmountToCollect, RemainingOrder,
                      RemainingFee
  <2>5. /\ PrepaidTotal(p) > 0 => p.prepaidMethod # NoMethod
        /\ PrepaidTotal(p) = 0 => p.prepaidMethod = NoMethod
        /\ AmountToCollect(p) > 0 => p.collectionMethod # NoMethod
        /\ AmountToCollect(p) <= 0 => p.collectionMethod = NoMethod
    BY <2>1, <2>2 DEF MethodsMatch
  <2> QED BY <2>1, <2>3, <2>4, <2>5 DEF FormAccepts
<1> QED BY <1>2, <1>3

-----------------------------------------------------------------------------
RequestFields == {"from", "body", "form", "changed", "phase", "result",
                  "existing", "refused", "data", "memory"}

\* What an UPDATE may name: nothing of the payment, or all of it, consistent.
DataOK(data) ==
    \/ DOMAIN data \cap (PaymentFields \cup {"toCollect"}) = {}
    \/ PaymentFields \cup {"toCollect"} \subseteq DOMAIN data /\ Stored(data)

RowOK(row) == DOMAIN row = RowFields /\ Stored(row)

RequestOK(r) ==
    /\ DOMAIN r = RequestFields
    /\ DOMAIN r.body \subseteq Editable
    /\ r.phase \in {"read", "checked"} =>
           RowOK(r.existing) /\ r.existing.status # "DELIVERED"
    /\ r.phase = "checked" => DataOK(r.data)

(* The strengthening: a request holds a consistent reading of an order that *)
(* was not delivered, and the block it will write is consistent by itself.  *)
Inv ==
    /\ RowOK(order)
    /\ DOMAIN requests = Slots
    /\ \A s \in Slots : requests[s] # NoRequest => RequestOK(requests[s])

\* Soundness reads nothing but the payment fields.
LEMMA StoredReads ==
    ASSUME NEW p, NEW q,
           \A f \in PaymentFields \cup {"toCollect"} : p[f] = q[f],
           Stored(p)
    PROVE  Stored(q)
<1>1. /\ p.type = q.type /\ p.toCollect = q.toCollect
      /\ p.orderAmount = q.orderAmount /\ p.deliveryFee = q.deliveryFee
      /\ p.prepaidOrder = q.prepaidOrder /\ p.prepaidFee = q.prepaidFee
      /\ p.prepaidMethod = q.prepaidMethod
      /\ p.collectionMethod = q.collectionMethod
  BY DEF PaymentFields, MoneyFields, MethodFields
<1>2. Computable(q)
  BY <1>1 DEF Stored, Sound, Computable, MoneyFields
<1>3. TypeConsistent(q)
  BY <1>1 DEF Stored, Sound, TypeConsistent, RemainingOrder, RemainingFee
<1>4. MethodsMatch(q) /\ q.toCollect = AmountToCollect(q)
  BY <1>1 DEF Stored, Sound, MethodsMatch, PrepaidTotal, AmountToCollect,
              RemainingOrder, RemainingFee
<1> QED BY <1>2, <1>3, <1>4 DEF Stored, Sound

\* A payment the server does not refuse is one it may store.
LEMMA EffectiveIsSound ==
    ASSUME NEW body, NEW existing, MoneyMax \in Nat,
           PaymentTouched(body), Refused(body, existing) = {}
    PROVE  Sound(Effective(body, existing))
<1> DEFINE p == Effective(body, existing)
           merged == Over(body, [f \in PaymentFields |-> existing[f]])
<1>1. Computable(p) /\ TypeConsistent(p)
  BY DEF Refused
<1>2. /\ ~ MethodRefused(body, p, "prepaidMethod", PrepaidTotal(p))
      /\ ~ MethodRefused(body, p, "collectionMethod", AmountToCollect(p))
  BY <1>1 DEF Refused
<1>3. DOMAIN merged = PaymentFields
  BY DEF Over
<1>4. /\ p.orderAmount = merged.orderAmount /\ p.deliveryFee = merged.deliveryFee
      /\ p.prepaidOrder = merged.prepaidOrder /\ p.prepaidFee = merged.prepaidFee
      /\ p.prepaidMethod = IF PrepaidTotal(merged) = 0 THEN NoMethod
                           ELSE merged.prepaidMethod
      /\ p.collectionMethod = IF AmountToCollect(merged) = 0 THEN NoMethod
                              ELSE merged.collectionMethod
  BY <1>3 DEF Effective, PaymentFields, MoneyFields, MethodFields
<1>5. /\ PrepaidTotal(p) = PrepaidTotal(merged)
      /\ AmountToCollect(p) = AmountToCollect(merged)
  BY <1>4 DEF PrepaidTotal, AmountToCollect, RemainingOrder, RemainingFee
<1> HIDE DEF p, merged
<1>6. PrepaidTotal(p) \in Nat /\ AmountToCollect(p) \in Nat
  BY <1>1 DEF Computable, MoneyFields, PrepaidTotal, AmountToCollect,
              RemainingOrder, RemainingFee
<1>7. MethodsMatch(p)
  BY <1>2, <1>4, <1>5, <1>6 DEF MethodsMatch, MethodRefused
<1> QED BY <1>1, <1>7 DEF Sound, p

\* What the transaction will write is consistent by itself.
LEMMA DataIsOK ==
    ASSUME NEW body, NEW existing, MoneyMax \in Nat,
           DOMAIN body \subseteq Editable, Refused(body, existing) = {}
    PROVE  DataOK(Data(body, existing))
<1> DEFINE data == Data(body, existing)
           p == Effective(body, existing)
<1>1. CASE ~ PaymentTouched(body)
  <2>1. DOMAIN data \subseteq DOMAIN body
    BY <1>1 DEF Data, Named
  <2>2. DOMAIN body \cap (PaymentFields \cup {"toCollect"}) = {}
    BY <1>1 DEF PaymentTouched, Editable, ReceiverFields, PaymentFields,
                MoneyFields, MethodFields
  <2> QED BY <2>1, <2>2 DEF DataOK
<1>2. CASE PaymentTouched(body)
  <2>1. DOMAIN data = Named(body, existing) \cup PaymentFields \cup {"toCollect"}
    BY <1>2 DEF Data
  <2>2. \A f \in PaymentFields : data[f] = p[f]
    BY <1>2 DEF Data, PaymentFields, MoneyFields, MethodFields
  <2>3. data.toCollect = AmountToCollect(p)
    BY <1>2 DEF Data
  <2>4. Sound(p)
    BY <1>2, EffectiveIsSound
  <2> DEFINE row == [f \in PaymentFields \cup {"toCollect"} |-> data[f]]
  <2>5. \A f \in PaymentFields \cup {"toCollect"} : row[f] = data[f]
    OBVIOUS
  <2> HIDE DEF p, data
  <2>6. Stored(data)
    <3>1. /\ p.type = data.type
          /\ p.orderAmount = data.orderAmount /\ p.deliveryFee = data.deliveryFee
          /\ p.prepaidOrder = data.prepaidOrder /\ p.prepaidFee = data.prepaidFee
          /\ p.prepaidMethod = data.prepaidMethod
          /\ p.collectionMethod = data.collectionMethod
      BY <2>2 DEF PaymentFields, MoneyFields, MethodFields
    <3>2. Computable(data)
      BY <2>4, <3>1 DEF Sound, Computable, MoneyFields
    <3>3. TypeConsistent(data)
      BY <2>4, <3>1 DEF Sound, TypeConsistent, RemainingOrder, RemainingFee
    <3>4. MethodsMatch(data) /\ data.toCollect = AmountToCollect(data)
      BY <2>3, <2>4, <3>1 DEF Sound, MethodsMatch, PrepaidTotal, AmountToCollect,
                              RemainingOrder, RemainingFee
    <3> QED BY <3>2, <3>3, <3>4 DEF Stored, Sound
  <2> QED BY <2>1, <2>6 DEF DataOK, data
<1> QED BY <1>1, <1>2

\* Writing such columns over a consistent row leaves a consistent row.
LEMMA WritingKeepsRow ==
    ASSUME NEW row, NEW data, RowOK(row), DataOK(data)
    PROVE  RowOK(Over(data, row))
<1> DEFINE new == Over(data, row)
<1>1. DOMAIN new = RowFields /\ PaymentFields \cup {"toCollect"} \subseteq RowFields
  BY DEF RowOK, Over, RowFields, Editable
<1>2. CASE DOMAIN data \cap (PaymentFields \cup {"toCollect"}) = {}
  <2>1. \A f \in PaymentFields \cup {"toCollect"} : row[f] = new[f]
    BY <1>1, <1>2 DEF Over, RowOK
  <2> QED BY <1>1, <2>1, StoredReads DEF RowOK
<1>3. CASE PaymentFields \cup {"toCollect"} \subseteq DOMAIN data /\ Stored(data)
  <2>1. \A f \in PaymentFields \cup {"toCollect"} : data[f] = new[f]
    BY <1>1, <1>3 DEF Over, RowOK
  <2> QED BY <1>1, <1>3, <2>1, StoredReads DEF RowOK
<1> QED BY <1>2, <1>3 DEF DataOK

-----------------------------------------------------------------------------
\* A step of one handler on its request leaves the others as they are.
LEMMA StepKeeps ==
    ASSUME Inv, NEW s \in Slots, NEW changes, requests[s] # NoRequest,
           Step(s, changes), RequestOK(Over(changes, requests[s]))
    PROVE  /\ DOMAIN requests' = Slots
           /\ \A t \in Slots : requests'[t] # NoRequest => RequestOK(requests'[t])
<1>1. /\ DOMAIN requests' = Slots
      /\ \A t \in Slots : requests'[t] = IF t = s THEN Over(changes, requests[s])
                                         ELSE requests[t]
  BY DEF Inv, Step
<1> QED BY <1>1 DEF Inv

LEMMA SendKeeps ==
    ASSUME Inv, NEW s \in Slots, NEW from, NEW body, NEW typed, NEW changed,
           DOMAIN body \subseteq Editable, Send(s, from, body, typed, changed)
    PROVE  /\ DOMAIN requests' = Slots
           /\ \A t \in Slots : requests'[t] # NoRequest => RequestOK(requests'[t])
<1> DEFINE new == [from |-> from, body |-> body, form |-> typed, changed |-> changed,
                   phase |-> "sent", result |-> "none", existing |-> NoSeed,
                   refused |-> {}, data |-> NoData, memory |-> NoMemory]
<1>1. /\ DOMAIN requests' = Slots
      /\ \A t \in Slots : requests'[t] = IF t = s THEN new ELSE requests[t]
  BY DEF Inv, Send
<1>2. RequestOK(new)
  BY DEF RequestOK, RequestFields
<1> HIDE DEF new
<1> QED BY <1>1, <1>2 DEF Inv

\* The request that Over makes, field by field.
LEMMA OverFields ==
    ASSUME NEW r, NEW changes, DOMAIN r = RequestFields
    PROVE  /\ DOMAIN Over(changes, r) = RequestFields
           /\ \A f \in RequestFields :
                  Over(changes, r)[f] = IF f \in DOMAIN changes THEN changes[f]
                                        ELSE r[f]
  BY DEF Over

\* A request that ends, or loses its client, keeps what is known of it.
LEMMA EndKeeps ==
    ASSUME NEW r, NEW changes, RequestOK(r),
           DOMAIN changes \cap {"body", "existing", "data"} = {},
           "phase" \in DOMAIN changes => changes.phase = "done"
    PROVE  RequestOK(Over(changes, r))
<1> DEFINE new == Over(changes, r)
<1>1. DOMAIN r = RequestFields
  BY DEF RequestOK
<1>2. /\ DOMAIN new = RequestFields
      /\ new.body = r.body /\ new.existing = r.existing /\ new.data = r.data
      /\ new.phase = r.phase \/ new.phase = "done"
  BY <1>1, OverFields DEF RequestFields
<1> HIDE DEF new
<1>3. RequestOK(new)
  BY <1>2 DEF RequestOK
<1> QED BY <1>3 DEF new

\* The initial states are consistent.
LEMMA InitInv == Init => Inv
  BY EditingAssumption DEF Init, Inv, RowOK

\* Each action keeps the strengthening.
LEMMA NextInv == Inv /\ [Next]_vars => Inv'
<1> SUFFICES ASSUME Inv, [Next]_vars PROVE Inv'
  OBVIOUS
<1> DEFINE RequestsOK ==
      /\ DOMAIN requests = Slots
      /\ \A s \in Slots : requests[s] # NoRequest => RequestOK(requests[s])
<1>0. RowOK(order) /\ RequestsOK
  BY DEF Inv
<1>1. ASSUME NEW m \in Managers, Open(m) \/ Close(m) \/ Refetch(m) PROVE Inv'
  BY <1>1 DEF Open, Close, Refetch, Inv
<1>2. ASSUME NEW m \in Managers, NEW s \in Slots, NEW edit \in Edits, Save(m, s, edit)
      PROVE Inv'
  <2> DEFINE typed == Form(dialogs[m].seed, edit)
             body == Body(typed, dialogs[m].seed)
  <2>1. DOMAIN body \subseteq Editable
    BY DEF Body
  <2>2. Send(s, m, body, typed, Changed(typed, dialogs[m].seed)) /\ order' = order
    BY <1>2 DEF Save
  <2> HIDE DEF typed, body
  <2>3. RequestsOK'
    BY <2>1, <2>2, SendKeeps
  <2> QED BY <1>0, <2>2, <2>3 DEF Inv
<1>3. ASSUME NEW c \in Callers, NEW s \in Slots, NEW body \in Bodies, Call(c, s, body)
      PROVE Inv'
  <2>1. DOMAIN body \subseteq Editable
    BY EditingAssumption
  <2>2. Send(s, c, body, NoSeed, DOMAIN body) /\ order' = order
    BY <1>3 DEF Call
  <2>3. RequestsOK'
    BY <2>1, <2>2, SendKeeps
  <2> QED BY <1>0, <2>2, <2>3 DEF Inv
<1>4. ASSUME NEW s \in Slots, Read(s) PROVE Inv'
  <2> DEFINE r == requests[s]
  <2>1. r # NoRequest /\ RequestOK(r) /\ order' = order
    BY <1>0, <1>4 DEF Read
  <2>2. CASE Step(s, [phase |-> "done", result |-> "invalid", refused |-> {"phone"}])
    <3>1. RequestOK(Over([phase |-> "done", result |-> "invalid",
                          refused |-> {"phone"}], r))
      BY <2>1, EndKeeps
    <3> QED BY <1>0, <2>1, <2>2, <3>1, StepKeeps DEF Inv
  <2>3. CASE Finish(s, "conflict")
    <3>1. RequestOK(Over([phase |-> "done", result |-> "conflict"], r))
      BY <2>1, EndKeeps
    <3> QED BY <1>0, <2>1, <2>3, <3>1, StepKeeps DEF Inv, Finish
  <2>4. CASE order.status # "DELIVERED" /\ Step(s, [phase |-> "read", existing |-> order])
    <3> DEFINE new == Over([phase |-> "read", existing |-> order], r)
    <3>1. /\ DOMAIN new = RequestFields /\ new.body = r.body
          /\ new.phase = "read" /\ new.existing = order
      BY <2>1, OverFields DEF RequestOK, RequestFields
    <3> HIDE DEF new
    <3>2. RequestOK(new)
      BY <1>0, <2>1, <2>4, <3>1 DEF RequestOK
    <3> QED BY <1>0, <2>1, <2>4, <3>2, StepKeeps DEF Inv, new
  <2> QED BY <1>4, <2>2, <2>3, <2>4 DEF Read
<1>5. ASSUME NEW s \in Slots, Check(s) PROVE Inv'
  <2> DEFINE r == requests[s]
             refused == Refused(r.body, r.existing)
  <2>1. /\ r # NoRequest /\ RequestOK(r) /\ order' = order
        /\ RowOK(r.existing) /\ r.existing.status # "DELIVERED"
    BY <1>0, <1>5 DEF Check, RequestOK
  <2>2. CASE Step(s, [phase |-> "done", result |-> "invalid", refused |-> refused])
    <3>1. RequestOK(Over([phase |-> "done", result |-> "invalid",
                          refused |-> refused], r))
      BY <2>1, EndKeeps
    <3> QED BY <1>0, <2>1, <2>2, <3>1, StepKeeps DEF Inv
  <2>3. CASE /\ refused = {}
             /\ Step(s, [phase |-> "checked", data |-> Data(r.body, r.existing),
                         memory |-> Memory(r.body, r.existing)])
    <3> DEFINE changes == [phase |-> "checked", data |-> Data(r.body, r.existing),
                           memory |-> Memory(r.body, r.existing)]
               new == Over(changes, r)
    <3>0. /\ DOMAIN changes = {"phase", "data", "memory"}
          /\ changes.phase = "checked" /\ changes.data = Data(r.body, r.existing)
      OBVIOUS
    <3>a. Step(s, changes)
      BY <2>3
    <3> HIDE DEF changes
    <3>1. /\ DOMAIN new = RequestFields /\ new.body = r.body
          /\ new.phase = "checked" /\ new.existing = r.existing
          /\ new.data = Data(r.body, r.existing)
      BY <2>1, <3>0, OverFields DEF RequestOK, RequestFields
    <3>2. DataOK(Data(r.body, r.existing))
      BY <2>1, <2>3, DataIsOK, EditingAssumption DEF RequestOK
    <3> HIDE DEF new
    <3>3. RequestOK(new)
      BY <2>1, <3>1, <3>2 DEF RequestOK
    <3> QED BY <1>0, <2>1, <3>a, <3>3, StepKeeps DEF Inv, new
  <2> QED BY <1>5, <2>2, <2>3 DEF Check
<1>6. ASSUME NEW s \in Slots, Commit(s) PROVE Inv'
  <2> DEFINE r == requests[s]
  <2>1. r # NoRequest /\ RequestOK(r) /\ r.phase = "checked" /\ DataOK(r.data)
    BY <1>0, <1>6 DEF Commit, RequestOK
  <2>2. RowOK(order')
    BY <1>0, <1>6, <2>1, WritingKeepsRow DEF Commit
  <2>3. PICK result : Finish(s, result)
    BY <1>6 DEF Commit
  <2>4. RequestOK(Over([phase |-> "done", result |-> result], r))
    BY <2>1, EndKeeps
  <2>5. RequestsOK'
    BY <2>1, <2>3, <2>4, StepKeeps DEF Finish
  <2> QED BY <2>2, <2>5 DEF Inv
<1>7. ASSUME NEW s \in Slots, Answer(s) PROVE Inv'
  <2>1. order' = order /\ requests' = [requests EXCEPT ![s] = NoRequest]
    BY <1>7 DEF Answer
  <2> QED BY <1>0, <2>1 DEF Inv
<1>8. ASSUME NEW s \in Slots, GiveUp(s) PROVE Inv'
  <2> DEFINE r == requests[s]
  <2>1. r # NoRequest /\ RequestOK(r) /\ order' = order
    BY <1>0, <1>8 DEF GiveUp
  <2>2. CASE Step(s, [from |-> Nobody])
    <3>1. RequestOK(Over([from |-> Nobody], r))
      BY <2>1, EndKeeps
    <3> QED BY <1>0, <2>1, <2>2, <3>1, StepKeeps DEF Inv
  <2>3. CASE requests' = [requests EXCEPT ![s] = NoRequest]
    BY <1>0, <2>1, <2>3 DEF Inv
  <2> QED BY <1>8, <2>2, <2>3 DEF GiveUp
<1>9. ASSUME NEW to \in Statuses, Move(to) PROVE Inv'
  <2>1. requests' = requests /\ order' = [order EXCEPT !.status = to]
    BY <1>9 DEF Move
  <2>2. DOMAIN order' = RowFields
        /\ \A f \in PaymentFields \cup {"toCollect"} : order[f] = order'[f]
    BY <1>0, <2>1 DEF RowOK, RowFields, PaymentFields, MoneyFields, MethodFields
  <2>3. RowOK(order')
    BY <1>0, <2>2, StoredReads DEF RowOK
  <2> QED BY <1>0, <2>1, <2>3 DEF Inv
<1>10. ASSUME NEW x \in Deactivatable, Deactivate(x) PROVE Inv'
  BY <1>10 DEF Deactivate, Inv
<1>11. ASSUME UNCHANGED vars PROVE Inv'
  BY <1>11 DEF vars, Inv
<1> QED BY <1>1, <1>2, <1>3, <1>4, <1>5, <1>6, <1>7, <1>8, <1>9, <1>10, <1>11 DEF Next

LEMMA AlwaysInv == Spec => []Inv
  BY InitInv, NextInv, PTL DEF Spec

\* However many full and partial edits interleave, over whatever amounts: the
\* stored amounts, payment type, methods and total belong to one another
\* (updateOrder).
THEOREM PaymentStaysConsistent == Spec => []PaymentConsistent
<1>1. Inv => PaymentConsistent
  BY DEF Inv, RowOK, PaymentConsistent
<1> QED BY <1>1, AlwaysInv, PTL

\* No step changes a delivered order: an edit claims the status it has read,
\* which was not DELIVERED.
LEMMA DeliveredStep ==
    Inv /\ [Next]_vars => (order.status = "DELIVERED" => order' = order)
<1> SUFFICES ASSUME Inv, [Next]_vars, order.status = "DELIVERED" PROVE order' = order
  OBVIOUS
<1>1. ASSUME NEW s \in Slots, Commit(s) PROVE order' = order
  <2>1. RequestOK(requests[s]) /\ requests[s].phase = "checked"
    BY <1>1 DEF Inv, Commit
  <2>2. requests[s].existing.status # "DELIVERED"
    BY <2>1 DEF RequestOK
  <2>3. ~ Claims(requests[s])
    BY <2>2 DEF Claims
  <2> QED BY <1>1, <2>3 DEF Commit
<1>2. ASSUME NEW to \in Statuses, Move(to) PROVE order' = order
  BY <1>2, EditingAssumption DEF Move
<1>3. ASSUME NEW m \in Managers, Open(m) \/ Close(m) \/ Refetch(m) PROVE order' = order
  BY <1>3 DEF Open, Close, Refetch
<1>4. ASSUME NEW m \in Managers, NEW s \in Slots, NEW edit \in Edits, Save(m, s, edit)
      PROVE order' = order
  BY <1>4 DEF Save
<1>5. ASSUME NEW c \in Callers, NEW s \in Slots, NEW body \in Bodies, Call(c, s, body)
      PROVE order' = order
  BY <1>5 DEF Call
<1>6. ASSUME NEW s \in Slots, Read(s) \/ Check(s) \/ Answer(s) \/ GiveUp(s)
      PROVE order' = order
  BY <1>6 DEF Read, Check, Answer, GiveUp
<1>7. ASSUME NEW x \in Deactivatable, Deactivate(x) PROVE order' = order
  BY <1>7 DEF Deactivate
<1>8. ASSUME UNCHANGED vars PROVE order' = order
  BY <1>8 DEF vars
<1> QED BY <1>1, <1>2, <1>3, <1>4, <1>5, <1>6, <1>7, <1>8 DEF Next

\* An order is never edited after its delivery, whatever was read and checked
\* before it (the CONCURRENCY GUARD of updateOrder).
THEOREM DeliveredStaysFrozen == Spec => DeliveredIsFrozen
<1>1. Inv /\ [Next]_vars => [order.status = "DELIVERED" => order' = order]_vars
  BY DeliveredStep
<1> QED BY <1>1, AlwaysInv, PTL DEF Spec, DeliveredIsFrozen

-----------------------------------------------------------------------------
(* What a form showed is what its request saves.                           *)

\* The request of a dialog says what its form showed: all of it, but a phone
\* that was not changed.
FormSent(r) ==
    r.form # NoSeed =>
        /\ DOMAIN r.form = Editable /\ FormAccepts(r.form)
        /\ r.body = [f \in Editable \ ({"phone"} \ r.changed) |-> r.form[f]]

\* What a request has come to, and what its transaction will write.
Underway(r) ==
    /\ r.phase # "done" => r.result = "none"
    /\ r.phase = "checked" => r.data = Data(r.body, r.existing)

Known == \A s \in Slots : requests[s] # NoRequest => FormSent(requests[s]) /\ Underway(requests[s])

LEMMA FormIsSent ==
    ASSUME NEW typed, NEW seed, NEW edit, typed = Form(seed, edit), FormValid(typed, seed)
    PROVE  /\ DOMAIN typed = Editable /\ FormAccepts(typed)
           /\ Body(typed, seed)
                = [f \in Editable \ ({"phone"} \ Changed(typed, seed)) |-> typed[f]]
<1>1. DOMAIN Over(edit, Fields(seed)) = Editable
  BY DEF Over, Fields
<1>2. DOMAIN NormalizedAmounts(Over(edit, Fields(seed))) = Editable
  BY <1>1 DEF NormalizedAmounts
<1>3. DOMAIN typed = Editable
  BY <1>2 DEF Form, NormalizedMethods
<1>4. FormAccepts(typed)
  BY DEF FormValid
<1>5. {"phone"} \ Changed(typed, seed) = IF typed.phone = seed.phone THEN {"phone"} ELSE {}
  BY DEF Changed, Editable, ReceiverFields
<1>6. Body(typed, seed) = [f \in Editable \ ({"phone"} \ Changed(typed, seed)) |-> typed[f]]
  BY <1>5 DEF Body
<1> QED BY <1>3, <1>4, <1>6

\* A step of one handler keeps what is known of all requests.
LEMMA StepKnows ==
    ASSUME Inv, Known, NEW s \in Slots, NEW changes, requests[s] # NoRequest,
           Step(s, changes),
           FormSent(Over(changes, requests[s])), Underway(Over(changes, requests[s]))
    PROVE  Known'
<1>1. \A t \in Slots : requests'[t] = IF t = s THEN Over(changes, requests[s]) ELSE requests[t]
  BY DEF Inv, Step
<1> QED BY <1>1 DEF Known, FormSent, Underway

LEMMA SendKnows ==
    ASSUME Inv, Known, NEW s \in Slots, NEW from, NEW body, NEW typed, NEW changed,
           Send(s, from, body, typed, changed),
           typed # NoSeed =>
               /\ DOMAIN typed = Editable /\ FormAccepts(typed)
               /\ body = [f \in Editable \ ({"phone"} \ changed) |-> typed[f]]
    PROVE  Known'
<1> DEFINE new == [from |-> from, body |-> body, form |-> typed, changed |-> changed,
                   phase |-> "sent", result |-> "none", existing |-> NoSeed,
                   refused |-> {}, data |-> NoData, memory |-> NoMemory]
<1>1. \A t \in Slots : requests'[t] = IF t = s THEN new ELSE requests[t]
  BY DEF Inv, Send
<1>2. FormSent(new) /\ Underway(new)
  BY DEF FormSent, Underway
<1> HIDE DEF new
<1>3. ASSUME NEW t \in Slots, requests'[t] # NoRequest
      PROVE  FormSent(requests'[t]) /\ Underway(requests'[t])
  BY <1>1, <1>2, <1>3 DEF Known
<1> QED BY <1>3 DEF Known, FormSent, Underway

\* What no step of the server changes of a request.
LEMMA FormStays ==
    ASSUME NEW r, NEW changes, RequestOK(r), FormSent(r),
           DOMAIN changes \cap {"body", "form", "changed"} = {}
    PROVE  FormSent(Over(changes, r))
<1> DEFINE new == Over(changes, r)
<1>1. new.body = r.body /\ new.form = r.form /\ new.changed = r.changed
  BY OverFields DEF RequestOK, RequestFields
<1> HIDE DEF new
<1>2. FormSent(new)
  BY <1>1 DEF FormSent
<1> QED BY <1>2 DEF new

LEMMA DoneKnows ==
    ASSUME Inv, Known, NEW s \in Slots, NEW changes, requests[s] # NoRequest,
           Step(s, changes), DOMAIN changes \cap {"body", "form", "changed"} = {},
           "phase" \in DOMAIN changes, changes.phase = "done"
    PROVE  Known'
<1> DEFINE new == Over(changes, requests[s])
<1>1. RequestOK(requests[s]) /\ FormSent(requests[s])
  BY DEF Inv, Known
<1>2. new.phase = "done"
  BY <1>1, OverFields DEF RequestOK, RequestFields
<1>3. FormSent(new)
  BY <1>1, FormStays
<1> HIDE DEF new
<1>4. Underway(new)
  BY <1>2 DEF Underway
<1> QED BY <1>3, <1>4, StepKnows DEF new

LEMMA KnownNext == Inv /\ Known /\ [Next]_vars => Known'
<1> SUFFICES ASSUME Inv, Known, [Next]_vars PROVE Known'
  OBVIOUS
<1>1. ASSUME requests' = requests PROVE Known'
  BY <1>1 DEF Known, FormSent, Underway
<1>2. ASSUME NEW m \in Managers, NEW s \in Slots, NEW edit \in Edits, Save(m, s, edit)
      PROVE Known'
  <2>1. PICK seed : seed = dialogs[m].seed
    OBVIOUS
  <2>2. PICK typed : typed = Form(seed, edit)
    OBVIOUS
  <2>3. FormValid(typed, seed) /\ Send(s, m, Body(typed, seed), typed, Changed(typed, seed))
    BY <1>2, <2>1, <2>2 DEF Save
  <2>4. /\ DOMAIN typed = Editable /\ FormAccepts(typed)
        /\ Body(typed, seed) = [f \in Editable \ ({"phone"} \ Changed(typed, seed)) |-> typed[f]]
    BY <2>2, <2>3, FormIsSent
  <2> QED BY <2>3, <2>4, SendKnows
<1>3. ASSUME NEW c \in Callers, NEW s \in Slots, NEW body \in Bodies, Call(c, s, body)
      PROVE Known'
  <2>1. Send(s, c, body, NoSeed, DOMAIN body)
    BY <1>3 DEF Call
  <2> QED BY <2>1, SendKnows
<1>4. ASSUME NEW s \in Slots, Read(s) PROVE Known'
  <2> DEFINE r == requests[s]
  <2>1. r # NoRequest /\ RequestOK(r) /\ FormSent(r) /\ Underway(r) /\ r.phase = "sent"
    BY <1>4 DEF Read, Inv, Known
  <2>2. CASE Step(s, [phase |-> "done", result |-> "invalid", refused |-> {"phone"}])
    BY <2>1, <2>2, DoneKnows
  <2>3. CASE Finish(s, "conflict")
    BY <2>1, <2>3, DoneKnows DEF Finish
  <2>4. CASE Step(s, [phase |-> "read", existing |-> order])
    <3> DEFINE changes == [phase |-> "read", existing |-> order]
               new == Over(changes, r)
    <3>1. FormSent(new)
      BY <2>1, FormStays
    <3>2. new.phase = "read" /\ new.result = "none"
      BY <2>1, OverFields DEF RequestOK, RequestFields, Underway
    <3>3. Step(s, changes)
      BY <2>4
    <3> HIDE DEF new, changes
    <3>4. Underway(new)
      BY <3>2 DEF Underway
    <3> QED BY <2>1, <3>1, <3>3, <3>4, StepKnows DEF new
  <2> QED BY <1>4, <2>2, <2>3, <2>4 DEF Read
<1>5. ASSUME NEW s \in Slots, Check(s) PROVE Known'
  <2> DEFINE r == requests[s]
  <2>1. r # NoRequest /\ RequestOK(r) /\ FormSent(r) /\ Underway(r) /\ r.phase = "read"
    BY <1>5 DEF Check, Inv, Known
  <2>2. CASE Step(s, [phase |-> "done", result |-> "invalid",
                      refused |-> Refused(r.body, r.existing)])
    BY <2>1, <2>2, DoneKnows
  <2>3. CASE Step(s, [phase |-> "checked", data |-> Data(r.body, r.existing),
                      memory |-> Memory(r.body, r.existing)])
    <3> DEFINE changes == [phase |-> "checked", data |-> Data(r.body, r.existing),
                           memory |-> Memory(r.body, r.existing)]
               new == Over(changes, r)
    <3>0. /\ DOMAIN changes = {"phase", "data", "memory"}
          /\ changes.phase = "checked" /\ changes.data = Data(r.body, r.existing)
      OBVIOUS
    <3>a. Step(s, changes)
      BY <2>3
    <3> HIDE DEF changes
    <3>1. FormSent(new)
      BY <2>1, <3>0, FormStays
    <3>2. /\ new.phase = "checked" /\ new.result = "none" /\ new.body = r.body
          /\ new.existing = r.existing /\ new.data = Data(r.body, r.existing)
      BY <2>1, <3>0, OverFields DEF RequestOK, RequestFields, Underway
    <3> HIDE DEF new
    <3>3. Underway(new)
      BY <3>2 DEF Underway
    <3> QED BY <2>1, <3>a, <3>1, <3>3, StepKnows DEF new
  <2> QED BY <1>5, <2>2, <2>3 DEF Check
<1>6. ASSUME NEW s \in Slots, Commit(s) PROVE Known'
  <2>1. PICK result : Finish(s, result)
    BY <1>6 DEF Commit
  <2>2. requests[s] # NoRequest
    BY <1>6 DEF Commit
  <2> QED BY <2>1, <2>2, DoneKnows DEF Finish
<1>7. ASSUME NEW s \in Slots, requests' = [requests EXCEPT ![s] = NoRequest] PROVE Known'
  <2>1. \A t \in Slots : requests'[t] = IF t = s THEN NoRequest ELSE requests[t]
    BY <1>7 DEF Inv
  <2> QED BY <2>1 DEF Known, FormSent, Underway
<1>8. ASSUME NEW s \in Slots, GiveUp(s) PROVE Known'
  <2> DEFINE r == requests[s]
             new == Over([from |-> Nobody], r)
  <2>1. r # NoRequest /\ RequestOK(r) /\ FormSent(r) /\ Underway(r)
    BY <1>8 DEF GiveUp, Inv, Known
  <2>2. CASE Step(s, [from |-> Nobody])
    <3>1. FormSent(new)
      BY <2>1, FormStays
    <3>2. /\ new.phase = r.phase /\ new.result = r.result /\ new.body = r.body
          /\ new.existing = r.existing /\ new.data = r.data
      BY <2>1, OverFields DEF RequestOK, RequestFields
    <3> HIDE DEF new
    <3>3. Underway(new)
      BY <2>1, <3>2 DEF Underway
    <3> QED BY <2>1, <2>2, <3>1, <3>3, StepKnows DEF new
  <2> QED BY <1>7, <1>8, <2>2 DEF GiveUp
<1>9. ASSUME NEW m \in Managers, Open(m) \/ Close(m) \/ Refetch(m) PROVE Known'
  BY <1>1, <1>9 DEF Open, Close, Refetch
<1>10. ASSUME NEW s \in Slots, Answer(s) PROVE Known'
  BY <1>7, <1>10 DEF Answer
<1>11. ASSUME NEW to \in Statuses, Move(to) PROVE Known'
  BY <1>1, <1>11 DEF Move
<1>12. ASSUME NEW x \in Deactivatable, Deactivate(x) PROVE Known'
  BY <1>1, <1>12 DEF Deactivate
<1>13. ASSUME UNCHANGED vars PROVE Known'
  BY <1>1, <1>13 DEF vars
<1> QED BY <1>2, <1>3, <1>4, <1>5, <1>6, <1>8, <1>9, <1>10, <1>11, <1>12, <1>13 DEF Next


\* The columns a form's request writes, or leaves because they are as it read
\* them, are what the form showed.
LEMMA DataIsForm ==
    ASSUME NEW r, NEW f \in Editable,
           r.form # NoSeed, FormSent(r),
           f \in DOMAIN Data(r.body, r.existing)
    PROVE  Data(r.body, r.existing)[f] = r.form[f]
<1> DEFINE typed == r.form
           body == r.body
           existing == r.existing
           p == Effective(body, existing)
           merged == Over(body, [g \in PaymentFields |-> existing[g]])
<1>1. /\ DOMAIN typed = Editable /\ FormAccepts(typed)
      /\ DOMAIN body = Editable \ ({"phone"} \ r.changed)
      /\ \A g \in DOMAIN body : body[g] = typed[g]
  BY DEF FormSent
<1>2. PaymentFields \subseteq DOMAIN body /\ "toCollect" \notin Editable
  BY <1>1 DEF Editable, ReceiverFields, PaymentFields, MoneyFields, MethodFields
<1>3. PaymentTouched(body)
  BY <1>2 DEF PaymentTouched, PaymentFields
<1>4. DOMAIN merged = PaymentFields /\ \A g \in PaymentFields : merged[g] = typed[g]
  BY <1>1, <1>2 DEF Over
<1>5. f \in PaymentFields => Data(body, existing)[f] = p[f]
  BY <1>2, <1>3 DEF Data, PaymentFields, MoneyFields, MethodFields
<1>6. f \notin PaymentFields => f \in DOMAIN body /\ Data(body, existing)[f] = body[f]
  BY <1>2, <1>3 DEF Data, Named
<1>7. PrepaidTotal(merged) = PrepaidTotal(typed) /\ AmountToCollect(merged) = AmountToCollect(typed)
  BY <1>4 DEF PrepaidTotal, AmountToCollect, RemainingOrder, RemainingFee,
              PaymentFields, MoneyFields, MethodFields
<1>8. /\ \A g \in PaymentFields \ MethodFields : p[g] = merged[g]
      /\ p.prepaidMethod = IF PrepaidTotal(merged) = 0 THEN NoMethod ELSE merged.prepaidMethod
      /\ p.collectionMethod = IF AmountToCollect(merged) = 0 THEN NoMethod
                              ELSE merged.collectionMethod
  BY <1>4 DEF Effective, PaymentFields, MoneyFields, MethodFields
<1>9. p.prepaidMethod = typed.prepaidMethod /\ p.collectionMethod = typed.collectionMethod
  BY <1>1, <1>4, <1>7, <1>8 DEF FormAccepts, PaymentFields, MethodFields
<1>10. \A g \in PaymentFields : p[g] = typed[g]
  BY <1>4, <1>8, <1>9 DEF PaymentFields, MethodFields
<1> QED BY <1>1, <1>5, <1>6, <1>10

LEMMA TotalIsForm ==
    ASSUME NEW r, r.form # NoSeed, FormSent(r)
    PROVE  /\ "toCollect" \in DOMAIN Data(r.body, r.existing)
           /\ Data(r.body, r.existing).toCollect = AmountToCollect(r.form)
           /\ PaymentFields \subseteq DOMAIN Data(r.body, r.existing)
           /\ \A f \in Editable :
                 f \notin DOMAIN Data(r.body, r.existing) =>
                     \/ f = "phone" /\ f \notin r.changed
                     \/ f \in {"customer", "area"} /\ r.form[f] = r.existing[f]
<1> DEFINE body == r.body
           existing == r.existing
           p == Effective(body, existing)
<1>1. /\ DOMAIN body = Editable \ ({"phone"} \ r.changed)
      /\ \A g \in DOMAIN body : body[g] = r.form[g]
  BY DEF FormSent
<1>2. PaymentFields \subseteq DOMAIN body /\ PaymentFields \subseteq Editable
  BY <1>1 DEF Editable, ReceiverFields, PaymentFields, MoneyFields, MethodFields
<1>3. PaymentTouched(body)
  BY <1>2 DEF PaymentTouched, PaymentFields
<1>4. /\ DOMAIN Data(body, existing) = Named(body, existing) \cup PaymentFields \cup {"toCollect"}
      /\ Data(body, existing).toCollect = AmountToCollect(p)
  BY <1>3 DEF Data
<1>5. \A f \in MoneyFields : Data(body, existing)[f] = p[f]
  BY <1>3 DEF Data, PaymentFields, MoneyFields, MethodFields
<1>6. \A f \in MoneyFields : p[f] = r.form[f]
  BY <1>2, <1>4, <1>5, DataIsForm DEF PaymentFields
<1>7. AmountToCollect(p) = AmountToCollect(r.form)
  BY <1>6 DEF AmountToCollect, RemainingOrder, RemainingFee, MoneyFields
<1>8. \A f \in Editable : f \notin DOMAIN Data(body, existing) =>
          \/ f = "phone" /\ f \notin r.changed
          \/ f \in {"customer", "area"} /\ r.form[f] = existing[f]
  BY <1>1, <1>4 DEF Named
<1> QED BY <1>4, <1>7, <1>8

LEMMA SavedStep ==
    ASSUME Inv, Known, Next, NEW s \in Slots,
           requests[s] # NoRequest, requests[s].form # NoSeed,
           requests[s].phase = "checked", requests'[s].result = "ok",
           \A f \in Editable \ requests[s].changed : order[f] = requests[s].form[f],
           \A f \in {"customer", "area"} : order[f] = requests[s].existing[f]
    PROVE  /\ \A f \in Editable : order'[f] = requests[s].form[f]
           /\ order'.toCollect = AmountToCollect(requests[s].form)
<1> DEFINE r == requests[s]
<1>1. /\ RequestOK(r) /\ FormSent(r) /\ r.result = "none"
      /\ r.data = Data(r.body, r.existing)
  BY DEF Inv, Known, Underway
<1>2. ASSUME requests'[s] = r PROVE FALSE
  BY <1>1, <1>2
<1>3. ASSUME NEW t \in Slots, t # s, NEW value, requests' = [requests EXCEPT ![t] = value]
      PROVE  FALSE
  BY <1>2, <1>3 DEF Inv
<1>4. ASSUME NEW t \in Slots, NEW changes, t # s, Step(t, changes) PROVE FALSE
  BY <1>3, <1>4 DEF Step
<1>5. ASSUME NEW t \in Slots, Commit(t) PROVE t = s /\ Claims(r)
  <2>1. t = s
    BY <1>4, <1>5 DEF Commit, Finish
  <2>2. ASSUME ~ Claims(r) PROVE FALSE
    <3> DEFINE new == Over([phase |-> "done", result |-> "conflict"], r)
    <3>1. requests'[s] = new
      BY <1>5, <2>1, <2>2 DEF Commit, Finish, Step, Inv
    <3>2. new.result = "conflict"
      BY <1>1, OverFields DEF RequestOK, RequestFields
    <3> QED BY <3>1, <3>2
  <2> QED BY <2>1, <2>2
<1>6. ASSUME Claims(r), order' = Over(r.data, order)
      PROVE  /\ \A f \in Editable : order'[f] = r.form[f]
             /\ order'.toCollect = AmountToCollect(r.form)
  <2>1. DOMAIN order = Editable \cup {"status", "toCollect"}
    BY DEF Inv, RowOK, RowFields
  <2>2. \A f \in DOMAIN order : order'[f] = IF f \in DOMAIN r.data THEN r.data[f] ELSE order[f]
    BY <1>6 DEF Over
  <2>3. order'.toCollect = AmountToCollect(r.form)
    BY <1>1, <2>1, <2>2, TotalIsForm
  <2>4. ASSUME NEW f \in Editable PROVE order'[f] = r.form[f]
    <3>1. CASE f \in DOMAIN r.data
      <4>1. r.data[f] = r.form[f]
        BY <1>1, <3>1, DataIsForm
      <4> QED BY <2>1, <2>2, <3>1, <4>1
    <3>2. CASE f \notin DOMAIN r.data
      <4>1. \/ f = "phone" /\ f \notin r.changed
            \/ f \in {"customer", "area"} /\ r.form[f] = r.existing[f]
        BY <1>1, <3>2, TotalIsForm
      <4>2. order[f] = r.form[f]
        BY <4>1
      <4> QED BY <2>1, <2>2, <3>2, <4>2
    <3> QED BY <3>1, <3>2
  <2> QED BY <2>3, <2>4
<1>7. ASSUME NEW t \in Slots, Commit(t)
      PROVE  /\ \A f \in Editable : order'[f] = r.form[f]
             /\ order'.toCollect = AmountToCollect(r.form)
  <2>1. Claims(r) /\ order' = Over(r.data, order)
    BY <1>5, <1>7 DEF Commit
  <2> QED BY <1>6, <2>1
<1>8. ASSUME NEW m \in Managers, Open(m) \/ Close(m) \/ Refetch(m) PROVE FALSE
  BY <1>2, <1>8 DEF Open, Close, Refetch
<1>9. ASSUME NEW t \in Slots, NEW from, NEW body, NEW typed, NEW changed,
             Send(t, from, body, typed, changed)
      PROVE FALSE
  <2>1. t # s
    BY <1>9 DEF Send
  <2> QED BY <1>3, <1>9, <2>1 DEF Send
<1>10. ASSUME NEW m \in Managers, NEW t \in Slots, NEW edit \in Edits, Save(m, t, edit)
       PROVE FALSE
  BY <1>9, <1>10 DEF Save
<1>11. ASSUME NEW c \in Callers, NEW t \in Slots, NEW body \in Bodies, Call(c, t, body)
       PROVE FALSE
  BY <1>9, <1>11 DEF Call
<1>12. ASSUME NEW t \in Slots, Read(t) PROVE FALSE
  <2>1. t # s
    BY <1>12 DEF Read
  <2> QED BY <1>4, <1>12, <2>1 DEF Read, Finish
<1>13. ASSUME NEW t \in Slots, Check(t) PROVE FALSE
  <2>1. t # s
    BY <1>13 DEF Check
  <2> QED BY <1>4, <1>13, <2>1 DEF Check
<1>14. ASSUME NEW t \in Slots, Answer(t) PROVE FALSE
  <2>1. t # s
    BY <1>14 DEF Answer
  <2> QED BY <1>3, <1>14, <2>1 DEF Answer
<1>15. ASSUME NEW t \in Slots, GiveUp(t) PROVE FALSE
  <2>1. CASE t # s
    BY <1>3, <1>4, <1>15, <2>1 DEF GiveUp
  <2>2. CASE t = s
    <3> DEFINE new == Over([from |-> Nobody], r)
    <3>1. Step(s, [from |-> Nobody])
      BY <1>15, <2>2 DEF GiveUp
    <3>2. requests'[s] = new
      BY <3>1 DEF Step, Inv
    <3>3. DOMAIN r = RequestFields /\ r.result = "none"
      BY <1>1 DEF RequestOK
    <3>4. "result" \in RequestFields /\ "result" \notin DOMAIN [from |-> Nobody]
      BY DEF RequestFields
    <3>5. new["result"] = r["result"]
      BY <3>3, <3>4, OverFields
    <3> HIDE DEF new
    <3> QED BY <3>2, <3>3, <3>5
  <2> QED BY <2>1, <2>2
<1>16. ASSUME NEW to \in Statuses, Move(to) PROVE FALSE
  BY <1>2, <1>16 DEF Move
<1>17. ASSUME NEW x \in Deactivatable, Deactivate(x) PROVE FALSE
  BY <1>2, <1>17 DEF Deactivate
<1> QED BY <1>7, <1>8, <1>10, <1>11, <1>12, <1>13, <1>14, <1>15, <1>16, <1>17 DEF Next

LEMMA AlwaysKnown == Spec => [](Inv /\ Known)
<1>1. Init => Inv /\ Known
  BY InitInv DEF Init, Known
<1>2. Inv /\ Known /\ [Next]_vars => (Inv /\ Known)'
  BY NextInv, KnownNext
<1> QED BY <1>1, <1>2, PTL DEF Spec

\* An order that nobody else touched becomes exactly what the form showed,
\* for whatever was typed, normalized, left out or cleared on the way
\* (toUpdateOrderRequest, updateOrder).
THEOREM ShownBecomesSaved == Spec => WhatWasShownIsSaved
<1> DEFINE Saved ==
      \A s \in Slots :
          LET r == requests[s] IN
          (/\ r # NoRequest /\ r.form # NoSeed
           /\ r.phase = "checked" /\ requests'[s].result = "ok"
           /\ \A f \in Editable \ r.changed : order[f] = r.form[f]
           /\ \A f \in {"customer", "area"} : order[f] = r.existing[f])
          => /\ \A f \in Editable : order'[f] = r.form[f]
             /\ order'.toCollect = AmountToCollect(r.form)
<1>1. Inv /\ Known /\ [Next]_vars => [Saved]_vars
  BY SavedStep
<1> QED BY <1>1, AlwaysKnown, PTL DEF Spec, WhatWasShownIsSaved

-----------------------------------------------------------------------------
(* The scanner.                                                            *)

\* An assignment that is still waiting has not been picked up.
PickupLeft(c) == IF orders[c] = "ASSIGNED" THEN pickups[c] < assigned[c] ELSE pickups[c] <= assigned[c]

ScanInductive ==
    /\ orders \in [Codes -> OrderStages]
    /\ assigned \in [Codes -> Nat] /\ pickups \in [Codes -> Nat]
    /\ \A c \in Codes : PickupLeft(c)

\* An assignment to a driver is picked up at most once, however many scanners
\* are opened, scans sent again and answers lost, and whoever else moves the
\* orders meanwhile (pickupDriverOrder, which claims on the status it read).
THEOREM PickedUpOnlyOnce == ScanSpec => []PickedUpOncePerAssignment
<1>1. ScanInit => ScanInductive
    BY DEF ScanInit, ScanInductive, PickupLeft, OrderStages
<1>2. ScanInductive /\ [ScanNext]_scanVars => ScanInductive'
    <2> SUFFICES ASSUME ScanInductive, [ScanNext]_scanVars PROVE ScanInductive'
        OBVIOUS
    <2>1. ASSUME UNCHANGED <<orders, assigned, pickups>> PROVE ScanInductive'
        BY <2>1 DEF ScanInductive, PickupLeft
    <2>2. ASSUME NEW r \in DOMAIN scans, ClaimPickup(r) PROVE ScanInductive'
        <3>1. CASE Claimable(StatusOf(r))
            <4> DEFINE code == scans[r].code
            <4>1. /\ orders[code] = "ASSIGNED"
                  /\ orders' = [orders EXCEPT ![code] = "PICKED_UP"]
                  /\ pickups' = [pickups EXCEPT ![code] = @ + 1]
                  /\ assigned' = assigned
                BY <2>2, <3>1 DEF ClaimPickup, Claimable, StatusOf
            <4> HIDE DEF code
            <4>2. orders' \in [Codes -> OrderStages]
                BY <4>1 DEF ScanInductive, OrderStages
            <4>3. pickups' \in [Codes -> Nat]
                <5>1. pickups' = [d \in Codes |-> IF d = code THEN pickups[d] + 1 ELSE pickups[d]]
                    BY <4>1 DEF ScanInductive
                <5> QED
                    BY <5>1 DEF ScanInductive
            <4>4. ASSUME NEW d \in Codes PROVE PickupLeft(d)'
                <5>1. CASE d = code
                    BY <4>1, <5>1 DEF ScanInductive, PickupLeft
                <5>2. CASE d # code
                    BY <4>1, <5>2 DEF ScanInductive, PickupLeft
                <5> QED
                    BY <5>1, <5>2
            <4> QED
                BY <4>1, <4>2, <4>3, <4>4 DEF ScanInductive
        <3>2. CASE ~Claimable(StatusOf(r))
            BY <2>1, <2>2, <3>2 DEF ClaimPickup
        <3> QED
            BY <3>1, <3>2
    <2>3. ASSUME NEW c \in Codes, OthersMove(c) PROVE ScanInductive'
        <3>1. PICK m \in StageMoves :
                /\ orders[c] = m[1] /\ orders' = [orders EXCEPT ![c] = m[2]]
                /\ assigned' = IF m[2] = "ASSIGNED"
                               THEN [assigned EXCEPT ![c] = @ + 1] ELSE assigned
                /\ pickups' = IF m[2] = "PICKED_UP"
                              THEN [pickups EXCEPT ![c] = @ + 1] ELSE pickups
            BY <2>3 DEF OthersMove
        <3>2. /\ m[1] \in OrderStages /\ m[2] \in OrderStages
              /\ m[2] = "PICKED_UP" => m[1] = "ASSIGNED"
            BY DEF StageMoves, OrderStages
        <3>3. orders' \in [Codes -> OrderStages] /\ assigned' \in [Codes -> Nat] /\ pickups' \in [Codes -> Nat]
            BY <3>1, <3>2 DEF ScanInductive
        <3>4. \A d \in Codes \ {c} : PickupLeft(d)'
            BY <3>1 DEF ScanInductive, PickupLeft
        <3>5. PickupLeft(c)'
            BY <3>1, <3>2 DEF ScanInductive, PickupLeft
        <3> QED
            BY <3>3, <3>4, <3>5 DEF ScanInductive
    <2>4. ASSUME Driver PROVE ScanInductive'
        BY <2>1, <2>4 DEF Driver, OpenScanner, Remount, CloseScanner, handleManual, process,
           CooldownPasses, TypeNonsense, RefuseValue, retry, orderVars, scannerVars
    <2>5. ASSUME Camera PROVE ScanInductive'
        BY <2>1, <2>5 DEF Camera, GrantCamera, DenyCamera, Play, NativeDecoder, DecoderReady,
           DetectNonsense, Detect, handleDetected, process, RefuseValue, Becomes, DecoderLoads,
           DecoderFails, orderVars, scannerVars
    <2>6. ASSUME NEW r \in DOMAIN scans,
                 \/ ResolveLabel(r) \/ ReadOrder(r) \/ CheckAssignment(r) \/ ExplainRefusal(r)
                 \/ ScanAnswered(r) \/ ConnectionBreaks(r)
          PROVE  ScanInductive'
        BY <2>1, <2>6 DEF ResolveLabel, ReadOrder, CheckAssignment, ExplainRefusal, ScanAnswered,
           ConnectionBreaks, orderVars
    <2>7. ASSUME UNCHANGED scanVars PROVE ScanInductive'
        BY <2>1, <2>7 DEF scanVars, orderVars
    <2> QED
        BY <2>2, <2>3, <2>4, <2>5, <2>6, <2>7 DEF ScanNext, Handler
<1>3. ScanInductive => PickedUpOncePerAssignment
    BY DEF ScanInductive, PickupLeft, PickedUpOncePerAssignment
<1> QED
    BY <1>1, <1>2, <1>3, PTL DEF ScanSpec

-----------------------------------------------------------------------------
(* The Create Order page.                                                  *)

FormParts == {"customer", "intake", "carrier", "payment", "text"}
PostFields == {"form", "visit", "phase", "attempts", "result", "abandoned"}

Payable(p) == Entered(p) /\ DOMAIN p = PaymentFields

\* The form as the operator may leave it, and the request it was sent in.
FormStands(f) ==
    /\ DOMAIN f = FormParts /\ Payable(f.payment)
    /\ f.intake \in {"ALREADY_AT_COMPANY", "DRIVER_COLLECTION"}

TooLarge(p) == \E f \in MoneyFields : p[f] > MoneyMax

PostStands(r) ==
    /\ DOMAIN r = PostFields /\ r.phase # "none"
    /\ FormStands(r.form) /\ Submittable(r.form)
    /\ r.result = "invalid" => TooLarge(r.form.payment)

\* The order a request created holds what the server computes from its form.
AsSent(o, f) ==
    /\ o.text = StoredText(f)
    /\ o.payment = f.payment
    /\ o.toCollect = AmountToCollect(f.payment)

\* What is known of the requests: a form that was sent stays as it was.
PostsStand ==
    /\ FormStands(form)
    /\ DOMAIN posts = Posts /\ DOMAIN created = Posts
    /\ \A s \in Posts : posts[s] # NoPost => PostStands(posts[s])
    /\ \A s \in Posts : created[s] # NoOrder =>
           posts[s] # NoPost /\ AsSent(created[s], posts[s].form)

\* The effects on the amounts and methods keep a payment that can be entered.
LEMMA NormalizedIsPayable ==
    ASSUME NEW p, NEW edit, Payable(p), Entered(edit)
    PROVE  Payable(NormalizedMethods(NormalizedAmounts(Over(edit, p))))
<1> DEFINE q == Over(edit, p)
           r == NormalizedAmounts(q)
<1>1. /\ DOMAIN q = PaymentFields /\ q.type \in PaymentTypes
      /\ \A f \in MoneyFields : q[f] \in Nat
  BY DEF Over, Payable, Entered, PaymentFields
<1> HIDE DEF q
<1>2. /\ DOMAIN r = PaymentFields /\ r.type \in PaymentTypes
      /\ \A f \in MoneyFields : r[f] \in Nat
  BY <1>1 DEF NormalizedAmounts, MoneyFields, PaymentFields
<1> HIDE DEF r
<1>3. /\ DOMAIN NormalizedMethods(r) = PaymentFields
      /\ NormalizedMethods(r).type \in PaymentTypes
      /\ \A f \in MoneyFields : NormalizedMethods(r)[f] \in Nat
  BY <1>2 DEF NormalizedMethods, MoneyFields, PaymentFields
<1> QED BY <1>3 DEF Payable, Entered, q, r

\* A form within the supported range is one createOrder does not find invalid.
LEMMA SentIsAcceptable ==
    ASSUME NEW f, FormStands(f), Submittable(f), ~ TooLarge(f.payment)
    PROVE  Acceptable(f)
<1> DEFINE p == f.payment
<1>1. /\ \A g \in MoneyFields : p[g] \in 0 .. MoneyMax
      /\ p.type \in PaymentTypes /\ MoneyMax \in Nat
  BY CreationAssumption DEF FormStands, Payable, Entered, TooLarge, PaymentFields
<1>2. Sound(p)
  BY <1>1, FormsMirrorTheServer DEF Submittable
<1>3. ASSUME f.intake = "DRIVER_COLLECTION", NEW g \in RequiredCollection
      PROVE  StoredText(f)[g] # NoText
  BY <1>3 DEF Submittable, StoredText, RequiredCollection, CollectionText, Text
<1> QED BY <1>2, <1>3 DEF Acceptable

\* A step of one request leaves the others, and its form, as they are.
LEMMA PostStepStands ==
    ASSUME PostsStand, NEW s \in Posts, NEW changes, posts[s] # NoPost,
           PostStep(s, changes), form' = form, created' = created,
           "form" \notin DOMAIN changes,
           "phase" \in DOMAIN changes => changes.phase # "none",
           "result" \in DOMAIN changes /\ changes.result = "invalid" =>
               TooLarge(posts[s].form.payment)
    PROVE  PostsStand'
<1> DEFINE new == Over(changes, posts[s])
<1>1. /\ DOMAIN posts' = Posts
      /\ \A t \in Posts : posts'[t] = IF t = s THEN new ELSE posts[t]
  BY DEF PostsStand, PostStep
<1>2. PostStands(posts[s])
  BY DEF PostsStand
<1>3. /\ DOMAIN new = PostFields /\ new.form = posts[s].form
      /\ new.phase # "none"
      /\ new.result = IF "result" \in DOMAIN changes THEN changes.result
                      ELSE posts[s].result
  BY <1>2 DEF Over, PostStands, PostFields
<1> HIDE DEF new
<1>4. PostStands(new) /\ new # NoPost
  BY <1>2, <1>3 DEF PostStands, NoPost
<1>5. \A t \in Posts : posts[t] # NoPost /\ posts'[t] # NoPost => posts'[t].form = posts[t].form
  BY <1>1, <1>3
<1>6. \A t \in Posts : posts'[t] # NoPost => PostStands(posts'[t])
  BY <1>1, <1>4 DEF PostsStand
<1>7. ASSUME NEW t \in Posts, created'[t] # NoOrder
      PROVE  posts'[t] # NoPost /\ AsSent(created'[t], posts'[t].form)
  <2>1. posts[t] # NoPost /\ AsSent(created[t], posts[t].form)
    BY <1>7 DEF PostsStand
  <2>2. posts'[t] # NoPost
    BY <1>1, <1>4, <2>1
  <2> QED BY <2>1, <2>2, <1>5
<1> QED BY <1>1, <1>6, <1>7 DEF PostsStand

LEMMA PageInitStands == PageInit => PostsStand
  BY CreationAssumption DEF PageInit, PostsStand, FormStands, FreshForm, FormParts, Payable

LEMMA PageNextStands == PostsStand /\ [PageNext]_pageVars => PostsStand'
<1> SUFFICES ASSUME PostsStand, [PageNext]_pageVars PROVE PostsStand'
  OBVIOUS
<1>0. FormStands(form)
  BY DEF PostsStand
<1>1. ASSUME posts' = posts, created' = created, FormStands(form') PROVE PostsStand'
  BY <1>1 DEF PostsStand
<1>2. ASSUME DOMAIN form' = DOMAIN form, form'.payment = form.payment,
             form'.intake \in {form.intake, "ALREADY_AT_COMPANY", "DRIVER_COLLECTION"}
      PROVE  FormStands(form')
  BY <1>0, <1>2 DEF FormStands
<1>3. ASSUME NEW new, NEW c, Fill(new, c), DOMAIN new = DOMAIN form,
             new.payment = form.payment,
             new.intake \in {form.intake, "ALREADY_AT_COMPANY", "DRIVER_COLLECTION"}
      PROVE  FormStands(form')
  BY <1>0, <1>2, <1>3 DEF Fill, FormStands, FormParts
<1>4. ASSUME NEW c \in Customers, SelectCustomer(c) PROVE PostsStand'
  <2> DEFINE new == [form EXCEPT !.customer = c,
                        !.text = [f \in Text |-> IF f \in StillFromSuggestion THEN NoText
                                                 ELSE form.text[f]]]
  <2>1. DOMAIN new = DOMAIN form /\ new.payment = form.payment /\ new.intake = form.intake
    BY <1>0 DEF FormStands, FormParts
  <2>2. form' = new \/ Fill(new, c) \/ Fill(new, shown)
    BY <1>4 DEF SelectCustomer
  <2>3. posts' = posts /\ created' = created
    BY <1>4 DEF SelectCustomer
  <2> HIDE DEF new
  <2> QED BY <1>1, <1>2, <1>3, <2>1, <2>2, <2>3
<1>5. ASSUME NEW c \in Customers, Loaded(c) PROVE PostsStand'
  BY <1>1, <1>3, <1>5 DEF Loaded
<1>6. ASSUME NEW f \in Text, NEW value \in Typed[f], Type(f, value) PROVE PostsStand'
  <2>1. /\ DOMAIN form' = DOMAIN form /\ form'.payment = form.payment
        /\ form'.intake = form.intake
    BY <1>0, <1>6 DEF Type, FormStands, FormParts
  <2> QED BY <1>1, <1>2, <1>6, <2>1 DEF Type
<1>7. ASSUME NEW key \in PhoneKeys, Choose(key) PROVE PostsStand'
  <2>1. /\ DOMAIN form' = DOMAIN form /\ form'.payment = form.payment
        /\ form'.intake = form.intake
    BY <1>0, <1>7 DEF Choose, FormStands, FormParts
  <2> QED BY <1>1, <1>2, <1>7, <2>1 DEF Choose
<1>8. ASSUME NEW intake \in {"ALREADY_AT_COMPANY", "DRIVER_COLLECTION"},
             SwitchIntake(intake)
      PROVE  PostsStand'
  <2>1. /\ DOMAIN Switched(intake) = DOMAIN form /\ Switched(intake).payment = form.payment
        /\ Switched(intake).intake = intake
    BY <1>0 DEF Switched, FormStands, FormParts
  <2> QED BY <1>1, <1>3, <1>8, <2>1 DEF SwitchIntake
<1>9. ASSUME NEW d, ChooseDriver(d) PROVE PostsStand'
  <2>1. /\ DOMAIN form' = DOMAIN form /\ form'.payment = form.payment
        /\ form'.intake = form.intake
    BY <1>0, <1>9 DEF ChooseDriver, FormStands, FormParts
  <2> QED BY <1>1, <1>2, <1>9, <2>1 DEF ChooseDriver
<1>10. ASSUME NEW edit \in PaymentEdits, EditPayment(edit) PROVE PostsStand'
  <2> DEFINE p == NormalizedMethods(NormalizedAmounts(Over(edit, form.payment)))
  <2>1. Payable(p)
    BY <1>0, NormalizedIsPayable, CreationAssumption DEF FormStands
  <2>2. form' = [form EXCEPT !.payment = p] /\ posts' = posts /\ created' = created
    BY <1>10 DEF EditPayment
  <2> HIDE DEF p
  <2>3. FormStands(form')
    BY <1>0, <2>1, <2>2 DEF FormStands, FormParts
  <2> QED BY <1>1, <2>2, <2>3
<1>11. ASSUME NEW s \in Posts, Submit(s) PROVE PostsStand'
  <2> DEFINE new == [form |-> form, visit |-> visit, phase |-> "sent",
                     attempts |-> 0, result |-> "none", abandoned |-> FALSE]
  <2>1. PostStands(new)
    BY <1>0, <1>11 DEF Submit, PostStands, PostFields
  <2>2. \A t \in Posts : posts'[t] = IF t = s THEN new ELSE posts[t]
    BY <1>11 DEF Submit, PostsStand
  <2>3. /\ DOMAIN posts' = Posts /\ posts[s] = NoPost
        /\ created' = created /\ form' = form
    BY <1>11 DEF Submit, PostsStand
  <2>4. created[s] = NoOrder
    BY <2>3 DEF PostsStand
  <2> HIDE DEF new
  <2> QED BY <2>1, <2>2, <2>3, <2>4 DEF PostsStand
<1>12. ASSUME NEW s \in Posts, CheckPost(s) PROVE PostsStand'
  <2>1. posts[s] # NoPost /\ form' = form /\ created' = created
    BY <1>12 DEF CheckPost, client
  <2>2. PostStands(posts[s])
    BY <2>1 DEF PostsStand
  <2>3. CASE \E x \in Referenced(posts[s].form) : ~ enabled[x]
    <3>1. PostStep(s, [phase |-> "done", result |-> "inactive"])
      BY <1>12, <2>3 DEF CheckPost
    <3> QED BY <2>1, <3>1, PostStepStands
  <2>4. CASE /\ ~ \E x \in Referenced(posts[s].form) : ~ enabled[x]
             /\ ~ Acceptable(posts[s].form)
    <3>1. PostStep(s, [phase |-> "done", result |-> "invalid"])
      BY <1>12, <2>4 DEF CheckPost
    <3>2. TooLarge(posts[s].form.payment)
      BY <2>2, <2>4, SentIsAcceptable DEF PostStands
    <3> QED BY <2>1, <3>1, <3>2, PostStepStands
  <2>5. CASE /\ ~ \E x \in Referenced(posts[s].form) : ~ enabled[x]
             /\ Acceptable(posts[s].form)
    <3>1. PostStep(s, [phase |-> "checked"])
      BY <1>12, <2>5 DEF CheckPost
    <3> QED BY <2>1, <3>1, PostStepStands
  <2> QED BY <2>3, <2>4, <2>5
<1>13. ASSUME NEW s \in Posts, Attempt(s) PROVE PostsStand'
  <2> DEFINE f == posts[s].form
             result == IF Eligible(f) THEN "ok" ELSE "inactive"
             row == [customer |-> f.customer, intake |-> f.intake,
                     text |-> StoredText(f), payment |-> f.payment,
                     carrier |-> f.carrier,
                     toCollect |-> AmountToCollect(f.payment)]
             new == Over([phase |-> "done", result |-> result], posts[s])
  <2>1. /\ posts[s] # NoPost /\ form' = form
        /\ PostStep(s, [phase |-> "done", result |-> result])
        /\ created' = IF ~ Eligible(f) THEN created ELSE [created EXCEPT ![s] = row]
    BY <1>13 DEF Attempt, client
  <2>2. PostStands(posts[s])
    BY <2>1 DEF PostsStand
  <2>3. DOMAIN posts' = Posts /\ \A t \in Posts : posts'[t] = IF t = s THEN new ELSE posts[t]
    BY <2>1 DEF PostStep, PostsStand
  <2>4. PostStands(new) /\ new # NoPost /\ new.form = f
    BY <2>2 DEF Over, PostStands, PostFields, NoPost
  <2>5. AsSent(row, f)
    BY DEF AsSent
  <2>6. /\ DOMAIN created' = Posts
        /\ \A t \in Posts : created'[t] = created[t] \/ (t = s /\ created'[t] = row)
    BY <2>1 DEF PostsStand
  <2> HIDE DEF new, row, f
  <2>7. ASSUME NEW t \in Posts, created'[t] # NoOrder
        PROVE  posts'[t] # NoPost /\ AsSent(created'[t], posts'[t].form)
    <3>1. CASE t = s /\ created'[t] = row
      BY <2>3, <2>4, <2>5, <3>1
    <3>2. CASE created'[t] = created[t]
      <4>1. posts[t] # NoPost /\ AsSent(created[t], posts[t].form)
        BY <2>7, <3>2 DEF PostsStand
      <4>2. posts'[t] # NoPost /\ posts'[t].form = posts[t].form
        BY <2>3, <2>4, <4>1 DEF f
      <4> QED BY <3>2, <4>1, <4>2
    <3> QED BY <2>6, <3>1, <3>2
  <2>8. \A t \in Posts : posts'[t] # NoPost => PostStands(posts'[t])
    BY <2>3, <2>4 DEF PostsStand
  <2> QED BY <1>0, <2>1, <2>3, <2>6, <2>7, <2>8 DEF PostsStand
<1>14. ASSUME NEW s \in Posts, Conflict(s) PROVE PostsStand'
  <2>1. /\ posts[s] # NoPost /\ form' = form /\ created' = created
        /\ \/ PostStep(s, [attempts |-> posts[s].attempts + 1])
           \/ PostStep(s, [attempts |-> MaxAttempts, phase |-> "done", result |-> "error"])
    BY <1>14 DEF Conflict, client
  <2>2. CASE PostStep(s, [attempts |-> posts[s].attempts + 1])
    BY <2>1, <2>2, PostStepStands
  <2>3. CASE PostStep(s, [attempts |-> MaxAttempts, phase |-> "done", result |-> "error"])
    BY <2>1, <2>3, PostStepStands
  <2> QED BY <2>1, <2>2, <2>3
<1>15. ASSUME NEW s \in Posts, AnswerPost(s) PROVE PostsStand'
  <2>1. /\ posts[s] # NoPost /\ form' = form /\ created' = created
        /\ PostStep(s, [phase |-> "answered"])
    BY <1>15 DEF AnswerPost
  <2> QED BY <2>1, PostStepStands
<1>16. ASSUME NEW s \in Posts, GiveUpPost(s) PROVE PostsStand'
  <2>1. /\ posts[s] # NoPost /\ form' = form /\ created' = created
        /\ \/ PostStep(s, [abandoned |-> TRUE])
           \/ PostStep(s, [abandoned |-> TRUE, phase |-> "answered"])
    BY <1>16 DEF GiveUpPost
  <2>2. CASE PostStep(s, [abandoned |-> TRUE])
    BY <2>1, <2>2, PostStepStands
  <2>3. CASE PostStep(s, [abandoned |-> TRUE, phase |-> "answered"])
    BY <2>1, <2>3, PostStepStands
  <2> QED BY <2>1, <2>2, <2>3
<1>17. ASSUME Visit PROVE PostsStand'
  <2>1. PICK payment \in FreshPayments : form' = FreshForm(payment)
    BY <1>17 DEF Visit
  <2>2. FormStands(form')
    BY <2>1, CreationAssumption DEF FormStands, FreshForm, FormParts, Payable
  <2> QED BY <1>1, <1>17, <2>2 DEF Visit
<1>18. ASSUME NEW x \in Retirable, Retire(x) PROVE PostsStand'
  BY <1>0, <1>1, <1>18 DEF Retire, client
<1>19. ASSUME UNCHANGED pageVars PROVE PostsStand'
  BY <1>0, <1>1, <1>19 DEF pageVars, client
<1> QED
  BY <1>4, <1>5, <1>6, <1>7, <1>8, <1>9, <1>10, <1>11, <1>12, <1>13, <1>14, <1>15,
     <1>16, <1>17, <1>18, <1>19 DEF PageNext

LEMMA AlwaysPostsStand == PageSpec => []PostsStand
<1> QED BY PageInitStands, PageNextStands, PTL DEF PageSpec

\* An order is what the Create Order page showed when it was sent, but for an
\* alternative phone that was left empty, which is the customer's own: whatever
\* the profile, the saved receivers and the answers do meanwhile.
THEOREM CreatedAsShown == PageSpec => []ShownIsStored
<1>1. PostsStand => ShownIsStored
  <2> SUFFICES ASSUME PostsStand, NEW s \in Posts, created[s] # NoOrder
               PROVE  LET f == posts[s].form IN
                      /\ \A g \in Text :
                             \/ created[s].text[g] = f.text[g]
                             \/ /\ g = "alt" /\ f.intake = "DRIVER_COLLECTION"
                                /\ f.text[g] = NoText
                                /\ created[s].text[g] = Profile[f.customer][g]
                      /\ created[s].payment = f.payment
                      /\ created[s].toCollect
                           = RemainingOrder(f.payment) + RemainingFee(f.payment)
    BY DEF ShownIsStored
  <2> DEFINE f == posts[s].form
  <2>1. AsSent(created[s], f) /\ Submittable(f) /\ FormStands(f)
    BY DEF PostsStand, PostStands
  <2> HIDE DEF f
  <2>2. ASSUME NEW g \in Text, f.intake # "ALREADY_AT_COMPANY", g \in Prefilled,
               f.text[g] = NoText
        PROVE  g = "alt" /\ f.intake = "DRIVER_COLLECTION"
    BY <2>1, <2>2 DEF Submittable, FormStands, Prefilled, RequiredCollection
  <2> QED BY <2>1, <2>2 DEF AsSent, StoredText, AmountToCollect, f
<1> QED BY <1>1, AlwaysPostsStand, PTL

\* A form the client lets through is refused as invalid only for an amount
\* beyond the server's range, which the client leaves to the server
\* (createOrder.schema.ts:32).
THEOREM RefusedForSizeOnly ==
    PageSpec => [](\A s \in Posts : posts[s] # NoPost /\ posts[s].result = "invalid" =>
                       TooLarge(posts[s].form.payment))
<1>1. PostsStand => \A s \in Posts : posts[s] # NoPost /\ posts[s].result = "invalid" =>
                        TooLarge(posts[s].form.payment)
  BY DEF PostsStand, PostStands
<1> QED BY <1>1, AlwaysPostsStand, PTL

\* What a step does to the requests that the page may be waiting for.
Awaited(s) ==
    /\ posts[s] # NoPost /\ posts[s].visit = visit
    /\ posts[s].phase # "answered" /\ ~ posts[s].abandoned

LEMMA PostStepAwaited ==
    ASSUME PostsStand, NEW s \in Posts, NEW t \in Posts, NEW changes, posts[s] # NoPost,
           PostStep(s, changes), visit' = visit, Awaited(t),
           \/ t # s
           \/ /\ DOMAIN changes \cap {"visit", "abandoned"} = {}
              /\ "phase" \in DOMAIN changes => changes.phase \notin {"answered", "none"}
    PROVE  Awaited(t)'
<1> DEFINE new == Over(changes, posts[s])
<1>1. posts'[t] = IF t = s THEN new ELSE posts[t]
  BY DEF PostsStand, PostStep
<1>2. CASE t # s
  BY <1>1, <1>2 DEF Awaited
<1>3. CASE t = s
  <2>1. /\ DOMAIN posts[s] = PostFields /\ posts[s].phase # "none"
    BY DEF PostsStand, PostStands
  <2>2. /\ new.visit = posts[s].visit /\ new.abandoned = posts[s].abandoned
        /\ new.phase \notin {"answered", "none"}
    BY <1>3, <2>1 DEF Over, PostFields, Awaited
  <2> HIDE DEF new
  <2>3. new # NoPost
    BY <2>2 DEF NoPost
  <2> QED BY <1>1, <1>3, <2>2, <2>3 DEF Awaited
<1> QED BY <1>2, <1>3

\* The types of the page's variables; and the page waits only while a request
\* it sent is under way, so no lost or late answer leaves it waiting for ever.
THEOREM PageNeverWaitsInVain == PageSpec => []PageTypes
<1> DEFINE HasCause == page = "waiting" => \E s \in Posts : Awaited(s)
           Typing == /\ form.customer \in Customers \cup {NoCustomer}
                     /\ form.carrier \in Drivers \cup {NoDriver}
                     /\ DOMAIN applied \subseteq ReceiverText
                     /\ shown \in loaded \cup {NoCustomer}
                     /\ enabled \in [PageReferences -> BOOLEAN]
           Inductive == Typing /\ HasCause
<1>1. PageInit => Inductive
  BY DEF PageInit, FreshForm
<1>2. PostsStand /\ Inductive /\ [PageNext]_pageVars => Inductive'
  <2> SUFFICES ASSUME PostsStand, Typing, HasCause, [PageNext]_pageVars PROVE Inductive'
    OBVIOUS
  <2>0. DOMAIN form = FormParts
    BY DEF PostsStand, FormStands
  <2>1. ASSUME page' = page, posts' = posts, visit' = visit PROVE HasCause'
    BY <2>1 DEF Awaited
  <2>2. ASSUME page' # "waiting" PROVE HasCause'
    BY <2>2
  <2>3. ASSUME NEW new, NEW c, Fill(new, c)
        PROVE  DOMAIN form' = DOMAIN new /\ form'.customer = new.customer
                 /\ form'.carrier = new.carrier
    BY <2>3 DEF Fill
  <2>4. ASSUME NEW c \in Customers, SelectCustomer(c) PROVE Inductive'
    <3> DEFINE new == [form EXCEPT !.customer = c,
                          !.text = [f \in Text |-> IF f \in StillFromSuggestion THEN NoText
                                                   ELSE form.text[f]]]
    <3>1. new.customer = c /\ new.carrier = form.carrier
      BY <2>0 DEF FormParts
    <3>2. form' = new \/ Fill(new, c) \/ Fill(new, shown)
      BY <2>4 DEF SelectCustomer
    <3> HIDE DEF new
    <3>3. form'.customer = c /\ form'.carrier = form.carrier
      BY <2>3, <3>1, <3>2
    <3> QED BY <2>1, <2>4, <3>3 DEF SelectCustomer
  <2>5. ASSUME NEW c \in Customers, Loaded(c) PROVE Inductive'
    <3>1. form'.customer = form.customer /\ form'.carrier = form.carrier
      BY <2>3, <2>5 DEF Loaded
    <3> QED BY <2>1, <2>5, <3>1 DEF Loaded
  <2>6. ASSUME NEW f \in Text, NEW value \in Typed[f], Type(f, value) PROVE Inductive'
    <3>1. form'.customer = form.customer /\ form'.carrier = form.carrier
      BY <2>0, <2>6 DEF Type, FormParts
    <3> QED BY <2>1, <2>6, <3>1 DEF Type
  <2>7. ASSUME NEW key \in PhoneKeys, Choose(key) PROVE Inductive'
    <3>1. form'.customer = form.customer /\ form'.carrier = form.carrier
      BY <2>0, <2>7 DEF Choose, FormParts
    <3>2. DOMAIN applied' \subseteq ReceiverText
      BY <2>7 DEF Choose, Suggestion
    <3> QED BY <2>1, <2>7, <3>1, <3>2 DEF Choose
  <2>8. ASSUME NEW intake, SwitchIntake(intake) PROVE Inductive'
    <3>1. Switched(intake).customer = form.customer /\ Switched(intake).carrier = NoDriver
      BY <2>0 DEF Switched, FormParts
    <3>2. form'.customer = form.customer /\ form'.carrier = NoDriver
      BY <2>3, <2>8, <3>1 DEF SwitchIntake
    <3> QED BY <2>1, <2>8, <3>2 DEF SwitchIntake
  <2>9. ASSUME NEW d \in Drivers \cup {NoDriver}, ChooseDriver(d) PROVE Inductive'
    <3>1. form'.customer = form.customer /\ form'.carrier = d
      BY <2>0, <2>9 DEF ChooseDriver, FormParts
    <3> QED BY <2>1, <2>9, <3>1 DEF ChooseDriver
  <2>10. ASSUME NEW edit \in PaymentEdits, EditPayment(edit) PROVE Inductive'
    <3>1. form'.customer = form.customer /\ form'.carrier = form.carrier
      BY <2>0, <2>10 DEF EditPayment, FormParts
    <3> QED BY <2>1, <2>10, <3>1 DEF EditPayment
  <2>11. ASSUME NEW s \in Posts, Submit(s) PROVE Inductive'
    <3> DEFINE new == [form |-> form, visit |-> visit, phase |-> "sent",
                       attempts |-> 0, result |-> "none", abandoned |-> FALSE]
    <3>1. posts'[s] = new /\ visit' = visit
      BY <2>11 DEF Submit, PostsStand
    <3>2. Awaited(s)'
      BY <3>1 DEF Awaited, NoPost
    <3> QED BY <2>11, <3>2 DEF Submit
  <2>12. ASSUME NEW s \in Posts, CheckPost(s) \/ Attempt(s) \/ Conflict(s) PROVE Inductive'
    <3>1. /\ posts[s] # NoPost /\ UNCHANGED client
          /\ \E changes \in {[phase |-> "done", result |-> "inactive"],
                             [phase |-> "done", result |-> "invalid"],
                             [phase |-> "checked"],
                             [phase |-> "done", result |-> "ok"],
                             [attempts |-> posts[s].attempts + 1],
                             [attempts |-> MaxAttempts, phase |-> "done",
                              result |-> "error"]} : PostStep(s, changes)
      BY <2>12 DEF CheckPost, Attempt, Conflict
    <3>2. \A t \in Posts : Awaited(t) => Awaited(t)'
      BY <3>1, PostStepAwaited DEF client
    <3>3. HasCause'
      BY <3>1, <3>2 DEF client
    <3>4. enabled' = enabled
      BY <2>12 DEF CheckPost, Attempt, Conflict
    <3> QED BY <3>1, <3>3, <3>4 DEF client
  <2>13. ASSUME NEW s \in Posts, AnswerPost(s) PROVE Inductive'
    <3>1. /\ posts[s] # NoPost /\ visit' = visit /\ PostStep(s, [phase |-> "answered"])
          /\ page' = IF posts[s].abandoned \/ posts[s].visit # visit THEN page
                     ELSE IF posts[s].result = "ok" THEN "created" ELSE "open"
      BY <2>13 DEF AnswerPost
    <3>2. CASE posts[s].abandoned \/ posts[s].visit # visit
      <4>1. ~ Awaited(s)
        BY <3>2 DEF Awaited
      <4>2. \A t \in Posts : Awaited(t) => Awaited(t)'
        BY <3>1, <4>1, PostStepAwaited
      <4> QED BY <2>13, <3>1, <3>2, <4>2 DEF AnswerPost
    <3>3. CASE ~ (posts[s].abandoned \/ posts[s].visit # visit)
      BY <2>13, <3>1, <3>3, <2>2 DEF AnswerPost
    <3> QED BY <3>2, <3>3
  <2>14. ASSUME NEW s \in Posts, GiveUpPost(s) PROVE Inductive'
    BY <2>2, <2>14 DEF GiveUpPost
  <2>15. ASSUME Visit PROVE Inductive'
    BY <2>2, <2>15 DEF Visit, FreshForm
  <2>16. ASSUME NEW x \in Retirable, Retire(x) PROVE Inductive'
    BY <2>1, <2>16 DEF Retire, client
  <2>17. ASSUME UNCHANGED pageVars PROVE Inductive'
    BY <2>1, <2>17 DEF pageVars, client
  <2> HIDE DEF Inductive
  <2> QED
    BY <2>4, <2>5, <2>6, <2>7, <2>8, <2>9, <2>10, <2>11, <2>12, <2>13, <2>14, <2>15,
       <2>16, <2>17 DEF PageNext
<1>3. Inductive => PageTypes
  BY DEF PageTypes, Awaited
<1> HIDE DEF Inductive
<1> QED BY <1>1, <1>2, <1>3, AlwaysPostsStand, PTL DEF PageSpec

-----------------------------------------------------------------------------
(* The cache of server data.                                               *)

TagsWait(q) == QueryTags(q) \intersect waiting # {}

\* What the session knows of one of its mutations.
MutationStands(m) ==
    /\ phase[m] # "adrift"
    /\ phase[m] \in {"idle", "sent", "refused"} => m \notin committed

\* A finished write that an answer under way, or an entry nobody asks for,
\* does not show has its tags still waiting.
EntryStands(q, m) ==
    /\ fetch[q] \notin {None, Asked} => m \in fetch[q] \/ TagsWait(q)
    /\ fetch[q] = None /\ entry[q] # None /\ ~ failed[q] => m \in entry[q] \/ TagsWait(q)

CacheShape ==
    /\ \E c \in Cases : watched = c[1] /\ intents = c[2]
    /\ DOMAIN entry = watched /\ DOMAIN fetch = watched /\ DOMAIN failed = watched
    /\ DOMAIN phase = intents /\ committed \subseteq intents

CacheStands ==
    /\ CacheShape
    /\ \A m \in intents : MutationStands(m)
    /\ \A q \in watched, m \in committed :
           phase[m] = "settled" /\ Concerns(m, q) => EntryStands(q, m)

\* The two hypotheses on the session: it alone writes, and a request that lost
\* its connection is not served later.
OwnAndTimely == Elsewhere = {} /\ ~ LateCommits

\* A settled request, and the matching of tags that may come with it.  entries,
\* fetches and lost are the cache before the matching, tags what waits.
LEMMA SettleStands ==
    ASSUME CacheStands, OwnAndTimely, NEW entries, NEW fetches, NEW phases, NEW tags,
           Settle(entries, fetches, phases, tags),
           UNCHANGED <<watched, intents, committed>>,
           DOMAIN entries = watched, DOMAIN fetches = watched,
           DOMAIN failed' = watched, DOMAIN phases = intents,
           \A m \in intents :
               /\ phases[m] # "adrift"
               /\ phases[m] \in {"idle", "sent", "refused"} => m \notin committed,
           \A q \in watched, m \in committed :
               phases[m] = "settled" /\ Concerns(m, q) =>
                   /\ fetches[q] \notin {None, Asked} =>
                          m \in fetches[q] \/ QueryTags(q) \intersect tags # {}
                   /\ fetches[q] = None /\ entries[q] # None /\ ~ failed'[q] =>
                          m \in entries[q] \/ QueryTags(q) \intersect tags # {}
    PROVE  CacheStands'
<1>1. CASE UnderWay(fetches, phases)
  <2>1. phase' = phases /\ waiting' = tags /\ entry' = entries /\ fetch' = fetches
    BY <1>1 DEF Settle
  <2> QED BY <2>1 DEF CacheStands, CacheShape, MutationStands, EntryStands, TagsWait, Concerns
<1>2. CASE ~ UnderWay(fetches, phases)
  <2> DEFINE matched == {q \in watched : QueryTags(q) \intersect tags # {}}
  <2>1. /\ phase' = phases /\ waiting' = {}
        /\ entry' = [q \in watched |->
                        IF q \in matched /\ ~mounted[q] THEN None ELSE entries[q]]
        /\ fetch' = [q \in watched |->
                        IF q \in matched /\ mounted[q] THEN Asked ELSE fetches[q]]
    BY <1>2 DEF Settle
  <2>2. \A q \in watched : fetches[q] = None
    BY <1>2 DEF UnderWay
  <2>3. CacheShape' /\ \A m \in intents' : MutationStands(m)'
    BY <2>1 DEF CacheStands, CacheShape, MutationStands
  <2>4. ASSUME NEW q \in watched, NEW m \in committed,
               phases[m] = "settled", Concerns(m, q)
        PROVE  EntryStands(q, m)'
    <3>1. /\ entries[q] # None /\ ~ failed'[q] =>
                 m \in entries[q] \/ QueryTags(q) \intersect tags # {}
      BY <2>2, <2>4
    <3>2. CASE q \in matched /\ mounted[q]
      <4>1. fetch'[q] = Asked
        BY <2>1, <3>2
      <4> QED BY <4>1, AbsentAssumption DEF EntryStands
    <3>3. CASE q \in matched /\ ~ mounted[q]
      <4>1. fetch'[q] = None /\ entry'[q] = None
        BY <2>1, <2>2, <3>3
      <4> QED BY <4>1 DEF EntryStands
    <3>4. CASE q \notin matched
      <4>1. fetch'[q] = None /\ entry'[q] = entries[q]
        BY <2>1, <2>2, <3>4
      <4>2. QueryTags(q) \intersect tags = {}
        BY <3>4
      <4> QED BY <3>1, <4>1, <4>2 DEF EntryStands
    <3> QED BY <3>2, <3>3, <3>4
  <2> QED BY <2>1, <2>3, <2>4 DEF CacheStands, Concerns
<1> QED BY <1>1, <1>2

\* Every answer shows every write committed before it.
LEMMA AnswerIsSet ==
    ASSUME CacheStands, NEW q \in watched
    PROVE  AnswerOf(q) # None /\ AnswerOf(q) # Asked
<1>1. AnswerOf(q) \subseteq intents
  BY DEF AnswerOf, CacheStands, CacheShape
<1> QED BY <1>1, AbsentAssumption DEF CacheStands, CacheShape

\* The tags of a mutation that ends reach every query that reads what it wrote.
LEMMA TagsArrive ==
    ASSUME CacheStands, TagsMatch, OwnAndTimely, NEW m \in intents, NEW q \in watched,
           Concerns(m, q), NEW answered \in BOOLEAN
    PROVE  QueryTags(q) \intersect (waiting \union TagsOf(m, answered)) # {}
<1>1. TagsOf(m, answered) = MutationTags(m, answered)
  BY DEF TagsOf, OwnAndTimely
<1>2. QueryTags(q) \intersect MutationTags(m, answered) # {}
  BY DEF TagsMatch, CacheStands, CacheShape
<1> QED BY <1>1, <1>2

\* A mutation that ends: its tags join those that wait.
LEMMA EndStands ==
    ASSUME CacheStands, TagsMatch, OwnAndTimely, NEW m \in intents,
           NEW answered \in BOOLEAN,
           phase[m] \in {"committed", "refused", "sent"},
           Settle(entry, fetch, [phase EXCEPT ![m] = "settled"],
                  waiting \union TagsOf(m, answered)),
           UNCHANGED <<watched, intents, failed, mounted, committed>>
    PROVE  CacheStands'
<1> DEFINE phases == [phase EXCEPT ![m] = "settled"]
           tags == waiting \union TagsOf(m, answered)
<1>1. /\ DOMAIN phases = intents
      /\ \A n \in intents : phases[n] = IF n = m THEN "settled" ELSE phase[n]
  BY DEF CacheStands, CacheShape
<1>2. \A n \in intents : /\ phases[n] # "adrift"
                         /\ phases[n] \in {"idle", "sent", "refused"} => n \notin committed
  BY <1>1 DEF CacheStands, MutationStands
<1>3. ASSUME NEW q \in watched, NEW n \in committed,
             phases[n] = "settled", Concerns(n, q)
      PROVE  /\ fetch[q] \notin {None, Asked} =>
                    n \in fetch[q] \/ QueryTags(q) \intersect tags # {}
             /\ fetch[q] = None /\ entry[q] # None /\ ~ failed'[q] =>
                    n \in entry[q] \/ QueryTags(q) \intersect tags # {}
  <2>1. CASE n = m
    BY <1>3, <2>1, TagsArrive
  <2>2. CASE n # m
    <3>1. phase[n] = "settled"
      BY <1>1, <1>3, <2>2 DEF CacheStands, CacheShape
    <3>2. EntryStands(q, n)
      BY <1>3, <3>1 DEF CacheStands
    <3>3. TagsWait(q) => QueryTags(q) \intersect tags # {}
      BY DEF TagsWait
    <3> QED BY <3>2, <3>3 DEF EntryStands
  <2> QED BY <2>1, <2>2
<1> HIDE DEF phases, tags
<1>4. Settle(entry, fetch, phases, tags)
  BY DEF phases, tags
<1>5. DOMAIN entry = watched /\ DOMAIN fetch = watched /\ DOMAIN failed' = watched
  BY DEF CacheStands, CacheShape
<1> QED BY <1>1, <1>2, <1>3, <1>4, <1>5, SettleStands

\* Where the tags of a session's mutations match what its queries read, for
\* any number of queries and mutations under way and answers that are lost, a
\* write of the session is never forgotten by a screen: what an entry does not
\* show is being asked for, or its tags wait.  The client's own table matches
\* on all the pairs of requests but those MCScreens lists as Overlooked.
THEOREM WritesAreNeverForgotten ==
    ASSUME TagsMatch, OwnAndTimely
    PROVE  CacheSpec => []WritesReachTheScreen
<1>1. CacheInit => CacheStands
  BY DEF CacheInit, CacheStands, CacheShape, MutationStands
<1>2. CacheStands /\ [CacheNext]_cacheVars => CacheStands'
  <2> SUFFICES ASSUME CacheStands, [CacheNext]_cacheVars PROVE CacheStands'
    OBVIOUS
  <2>0. /\ DOMAIN entry = watched /\ DOMAIN fetch = watched /\ DOMAIN failed = watched
        /\ DOMAIN phase = intents /\ committed \subseteq intents
    BY DEF CacheStands, CacheShape
  <2>1. ASSUME NEW q \in watched, Mount(q) PROVE CacheStands'
    <3>1. /\ DOMAIN fetch' = watched
          /\ \A r \in watched : fetch'[r] = fetch[r]
                 \/ (r = q /\ entry[q] = None /\ fetch'[r] = Asked)
      BY <2>0, <2>1 DEF Mount
    <3>2. UNCHANGED <<watched, intents, entry, failed, phase, committed, waiting>>
      BY <2>1 DEF Mount
    <3>3. ASSUME NEW r \in watched, NEW m \in committed, EntryStands(r, m)
          PROVE  EntryStands(r, m)'
      BY <3>1, <3>2, <3>3, AbsentAssumption DEF EntryStands, TagsWait
    <3> QED BY <3>1, <3>2, <3>3 DEF CacheStands, CacheShape, MutationStands, Concerns
  <2>2. ASSUME NEW q \in watched, Unmount(q) PROVE CacheStands'
    BY <2>2 DEF Unmount, CacheStands, CacheShape, MutationStands, EntryStands, TagsWait,
                Concerns
  <2>3. ASSUME NEW q \in watched, Expire(q) PROVE CacheStands'
    <3>1. /\ DOMAIN entry' = watched
          /\ \A r \in watched : entry'[r] = entry[r] \/ entry'[r] = None
      BY <2>0, <2>3 DEF Expire
    <3>2. UNCHANGED <<watched, intents, fetch, failed, phase, committed, waiting>>
      BY <2>3 DEF Expire
    <3>3. ASSUME NEW r \in watched, NEW m \in committed, EntryStands(r, m)
          PROVE  EntryStands(r, m)'
      BY <3>1, <3>2, <3>3 DEF EntryStands, TagsWait
    <3> QED BY <3>1, <3>2, <3>3 DEF CacheStands, CacheShape, MutationStands, Concerns
  <2>4. ASSUME NEW q \in watched, ServerAnswers(q) PROVE CacheStands'
    <3>1. /\ DOMAIN fetch' = watched
          /\ \A r \in watched : fetch'[r] = IF r = q THEN AnswerOf(q) ELSE fetch[r]
      BY <2>0, <2>4 DEF ServerAnswers
    <3>2. UNCHANGED <<watched, intents, entry, failed, phase, committed, waiting>>
      BY <2>4 DEF ServerAnswers
    <3>3. ASSUME NEW r \in watched, NEW m \in committed, EntryStands(r, m), Concerns(m, r)
          PROVE  EntryStands(r, m)'
      <4>1. CASE r = q
        <5>1. m \in AnswerOf(q)
          BY <3>3, <4>1 DEF AnswerOf
        <5> QED BY <3>1, <4>1, <5>1, AnswerIsSet DEF EntryStands
      <4>2. CASE r # q
        BY <3>1, <3>2, <3>3, <4>2 DEF EntryStands, TagsWait
      <4> QED BY <4>1, <4>2
    <3> QED BY <3>1, <3>2, <3>3 DEF CacheStands, CacheShape, MutationStands, Concerns
  <2>5. ASSUME NEW q \in watched, Fulfilled(q) PROVE CacheStands'
    <3> DEFINE entries == [entry EXCEPT ![q] = fetch[q]]
               fetches == [fetch EXCEPT ![q] = None]
    <3>1. /\ Settle(entries, fetches, phase, waiting) /\ fetch[q] \notin {None, Asked}
          /\ UNCHANGED <<watched, intents, mounted, committed>>
          /\ failed' = [failed EXCEPT ![q] = FALSE]
      BY <2>5 DEF Fulfilled
    <3>2. /\ DOMAIN entries = watched /\ DOMAIN fetches = watched /\ DOMAIN failed' = watched
          /\ \A r \in watched :
                 /\ entries[r] = IF r = q THEN fetch[q] ELSE entry[r]
                 /\ fetches[r] = IF r = q THEN None ELSE fetch[r]
                 /\ r # q => failed'[r] = failed[r]
      BY <2>0, <3>1
    <3>3. ASSUME NEW r \in watched, NEW m \in committed, phase[m] = "settled", Concerns(m, r)
          PROVE  /\ fetches[r] \notin {None, Asked} =>
                        m \in fetches[r] \/ QueryTags(r) \intersect waiting # {}
                 /\ fetches[r] = None /\ entries[r] # None /\ ~ failed'[r] =>
                        m \in entries[r] \/ QueryTags(r) \intersect waiting # {}
      <4>1. EntryStands(r, m)
        BY <3>3 DEF CacheStands
      <4> QED BY <3>1, <3>2, <4>1 DEF EntryStands, TagsWait
    <3> HIDE DEF entries, fetches
    <3>4. \A m \in intents : /\ phase[m] # "adrift"
                             /\ phase[m] \in {"idle", "sent", "refused"} => m \notin committed
      BY DEF CacheStands, MutationStands
    <3> QED BY <2>0, <3>1, <3>2, <3>3, <3>4, SettleStands
  <2>6. ASSUME NEW q \in watched, Rejected(q) PROVE CacheStands'
    <3> DEFINE fetches == [fetch EXCEPT ![q] = None]
    <3>1. /\ Settle(entry, fetches, phase, waiting)
          /\ UNCHANGED <<watched, intents, mounted, committed>>
          /\ failed' = [failed EXCEPT ![q] = TRUE]
      BY <2>6 DEF Rejected
    <3>2. /\ DOMAIN fetches = watched /\ DOMAIN failed' = watched
          /\ \A r \in watched :
                 /\ fetches[r] = IF r = q THEN None ELSE fetch[r]
                 /\ failed'[r] = IF r = q THEN TRUE ELSE failed[r]
      BY <2>0, <3>1
    <3>3. ASSUME NEW r \in watched, NEW m \in committed, phase[m] = "settled", Concerns(m, r)
          PROVE  /\ fetches[r] \notin {None, Asked} =>
                        m \in fetches[r] \/ QueryTags(r) \intersect waiting # {}
                 /\ fetches[r] = None /\ entry[r] # None /\ ~ failed'[r] =>
                        m \in entry[r] \/ QueryTags(r) \intersect waiting # {}
      <4>1. EntryStands(r, m)
        BY <3>3 DEF CacheStands
      <4> QED BY <3>2, <4>1 DEF EntryStands, TagsWait
    <3> HIDE DEF fetches
    <3>4. \A m \in intents : /\ phase[m] # "adrift"
                             /\ phase[m] \in {"idle", "sent", "refused"} => m \notin committed
      BY DEF CacheStands, MutationStands
    <3> QED BY <2>0, <3>1, <3>2, <3>3, <3>4, SettleStands
  <2>7. ASSUME NEW m \in intents, SendMutation(m) \/ RefuseMutation(m) PROVE CacheStands'
    <3>1. /\ DOMAIN phase' = intents
          /\ phase[m] \in {"idle", "sent"} /\ phase'[m] \in {"sent", "refused"}
          /\ \A n \in intents : n # m => phase'[n] = phase[n]
          /\ UNCHANGED <<watched, intents, entry, fetch, failed, committed, waiting>>
      BY <2>0, <2>7 DEF SendMutation, RefuseMutation
    <3>2. \A n \in intents : MutationStands(n)'
      BY <3>1 DEF CacheStands, MutationStands
    <3>3. \A n \in intents : phase'[n] = "settled" => phase[n] = "settled"
      BY <3>1
    <3>4. \A r \in watched, n \in committed : EntryStands(r, n) => EntryStands(r, n)'
      BY <3>1 DEF EntryStands, TagsWait
    <3>5. CacheShape'
      BY <3>1 DEF CacheStands, CacheShape
    <3> QED BY <2>0, <3>1, <3>2, <3>3, <3>4, <3>5 DEF CacheStands, Concerns
  <2>8. ASSUME NEW m \in intents, CommitMutation(m) PROVE CacheStands'
    <3>1. phase[m] = "sent"
      BY <2>8 DEF CommitMutation, CacheStands, MutationStands
    <3>2. /\ DOMAIN phase' = intents /\ committed' = committed \union {m}
          /\ \A n \in intents : phase'[n] = IF n = m THEN "committed" ELSE phase[n]
          /\ UNCHANGED <<watched, intents, entry, fetch, failed, waiting>>
      BY <2>0, <2>8, <3>1 DEF CommitMutation
    <3>3. CacheShape' /\ \A n \in intents : MutationStands(n)'
      BY <3>2 DEF CacheStands, CacheShape, MutationStands
    <3>4. ASSUME NEW r \in watched, NEW n \in committed', phase'[n] = "settled", Concerns(n, r)
          PROVE  EntryStands(r, n)'
      <4>1. n \in committed /\ phase[n] = "settled"
        BY <2>0, <3>2, <3>4
      <4>2. EntryStands(r, n)
        BY <3>4, <4>1 DEF CacheStands
      <4> QED BY <3>2, <4>2 DEF EntryStands, TagsWait
    <3> QED BY <3>2, <3>3, <3>4 DEF CacheStands, Concerns
  <2>9. ASSUME NEW m \in intents, Reply(m) PROVE CacheStands'
    <3>1. (phase[m] = "committed") \in BOOLEAN
      OBVIOUS
    <3> QED BY <2>9, <3>1, EndStands DEF Reply
  <2>10. ASSUME NEW m \in intents, Lose(m) PROVE CacheStands'
    <3>1. Settle(entry, fetch, [phase EXCEPT ![m] = "settled"], waiting \union TagsOf(m, FALSE))
      BY <2>10 DEF Lose, OwnAndTimely
    <3> QED BY <2>10, <3>1, EndStands DEF Lose
  <2>11. ASSUME UNCHANGED cacheVars PROVE CacheStands'
    BY <2>11 DEF cacheVars, CacheStands, CacheShape, MutationStands, EntryStands, TagsWait,
                 Concerns
  <2> QED
    BY <2>1, <2>2, <2>3, <2>4, <2>5, <2>6, <2>7, <2>8, <2>9, <2>10, <2>11 DEF CacheNext
<1>3. CacheStands => WritesReachTheScreen
  <2> SUFFICES ASSUME CacheStands, NEW q \in watched, NEW m \in committed,
                      phase[m] = "settled", Concerns(m, q), entry[q] # None, ~ failed[q]
               PROVE  m \in entry[q] \/ AskedAgain(q, m)
    BY DEF WritesReachTheScreen
  <2>1. EntryStands(q, m)
    BY DEF CacheStands
  <2> QED BY <2>1 DEF EntryStands, AskedAgain, TagsWait
<1> QED BY <1>1, <1>2, <1>3, PTL DEF CacheSpec

-----------------------------------------------------------------------------
(* The driver's job page.                                                  *)

JobStatuses ==
    COLLECTION_CURRENT_STATUSES \cup DELIVERY_CURRENT_STATUSES
       \cup {"FAILED", "RECEIVED", "FAILED_DELIVERY", "DELIVERED"}

Jobs == [type : JobTypes, status : JobStatuses, mine : BOOLEAN, amount : Amounts,
         method : JobMethods \cup {NoJobMethod}]

JobFields == [amount : Amounts, typed : BOOLEAN, explained : BOOLEAN,
              method : JobMethods \cup {NoJobMethod}, chose : BOOLEAN,
              reason : Reasons \cup {NoReason}, notes : BOOLEAN]

Outcomes == {"none", "OK", "STALE"} \cup {Precedence[i] : i \in DOMAIN Precedence}

Submitted == [at : {"sent", "read", "answered"}, action : JobActions,
              shown : BOOLEAN, form : JobFields, seen : Jobs, outcome : Outcomes]

JobScreenTyped ==
    /\ job \in Jobs /\ seen \in [at : {"loading", "ok", "error"}, job : Jobs]
    /\ jobDialog \in JobActions \cup {"none"} /\ filled \in JobFields
    /\ offered \in [at : {"none", "loading", "ready", "error"}, reasons : SUBSET Reasons]

ActionsTyped == actions \in [JobSlots -> {NoAction} \cup Submitted]

\* What the handler has read and accepted: the amount, or a reason.
ReadExplained(a) ==
    a.at = "read" /\ a.action = "deliver" =>
        a.form.explained \/ a.form.amount = a.seen.amount

JobInv ==
    /\ JobScreenTyped /\ ActionsTyped
    /\ \A s \in JobSlots : ReadExplained(actions[s])

LEMMA JobBegins == JobInit => JobInv
<1> SUFFICES ASSUME JobInit PROVE JobInv
  OBVIOUS
<1>1. job \in Jobs
  <2> PICK type \in JobTypes, a \in Amounts, m \in JobMethods \cup {NoJobMethod} :
          job = [type |-> type, status |-> "ASSIGNED", mine |-> TRUE,
                 amount |-> a, method |-> m]
    BY DEF JobInit
  <2> QED BY DEF Jobs, JobStatuses, COLLECTION_CURRENT_STATUSES
<1>2. NoForm \in JobFields
  BY ZeroAmongAmounts DEF NoForm, JobFields
<1>3. JobScreenTyped
  BY <1>1, <1>2 DEF JobInit, JobScreenTyped, NotOffered
<1>4. ActionsTyped
  BY DEF JobInit, ActionsTyped
<1>5. ASSUME NEW s \in JobSlots PROVE ReadExplained(actions[s])
  BY <1>5 DEF JobInit, ReadExplained, NoAction
<1> QED BY <1>3, <1>4, <1>5 DEF JobInv

LEMMA JobStaysAJob ==
    ASSUME JobInv, JobNext
    PROVE  job' \in Jobs
<1> USE DEF Jobs, JobStatuses, COLLECTION_CURRENT_STATUSES, DELIVERY_CURRENT_STATUSES
<1>1. job \in Jobs
  BY DEF JobInv, JobScreenTyped
<1>2. CASE \E s \in JobSlots : ClaimJob(s)
  <2> PICK s \in JobSlots : ClaimJob(s)
    BY <1>2
  <2>1. CASE actions[s].at # "read" \/ ~JobClaimable(actions[s])
    BY <1>1, <2>1 DEF ClaimJob
  <2>2. CASE actions[s].at = "read" /\ JobClaimable(actions[s])
    <3>1. actions[s].action \in JobActions /\ actions[s].form \in JobFields
      BY <2>2 DEF JobInv, ActionsTyped, Submitted, NoAction
    <3>2. actions[s].form.method \in JobMethods \cup {NoJobMethod}
      BY <3>1 DEF JobFields
    <3>3. job' = After(actions[s])
      BY <2>2 DEF ClaimJob
    <3>4. CASE actions[s].action = "deliver"
      BY <1>1, <3>2, <3>3, <3>4 DEF After
    <3>5. CASE actions[s].action = "collectionFailed"
      BY <1>1, <3>3, <3>5 DEF After
    <3>6. CASE actions[s].action \in {"collected", "pickup", "start", "fail"}
      BY <1>1, <3>3, <3>6 DEF After
    <3> QED BY <3>1, <3>4, <3>5, <3>6 DEF JobActions
  <2> QED BY <2>1, <2>2
<1>3. CASE Management
  <2>1. CASE EditOrder
    BY <1>1, <2>1 DEF EditOrder
  <2>2. CASE Unassign \/ Assign
    BY <1>1, <2>2 DEF Unassign, Assign
  <2>3. CASE Reschedule \/ ReceiveParcel \/ DeactivateSetting
    BY <1>1, <2>3 DEF Reschedule, ReceiveParcel, DeactivateSetting
  <2> QED BY <1>3, <2>1, <2>2, <2>3 DEF Management
<1>4. CASE UNCHANGED job
  BY <1>1, <1>4
<1>5. CASE DriverActs
  BY <1>4, <1>5 DEF DriverActs, OpenJobDialog, CloseJobDialog, TypeAmount, ChooseMethod,
     ChooseReason, SubmitJob, RetryJob, Leave, VisitJob, jobServer
<1>6. CASE JobArrives \/ JobFails \/ ReasonsArrive
  BY <1>4, <1>6 DEF JobArrives, JobFails, ReasonsArrive, jobServer
<1>7. CASE \E s \in JobSlots : ReadJob(s) \/ AnswerJob(s) \/ JobConnectionBreaks(s)
  BY <1>4, <1>7 DEF ReadJob, AnswerJob, JobConnectionBreaks, jobServer
<1> QED BY <1>2, <1>3, <1>5, <1>6, <1>7 DEF JobNext

LEMMA BlankFields ==
    /\ NoForm \in JobFields
    /\ \A v \in Jobs : DeliverForm(v) \in JobFields
<1>1. NoForm \in JobFields
  BY ZeroAmongAmounts DEF NoForm, JobFields
<1>2. ASSUME NEW v \in Jobs PROVE DeliverForm(v) \in JobFields
  <2>1. v.method \in JobMethods \cup {NoJobMethod} /\ (v.amount = 0) \in BOOLEAN
    BY DEF Jobs
  <2> QED BY <1>1, <2>1 DEF DeliverForm, JobFields
<1> QED BY <1>1, <1>2

LEMMA HearingKeepsTypes ==
    ASSUME JobScreenTyped, NEW a \in Submitted, NEW outcome, JobPageHears(a, outcome)
    PROVE  /\ seen' = seen /\ jobDialog' \in {jobDialog, "none"} /\ filled' \in {filled, NoForm}
           /\ offered' \in [at : {"none", "loading", "ready", "error"},
                            reasons : SUBSET Reasons]
<1> USE DEF JobScreenTyped
<1>1. CASE ~a.shown \/ outcome = "OK"
  BY <1>1 DEF JobPageHears, jobDialogs, NotOffered
<1>2. CASE a.shown /\ outcome # "OK"
  <2>1. ErrorShown(outcome) /\ UNCHANGED <<seen, filled>>
    BY <1>2 DEF JobPageHears
  <2>2. jobDialog' \in {jobDialog, "none"}
    BY <1>2 DEF JobPageHears
  <2>3. offered' \in {offered, [offered EXCEPT !.at = "loading"]}
    BY <2>1 DEF ErrorShown
  <2> QED BY <2>1, <2>2, <2>3
<1> QED BY <1>1, <1>2

LEMMA JobScreenStaysTyped ==
    ASSUME JobInv, JobNext
    PROVE  JobScreenTyped'
<1> USE DEF JobScreenTyped
<1>1. job' \in Jobs
  BY JobStaysAJob
<1>2. /\ JobScreenTyped /\ ActionsTyped
  BY DEF JobInv
<1>3. CASE UNCHANGED <<seen, jobDialogs>>
  BY <1>1, <1>2, <1>3 DEF jobDialogs
<1>4. CASE \E action \in JobActions : OpenJobDialog(action)
  <2> PICK action \in JobActions : OpenJobDialog(action)
    BY <1>4
  <2>1. UNCHANGED seen /\ jobDialog' = action
    BY DEF OpenJobDialog
  <2>2. filled' \in JobFields
    BY <1>2, BlankFields DEF OpenJobDialog
  <2>3. offered' \in {[at |-> "loading", reasons |-> {}], NotOffered}
    BY DEF OpenJobDialog
  <2> QED BY <1>1, <1>2, <2>1, <2>2, <2>3 DEF NotOffered
<1>5. CASE CloseJobDialog \/ VisitJob
  <2>1. filled' = NoForm /\ offered' = NotOffered /\ jobDialog' = "none"
    BY <1>5 DEF CloseJobDialog, VisitJob
  <2>2. seen' \in {seen, [at |-> "loading", job |-> seen.job]}
    BY <1>5 DEF CloseJobDialog, VisitJob
  <2> QED BY <1>1, <1>2, <2>1, <2>2, BlankFields DEF NotOffered
<1>6. CASE TypeAmount \/ ChooseMethod \/ ChooseReason
  <2>1. UNCHANGED <<seen, jobDialog, offered>>
    BY <1>6 DEF TypeAmount, ChooseMethod, ChooseReason
  <2>2. CASE TypeAmount
    BY <1>1, <1>2, <2>1, <2>2 DEF TypeAmount, JobFields
  <2>3. CASE ChooseMethod
    BY <1>1, <1>2, <2>1, <2>3 DEF ChooseMethod, JobFields
  <2>4. CASE ChooseReason
    <3> PICK r \in offered.reasons, notes \in BOOLEAN :
            filled' = [filled EXCEPT !.reason = r, !.notes = notes]
      BY <2>4 DEF ChooseReason
    <3>1. r \in Reasons
      BY <1>2
    <3>2. filled' \in JobFields
      BY <1>2, <3>1 DEF JobFields
    <3> QED BY <1>1, <1>2, <2>1, <3>2
  <2> QED BY <1>6, <2>2, <2>3, <2>4
<1>7. CASE RetryJob
  <2>1. UNCHANGED <<seen, jobDialog, filled>>
    BY <1>7 DEF RetryJob
  <2>2. offered' \in {offered, [offered EXCEPT !.at = "loading"]}
    BY <1>7 DEF RetryJob
  <2> QED BY <1>1, <1>2, <2>1, <2>2
<1>8. CASE \E s \in JobSlots : AnswerJob(s) \/ JobConnectionBreaks(s)
  <2> PICK s \in JobSlots : AnswerJob(s) \/ JobConnectionBreaks(s)
    BY <1>8
  <2> PICK outcome \in {actions[s].outcome, "UNREACHABLE"} :
          JobPageHears(actions[s], outcome) /\ actions[s].at # "free"
    BY DEF AnswerJob, JobConnectionBreaks
  <2>1. actions[s] \in Submitted
    BY <1>2 DEF ActionsTyped, NoAction
  <2> QED BY <1>1, <1>2, <2>1, HearingKeepsTypes, BlankFields
<1>9. CASE JobArrives
  <2>1. UNCHANGED <<jobDialog, offered>> /\ seen' = [at |-> "ok", job |-> job]
    BY <1>9 DEF JobArrives
  <2>2. filled' \in {DeliverForm(job), filled}
    BY <1>9 DEF JobArrives
  <2> QED BY <1>1, <1>2, <2>1, <2>2, BlankFields
<1>10. CASE JobFails
  <2>1. UNCHANGED jobDialog /\ seen' = [at |-> "error", job |-> seen.job] /\ filled' = NoForm
    BY <1>10 DEF JobFails
  <2>2. offered' \in {[at |-> "loading", reasons |-> {}], NotOffered}
    BY <1>10 DEF JobFails
  <2> QED BY <1>1, <1>2, <2>1, <2>2, BlankFields DEF NotOffered
<1>11. CASE ReasonsArrive
  <2>1. UNCHANGED <<seen, jobDialog, filled>>
    BY <1>11 DEF ReasonsArrive
  <2>2. offered' \in {[at |-> "ready", reasons |-> actives \cap Reasons],
                      [offered EXCEPT !.at = "error"]}
    BY <1>11 DEF ReasonsArrive
  <2> QED BY <1>1, <1>2, <2>1, <2>2
<1>12. CASE \/ Leave \/ Management
            \/ \E s \in JobSlots : SubmitJob(s) \/ ReadJob(s) \/ ClaimJob(s)
  BY <1>3, <1>12 DEF Leave, Management, SubmitJob, ReadJob, ClaimJob, jobScreen, jobDialogs
<1> QED
  BY <1>4, <1>5, <1>6, <1>7, <1>8, <1>9, <1>10, <1>11, <1>12 DEF JobNext, DriverActs

\* A request changes at the hands of its own steps only.
LEMMA ActionsStayExplained ==
    ASSUME JobInv, JobNext
    PROVE  ActionsTyped' /\ \A s \in JobSlots : ReadExplained(actions'[s])
<1>1. ActionsTyped /\ \A s \in JobSlots : ReadExplained(actions[s])
  BY DEF JobInv
<1>2. CASE UNCHANGED actions
  BY <1>1, <1>2 DEF ActionsTyped
<1>3. ASSUME NEW s \in JobSlots, NEW a \in {NoAction} \cup Submitted,
             ReadExplained(a), actions' = [actions EXCEPT ![s] = a]
      PROVE  ActionsTyped' /\ \A t \in JobSlots : ReadExplained(actions'[t])
  BY <1>1, <1>3 DEF ActionsTyped
<1>4. ReadExplained(NoAction)
  BY DEF ReadExplained, NoAction
<1>5. CASE \E s \in JobSlots : SubmitJob(s)
  <2> PICK s \in JobSlots : SubmitJob(s)
    BY <1>5
  <2> DEFINE a == [at |-> "sent", action |-> jobDialog, shown |-> TRUE,
                   form |-> [filled EXCEPT
                       !.explained = @ /\ filled.amount # seen.job.amount],
                   seen |-> job, outcome |-> "none"]
  <2>1. actions' = [actions EXCEPT ![s] = a] /\ jobDialog \in JobActions
    BY DEF SubmitJob, Editing
  <2>2. filled \in JobFields /\ job \in Jobs
    BY DEF JobInv, JobScreenTyped
  <2>3. [filled EXCEPT !.explained = @ /\ filled.amount # seen.job.amount] \in JobFields
    BY <2>2 DEF JobFields
  <2>4. a \in Submitted
    BY <2>1, <2>2, <2>3 DEF Submitted, Outcomes
  <2>5. ReadExplained(a)
    BY DEF ReadExplained
  <2> QED BY <1>3, <2>1, <2>4, <2>5
<1>6. ASSUME NEW s \in JobSlots, NEW why \in Outcomes, AnsweredJob(s, why),
             actions[s].at # "free"
      PROVE  ActionsTyped' /\ \A t \in JobSlots : ReadExplained(actions'[t])
  <2> DEFINE a == [actions[s] EXCEPT !.at = "answered", !.outcome = why]
  <2>1. actions[s] \in Submitted
    BY <1>1, <1>6 DEF ActionsTyped, NoAction
  <2>2. a \in Submitted /\ ReadExplained(a)
    BY <2>1 DEF Submitted, ReadExplained
  <2>3. actions' = [actions EXCEPT ![s] = a]
    BY <1>6 DEF AnsweredJob
  <2> QED BY <1>3, <2>2, <2>3
<1>7. CASE \E s \in JobSlots : ReadJob(s)
  <2> PICK s \in JobSlots : ReadJob(s)
    BY <1>7
  <2>1. actions[s] \in Submitted
    BY <1>1 DEF ActionsTyped, NoAction, ReadJob
  <2>2. CASE \E i \in DOMAIN Precedence : AnsweredJob(s, Precedence[i])
    <3> PICK i \in DOMAIN Precedence : AnsweredJob(s, Precedence[i])
      BY <2>2
    <3>1. Precedence[i] \in Outcomes
      BY DEF Outcomes
    <3> QED BY <1>6, <3>1 DEF ReadJob
  <2>3. CASE /\ \A i \in DOMAIN Precedence : ~Refusals(actions[s])[Precedence[i]]
             /\ actions' = [actions EXCEPT ![s].at = "read", ![s].seen = job]
    <3> DEFINE a == [actions[s] EXCEPT !.at = "read", !.seen = job]
    <3>1. 6 \in DOMAIN Precedence /\ Precedence[6] = "DIFFERENCE"
      BY DEF Precedence
    <3>2. ~Refusals(actions[s])["DIFFERENCE"]
      BY <2>3, <3>1
    <3>3. actions[s].action = "deliver" =>
              actions[s].form.explained \/ actions[s].form.amount = job.amount
      BY <3>2 DEF Refusals
    <3>4. job \in Jobs
      BY DEF JobInv, JobScreenTyped
    <3>5. a \in Submitted /\ ReadExplained(a)
      BY <2>1, <3>3, <3>4 DEF Submitted, ReadExplained
    <3>6. actions' = [actions EXCEPT ![s] = a]
      BY <2>3
    <3> QED BY <1>3, <3>5, <3>6
  <2> QED BY <2>2, <2>3 DEF ReadJob
<1>8. CASE \E s \in JobSlots : ClaimJob(s)
  <2> PICK s \in JobSlots, why \in {"OK", "STALE"} :
          AnsweredJob(s, why) /\ actions[s].at = "read"
    BY <1>8 DEF ClaimJob
  <2> QED BY <1>6 DEF Outcomes
<1>9. CASE \E s \in JobSlots : AnswerJob(s) \/ JobConnectionBreaks(s)
  <2> PICK s \in JobSlots : actions' = [actions EXCEPT ![s] = NoAction]
    BY <1>9 DEF AnswerJob, JobConnectionBreaks
  <2> QED BY <1>3, <1>4
<1>10. CASE Leave
  <2>1. actions' = Unseen
    BY <1>10 DEF Leave
  <2>2. ASSUME NEW s \in JobSlots
        PROVE  /\ actions'[s] \in {NoAction} \cup Submitted
               /\ ReadExplained(actions'[s])
    <3>1. CASE actions[s].at = "free"
      BY <1>4, <2>1, <3>1 DEF Unseen
    <3>2. CASE actions[s].at # "free"
      <4>1. actions[s] \in Submitted /\ ReadExplained(actions[s])
        BY <1>1, <3>2 DEF ActionsTyped, NoAction
      <4>2. actions'[s] = [actions[s] EXCEPT !.shown = FALSE]
        BY <2>1, <3>2 DEF Unseen
      <4> QED BY <4>1, <4>2 DEF Submitted, ReadExplained
    <3> QED BY <3>1, <3>2
  <2> QED BY <2>1, <2>2 DEF ActionsTyped, Unseen
<1>11. CASE \/ \E action \in JobActions : OpenJobDialog(action)
            \/ CloseJobDialog \/ TypeAmount \/ ChooseMethod \/ ChooseReason
            \/ RetryJob \/ VisitJob
  BY <1>2, <1>11 DEF OpenJobDialog, CloseJobDialog, TypeAmount, ChooseMethod, ChooseReason,
     RetryJob, VisitJob
<1>12. CASE JobArrives \/ JobFails \/ ReasonsArrive \/ Management
  BY <1>2, <1>12 DEF JobArrives, JobFails, ReasonsArrive, Management
<1> QED BY <1>5, <1>7, <1>8, <1>9, <1>10, <1>11, <1>12 DEF JobNext, DriverActs

\* The claim finds the amount that was read, so what the handler accepted of
\* the difference still holds of the order that is delivered.
LEMMA ClaimExplained ==
    ASSUME JobInv, NEW s \in JobSlots, ClaimJob(s),
           job'.status = "DELIVERED", job.status # "DELIVERED"
    PROVE  actions[s].form.explained \/ actions[s].form.amount = job.amount
<1>1. JobClaimable(actions[s]) /\ job' = After(actions[s]) /\ actions[s].at = "read"
  BY DEF ClaimJob
<1>2. actions[s].action \in JobActions /\ job \in Jobs
  BY <1>1 DEF JobInv, JobScreenTyped, ActionsTyped, Submitted, NoAction
<1>3. actions[s].action = "deliver"
  BY <1>1, <1>2 DEF After, JobActions, Jobs
<1>4. ReadExplained(actions[s])
  BY DEF JobInv
<1> QED BY <1>1, <1>3, <1>4 DEF ReadExplained, JobClaimable

\* A delivery is recorded with the amount to collect, or with the driver's
\* reason for the difference, whatever management edits meanwhile
\* (deliverAssignedOrder reads the order, and claims it as it was read).
THEOREM DeliveriesExplained == JobSpec => DifferenceExplained
<1>1. JobInit => JobInv
  BY JobBegins
<1>2. JobInv /\ [JobNext]_jobVars => JobInv'
  <2>1. CASE JobNext
    BY <2>1, JobScreenStaysTyped, ActionsStayExplained DEF JobInv
  <2>2. CASE UNCHANGED jobVars
    BY <2>2 DEF jobVars, jobServer, jobScreen, jobDialogs, JobInv, JobScreenTyped,
                ActionsTyped, ReadExplained
  <2> QED BY <2>1, <2>2
<1>3. JobInv => [\A s \in JobSlots :
          ClaimJob(s) /\ job'.status = "DELIVERED" /\ job.status # "DELIVERED"
          => \/ actions[s].form.explained
             \/ actions[s].form.amount = job.amount]_jobVars
  BY ClaimExplained
<1> QED BY <1>1, <1>2, <1>3, PTL DEF JobSpec, DifferenceExplained

-----------------------------------------------------------------------------
(* The order page.                                                         *)

ParcelStages == {"AWAITING_ASSIGNMENT", "ASSIGNED", "FAILED", "COLLECTED_FROM_SENDER",
                 "RESCHEDULED", "RECEIVED_AT_COMPANY"}

DetailStatuses ==
    CANCELLABLE_STATUSES \cup TERMINAL_ORDER_STATUSES \cup {"PICKED_UP", "OUT_FOR_DELIVERY"}

DetailOrders == [status : DetailStatuses, from : DetailStatuses, driver : DriverRefs,
                 parcel : ParcelStages, collector : DriverRefs]

PageCopies == [status : DetailStatuses, driver : DriverRefs, parcel : ParcelStages]
SectionCopies == [parcel : ParcelStages, collector : DriverRefs]

Asking == [at : {"sent", "read", "answered"}, action : DetailActions,
           driver : DriverRefs, shown : DriverRefs, seen : {Unread} \cup DetailOrders,
           outcome : {"none", "OK", "CONFLICT", "INVALID"}]

\* Unassigning asks for the driver on show, and a handler that has accepted
\* it has read an order of that driver.
AsksForShown(r) ==
    r.at # "free" /\ r.action = "unassign" =>
        /\ r.driver = r.shown
        /\ r.at = "read" => r.seen.driver = r.driver

CopiesTyped ==
    /\ copies \in [Scopes -> [at : {"loading", "ok", "error"},
                              order : PageCopies \cup SectionCopies]]
    /\ copies["page"].order \in PageCopies
    /\ copies["section"].order \in SectionCopies

DetailInv ==
    /\ orderNow \in DetailOrders /\ CopiesTyped
    /\ openDialog \in [Scopes -> DetailActions \cup {"none"}]
    /\ calls \in [DetailSlots -> {NoDetailRequest} \cup Asking]
    /\ \A s \in DetailSlots : AsksForShown(calls[s])

LEMMA UnassignIsOfThePage == "unassign" \in DetailActions /\ ScopeOf("unassign") = "page"
<1>1. /\ "unassign" \in DetailActionsOf("page") /\ "unassign" \notin DetailActionsOf("section")
      /\ "page" \in Scopes
  BY DEF DetailActionsOf, Scopes
<1>2. \A scope \in Scopes : "unassign" \in DetailActionsOf(scope) => scope = "page"
  BY <1>1 DEF Scopes
<1>3. ScopeOf("unassign") = "page"
  BY <1>1, <1>2 DEF ScopeOf
<1> QED BY <1>1, <1>3 DEF DetailActions

LEMMA CopiesAreTyped ==
    ASSUME NEW o \in DetailOrders
    PROVE  Copy("page", o) \in PageCopies /\ Copy("section", o) \in SectionCopies
BY DEF Copy, DetailOrders, PageCopies, SectionCopies

LEMMA DetailBegins == DetailInit => DetailInv
<1> SUFFICES ASSUME DetailInit PROVE DetailInv
  OBVIOUS
<1>1. orderNow \in DetailOrders
  BY DEF DetailInit, DetailOrders, DetailStatuses, CANCELLABLE_STATUSES, DriverRefs, ParcelStages
<1>2. CopiesTyped
  BY <1>1, CopiesAreTyped DEF DetailInit, CopiesTyped, Scopes
<1>3. /\ openDialog \in [Scopes -> DetailActions \cup {"none"}]
      /\ calls \in [DetailSlots -> {NoDetailRequest} \cup Asking]
  BY DEF DetailInit
<1>4. ASSUME NEW s \in DetailSlots PROVE AsksForShown(calls[s])
  BY <1>4 DEF DetailInit, AsksForShown, NoDetailRequest
<1> QED BY <1>1, <1>2, <1>3, <1>4 DEF DetailInv

LEMMA MovesKeepOrders ==
    ASSUME NEW o \in DetailOrders, NEW a \in DetailActions, NEW d \in DriverRefs
    PROVE  Moved(a, d, o) \in DetailOrders
<1> USE DEF DetailOrders
<1>1. NoDetailDriver \in DriverRefs
  BY DEF DriverRefs
<1>2. CASE a \in {"assign", "reassign"}
  <2>1. AssignedFrom(o) \in DetailStatuses /\ "ASSIGNED" \in DetailStatuses
    BY DEF AssignedFrom, DetailStatuses, CANCELLABLE_STATUSES
  <2> QED BY <1>2, <2>1 DEF Moved
<1>3. CASE a = "unassign"
  BY <1>1, <1>3 DEF Moved
<1>4. CASE a \in {"ready", "reschedule", "cancel"}
  <2>1. {"READY_FOR_PICKUP", "RESCHEDULED", "CANCELLED"} \subseteq DetailStatuses
    BY DEF DetailStatuses, CANCELLABLE_STATUSES, TERMINAL_ORDER_STATUSES
  <2> QED BY <1>1, <1>4, <2>1 DEF Moved
<1>5. CASE a \notin {"assign", "reassign", "unassign", "ready", "reschedule", "cancel"}
  BY <1>1, <1>5 DEF Moved, ParcelStages
<1> QED BY <1>2, <1>3, <1>4, <1>5

LEMMA OrderStaysTyped ==
    ASSUME DetailInv, DetailNext
    PROVE  orderNow' \in DetailOrders
<1>1. orderNow \in DetailOrders /\ calls \in [DetailSlots -> {NoDetailRequest} \cup Asking]
  BY DEF DetailInv
<1>2. CASE UNCHANGED orderNow
  BY <1>1, <1>2
<1>3. CASE \E s \in DetailSlots : ClaimDetail(s)
  <2> PICK s \in DetailSlots : ClaimDetail(s)
    BY <1>3
  <2>1. calls[s].action \in DetailActions /\ calls[s].driver \in DriverRefs
    BY <1>1 DEF ClaimDetail, NoDetailRequest, Asking
  <2>2. orderNow' \in {orderNow, Moved(calls[s].action, calls[s].driver, orderNow)}
    BY DEF ClaimDetail
  <2> QED BY <1>1, <2>1, <2>2, MovesKeepOrders
<1>4. CASE Colleague
  <2> PICK a \in DetailActions, d \in DriverRefs : orderNow' = Moved(a, d, orderNow)
    BY <1>4 DEF Colleague
  <2> QED BY <1>1, MovesKeepOrders
<1>5. CASE DriverMoves
  <2>1. CASE \E to \in {"PICKED_UP", "OUT_FOR_DELIVERY", "FAILED_DELIVERY", "DELIVERED"} :
                orderNow' = [orderNow EXCEPT !.status = to]
    BY <1>1, <2>1 DEF DetailOrders, DetailStatuses, CANCELLABLE_STATUSES,
                      TERMINAL_ORDER_STATUSES
  <2>2. CASE orderNow' \in {[orderNow EXCEPT !.parcel = "COLLECTED_FROM_SENDER"],
                            [orderNow EXCEPT !.parcel = "FAILED",
                                             !.collector = NoDetailDriver]}
    BY <1>1, <2>2 DEF DetailOrders, ParcelStages, DriverRefs
  <2> QED BY <1>5, <2>1, <2>2 DEF DriverMoves
<1>6. CASE Manager
  BY <1>2, <1>6 DEF Manager, MarkReady, Confirm, OpenDetailDialog, CloseDetailDialog, RetryDetail
<1>7. CASE \E s \in DetailSlots : ReadDetail(s) \/ AnswerDetail(s) \/ DetailConnectionBreaks(s)
  BY <1>2, <1>7 DEF ReadDetail, AnswerDetail, DetailConnectionBreaks
<1>8. CASE \E scope \in Scopes : OrderArrives(scope) \/ OrderFails(scope)
  BY <1>2, <1>8 DEF OrderArrives, OrderFails
<1> QED BY <1>3, <1>4, <1>5, <1>6, <1>7, <1>8 DEF DetailNext, Others

LEMMA ScopesStayTyped ==
    ASSUME DetailInv, DetailNext
    PROVE  CopiesTyped' /\ openDialog' \in [Scopes -> DetailActions \cup {"none"}]
<1>1. /\ orderNow \in DetailOrders /\ CopiesTyped
      /\ openDialog \in [Scopes -> DetailActions \cup {"none"}]
  BY DEF DetailInv
<1>2. CASE UNCHANGED <<copies, openDialog>>
  BY <1>1, <1>2 DEF CopiesTyped
<1>3. CASE UNCHANGED copies /\ \E scope \in Scopes, to \in DetailActions \cup {"none"} :
              openDialog' = [openDialog EXCEPT ![scope] = to]
  BY <1>1, <1>3 DEF CopiesTyped
<1>4. CASE \E action \in DetailActions : OpenDetailDialog(action)
  <2> PICK action \in DetailActions : OpenDetailDialog(action)
    BY <1>4
  <2>1. /\ UNCHANGED copies
        /\ openDialog' = [openDialog EXCEPT ![ScopeOf(action)] = action]
    BY DEF OpenDetailDialog
  <2> QED BY <1>1, <2>1 DEF CopiesTyped
<1>5. CASE \E scope \in Scopes : CloseDetailDialog(scope)
  BY <1>3, <1>5 DEF CloseDetailDialog
<1>6. CASE \E s \in DetailSlots : AnswerDetail(s) \/ DetailConnectionBreaks(s)
  <2> PICK s \in DetailSlots : AnswerDetail(s) \/ DetailConnectionBreaks(s)
    BY <1>6
  <2>1. /\ UNCHANGED copies
        /\ openDialog' \in {openDialog,
                            [openDialog EXCEPT ![ScopeOf(calls[s].action)] = "none"]}
    BY DEF AnswerDetail, DetailConnectionBreaks, DetailHears
  <2> QED BY <1>1, <2>1 DEF CopiesTyped
<1>7. CASE \E scope \in Scopes : OrderArrives(scope)
  <2> PICK scope \in Scopes : OrderArrives(scope)
    BY <1>7
  <2>1. /\ UNCHANGED openDialog
        /\ copies' = [copies EXCEPT ![scope] =
                         [at |-> "ok", order |-> Copy(scope, orderNow)]]
    BY DEF OrderArrives
  <2> QED BY <1>1, <2>1, CopiesAreTyped DEF CopiesTyped, Scopes
<1>8. CASE \E scope \in Scopes : OrderFails(scope)
  <2> PICK scope \in Scopes : OrderFails(scope)
    BY <1>8
  <2>1. UNCHANGED openDialog /\ \E at \in {"ok", "error"} :
            copies' = [copies EXCEPT ![scope].at = at]
    BY DEF OrderFails
  <2> QED BY <1>1, <2>1 DEF CopiesTyped, Scopes
<1>9. CASE \/ \E s \in DetailSlots : MarkReady(s) \/ ReadDetail(s) \/ ClaimDetail(s)
           \/ \E s \in DetailSlots, scope \in Scopes : Confirm(s, scope)
           \/ \E scope \in Scopes : RetryDetail(scope)
           \/ Others
  BY <1>2, <1>9 DEF MarkReady, ReadDetail, ClaimDetail, Confirm, RetryDetail, Others, detailScreen
<1> QED BY <1>4, <1>5, <1>6, <1>7, <1>8, <1>9 DEF DetailNext, Manager

\* What a dialog sends; unassigning names the driver it shows.
LEMMA RequestsAskForShown ==
    ASSUME DetailInv, NEW action \in DetailActions, NEW d \in Chosen(action)
    PROVE  Request(action, d) \in Asking /\ AsksForShown(Request(action, d))
<1>1. /\ copies["page"].order \in PageCopies /\ NoDetailDriver \in DriverRefs
      /\ DetailDrivers \subseteq DriverRefs
  BY DEF DetailInv, CopiesTyped, DriverRefs
<1>2. Shown("page").driver = copies["page"].order.driver
  BY <1>1 DEF Shown, PageCopies
<1>3. copies["page"].order.driver \in DriverRefs
  BY <1>1 DEF PageCopies
<1>4. d \in DriverRefs
  BY <1>1, <1>3 DEF Chosen, ChosenCollector
<1>5. action = "unassign" => d = copies["page"].order.driver
  BY DEF Chosen
<1>6. Request(action, d) \in Asking
  BY <1>1, <1>2, <1>3, <1>4 DEF Request, Asking
<1> QED BY <1>2, <1>5, <1>6 DEF Request, AsksForShown

LEMMA CallsStayTyped ==
    ASSUME DetailInv, DetailNext
    PROVE  /\ calls' \in [DetailSlots -> {NoDetailRequest} \cup Asking]
           /\ \A s \in DetailSlots : AsksForShown(calls'[s])
<1>1. /\ calls \in [DetailSlots -> {NoDetailRequest} \cup Asking]
      /\ \A s \in DetailSlots : AsksForShown(calls[s])
      /\ orderNow \in DetailOrders
  BY DEF DetailInv
<1>2. CASE UNCHANGED calls
  BY <1>1, <1>2
<1>3. ASSUME NEW s \in DetailSlots, NEW r \in {NoDetailRequest} \cup Asking,
             AsksForShown(r), calls' = [calls EXCEPT ![s] = r]
      PROVE  /\ calls' \in [DetailSlots -> {NoDetailRequest} \cup Asking]
             /\ \A t \in DetailSlots : AsksForShown(calls'[t])
  BY <1>1, <1>3
<1>4. AsksForShown(NoDetailRequest)
  BY DEF AsksForShown, NoDetailRequest
<1>5. CASE \E s \in DetailSlots : MarkReady(s)
  <2> PICK s \in DetailSlots : MarkReady(s)
    BY <1>5
  <2>1. "ready" \in DetailActions /\ NoDetailDriver \in Chosen("ready")
    BY DEF DetailActions, DetailActionsOf, Scopes, Chosen
  <2>2. calls' = [calls EXCEPT ![s] = Request("ready", NoDetailDriver)]
    BY DEF MarkReady, SendDetail
  <2> QED BY <1>3, <2>1, <2>2, RequestsAskForShown
<1>6. CASE \E s \in DetailSlots, scope \in Scopes : Confirm(s, scope)
  <2> PICK s \in DetailSlots, scope \in Scopes : Confirm(s, scope)
    BY <1>6
  <2>1. openDialog[scope] \in DetailActions
    BY DEF Confirm, DetailInv
  <2> PICK d \in Chosen(openDialog[scope]) : SendDetail(s, openDialog[scope], d)
    BY DEF Confirm
  <2>2. calls' = [calls EXCEPT ![s] = Request(openDialog[scope], d)]
    BY DEF SendDetail
  <2> QED BY <1>3, <2>1, <2>2, RequestsAskForShown
<1>7. ASSUME NEW s \in DetailSlots, NEW outcome \in {"OK", "CONFLICT", "INVALID"},
             AnsweredDetail(s, outcome), calls[s].at # "free"
      PROVE  /\ calls' \in [DetailSlots -> {NoDetailRequest} \cup Asking]
             /\ \A t \in DetailSlots : AsksForShown(calls'[t])
  <2> DEFINE r == [calls[s] EXCEPT !.at = "answered", !.seen = Unread, !.outcome = outcome]
  <2>1. calls[s] \in Asking /\ AsksForShown(calls[s])
    BY <1>1, <1>7 DEF NoDetailRequest
  <2>2. r \in Asking /\ AsksForShown(r)
    BY <1>7, <2>1 DEF Asking, AsksForShown
  <2>3. calls' = [calls EXCEPT ![s] = r]
    BY <1>7 DEF AnsweredDetail
  <2> QED BY <1>3, <2>2, <2>3
<1>8. CASE \E s \in DetailSlots : ReadDetail(s)
  <2> PICK s \in DetailSlots : ReadDetail(s)
    BY <1>8
  <2>1. calls[s] \in Asking /\ AsksForShown(calls[s]) /\ calls[s].at = "sent"
    BY <1>1 DEF ReadDetail, NoDetailRequest
  <2>2. CASE AnsweredDetail(s, "CONFLICT") \/ AnsweredDetail(s, "INVALID")
    BY <1>7, <2>1, <2>2
  <2>3. CASE /\ ~Conflicts(calls[s].action, calls[s].driver, orderNow)
             /\ calls' = [calls EXCEPT ![s].at = "read", ![s].seen = orderNow]
    <3> DEFINE r == [calls[s] EXCEPT !.at = "read", !.seen = orderNow]
    <3>1. calls[s].action = "unassign" => orderNow.driver = calls[s].driver
      <4> HAVE calls[s].action = "unassign"
      <4>1. ~Conflicts("unassign", calls[s].driver, orderNow)
        BY <2>3
      <4> QED BY <4>1 DEF Conflicts, DetailActionsOf
    <3>2. r \in Asking /\ AsksForShown(r)
      BY <1>1, <2>1, <3>1 DEF Asking, AsksForShown
    <3>3. calls' = [calls EXCEPT ![s] = r]
      BY <2>3
    <3> QED BY <1>3, <3>2, <3>3
  <2> QED BY <2>2, <2>3 DEF ReadDetail
<1>9. CASE \E s \in DetailSlots : ClaimDetail(s)
  <2> PICK s \in DetailSlots : ClaimDetail(s)
    BY <1>9
  <2>1. calls[s].at # "free" /\ (AnsweredDetail(s, "OK") \/ AnsweredDetail(s, "CONFLICT"))
    BY DEF ClaimDetail
  <2> QED BY <1>7, <2>1
<1>10. CASE \E s \in DetailSlots : AnswerDetail(s) \/ DetailConnectionBreaks(s)
  <2> PICK s \in DetailSlots : calls' = [calls EXCEPT ![s] = NoDetailRequest]
    BY <1>10 DEF AnswerDetail, DetailConnectionBreaks
  <2> QED BY <1>3, <1>4
<1>11. CASE \/ \E action \in DetailActions : OpenDetailDialog(action)
            \/ \E scope \in Scopes : \/ CloseDetailDialog(scope) \/ RetryDetail(scope)
                                     \/ OrderArrives(scope) \/ OrderFails(scope)
            \/ Others
  BY <1>2, <1>11 DEF OpenDetailDialog, CloseDetailDialog, RetryDetail, OrderArrives, OrderFails,
     Others
<1> QED BY <1>5, <1>6, <1>8, <1>9, <1>10, <1>11 DEF DetailNext, Manager

LEMMA RemovalIsOfShown ==
    ASSUME DetailInv, NEW s \in DetailSlots, ClaimDetail(s),
           calls[s].action = "unassign", orderNow' # orderNow
    PROVE  orderNow.driver = calls[s].shown
<1>1. DetailClaimable(calls[s]) /\ calls[s].at = "read"
  BY DEF ClaimDetail
<1>2. orderNow.driver = calls[s].seen.driver
  BY <1>1, UnassignIsOfThePage DEF DetailClaimable
<1>3. AsksForShown(calls[s])
  BY DEF DetailInv
<1> QED BY <1>1, <1>2, <1>3 DEF AsksForShown

\* Whoever the page shows is who is removed: not the driver that a colleague
\* has put in his place while the dialog was open or the request under way
\* (unassignOrder checks the driver it was sent and claims the one it read).
THEOREM ShownDriverIsRemoved == DetailSpec => UnassignRemovesShownDriver
<1>1. DetailInit => DetailInv
  BY DetailBegins
<1>2. DetailInv /\ [DetailNext]_detailVars => DetailInv'
  <2>1. CASE DetailNext
    BY <2>1, OrderStaysTyped, ScopesStayTyped, CallsStayTyped DEF DetailInv
  <2>2. CASE UNCHANGED detailVars
    BY <2>2 DEF detailVars, detailScreen, DetailInv, CopiesTyped, AsksForShown
  <2> QED BY <2>1, <2>2
<1>3. DetailInv => [\A s \in DetailSlots :
          ClaimDetail(s) /\ calls[s].action = "unassign" /\ orderNow' # orderNow
          => orderNow.driver = calls[s].shown]_detailVars
  BY RemovalIsOfShown
<1> QED BY <1>1, <1>2, <1>3, PTL DEF DetailSpec, UnassignRemovesShownDriver
=============================================================================
