---------------------------- MODULE OrderEditing ----------------------------
(***************************************************************************)
(* One order edited by several people: the Edit Order dialog of the        *)
(* management client (EditOrderDialog.tsx, editOrder.schema.ts), PATCH     *)
(* requests of other callers that send a few fields, updateOrder of        *)
(* order.service.ts, and the workflow that moves the order's status        *)
(* meanwhile.                                                              *)
(*                                                                         *)
(* A dialog is seeded once, from the page's cached order, and its PATCH    *)
(* names nearly every field.  The server reads the order, checks the       *)
(* references and the amounts, and only then opens the transaction that    *)
(* claims the row on the status it read.  These are three steps here, and  *)
(* anything may happen between them.                                       *)
(***************************************************************************)
EXTENDS OrderFinancials, FiniteSets

CONSTANTS
    Managers,           \* browsers with the order's page open
    Callers,            \* other clients of PATCH /orders/:id
    Slots,              \* bound: requests under way
    LegacyPhones,       \* stored phones the format rule rejects
    Statuses, Moves,    \* statuses of the order and the workflow's moves
    StoredOrders,       \* orders the run may start from
    Edits,              \* what an operator may type: partial functions
    Bodies,             \* what other callers may send: partial functions
    Deactivatable,      \* references an administrator may deactivate
    MaxRequests,        \* bound: requests sent
    Nobody, NoRequest, NoSeed, NoSlot, NoData

VARIABLES
    order,      \* the orders row
    receivers,  \* customer_receivers
    active,     \* is_active of customers, areas and payment methods
    cache,      \* the order each browser's page shows
    dialogs,    \* each browser's EditOrderDialog
    requests,   \* PATCH requests under way
    sent        \* counts requests, for the bound

vars == <<order, receivers, active, cache, dialogs, requests, sent>>

ReceiverFields == {"customer", "phone", "area", "details", "extra"}
Editable == ReceiverFields \cup {"description"} \cup PaymentFields

RowFields == Editable \cup {"status", "toCollect"}

References == Customers \cup Areas \cup Methods

\* Amounts, payment type, methods and the derived total belong together.
Stored(row) == Sound(row) /\ row.toCollect = AmountToCollect(row)

ASSUME EditingAssumption ==
    /\ MoneyMax \in Nat
    /\ \A row \in StoredOrders : DOMAIN row = RowFields /\ Stored(row)
    /\ \A body \in Bodies : DOMAIN body \subseteq Editable
    /\ \A move \in Moves : move[1] # "DELIVERED"

Fields(row) == [f \in Editable |-> row[f]]

-----------------------------------------------------------------------------
(* EditOrderDialog: the form, its normalization and the PATCH body.        *)

Form(seed, edit) ==
    NormalizedMethods(NormalizedAmounts(Over(edit, Fields(seed))))

\* buildEditOrderSchema: a phone is checked only when it was changed.
FormValid(form, seed) ==
    /\ FormAccepts(form)
    /\ form.phone = seed.phone \/ form.phone \notin LegacyPhones

\* Mutant: an emptied optional field is left out instead of sent as null.
BodyWithoutNulls(form, seed) ==
    [f \in {g \in Editable : ~ (g = "extra" /\ form.extra = NoExtra)
                             /\ ~ (g = "phone" /\ form.phone = seed.phone)}
        |-> form[f]]

\* toUpdateOrderRequest: every field, the phone only when it was changed.
Body(form, seed) ==
    [f \in Editable \ (IF form.phone = seed.phone THEN {"phone"} ELSE {})
        |-> form[f]]

Changed(form, seed) == {f \in Editable : form[f] # seed[f]}

-----------------------------------------------------------------------------
(* updateOrder.                                                            *)

Supplied(body, f) == f \in DOMAIN body

\* Customer and area are checked only when an explicitly different one is
\* supplied.
InactiveReference(body, existing, f) ==
    /\ Supplied(body, f) /\ body[f] # existing[f]
    /\ ~ active[body[f]]

PaymentTouched(body) == DOMAIN body \cap PaymentFields # {}

\* A method that became inapplicable is cleared.
Effective(body, existing) ==
    LET merged == Over(body, [f \in PaymentFields |-> existing[f]]) IN
    [merged EXCEPT
        !.prepaidMethod = IF PrepaidTotal(merged) = 0 THEN NoMethod ELSE @,
        !.collectionMethod =
            IF AmountToCollect(merged) = 0 THEN NoMethod ELSE @]

\* A method that applies must be there, and one the request names, active.
MethodRefused(body, effective, f, amount) ==
    /\ amount > 0
    /\ \/ effective[f] = NoMethod
       \/ Supplied(body, f) /\ ~ active[effective[f]]

\* The fields over which the request is refused; the service stops at the
\* first it meets.
Refused(body, existing) ==
    LET p == Effective(body, existing) IN
    {f \in {"customer", "area"} : InactiveReference(body, existing, f)}
    \cup (IF ~ PaymentTouched(body) THEN {}
          ELSE IF ~ (Computable(p) /\ TypeConsistent(p)) THEN {"type"}
          ELSE {f \in {"prepaidMethod"} :
                    MethodRefused(body, p, f, PrepaidTotal(p))}
               \cup {f \in {"collectionMethod"} :
                    MethodRefused(body, p, f, AmountToCollect(p))})

\* A customer or area the order already has is not among the columns.
Named(body, existing) ==
    {f \in DOMAIN body : f \in {"customer", "area"} => body[f] # existing[f]}

\* The columns the UPDATE names.
Data(body, existing) ==
    LET p == Effective(body, existing) IN
    [f \in (Named(body, existing) \cup IF PaymentTouched(body)
                            THEN PaymentFields \cup {"toCollect"} ELSE {})
        |-> IF f = "toCollect" THEN AmountToCollect(p)
            ELSE IF f \in PaymentFields THEN p[f] ELSE body[f]]

\* receiverMemoryForEdit, from the order as it was read.
Memory(body, existing) ==
    LET final == Over(body, [f \in ReceiverFields |-> existing[f]])
        sameIdentity ==
            /\ final.customer = existing.customer
            /\ NormalizedPhone[final.phone] = NormalizedPhone[existing.phone]
    IN  IF \A f \in ReceiverFields : final[f] = existing[f] THEN NoMemory
        ELSE [customer |-> final.customer, phone |-> final.phone,
              details |-> final.details, area |-> final.area,
              extra |-> final.extra,
              cleared |-> /\ sameIdentity
                          /\ final.extra = NoExtra /\ existing.extra # NoExtra]

-----------------------------------------------------------------------------
Closed == [open |-> FALSE, seed |-> NoSeed, waiting |-> NoSlot]

Init ==
    /\ order \in StoredOrders
    /\ receivers = [c \in Customers |-> [k \in PhoneKeys |-> NoReceiver]]
    /\ active = [r \in References |-> TRUE]
    /\ cache = [m \in Managers |-> order]
    /\ dialogs = [m \in Managers |-> Closed]
    /\ requests = [s \in Slots |-> NoRequest]
    /\ sent = 0

(* Edit is offered unless the page shows a delivered order; the dialog is  *)
(* seeded on opening, and never again by a refetch of the page.            *)
Open(m) ==
    /\ ~ dialogs[m].open
    /\ cache[m].status # "DELIVERED"
    /\ dialogs' = [dialogs EXCEPT ![m].open = TRUE, ![m].seed = cache[m]]
    /\ UNCHANGED <<order, receivers, active, cache, requests, sent>>

\* Escape and the backdrop close it even while a request is under way, which
\* an opening soon after still waits for.
Close(m) ==
    /\ dialogs[m].open
    /\ dialogs' = [dialogs EXCEPT ![m].open = FALSE, ![m].seed = NoSeed]
    /\ UNCHANGED <<order, receivers, active, cache, requests, sent>>

Refetch(m) ==
    /\ cache[m] # order
    /\ cache' = [cache EXCEPT ![m] = order]
    /\ UNCHANGED <<order, receivers, active, dialogs, requests, sent>>

Send(s, from, body, form, changed) ==
    /\ requests[s] = NoRequest /\ sent < MaxRequests
    /\ sent' = sent + 1
    /\ requests' = [requests EXCEPT ![s] =
           [from |-> from, body |-> body, form |-> form, changed |-> changed,
            phase |-> "sent", result |-> "none", existing |-> NoSeed,
            refused |-> {}, data |-> NoData, memory |-> NoMemory]]

\* Save changes: a changed, valid form, one request at a time.
Save(m, s, edit) ==
    LET d == dialogs[m]
        form == Form(d.seed, edit)
    IN  /\ d.open /\ d.waiting = NoSlot
        /\ Changed(form, d.seed) # {}
        /\ FormValid(form, d.seed)
        /\ Send(s, m, Body(form, d.seed), form, Changed(form, d.seed))
        /\ dialogs' = [dialogs EXCEPT ![m].waiting = s]
        /\ UNCHANGED <<order, receivers, active, cache>>

Call(c, s, body) ==
    /\ Send(s, c, body, NoSeed, DOMAIN body)
    /\ UNCHANGED <<order, receivers, active, cache, dialogs>>

-----------------------------------------------------------------------------
Step(s, changes) == requests' = [requests EXCEPT ![s] = Over(changes, @)]

Finish(s, result) == Step(s, [phase |-> "done", result |-> result])

(* The schema, then the first read of the order.                           *)
Read(s) ==
    LET r == requests[s] IN
    /\ r # NoRequest /\ r.phase = "sent"
    /\ IF Supplied(r.body, "phone") /\ r.body.phone \in LegacyPhones
       THEN Step(s, [phase |-> "done", result |-> "invalid",
                     refused |-> {"phone"}])
       ELSE IF order.status = "DELIVERED" THEN Finish(s, "conflict")
       ELSE Step(s, [phase |-> "read", existing |-> order])
    /\ UNCHANGED <<order, receivers, active, cache, dialogs, sent>>

(* The references, the amounts and what the transaction will write.        *)
Check(s) ==
    LET r == requests[s]
        refused == Refused(r.body, r.existing)
    IN  /\ r # NoRequest /\ r.phase = "read"
        /\ IF refused # {}
           THEN Step(s, [phase |-> "done", result |-> "invalid",
                         refused |-> refused])
           ELSE Step(s, [phase |-> "checked",
                         data |-> Data(r.body, r.existing),
                         memory |-> Memory(r.body, r.existing)])
        /\ UNCHANGED <<order, receivers, active, cache, dialogs, sent>>

\* Mutant: the write restates the order's identity alone.
ClaimsById(r) == TRUE

\* updateMany where id and status are as read.
Claims(r) == order.status = r.existing.status

Saves(r) == r.memory # NoMemory /\ Claims(r)

Commit(s) ==
    LET r == requests[s] IN
    /\ r # NoRequest /\ r.phase = "checked"
    /\ order' = IF Claims(r) THEN Over(r.data, order) ELSE order
    /\ receivers' = IF Saves(r) THEN Remembered(receivers, r.memory)
                    ELSE receivers
    /\ Finish(s, IF Claims(r) THEN "ok" ELSE "conflict")
    /\ UNCHANGED <<active, cache, dialogs, sent>>

-----------------------------------------------------------------------------
Waits(m, s) == dialogs[m].waiting = s

\* A recorded edit closes the dialog, even one opened since; any error leaves it open, as filled in.
Answer(s) ==
    LET r == requests[s] IN
    /\ r # NoRequest /\ r.phase = "done"
    /\ requests' = [requests EXCEPT ![s] = NoRequest]
    /\ dialogs' = [m \in Managers |->
           IF ~ Waits(m, s) THEN dialogs[m]
           ELSE IF r.result = "ok" THEN Closed
           ELSE [dialogs[m] EXCEPT !.waiting = NoSlot]]
    /\ UNCHANGED <<order, receivers, active, cache, sent>>

\* The network gives up on a request: "Unable to reach the server".  It may
\* or may not have arrived, and the server handles one that did.
GiveUp(s) ==
    LET r == requests[s] IN
    /\ r # NoRequest
    /\ \E m \in Managers : Waits(m, s)
    /\ dialogs' = [m \in Managers |->
           IF Waits(m, s) THEN [dialogs[m] EXCEPT !.waiting = NoSlot]
           ELSE dialogs[m]]
    /\ \/ Step(s, [from |-> Nobody])
       \/ r.phase = "sent" /\ requests' = [requests EXCEPT ![s] = NoRequest]
    /\ UNCHANGED <<order, receivers, active, cache, sent>>

(* The order's workflow; an edit never moves the status.                   *)
Move(to) ==
    /\ <<order.status, to>> \in Moves
    /\ order' = [order EXCEPT !.status = to]
    /\ UNCHANGED <<receivers, active, cache, dialogs, requests, sent>>

Deactivate(x) ==
    /\ active[x]
    /\ active' = [active EXCEPT ![x] = FALSE]
    /\ UNCHANGED <<order, receivers, cache, dialogs, requests, sent>>

Next ==
    \/ \E m \in Managers : Open(m) \/ Close(m) \/ Refetch(m)
    \/ \E m \in Managers, s \in Slots, edit \in Edits : Save(m, s, edit)
    \/ \E c \in Callers, s \in Slots, body \in Bodies : Call(c, s, body)
    \/ \E s \in Slots : Read(s) \/ Check(s) \/ Commit(s) \/ Answer(s) \/ GiveUp(s)
    \/ \E to \in Statuses : Move(to)
    \/ \E x \in Deactivatable : Deactivate(x)

Spec == Init /\ [][Next]_vars

-----------------------------------------------------------------------------
(* Properties.                                                             *)

\* Types; and a dialog that shows "Saving" has a request under way.
TypeOK ==
    /\ order.status \in Statuses
    /\ active \in [References -> BOOLEAN]
    /\ \A m \in Managers : dialogs[m].waiting # NoSlot =>
           requests[dialogs[m].waiting] # NoRequest
    /\ sent \in 0 .. MaxRequests

\* However full and partial edits interleave, and whichever of them writes
\* back amounts another has changed, the stored amounts, payment type, methods
\* and total belong to one another: the write is the whole block, computed
\* from a single read (updateOrder).
PaymentConsistent == Stored(order)

\* From the delivery on, when cash, wallet and revenue rows exist, no edit
\* changes the order: not one that was read and checked before it
\* (the CONCURRENCY GUARD of updateOrder).
DeliveredIsFrozen == [][order.status = "DELIVERED" => order' = order]_vars

\* When nobody else has touched the order since the dialog was seeded, the
\* row becomes exactly what the form showed, whatever was typed and whatever
\* the form, the request and the server normalized, omitted or cleared on the
\* way (toUpdateOrderRequest, updateOrder).  The server compares customer and
\* area with its own first read, so of these two that read must stand as well.
WhatWasShownIsSaved ==
    [][\A s \in Slots :
          LET r == requests[s] IN
          (/\ r # NoRequest /\ r.form # NoSeed
           /\ r.phase = "checked" /\ requests'[s].result = "ok"
           /\ \A f \in Editable \ r.changed : order[f] = r.form[f]
           /\ \A f \in {"customer", "area"} : order[f] = r.existing[f])
          => /\ \A f \in Editable : order'[f] = r.form[f]
             /\ order'.toCollect = AmountToCollect(r.form)]_vars

=============================================================================
