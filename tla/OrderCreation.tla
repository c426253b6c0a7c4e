--------------------------- MODULE OrderCreation ---------------------------
(***************************************************************************)
(* An order from the Create Order page to the row: the form that fills     *)
(* itself from the selected customer's profile and from the customer's     *)
(* saved receivers (CreateOrderPage.tsx, ReceiverSuggestions.tsx), the     *)
(* POST and its answer, createOrder of order.service.ts with its retried   *)
(* transaction, and administrators who deactivate what the form refers to. *)
(*                                                                         *)
(* A field's text is a value, or NoText when it is empty.  contact stands  *)
(* for the required collection contact, phone and address, details for the *)
(* receiver's name and address, extra for the receiver's optional fields,  *)
(* alt for the alternative phone of the collection.                        *)
(***************************************************************************)
EXTENDS OrderFinancials, FiniteSets

CONSTANTS
    Drivers,
    Profile,        \* [Customers -> what the form copies from a customer]
    InitReceivers,  \* the receivers saved before the page is opened
    FreshPayments,  \* amounts and methods as first entered
    PaymentEdits,   \* later changes of them: partial functions
    Typed,          \* [Text -> values an operator may type or select]
    Retirable,      \* references an administrator may deactivate
    Posts,          \* bound: POST requests
    MaxPages,       \* bound: visits of the page
    MaxAttempts,    \* MAX_IDENTIFIER_ATTEMPTS
    NoCustomer, NoText, NoDriver, NoOrder

VARIABLES
    form,       \* the values of the form
    applied,    \* appliedRef: what the chosen saved receiver filled in
    prefill,    \* prefillRef: what the last profile filled in
    shown,      \* selectedCustomer.data: the last customer that arrived
    loaded,     \* customers the cache holds
    page,       \* "open", "waiting" or "created"
    visit,      \* counts visits of the page
    posts,      \* POST requests
    created,    \* the order each request created
    saved,      \* customer_receivers
    enabled     \* is_active of customers, areas, methods and drivers

client == <<form, applied, prefill, shown, loaded, page, visit>>
pageVars == <<client, posts, created, saved, enabled>>

ReceiverText == {"phone", "details", "area", "extra"}
CollectionText == {"contact", "alt", "collectionArea", "notes"}
Text == ReceiverText \cup CollectionText
Required == {"phone", "details", "area"}
RequiredCollection == {"contact", "collectionArea"}

\* What a customer's profile fills in.
Prefilled == {"contact", "alt", "collectionArea"}

PageReferences == Customers \cup Areas \cup Methods \cup Drivers

\* A slot no request was sent in.
NoPost == [phase |-> "none"]

\* Amounts as the form accepts them: not negative, of any size.
Entered(p) ==
    /\ DOMAIN p \subseteq PaymentFields
    /\ \A f \in DOMAIN p \cap MoneyFields : p[f] \in Nat
    /\ "type" \in DOMAIN p => p.type \in PaymentTypes

\* NoText and NoExtra both stand for an empty optional field.
ASSUME CreationAssumption ==
    /\ DOMAIN Profile = Customers
    /\ \A c \in Customers : DOMAIN Profile[c] = Prefilled
    /\ \A p \in FreshPayments : Entered(p) /\ DOMAIN p = PaymentFields
    /\ \A p \in PaymentEdits : Entered(p)
    /\ DOMAIN Typed = Text
    /\ MaxAttempts \in Nat \ {0} /\ MoneyMax \in Nat
    /\ NoText = NoExtra /\ NoCustomer \notin Customers

-----------------------------------------------------------------------------
(* The form.                                                               *)

EmptyText == [f \in Text |-> NoText]

FreshForm(payment) ==
    [customer |-> NoCustomer, intake |-> "ALREADY_AT_COMPANY",
     carrier |-> NoDriver, payment |-> payment, text |-> EmptyText]

PageInit ==
    /\ \E payment \in FreshPayments : form = FreshForm(payment)
    /\ applied = << >>
    /\ prefill = [f \in Prefilled |-> NoText]
    /\ shown = NoCustomer
    /\ loaded = {}
    /\ page = "open" /\ visit = 1
    /\ posts = [s \in Posts |-> NoPost]
    /\ created = [s \in Posts |-> NoOrder]
    /\ saved = InitReceivers
    /\ enabled = [x \in PageReferences |-> TRUE]

\* The fields the customer's profile may overwrite: empty ones, and those
\* that still hold what the previous profile filled in.
Refilled(text) == {f \in Prefilled : text[f] \in {NoText, prefill[f]}}

(* The prefill effect, when it runs: new is the form of this render and c  *)
(* the customer it shows.                                                  *)
Fill(new, c) ==
    LET fields == IF new.intake = "DRIVER_COLLECTION" /\ c # NoCustomer
                  THEN Refilled(new.text) ELSE {}
    IN  /\ form' = [new EXCEPT !.text = [f \in Text |->
               IF f \in fields THEN Profile[c][f] ELSE new.text[f]]]
        /\ prefill' = IF new.intake = "DRIVER_COLLECTION" /\ c # NoCustomer
                      THEN Profile[c] ELSE prefill

\* fieldsStillFromSuggestion.
StillFromSuggestion ==
    {f \in DOMAIN applied : applied[f] # NoText /\ form.text[f] = applied[f]}

(* The customer picker.  What the saved receiver of the previous customer  *)
(* filled in is cleared; the profile of the new one is filled in now when  *)
(* the cache holds it, otherwise once it arrives.                          *)
SelectCustomer(c) ==
    LET still == StillFromSuggestion
        next == IF c \in loaded THEN c ELSE shown
        new == [form EXCEPT !.customer = c,
                    !.text = [f \in Text |->
                                 IF f \in still THEN NoText ELSE form.text[f]]]
    IN  /\ page # "created" /\ form.customer # c
        /\ IF next # shown THEN Fill(new, next)
           ELSE form' = new /\ prefill' = prefill
        /\ applied' = << >>
        /\ shown' = next
        /\ UNCHANGED <<loaded, page, visit, posts, created, saved, enabled>>

\* The selected customer's profile arrives; until then, and when it does
\* not, the query keeps the data of the customer before.
Loaded(c) ==
    /\ form.customer = c /\ c \notin loaded
    /\ loaded' = loaded \cup {c}
    /\ shown' = c
    /\ Fill(form, c)
    /\ UNCHANGED <<applied, page, visit, posts, created, saved, enabled>>

\* An area is selected from the active ones.
Type(f, value) ==
    /\ page # "created"
    /\ value # form.text[f] /\ value \in Typed[f]
    /\ f \in CollectionText => form.intake = "DRIVER_COLLECTION"
    /\ value \in Areas => enabled[value]
    /\ form' = [form EXCEPT !.text[f] = value]
    /\ UNCHANGED <<applied, prefill, shown, loaded, page, visit,
                   posts, created, saved, enabled>>

\* suggestionToReceiverValues: an area that is inactive is left out.
Suggestion(row) ==
    [f \in {g \in ReceiverText : g = "area" => enabled[row.area]} |-> row[f]]

(* choose: one of the selected customer's saved receivers.             *)
Choose(key) ==
    LET row == saved[form.customer][key]
        values == Suggestion(row)
    IN  /\ page # "created" /\ form.customer # NoCustomer
        /\ row # NoReceiver
        /\ form' = [form EXCEPT !.text = [f \in Text |->
               IF f \in DOMAIN values THEN values[f] ELSE form.text[f]]]
        /\ applied' = values
        /\ UNCHANGED <<prefill, shown, loaded, page, visit,
                       posts, created, saved, enabled>>

\* The intake effect clears what the other method had filled in, the driver
\* included.
Switched(intake) ==
    [form EXCEPT !.intake = intake, !.carrier = NoDriver,
        !.text = [f \in Text |-> IF f \in CollectionText THEN NoText
                                 ELSE form.text[f]]]

SwitchIntake(intake) ==
    /\ page # "created" /\ form.intake # intake
    /\ Fill(Switched(intake), shown)
    /\ UNCHANGED <<applied, shown, loaded, page, visit,
                   posts, created, saved, enabled>>

ChooseDriver(d) ==
    /\ page # "created" /\ form.carrier # d
    /\ form' = [form EXCEPT !.carrier = d]
    /\ UNCHANGED <<applied, prefill, shown, loaded, page, visit,
                   posts, created, saved, enabled>>

EditPayment(edit) ==
    /\ page # "created"
    /\ form' = [form EXCEPT !.payment =
           NormalizedMethods(NormalizedAmounts(Over(edit, @)))]
    /\ UNCHANGED <<applied, prefill, shown, loaded, page, visit,
                   posts, created, saved, enabled>>

\* createOrderSchema: the required fields of the chosen intake method, and
\* amounts and methods that fit one another.
Submittable(f) ==
    /\ f.customer # NoCustomer
    /\ \A g \in Required : f.text[g] # NoText
    /\ f.intake = "DRIVER_COLLECTION" =>
           \A g \in RequiredCollection : f.text[g] # NoText
    /\ FormAccepts(f.payment)

(* Create order: not while another request of the page is under way.       *)
Submit(s) ==
    /\ page = "open" /\ Submittable(form)
    /\ posts[s] = NoPost
    /\ posts' = [posts EXCEPT ![s] =
           [form |-> form, visit |-> visit, phase |-> "sent",
            attempts |-> 0, result |-> "none", abandoned |-> FALSE]]
    /\ page' = "waiting"
    /\ UNCHANGED <<form, applied, prefill, shown, loaded, visit,
                   created, saved, enabled>>

-----------------------------------------------------------------------------
(* createOrder.                                                            *)

PostStep(s, changes) == posts' = [posts EXCEPT ![s] = Over(changes, @)]

\* Mutant: the customer's own data wins over the request's.
StoredTextOfCustomer(f) ==
    [g \in Text |->
        IF g \notin CollectionText \/ f.intake = "ALREADY_AT_COMPANY"
        THEN f.text[g]
        ELSE IF g \in Prefilled /\ Profile[f.customer][g] # NoText
             THEN Profile[f.customer][g]
        ELSE f.text[g]]

\* The collection snapshot: what the request leaves out is the customer's.
StoredText(f) ==
    [g \in Text |->
        IF g \notin CollectionText \/ f.intake = "ALREADY_AT_COMPANY"
        THEN f.text[g]
        ELSE IF g \in Prefilled /\ f.text[g] = NoText
             THEN Profile[f.customer][g]
        ELSE f.text[g]]

\* The referenced rows, all of which must be active.
Referenced(f) ==
    {f.customer, f.text["area"], f.carrier, f.payment.prepaidMethod,
     f.payment.collectionMethod, StoredText(f)["collectionArea"]}
    \ {NoDriver, NoMethod, NoText}

\* OrderCreateFoundationSchema and validatePaymentTypeConsistency.
Acceptable(f) ==
    /\ Sound(f.payment)
    /\ f.intake = "DRIVER_COLLECTION" =>
           \A g \in RequiredCollection : StoredText(f)[g] # NoText

(* Everything that is checked before the transaction.                      *)
CheckPost(s) ==
    LET r == posts[s]
        refused == {x \in Referenced(r.form) : ~ enabled[x]}
    IN  /\ r # NoPost /\ r.phase = "sent"
        /\ IF refused # {} \/ ~ Acceptable(r.form)
           THEN PostStep(s, [phase |-> "done",
                         result |-> IF refused # {} THEN "inactive" ELSE "invalid"])
           ELSE PostStep(s, [phase |-> "checked"])
        /\ UNCHANGED <<client, created, saved, enabled>>

NewMemory(f) ==
    [customer |-> f.customer, phone |-> f.text["phone"],
     details |-> f.text["details"], area |-> f.text["area"],
     extra |-> f.text["extra"], cleared |-> FALSE]

\* The transaction rolls back when the driver has become ineligible.
Eligible(f) == f.carrier # NoDriver => enabled[f.carrier]

(* One attempt of the transaction: the order, the receiver and the driver's *)
(* assignment, or none of them.                                            *)
Attempt(s) ==
    LET r == posts[s]
        f == r.form
    IN  /\ r # NoPost /\ r.phase = "checked" /\ r.attempts < MaxAttempts
        /\ PostStep(s, [phase |-> "done", result |-> IF Eligible(f) THEN "ok" ELSE "inactive"])
        /\ created' = IF ~ Eligible(f) THEN created
                     ELSE [created EXCEPT ![s] =
                              [customer |-> f.customer, intake |-> f.intake,
                               text |-> StoredText(f), payment |-> f.payment,
                               carrier |-> f.carrier,
                               toCollect |-> AmountToCollect(f.payment)]]
        /\ saved' = IF Eligible(f) THEN Remembered(saved, NewMemory(f))
                        ELSE saved
        /\ UNCHANGED <<client, enabled>>

\* The generated order number or tracking code is taken: another attempt,
\* up to MaxAttempts.
Conflict(s) ==
    LET r == posts[s] IN
    /\ r # NoPost /\ r.phase = "checked"
    /\ IF r.attempts + 1 < MaxAttempts
       THEN PostStep(s, [attempts |-> r.attempts + 1])
       ELSE PostStep(s, [attempts |-> MaxAttempts, phase |-> "done", result |-> "error"])
    /\ UNCHANGED <<client, created, saved, enabled>>

-----------------------------------------------------------------------------

(* The answer: an order leaves the page, an error leaves the form as it is.*)
AnswerPost(s) ==
    LET r == posts[s] IN
    /\ r # NoPost /\ r.phase = "done"
    /\ PostStep(s, [phase |-> "answered"])
    /\ page' = IF r.abandoned \/ r.visit # visit THEN page
               ELSE IF r.result = "ok" THEN "created" ELSE "open"
    /\ UNCHANGED <<form, applied, prefill, shown, loaded, visit,
                   created, saved, enabled>>

\* "We could not confirm whether the order was created": the form opens
\* again, while the request may be lost, under way or answered.
GiveUpPost(s) ==
    LET r == posts[s] IN
    /\ r # NoPost /\ r.phase # "answered" /\ ~ r.abandoned
    /\ r.visit = visit
    /\ page' = "open"
    /\ \/ PostStep(s, [abandoned |-> TRUE])
       \/ r.phase = "sent" /\ PostStep(s, [abandoned |-> TRUE, phase |-> "answered"])
    /\ UNCHANGED <<form, applied, prefill, shown, loaded, visit,
                   created, saved, enabled>>

\* The page is opened for the next order; the cache of customers stays.
Visit ==
    /\ page = "created" /\ visit < MaxPages
    /\ visit' = visit + 1 /\ page' = "open"
    /\ \E payment \in FreshPayments : form' = FreshForm(payment)
    /\ applied' = << >>
    /\ prefill' = [f \in Prefilled |-> NoText]
    /\ shown' = NoCustomer
    /\ UNCHANGED <<loaded, posts, created, saved, enabled>>

Retire(x) ==
    /\ enabled[x]
    /\ enabled' = [enabled EXCEPT ![x] = FALSE]
    /\ UNCHANGED <<client, posts, created, saved>>

PageNext ==
    \/ \E c \in Customers : SelectCustomer(c) \/ Loaded(c)
    \/ \E f \in Text : \E value \in Typed[f] : Type(f, value)
    \/ \E key \in PhoneKeys : Choose(key)
    \/ \E intake \in {"ALREADY_AT_COMPANY", "DRIVER_COLLECTION"} :
           SwitchIntake(intake)
    \/ \E d \in Drivers \cup {NoDriver} : ChooseDriver(d)
    \/ \E edit \in PaymentEdits : EditPayment(edit)
    \/ \E s \in Posts : Submit(s) \/ CheckPost(s) \/ Attempt(s) \/ Conflict(s)
                        \/ AnswerPost(s) \/ GiveUpPost(s)
    \/ Visit
    \/ \E x \in Retirable : Retire(x)

PageSpec == PageInit /\ [][PageNext]_pageVars

-----------------------------------------------------------------------------
(* Properties.                                                             *)

\* Types; and the page waits only while a request it sent is under way.
PageTypes ==
    /\ form.customer \in Customers \cup {NoCustomer}
    /\ form.carrier \in Drivers \cup {NoDriver}
    /\ DOMAIN applied \subseteq ReceiverText
    /\ shown \in loaded \cup {NoCustomer}
    /\ enabled \in [PageReferences -> BOOLEAN]
    /\ page = "waiting" => \E s \in Posts :
           /\ posts[s] # NoPost /\ posts[s].visit = visit
           /\ posts[s].phase # "answered" /\ ~ posts[s].abandoned

\* The order is what the form showed when Create was pressed: "the submitted
\* order stores a snapshot the operator may edit per order"
\* (CreateOrderPage.tsx:267).  The one exception: an alternative phone the
\* operator cleared is not sent, and the server fills in the customer's own.
ShownIsStored ==
    \A s \in Posts : created[s] # NoOrder =>
        LET f == posts[s].form IN
        /\ \A g \in Text :
               \/ created[s].text[g] = f.text[g]
               \/ /\ g = "alt" /\ f.intake = "DRIVER_COLLECTION"
                  /\ f.text[g] = NoText
                  /\ created[s].text[g] = Profile[f.customer][g]
        /\ created[s].payment = f.payment
        /\ created[s].toCollect = RemainingOrder(f.payment) + RemainingFee(f.payment)

=============================================================================
