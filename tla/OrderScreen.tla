---------------------------- MODULE OrderScreen ----------------------------
(***************************************************************************)
(* The management page of one order: OrderDetailPage with its dialogs, the *)
(* parcel section it contains, and the handlers behind both, while drivers *)
(* and colleagues move the same order.                                     *)
(*                                                                         *)
(* The page and the section are two scopes.  Each has its query, its one   *)
(* dialog, its error, and buttons that ask only about its own mutations.   *)
(* A handler reads the order, refuses or not, and later claims what it     *)
(* read.  Editing is OrderEditing's; assignment rows are OrderLifecycle's. *)
(***************************************************************************)
EXTENDS Naturals, FiniteSets

CONSTANTS DetailDrivers, NoDetailDriver,
          DetailSlots,    \* requests under way at a time
          MaxOtherSteps   \* steps of others, and broken connections

ASSUME NoDriverIsNone == NoDetailDriver \notin DetailDrivers

VARIABLES orderNow,    \* the order as the server holds it
          copies,      \* each scope's copy of it
          reloading,   \* the scopes that fetch theirs
          openDialog,  \* each scope's open dialog
          told,        \* the dialog's error, and the page's banner
          calls,
          otherSteps

detailScreen == <<copies, reloading, openDialog, told>>
detailVars == <<orderNow, detailScreen, calls, otherSteps>>

Scopes == {"page", "section"}
DetailActionsOf(scope) ==
    IF scope = "page"
    THEN {"ready", "assign", "reassign", "unassign", "reschedule", "cancel"}
    ELSE {"collector", "recollector", "recollect", "receive"}
DetailActions == UNION {DetailActionsOf(scope) : scope \in Scopes}
ScopeOf(action) == CHOOSE scope \in Scopes : action \in DetailActionsOf(scope)

ASSIGN_STATUSES == {"RECEIVED", "READY_FOR_PICKUP", "RESCHEDULED"}
REASSIGNABLE_STATUSES == {"ASSIGNED", "RESCHEDULED"}
CANCELLABLE_STATUSES ==
    {"RECEIVED", "READY_FOR_PICKUP", "ASSIGNED", "FAILED_DELIVERY", "RESCHEDULED"}
TERMINAL_ORDER_STATUSES == {"DELIVERED", "CANCELLED"}

DriverRefs == DetailDrivers \cup {NoDetailDriver}
NoDetailRequest == [at |-> "free"]
Unread == [status |-> "unread"]
Silent == [dialog |-> "none", banner |-> "none"]

-----------------------------------------------------------------------------
(* What the page offers, of its own copy of the order.                     *)

CancelOffered(v) ==
    v.status \in CANCELLABLE_STATUSES /\ v.parcel # "COLLECTED_FROM_SENDER"

\* getOrderDetailActions, and the section's own list.
Offers(v) == [a \in DetailActions |->
    CASE a = "ready" -> v.status = "RECEIVED"
      [] a = "assign" -> /\ v.driver = NoDetailDriver /\ v.status \in ASSIGN_STATUSES
                         /\ v.parcel = "RECEIVED_AT_COMPANY"
      [] a = "reassign" ->
            v.driver # NoDetailDriver /\ v.status \in REASSIGNABLE_STATUSES
      [] a = "unassign" -> v.driver # NoDetailDriver /\ v.status = "ASSIGNED"
      [] a = "reschedule" -> v.status = "FAILED_DELIVERY"
      [] a = "cancel" -> CancelOffered(v)
      [] OTHER ->
            /\ v.status \notin TERMINAL_ORDER_STATUSES
            /\ v.parcel \in
                 CASE a = "collector" -> {"AWAITING_ASSIGNMENT", "RESCHEDULED"}
                   [] a = "recollector" -> {"ASSIGNED"}
                   [] a = "recollect" -> {"FAILED"}
                   [] OTHER -> {"COLLECTED_FROM_SENDER"}]

\* What each query brings of the order.
Copy(scope, o) ==
    IF scope = "page"
    THEN [status |-> o.status, driver |-> o.driver, parcel |-> o.parcel]
    ELSE [parcel |-> o.parcel, collector |-> o.collector]

\* The section takes the order's status from the page and the rest from its
\* own query.
Shown(scope) == [copies["page"].order EXCEPT !.parcel = copies[scope].order.parcel]

\* Both scopes show while the page has an order; the section only while its
\* own query has not failed.
Visible(scope) ==
    /\ copies["page"].at = "ok"
    /\ scope = "section" => copies["section"].at = "ok"

\* Mutant: each button asks about its own mutation.
OwnMutation(scope) == \E s \in DetailSlots :
    /\ calls[s].at # "free"
    /\ calls[s].action = openDialog[scope]

DetailBusy(scope) == \E s \in DetailSlots :
    /\ calls[s].at # "free"
    /\ ScopeOf(calls[s].action) = scope

\* A dialog is modal, and is on the screen as long as its scope is.
Modal == \E scope \in Scopes : openDialog[scope] # "none" /\ Visible(scope)

Request(action, driver) ==
    [at |-> "sent", action |-> action, driver |-> driver,
     shown |-> IF action = "unassign" THEN Shown("page").driver ELSE NoDetailDriver,
     seen |-> Unread, outcome |-> "none"]

SendDetail(s, action, driver) ==
    /\ calls[s].at = "free"
    /\ calls' = [calls EXCEPT ![s] = Request(action, driver)]

\* Mark ready has no dialog.
MarkReady(s) ==
    /\ Visible("page") /\ ~Modal /\ ~DetailBusy("page")
    /\ Offers(Shown("page"))["ready"]
    /\ SendDetail(s, "ready", NoDetailDriver)
    /\ UNCHANGED <<orderNow, detailScreen, otherSteps>>

OpenDetailDialog(action) ==
    LET scope == ScopeOf(action) IN
    /\ action # "ready" /\ Visible(scope) /\ ~Modal /\ ~DetailBusy(scope)
    /\ Offers(Shown(scope))[action]
    /\ openDialog' = [openDialog EXCEPT ![scope] = action]
    /\ told' = [told EXCEPT ![scope] = Silent]
    /\ UNCHANGED <<orderNow, copies, reloading, calls, otherSteps>>

CloseDetailDialog(scope) ==
    /\ openDialog[scope] # "none" /\ Visible(scope)
    /\ openDialog' = [openDialog EXCEPT ![scope] = "none"]
    /\ told' = [told EXCEPT ![scope].dialog = "none"]
    /\ UNCHANGED <<orderNow, copies, reloading, calls, otherSteps>>

ChosenCollector(action) ==
    IF action = "collector" THEN DetailDrivers
    ELSE DetailDrivers \ {copies["section"].order.collector}

\* What a dialog asks for: another driver than the one shown, a reason, or
\* nothing.  Unassigning names the driver that the page shows.
Chosen(action) ==
    CASE action = "assign" -> DetailDrivers
      [] action = "reassign" -> DetailDrivers \ {copies["page"].order.driver}
      [] action \in {"collector", "recollector"} -> ChosenCollector(action)
      [] action = "unassign" -> {copies["page"].order.driver} \ {NoDetailDriver}
      [] OTHER -> {NoDetailDriver}

\* The confirm button asks about its own mutation; the dialog stays open
\* while the page behind it is refreshed.
Confirm(s, scope) ==
    LET action == openDialog[scope] IN
    /\ action # "none" /\ Visible(scope) /\ ~OwnMutation(scope)
    /\ \E d \in Chosen(action) : SendDetail(s, action, d)
    /\ told' = IF scope = "page" THEN told ELSE [told EXCEPT ![scope] = Silent]
    /\ UNCHANGED <<orderNow, copies, reloading, openDialog, otherSteps>>

-----------------------------------------------------------------------------
(* The handlers.                                                           *)

ParcelAtCompany(o) == o.parcel = "RECEIVED_AT_COMPANY"

\* A parcel handler's: a terminal order, or another stage than its own.
ParcelConflicts(a, o) ==
    \/ o.status \in TERMINAL_ORDER_STATUSES
    \/ o.parcel \notin CASE a = "collector" -> {"AWAITING_ASSIGNMENT", "RESCHEDULED"}
                         [] a = "recollector" -> {"ASSIGNED"}
                         [] a = "recollect" -> {"FAILED"}
                         [] OTHER -> {"COLLECTED_FROM_SENDER"}

\* The conflicts a handler finds, and the other refusals.
Conflicts(a, d, o) ==
    CASE a = "assign" ->
            \/ o.driver # NoDetailDriver
            \/ o.status \in ASSIGN_STATUSES /\ ~ParcelAtCompany(o)
      [] a = "unassign" -> o.driver # d \/ o.status # "ASSIGNED"
      [] a = "cancel" -> /\ o.status \in CANCELLABLE_STATUSES
                         /\ o.parcel = "COLLECTED_FROM_SENDER"
      [] a \in DetailActionsOf("section") -> ParcelConflicts(a, o)
      [] OTHER -> FALSE

\* An order whose driver or collector disagrees with its state is an
\* integrity error.
Invalid(a, d, o) ==
    CASE a = "ready" -> o.status # "RECEIVED" \/ o.driver # NoDetailDriver
      [] a = "assign" -> o.status \notin ASSIGN_STATUSES
      [] a = "reassign" -> \/ o.status \notin REASSIGNABLE_STATUSES
                           \/ o.driver \in {NoDetailDriver, d}
                           \/ ~ParcelAtCompany(o)
      [] a = "reschedule" ->
            o.status # "FAILED_DELIVERY" \/ o.driver = NoDetailDriver
      [] a = "cancel" ->
            \/ o.status \notin CANCELLABLE_STATUSES
            \/ (o.parcel = "ASSIGNED") # (o.collector # NoDetailDriver)
            \/ /\ o.status \in {"ASSIGNED", "FAILED_DELIVERY"}
               /\ o.driver = NoDetailDriver
            \/ /\ o.status \in {"RECEIVED", "READY_FOR_PICKUP"}
               /\ o.driver # NoDetailDriver
      [] a \in DetailActionsOf("section") ->
            \/ (a \in {"recollector", "receive"}) # (o.collector # NoDetailDriver)
            \/ a = "recollector" /\ o.collector = d
      [] OTHER -> FALSE

AnsweredDetail(s, outcome) == calls' =
    [calls EXCEPT ![s].at = "answered", ![s].seen = Unread, ![s].outcome = outcome]

ReadDetail(s) ==
    LET r == calls[s] IN
    /\ r.at = "sent"
    /\ CASE Conflicts(r.action, r.driver, orderNow) -> AnsweredDetail(s, "CONFLICT")
         [] /\ ~Conflicts(r.action, r.driver, orderNow)
            /\ Invalid(r.action, r.driver, orderNow) -> AnsweredDetail(s, "INVALID")
         [] OTHER -> calls' = [calls EXCEPT ![s].at = "read",
                                                  ![s].seen = orderNow]
    /\ UNCHANGED <<orderNow, detailScreen, otherSteps>>

\* Reassigning an order that is ASSIGNED enters nothing in its history.
AssignedFrom(o) == IF o.status = "ASSIGNED" THEN o.from ELSE o.status

\* What is written; unassigning restores what the order was assigned from.
Moved(a, d, o) ==
    CASE a = "ready" -> [o EXCEPT !.status = "READY_FOR_PICKUP"]
      [] a \in {"assign", "reassign"} ->
            [o EXCEPT !.status = "ASSIGNED", !.driver = d,
                      !.from = AssignedFrom(o)]
      [] a = "unassign" -> [o EXCEPT !.status = o.from, !.driver = NoDetailDriver]
      [] a = "reschedule" -> [o EXCEPT !.status = "RESCHEDULED"]
      [] a = "cancel" -> [o EXCEPT !.status = "CANCELLED", !.driver = NoDetailDriver,
                                   !.collector = NoDetailDriver]
      [] a \in {"collector", "recollector"} ->
            [o EXCEPT !.parcel = "ASSIGNED", !.collector = d]
      [] a = "recollect" -> [o EXCEPT !.parcel = "RESCHEDULED"]
      [] OTHER -> [o EXCEPT !.parcel = "RECEIVED_AT_COMPANY",
                            !.collector = NoDetailDriver]

\* Mutant: unassigning claims whatever driver the order has by now.
ClaimWithoutDriver(r) ==
    IF ScopeOf(r.action) = "section"
    THEN orderNow.parcel = r.seen.parcel /\ orderNow.collector = r.seen.collector
    ELSE /\ orderNow.status = r.seen.status
         /\ r.action = "cancel" => orderNow.parcel = r.seen.parcel

\* The claim restates what was read: a page action the status and the
\* driver, cancelling the parcel's stage too; a section action its stage
\* and collector only.
DetailClaimable(r) ==
    IF ScopeOf(r.action) = "section"
    THEN orderNow.parcel = r.seen.parcel /\ orderNow.collector = r.seen.collector
    ELSE /\ orderNow.status = r.seen.status /\ orderNow.driver = r.seen.driver
         /\ r.action = "cancel" => orderNow.parcel = r.seen.parcel

ClaimDetail(s) ==
    LET r == calls[s] IN
    /\ r.at = "read"
    /\ IF DetailClaimable(r)
       THEN orderNow' = Moved(r.action, r.driver, orderNow) /\ AnsweredDetail(s, "OK")
       ELSE AnsweredDetail(s, "CONFLICT") /\ UNCHANGED orderNow
    /\ UNCHANGED <<detailScreen, otherSteps>>

-----------------------------------------------------------------------------
(* The answer.                                                             *)

\* Every mutation that ends, for good or ill, invalidates its tags: those of
\* the section, and of cancelling, are behind both queries.
Fetched(r) == IF r.action = "cancel" \/ ScopeOf(r.action) = "section"
              THEN Scopes ELSE {"page"}

\* A conflict closes the dialog that the message was meant for; the error of
\* a closed dialog shows nowhere, and opening one begins with none.
DetailHears(r, outcome) ==
    LET scope == ScopeOf(r.action) IN
    /\ openDialog' =
           IF outcome = "OK" \/ (outcome = "CONFLICT" /\ r.action # "ready")
           THEN [openDialog EXCEPT ![scope] = "none"] ELSE openDialog
    /\ told' = [told EXCEPT ![scope] =
           CASE outcome = "OK" -> Silent
             [] outcome # "OK" /\ r.action = "ready" ->
                    [@ EXCEPT !.banner = outcome]
             [] OTHER -> [@ EXCEPT !.dialog =
                              IF openDialog'[scope] = "none" THEN "none" ELSE outcome]]
    /\ reloading' = reloading \cup Fetched(r)

AnswerDetail(s) ==
    /\ calls[s].at = "answered"
    /\ DetailHears(calls[s], calls[s].outcome)
    /\ calls' = [calls EXCEPT ![s] = NoDetailRequest]
    /\ UNCHANGED <<orderNow, copies, otherSteps>>

DetailConnectionBreaks(s) ==
    /\ calls[s].at \in {"sent", "answered"} /\ otherSteps < MaxOtherSteps
    /\ otherSteps' = otherSteps + 1
    /\ DetailHears(calls[s], "UNREACHABLE")
    /\ calls' = [calls EXCEPT ![s] = NoDetailRequest]
    /\ UNCHANGED <<orderNow, copies>>

OrderArrives(scope) ==
    /\ scope \in reloading
    /\ reloading' = reloading \ {scope}
    /\ copies' =
           [copies EXCEPT ![scope] = [at |-> "ok", order |-> Copy(scope, orderNow)]]
    /\ UNCHANGED <<orderNow, openDialog, told, calls, otherSteps>>

\* A page that shows an order keeps it, under a notice; the section gives
\* way to its error.
OrderFails(scope) ==
    /\ scope \in reloading /\ otherSteps < MaxOtherSteps
    /\ otherSteps' = otherSteps + 1
    /\ reloading' = reloading \ {scope}
    /\ copies' = [copies EXCEPT ![scope].at =
           IF scope = "page" /\ @ = "ok" THEN "ok" ELSE "error"]
    /\ UNCHANGED <<orderNow, openDialog, told, calls>>

RetryDetail(scope) ==
    /\ scope \notin reloading
    /\ copies[scope].at = "error" \/ scope = "page"
    /\ reloading' = reloading \cup {scope}
    /\ UNCHANGED <<orderNow, copies, openDialog, told, calls, otherSteps>>

-----------------------------------------------------------------------------
(* Others: colleagues at their own pages, and drivers.                     *)

Colleague == \E a \in DetailActions, d \in DriverRefs :
    /\ d \in CASE a \in {"assign", "reassign", "collector", "recollector"} ->
                      DetailDrivers
               [] a = "unassign" -> {orderNow.driver} \ {NoDetailDriver}
               [] OTHER -> {NoDetailDriver}
    /\ ~Conflicts(a, d, orderNow) /\ ~Invalid(a, d, orderNow)
    /\ orderNow' = Moved(a, d, orderNow)

DriverMoves ==
    \/ /\ orderNow.status \in {"ASSIGNED", "PICKED_UP", "OUT_FOR_DELIVERY"}
       /\ \E to \in CASE orderNow.status = "ASSIGNED" -> {"PICKED_UP"}
                      [] orderNow.status = "PICKED_UP" -> {"OUT_FOR_DELIVERY"}
                      [] OTHER -> {"FAILED_DELIVERY", "DELIVERED"} :
             orderNow' = [orderNow EXCEPT !.status = to]
    \/ /\ orderNow.status = "RESCHEDULED" /\ orderNow.driver # NoDetailDriver
       /\ orderNow' = [orderNow EXCEPT !.status = "OUT_FOR_DELIVERY"]
    \/ /\ orderNow.parcel = "ASSIGNED"
       /\ orderNow.status \notin TERMINAL_ORDER_STATUSES
       /\ orderNow' \in
              {[orderNow EXCEPT !.parcel = "COLLECTED_FROM_SENDER"],
               [orderNow EXCEPT !.parcel = "FAILED", !.collector = NoDetailDriver]}

Others ==
    /\ otherSteps < MaxOtherSteps /\ otherSteps' = otherSteps + 1
    /\ Colleague \/ DriverMoves
    /\ UNCHANGED <<detailScreen, calls>>

-----------------------------------------------------------------------------

\* An order as it is created, at some point of its life.
DetailInit ==
    /\ orderNow \in [status : {"RECEIVED"}, from : {"RECEIVED"},
                     driver : {NoDetailDriver}, collector : {NoDetailDriver},
                     parcel : {"AWAITING_ASSIGNMENT", "RECEIVED_AT_COMPANY"}]
    /\ copies = [scope \in Scopes |->
          [at |-> "loading", order |-> Copy(scope, orderNow)]]
    /\ reloading = Scopes
    /\ openDialog = [scope \in Scopes |-> "none"]
    /\ told = [scope \in Scopes |-> Silent]
    /\ calls = [s \in DetailSlots |-> NoDetailRequest]
    /\ otherSteps = 0

Manager ==
    \/ \E s \in DetailSlots : MarkReady(s) \/ \E scope \in Scopes : Confirm(s, scope)
    \/ \E action \in DetailActions : OpenDetailDialog(action)
    \/ \E scope \in Scopes : CloseDetailDialog(scope) \/ RetryDetail(scope)

DetailNext ==
    \/ Manager
    \/ \E s \in DetailSlots : ReadDetail(s) \/ ClaimDetail(s) \/ AnswerDetail(s)
                              \/ DetailConnectionBreaks(s)
    \/ \E scope \in Scopes : OrderArrives(scope) \/ OrderFails(scope)
    \/ Others

DetailSpec == DetailInit /\ [][DetailNext]_detailVars

-----------------------------------------------------------------------------

\* The types; an order remembers only what it may be assigned from, and a
\* scope's dialog is one of its own.
DetailTypeOK ==
    /\ orderNow \in [status : ASSIGN_STATUSES \cup CANCELLABLE_STATUSES
                     \cup TERMINAL_ORDER_STATUSES
                     \cup {"PICKED_UP", "OUT_FOR_DELIVERY"},
                  from : ASSIGN_STATUSES, driver : DriverRefs,
                  parcel : {"AWAITING_ASSIGNMENT", "ASSIGNED", "FAILED",
                            "COLLECTED_FROM_SENDER", "RESCHEDULED",
                            "RECEIVED_AT_COMPANY"},
                  collector : DriverRefs]
    /\ \A scope \in Scopes :
          /\ copies[scope].at \in {"loading", "ok", "error"}
          /\ openDialog[scope] \in DetailActionsOf(scope) \cup {"none"}
          /\ told[scope].dialog \in {"none", "CONFLICT", "INVALID", "UNREACHABLE"}
    /\ reloading \subseteq Scopes /\ otherSteps \in 0..MaxOtherSteps
    /\ \A s \in DetailSlots : calls[s].at \in {"free", "sent", "read", "answered"}

\* Whoever the page shows is who is removed: not the driver that a colleague
\* has put in his place.
UnassignRemovesShownDriver ==
    [][\A s \in DetailSlots :
          ClaimDetail(s) /\ calls[s].action = "unassign" /\ orderNow' # orderNow
          => orderNow.driver = calls[s].shown]_detailVars

=============================================================================
