-------------------------- MODULE DriverJobScreen --------------------------
(***************************************************************************)
(* A driver's job page, DriverJobDetailPage with its dialogs, and the      *)
(* handlers behind it, while management works on the same order.           *)
(*                                                                         *)
(* One order, and one driver.  The page shows a COLLECTION or a DELIVERY   *)
(* job.  A handler reads the order, refuses or not, and later claims the   *)
(* transition with what it read.  What money a delivery posts belongs to   *)
(* DeliveryWorkflow; here it is only what the driver reports.              *)
(***************************************************************************)
EXTENDS Naturals, FiniteSets

CONSTANTS JobTypes,     \* the types of job the page may be on
          Amounts,      \* amounts to collect, and collected, 0 among them
          JobMethods, NoJobMethod,
          Reasons, NoReason,
          NotesReasons, \* reasons that require notes
          JobSlots,     \* requests under way at a time
          MaxJobSteps   \* steps of management, visits and broken connections

ASSUME JobTypesAreJobs == JobTypes \subseteq {"COLLECTION", "DELIVERY"}
ASSUME ZeroAmongAmounts == Amounts \subseteq Nat /\ 0 \in Amounts
ASSUME AbsentOnes == NoJobMethod \notin JobMethods /\ NoReason \notin Reasons

VARIABLES job,       \* the order as the server holds it
          actives,   \* active reasons and payment methods
          begun,     \* attempts that could end: assignments, or starts
          ended,     \* attempts recorded
          place,     \* what the driver is looking at
          seen,      \* the page's copy of the job
          refetched, \* the job is being fetched
          jobDialog, dialogError,
          filled,    \* the open dialog's fields
          offered,   \* the failure dialog's list of reasons
          actions,   \* mutations under way
          jobSteps

jobServer == <<job, actives, begun, ended>>
jobDialogs == <<jobDialog, dialogError, filled, offered>>
jobScreen == <<place, seen, refetched, jobDialogs>>
jobVars == <<jobServer, jobScreen, actions, jobSteps>>

COLLECTION_CURRENT_STATUSES == {"ASSIGNED", "COLLECTED_FROM_SENDER"}

DELIVERY_CURRENT_STATUSES ==
    {"ASSIGNED", "PICKED_UP", "OUT_FOR_DELIVERY", "RESCHEDULED"}

\* The job's detail; the server answers 404 for any other.
IsCurrent == job.mine /\ job.status \in IF job.type = "COLLECTION"
    THEN COLLECTION_CURRENT_STATUSES ELSE DELIVERY_CURRENT_STATUSES

JobActions == {"collected", "collectionFailed", "pickup", "start", "fail",
            "deliver"}

\* The status in which the page offers an action and the handler accepts it.
Source(action) ==
    CASE action \in {"collected", "collectionFailed", "pickup"} -> {"ASSIGNED"}
      [] action = "start" -> {"PICKED_UP", "RESCHEDULED"}
      [] OTHER -> {"OUT_FOR_DELIVERY"}

JobActionsOf(type) == IF type = "COLLECTION" THEN {"collected", "collectionFailed"}
                   ELSE JobActions \ {"collected", "collectionFailed"}

FailKinds == {"collectionFailed", "fail"}

NoForm == [amount |-> 0, typed |-> FALSE, explained |-> FALSE,
           method |-> NoJobMethod, chose |-> FALSE,
           reason |-> NoReason, notes |-> FALSE]
NoAction == [at |-> "free"]
NotOffered == [at |-> "none", reasons |-> {}]

-----------------------------------------------------------------------------
(* The page.                                                               *)

\* Mutant: only the dialog's own action is asked about.
OnlyThisAction == \E s \in JobSlots :
    /\ actions[s].at # "free"
    /\ actions[s].shown /\ actions[s].action = jobDialog

JobBusy == \E s \in JobSlots : actions[s].at # "free" /\ actions[s].shown

\* DriverDeliverDialog's effect: nothing is typed for a zero amount only.
DeliverForm(shown) == [NoForm EXCEPT !.typed = (shown.amount = 0),
                                     !.method = shown.method]

OpenJobDialog(action) ==
    /\ place = "job" /\ seen.at = "ok" /\ jobDialog = "none" /\ ~JobBusy
    /\ action \in JobActionsOf(seen.job.type) /\ seen.job.status \in Source(action)
    /\ jobDialog' = action /\ dialogError' = "none"
    /\ filled' = IF action = "deliver" THEN DeliverForm(seen.job) ELSE NoForm
    /\ offered' = IF action \in FailKinds
                  THEN [at |-> "loading", reasons |-> {}] ELSE NotOffered
    /\ UNCHANGED <<jobServer, place, seen, refetched, actions, jobSteps>>

\* Cancel, Escape and the backdrop stay usable while the request runs.
CloseJobDialog ==
    /\ place = "job" /\ seen.at = "ok" /\ jobDialog # "none"
    /\ jobDialog' = "none" /\ filled' = NoForm /\ offered' = NotOffered
    /\ UNCHANGED <<jobServer, place, seen, refetched, dialogError, actions, jobSteps>>

Editing(kinds) == place = "job" /\ seen.at = "ok" /\ jobDialog \in kinds

TypeAmount == \E a \in Amounts, why \in BOOLEAN :
    /\ Editing({"deliver"}) /\ seen.job.amount # 0
    /\ filled' = [filled EXCEPT !.amount = a, !.typed = TRUE, !.explained = why]
    /\ UNCHANGED <<jobServer, place, seen, refetched, jobDialog, dialogError, offered,
                   actions, jobSteps>>

ChooseMethod == \E m \in JobMethods :
    /\ Editing({"deliver"})
    /\ filled' = [filled EXCEPT !.method = m, !.chose = TRUE]
    /\ UNCHANGED <<jobServer, place, seen, refetched, jobDialog, dialogError, offered,
                   actions, jobSteps>>

ChooseReason == \E r \in offered.reasons, notes \in BOOLEAN :
    /\ Editing(FailKinds) /\ offered.at = "ready"
    /\ filled' = [filled EXCEPT !.reason = r, !.notes = notes]
    /\ UNCHANGED <<jobServer, place, seen, refetched, jobDialog, dialogError, offered,
                   actions, jobSteps>>

\* Notes are asked for only when the list still has the chosen reason.
NotesRequired == filled.reason \in offered.reasons \cap NotesReasons

CanSubmit ==
    CASE jobDialog = "deliver" ->
            /\ filled.typed
            /\ filled.amount # seen.job.amount => filled.explained
      [] jobDialog \in FailKinds ->
            /\ offered.at = "ready" /\ offered.reasons # {}
            /\ filled.reason # NoReason /\ (NotesRequired => filled.notes)
      [] OTHER -> TRUE

\* The reason for a difference is sent only when the driver sees one.
SubmitJob(s) ==
    /\ Editing(JobActions) /\ CanSubmit
    /\ ~OnlyThisAction
    /\ actions[s].at = "free"
    /\ actions' = [actions EXCEPT ![s] =
           [at |-> "sent", action |-> jobDialog, shown |-> TRUE,
            form |-> [filled EXCEPT
                !.explained = @ /\ filled.amount # seen.job.amount],
            seen |-> job, outcome |-> "none"]]
    /\ UNCHANGED <<jobServer, jobScreen, jobSteps>>

-----------------------------------------------------------------------------
(* The handlers.                                                           *)

AnsweredJob(s, why) == actions' =
    [actions EXCEPT ![s].at = "answered", ![s].outcome = why]

\* loadDriverOwnedAssignedJob answers a conflict where the delivery
\* handlers answer a validation error.
Refusals(r) ==
    [GONE |-> ~job.mine,
     STATUS |-> job.status \notin Source(r.action) /\ job.type = "DELIVERY",
     STALE |-> job.status \notin Source(r.action) /\ job.type = "COLLECTION",
     REASON |-> /\ r.action \in FailKinds
                /\ r.form.reason \notin actives,
     NOTES |-> /\ r.action \in FailKinds /\ ~r.form.notes
               /\ r.form.reason \in NotesReasons,
     DIFFERENCE |-> /\ r.action = "deliver" /\ ~r.form.explained
                    /\ r.form.amount # job.amount,
     METHOD |-> /\ r.action = "deliver"
                /\ r.form.method \notin {NoJobMethod, job.method} \cup actives]

\* The order in which they are looked at.
Precedence ==
    <<"GONE", "STATUS", "STALE", "REASON", "NOTES", "DIFFERENCE", "METHOD">>

ReadJob(s) ==
    LET refusals == Refusals(actions[s]) IN
    /\ actions[s].at = "sent"
    /\ \/ \E i \in DOMAIN Precedence :
             /\ refusals[Precedence[i]]
             /\ \A k \in 1..(i - 1) : ~refusals[Precedence[k]]
             /\ AnsweredJob(s, Precedence[i])
       \/ /\ \A i \in DOMAIN Precedence : ~refusals[Precedence[i]]
          /\ actions' = [actions EXCEPT ![s].at = "read", ![s].seen = job]
    /\ UNCHANGED <<jobServer, jobScreen, jobSteps>>

\* What a claim restates of what was read.
JobClaimable(r) ==
    /\ job.mine /\ job.status = r.seen.status
    /\ r.action \in {"fail", "deliver"} => job.amount = r.seen.amount
    /\ r.action = "deliver" => job.method = r.seen.method

After(r) ==
    CASE r.action = "collected" -> [job EXCEPT !.status = "COLLECTED_FROM_SENDER"]
      [] r.action = "collectionFailed" ->
            [job EXCEPT !.status = "FAILED", !.mine = FALSE]
      [] r.action = "pickup" -> [job EXCEPT !.status = "PICKED_UP"]
      [] r.action = "start" -> [job EXCEPT !.status = "OUT_FOR_DELIVERY"]
      [] r.action = "fail" -> [job EXCEPT !.status = "FAILED_DELIVERY"]
      [] r.action = "deliver" ->
            [job EXCEPT !.status = "DELIVERED",
                        !.method = IF r.form.method = NoJobMethod THEN @
                                   ELSE r.form.method]

ClaimJob(s) ==
    LET r == actions[s] IN
    /\ r.at = "read"
    /\ IF JobClaimable(r)
       THEN /\ job' = After(r)
            /\ begun' = IF r.action = "start" THEN begun + 1 ELSE begun
            /\ ended' = IF r.action \in {"pickup", "start"} THEN ended
                        ELSE ended + 1
            /\ AnsweredJob(s, "OK")
       ELSE AnsweredJob(s, "STALE") /\ UNCHANGED <<job, begun, ended>>
    /\ UNCHANGED <<actives, jobScreen, jobSteps>>

-----------------------------------------------------------------------------
(* The answer, at the page.                                                *)

\* describeDriverActionError: only these refetch at the page's own request.
IsStale(outcome) == outcome \in {"STALE", "GONE"}

Leaves(action) == action \in {"collectionFailed", "fail", "deliver"}

\* A failure dialog is mounted with its job, open or not, and refetches its
\* reasons whenever it hears of a new error.  A closed one has started no
\* query, and refetching that throws: the page is gone.
ErrorShown(error) ==
    IF error = dialogError \/ seen.at # "ok" THEN UNCHANGED <<place, offered>>
    ELSE IF jobDialog' \in FailKinds
         THEN /\ offered' = [offered EXCEPT !.at = "loading"]
              /\ UNCHANGED place
         ELSE place' = "crashed" /\ UNCHANGED offered

\* Every mutation that ends, for good or ill, has the job fetched again.
JobPageHears(r, outcome) ==
    IF ~r.shown THEN
        /\ place' = IF outcome = "OK" /\ Leaves(r.action) THEN "jobs" ELSE place
        /\ UNCHANGED <<seen, jobDialogs>>
    ELSE IF outcome = "OK" THEN
        /\ place' = IF Leaves(r.action) THEN "jobs" ELSE place
        /\ jobDialog' = "none" /\ filled' = NoForm /\ offered' = NotOffered
        /\ UNCHANGED <<seen, dialogError>>
    ELSE
        /\ jobDialog' = IF IsStale(outcome) /\ ~Leaves(r.action) THEN "none"
                     ELSE jobDialog
        /\ dialogError' = outcome
        /\ ErrorShown(outcome)
        /\ UNCHANGED <<seen, filled>>

AnswerJob(s) ==
    /\ actions[s].at = "answered"
    /\ JobPageHears(actions[s], actions[s].outcome)
    /\ refetched' = TRUE
    /\ actions' = [actions EXCEPT ![s] = NoAction]
    /\ UNCHANGED <<jobServer, jobSteps>>

\* The connection breaks before the server heard, or after it had decided.
JobConnectionBreaks(s) ==
    /\ actions[s].at \in {"sent", "answered"} /\ jobSteps < MaxJobSteps
    /\ jobSteps' = jobSteps + 1
    /\ JobPageHears(actions[s], "UNREACHABLE")
    /\ refetched' = TRUE
    /\ actions' = [actions EXCEPT ![s] = NoAction]
    /\ UNCHANGED jobServer

\* The page shows the job anew, an error in its stead, or its error again.
\* An error page keeps no dialog's fields.  A new method, or an amount that
\* became or ceased to be zero, resets the delivery dialog.
JobArrives ==
    /\ place = "job" /\ refetched /\ IsCurrent
    /\ refetched' = FALSE
    /\ seen' = [at |-> "ok", job |-> job]
    /\ filled' = IF jobDialog = "deliver"
                  /\ \/ seen.at # "ok" \/ seen.job.method # job.method
                     \/ (seen.job.amount = 0) # (job.amount = 0)
               THEN DeliverForm(job) ELSE filled
    /\ place' = IF /\ seen.at # "ok" /\ dialogError # "none"
                  /\ jobDialog \notin FailKinds
               THEN "crashed" ELSE place
    /\ UNCHANGED <<jobServer, jobDialog, dialogError, offered, actions, jobSteps>>

JobFails ==
    /\ place = "job" /\ refetched
    /\ \/ ~IsCurrent /\ UNCHANGED jobSteps
       \/ jobSteps < MaxJobSteps /\ jobSteps' = jobSteps + 1
    /\ refetched' = FALSE
    /\ seen' = [at |-> "error", job |-> seen.job]
    /\ filled' = NoForm
    /\ offered' = IF jobDialog \in FailKinds
                  THEN [at |-> "loading", reasons |-> {}] ELSE NotOffered
    /\ UNCHANGED <<jobServer, place, jobDialog, dialogError, actions>>

ReasonsArrive ==
    /\ place = "job" /\ offered.at = "loading" /\ seen.at = "ok"
    /\ \/ /\ offered' = [at |-> "ready", reasons |-> actives \cap Reasons]
          /\ UNCHANGED jobSteps
       \/ /\ offered' = [offered EXCEPT !.at = "error"]
          /\ jobSteps < MaxJobSteps /\ jobSteps' = jobSteps + 1
    /\ UNCHANGED <<jobServer, place, seen, refetched, jobDialog, dialogError, filled,
                   actions>>

RetryJob ==
    /\ place = "job" /\ ~refetched
    /\ \/ /\ seen.at = "error" /\ refetched' = TRUE /\ UNCHANGED offered
       \/ /\ seen.at = "ok" /\ offered.at = "error"
          /\ offered' = [offered EXCEPT !.at = "loading"] /\ UNCHANGED refetched
    /\ UNCHANGED <<jobServer, place, seen, jobDialog, dialogError, filled, actions,
                   jobSteps>>

-----------------------------------------------------------------------------
(* Coming and going.  Requests of a page that was left go on unseen.       *)

Unseen == [s \in JobSlots |-> IF actions[s].at = "free" THEN NoAction
                           ELSE [actions[s] EXCEPT !.shown = FALSE]]

Leave ==
    /\ place \in {"job", "crashed"}
    /\ place' = "jobs"
    /\ actions' = Unseen
    /\ UNCHANGED <<jobServer, seen, refetched, jobDialogs, jobSteps>>

\* The page begins with no dialog, and with the job that is cached, if any.
VisitJob ==
    /\ place = "jobs" /\ jobSteps < MaxJobSteps
    /\ jobSteps' = jobSteps + 1
    /\ place' = "job"
    /\ jobDialog' = "none" /\ dialogError' = "none" /\ filled' = NoForm
    /\ offered' = NotOffered
    /\ \/ refetched' = TRUE /\ seen' = [at |-> "loading", job |-> seen.job]
       \/ seen.at = "ok" /\ ~refetched /\ UNCHANGED <<seen, refetched>>
    /\ UNCHANGED <<jobServer, actions>>

-----------------------------------------------------------------------------
(* Management.                                                             *)

EditOrder == \E a \in Amounts, m \in JobMethods :
    /\ job.type = "DELIVERY" /\ job.status # "DELIVERED"
    /\ job' = [job EXCEPT !.amount = a, !.method = m]
    /\ UNCHANGED <<actives, begun, ended>>

Unassign ==
    /\ job.mine /\ job.status \in {"ASSIGNED", "RESCHEDULED", "FAILED_DELIVERY"}
    /\ job' = [job EXCEPT !.mine = FALSE]
    /\ UNCHANGED <<actives, begun, ended>>

Assign ==
    /\ ~job.mine /\ job.status \notin {"RECEIVED", "DELIVERED"}
    /\ job' = [job EXCEPT !.mine = TRUE, !.status = "ASSIGNED"]
    /\ begun' = IF job.type = "COLLECTION" THEN begun + 1 ELSE begun
    /\ UNCHANGED <<actives, ended>>

Reschedule ==
    /\ job.mine /\ job.status = "FAILED_DELIVERY"
    /\ job' = [job EXCEPT !.status = "RESCHEDULED"]
    /\ UNCHANGED <<actives, begun, ended>>

ReceiveParcel ==
    /\ job.status = "COLLECTED_FROM_SENDER"
    /\ job' = [job EXCEPT !.status = "RECEIVED", !.mine = FALSE]
    /\ UNCHANGED <<actives, begun, ended>>

DeactivateSetting == \E a \in actives :
    /\ actives' = actives \ {a}
    /\ UNCHANGED <<job, begun, ended>>

Management ==
    /\ jobSteps < MaxJobSteps /\ jobSteps' = jobSteps + 1
    /\ \/ EditOrder \/ Unassign \/ Assign \/ Reschedule \/ ReceiveParcel
       \/ DeactivateSetting
    /\ UNCHANGED <<jobScreen, actions>>

-----------------------------------------------------------------------------

JobInit ==
    /\ \E type \in JobTypes, a \in Amounts, m \in JobMethods \cup {NoJobMethod} :
          job = [type |-> type, status |-> "ASSIGNED", mine |-> TRUE,
                 amount |-> a, method |-> m]
    /\ actives = Reasons \cup JobMethods
    /\ begun = IF job.type = "COLLECTION" THEN 1 ELSE 0
    /\ ended = 0
    /\ place = "job" /\ seen = [at |-> "loading", job |-> job] /\ refetched = TRUE
    /\ jobDialog = "none" /\ dialogError = "none" /\ filled = NoForm
    /\ offered = NotOffered
    /\ actions = [s \in JobSlots |-> NoAction]
    /\ jobSteps = 0

DriverActs ==
    \/ \E action \in JobActions : OpenJobDialog(action)
    \/ CloseJobDialog \/ TypeAmount \/ ChooseMethod \/ ChooseReason
    \/ \E s \in JobSlots : SubmitJob(s)
    \/ RetryJob \/ Leave \/ VisitJob

JobNext ==
    \/ DriverActs \/ JobArrives \/ JobFails \/ ReasonsArrive
    \/ \E s \in JobSlots : ReadJob(s) \/ ClaimJob(s) \/ AnswerJob(s)
                        \/ JobConnectionBreaks(s)
    \/ Management

JobSpec == JobInit /\ [][JobNext]_jobVars

-----------------------------------------------------------------------------

\* The types; a dialog's fields and its list of reasons live and die with
\* it, and it belongs to the job on show.
JobTypeOK ==
    /\ job \in [type : JobTypes,
               status : COLLECTION_CURRENT_STATUSES
                  \cup DELIVERY_CURRENT_STATUSES
                  \cup {"FAILED", "RECEIVED", "FAILED_DELIVERY", "DELIVERED"},
               mine : BOOLEAN, amount : Amounts,
               method : JobMethods \cup {NoJobMethod}]
    /\ actives \subseteq Reasons \cup JobMethods
    /\ begun \in Nat /\ ended \in Nat /\ jobSteps \in 0..MaxJobSteps
    /\ place \in {"job", "jobs", "crashed"}
    /\ seen.at \in {"loading", "ok", "error"} /\ refetched \in BOOLEAN
    /\ jobDialog \in JobActions \cup {"none"}
    /\ place = "job" /\ seen.at = "ok" =>
          /\ jobDialog \in JobActionsOf(seen.job.type) \cup {"none"}
          /\ offered.at = "none" <=> jobDialog \notin FailKinds
          /\ jobDialog = "none" => filled = NoForm
    /\ offered.reasons \subseteq Reasons
    /\ filled.reason \in Reasons \cup {NoReason}
    /\ filled.method \in JobMethods \cup {NoJobMethod}

\* A delivery is recorded with the amount to collect, or with the driver's
\* reason for the difference, although the amount may be edited between
\* what the driver saw, what the handler read and what it claims.
DifferenceExplained ==
    [][\A s \in JobSlots :
          ClaimJob(s) /\ job'.status = "DELIVERED" /\ job.status # "DELIVERED"
          => \/ actions[s].form.explained
             \/ actions[s].form.amount = job.amount]_jobVars

=============================================================================
