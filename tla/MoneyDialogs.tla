---------------------------- MODULE MoneyDialogs ----------------------------
(***************************************************************************)
(* The confirmation dialogs of the management client, over a network that  *)
(* loses and delays calls, against the services they post to.              *)
(*                                                                         *)
(* Each dialog has its own rules for the Idempotency-Key it sends, for the *)
(* failures it takes as ambiguous and for what may still be edited or      *)
(* closed afterwards; the module holds one dialog of one kind:             *)
(*   payout      ProcessPayoutDialog, POST /payouts                        *)
(*   adjustment  LedgerAdjustDialog, POST /wallets/:id/adjust (no key)     *)
(*   reversal    LedgerReverseDialog, POST /wallet-transactions/:id/reverse*)
(*   correction  FinancialCorrectionDialog, the release and settlement     *)
(*               corrections, once per record                              *)
(*   proposal    OwnershipActionDialog, a write that is not once per record*)
(* A body stands for everything the operator typed.                        *)
(***************************************************************************)
EXTENDS Naturals, FiniteSets

CONSTANTS
    Kinds,          \* the dialogs the instance looks at
    Bodies,         \* what the operator may type
    Failures,       \* how the services refuse or fail in the instance
    MaxOpenings,    \* bound: how often the dialog is opened
    MaxRequests     \* bound: how often it submits

ASSUME KindsAssumption ==
    Kinds \subseteq {"payout", "adjustment", "reversal", "correction", "proposal"}

ASSUME FailuresAssumption == Failures \subseteq {"refused", "invalid", "server"}

VARIABLES
    kind,       \* the dialog
    dialog,     \* what is on the screen
    idem,       \* the refs: the key, the body it is bound to, ambiguous or not
    opening,    \* how often it was opened; 0 before the first time
    pending,    \* the request whose promise the dialog awaits
    requests,   \* requests on their way to the server
    answers,    \* answers on their way back
    effects,    \* what the server has recorded
    submitted,  \* the bodies submitted since the dialog was last opened
    counter     \* requests and keys handed out so far

dialogVars == <<kind, dialog, idem, opening, pending, requests, answers, effects,
          submitted, counter>>

NoBody == "none"
NoKey == 0
NoRequest == [number |-> 0, key |-> NoKey, body |-> NoBody, opening |-> 0]

NoIdem == [key |-> NoKey, body |-> NoBody, ambiguous |-> FALSE]

Fresh == [open |-> TRUE, step |-> "form", body |-> NoBody, told |-> "nothing"]

Busy == pending # NoRequest

-----------------------------------------------------------------------------
(* What the dialogs do with the answer to a request. *)

AfterPayout(verdict, sent) ==
    CASE verdict = "ok" ->
            /\ idem' = [idem EXCEPT !.key = NoKey, !.body = NoBody]
            /\ dialog' = [dialog EXCEPT !.step = "done", !.told = verdict]
      [] verdict = "transport" ->
            /\ dialog' = [dialog EXCEPT !.told = verdict]
            /\ UNCHANGED idem
      [] OTHER ->
            /\ idem' = [idem EXCEPT !.body = sent.body]
            /\ dialog' = [dialog EXCEPT !.step = "form", !.told = verdict]

AfterAdjustment(verdict) ==
    /\ dialog' = [dialog EXCEPT
         !.told = verdict,
         !.step = CASE verdict = "ok" -> "done"
                    [] verdict = "transport" -> "unconfirmed"
                    [] OTHER -> "form"]
    /\ UNCHANGED idem

AfterReversal(verdict) ==
    /\ dialog' = [dialog EXCEPT
         !.told = verdict,
         !.step = CASE verdict = "ok" -> "done"
                    [] verdict = "transport" -> dialog.step
                    [] verdict = "conflict" -> "already"
                    [] OTHER -> "form"]
    /\ UNCHANGED idem

\* afterFailure: once ambiguous, ambiguous until success or the dialog closes.
AfterFailure(ambiguous) == [idem EXCEPT !.ambiguous = @ \/ ambiguous]

AfterCorrection(verdict) ==
    IF verdict = "ok"
    THEN /\ idem' = NoIdem
         /\ dialog' = [dialog EXCEPT !.step = "done", !.told = verdict]
    ELSE /\ idem' = AfterFailure(verdict = "transport")
         /\ dialog' = [dialog EXCEPT
              !.told = verdict,
              !.step = CASE verdict = "transport" -> dialog.step
                         [] verdict = "invalid" -> "form"
                         [] OTHER -> "stopped"]

AfterProposal(verdict) ==
    IF verdict = "ok"
    THEN /\ idem' = NoIdem
         /\ dialog' = [dialog EXCEPT !.step = "done", !.told = verdict]
    ELSE /\ idem' = AfterFailure(verdict \in {"transport", "server"})
         /\ dialog' = [dialog EXCEPT
              !.told = verdict,
              !.step = IF verdict \in {"transport", "server", "invalid"}
                       THEN dialog.step ELSE "stopped"]

\* The corrections and the reversals are mounted for one opening: the answer
\* to an earlier one reaches nobody.
Unmounted(sent) ==
    kind \in {"reversal", "correction"} /\ (~dialog.open \/ sent.opening # opening)

Learn(verdict) ==
    /\ pending' = NoRequest
    /\ IF Unmounted(pending) THEN UNCHANGED <<dialog, idem>>
       ELSE CASE kind = "payout" -> AfterPayout(verdict, pending)
              [] kind = "adjustment" -> AfterAdjustment(verdict)
              [] kind = "reversal" -> AfterReversal(verdict)
              [] kind = "correction" -> AfterCorrection(verdict)
              [] OTHER -> AfterProposal(verdict)

-----------------------------------------------------------------------------
(* What the operator does. *)

Open ==
    /\ ~dialog.open /\ opening < MaxOpenings
    /\ opening' = opening + 1
    /\ dialog' = Fresh /\ idem' = NoIdem /\ submitted' = {}
    /\ UNCHANGED <<kind, pending, requests, answers, effects, counter>>

\* Two of the dialogs stay open while their request is in flight.
MayClose == kind \in {"correction", "proposal"} => ~Busy

Close ==
    /\ dialog.open /\ MayClose
    /\ dialog' = [dialog EXCEPT !.open = FALSE]
    /\ UNCHANGED <<kind, idem, opening, pending, requests, answers, effects,
                   submitted, counter>>

Type(b) ==
    /\ dialog.open /\ dialog.step = "form" /\ dialog.body # b
    /\ dialog' = [dialog EXCEPT !.body = b]
    /\ UNCHANGED <<kind, idem, opening, pending, requests, answers, effects,
                   submitted, counter>>

Review ==
    /\ kind # "proposal"
    /\ dialog.open /\ dialog.step = "form" /\ dialog.body # NoBody
    /\ dialog' = [dialog EXCEPT !.step = "confirm", !.told = "nothing"]
    /\ UNCHANGED <<kind, idem, opening, pending, requests, answers, effects,
                   submitted, counter>>

\* The corrections hide the button once an attempt is ambiguous.
Back ==
    /\ dialog.open /\ dialog.step = "confirm" /\ ~Busy
    /\ kind = "correction" => ~idem.ambiguous
    /\ dialog' = [dialog EXCEPT !.step = "form", !.told = "nothing"]
    /\ UNCHANGED <<kind, idem, opening, pending, requests, answers, effects,
                   submitted, counter>>

NewKey == counter + 1

\* runPayout: a key until success, a new one when the body differs from the
\* body of the last definitive failure.
PayoutKey(body) ==
    IF idem.key = NoKey THEN [idem EXCEPT !.key = NewKey]
    ELSE IF idem.body # NoBody /\ idem.body # body
         THEN [idem EXCEPT !.key = NewKey, !.body = NoBody]
         ELSE idem

\* resolveIdempotencyKey: the key is bound to the body it was first sent with.
Resolved(body) ==
    IF idem.key # NoKey /\ idem.body = body THEN idem
    ELSE [key |-> NewKey, body |-> body, ambiguous |-> FALSE]

\* Mutant: an ambiguous attempt does not lock the dialog to its body.
AmbiguousPendingIgnored(body) == FALSE

\* resolveIdempotencyKey: another body is refused while one is ambiguous.
AmbiguousPending(body) ==
    idem.ambiguous /\ ~(idem.key # NoKey /\ idem.body = body)

KeyFor(body) ==
    CASE kind = "payout" -> PayoutKey(body)
      [] kind \in {"correction", "proposal"} -> Resolved(body)
      [] OTHER -> idem

Submit ==
    LET body == dialog.body
        resolution == KeyFor(body)
        request == [number |-> counter + 1, key |-> resolution.key,
                    body |-> body, opening |-> opening]
    IN  /\ dialog.open /\ ~Busy /\ counter < MaxRequests /\ body # NoBody
        /\ dialog.step = IF kind = "proposal" THEN "form" ELSE "confirm"
        /\ kind \in {"correction", "proposal"} => ~AmbiguousPending(body)
        /\ idem' = resolution
        /\ pending' = request
        /\ requests' = requests \union {request}
        /\ submitted' = submitted \union {body}
        /\ counter' = counter + 1
        /\ dialog' = [dialog EXCEPT !.told = "nothing"]
        /\ UNCHANGED <<kind, opening, answers, effects>>

-----------------------------------------------------------------------------
(* What the services do with a request. A service that cannot tell whether *)
(* it committed answers a 5xx (errorHandler), and so does one that failed. *)

Same(e, r) == e.body = r.body

\* What a request finds recorded: an effect of its own key, or of its record.
Earlier(r) ==
    CASE kind \in {"payout", "proposal"} -> {e \in effects : e.key = r.key}
      [] kind \in {"reversal", "correction"} -> effects
      [] OTHER -> {}

Verdicts(r) ==
    Failures \union
       (IF Earlier(r) = {} THEN {"ok"}
        ELSE IF kind # "reversal" /\ \E e \in Earlier(r) : Same(e, r)
             THEN {"ok"} ELSE {"conflict"})

Handle(r) ==
    /\ requests' = requests \ {r}
    /\ \E v \in Verdicts(r) :
         /\ answers' = answers \union {[number |-> r.number, verdict |-> v]}
         /\ \/ v # "ok" /\ UNCHANGED effects
            \/ /\ v \in {"ok", "server"}
               /\ effects' = IF Earlier(r) = {} THEN effects \union {r} ELSE effects
    /\ UNCHANGED <<kind, dialog, idem, opening, pending, submitted, counter>>

\* Someone else corrects the same record first.
OtherActs ==
    /\ kind \in {"reversal", "correction"} /\ effects = {}
    /\ \E b \in Bodies : effects' = {[NoRequest EXCEPT !.body = b]}
    /\ UNCHANGED <<kind, dialog, idem, opening, pending, requests, answers,
                   submitted, counter>>

-----------------------------------------------------------------------------
(* What the network does. *)

AnswerArrives(a) ==
    /\ pending.number = a.number
    /\ answers' = answers \ {a}
    /\ Learn(a.verdict)
    /\ UNCHANGED <<kind, opening, requests, effects, submitted, counter>>

\* The call fails at the client; its request, or its answer, may be on the way.
CallFails ==
    /\ Busy
    /\ answers' = {a \in answers : a.number # pending.number}
    /\ Learn("transport")
    /\ UNCHANGED <<kind, opening, requests, effects, submitted, counter>>

Lost(r) ==
    /\ r.number # pending.number
    /\ requests' = requests \ {r}
    /\ UNCHANGED <<kind, dialog, idem, opening, pending, answers, effects,
                   submitted, counter>>

-----------------------------------------------------------------------------
DialogInit ==
    /\ kind \in Kinds
    /\ dialog = [Fresh EXCEPT !.open = FALSE]
    /\ idem = NoIdem /\ opening = 0 /\ pending = NoRequest
    /\ requests = {} /\ answers = {} /\ effects = {} /\ submitted = {}
    /\ counter = 0

DialogNext ==
    \/ Open
    \/ Close
    \/ \E b \in Bodies : Type(b)
    \/ Review
    \/ Back
    \/ Submit
    \/ \E r \in requests : Handle(r)
    \/ OtherActs
    \/ \E a \in answers : AnswerArrives(a)
    \/ CallFails
    \/ \E r \in requests : Lost(r)

DialogSpec == DialogInit /\ [][DialogNext]_dialogVars

-----------------------------------------------------------------------------
Request == [number : 0..MaxRequests, key : 0..MaxRequests,
            body : Bodies \union {NoBody}, opening : 0..MaxOpenings]

\* Types of the dialog's state, of its refs and of what travels.
DialogTypeOK ==
    /\ kind \in Kinds
    /\ dialog.step \in {"form", "confirm", "done", "stopped", "already",
                        "unconfirmed"}
    /\ idem \in [key : 0..MaxRequests, body : Bodies \union {NoBody},
                 ambiguous : BOOLEAN]
    /\ pending \in Request /\ requests \subseteq Request
    /\ effects \subseteq Request /\ opening \in 0..MaxOpenings

EffectsOf(o) == {e \in effects : e.opening = o}

\* One opening of a dialog records at most one thing, however its requests
\* and answers are lost, delayed and overtaken and whatever is edited between
\* two attempts (settlementSubmission.ts:22-24, "never a second settlement").
OneEffectPerOpening == \A o \in 1..opening : Cardinality(EffectsOf(o)) <= 1

=============================================================================
