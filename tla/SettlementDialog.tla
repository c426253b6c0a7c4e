-------------------------- MODULE SettlementDialog --------------------------
(***************************************************************************)
(* ProcessSettlementDialog, with which Finance settles a driver's cash:    *)
(* collections and their amounts are selected from the last position the   *)
(* server sent, reviewed against a fresh one, confirmed and posted, while  *)
(* other people settle, void and review the same collections and the       *)
(* network delays and loses calls. The server is createSettlement seen as  *)
(* one step, its position as getDriverOutstandingCollections shows it.     *)
(* The list fits on one page.                                              *)
(***************************************************************************)
EXTENDS Integers, FiniteSets, FiniteSetsExt, SequencesExt

CONSTANTS
    Drivers,        \* the drivers the dialog may be switched between
    Releases,       \* collections, numbered oldest first
    OwnerOf,        \* whose collection it is
    Differences,    \* collections that may start with a difference to review
    MaxDue,         \* bound: what a collection may owe
    MaxLoose,       \* bound: unattributed cash of a driver
    MaxVisits,      \* bound: how often the dialog is opened
    MaxPosts        \* bound: how often it posts

ASSUME ReleasesAssumption == Releases \subseteq Nat /\ IsFiniteSet(Releases)
ASSUME OwnersAssumption == OwnerOf \in [Releases -> Drivers]
ASSUME DueAssumption == MaxDue \in Nat \ {0} /\ MaxLoose \in Nat

VARIABLES
    books,      \* the server: what is owed, awaits review, is loose; activation
    settled,    \* the settlements this dialog's requests have recorded
    screen,     \* open, step, driver, checking, contractRequired
    draft,      \* the selection and its amounts, unattributed and legacy amount
    idemRef,    \* the key in hand, the body it is bound to, an ambiguous attempt
    position,   \* the last position of every driver the client has received
    fetch,      \* a fetch of a driver's position: none, sent, or its answer
    stale,      \* drivers whose cached position has been invalidated
    waiting,    \* of every driver: continuations awaiting its refetch, in order
    posting,    \* the post whose promise the dialog awaits
    posts,      \* posts on their way to the server
    replies,    \* answers on their way back
    visit,      \* how often the dialog was opened
    posted,     \* requests and keys handed out
    wish        \* what the operator last asked for, per collection

server == <<books, settled>>
settlementDialog == <<screen, draft, idemRef, visit, wish>>
wire == <<posting, posts, replies, posted>>
reads == <<position, fetch, stale, waiting>>
settlementVars == <<server, settlementDialog, wire, reads>>

Owned(d) == {r \in Releases : OwnerOf[r] = d}
NoKeyYet == [key |-> 0, body |-> <<>>, ambiguous |-> FALSE]
NoCall == [number |-> 0]
Empty(d) == [driver |-> d, chosen |-> <<>>, loose |-> 0, legacy |-> 0]

-----------------------------------------------------------------------------
(* The server. *)

Pending(d) == {r \in Owned(d) : books.status[r] = "PENDING"}
Attributed(d) == SumFunctionOnSet(books.due, Pending(d))

\* getDriverOutstandingCollections: one snapshot of the driver's position.
Snapshot(d) ==
    [items |-> [r \in {x \in Pending(d) : books.due[x] > 0} |->
                   [due |-> books.due[r], review |-> books.review[r]]],
     loose |-> books.loose[d],
     cash |-> books.loose[d] + Attributed(d)]

Total(body) == body.loose + body.legacy + SumFunction(body.alloc)

\* The collections of the request that cannot take their amounts.
Bad(body) ==
    {r \in DOMAIN body.alloc :
        r \notin Pending(body.driver) \/ body.alloc[r] > books.due[r]}

Verdict(body) ==
    IF Total(body) = 0 THEN [kind |-> "invalid"]
    ELSE IF body.format = "LEGACY"
    THEN IF books.active \/ Pending(body.driver) # {} THEN [kind |-> "contract"]
         ELSE IF body.legacy > books.loose[body.driver] THEN [kind |-> "cash"]
         ELSE [kind |-> "ok"]
    ELSE IF Bad(body) # {}
    THEN LET r == Min(Bad(body))
         IN  [kind |-> "allocation", release |-> r,
              gone |-> r \notin Pending(body.driver)]
    ELSE IF body.loose > books.loose[body.driver] THEN [kind |-> "loose"]
    ELSE [kind |-> "ok"]

Freed(b) ==
    [b EXCEPT !.status = [r \in Releases |->
        IF b.status[r] = "PENDING" /\ b.due[r] = 0 /\ ~b.review[r]
        THEN "RELEASED" ELSE b.status[r]]]

Debited(body) ==
    Freed([books EXCEPT
        !.loose[body.driver] = @ - body.loose - body.legacy,
        !.due = [r \in Releases |-> IF r \in DOMAIN body.alloc
                                    THEN @[r] - body.alloc[r] ELSE @[r]]])

Replayed(r) == {s \in settled : s.key = r.key}

\* createSettlement: a refusal of the payment method, before the replay is
\* looked up; a replay, a refusal, or the settlement. Whatever it did, the
\* transaction may outlive its timeout and the answer be a 5xx.
CreateSettlement(r) ==
    /\ posts' = posts \ {r}
    /\ LET verdict == IF Replayed(r) = {} THEN Verdict(r.body)
                      ELSE IF \E s \in Replayed(r) : s.body = r.body
                           THEN [kind |-> "ok"] ELSE [kind |-> "conflict"]
       IN  \/ /\ replies' = replies \union
                    {[number |-> r.number, verdict |-> [kind |-> "invalid"]]}
              /\ UNCHANGED server
           \/ /\ replies' = replies \union {[number |-> r.number, verdict |-> verdict]}
              /\ IF verdict.kind = "ok" /\ Replayed(r) = {}
                 THEN /\ books' = Debited(r.body)
                      /\ settled' = settled \union {r}
                 ELSE UNCHANGED server
           \/ /\ replies' = replies \union
                    {[number |-> r.number, verdict |-> [kind |-> "server"]]}
              /\ IF verdict.kind = "ok" /\ Replayed(r) = {}
                 THEN \/ books' = Debited(r.body) /\ settled' = settled \union {r}
                      \/ UNCHANGED server
                 ELSE UNCHANGED server
    /\ UNCHANGED <<settlementDialog, posting, posted, reads>>

\* Someone else settles part of a collection, voids it or clears its review.
OthersActOn(r) ==
    /\ books.status[r] = "PENDING"
    /\ \/ /\ books.due[r] > 0
          /\ books' = Freed([books EXCEPT !.due[r] = @ - 1])
       \/ /\ books.due[r] > 0
          /\ books' = [books EXCEPT !.status[r] = "VOIDED", !.due[r] = 0]
       \/ /\ books.review[r]
          /\ books' = Freed([books EXCEPT !.review[r] = FALSE])
    /\ UNCHANGED <<settled, settlementDialog, wire, reads>>

OthersTake(d) ==
    /\ books.loose[d] > 0
    /\ books' = [books EXCEPT !.loose[d] = @ - 1]
    /\ UNCHANGED <<settled, settlementDialog, wire, reads>>

-----------------------------------------------------------------------------
(* The allocation model of the dialog. *)

Known(d) == position[d] # NoCall

\* chooseSettlementFormat.
Format(d, required) ==
    IF required THEN "ALLOCATION"
    ELSE IF Known(d) /\ DOMAIN position[d].items # {} THEN "ALLOCATION"
    ELSE "LEGACY"

Current == Format(screen.driver, screen.required)
Allocating == Current = "ALLOCATION"

\* validateAllocationDraft: the amounts against the rows they were chosen from.
RowsValid(dr) ==
    \A r \in DOMAIN dr.chosen : dr.chosen[r].amount \in 1..dr.chosen[r].due

\* Mutant: the unattributed amount is checked against the cash held only.
LooseUnchecked(dr, pos) == TRUE

LooseValid(dr, pos) == dr.loose <= pos.loose

BodyOf(dr, format) ==
    [format |-> format, driver |-> IF format = "LEGACY" THEN screen.driver ELSE dr.driver,
     alloc |-> IF format = "LEGACY" THEN <<>>
               ELSE [r \in DOMAIN dr.chosen |-> dr.chosen[r].amount],
     loose |-> IF format = "LEGACY" THEN 0 ELSE dr.loose,
     legacy |-> IF format = "LEGACY" THEN dr.legacy ELSE 0]

Valid(dr, pos) ==
    /\ RowsValid(dr) /\ LooseValid(dr, pos)
    /\ Total(BodyOf(dr, "ALLOCATION")) \in 1..pos.cash

\* reconcileDraft: rows that left the list are dropped, the others are renewed.
Reconciled(dr, d, pos) ==
    IF dr.driver # d THEN Empty(d)
    ELSE [dr EXCEPT !.chosen =
             [r \in DOMAIN dr.chosen \intersect DOMAIN pos.items |->
                 [due |-> pos.items[r].due, review |-> pos.items[r].review,
                  amount |-> dr.chosen[r].amount]]]

\* staleMessage: what was reviewed is not what is outstanding now.
Moved(dr, d, pos) ==
    IF dr.driver # d THEN DOMAIN dr.chosen # {}
    ELSE \E r \in DOMAIN dr.chosen :
            \/ r \notin DOMAIN pos.items
            \/ dr.chosen[r].due # pos.items[r].due
            \/ dr.chosen[r].review # pos.items[r].review
            \/ dr.chosen[r].amount > pos.items[r].due

\* preselectOldestFirst: whole rows, oldest first, the last one in part.
Preselected(pos, limit) ==
    LET due == [r \in DOMAIN pos.items |-> pos.items[r].due]
        before(r) == SumFunctionOnSet(due, {x \in DOMAIN due : x < r})
        left(r) == limit - before(r)
        rows == {r \in DOMAIN pos.items : limit = 0 \/ left(r) > 0}
    IN  [r \in rows |->
           [due |-> pos.items[r].due, review |-> pos.items[r].review,
            amount |-> IF limit = 0 \/ left(r) >= pos.items[r].due
                       THEN pos.items[r].due ELSE left(r)]]

Wanted(dr) ==
    [r \in Releases |-> IF r \in DOMAIN dr.chosen THEN dr.chosen[r].amount ELSE 0]

-----------------------------------------------------------------------------
(* What the operator does. *)

Posting == posting # NoCall
Fetching(d) == fetch[d] # NoCall
Reviewing == \E d \in Drivers : \E w \in Range(waiting[d]) : w.why = "review"
Sent == [number |-> 1]

\* A refetch joins the fetch that is on its way.
Asked(d) == IF Fetching(d) THEN fetch ELSE [fetch EXCEPT ![d] = Sent]

OnForm == screen.open /\ screen.step = "form"

Edit(dr) ==
    /\ draft' = dr /\ wish' = Wanted(dr)
    /\ UNCHANGED <<server, screen, idemRef, visit, wire, reads>>

OpenSettlement ==
    /\ ~screen.open /\ visit < MaxVisits
    /\ visit' = visit + 1
    /\ \E d \in Drivers :
         /\ screen' = [screen EXCEPT !.open = TRUE, !.step = "form", !.driver = d,
                                     !.required = FALSE]
         /\ draft' = Empty(d) /\ wish' = Wanted(Empty(d))
         /\ fetch' = Asked(d)
    /\ idemRef' = NoKeyYet
    /\ UNCHANGED <<server, wire, position, stale, waiting>>

CloseSettlement ==
    /\ screen.open /\ ~Posting
    /\ screen' = [screen EXCEPT !.open = FALSE]
    /\ UNCHANGED <<server, draft, idemRef, visit, wish, wire, reads>>

\* The effect on driverId: selections never carry over.
SwitchDriver(d) ==
    /\ OnForm /\ d # screen.driver
    /\ screen' = [screen EXCEPT !.driver = d, !.required = FALSE]
    /\ draft' = IF draft.driver = d THEN draft ELSE Empty(d)
    /\ wish' = Wanted(draft')
    /\ fetch' = Asked(d)
    /\ UNCHANGED <<server, idemRef, visit, wire, position, stale, waiting>>

Select(r) ==
    /\ OnForm /\ ~screen.checking /\ Known(screen.driver) /\ Allocating
    /\ r \in DOMAIN position[screen.driver].items /\ r \notin DOMAIN draft.chosen
    /\ LET item == position[screen.driver].items[r]
       IN  Edit([draft EXCEPT !.chosen =
                    [x \in DOMAIN @ \union {r} |->
                        IF x = r THEN [due |-> item.due, review |-> item.review,
                                       amount |-> item.due]
                        ELSE @[x]]])

SetAmount(r, n) ==
    /\ OnForm /\ ~screen.checking /\ Allocating
    /\ r \in DOMAIN draft.chosen /\ draft.chosen[r].amount # n
    /\ Edit([draft EXCEPT !.chosen[r].amount = n])

Deselect(r) ==
    /\ OnForm /\ ~screen.checking /\ Allocating /\ r \in DOMAIN draft.chosen
    /\ Edit([draft EXCEPT !.chosen = [x \in DOMAIN @ \ {r} |-> @[x]]])

Preselect(limit) ==
    /\ OnForm /\ ~screen.checking /\ Known(screen.driver) /\ Allocating
    /\ Edit([draft EXCEPT !.chosen = Preselected(position[screen.driver], limit)])

TypeCash(n) ==
    /\ OnForm /\ ~screen.checking /\ Known(screen.driver)
    /\ draft' = IF Allocating THEN [draft EXCEPT !.loose = n]
                ELSE [draft EXCEPT !.legacy = n]
    /\ draft' # draft
    /\ UNCHANGED <<server, screen, idemRef, visit, wish, wire, reads>>

\* goToConfirm: a legacy amount is checked at once, a selection is checked and
\* then reconciled with a fresh position before it is shown for confirmation.
GoToConfirm ==
    LET d == screen.driver
    IN  /\ OnForm /\ ~screen.checking /\ ~Posting /\ Known(d) /\ position[d].cash > 0
        /\ IF ~Allocating
           THEN /\ draft.legacy \in 1..position[d].cash
                /\ screen' = [screen EXCEPT !.step = "confirm"]
                /\ UNCHANGED <<fetch, waiting>>
           ELSE /\ Valid(draft, position[d])
                /\ screen' = [screen EXCEPT !.checking = TRUE]
                /\ fetch' = Asked(d)
                /\ waiting' = [waiting EXCEPT ![d] =
                     Append(@, [why |-> "review", driver |-> d, draft |-> draft])]
        /\ UNCHANGED <<server, draft, idemRef, visit, wish, wire, position, stale>>

BackToForm ==
    /\ screen.open /\ screen.step = "confirm" /\ ~Posting /\ ~idemRef.ambiguous
    /\ screen' = [screen EXCEPT !.step = "form"]
    /\ UNCHANGED <<server, draft, idemRef, visit, wish, wire, reads>>

\* resolveIdempotencyKey.
ResolvedKey(body) ==
    IF idemRef.key # 0 /\ idemRef.body = body THEN idemRef
    ELSE [key |-> posted + 1, body |-> body, ambiguous |-> FALSE]

KeyLocked(body) == idemRef.ambiguous /\ ~(idemRef.key # 0 /\ idemRef.body = body)

\* runSettlement up to the call.
RunSettlement ==
    LET body == BodyOf(draft, Current)
        call == [number |-> posted + 1, key |-> ResolvedKey(body).key,
                 body |-> body, opening |-> visit]
    IN  /\ screen.open /\ screen.step = "confirm" /\ ~Posting /\ posted < MaxPosts
        /\ ~(Allocating /\ Fetching(screen.driver))
        /\ ~KeyLocked(body)
        /\ idemRef' = ResolvedKey(body)
        /\ posting' = call /\ posts' = posts \union {call}
        /\ posted' = posted + 1
        /\ UNCHANGED <<server, screen, draft, visit, wish, replies, reads>>

-----------------------------------------------------------------------------
(* What the answers do. *)

\* applyAllocationRejection: a collection that is gone leaves the selection.
Rejected(dr, verdict) ==
    IF verdict.kind = "allocation" /\ verdict.gone
    THEN [dr EXCEPT !.chosen = [r \in DOMAIN @ \ {verdict.release} |-> @[r]]]
    ELSE dr

\* Mutant: a failed call is taken for a refusal.
AmbiguousWhenServed(verdict) == verdict.kind = "server"

Ambiguous(verdict) == verdict.kind \in {"transport", "server"}

Refreshing(verdict) ==
    verdict.kind \in {"allocation", "loose", "contract", "cash", "conflict"}

Concluded(verdict) ==
    LET d == posting.body.driver
        next == Rejected(draft, verdict)
    IN  /\ posting' = NoCall
        /\ stale' = stale \union {d}
        /\ CASE verdict.kind = "ok" ->
                  /\ screen' = [screen EXCEPT !.step = "done"]
                  /\ idemRef' = NoKeyYet
                  /\ UNCHANGED <<draft, wish, fetch, waiting>>
             [] Ambiguous(verdict) ->
                  /\ idemRef' = [idemRef EXCEPT !.ambiguous = TRUE]
                  /\ UNCHANGED <<screen, draft, wish, fetch, waiting>>
             [] OTHER ->
                  /\ screen' = [screen EXCEPT !.step = "form",
                        !.required = @ \/ verdict.kind = "contract"]
                  /\ draft' = next
                  /\ wish' = [r \in Releases |->
                                IF r \in DOMAIN next.chosen THEN wish[r] ELSE 0]
                  /\ UNCHANGED idemRef
                  /\ IF ~Refreshing(verdict) THEN UNCHANGED <<fetch, waiting>>
                     ELSE /\ fetch' = Asked(screen.driver)
                          /\ waiting' = IF ~Allocating THEN waiting
                                ELSE [waiting EXCEPT ![screen.driver] =
                                   Append(@, [why |-> "refused", driver |-> screen.driver,
                                              draft |-> next])]
        /\ UNCHANGED <<visit, position>>

PostAnswered(a) ==
    /\ posting.number = a.number
    /\ replies' = replies \ {a}
    /\ Concluded(a.verdict)
    /\ UNCHANGED <<server, posts, posted>>

\* The call fails at the client; its request, or its answer, may be on the way.
PostFails ==
    /\ Posting
    /\ replies' = {a \in replies : a.number # posting.number}
    /\ Concluded([kind |-> "transport"])
    /\ UNCHANGED <<server, posts, posted>>

PostLost(r) ==
    /\ r.number # posting.number
    /\ posts' = posts \ {r}
    /\ UNCHANGED <<server, settlementDialog, posting, replies, posted, reads>>

-----------------------------------------------------------------------------
(* The position query and what awaits it. *)

\* The cache refetches what a settlement invalidated while it is subscribed.
Refetch(d) ==
    /\ d \in stale /\ ~Fetching(d)
    /\ stale' = stale \ {d}
    /\ fetch' = IF screen.open /\ screen.driver = d THEN Asked(d) ELSE fetch
    /\ UNCHANGED <<server, settlementDialog, wire, position, waiting>>

ReadPosition(d) ==
    /\ fetch[d] = Sent
    /\ fetch' = [fetch EXCEPT ![d] = Snapshot(d)]
    /\ UNCHANGED <<server, settlementDialog, wire, position, stale, waiting>>

\* The effect on position: a preview that has moved goes back to the form.
Distrusted(pos) ==
    /\ screen.step = "confirm" /\ ~Posting /\ ~idemRef.ambiguous
    /\ screen.required \/ DOMAIN pos.items # {}
    /\ Moved(draft, screen.driver, pos)

Seen(d, pos) ==
    IF d = screen.driver /\ Distrusted(pos)
    THEN [screen |-> [screen EXCEPT !.step = "form"],
          draft |-> Reconciled(draft, d, pos)]
    ELSE [screen |-> screen, draft |-> draft]

\* What goToConfirm and runSettlement do after their await.
Resumed(view, w, pos) ==
    IF w.why = "refused"
    THEN [view EXCEPT !.draft = Reconciled(w.draft, w.driver, pos)]
    ELSE IF Moved(w.draft, w.driver, pos)
    THEN [view EXCEPT !.screen.checking = FALSE,
                      !.draft = Reconciled(w.draft, w.driver, pos)]
    ELSE [view EXCEPT !.screen.checking = FALSE,
            !.screen.step = IF Valid(Reconciled(w.draft, w.driver, pos), pos)
                            THEN "confirm" ELSE @]

AllResumed(view, continuations, pos) ==
    FoldLeft(LAMBDA v, w : Resumed(v, w, pos), view, continuations)

Arrive(d) ==
    /\ Fetching(d) /\ fetch[d] # Sent
    /\ LET pos == fetch[d]
           view == AllResumed(Seen(d, pos), waiting[d], pos)
       IN  /\ position' = [position EXCEPT ![d] = pos]
           /\ screen' = view.screen
           /\ draft' = view.draft
    /\ waiting' = [waiting EXCEPT ![d] = <<>>]
    /\ fetch' = [fetch EXCEPT ![d] = NoCall]
    /\ UNCHANGED <<server, idemRef, visit, wish, wire, stale>>

FetchFails(d) ==
    /\ Fetching(d)
    /\ fetch' = [fetch EXCEPT ![d] = NoCall]
    /\ waiting' = [waiting EXCEPT ![d] = <<>>]
    /\ screen' = [screen EXCEPT !.checking = @ /\ Reviewing']
    /\ UNCHANGED <<server, draft, idemRef, visit, wish, wire, position, stale>>

-----------------------------------------------------------------------------
SettlementInit ==
    /\ books \in [due : [Releases -> 1..MaxDue], status : {[r \in Releases |-> "PENDING"]},
                  review : {f \in [Releases -> BOOLEAN] :
                              \A r \in Releases : f[r] => r \in Differences},
                  loose : [Drivers -> 0..MaxLoose],
                  active : BOOLEAN]
    /\ settled = {}
    /\ \E d \in Drivers :
         /\ screen = [open |-> FALSE, step |-> "form", driver |-> d,
                      checking |-> FALSE, required |-> FALSE]
         /\ draft = Empty(d)
    /\ idemRef = NoKeyYet /\ visit = 0 /\ posted = 0
    /\ wish = [r \in Releases |-> 0]
    /\ position = [d \in Drivers |-> NoCall] /\ fetch = [d \in Drivers |-> NoCall]
    /\ stale = {} /\ waiting = [d \in Drivers |-> <<>>]
    /\ posting = NoCall /\ posts = {} /\ replies = {}

SettlementNext ==
    \/ OpenSettlement \/ CloseSettlement \/ GoToConfirm \/ BackToForm
    \/ RunSettlement \/ PostFails
    \/ \E r \in Releases : Select(r) \/ Deselect(r) \/ OthersActOn(r)
    \/ \E r \in Releases, n \in 1..MaxDue : SetAmount(r, n)
    \/ \E n \in 0..MaxDue : Preselect(n)
    \/ \E n \in 0..MaxLoose : TypeCash(n)
    \/ \E d \in Drivers : \/ SwitchDriver(d) \/ OthersTake(d) \/ Refetch(d)
                          \/ ReadPosition(d) \/ Arrive(d) \/ FetchFails(d)
    \/ \E r \in posts : CreateSettlement(r) \/ PostLost(r)
    \/ \E a \in replies : PostAnswered(a)

SettlementSpec == SettlementInit /\ [][SettlementNext]_settlementVars

-----------------------------------------------------------------------------
\* Types of the dialog and of the server; nothing is settled below zero.
TypeOK ==
    /\ books.due \in [Releases -> 0..MaxDue]
    /\ books.loose \in [Drivers -> 0..MaxLoose]
    /\ screen.step \in {"form", "confirm", "done"} /\ screen.driver \in Drivers
    /\ DOMAIN draft.chosen \subseteq Releases
    /\ idemRef.key \in 0..MaxPosts

\* One opening of the dialog records at most one settlement, also when an
\* ambiguous attempt is followed by refusals, edits and fresh positions that
\* change what the dialog would post (settlementSubmission.ts:23-24).
OneSettlementPerOpening ==
    \A o \in 1..visit : Cardinality({s \in settled : s.opening = o}) <= 1

RowsKnown(dr, pos) ==
    \A r \in DOMAIN dr.chosen :
        r \in DOMAIN pos.items /\ dr.chosen[r].due = pos.items[r].due

\* The dialog's validation mirrors the server's: a selection that is valid
\* against the server's present position is not refused.
ValidIsAccepted ==
    LET d == screen.driver
    IN  (/\ OnForm /\ Allocating /\ draft.driver = d /\ Known(d)
         /\ position[d] = Snapshot(d)
         /\ RowsKnown(draft, position[d]) /\ Valid(draft, position[d]))
        => Verdict(BodyOf(draft, "ALLOCATION")).kind = "ok"

=============================================================================
