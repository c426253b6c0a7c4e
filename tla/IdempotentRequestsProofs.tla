----------------------- MODULE IdempotentRequestsProofs -----------------------
(***************************************************************************)
(* Proofs about IdempotentRequests for any number of requests, keys, locks *)
(* and funds, and for every hash LockOf.  The inductive invariant is       *)
(* Exclusive: a request inside its transaction holds the lock its key      *)
(* hashes to, so nobody else can have written the row it found missing.    *)
(*                                                                         *)
(* The second part is about the dialogs that send such requests, for any   *)
(* number of openings and submissions: what may still be recorded of one   *)
(* opening has the key the dialog holds (KeyIsKept).                       *)
(*                                                                         *)
(* The third is about the dialog that settles a driver's cash, for any     *)
(* drivers, collections, visits and posts: what may still be settled of a  *)
(* visit has the key the dialog holds (SettlementInductive), whatever the  *)
(* positions it awaits make of its selection, and every amount it holds,   *)
(* shows or posts is a number (SettlementTyped).                           *)
(***************************************************************************)
EXTENDS IdempotentRequests, MoneyDialogs, SettlementDialog, SumTheorems,
        FiniteSetTheorems, SequenceTheorems, TLAPS

Staged(r) ==
    /\ asked[r] = Nothing <=> pc[r] = "idle"
    /\ outcome[r] = "NONE" <=> pc[r] # "done"
    /\ pc[r] \notin {"answer", "done"} => tries[r] < MaxAttempts

HoldsKey(r) == pc[r] \in Locked => keyLock[LockOf[KeyOf(r)]] = r

HoldsFund(r) ==
    pc[r] = "commit" => /\ rowLock[FundOf(r)] = r
                        /\ available[FundOf(r)] >= Amount(r)

Unrecorded(r) == pc[r] \in {"apply", "commit"} => recorded[KeyOf(r)] = Nothing

Answerable(r) == pc[r] = "answer" => recorded[KeyOf(r)] # Nothing

Exclusive ==
    /\ TypeInvariant
    /\ NeverOverdrawn
    /\ \A r \in Requests :
          Staged(r) /\ HoldsKey(r) /\ HoldsFund(r) /\ Unrecorded(r) /\ Answerable(r)

USE DEF Stages, Locked, Outcomes

-----------------------------------------------------------------------------

\* A request that was received asks for something of its types.
LEMMA AskedTyping ==
    ASSUME TypeInvariant, NEW r \in Requests, Staged(r), pc[r] # "idle"
    PROVE  /\ asked[r] \in Inputs
           /\ KeyOf(r) \in Keys /\ FundOf(r) \in Funds
           /\ Amount(r) \in Nat
           /\ LockOf[KeyOf(r)] \in Locks
BY KeysAssumption, BoundsAssumption
   DEF TypeInvariant, Staged, Inputs, KeyOf, FundOf, Amount

\* Ending a transaction frees the locks of that request and of no other.
LEMMA EndTyping ==
    ASSUME TypeInvariant, NEW r \in Requests, EndTransaction(r)
    PROVE  /\ keyLock' \in [Locks -> Requests \cup {Nobody}]
           /\ rowLock' \in [Funds -> Requests \cup {Nobody}]
           /\ \A l \in Locks : keyLock[l] # r => keyLock'[l] = keyLock[l]
           /\ \A f \in Funds : rowLock[f] # r => rowLock'[f] = rowLock[f]
BY DEF TypeInvariant, EndTransaction

LEMMA InitExclusive == Init => Exclusive
<1>1. Nothing \notin Inputs /\ Nobody \notin Requests
    BY NamesAssumption
<1> QED
    BY <1>1, BoundsAssumption
       DEF Init, Exclusive, TypeInvariant, NeverOverdrawn, Staged, HoldsKey, HoldsFund,
           Unrecorded, Answerable

\* Leaving the transaction without a write, to try again or to answer a replay.
LEMMA LeaveExclusive ==
    ASSUME Exclusive, NEW r \in Requests, pc[r] \in Locked, EndTransaction(r),
           Goto(r, "lock") \/ (Goto(r, "answer") /\ recorded[KeyOf(r)] # Nothing),
           tries' \in [Requests -> 0..MaxAttempts], tries'[r] < MaxAttempts,
           \A s \in Requests \ {r} : tries'[s] = tries[s],
           UNCHANGED <<database, asked, outcome>>
    PROVE  Exclusive'
<1> USE DEF Exclusive, Staged, HoldsKey, HoldsFund, Unrecorded, Answerable,
            KeyOf, FundOf, Amount
<1>1. TypeInvariant'
    BY EndTyping DEF TypeInvariant, Goto, database
<1>2. NeverOverdrawn'
    BY DEF NeverOverdrawn, database
<1>3. ASSUME NEW s \in Requests
      PROVE  Staged(s)' /\ HoldsKey(s)' /\ HoldsFund(s)' /\ Unrecorded(s)' /\ Answerable(s)'
  <2>1. CASE s = r
    BY <2>1 DEF TypeInvariant, Goto, database
  <2>2. CASE s # r
    <3>1. pc'[s] = pc[s] /\ asked'[s] = asked[s] /\ outcome'[s] = outcome[s]
        BY <2>2 DEF TypeInvariant, Goto
    <3>2. pc[s] # "idle" => LockOf[KeyOf(s)] \in Locks /\ FundOf(s) \in Funds
        BY AskedTyping
    <3> QED
        BY <2>2, <3>1, <3>2, EndTyping DEF database
  <2> QED
    BY <2>1, <2>2
<1> QED
    BY <1>1, <1>2, <1>3

\* Every step keeps the invariant.  Only Commit writes a row, and only while
\* its request holds the key's lock: no other request of that key is then
\* between its second read and its commit.
LEMMA StepExclusive == Exclusive /\ [Next]_vars => Exclusive'
<1> SUFFICES ASSUME Exclusive, [Next]_vars
             PROVE  Exclusive'
    OBVIOUS
<1> USE NamesAssumption, KeysAssumption, BoundsAssumption
    DEF Exclusive, TypeInvariant, NeverOverdrawn, Staged, HoldsKey, HoldsFund,
        Unrecorded, Answerable, KeyOf, FundOf, Amount
<1>1. ASSUME NEW r \in Requests, Receive(r)
      PROVE  Exclusive'
    BY <1>1 DEF Receive, Goto, database
<1>2. ASSUME NEW r \in Requests, FastPath(r)
      PROVE  Exclusive'
    BY <1>2 DEF FastPath, Goto, database
<1>3. ASSUME NEW r \in Requests, Lock(r)
      PROVE  Exclusive'
    BY <1>3, AskedTyping DEF Lock, Goto, database
<1>4. ASSUME NEW r \in Requests, Recheck(r)
      PROVE  Exclusive'
  <2>1. CASE recorded[KeyOf(r)] = Nothing
    BY <1>4, <2>1 DEF Recheck, Goto, database
  <2>2. CASE recorded[KeyOf(r)] # Nothing
    <3>1. /\ pc[r] = "recheck" /\ Goto(r, "answer") /\ EndTransaction(r)
          /\ UNCHANGED <<database, asked, tries, outcome>>
        BY <1>4, <2>2 DEF Recheck
    <3> QED
        BY <3>1, <2>2, LeaveExclusive
  <2> QED
    BY <2>1, <2>2
<1>5. ASSUME NEW r \in Requests, Apply(r)
      PROVE  Exclusive'
    BY <1>5, AskedTyping DEF Apply, Goto, database
<1>6. ASSUME NEW r \in Requests, Commit(r)
      PROVE  Exclusive'
  <2>1. /\ pc[r] = "commit" /\ asked[r] \in Inputs
        /\ KeyOf(r) \in Keys /\ FundOf(r) \in Funds /\ Amount(r) \in Nat
        /\ recorded' = [recorded EXCEPT ![KeyOf(r)] = asked[r]]
        /\ available' = [available EXCEPT ![FundOf(r)] = @ - Amount(r)]
        /\ Goto(r, "answer")
        /\ UNCHANGED <<reversed, credited, asked, tries, outcome>>
    BY <1>6, AskedTyping DEF Commit
  <2>2. EndTransaction(r)
    BY <1>6 DEF Commit
  <2>3. TypeInvariant'
    BY <2>1, <2>2, EndTyping DEF Goto
  <2>4. NeverOverdrawn'
    BY <2>1
  <2>5. ASSUME NEW s \in Requests
        PROVE  Staged(s)' /\ HoldsKey(s)' /\ HoldsFund(s)' /\ Unrecorded(s)' /\ Answerable(s)'
    <3>1. CASE s = r
      BY <3>1, <2>1 DEF Goto
    <3>2. CASE s # r
      <4>1. pc'[s] = pc[s] /\ asked'[s] = asked[s] /\ outcome'[s] = outcome[s]
        BY <3>2, <2>1 DEF Goto
      <4>2. pc[s] # "idle" => /\ KeyOf(s) \in Keys /\ LockOf[KeyOf(s)] \in Locks
                              /\ FundOf(s) \in Funds /\ Amount(s) \in Nat
        BY AskedTyping
      <4>3. Staged(s)' /\ HoldsKey(s)'
        BY <3>2, <4>1, <4>2, <2>1, <2>2, EndTyping
      <4>4. HoldsFund(s)'
        <5>1. pc[s] = "commit" => rowLock[FundOf(s)] = s /\ FundOf(s) # FundOf(r)
          BY <3>2, <2>1
        <5>2. pc[s] = "commit" => available'[FundOf(s)] = available[FundOf(s)]
          BY <5>1, <4>2, <2>1
        <5> QED
          BY <3>2, <4>1, <4>2, <5>1, <5>2, <2>1, <2>2, EndTyping
      <4>5. Unrecorded(s)'
        BY <3>2, <4>1, <4>2, <2>1
      <4>6. Answerable(s)'
        BY <4>1, <4>2, <2>1
      <4> QED
        BY <4>3, <4>4, <4>5, <4>6
    <3> QED
      BY <3>1, <3>2
  <2> QED
    BY <2>3, <2>4, <2>5
<1>7. ASSUME NEW r \in Requests, NEW a \in Outcomes \ {"NONE"}, End(r, a),
             pc[r] # "idle",
             tries' \in [Requests -> 0..MaxAttempts],
             \A s \in Requests \ {r} : tries'[s] = tries[s],
             UNCHANGED <<database, asked>>
      PROVE  Exclusive'
    BY <1>7, AskedTyping DEF End, Goto, EndTransaction, database
<1>8. ASSUME NEW r \in Requests, NumberTaken(r)
      PROVE  Exclusive'
  <2>1. /\ pc[r] \in Locked
        /\ tries' = [tries EXCEPT ![r] = @ + 1]
        /\ UNCHANGED <<database, asked>>
    BY <1>8 DEF NumberTaken
  <2>2. CASE tries[r] + 1 < MaxAttempts
    <3>1. Goto(r, "lock") /\ EndTransaction(r) /\ UNCHANGED outcome
        BY <1>8, <2>2 DEF NumberTaken
    <3>2. /\ tries' \in [Requests -> 0..MaxAttempts] /\ tries'[r] < MaxAttempts
          /\ \A s \in Requests \ {r} : tries'[s] = tries[s]
        BY <2>1, <2>2
    <3> QED
        BY <2>1, <3>1, <3>2, LeaveExclusive
  <2>3. CASE ~(tries[r] + 1 < MaxAttempts)
    <3>1. End(r, "FAILED")
        BY <1>8, <2>3 DEF NumberTaken
    <3>2. /\ tries' \in [Requests -> 0..MaxAttempts]
          /\ \A s \in Requests \ {r} : tries'[s] = tries[s]
        BY <2>1
    <3> QED
        BY <2>1, <3>1, <3>2, <1>7
  <2> QED
    BY <2>2, <2>3
<1>9. ASSUME NEW r \in Requests, PolicyRefuses(r) \/ Refuse(r) \/ Answer(r) \/ Abort(r)
      PROVE  Exclusive'
    BY <1>7, <1>9 DEF PolicyRefuses, Refuse, Answer, Abort
<1>10. ASSUME NEW k \in Keys, ReverseMovement(k)
       PROVE  Exclusive'
    BY <1>10 DEF ReverseMovement, Inputs
<1>11. ASSUME NEW f \in Funds, Credit(f) \/ Debit(f)
       PROVE  Exclusive'
  <2>1. CASE Credit(f)
    BY <2>1 DEF Credit
  <2>2. CASE Debit(f)
    BY <2>2 DEF Debit
  <2> QED
    BY <1>11, <2>1, <2>2
<1>12. CASE UNCHANGED vars
    BY <1>12 DEF vars
<1> QED
    BY <1>1, <1>2, <1>3, <1>4, <1>5, <1>6, <1>8, <1>9, <1>10, <1>11, <1>12
       DEF Next, Proceed

LEMMA AlwaysExclusive == Spec => []Exclusive
BY InitExclusive, StepExclusive, PTL DEF Spec

-----------------------------------------------------------------------------

\* Every variable has its type in every behaviour, and no request spends more
\* than MAX_IDENTIFIER_ATTEMPTS numbers.
THEOREM TypeCorrect == Spec => []TypeInvariant
<1>1. Exclusive => TypeInvariant
    BY DEF Exclusive
<1> QED
    BY <1>1, AlwaysExclusive, PTL

\* Whatever hash the database uses for the advisory locks, no transaction
\* reaches its insert with the key already taken: the "structurally
\* impossible" branch of createPayout and createSettlement is never needed.
THEOREM NoCollision == Spec => []KeysNeverCollide
<1>1. Exclusive => KeysNeverCollide
    BY DEF Exclusive, Unrecorded, KeysNeverCollide
<1> QED
    BY <1>1, AlwaysExclusive, PTL

\* Any number of concurrent payouts or settlements leaves every fund at zero
\* or above.
THEOREM NotOverdrawn == Spec => []NeverOverdrawn
<1>1. Exclusive => NeverOverdrawn
    BY DEF Exclusive
<1> QED
    BY <1>1, AlwaysExclusive, PTL

-----------------------------------------------------------------------------
(* The handlers implement the promise of an Idempotency-Key *)

LEMMA StepPromised == Exclusive /\ [Next]_vars => [Promise!Next]_<<recorded, asked, outcome>>
<1> SUFFICES ASSUME Exclusive, [Next]_vars
             PROVE  [Promise!Next]_<<recorded, asked, outcome>>
    OBVIOUS
<1> USE NamesAssumption DEF Exclusive, Staged
<1>1. ASSUME NEW r \in Requests, Receive(r)
      PROVE  Promise!Ask(r)
    BY <1>1 DEF Receive, database, Promise!Ask
<1>2. ASSUME NEW r \in Requests, Commit(r)
      PROVE  Promise!Perform(r)
    BY <1>2 DEF Commit, Unrecorded, KeyOf, Promise!Perform, Promise!Open
<1>3. ASSUME NEW r \in Requests, NEW a \in Outcomes, pc[r] \notin {"idle", "done"}, End(r, a),
             Promise!Truthful(r, a), UNCHANGED <<database, asked>>
      PROVE  Promise!Answer(r)
    BY <1>3 DEF End, database, Promise!Answer, Promise!Open, Promise!Outcomes
<1>4. ASSUME NEW r \in Requests, PolicyRefuses(r) \/ Refuse(r)
      PROVE  Promise!Answer(r)
    BY <1>3, <1>4 DEF PolicyRefuses, Refuse, Unrecorded, KeyOf, Promise!Truthful
<1>5. ASSUME NEW r \in Requests, Answer(r)
      PROVE  Promise!Answer(r)
    BY <1>3, <1>5 DEF Answer, Answerable, KeyOf, Promise!Truthful
<1>6. ASSUME NEW r \in Requests, Abort(r)
      PROVE  Promise!Answer(r)
    BY <1>3, <1>6 DEF Abort, Promise!Truthful
<1>7. ASSUME NEW r \in Requests, NumberTaken(r)
      PROVE  Promise!Answer(r) \/ UNCHANGED <<recorded, asked, outcome>>
  <2>1. pc[r] \in Locked /\ UNCHANGED <<database, asked>>
    BY <1>7 DEF NumberTaken
  <2>2. UNCHANGED outcome \/ End(r, "FAILED")
    BY <1>7 DEF NumberTaken
  <2>3. CASE End(r, "FAILED")
    BY <1>3, <2>1, <2>3 DEF Promise!Truthful
  <2> QED
    BY <2>1, <2>2, <2>3 DEF database
<1>8. ASSUME NEW r \in Requests, FastPath(r) \/ Lock(r) \/ Recheck(r) \/ Apply(r)
      PROVE  UNCHANGED <<recorded, asked, outcome>>
    BY <1>8 DEF FastPath, Lock, Recheck, Apply, database
<1>9. ASSUME NEW k \in Keys, ReverseMovement(k)
      PROVE  UNCHANGED <<recorded, asked, outcome>>
    BY <1>9 DEF ReverseMovement
<1>10. ASSUME NEW f \in Funds, Credit(f) \/ Debit(f)
       PROVE  UNCHANGED <<recorded, asked, outcome>>
    BY <1>10 DEF Credit, Debit
<1>11. CASE UNCHANGED vars
    BY <1>11 DEF vars
<1> QED
    BY <1>1, <1>2, <1>4, <1>5, <1>6, <1>7, <1>8, <1>9, <1>10, <1>11
       DEF Next, Proceed, Promise!Next

\* createPayout, createSettlement and recordSettlementShortfall keep the
\* promise of OncePerKey for every number of concurrent requests and retries
\* and every collision of lock ids.
THEOREM PromiseKept == Spec => ImplementsOncePerKey
<1>1. Init => Promise!Init
    BY DEF Init, Promise!Init
<1> QED
    BY <1>1, AlwaysExclusive, StepPromised, PTL
       DEF Spec, ImplementsOncePerKey, Promise!Spec

-----------------------------------------------------------------------------
(* The dialogs.                                                            *)

\* A payout draws a second key after an answer that refused it, and an
\* adjustment has none; the other dialogs are bound to one attempt.
BoundToOneAttempt == Kinds \subseteq {"proposal", "correction", "reversal"}

Screen == [open : BOOLEAN, body : Bodies \union {NoBody},
           step : {"form", "confirm", "done", "stopped", "already", "unconfirmed"},
           told : {"nothing", "ok", "conflict", "transport"} \union Failures]

\* What the server has recorded of a proposal, or may still.
Underway == requests \union effects

\* What may still be recorded of this opening has the key the dialog holds, and
\* no other may replace it before the answer is known.
KeyIsKept ==
    \A x \in Underway :
        x.opening = opening =>
            \/ dialog.step \in {"done", "stopped"}
            \/ x.key = idem.key /\ (idem.ambiguous \/ x.number = pending.number)

OneKeyPerOpening == \A x, y \in Underway : x.opening = y.opening => x.key = y.key

EachNumberedOnce ==
    /\ \A x \in Underway : x.number \in 1..counter /\ x.opening \in 0..opening
    /\ \A x, y \in Underway : x.number = y.number => x = y
    /\ requests \intersect effects = {}

\* Who is told of an invalid body need not fear that it is recorded.
InvalidIsOver ==
    \A a \in answers :
        /\ a.number \in 1..counter
        /\ a.verdict = "invalid" => \A x \in Underway : x.number # a.number

OneEffectPerKey == \A x, y \in effects : x.key = y.key => x = y

ProposalBound ==
    EachNumberedOnce /\ KeyIsKept /\ OneKeyPerOpening /\ InvalidIsOver /\ OneEffectPerKey

OneEffect == \A x, y \in effects : x = y

DialogInductive ==
    /\ kind \in Kinds /\ dialog \in Screen
    /\ opening \in Nat /\ counter \in Nat
    /\ idem \in [key : Nat, body : Bodies \union {NoBody}, ambiguous : BOOLEAN]
    /\ \A a \in answers : a.verdict \in {"ok", "conflict"} \union Failures
    /\ IF kind = "proposal" THEN ProposalBound ELSE OneEffect

LEMMA DialogStarts == DialogInit => DialogInductive
<1> SUFFICES ASSUME DialogInit PROVE DialogInductive
    OBVIOUS
<1>1. dialog = [open |-> FALSE, step |-> "form", body |-> NoBody, told |-> "nothing"]
    BY DEF DialogInit, Fresh
<1>2. dialog \in Screen
    BY <1>1 DEF Screen
<1>3. idem \in [key : Nat, body : Bodies \union {NoBody}, ambiguous : BOOLEAN]
    BY DEF DialogInit, NoIdem, NoKey
<1>4. ProposalBound /\ OneEffect
    BY DEF DialogInit, ProposalBound, OneEffect, EachNumberedOnce, KeyIsKept, OneKeyPerOpening,
           InvalidIsOver, OneEffectPerKey, Underway
<1> QED
    BY <1>2, <1>3, <1>4 DEF DialogInit, DialogInductive

\* What the answer to a proposal may change.
LEMMA ProposalLearns ==
    ASSUME kind = "proposal", DialogInductive, NEW verdict, Learn(verdict),
           verdict \in {"ok", "conflict", "transport"} \union Failures
    PROVE  /\ dialog' \in Screen
           /\ idem' \in [key : Nat, body : Bodies \union {NoBody}, ambiguous : BOOLEAN]
           /\ pending' = NoRequest
           /\ \/ dialog'.step \in {"done", "stopped"}
              \/ /\ verdict \in {"transport", "server", "invalid"}
                 /\ idem' = AfterFailure(verdict \in {"transport", "server"})
                 /\ dialog'.step = dialog.step
<1>1. pending' = NoRequest /\ AfterProposal(verdict)
    BY DEF Learn, Unmounted
<1>2. CASE verdict = "ok"
    <2>1. idem' = NoIdem /\ dialog' = [dialog EXCEPT !.step = "done", !.told = "ok"]
        BY <1>1, <1>2 DEF AfterProposal
    <2>2. dialog' \in Screen /\ dialog'.step = "done"
        BY <2>1 DEF DialogInductive, Screen
    <2> QED
        BY <1>1, <2>1, <2>2 DEF NoIdem, NoKey
<1>3. CASE verdict # "ok"
    <2>1. idem' = AfterFailure(verdict \in {"transport", "server"})
        BY <1>1, <1>3 DEF AfterProposal
    <2>2. dialog' = [dialog EXCEPT !.told = verdict,
                        !.step = IF verdict \in {"transport", "server", "invalid"}
                                 THEN dialog.step ELSE "stopped"]
        BY <1>1, <1>3 DEF AfterProposal
    <2>3. dialog' \in Screen
        BY <2>2 DEF DialogInductive, Screen
    <2>4. idem' \in [key : Nat, body : Bodies \union {NoBody}, ambiguous : BOOLEAN]
        BY <2>1 DEF AfterFailure, DialogInductive
    <2>5. dialog'.step = IF verdict \in {"transport", "server", "invalid"}
                          THEN dialog.step ELSE "stopped"
        BY <2>2 DEF DialogInductive, Screen
    <2> QED
        BY <1>1, <2>1, <2>3, <2>4, <2>5
<1> QED
    BY <1>2, <1>3

\* The answer to any other dialog changes what is on its screen.
LEMMA DialogLearns ==
    ASSUME kind \in {"reversal", "correction"}, DialogInductive, NEW verdict, Learn(verdict),
           verdict \in {"ok", "conflict", "transport"} \union Failures
    PROVE  /\ dialog' \in Screen
           /\ idem' \in [key : Nat, body : Bodies \union {NoBody}, ambiguous : BOOLEAN]
<1>1. CASE UNCHANGED <<dialog, idem>>
    BY <1>1 DEF DialogInductive
<1>2. CASE AfterReversal(verdict)
    <2>1. PICK step : dialog' = [dialog EXCEPT !.told = verdict, !.step = step]
                      /\ step \in {"done", dialog.step, "already", "form"}
        BY <1>2 DEF AfterReversal
    <2>2. dialog' \in Screen
        BY <2>1 DEF DialogInductive, Screen
    <2> QED
        BY <1>2, <2>2 DEF AfterReversal, DialogInductive
<1>3. CASE AfterCorrection(verdict)
    <2>1. PICK step : dialog' = [dialog EXCEPT !.told = verdict, !.step = step]
                      /\ step \in {"done", dialog.step, "stopped", "form"}
        BY <1>3 DEF AfterCorrection
    <2>2. dialog' \in Screen
        BY <2>1 DEF DialogInductive, Screen
    <2>3. idem' = NoIdem \/ idem' = AfterFailure(verdict = "transport")
        BY <1>3 DEF AfterCorrection
    <2>4. idem' \in [key : Nat, body : Bodies \union {NoBody}, ambiguous : BOOLEAN]
        <3>1. NoIdem \in [key : Nat, body : Bodies \union {NoBody}, ambiguous : BOOLEAN]
            BY DEF NoIdem, NoKey
        <3>2. AfterFailure(verdict = "transport")
                 \in [key : Nat, body : Bodies \union {NoBody}, ambiguous : BOOLEAN]
            BY DEF AfterFailure, DialogInductive
        <3> QED
            BY <2>3, <3>1, <3>2
    <2> QED
        BY <2>2, <2>4
<1>4. CASE kind = "reversal"
    BY <1>1, <1>2, <1>4 DEF Learn
<1>5. CASE kind = "correction"
    BY <1>1, <1>3, <1>5 DEF Learn
<1> QED
    BY <1>4, <1>5

\* An answer, or the failure of the call, ends the wait for a request.
LEMMA LearningKeeps ==
    ASSUME BoundToOneAttempt, DialogInductive, NEW verdict, Learn(verdict),
           verdict \in {"ok", "conflict", "transport"} \union Failures,
           verdict = "invalid" => \A x \in Underway : x.number # pending.number,
           answers' \subseteq answers,
           UNCHANGED <<kind, opening, requests, effects, submitted, counter>>
    PROVE  DialogInductive'
<1>1. CASE kind = "proposal"
    <2>1. /\ dialog' \in Screen
          /\ idem' \in [key : Nat, body : Bodies \union {NoBody}, ambiguous : BOOLEAN]
          /\ \/ dialog'.step \in {"done", "stopped"}
             \/ /\ verdict \in {"transport", "server", "invalid"}
                /\ idem' = AfterFailure(verdict \in {"transport", "server"})
                /\ dialog'.step = dialog.step
        BY <1>1, ProposalLearns
    <2>2. Underway' = Underway /\ ProposalBound
        BY <1>1 DEF Underway, DialogInductive
    <2>3. KeyIsKept'
        <3> SUFFICES ASSUME NEW x \in Underway, x.opening = opening,
                            dialog'.step \notin {"done", "stopped"}
                     PROVE  x.key = idem'.key /\ idem'.ambiguous
            BY <2>2 DEF KeyIsKept
        <3>1. /\ idem' = AfterFailure(verdict \in {"transport", "server"})
              /\ verdict \in {"transport", "server", "invalid"}
              /\ dialog.step \notin {"done", "stopped"}
            BY <2>1
        <3>2. x.key = idem.key /\ (idem.ambiguous \/ x.number = pending.number)
            BY <2>2, <3>1 DEF ProposalBound, KeyIsKept
        <3>3. verdict \in {"transport", "server"} \/ idem.ambiguous
            BY <3>1, <3>2
        <3> QED
            BY <3>1, <3>2, <3>3 DEF AfterFailure, DialogInductive
    <2>4. EachNumberedOnce' /\ OneKeyPerOpening' /\ OneEffectPerKey'
        BY <2>2 DEF ProposalBound, EachNumberedOnce, OneKeyPerOpening, OneEffectPerKey
    <2>5. InvalidIsOver'
        BY <2>2 DEF ProposalBound, InvalidIsOver
    <2> QED
        BY <1>1, <2>1, <2>3, <2>4, <2>5 DEF DialogInductive, ProposalBound
<1>2. CASE kind \in {"reversal", "correction"}
    BY <1>2, DialogLearns DEF DialogInductive, OneEffect
<1> QED
    BY <1>1, <1>2 DEF BoundToOneAttempt, DialogInductive

LEMMA SubmitKeeps == ASSUME BoundToOneAttempt, DialogInductive, Submit PROVE DialogInductive'
<1> DEFINE resolution == KeyFor(dialog.body)
           sent == [number |-> counter + 1, key |-> resolution.key, body |-> dialog.body,
                    opening |-> opening]
<1>1. /\ dialog' = [dialog EXCEPT !.told = "nothing"]
      /\ idem' = resolution /\ pending' = sent /\ requests' = requests \union {sent}
      /\ counter' = counter + 1
      /\ UNCHANGED <<kind, opening, answers, effects>>
    BY DEF Submit
<1>2. dialog' \in Screen /\ dialog'.step = dialog.step /\ dialog.body \in Bodies \union {NoBody}
    BY <1>1 DEF DialogInductive, Screen
<1>3. idem' \in [key : Nat, body : Bodies \union {NoBody}, ambiguous : BOOLEAN]
    BY <1>1, <1>2 DEF DialogInductive, BoundToOneAttempt, KeyFor, Resolved, NewKey
<1>4. CASE kind = "proposal"
    <2>1. dialog.step = "form" /\ pending = NoRequest /\ ~AmbiguousPending(dialog.body)
        BY <1>4 DEF Submit, Busy
    <2>2. resolution = Resolved(dialog.body)
        BY <1>4 DEF KeyFor
    <2>3. ProposalBound /\ counter \in Nat
        BY <1>4 DEF DialogInductive
    <2>4. Underway' = Underway \union {sent}
        BY <1>1 DEF Underway
    <2>5. ASSUME NEW x \in Underway, x.opening = opening
          PROVE  idem.ambiguous /\ x.key = sent.key /\ resolution = idem
        <3>1. x.number \in 1..counter
            BY <2>3 DEF ProposalBound, EachNumberedOnce
        <3>2. pending.number = 0
            BY <2>1 DEF NoRequest
        <3>3. x.key = idem.key /\ idem.ambiguous
            BY <2>1, <2>3, <2>5, <3>1, <3>2 DEF ProposalBound, KeyIsKept
        <3>4. resolution = idem
            BY <2>1, <2>2, <3>3 DEF AmbiguousPending, Resolved
        <3> QED
            BY <3>3, <3>4
    <2>6. \A x \in Underway : x.number \in 1..counter /\ x.opening \in 0..opening
        BY <2>3 DEF ProposalBound, EachNumberedOnce
    <2>7. opening \in 0..opening
        BY DEF DialogInductive
    <2>8. EachNumberedOnce'
        <3>1. \A x \in Underway' : x.number \in 1..counter' /\ x.opening \in 0..opening'
            BY <1>1, <2>3, <2>4, <2>6, <2>7
        <3>2. \A x, y \in Underway' : x.number = y.number => x = y
            BY <1>1, <2>3, <2>4, <2>6 DEF ProposalBound, EachNumberedOnce
        <3>3. (requests \intersect effects)' = {}
            <4>1. sent \notin effects
                BY <2>3, <2>6 DEF Underway
            <4> QED
                BY <1>1, <2>3, <4>1 DEF ProposalBound, EachNumberedOnce
        <3> QED
            BY <3>1, <3>2, <3>3 DEF EachNumberedOnce
    <2>9. KeyIsKept'
        <3> SUFFICES ASSUME NEW x \in Underway', x.opening = opening'
                     PROVE  x.key = idem'.key /\ (idem'.ambiguous \/ x.number = pending'.number)
            BY DEF KeyIsKept
        <3>1. CASE x = sent
            BY <1>1, <3>1
        <3>2. CASE x \in Underway
            BY <1>1, <2>5, <3>2
        <3> QED
            BY <2>4, <3>1, <3>2
    <2>10. OneKeyPerOpening'
        <3> SUFFICES ASSUME NEW x \in Underway', NEW y \in Underway', x.opening = y.opening
                     PROVE  x.key = y.key
            BY DEF OneKeyPerOpening
        <3>1. CASE x \in Underway /\ y \in Underway
            BY <2>3, <3>1 DEF ProposalBound, OneKeyPerOpening
        <3>2. CASE x = sent /\ y \in Underway
            BY <2>5, <3>2
        <3>3. CASE x \in Underway /\ y = sent
            BY <2>5, <3>3
        <3> QED
            BY <2>4, <3>1, <3>2, <3>3
    <2>11. InvalidIsOver'
        BY <1>1, <2>3, <2>4 DEF ProposalBound, InvalidIsOver
    <2>12. OneEffectPerKey'
        BY <1>1, <2>3 DEF ProposalBound, OneEffectPerKey
    <2> QED
        BY <1>1, <1>2, <1>3, <1>4, <2>3, <2>8, <2>9, <2>10, <2>11, <2>12
           DEF DialogInductive, ProposalBound
<1>5. CASE kind # "proposal"
    BY <1>1, <1>2, <1>3, <1>5 DEF DialogInductive, OneEffect
<1> QED
    BY <1>4, <1>5

LEMMA HandleKeeps ==
    ASSUME BoundToOneAttempt, DialogInductive, NEW r \in requests, Handle(r)
    PROVE  DialogInductive'
<1>1. PICK v \in Verdicts(r) :
        /\ answers' = answers \union {[number |-> r.number, verdict |-> v]}
        /\ \/ v # "ok" /\ UNCHANGED effects
           \/ /\ v \in {"ok", "server"}
              /\ effects' = IF Earlier(r) = {} THEN effects \union {r} ELSE effects
    BY DEF Handle
<1>2. requests' = requests \ {r} /\ UNCHANGED <<kind, dialog, idem, opening, pending, counter>>
    BY DEF Handle
<1>3. \A a \in answers' : a.verdict \in {"ok", "conflict"} \union Failures
    BY <1>1 DEF DialogInductive, Verdicts
<1>4. CASE kind = "proposal"
    <2>1. ProposalBound /\ r \in Underway /\ r \notin effects
        BY <1>4 DEF DialogInductive, ProposalBound, EachNumberedOnce, Underway
    <2>2. Underway' \subseteq Underway
        BY <1>1, <1>2 DEF Underway
    <2>3. v = "invalid" => Underway' = Underway \ {r}
        BY <1>1, <1>2, <2>1 DEF Underway
    <2>4. EachNumberedOnce'
        BY <1>1, <1>2, <2>1, <2>2 DEF ProposalBound, EachNumberedOnce
    <2>5. KeyIsKept' /\ OneKeyPerOpening'
        BY <1>2, <2>1, <2>2 DEF ProposalBound, KeyIsKept, OneKeyPerOpening
    <2>6. InvalidIsOver'
        <3>1. \A x \in Underway \ {r} : x.number # r.number
            BY <2>1 DEF ProposalBound, EachNumberedOnce
        <3>2. r.number \in 1..counter
            BY <2>1 DEF ProposalBound, EachNumberedOnce
        <3> QED
            BY <1>1, <1>2, <2>1, <2>2, <2>3, <3>1, <3>2 DEF ProposalBound, InvalidIsOver
    <2>7. OneEffectPerKey'
        <3>1. Earlier(r) = {e \in effects : e.key = r.key}
            BY <1>4 DEF Earlier
        <3>2. effects' = effects \/ (effects' = effects \union {r} /\ Earlier(r) = {})
            BY <1>1
        <3> QED
            BY <2>1, <3>1, <3>2 DEF ProposalBound, OneEffectPerKey
    <2> QED
        BY <1>2, <1>3, <1>4, <2>4, <2>5, <2>6, <2>7 DEF DialogInductive, ProposalBound
<1>5. CASE kind \in {"reversal", "correction"}
    <2>1. Earlier(r) = effects
        BY <1>5 DEF Earlier
    <2>2. OneEffect'
        BY <1>1, <1>5, <2>1 DEF DialogInductive, OneEffect
    <2> QED
        BY <1>2, <1>3, <1>5, <2>2 DEF DialogInductive
<1> QED
    BY <1>4, <1>5 DEF BoundToOneAttempt, DialogInductive

LEMMA DialogSteps ==
    ASSUME BoundToOneAttempt, DialogInductive, [DialogNext]_dialogVars
    PROVE  DialogInductive'
<1>1. ASSUME Open PROVE DialogInductive'
    <2>1. /\ opening' = opening + 1 /\ dialog' = Fresh /\ idem' = NoIdem
          /\ UNCHANGED <<kind, pending, requests, answers, effects, counter>>
        BY <1>1 DEF Open
    <2>2. dialog' \in Screen
        BY <2>1 DEF Fresh, Screen
    <2>3. idem' \in [key : Nat, body : Bodies \union {NoBody}, ambiguous : BOOLEAN]
        BY <2>1 DEF NoIdem, NoKey
    <2>4. ASSUME ProposalBound PROVE ProposalBound'
        <3>1. \A x \in Underway : x.opening \in 0..opening
            BY <2>4 DEF ProposalBound, EachNumberedOnce
        <3>2. Underway' = Underway /\ opening \in Nat
            BY <2>1 DEF Underway, DialogInductive
        <3>3. KeyIsKept'
            BY <2>1, <3>1, <3>2 DEF KeyIsKept
        <3>4. EachNumberedOnce'
            BY <2>1, <2>4, <3>2 DEF ProposalBound, EachNumberedOnce
        <3> QED
            BY <2>1, <2>4, <3>2, <3>3, <3>4
               DEF ProposalBound, OneKeyPerOpening, InvalidIsOver, OneEffectPerKey
    <2> QED
        BY <2>1, <2>2, <2>3, <2>4 DEF DialogInductive, OneEffect
<1>2. ASSUME Close \/ (\E b \in Bodies : Type(b)) \/ Review \/ Back
      PROVE  DialogInductive'
    <2>1. UNCHANGED <<kind, idem, opening, pending, requests, answers, effects, counter>>
        BY <1>2 DEF Close, Type, Review, Back
    <2>2. dialog' \in Screen
        BY <1>2 DEF Close, Type, Review, Back, DialogInductive, Screen
    <2>3. dialog.step \in {"done", "stopped"} => dialog'.step = dialog.step
        BY <1>2 DEF Close, Type, Review, Back, DialogInductive, Screen
    <2>4. KeyIsKept => KeyIsKept'
        BY <2>1, <2>3 DEF KeyIsKept, Underway
    <2> QED
        BY <2>1, <2>2, <2>4 DEF DialogInductive, OneEffect, ProposalBound, EachNumberedOnce,
           OneKeyPerOpening, InvalidIsOver, OneEffectPerKey, Underway
<1>3. ASSUME Submit PROVE DialogInductive'
    BY <1>3, SubmitKeeps
<1>4. ASSUME NEW r \in requests, Handle(r) PROVE DialogInductive'
    BY <1>4, HandleKeeps
<1>5. ASSUME OtherActs PROVE DialogInductive'
    <2>1. PICK e : effects = {} /\ effects' = {e} /\ kind \in {"reversal", "correction"}
        BY <1>5 DEF OtherActs
    <2> QED
        BY <1>5, <2>1 DEF OtherActs, DialogInductive, OneEffect
<1>6. ASSUME NEW a \in answers, AnswerArrives(a) PROVE DialogInductive'
    <2>1. /\ pending.number = a.number /\ answers' \subseteq answers /\ Learn(a.verdict)
          /\ UNCHANGED <<kind, opening, requests, effects, submitted, counter>>
        BY <1>6 DEF AnswerArrives
    <2>2. CASE kind = "proposal"
        <3>1. a.verdict = "invalid" => \A x \in Underway : x.number # pending.number
            BY <2>1, <2>2 DEF DialogInductive, ProposalBound, InvalidIsOver
        <3> QED
            BY <2>1, <3>1, LearningKeeps DEF DialogInductive
    <2>3. CASE kind # "proposal"
        BY <2>1, <2>3, DialogLearns DEF DialogInductive, OneEffect, BoundToOneAttempt
    <2> QED
        BY <2>2, <2>3
<1>7. ASSUME CallFails PROVE DialogInductive'
    BY <1>7, LearningKeeps DEF CallFails
<1>8. ASSUME NEW r \in requests, Lost(r) PROVE DialogInductive'
    <2>1. requests' \subseteq requests
          /\ UNCHANGED <<kind, dialog, idem, opening, pending, answers, effects, counter>>
        BY <1>8 DEF Lost
    <2>2. Underway' \subseteq Underway
        BY <2>1 DEF Underway
    <2>3. ProposalBound => ProposalBound'
        BY <2>1, <2>2 DEF ProposalBound, EachNumberedOnce, KeyIsKept, OneKeyPerOpening,
           InvalidIsOver, OneEffectPerKey
    <2> QED
        BY <2>1, <2>3 DEF DialogInductive, OneEffect
<1>9. ASSUME UNCHANGED dialogVars PROVE DialogInductive'
    BY <1>9 DEF dialogVars, DialogInductive, OneEffect, ProposalBound, EachNumberedOnce,
       KeyIsKept, OneKeyPerOpening, InvalidIsOver, OneEffectPerKey, Underway, Screen
<1> QED
    BY <1>1, <1>2, <1>3, <1>4, <1>5, <1>6, <1>7, <1>8, <1>9 DEF DialogNext

\* Two effects of one opening would be one.
LEMMA EffectsAreOne ==
    ASSUME BoundToOneAttempt, DialogInductive
    PROVE  OneEffectPerOpening
<1> SUFFICES ASSUME NEW o \in 1..opening PROVE Cardinality(EffectsOf(o)) <= 1
    BY DEF OneEffectPerOpening
<1>1. \A x, y \in EffectsOf(o) : x = y
    BY DEF EffectsOf, DialogInductive, OneEffect, ProposalBound, OneKeyPerOpening,
       OneEffectPerKey, Underway
<1>2. CASE EffectsOf(o) = {}
    BY <1>2, FS_EmptySet
<1>3. CASE EffectsOf(o) # {}
    <2>1. PICK x : x \in EffectsOf(o)
        BY <1>3
    <2>2. EffectsOf(o) = {x}
        BY <1>1, <2>1
    <2>3. Cardinality({x}) = 1
        BY FS_Singleton
    <2> QED
        BY <2>2, <2>3
<1> QED
    BY <1>2, <1>3

\* A proposal, a correction or a reversal takes effect at most once each time
\* its dialog is opened, whatever is retyped, repeated, lost or delayed, and for
\* any number of openings and requests (resolveIdempotencyKey, afterFailure).
THEOREM OneEffectEachTime ==
    ASSUME BoundToOneAttempt
    PROVE  DialogSpec => []OneEffectPerOpening
<1>1. DialogInit => DialogInductive
    BY DialogStarts
<1>2. DialogInductive /\ [DialogNext]_dialogVars => DialogInductive'
    BY DialogSteps
<1>3. DialogInductive => OneEffectPerOpening
    BY EffectsAreOne
<1> QED
    BY <1>1, <1>2, <1>3, PTL DEF DialogSpec

-----------------------------------------------------------------------------
(* What is awaited of a position, one continuation after the other.          *)

\* The largest of finitely many numbers.
LEMMA Largest ==
    ASSUME NEW S, IsFiniteSet(S), S \subseteq Nat
    PROVE  \A s \in SUBSET S : s # {} => Max(s) \in s /\ \A x \in s : x <= Max(s)
<1> DEFINE Good == {s \in SUBSET S : s # {} => \E m \in s : \A x \in s : x <= m}
<1>1. ASSUME NEW s \in SUBSET S, \A x \in s : s \ {x} \in Good
      PROVE  s \in Good
  <2> SUFFICES ASSUME s # {} PROVE \E m \in s : \A x \in s : x <= m
    OBVIOUS
  <2>1. PICK y \in s : TRUE
    OBVIOUS
  <2>2. CASE s = {y}
    BY <2>2
  <2>3. CASE s # {y}
    <3>1. PICK m \in s \ {y} : \A x \in s \ {y} : x <= m
      BY <1>1, <2>1, <2>3
    <3> QED BY <3>1
  <2> QED BY <2>2, <2>3
<1> HIDE DEF Good
<1>2. \A s \in SUBSET S : s \in Good
  BY <1>1, SetInduction
<1>3. ASSUME NEW s \in SUBSET S, s # {}
      PROVE  Max(s) \in s /\ \A x \in s : x <= Max(s)
  <2>1. \E m \in s : \A x \in s : x <= m
    BY <1>2, <1>3 DEF Good
  <2>2. \E m \in s : \A x \in s : m >= x
    BY <2>1
  <2>3. Max(s) \in s /\ \A x \in s : Max(s) >= x
    BY <2>2 DEF Max
  <2> QED BY <2>3
<1> QED BY <1>3

\* The steps of the fold AllResumed over the indices S of its continuations.
Resumes(g, view, ws, pos, S) ==
    g = [s \in SUBSET S |-> IF s = {} THEN view
                            ELSE Resumed(g[s \ {Max(s)}], ws[Max(s)], pos)]

LEMMA FoldOfResumed ==
    ASSUME NEW view, NEW ws, NEW pos
    PROVE  AllResumed(view, ws, pos) =
              (CHOOSE g : Resumes(g, view, ws, pos, DOMAIN ws))[DOMAIN ws]
BY DEF AllResumed, FoldLeft, MapThenFoldSet, Resumes

LEMMA FoldExists ==
    ASSUME NEW view, NEW ws, NEW pos, NEW S, IsFiniteSet(S), S \subseteq Nat
    PROVE  \E g : Resumes(g, view, ws, pos, S)
<1> DEFINE Good == {s \in SUBSET S : \E g : Resumes(g, view, ws, pos, s)}
<1>1. ASSUME NEW s \in SUBSET S, \A x \in s : s \ {x} \in Good
      PROVE  s \in Good
  <2>1. CASE s = {}
    <3> DEFINE g == [t \in SUBSET s |-> view]
    <3>1. \A t \in SUBSET s : t = {}
      BY <2>1
    <3>2. Resumes(g, view, ws, pos, s)
      BY <3>1 DEF Resumes
    <3> QED BY <3>2
  <2>2. CASE s # {}
    <3> DEFINE m == Max(s)
    <3>1. m \in s /\ \A x \in s : x <= m
      BY <2>2, Largest
    <3>2. PICK h : Resumes(h, view, ws, pos, s \ {m})
      BY <1>1, <3>1
    <3> DEFINE g == [t \in SUBSET s |-> IF m \in t THEN Resumed(h[t \ {m}], ws[m], pos)
                                        ELSE h[t]]
    <3>3. ASSUME NEW t \in SUBSET s
          PROVE  g[t] = IF t = {} THEN view ELSE Resumed(g[t \ {Max(t)}], ws[Max(t)], pos)
      <4>1. CASE m \in t
        <5>1. Max(t) \in t /\ \A x \in t : x <= Max(t)
          BY <4>1, Largest
        <5>2. Max(t) \in Nat /\ m \in Nat /\ Max(t) <= m /\ m <= Max(t)
          BY <3>1, <4>1, <5>1
        <5>3. Max(t) = m
          <6> HIDE DEF m
          <6> QED BY <5>2
        <5>4. g[t \ {m}] = h[t \ {m}]
          OBVIOUS
        <5> HIDE DEF m
        <5> QED BY <4>1, <5>3, <5>4
      <4>2. CASE m \notin t
        <5>1. t \in SUBSET (s \ {m})
          BY <4>2
        <5>2. h[t] = IF t = {} THEN view ELSE Resumed(h[t \ {Max(t)}], ws[Max(t)], pos)
          BY <3>2, <5>1 DEF Resumes
        <5>3. g[t \ {Max(t)}] = h[t \ {Max(t)}]
          BY <4>2
        <5> HIDE DEF m
        <5> QED BY <4>2, <5>2, <5>3
      <4> QED BY <4>1, <4>2
    <3> HIDE DEF m
    <3>4. Resumes(g, view, ws, pos, s)
      BY <3>3 DEF Resumes
    <3> QED BY <3>4
  <2> QED BY <2>1, <2>2
<1> HIDE DEF Good
<1>2. S \in Good
  BY <1>1, SetInduction
<1> QED BY <1>2 DEF Good

-----------------------------------------------------------------------------

ScreenShape == [open : BOOLEAN, step : {"form", "confirm", "done"}, driver : Drivers,
                checking : BOOLEAN, required : BOOLEAN]
Reviews(ws, S) == \E i \in S : ws[i].why = "review"

\* What resuming continuations makes of a view: a review ends the check and may
\* go on to the confirmation; a refused post leaves the step as it is.
After(v, seen, ws, S) ==
    /\ v = [screen |-> v.screen, draft |-> v.draft]
    /\ v.screen \in ScreenShape
    /\ v.screen.step = seen.screen.step \/ (v.screen.step = "confirm" /\ Reviews(ws, S))
    /\ v.screen.checking <=> seen.screen.checking /\ ~Reviews(ws, S)

LEMMA OneResumed ==
    ASSUME NEW v, NEW seen, NEW ws, NEW pos, NEW S, NEW i \in S, After(v, seen, ws, S \ {i}),
           ws[i].why \in {"review", "refused"}
    PROVE  After(Resumed(v, ws[i], pos), seen, ws, S)
<1> DEFINE w == ws[i]
           r == Resumed(v, w, pos)
           dr == Reconciled(w.draft, w.driver, pos)
<1>0. v = [screen |-> v.screen, draft |-> v.draft] /\ v.screen \in ScreenShape
    BY DEF After
<1>1. CASE w.why = "refused"
    <2>1. r = [v EXCEPT !.draft = dr]
        BY <1>1 DEF Resumed
    <2>2. r = [screen |-> v.screen, draft |-> dr]
        <3> HIDE DEF dr, r
        <3> QED BY <1>0, <2>1
    <2>3. Reviews(ws, S) <=> Reviews(ws, S \ {i})
        BY <1>1 DEF Reviews
    <2> HIDE DEF dr, r
    <2>4. r.screen = v.screen /\ r = [screen |-> r.screen, draft |-> r.draft]
        BY <2>2
    <2> QED BY <2>3, <2>4 DEF After, r
<1>2. CASE w.why = "review"
    <2>0. Reviews(ws, S)
        BY <1>2 DEF Reviews
    <2>1. \/ r = [v EXCEPT !.screen.checking = FALSE, !.draft = dr]
          \/ r = [v EXCEPT !.screen.checking = FALSE, !.screen.step = "confirm"]
          \/ r = [v EXCEPT !.screen.checking = FALSE, !.screen.step = v.screen.step]
        BY <1>2 DEF Resumed
    <2> HIDE DEF dr, r
    <2>2. /\ r = [screen |-> r.screen, draft |-> r.draft]
          /\ r.screen = [v.screen EXCEPT !.checking = FALSE]
                \/ r.screen = [v.screen EXCEPT !.checking = FALSE, !.step = "confirm"]
                \/ r.screen = [v.screen EXCEPT !.checking = FALSE, !.step = v.screen.step]
      <3>1. CASE r = [v EXCEPT !.screen.checking = FALSE, !.draft = dr]
        BY <1>0, <3>1
      <3>2. CASE r = [v EXCEPT !.screen.checking = FALSE, !.screen.step = "confirm"]
        BY <1>0, <3>2
      <3>3. CASE r = [v EXCEPT !.screen.checking = FALSE, !.screen.step = v.screen.step]
        BY <1>0, <3>3
      <3> QED BY <2>1, <3>1, <3>2, <3>3
    <2>3. /\ r.screen \in ScreenShape /\ ~r.screen.checking
          /\ r.screen.step \in {v.screen.step, "confirm"}
        BY <1>0, <2>2 DEF ScreenShape
    <2>4. v.screen.step = seen.screen.step \/ v.screen.step = "confirm"
        BY DEF After
    <2>5. r.screen.step \in {seen.screen.step, "confirm"}
        BY <2>3, <2>4
    <2> QED BY <2>0, <2>2, <2>3, <2>5 DEF After, r
<1> QED BY <1>1, <1>2

LEMMA AllAfter ==
    ASSUME NEW seen, NEW ws, NEW pos, seen = [screen |-> seen.screen, draft |-> seen.draft],
           seen.screen \in ScreenShape,
           IsFiniteSet(DOMAIN ws), DOMAIN ws \subseteq Nat,
           \A i \in DOMAIN ws : ws[i].why \in {"review", "refused"}
    PROVE  After(AllResumed(seen, ws, pos), seen, ws, DOMAIN ws)
<1> DEFINE S == DOMAIN ws
           g == CHOOSE h : Resumes(h, seen, ws, pos, S)
           Good == {s \in SUBSET S : After(g[s], seen, ws, s)}
<1>1. Resumes(g, seen, ws, pos, S)
    BY FoldExists
<1> HIDE DEF g
<1>2. ASSUME NEW s \in SUBSET S, \A x \in s : s \ {x} \in Good
      PROVE  s \in Good
  <2>1. CASE s = {}
    <3>1. g[s] = seen
        BY <1>1, <2>1 DEF Resumes
    <3> QED BY <2>1, <3>1 DEF After, Reviews
  <2>2. CASE s # {}
    <3>1. Max(s) \in s
        BY <2>2, Largest
    <3>2. g[s] = Resumed(g[s \ {Max(s)}], ws[Max(s)], pos)
        BY <1>1, <2>2 DEF Resumes
    <3>3. PICK m \in s : m = Max(s)
        BY <3>1
    <3>4. After(g[s \ {m}], seen, ws, s \ {m})
        BY <1>2, <3>3
    <3>5. ws[m].why \in {"review", "refused"}
        BY <3>3
    <3>6. After(g[s], seen, ws, s)
        BY <3>2, <3>3, <3>4, <3>5, OneResumed
    <3> QED BY <3>6
  <2> QED BY <2>1, <2>2
<1> HIDE DEF Good
<1>3. S \in Good
  <2>1. IsFiniteSet(S)
    OBVIOUS
  <2> HIDE DEF S
  <2>2. \A s \in SUBSET S : s \in Good
    BY <1>2, <2>1, SetInduction
  <2> QED BY <2>2
<1>4. After(g[S], seen, ws, S)
    BY <1>3 DEF Good
<1>5. AllResumed(seen, ws, pos) = g[S]
    BY FoldOfResumed DEF g
<1> QED BY <1>4, <1>5

-----------------------------------------------------------------------------
Listed(ws) == ws \in Seq(Range(ws))

LEMMA ListedAppend ==
    ASSUME NEW ws, Listed(ws), NEW w
    PROVE  /\ Listed(Append(ws, w))
           /\ \A i \in DOMAIN Append(ws, w) :
                 Append(ws, w)[i] = w \/ (i \in DOMAIN ws /\ Append(ws, w)[i] = ws[i])
<1> DEFINE T == Range(ws) \union {w}
<1>1. ws \in Seq(T)
    BY SeqMonotonic DEF Listed
<1> HIDE DEF T
<1>2. w \in T
    BY DEF T
<1>3. /\ Append(ws, w) \in Seq(T)
      /\ Len(Append(ws, w)) = Len(ws) + 1
      /\ \A i \in 1..Len(ws) : Append(ws, w)[i] = ws[i]
      /\ Append(ws, w)[Len(ws) + 1] = w
    BY <1>1, <1>2, AppendProperties
<1>4. Len(ws) \in Nat /\ DOMAIN ws = 1..Len(ws) /\ DOMAIN Append(ws, w) = 1..(Len(ws) + 1)
    BY <1>1, <1>3, LenProperties
<1>5. Append(ws, w) \in Seq(Range(Append(ws, w)))
    BY <1>3, SeqOfRange
<1> QED BY <1>3, <1>4, <1>5 DEF Listed

LEMMA ListedFinite ==
    ASSUME NEW ws, Listed(ws)
    PROVE  IsFiniteSet(DOMAIN ws) /\ DOMAIN ws \subseteq Nat
<1>1. Len(ws) \in Nat /\ DOMAIN ws = 1..Len(ws)
    BY LenProperties DEF Listed
<1>2. IsFiniteSet(1..Len(ws))
    BY <1>1, FS_Interval
<1> QED BY <1>1, <1>2

-----------------------------------------------------------------------------
(* The settlement dialog.                                                    *)

\* What the server has recorded of the dialog's posts, or may still.
Posted == posts \union settled

ReviewAwaits(d) == Reviews(waiting[d], DOMAIN waiting[d])

\* A review that is awaited keeps the dialog on its form, with no post underway.
Reviewed ==
    /\ \A d \in Drivers : Listed(waiting[d])
    /\ \A d \in Drivers : \A i \in DOMAIN waiting[d] :
          /\ waiting[d][i].why \in {"review", "refused"}
          /\ waiting[d][i].why = "review" => screen.checking
    /\ \A d, e \in Drivers : ReviewAwaits(d) /\ ReviewAwaits(e) => d = e
    /\ screen.checking => screen.step = "form" /\ posting = NoCall
    /\ screen.step = "done" => posting = NoCall

EachPostedOnce ==
    /\ \A x \in Posted : x.number \in 1..posted /\ x.opening \in 0..visit
    /\ \A x, y \in Posted : x.number = y.number => x = y
    /\ posts \intersect settled = {}

\* What may still be settled of this visit has the key the dialog holds, and
\* no other may replace it before the answer is known.
KeyIsHeld ==
    \A x \in Posted :
        x.opening = visit =>
            \/ screen.step = "done"
            \/ x.key = idemRef.key /\ (idemRef.ambiguous \/ x.number = posting.number)

OneKeyPerVisit == \A x, y \in Posted : x.opening = y.opening => x.key = y.key

\* Who is told of a refusal need not fear that the settlement is recorded.
RefusedIsOver ==
    \A a \in replies :
        /\ a.number \in 1..posted
        /\ a.verdict.kind \notin {"ok", "server"} =>
              \A x \in Posted : x.number # a.number

SettledOncePerKey == \A x, y \in settled : x.key = y.key => x = y

KeyShape == \E k, b : \E a \in BOOLEAN : idemRef = [key |-> k, body |-> b, ambiguous |-> a]

Shapes ==
    /\ visit \in Nat /\ posted \in Nat
    /\ screen \in ScreenShape /\ KeyShape
    /\ waiting = [d \in Drivers |-> waiting[d]]

SettlementInductive ==
    /\ Shapes /\ Reviewed /\ EachPostedOnce /\ KeyIsHeld /\ OneKeyPerVisit /\ RefusedIsOver
    /\ SettledOncePerKey

LEMMA SettlementStarts == SettlementInit => SettlementInductive
<1> SUFFICES ASSUME SettlementInit PROVE SettlementInductive
    OBVIOUS
<1>1. PICK d \in Drivers : screen = [open |-> FALSE, step |-> "form", driver |-> d,
                                     checking |-> FALSE, required |-> FALSE]
    BY DEF SettlementInit
<1>2. waiting = [x \in Drivers |-> <<>>] /\ posts = {} /\ settled = {} /\ replies = {}
      /\ visit = 0 /\ posted = 0 /\ idemRef = [key |-> 0, body |-> <<>>, ambiguous |-> FALSE]
    BY DEF SettlementInit, NoKeyYet
<1>3. Listed(<<>>)
    BY EmptySeq DEF Listed
<1>4. Shapes
    BY <1>1, <1>2 DEF Shapes, ScreenShape, KeyShape
<1>5. Reviewed
    BY <1>1, <1>2, <1>3 DEF Reviewed, ReviewAwaits, Reviews
<1> QED
    BY <1>2, <1>4, <1>5 DEF SettlementInductive, EachPostedOnce, KeyIsHeld, OneKeyPerVisit,
       RefusedIsOver, SettledOncePerKey, Posted

\* Steps that leave the posts and the key alone.
LEMMA ElsewhereKeeps ==
    ASSUME SettlementInductive, UNCHANGED <<idemRef, visit, posting, posts, replies, posted, settled>>,
           Shapes', Reviewed', screen.step = "done" => screen'.step = "done"
    PROVE  SettlementInductive'
BY DEF SettlementInductive, EachPostedOnce, KeyIsHeld, OneKeyPerVisit, RefusedIsOver,
       SettledOncePerKey, Posted

\* ... nor what awaits a position.
LEMMA SameShapes ==
    ASSUME SettlementInductive, UNCHANGED <<visit, posted, idemRef, waiting>>, screen' \in ScreenShape
    PROVE  Shapes'
BY DEF SettlementInductive, Shapes, KeyShape

LEMMA SameReviews ==
    ASSUME Reviewed, UNCHANGED waiting, screen.checking => screen'.checking,
           screen'.checking => screen'.step = "form" /\ posting' = NoCall,
           screen'.step = "done" => posting' = NoCall
    PROVE  Reviewed'
BY DEF Reviewed, ReviewAwaits

\* The operator's edits, other people's and the reads of a position.
LEMMA QuietKeeps ==
    ASSUME SettlementInductive,
           UNCHANGED <<screen, waiting, idemRef, visit, wire, settled>>
    PROVE  SettlementInductive'
<1>1. Shapes' /\ Reviewed'
    BY DEF SettlementInductive, Shapes, KeyShape, Reviewed, ReviewAwaits, wire
<1> QED BY <1>1, ElsewhereKeeps DEF wire

LEMMA ScreenStepsKeep ==
    ASSUME SettlementInductive,
           \/ CloseSettlement \/ BackToForm \/ (\E d \in Drivers : SwitchDriver(d))
    PROVE  SettlementInductive'
<1>1. screen \in ScreenShape /\ Reviewed
    BY DEF SettlementInductive, Shapes
<1>2. UNCHANGED <<waiting, idemRef, visit, posting, posts, replies, posted, settled>>
    BY DEF CloseSettlement, BackToForm, SwitchDriver, wire, reads, server
<1>3. screen' \in ScreenShape /\ screen'.checking = screen.checking
      /\ screen'.step \in {screen.step, "form"} /\ (screen.step = "done" => screen'.step = "done")
    BY <1>1 DEF CloseSettlement, BackToForm, SwitchDriver, ScreenShape, OnForm
<1>4. Shapes' /\ Reviewed'
    BY <1>1, <1>2, <1>3, SameShapes, SameReviews DEF Reviewed
<1> QED BY <1>2, <1>3, <1>4, ElsewhereKeeps

LEMMA OpenKeeps == ASSUME SettlementInductive, OpenSettlement PROVE SettlementInductive'
<1>1. screen \in ScreenShape /\ Reviewed /\ Shapes
    BY DEF SettlementInductive, Shapes
<1>2. /\ visit' = visit + 1 /\ idemRef' = [key |-> 0, body |-> <<>>, ambiguous |-> FALSE]
      /\ UNCHANGED <<waiting, posting, posts, replies, posted, settled>>
    BY DEF OpenSettlement, NoKeyYet, wire, server
<1>3. screen' \in ScreenShape /\ screen'.checking = screen.checking /\ screen'.step = "form"
    BY <1>1 DEF OpenSettlement, ScreenShape
<1>4. Shapes'
  <2>1. KeyShape'
    BY <1>2 DEF KeyShape
  <2> QED BY <1>1, <1>2, <1>3, <2>1 DEF Shapes
<1>5. Reviewed'
    BY <1>1, <1>2, <1>3, SameReviews DEF Reviewed
<1>6. Posted' = Posted /\ visit \in Nat /\ \A x \in Posted : x.opening \in 0..visit
    BY <1>1, <1>2 DEF Posted, Shapes, SettlementInductive, EachPostedOnce
<1>7. EachPostedOnce'
    BY <1>2, <1>6 DEF SettlementInductive, EachPostedOnce
<1>8. KeyIsHeld'
    BY <1>2, <1>6 DEF KeyIsHeld
<1> QED
    BY <1>2, <1>4, <1>5, <1>6, <1>7, <1>8
       DEF SettlementInductive, OneKeyPerVisit, RefusedIsOver, SettledOncePerKey

LEMMA ReviewKeeps == ASSUME SettlementInductive, GoToConfirm PROVE SettlementInductive'
<1> DEFINE d == screen.driver
           w == [why |-> "review", driver |-> d, draft |-> draft]
<1>1. screen \in ScreenShape /\ Reviewed /\ Shapes /\ d \in Drivers
    BY DEF SettlementInductive, Shapes, ScreenShape
<1>2. /\ UNCHANGED <<idemRef, visit, posting, posts, replies, posted, settled>>
      /\ screen.step = "form" /\ posting = NoCall /\ ~screen.checking
    BY DEF GoToConfirm, wire, server, OnForm, Posting
<1>3. CASE ~Allocating
    <2>1. screen' = [screen EXCEPT !.step = "confirm"] /\ UNCHANGED waiting
        BY <1>3 DEF GoToConfirm
    <2>2. screen' \in ScreenShape /\ ~screen'.checking
        BY <1>1, <1>2, <2>1 DEF ScreenShape
    <2> QED BY <1>1, <1>2, <2>1, <2>2, SameShapes, SameReviews, ElsewhereKeeps
<1>4. CASE Allocating
    <2>1. /\ screen' = [screen EXCEPT !.checking = TRUE]
          /\ waiting' = [waiting EXCEPT ![d] = Append(@, w)]
        BY <1>4 DEF GoToConfirm
    <2>2. screen' \in ScreenShape /\ screen'.checking /\ screen'.step = "form"
        BY <1>1, <1>2, <2>1 DEF ScreenShape
    <2>3. Shapes'
        BY <1>1, <1>2, <2>1, <2>2 DEF Shapes, KeyShape
    <2>4. \A x \in Drivers : waiting'[x] = IF x = d THEN Append(waiting[d], w) ELSE waiting[x]
        BY <1>1, <2>1 DEF Shapes
    <2>5. Listed(waiting[d])
        BY <1>1 DEF Reviewed
    <2>6. w.why = "review"
        OBVIOUS
    <2> HIDE DEF w, d
    <2>7. \A x \in Drivers : Listed(waiting'[x])
        BY <1>1, <2>4, <2>5, ListedAppend DEF Reviewed
    <2>8. ASSUME NEW x \in Drivers, NEW i \in DOMAIN waiting'[x]
          PROVE  waiting'[x][i].why \in {"review", "refused"}
      <3>1. CASE x # d
        BY <1>1, <2>4, <2>8, <3>1 DEF Reviewed
      <3>2. CASE x = d
        <4>1. i \in DOMAIN Append(waiting[d], w) /\ waiting'[x][i] = Append(waiting[d], w)[i]
            BY <2>4, <2>8, <3>2
        <4>2. Append(waiting[d], w)[i] = w
              \/ (i \in DOMAIN waiting[d] /\ Append(waiting[d], w)[i] = waiting[d][i])
            BY <2>5, <4>1, ListedAppend
        <4> QED BY <1>1, <2>6, <3>2, <4>1, <4>2 DEF Reviewed
      <3> QED BY <3>1, <3>2
    <2>9. \A x \in Drivers : ReviewAwaits(x)' => x = d
      <3> SUFFICES ASSUME NEW x \in Drivers, x # d PROVE ~ReviewAwaits(x)'
        OBVIOUS
      <3>1. ~ReviewAwaits(x)
        BY <1>1, <1>2 DEF Reviewed, ReviewAwaits, Reviews
      <3> QED BY <2>4, <3>1 DEF ReviewAwaits, Reviews
    <2>10. Reviewed'
        BY <1>2, <2>2, <2>7, <2>8, <2>9 DEF Reviewed
    <2> QED BY <1>2, <2>3, <2>10, ElsewhereKeeps
<1> QED BY <1>3, <1>4

LEMMA ArriveKeeps == ASSUME SettlementInductive, NEW d \in Drivers, Arrive(d) PROVE SettlementInductive'
<1> DEFINE pos == fetch[d]
           seen == Seen(d, pos)
           ws == waiting[d]
           view == AllResumed(seen, ws, pos)
<1>1. screen \in ScreenShape /\ Reviewed /\ Shapes
    BY DEF SettlementInductive, Shapes
<1>2. /\ UNCHANGED <<idemRef, visit, posting, posts, replies, posted, settled>>
      /\ screen' = view.screen
      /\ waiting' = [waiting EXCEPT ![d] = <<>>]
    BY DEF Arrive, wire, server
<1>3. /\ seen = [screen |-> seen.screen, draft |-> seen.draft] /\ seen.screen \in ScreenShape
      /\ seen.screen.checking = screen.checking /\ seen.screen.step \in {screen.step, "form"}
      /\ screen.step # "confirm" => seen.screen.step = screen.step
  <2>1. CASE d = screen.driver /\ Distrusted(pos)
    <3>1. seen = [screen |-> [screen EXCEPT !.step = "form"],
                  draft |-> Reconciled(draft, d, pos)]
        BY <2>1 DEF Seen
    <3>2. screen.step = "confirm"
        BY <2>1 DEF Distrusted
    <3> HIDE DEF seen
    <3> QED BY <1>1, <3>1, <3>2 DEF ScreenShape
  <2>2. CASE ~(d = screen.driver /\ Distrusted(pos))
    <3>1. seen = [screen |-> screen, draft |-> draft]
        BY <2>2 DEF Seen
    <3> HIDE DEF seen
    <3> QED BY <1>1, <3>1
  <2> QED BY <2>1, <2>2
<1>4. /\ IsFiniteSet(DOMAIN ws) /\ DOMAIN ws \subseteq Nat
      /\ \A i \in DOMAIN ws : /\ ws[i].why \in {"review", "refused"}
                              /\ ws[i].why = "review" => screen.checking
    BY <1>1, ListedFinite DEF Reviewed
<1> HIDE DEF seen, ws, pos
<1>5. After(view, seen, ws, DOMAIN ws)
    BY <1>3, <1>4, AllAfter
<1> HIDE DEF view
<1>6. Reviews(ws, DOMAIN ws) => screen.checking /\ screen.step = "form" /\ posting = NoCall
    BY <1>1, <1>4 DEF Reviews, Reviewed
<1>7. /\ screen' \in ScreenShape
      /\ screen.step = "done" <=> screen'.step = "done"
      /\ screen'.checking => screen.checking /\ ~Reviews(ws, DOMAIN ws) /\ screen'.step = "form"
    BY <1>1, <1>2, <1>3, <1>5, <1>6 DEF After, Reviewed
<1>8. \A x \in Drivers : waiting'[x] = IF x = d THEN <<>> ELSE waiting[x]
    BY <1>1, <1>2 DEF Shapes
<1>9. Shapes'
    BY <1>1, <1>2, <1>7 DEF Shapes, KeyShape
<1>10. ASSUME NEW x \in Drivers
       PROVE  /\ ReviewAwaits(x)' => x # d /\ ReviewAwaits(x)
              /\ ReviewAwaits(x)' => screen'.checking
  <2>1. CASE x = d
    <3>1. waiting'[x] = <<>>
      BY <1>8, <2>1
    <3>2. ~ReviewAwaits(x)'
      BY <3>1 DEF ReviewAwaits, Reviews
    <3> QED BY <3>2
  <2>2. CASE x # d
    <3>1. ReviewAwaits(x)' <=> ReviewAwaits(x)
      BY <1>8, <2>2 DEF ReviewAwaits, Reviews
    <3>2. ReviewAwaits(x) => screen.checking /\ ~ReviewAwaits(d)
      BY <1>1, <2>2 DEF Reviewed, ReviewAwaits, Reviews
    <3> QED BY <1>5, <1>2, <1>3, <2>2, <3>1, <3>2 DEF After, ReviewAwaits, ws
  <2> QED BY <2>1, <2>2
<1>11. Reviewed'
  <2>1. ASSUME NEW x \in Drivers, NEW i \in DOMAIN waiting'[x]
        PROVE  waiting'[x][i].why \in {"review", "refused"}
    BY <1>1, <1>8 DEF Reviewed
  <2>2. \A x \in Drivers : Listed(waiting'[x])
    BY <1>1, <1>8, EmptySeq DEF Reviewed, Listed
  <2>3. ASSUME NEW x \in Drivers, NEW i \in DOMAIN waiting'[x], waiting'[x][i].why = "review"
        PROVE  screen'.checking
    BY <1>10, <2>3 DEF ReviewAwaits, Reviews
  <2>4. \A x, y \in Drivers : ReviewAwaits(x)' /\ ReviewAwaits(y)' => x = y
    BY <1>1, <1>10 DEF Reviewed
  <2>5. /\ screen'.checking => screen'.step = "form" /\ posting' = NoCall
        /\ screen'.step = "done" => posting' = NoCall
    BY <1>1, <1>2, <1>7 DEF Reviewed
  <2> QED BY <2>1, <2>2, <2>3, <2>4, <2>5 DEF Reviewed
<1> QED BY <1>2, <1>7, <1>9, <1>11, ElsewhereKeeps

LEMMA FetchFailsKeeps ==
    ASSUME SettlementInductive, NEW d \in Drivers, FetchFails(d)
    PROVE  SettlementInductive'
<1>1. screen \in ScreenShape /\ Reviewed /\ Shapes
    BY DEF SettlementInductive, Shapes
<1>2. /\ UNCHANGED <<idemRef, visit, posting, posts, replies, posted, settled>>
      /\ waiting' = [waiting EXCEPT ![d] = <<>>]
      /\ screen' = [screen EXCEPT !.checking = @ /\ Reviewing']
    BY DEF FetchFails, wire, server
<1>3. \A x \in Drivers : waiting'[x] = IF x = d THEN <<>> ELSE waiting[x]
    BY <1>1, <1>2 DEF Shapes
<1>4. /\ screen' \in ScreenShape /\ screen'.step = screen.step
      /\ screen'.checking <=> screen.checking /\ Reviewing'
  <2>1. PICK b \in BOOLEAN : b <=> screen.checking /\ Reviewing'
    OBVIOUS
  <2>2. screen' = [screen EXCEPT !.checking = b]
    BY <1>1, <1>2, <2>1 DEF ScreenShape
  <2> QED BY <1>1, <2>1, <2>2 DEF ScreenShape
<1>5. Shapes'
    BY <1>1, <1>2, <1>4 DEF Shapes, KeyShape
<1>6. ASSUME NEW x \in Drivers, ReviewAwaits(x)'
      PROVE  ReviewAwaits(x) /\ screen'.checking
  <2>1. x # d
    BY <1>3, <1>6 DEF ReviewAwaits, Reviews
  <2>2. ReviewAwaits(x)
    BY <1>3, <1>6, <2>1 DEF ReviewAwaits, Reviews
  <2>3. Reviewing'
    BY <1>6 DEF Reviewing, ReviewAwaits, Reviews, Range
  <2> QED BY <1>1, <1>4, <2>2, <2>3 DEF Reviewed, ReviewAwaits, Reviews
<1>7. Reviewed'
  <2>1. ASSUME NEW x \in Drivers, NEW i \in DOMAIN waiting'[x]
        PROVE  waiting'[x][i].why \in {"review", "refused"}
    BY <1>1, <1>3 DEF Reviewed
  <2>2. \A x \in Drivers : Listed(waiting'[x])
    BY <1>1, <1>3, EmptySeq DEF Reviewed, Listed
  <2>3. ASSUME NEW x \in Drivers, NEW i \in DOMAIN waiting'[x], waiting'[x][i].why = "review"
        PROVE  screen'.checking
    BY <1>6, <2>3 DEF ReviewAwaits, Reviews
  <2>4. \A x, y \in Drivers : ReviewAwaits(x)' /\ ReviewAwaits(y)' => x = y
    BY <1>1, <1>6 DEF Reviewed
  <2>5. /\ screen'.checking => screen'.step = "form" /\ posting' = NoCall
        /\ screen'.step = "done" => posting' = NoCall
    BY <1>1, <1>2, <1>4 DEF Reviewed
  <2> QED BY <2>1, <2>2, <2>3, <2>4, <2>5 DEF Reviewed
<1> QED BY <1>2, <1>4, <1>5, <1>7, ElsewhereKeeps

LEMMA RunKeeps == ASSUME SettlementInductive, RunSettlement PROVE SettlementInductive'
<1> DEFINE body == BodyOf(draft, Current)
           call == [number |-> posted + 1, key |-> ResolvedKey(body).key,
                    body |-> body, opening |-> visit]
<1>1. screen \in ScreenShape /\ Reviewed /\ Shapes /\ EachPostedOnce /\ KeyIsHeld /\ posted \in Nat
      /\ visit \in Nat
    BY DEF SettlementInductive, Shapes
<1>2. /\ UNCHANGED <<screen, visit, replies, settled, waiting>>
      /\ idemRef' = ResolvedKey(body) /\ posting' = call /\ posts' = posts \union {call}
      /\ posted' = posted + 1
      /\ screen.step = "confirm" /\ posting = NoCall /\ ~KeyLocked(body)
    BY DEF RunSettlement, reads, server, Posting
<1>3. call.number = posted + 1 /\ call.key = ResolvedKey(body).key /\ call.opening = visit
    OBVIOUS
<1> HIDE DEF body, call
<1>4. KeyShape'
    BY <1>1, <1>2 DEF ResolvedKey, KeyShape, Shapes
<1>5. Shapes'
    BY <1>1, <1>2, <1>4 DEF Shapes
<1>6. Reviewed'
    BY <1>1, <1>2, SameReviews DEF Reviewed
<1>7. Posted' = Posted \union {call}
    BY <1>2 DEF Posted
<1>8. ASSUME NEW x \in Posted, x.opening = visit
      PROVE  idemRef' = idemRef /\ idemRef.ambiguous /\ x.key = call.key
  <2>1. x.number \in 1..posted /\ posting.number = 0
    BY <1>1, <1>2 DEF EachPostedOnce, NoCall
  <2>2. x.key = idemRef.key /\ idemRef.ambiguous
    BY <1>1, <1>2, <1>8, <2>1 DEF KeyIsHeld
  <2>3. ResolvedKey(body) = idemRef
    BY <1>2, <2>2 DEF KeyLocked, ResolvedKey
  <2> QED BY <1>2, <1>3, <2>2, <2>3
<1>9. \A x \in Posted : x.number \in 1..posted /\ x.opening \in 0..visit
    BY <1>1 DEF EachPostedOnce
<1>10. EachPostedOnce'
  <2>1. \A x \in Posted' : x.number \in 1..posted' /\ x.opening \in 0..visit'
    BY <1>1, <1>2, <1>3, <1>7, <1>9
  <2>2. \A x, y \in Posted' : x.number = y.number => x = y
    BY <1>1, <1>3, <1>7, <1>9 DEF EachPostedOnce
  <2>3. call \notin settled
    BY <1>1, <1>3, <1>9 DEF Posted
  <2>4. (posts \intersect settled)' = {}
    BY <1>1, <1>2, <2>3 DEF EachPostedOnce
  <2> QED BY <2>1, <2>2, <2>4 DEF EachPostedOnce
<1>11. KeyIsHeld'
  <2> SUFFICES ASSUME NEW x \in Posted', x.opening = visit'
               PROVE  x.key = idemRef'.key /\ (idemRef'.ambiguous \/ x.number = posting'.number)
    BY DEF KeyIsHeld
  <2>1. CASE x = call
    BY <1>2, <1>3, <2>1
  <2>2. CASE x \in Posted
    BY <1>2, <1>3, <1>8, <2>2
  <2> QED BY <1>7, <2>1, <2>2
<1>12. OneKeyPerVisit'
  <2> SUFFICES ASSUME NEW x \in Posted', NEW y \in Posted', x.opening = y.opening
               PROVE  x.key = y.key
    BY DEF OneKeyPerVisit
  <2>1. CASE x \in Posted /\ y \in Posted
    BY <2>1 DEF SettlementInductive, OneKeyPerVisit
  <2>2. CASE x = call /\ y \in Posted
    BY <1>3, <1>8, <2>2
  <2>3. CASE x \in Posted /\ y = call
    BY <1>3, <1>8, <2>3
  <2> QED BY <1>7, <2>1, <2>2, <2>3
<1>13. RefusedIsOver'
  <2> SUFFICES ASSUME NEW a \in replies
               PROVE  /\ a.number \in 1..posted'
                      /\ a.verdict.kind \notin {"ok", "server"} =>
                            \A x \in Posted' : x.number # a.number
    BY <1>2 DEF RefusedIsOver
  <2>1. /\ a.number \in 1..posted
        /\ a.verdict.kind \notin {"ok", "server"} => \A x \in Posted : x.number # a.number
    BY DEF SettlementInductive, RefusedIsOver
  <2> QED BY <1>1, <1>2, <1>3, <1>7, <2>1
<1> QED
    BY <1>2, <1>5, <1>6, <1>10, <1>11, <1>12, <1>13 DEF SettlementInductive, SettledOncePerKey

\* createSettlement, with whatever becomes of its answer.
LEMMA CreateKeeps ==
    ASSUME SettlementInductive, NEW r \in posts, CreateSettlement(r)
    PROVE  SettlementInductive'
<1>1. screen \in ScreenShape /\ Reviewed /\ Shapes /\ EachPostedOnce /\ RefusedIsOver
    BY DEF SettlementInductive, Shapes
<1>2. PICK verdict :
        /\ replies' = replies \union {[number |-> r.number, verdict |-> verdict]}
        /\ \/ UNCHANGED settled
           \/ /\ settled' = settled \union {r} /\ Replayed(r) = {}
              /\ verdict.kind \in {"ok", "server"}
    <2> DEFINE v == IF Replayed(r) = {} THEN Verdict(r.body)
                    ELSE IF \E s \in Replayed(r) : s.body = r.body
                         THEN [kind |-> "ok"] ELSE [kind |-> "conflict"]
    <2>1. \/ /\ replies' = replies \union
                    {[number |-> r.number, verdict |-> [kind |-> "invalid"]]}
             /\ UNCHANGED server
          \/ /\ replies' = replies \union {[number |-> r.number, verdict |-> v]}
             /\ \/ v.kind = "ok" /\ Replayed(r) = {} /\ settled' = settled \union {r}
                \/ UNCHANGED server
          \/ /\ replies' = replies \union
                    {[number |-> r.number, verdict |-> [kind |-> "server"]]}
             /\ \/ Replayed(r) = {} /\ settled' = settled \union {r}
                \/ UNCHANGED server
        BY DEF CreateSettlement
    <2> HIDE DEF v
    <2>2. ASSUME NEW u, replies' = replies \union {[number |-> r.number, verdict |-> u]},
                 \/ UNCHANGED settled
                 \/ /\ settled' = settled \union {r} /\ Replayed(r) = {}
                    /\ u.kind \in {"ok", "server"}
          PROVE  \E verdict :
                   /\ replies' = replies \union {[number |-> r.number, verdict |-> verdict]}
                   /\ \/ UNCHANGED settled
                      \/ /\ settled' = settled \union {r} /\ Replayed(r) = {}
                         /\ verdict.kind \in {"ok", "server"}
      BY <2>2
    <2>3. CASE replies' = replies \union {[number |-> r.number, verdict |-> [kind |-> "invalid"]]}
               /\ UNCHANGED server
      BY <2>2, <2>3 DEF server
    <2>4. CASE /\ replies' = replies \union {[number |-> r.number, verdict |-> v]}
               /\ \/ v.kind = "ok" /\ Replayed(r) = {} /\ settled' = settled \union {r}
                  \/ UNCHANGED server
      BY <2>2, <2>4 DEF server
    <2>5. CASE /\ replies' = replies \union
                    {[number |-> r.number, verdict |-> [kind |-> "server"]]}
               /\ \/ Replayed(r) = {} /\ settled' = settled \union {r}
                  \/ UNCHANGED server
      <3>1. [kind |-> "server"].kind = "server"
        OBVIOUS
      <3> QED BY <2>2, <2>5, <3>1 DEF server
    <2> QED BY <2>1, <2>3, <2>4, <2>5
<1>3. /\ posts' = posts \ {r}
      /\ UNCHANGED <<screen, idemRef, visit, posting, posted, waiting>>
    BY DEF CreateSettlement, settlementDialog, reads
<1>4. r \in Posted /\ r \notin settled
    BY <1>1 DEF EachPostedOnce, Posted
<1>5. Posted' \subseteq Posted
    BY <1>2, <1>3, <1>4 DEF Posted
<1>6. verdict.kind \notin {"ok", "server"} => Posted' = Posted \ {r}
    BY <1>2, <1>3, <1>4 DEF Posted
<1>7. EachPostedOnce'
  <2>1. (posts \intersect settled)' = {}
    BY <1>1, <1>2, <1>3 DEF EachPostedOnce
  <2> QED BY <1>1, <1>3, <1>5, <2>1 DEF EachPostedOnce
<1>8. KeyIsHeld' /\ OneKeyPerVisit'
    BY <1>3, <1>5 DEF SettlementInductive, KeyIsHeld, OneKeyPerVisit
<1>9. RefusedIsOver'
  <2>1. r.number \in 1..posted /\ \A x \in Posted \ {r} : x.number # r.number
    BY <1>1, <1>4 DEF EachPostedOnce
  <2>2. \A a \in replies' : a \in replies \/ (a.number = r.number /\ a.verdict = verdict)
    BY <1>2
  <2>3. \A a \in replies :
          /\ a.number \in 1..posted
          /\ a.verdict.kind \notin {"ok", "server"} => \A x \in Posted : x.number # a.number
    BY <1>1 DEF RefusedIsOver
  <2> QED BY <1>3, <1>5, <1>6, <2>1, <2>2, <2>3 DEF RefusedIsOver
<1>10. SettledOncePerKey'
  <2>1. \A s \in settled : Replayed(r) = {} => s.key # r.key
    BY DEF Replayed
  <2> QED BY <1>2, <2>1 DEF SettlementInductive, SettledOncePerKey
<1>11. Shapes' /\ Reviewed'
    BY <1>1, <1>3, SameShapes, SameReviews DEF Reviewed
<1> QED BY <1>7, <1>8, <1>9, <1>10, <1>11 DEF SettlementInductive

LEMMA PostLostKeeps ==
    ASSUME SettlementInductive, NEW r \in posts, PostLost(r)
    PROVE  SettlementInductive'
<1>1. screen \in ScreenShape /\ Reviewed /\ Shapes
    BY DEF SettlementInductive, Shapes
<1>2. /\ posts' = posts \ {r}
      /\ UNCHANGED <<screen, idemRef, visit, posting, posted, waiting, settled, replies>>
    BY DEF PostLost, settlementDialog, reads, server
<1>3. Posted' \subseteq Posted
    BY <1>2 DEF Posted
<1>4. Shapes' /\ Reviewed'
    BY <1>1, <1>2, SameShapes, SameReviews DEF Reviewed
<1> QED
    BY <1>2, <1>3, <1>4 DEF SettlementInductive, EachPostedOnce, KeyIsHeld, OneKeyPerVisit,
       RefusedIsOver, SettledOncePerKey

\* The answer to a post, or the failure of the call, ends the wait for it.
LEMMA ConcludedKeeps ==
    ASSUME SettlementInductive, posting # NoCall, NEW verdict, Concluded(verdict),
           verdict.kind \notin {"ok", "transport", "server"} =>
               \A x \in Posted : x.number # posting.number,
           replies' \subseteq replies,
           UNCHANGED <<posts, settled, posted>>
    PROVE  SettlementInductive'
<1>1. screen \in ScreenShape /\ Reviewed /\ Shapes /\ screen.driver \in Drivers /\ KeyShape
    BY DEF SettlementInductive, Shapes, ScreenShape
<1>2. visit' = visit /\ posting' = NoCall /\ ~screen.checking
    BY <1>1 DEF Concluded, Reviewed
<1>3. Posted' = Posted
    BY DEF Posted
<1> DEFINE d == screen.driver
           w == [why |-> "refused", driver |-> d, draft |-> Rejected(draft, verdict)]
           ok == /\ verdict.kind = "ok" /\ screen' = [screen EXCEPT !.step = "done"]
                 /\ idemRef' = NoKeyYet /\ UNCHANGED waiting
           unsure == /\ verdict.kind \in {"transport", "server"}
                     /\ idemRef' = [idemRef EXCEPT !.ambiguous = TRUE]
                     /\ UNCHANGED <<screen, waiting>>
           refused == /\ verdict.kind \notin {"ok", "transport", "server"}
                      /\ screen' = [screen EXCEPT !.step = "form",
                            !.required = @ \/ verdict.kind = "contract"]
                      /\ UNCHANGED idemRef
                      /\ UNCHANGED waiting \/ waiting' = [waiting EXCEPT ![d] = Append(@, w)]
<1>4. ok \/ unsure \/ refused
  <2>1. CASE verdict.kind = "ok"
    <3>1. ~Ambiguous(verdict)
      BY <2>1 DEF Ambiguous
    <3> QED BY <2>1, <3>1 DEF Concluded
  <2>2. CASE Ambiguous(verdict)
    <3>1. verdict.kind # "ok"
      BY <2>2 DEF Ambiguous
    <3> QED BY <2>2, <3>1 DEF Concluded, Ambiguous
  <2>3. CASE verdict.kind # "ok" /\ ~Ambiguous(verdict)
    <3>1. /\ screen' = [screen EXCEPT !.step = "form",
                            !.required = @ \/ verdict.kind = "contract"]
          /\ UNCHANGED idemRef
          /\ UNCHANGED waiting \/ waiting' = [waiting EXCEPT ![d] = Append(@, w)]
      BY <2>3 DEF Concluded
    <3>2. verdict.kind \notin {"ok", "transport", "server"}
      BY <2>3 DEF Ambiguous
    <3> HIDE DEF w, d
    <3> QED BY <3>1, <3>2
  <2> QED BY <2>1, <2>2, <2>3
<1>5. screen' \in ScreenShape /\ ~screen'.checking
      /\ (verdict.kind = "ok" => screen'.step = "done")
      /\ (verdict.kind \in {"transport", "server"} => screen'.step = screen.step)
      /\ (screen.step = "done" /\ verdict.kind = "ok" => screen'.step = "done")
  <2>1. CASE ok
    BY <1>1, <1>2, <2>1 DEF ScreenShape
  <2>2. CASE unsure
    BY <1>1, <1>2, <2>2
  <2>3. CASE refused
    <3>1. PICK b \in BOOLEAN : screen' = [screen EXCEPT !.step = "form", !.required = b]
      BY <1>1, <2>3 DEF ScreenShape
    <3> QED BY <1>1, <1>2, <2>3, <3>1 DEF ScreenShape
  <2> QED BY <1>4, <2>1, <2>2, <2>3
<1>6. KeyShape'
    BY <1>1, <1>4 DEF KeyShape, NoKeyYet
<1> HIDE DEF d
<1>7. waiting' = waiting \/ waiting' = [waiting EXCEPT ![d] = Append(@, w)]
    BY <1>4
<1> HIDE DEF ok, unsure, refused
<1>8. Shapes'
    BY <1>1, <1>2, <1>5, <1>6, <1>7 DEF Shapes
<1>9. Reviewed'
  <2>1. CASE UNCHANGED waiting
    BY <1>1, <1>2, <1>5, <2>1, SameReviews
  <2>2. CASE waiting' = [waiting EXCEPT ![d] = Append(@, w)]
    <3>1. \A x \in Drivers : waiting'[x] = IF x = d THEN Append(waiting[d], w) ELSE waiting[x]
      BY <1>1, <2>2 DEF Shapes
    <3>2. d \in Drivers /\ Listed(waiting[d]) /\ w.why = "refused"
      BY <1>1 DEF Reviewed, d
    <3> HIDE DEF w
    <3>3. \A x \in Drivers : Listed(waiting'[x])
      BY <1>1, <3>1, <3>2, ListedAppend DEF Reviewed
    <3>4. ASSUME NEW x \in Drivers, NEW i \in DOMAIN waiting'[x]
          PROVE  waiting'[x][i].why = "refused"
                 \/ (i \in DOMAIN waiting[x] /\ waiting'[x][i] = waiting[x][i])
      <4>1. CASE x # d
        BY <3>1, <3>4, <4>1
      <4>2. CASE x = d
        <5>1. i \in DOMAIN Append(waiting[d], w) /\ waiting'[x][i] = Append(waiting[d], w)[i]
          BY <3>1, <3>4, <4>2
        <5>2. Append(waiting[d], w)[i] = w
              \/ (i \in DOMAIN waiting[d] /\ Append(waiting[d], w)[i] = waiting[d][i])
          BY <3>2, <5>1, ListedAppend
        <5> QED BY <3>2, <4>2, <5>1, <5>2
      <4> QED BY <4>1, <4>2
    <3>5. \A x \in Drivers : \A i \in DOMAIN waiting[x] :
             waiting[x][i].why = "refused"
      BY <1>1, <1>2 DEF Reviewed
    <3>6. \A x \in Drivers : \A i \in DOMAIN waiting'[x] : waiting'[x][i].why = "refused"
      BY <3>4, <3>5
    <3>7. \A x \in Drivers : ~ReviewAwaits(x)'
      BY <3>6 DEF ReviewAwaits, Reviews
    <3> QED BY <1>2, <1>5, <3>3, <3>6, <3>7 DEF Reviewed
  <2> QED BY <1>7, <2>1, <2>2
<1>10. KeyIsHeld'
  <2> SUFFICES ASSUME NEW x \in Posted, x.opening = visit, screen'.step # "done"
               PROVE  x.key = idemRef'.key /\ idemRef'.ambiguous
    BY <1>2, <1>3 DEF KeyIsHeld
  <2>1. screen.step # "done"
    BY <1>1 DEF Reviewed
  <2>2. x.key = idemRef.key /\ (idemRef.ambiguous \/ x.number = posting.number)
    BY <2>1 DEF SettlementInductive, KeyIsHeld
  <2>3. CASE unsure
    BY <1>1, <2>2, <2>3 DEF unsure, KeyShape
  <2>4. CASE refused
    BY <2>2, <2>4 DEF refused
  <2>5. ~ok
    BY <1>5 DEF ok
  <2>6. ok \/ unsure \/ refused
    BY <1>4 DEF ok, unsure, refused
  <2> QED BY <2>3, <2>4, <2>5, <2>6
<1>11. EachPostedOnce' /\ OneKeyPerVisit' /\ RefusedIsOver' /\ SettledOncePerKey'
    BY <1>2, <1>3 DEF SettlementInductive, EachPostedOnce, OneKeyPerVisit, RefusedIsOver,
       SettledOncePerKey
<1> QED BY <1>8, <1>9, <1>10, <1>11 DEF SettlementInductive

LEMMA SettlementSteps ==
    ASSUME SettlementInductive, [SettlementNext]_settlementVars
    PROVE  SettlementInductive'
<1>1. CASE OpenSettlement
    BY <1>1, OpenKeeps
<1>2. CASE CloseSettlement \/ BackToForm \/ \E d \in Drivers : SwitchDriver(d)
    BY <1>2, ScreenStepsKeep
<1>3. CASE GoToConfirm
    BY <1>3, ReviewKeeps
<1>4. CASE RunSettlement
    BY <1>4, RunKeeps
<1>5. CASE PostFails
  <2>1. /\ posting # NoCall /\ replies' \subseteq replies /\ Concluded([kind |-> "transport"])
        /\ UNCHANGED <<posts, settled, posted>>
    BY <1>5 DEF PostFails, Posting, server
  <2>2. [kind |-> "transport"].kind = "transport"
    OBVIOUS
  <2> QED BY <2>1, <2>2, ConcludedKeeps
<1>6. ASSUME NEW a \in replies, PostAnswered(a)
      PROVE  SettlementInductive'
  <2>1. /\ posting.number = a.number /\ replies' \subseteq replies /\ Concluded(a.verdict)
        /\ UNCHANGED <<posts, settled, posted>>
    BY <1>6 DEF PostAnswered, server
  <2>2. /\ a.number \in 1..posted
        /\ a.verdict.kind \notin {"ok", "server"} => \A x \in Posted : x.number # a.number
    BY DEF SettlementInductive, RefusedIsOver
  <2>3. posting # NoCall
    BY <2>1, <2>2 DEF NoCall
  <2> QED BY <2>1, <2>2, <2>3, ConcludedKeeps
<1>7. ASSUME NEW r \in posts, CreateSettlement(r) \/ PostLost(r)
      PROVE  SettlementInductive'
    BY <1>7, CreateKeeps, PostLostKeeps
<1>8. ASSUME NEW d \in Drivers, Arrive(d) \/ FetchFails(d)
      PROVE  SettlementInductive'
    BY <1>8, ArriveKeeps, FetchFailsKeeps
<1>9. ASSUME NEW r \in Releases, Select(r) \/ Deselect(r) \/ OthersActOn(r)
      PROVE  SettlementInductive'
    BY <1>9, QuietKeeps DEF Select, Deselect, OthersActOn, Edit, settlementDialog, reads, server
<1>10. ASSUME NEW n, Preselect(n) \/ TypeCash(n) \/ \E r \in Releases : SetAmount(r, n)
       PROVE  SettlementInductive'
    BY <1>10, QuietKeeps DEF Preselect, TypeCash, SetAmount, Edit, settlementDialog, reads, server
<1>11. ASSUME NEW d \in Drivers, OthersTake(d) \/ ReadPosition(d)
       PROVE  SettlementInductive'
    BY <1>11, QuietKeeps DEF OthersTake, ReadPosition, settlementDialog, reads, server
<1>12. ASSUME NEW d \in Drivers, Refetch(d)
       PROVE  SettlementInductive'
    BY <1>12, QuietKeeps DEF Refetch, settlementDialog, server
<1>13. CASE UNCHANGED settlementVars
    BY <1>13, QuietKeeps DEF settlementVars, settlementDialog, reads, server
<1> QED
    BY <1>1, <1>2, <1>3, <1>4, <1>5, <1>6, <1>7, <1>8, <1>9, <1>10, <1>11, <1>12, <1>13
       DEF SettlementNext

\* Two settlements of one visit would be one.
LEMMA SettlementsAreOne ==
    ASSUME SettlementInductive
    PROVE  OneSettlementPerOpening
<1> SUFFICES ASSUME NEW o \in 1..visit
             PROVE  Cardinality({s \in settled : s.opening = o}) <= 1
    BY DEF OneSettlementPerOpening
<1> DEFINE T == {s \in settled : s.opening = o}
<1>1. \A x, y \in T : x = y
    BY DEF SettlementInductive, OneKeyPerVisit, SettledOncePerKey, Posted
<1>2. CASE T = {}
    BY <1>2, FS_EmptySet
<1>3. CASE T # {}
    <2>1. PICK x : x \in T
        BY <1>3
    <2>2. T = {x}
        BY <1>1, <2>1
    <2>3. Cardinality({x}) = 1
        BY FS_Singleton
    <2> QED
        BY <2>2, <2>3
<1> QED
    BY <1>2, <1>3

\* Finance settles at most once each time it opens the settlement dialog,
\* for any number of drivers, collections, visits and posts, whatever is
\* selected anew, refused, repeated, lost or delayed (runSettlement,
\* resolveIdempotencyKey, afterFailure).
THEOREM SettledOnceEachTime == SettlementSpec => []OneSettlementPerOpening
<1> QED
    BY SettlementStarts, SettlementSteps, SettlementsAreOne, PTL DEF SettlementSpec

-----------------------------------------------------------------------------
(* The types of what the dialog shows, selects and posts. *)

Rows(Row) == UNION {[S -> Row] : S \in SUBSET Releases}
Books == [due : [Releases -> Int], status : [Releases -> {"PENDING", "RELEASED", "VOIDED"}],
          review : [Releases -> BOOLEAN], loose : [Drivers -> Int], active : BOOLEAN]
Positions == [items : Rows([due : Int, review : BOOLEAN]), loose : Int, cash : Int]
Drafts == [driver : Drivers, chosen : Rows([due : Int, review : BOOLEAN, amount : Int]),
           loose : Int, legacy : Int]
PostBodies == [format : {"ALLOCATION", "LEGACY"}, driver : Drivers, alloc : Rows(Int),
               loose : Int, legacy : Int]
Awaited == [why : {"review", "refused"}, driver : Drivers, draft : Drafts]

PositionsTyped ==
    /\ position \in [Drivers -> Positions \union {NoCall}]
    /\ fetch \in [Drivers -> Positions \union {NoCall, Sent}]

WaitingTyped == \A d \in Drivers : \A i \in DOMAIN waiting[d] : waiting[d][i] \in Awaited

PostsTyped == \A r \in posts : r.body \in PostBodies

SettlementTyped ==
    books \in Books /\ draft \in Drafts /\ PositionsTyped /\ WaitingTyped /\ PostsTyped

LEMMA PartTyped ==
    ASSUME NEW Row, NEW f \in Rows(Row), NEW S \in SUBSET DOMAIN f, NEW g, DOMAIN g = S,
           g = [x \in S |-> g[x]], \A x \in S : g[x] \in Row
    PROVE  g \in Rows(Row)
<1>1. S \in SUBSET Releases
    BY DEF Rows
<1>2. g \in [S -> Row]
    OBVIOUS
<1> QED BY <1>1, <1>2 DEF Rows

LEMMA SnapshotTyped ==
    ASSUME books \in Books, NEW d \in Drivers
    PROVE  Snapshot(d) \in Positions
<1> DEFINE S == {x \in Pending(d) : books.due[x] > 0}
           items == [r \in S |-> [due |-> books.due[r], review |-> books.review[r]]]
<1>1. S \in SUBSET Releases
    BY DEF Pending, Owned
<1>2. \A r \in Releases : books.due[r] \in Int /\ books.review[r] \in BOOLEAN
    BY DEF Books
<1>3. \A r \in S : [due |-> books.due[r], review |-> books.review[r]] \in [due : Int, review : BOOLEAN]
    BY <1>1, <1>2
<1>4. items \in [S -> [due : Int, review : BOOLEAN]]
    BY <1>3
<1>5. items \in Rows([due : Int, review : BOOLEAN])
    BY <1>1, <1>4 DEF Rows
<1>6. Attributed(d) \in Int
  <2>1. IsFiniteSet(Pending(d)) /\ \A x \in Pending(d) : books.due[x] \in Int
    <3>1. Pending(d) \subseteq Releases
      BY DEF Pending, Owned
    <3> QED BY <1>2, <3>1, ReleasesAssumption, FS_Subset
  <2> QED BY <2>1, SumIsInt DEF Attributed, Summable
<1>7. books.loose[d] \in Int
    BY DEF Books
<1> HIDE DEF items
<1>8. Snapshot(d) = [items |-> items, loose |-> books.loose[d],
                     cash |-> books.loose[d] + Attributed(d)]
    BY DEF Snapshot, items
<1> QED BY <1>5, <1>6, <1>7, <1>8 DEF Positions

LEMMA FreedTyped == ASSUME NEW b \in Books PROVE Freed(b) \in Books
<1> DEFINE status == [r \in Releases |->
                        IF b.status[r] = "PENDING" /\ b.due[r] = 0 /\ ~b.review[r]
                        THEN "RELEASED" ELSE b.status[r]]
<1>1. status \in [Releases -> {"PENDING", "RELEASED", "VOIDED"}]
    BY DEF Books
<1>2. Freed(b) = [b EXCEPT !.status = status]
    BY DEF Freed
<1> HIDE DEF status
<1> QED BY <1>1, <1>2 DEF Books

LEMMA DebitedTyped ==
    ASSUME books \in Books, NEW body \in PostBodies PROVE Debited(body) \in Books
<1> DEFINE due == [r \in Releases |-> IF r \in DOMAIN body.alloc
                                      THEN books.due[r] - body.alloc[r] ELSE books.due[r]]
           loose == [books.loose EXCEPT ![body.driver] = @ - body.loose - body.legacy]
           b == [books EXCEPT !.loose = loose, !.due = due]
<1>1. \A r \in DOMAIN body.alloc : body.alloc[r] \in Int
    BY DEF PostBodies, Rows
<1>2. body.loose \in Int /\ body.legacy \in Int /\ body.driver \in Drivers
    BY DEF PostBodies
<1>3. due \in [Releases -> Int]
    BY <1>1 DEF Books
<1>4. loose \in [Drivers -> Int]
    BY <1>2 DEF Books
<1>5. Debited(body) = Freed(b)
    BY DEF Debited, Books
<1> HIDE DEF due, loose
<1>6. b \in Books
    BY <1>3, <1>4 DEF Books
<1> HIDE DEF b
<1> QED BY <1>5, <1>6, FreedTyped

LEMMA BodyTyped ==
    ASSUME NEW dr \in Drafts, NEW format \in {"ALLOCATION", "LEGACY"}, screen.driver \in Drivers
    PROVE  BodyOf(dr, format) \in PostBodies
<1> DEFINE alloc == IF format = "LEGACY" THEN <<>>
                    ELSE [r \in DOMAIN dr.chosen |-> dr.chosen[r].amount]
<1>1. PICK S \in SUBSET Releases : dr.chosen \in [S -> [due : Int, review : BOOLEAN, amount : Int]]
    BY DEF Drafts, Rows
<1>2. alloc \in Rows(Int)
  <2>1. [r \in S |-> dr.chosen[r].amount] \in [S -> Int]
    BY <1>1
  <2>2. [r \in S |-> dr.chosen[r].amount] \in Rows(Int)
    BY <2>1 DEF Rows
  <2>3. <<>> \in [{} -> Int]
    OBVIOUS
  <2>4. <<>> \in Rows(Int)
    BY <2>3 DEF Rows
  <2>5. DOMAIN dr.chosen = S
    BY <1>1
  <2> QED BY <2>2, <2>4, <2>5
<1> HIDE DEF alloc
<1>3. BodyOf(dr, format) =
        [format |-> format, driver |-> IF format = "LEGACY" THEN screen.driver ELSE dr.driver,
         alloc |-> alloc, loose |-> IF format = "LEGACY" THEN 0 ELSE dr.loose,
         legacy |-> IF format = "LEGACY" THEN dr.legacy ELSE 0]
    BY DEF BodyOf, alloc
<1>4. dr.driver \in Drivers /\ dr.loose \in Int /\ dr.legacy \in Int
    BY DEF Drafts
<1> QED BY <1>2, <1>3, <1>4 DEF PostBodies

LEMMA EmptyTyped == ASSUME NEW d \in Drivers PROVE Empty(d) \in Drafts
<1>1. <<>> \in [{} -> [due : Int, review : BOOLEAN, amount : Int]]
    OBVIOUS
<1>2. <<>> \in Rows([due : Int, review : BOOLEAN, amount : Int])
    BY <1>1 DEF Rows
<1> QED BY <1>2 DEF Empty, Drafts

\* A draft with other rows.
LEMMA ChosenTyped ==
    ASSUME NEW dr \in Drafts, NEW S \in SUBSET Releases,
           NEW f \in [S -> [due : Int, review : BOOLEAN, amount : Int]]
    PROVE  [dr EXCEPT !.chosen = f] \in Drafts
<1>1. f \in Rows([due : Int, review : BOOLEAN, amount : Int])
    BY DEF Rows
<1> QED BY <1>1 DEF Drafts

LEMMA ReconciledTyped ==
    ASSUME NEW dr \in Drafts, NEW d \in Drivers, NEW pos \in Positions
    PROVE  Reconciled(dr, d, pos) \in Drafts
<1> DEFINE S == DOMAIN dr.chosen \intersect DOMAIN pos.items
           f == [r \in S |-> [due |-> pos.items[r].due, review |-> pos.items[r].review,
                              amount |-> dr.chosen[r].amount]]
<1>1. CASE dr.driver # d
    BY <1>1, EmptyTyped DEF Reconciled
<1>2. CASE dr.driver = d
  <2>1. PICK A \in SUBSET Releases :
           dr.chosen \in [A -> [due : Int, review : BOOLEAN, amount : Int]]
    BY DEF Drafts, Rows
  <2>2. PICK B \in SUBSET Releases : pos.items \in [B -> [due : Int, review : BOOLEAN]]
    BY DEF Positions, Rows
  <2>3. S \in SUBSET Releases
    BY <2>1
  <2>4. \A r \in S : pos.items[r] \in [due : Int, review : BOOLEAN] /\ dr.chosen[r].amount \in Int
    BY <2>1, <2>2
  <2>5. f \in [S -> [due : Int, review : BOOLEAN, amount : Int]]
    BY <2>4
  <2>6. Reconciled(dr, d, pos) = [dr EXCEPT !.chosen = f]
    BY <1>2 DEF Reconciled
  <2> HIDE DEF f, S
  <2> QED BY <2>3, <2>5, <2>6, ChosenTyped
<1> QED BY <1>1, <1>2

LEMMA PreselectedTyped ==
    ASSUME NEW dr \in Drafts, NEW pos \in Positions, NEW limit \in Int
    PROVE  [dr EXCEPT !.chosen = Preselected(pos, limit)] \in Drafts
<1> DEFINE due == [r \in DOMAIN pos.items |-> pos.items[r].due]
           left(r) == limit - SumFunctionOnSet(due, {x \in DOMAIN due : x < r})
           S == {r \in DOMAIN pos.items : limit = 0 \/ left(r) > 0}
           f == [r \in S |->
                   [due |-> pos.items[r].due, review |-> pos.items[r].review,
                    amount |-> IF limit = 0 \/ left(r) >= pos.items[r].due
                               THEN pos.items[r].due ELSE left(r)]]
<1>1. PICK B \in SUBSET Releases : pos.items \in [B -> [due : Int, review : BOOLEAN]]
    BY DEF Positions, Rows
<1>2. \A r \in B : pos.items[r].due \in Int /\ pos.items[r].review \in BOOLEAN
    BY <1>1
<1>3. IsFiniteSet(B) /\ DOMAIN pos.items = B
    BY <1>1, ReleasesAssumption, FS_Subset
<1>4. ASSUME NEW r PROVE left(r) \in Int
  <2> DEFINE T == {x \in DOMAIN due : x < r}
  <2>1. T \subseteq B /\ \A x \in T : due[x] \in Int
    BY <1>2, <1>3
  <2>2. IsFiniteSet(T)
    BY <1>3, <2>1, FS_Subset
  <2> HIDE DEF T, due
  <2>3. SumFunctionOnSet(due, T) \in Int
    BY <2>1, <2>2, SumIsInt DEF Summable
  <2> QED BY <2>3 DEF T
<1>5. Preselected(pos, limit) = f
    BY DEF Preselected
<1> HIDE DEF left
<1>6. S \in SUBSET Releases
    BY <1>3
<1>7. f \in [S -> [due : Int, review : BOOLEAN, amount : Int]]
    BY <1>2, <1>3, <1>4
<1> HIDE DEF f, S
<1> QED BY <1>5, <1>6, <1>7, ChosenTyped

ViewTyped(v) == v = [screen |-> v.screen, draft |-> v.draft] /\ v.draft \in Drafts

LEMMA OneResumedTyped ==
    ASSUME NEW v, ViewTyped(v), NEW w \in Awaited, NEW pos \in Positions
    PROVE  ViewTyped(Resumed(v, w, pos))
<1> DEFINE r == Resumed(v, w, pos)
           dr == Reconciled(w.draft, w.driver, pos)
<1>1. dr \in Drafts
    BY ReconciledTyped DEF Awaited
<1>2. \/ r = [v EXCEPT !.draft = dr]
      \/ r = [v EXCEPT !.screen.checking = FALSE, !.draft = dr]
      \/ r = [v EXCEPT !.screen.checking = FALSE, !.screen.step = "confirm"]
      \/ r = [v EXCEPT !.screen.checking = FALSE, !.screen.step = v.screen.step]
    BY DEF Resumed
<1> HIDE DEF dr, r
<1>3. r = [screen |-> r.screen, draft |-> r.draft] /\ r.draft \in {dr, v.draft}
  <2>0. v = [screen |-> v.screen, draft |-> v.draft]
    BY DEF ViewTyped
  <2>1. CASE r = [v EXCEPT !.draft = dr]
    BY <2>0, <2>1
  <2>2. CASE r = [v EXCEPT !.screen.checking = FALSE, !.draft = dr]
    BY <2>0, <2>2
  <2>3. CASE r = [v EXCEPT !.screen.checking = FALSE, !.screen.step = "confirm"]
    BY <2>0, <2>3
  <2>4. CASE r = [v EXCEPT !.screen.checking = FALSE, !.screen.step = v.screen.step]
    BY <2>0, <2>4
  <2> QED BY <1>2, <2>1, <2>2, <2>3, <2>4
<1> QED BY <1>1, <1>3 DEF ViewTyped, r

LEMMA AllResumedTyped ==
    ASSUME NEW seen, ViewTyped(seen), NEW ws, NEW pos \in Positions,
           IsFiniteSet(DOMAIN ws), DOMAIN ws \subseteq Nat,
           \A i \in DOMAIN ws : ws[i] \in Awaited
    PROVE  AllResumed(seen, ws, pos).draft \in Drafts
<1> DEFINE S == DOMAIN ws
           g == CHOOSE h : Resumes(h, seen, ws, pos, S)
           Good == {s \in SUBSET S : ViewTyped(g[s])}
<1>1. Resumes(g, seen, ws, pos, S)
    BY FoldExists
<1> HIDE DEF g
<1>2. ASSUME NEW s \in SUBSET S, \A x \in s : s \ {x} \in Good
      PROVE  s \in Good
  <2>1. CASE s = {}
    <3>1. g[s] = seen
        BY <1>1, <2>1 DEF Resumes
    <3> QED BY <3>1
  <2>2. CASE s # {}
    <3>1. PICK m \in s : m = Max(s)
        BY <2>2, Largest
    <3>2. g[s] = Resumed(g[s \ {m}], ws[m], pos)
        BY <1>1, <2>2, <3>1 DEF Resumes
    <3>3. ViewTyped(g[s \ {m}]) /\ ws[m] \in Awaited
        BY <1>2
    <3>4. ViewTyped(g[s])
        BY <3>2, <3>3, OneResumedTyped
    <3> QED BY <3>4
  <2> QED BY <2>1, <2>2
<1> HIDE DEF Good
<1>3. S \in Good
  <2>1. IsFiniteSet(S)
    OBVIOUS
  <2> HIDE DEF S
  <2>2. \A s \in SUBSET S : s \in Good
    BY <1>2, <2>1, SetInduction
  <2> QED BY <2>2
<1>4. ViewTyped(g[S])
    BY <1>3 DEF Good
<1>5. AllResumed(seen, ws, pos) = g[S]
    BY FoldOfResumed DEF g
<1> QED BY <1>4, <1>5 DEF ViewTyped

LEMMA AskedTyped ==
    ASSUME SettlementTyped, NEW d \in Drivers
    PROVE  Asked(d) \in [Drivers -> Positions \union {NoCall, Sent}]
BY DEF SettlementTyped, PositionsTyped, Asked

LEMMA AwaitedTyped ==
    ASSUME SettlementTyped, SettlementInductive, NEW d \in Drivers, NEW w \in Awaited,
           waiting' = [waiting EXCEPT ![d] = Append(@, w)]
    PROVE  WaitingTyped'
<1>1. \A x \in Drivers : waiting'[x] = IF x = d THEN Append(waiting[d], w) ELSE waiting[x]
    BY DEF SettlementInductive, Shapes
<1>2. Listed(waiting[d])
    BY DEF SettlementInductive, Reviewed
<1>3. ASSUME NEW x \in Drivers, NEW i \in DOMAIN waiting'[x]
      PROVE  waiting'[x][i] \in Awaited
  <2>1. CASE x # d
    BY <1>1, <1>3, <2>1 DEF SettlementTyped, WaitingTyped
  <2>2. CASE x = d
    <3>1. i \in DOMAIN Append(waiting[d], w) /\ waiting'[x][i] = Append(waiting[d], w)[i]
      BY <1>1, <1>3, <2>2
    <3>2. Append(waiting[d], w)[i] = w
          \/ (i \in DOMAIN waiting[d] /\ Append(waiting[d], w)[i] = waiting[d][i])
      BY <1>2, <3>1, ListedAppend
    <3> QED BY <3>1, <3>2 DEF SettlementTyped, WaitingTyped
  <2> QED BY <2>1, <2>2
<1> QED BY <1>3 DEF WaitingTyped

LEMMA EditsTyped ==
    ASSUME SettlementTyped, NEW n \in Int, screen.driver \in Drivers,
           \/ \E r \in Releases : Select(r) \/ Deselect(r) \/ SetAmount(r, n)
           \/ Preselect(n) \/ TypeCash(n)
    PROVE  draft' \in Drafts
<1> DEFINE Row == [due : Int, review : BOOLEAN, amount : Int]
<1>1. draft \in Drafts /\ PositionsTyped
    BY DEF SettlementTyped
<1>2. PICK A \in SUBSET Releases : draft.chosen \in [A -> Row]
    BY <1>1 DEF Drafts, Rows
<1>3. Known(screen.driver) => position[screen.driver] \in Positions
    BY <1>1 DEF PositionsTyped, Known
<1>4. ASSUME NEW r \in Releases, Select(r) PROVE draft' \in Drafts
  <2> DEFINE item == position[screen.driver].items[r]
             row == [due |-> item.due, review |-> item.review, amount |-> item.due]
             f == [x \in A \union {r} |-> IF x = r THEN row ELSE draft.chosen[x]]
  <2>1. draft' = [draft EXCEPT !.chosen = f]
    BY <1>2, <1>4 DEF Select, Edit
  <2>2. item \in [due : Int, review : BOOLEAN]
    BY <1>3, <1>4 DEF Select, Positions, Rows
  <2>3. row \in Row
    BY <2>2
  <2>4. f \in [A \union {r} -> Row]
    <3> HIDE DEF row
    <3> QED BY <1>2, <2>3
  <2> HIDE DEF f, Row
  <2> QED BY <1>1, <2>1, <2>4, ChosenTyped DEF Row
<1>5. ASSUME NEW r \in Releases, Deselect(r) PROVE draft' \in Drafts
  <2> DEFINE f == [x \in A \ {r} |-> draft.chosen[x]]
  <2>1. draft' = [draft EXCEPT !.chosen = f]
    BY <1>2, <1>5 DEF Deselect, Edit
  <2>2. f \in [A \ {r} -> Row]
    BY <1>2
  <2> HIDE DEF f, Row
  <2> QED BY <1>1, <2>1, <2>2, ChosenTyped DEF Row
<1>6. ASSUME NEW r \in Releases, SetAmount(r, n) PROVE draft' \in Drafts
  <2> DEFINE f == [draft.chosen EXCEPT ![r].amount = n]
  <2>1. draft' = [draft EXCEPT !.chosen = f] /\ r \in A
    BY <1>1, <1>2, <1>6 DEF SetAmount, Edit, Drafts
  <2>2. f \in [A -> Row]
    BY <1>2, <2>1
  <2> HIDE DEF f, Row
  <2> QED BY <1>1, <2>1, <2>2, ChosenTyped DEF Row
<1>7. CASE Preselect(n)
    BY <1>1, <1>3, <1>7, PreselectedTyped DEF Preselect, Edit
<1>8. CASE TypeCash(n)
    BY <1>1, <1>8 DEF TypeCash, Drafts
<1> QED BY <1>4, <1>5, <1>6, <1>7, <1>8

LEMMA BooksTyped ==
    ASSUME SettlementTyped,
           \/ \E r \in posts : CreateSettlement(r)
           \/ \E r \in Releases : OthersActOn(r)
           \/ \E d \in Drivers : OthersTake(d)
    PROVE  books' \in Books
<1>1. books \in Books /\ PostsTyped
    BY DEF SettlementTyped
<1>2. ASSUME NEW r \in posts, CreateSettlement(r) PROVE books' \in Books
  <2>1. books' = Debited(r.body) \/ books' = books
    BY <1>2 DEF CreateSettlement, server
  <2> QED BY <1>1, <2>1, DebitedTyped DEF PostsTyped
<1>3. ASSUME NEW r \in Releases, OthersActOn(r) PROVE books' \in Books
  <2>1. books.due[r] - 1 \in Int
    BY <1>1 DEF Books
  <2>2. [books EXCEPT !.due[r] = @ - 1] \in Books
    BY <1>1 DEF Books
  <2>3. [books EXCEPT !.status[r] = "VOIDED", !.due[r] = 0] \in Books
    <3> DEFINE status == [books.status EXCEPT ![r] = "VOIDED"]
               due == [books.due EXCEPT ![r] = 0]
    <3>1. status \in [Releases -> {"PENDING", "RELEASED", "VOIDED"}] /\ due \in [Releases -> Int]
      BY <1>1 DEF Books
    <3>2. [books EXCEPT !.status = status, !.due = due] \in Books
      <4> HIDE DEF status, due
      <4> QED BY <1>1, <3>1 DEF Books
    <3> QED BY <1>1, <3>2 DEF Books
  <2>4. [books EXCEPT !.review[r] = FALSE] \in Books
    BY <1>1 DEF Books
  <2> QED BY <1>3, <2>2, <2>3, <2>4, FreedTyped DEF OthersActOn
<1>4. ASSUME NEW d \in Drivers, OthersTake(d) PROVE books' \in Books
    BY <1>1, <1>4 DEF OthersTake, Books
<1> QED BY <1>2, <1>3, <1>4

LEMMA ConcludedTyped ==
    ASSUME SettlementTyped, SettlementInductive, NEW verdict, Concluded(verdict),
           UNCHANGED <<books, posts>>
    PROVE  SettlementTyped'
<1> DEFINE d == screen.driver
           next == Rejected(draft, verdict)
           w == [why |-> "refused", driver |-> d, draft |-> next]
<1>1. d \in Drivers /\ draft \in Drafts /\ PositionsTyped /\ WaitingTyped /\ PostsTyped
    BY DEF SettlementTyped, SettlementInductive, Shapes, ScreenShape
<1>2. next \in Drafts
  <2>1. PICK A \in SUBSET Releases :
           draft.chosen \in [A -> [due : Int, review : BOOLEAN, amount : Int]]
    BY <1>1 DEF Drafts, Rows
  <2>2. CASE next = draft
    BY <1>1, <2>2
  <2>3. CASE next # draft
    <3> DEFINE f == [r \in A \ {verdict.release} |-> draft.chosen[r]]
    <3>1. next = [draft EXCEPT !.chosen = f]
      BY <2>1, <2>3 DEF Rejected
    <3>2. f \in [A \ {verdict.release} -> [due : Int, review : BOOLEAN, amount : Int]]
      BY <2>1
    <3> HIDE DEF f, next
    <3> QED BY <1>1, <3>1, <3>2, ChosenTyped
  <2> QED BY <2>2, <2>3
<1>3. w \in Awaited
    BY <1>1, <1>2 DEF Awaited
<1>4. /\ draft' \in {draft, next} /\ fetch' \in {fetch, Asked(d)} /\ position' = position
      /\ waiting' = waiting \/ waiting' = [waiting EXCEPT ![d] = Append(@, w)]
  <2>1. position' = position
    BY DEF Concluded
  <2>2. CASE verdict.kind = "ok"
    <3>1. ~Ambiguous(verdict)
      BY <2>2 DEF Ambiguous
    <3> QED BY <2>1, <2>2, <3>1 DEF Concluded
  <2>3. CASE Ambiguous(verdict)
    <3>1. verdict.kind # "ok"
      BY <2>3 DEF Ambiguous
    <3> QED BY <2>1, <2>3, <3>1 DEF Concluded
  <2>4. CASE verdict.kind # "ok" /\ ~Ambiguous(verdict)
    <3>1. /\ draft' = next
          /\ IF ~Refreshing(verdict) THEN UNCHANGED <<fetch, waiting>>
             ELSE /\ fetch' = Asked(d)
                  /\ waiting' = IF ~Allocating THEN waiting
                                ELSE [waiting EXCEPT ![d] = Append(@, w)]
      BY <2>4 DEF Concluded
    <3> HIDE DEF w, next, d
    <3> QED BY <2>1, <3>1
  <2> QED BY <2>2, <2>3, <2>4
<1> HIDE DEF w, next, d
<1>5. WaitingTyped'
  <2>1. CASE waiting' = waiting
    BY <1>1, <2>1 DEF WaitingTyped
  <2>2. CASE waiting' = [waiting EXCEPT ![d] = Append(@, w)]
    BY <1>1, <1>3, <2>2, AwaitedTyped
  <2> QED BY <1>4, <2>1, <2>2
<1>6. PositionsTyped'
    BY <1>1, <1>4, AskedTyped DEF PositionsTyped
<1> QED BY <1>1, <1>2, <1>4, <1>5, <1>6 DEF SettlementTyped, PostsTyped

LEMMA ArriveTyped ==
    ASSUME SettlementTyped, SettlementInductive, NEW d \in Drivers, Arrive(d)
    PROVE  SettlementTyped'
<1> DEFINE pos == fetch[d]
           seen == Seen(d, pos)
           ws == waiting[d]
<1>1. draft \in Drafts /\ PositionsTyped /\ WaitingTyped
    BY DEF SettlementTyped
<1>2. /\ UNCHANGED <<books, posts>>
      /\ draft' = AllResumed(seen, ws, pos).draft
      /\ position' = [position EXCEPT ![d] = pos] /\ fetch' = [fetch EXCEPT ![d] = NoCall]
      /\ waiting' = [waiting EXCEPT ![d] = <<>>]
    BY DEF Arrive, wire, server
<1>3. pos \in Positions
    BY <1>1 DEF Arrive, Fetching, PositionsTyped
<1>4. ViewTyped(seen)
    BY <1>1, <1>3, ReconciledTyped DEF Seen, ViewTyped
<1>5. /\ IsFiniteSet(DOMAIN ws) /\ DOMAIN ws \subseteq Nat
      /\ \A i \in DOMAIN ws : ws[i] \in Awaited
    BY <1>1, ListedFinite DEF SettlementInductive, Reviewed, WaitingTyped
<1>6. \A x \in Drivers : waiting'[x] = IF x = d THEN <<>> ELSE waiting[x]
    BY <1>2 DEF SettlementInductive, Shapes
<1> HIDE DEF seen, ws, pos
<1>7. draft' \in Drafts
    BY <1>2, <1>3, <1>4, <1>5, AllResumedTyped
<1>8. PositionsTyped'
    BY <1>1, <1>2, <1>3 DEF PositionsTyped
<1>9. WaitingTyped'
    BY <1>1, <1>6 DEF WaitingTyped
<1> QED BY <1>2, <1>7, <1>8, <1>9 DEF SettlementTyped, PostsTyped

LEMMA SettlementStaysTyped ==
    ASSUME SettlementTyped, SettlementInductive, [SettlementNext]_settlementVars
    PROVE  SettlementTyped'
<1>1. /\ screen.driver \in Drivers /\ books \in Books /\ draft \in Drafts
      /\ PositionsTyped /\ WaitingTyped /\ PostsTyped
    BY DEF SettlementTyped, SettlementInductive, Shapes, ScreenShape
<1>2. CASE OpenSettlement \/ \E d \in Drivers : SwitchDriver(d)
  <2>1. PICK d \in Drivers : fetch' = Asked(d) /\ draft' \in {draft, Empty(d)}
    BY <1>2 DEF OpenSettlement, SwitchDriver
  <2>2. UNCHANGED <<books, posts, position, waiting>>
    BY <1>2 DEF OpenSettlement, SwitchDriver, server, wire
  <2> QED
    BY <1>1, <2>1, <2>2, AskedTyped, EmptyTyped
       DEF SettlementTyped, PositionsTyped, WaitingTyped, PostsTyped
<1>3. CASE CloseSettlement \/ BackToForm \/ \E r \in posts : PostLost(r)
    BY <1>1, <1>3
       DEF CloseSettlement, BackToForm, PostLost, server, wire, reads, settlementDialog,
           SettlementTyped, PositionsTyped, WaitingTyped, PostsTyped
<1>4. CASE GoToConfirm
  <2> DEFINE d == screen.driver
             w == [why |-> "review", driver |-> d, draft |-> draft]
  <2>1. w \in Awaited
    BY <1>1 DEF Awaited
  <2>2. /\ UNCHANGED <<books, posts, position, draft>>
        /\ \/ UNCHANGED <<fetch, waiting>>
           \/ fetch' = Asked(d) /\ waiting' = [waiting EXCEPT ![d] = Append(@, w)]
    BY <1>4 DEF GoToConfirm, server, wire
  <2> HIDE DEF w
  <2>3. WaitingTyped'
    BY <1>1, <2>1, <2>2, AwaitedTyped DEF WaitingTyped
  <2> QED
    BY <1>1, <2>2, <2>3, AskedTyped DEF SettlementTyped, PositionsTyped, PostsTyped
<1>5. CASE RunSettlement
  <2> DEFINE body == BodyOf(draft, Current)
  <2>1. \E c : posts' = posts \union {c} /\ c.body = body
    BY <1>5 DEF RunSettlement
  <2>2. UNCHANGED <<books, draft, position, fetch, waiting>>
    BY <1>5 DEF RunSettlement, server, reads
  <2>3. body \in PostBodies
    BY <1>1, BodyTyped DEF Current, Format
  <2> HIDE DEF body
  <2> QED
    BY <1>1, <2>1, <2>2, <2>3 DEF SettlementTyped, PositionsTyped, WaitingTyped, PostsTyped
<1>6. CASE PostFails \/ \E a \in replies : PostAnswered(a)
    BY <1>6, ConcludedTyped DEF PostFails, PostAnswered, server
<1>7. ASSUME NEW r \in Releases, NEW n \in Int,
             Select(r) \/ Deselect(r) \/ SetAmount(r, n)
      PROVE  SettlementTyped'
  <2>1. draft' \in Drafts
    BY <1>1, <1>7, EditsTyped
  <2>2. UNCHANGED <<books, position, fetch, waiting, posts>>
    BY <1>7 DEF Select, Deselect, SetAmount, Edit, server, wire, reads
  <2> QED
    BY <1>1, <2>1, <2>2 DEF SettlementTyped, PositionsTyped, WaitingTyped, PostsTyped
<1>8. ASSUME NEW n \in Int, Preselect(n) \/ TypeCash(n)
      PROVE  SettlementTyped'
  <2>1. draft' \in Drafts
    BY <1>1, <1>8, EditsTyped
  <2>2. UNCHANGED <<books, position, fetch, waiting, posts>>
    BY <1>8 DEF Preselect, TypeCash, Edit, server, wire, reads
  <2> QED
    BY <1>1, <2>1, <2>2 DEF SettlementTyped, PositionsTyped, WaitingTyped, PostsTyped
<1>9. CASE \/ \E r \in posts : CreateSettlement(r)
           \/ \E r \in Releases : OthersActOn(r)
           \/ \E d \in Drivers : OthersTake(d)
  <2>1. books' \in Books
    BY <1>9, BooksTyped
  <2>2. UNCHANGED <<draft, position, fetch, waiting>> /\ posts' \subseteq posts
    BY <1>9 DEF CreateSettlement, OthersActOn, OthersTake, settlementDialog, wire, reads
  <2> QED
    BY <1>1, <2>1, <2>2 DEF SettlementTyped, PositionsTyped, WaitingTyped, PostsTyped
<1>10. ASSUME NEW d \in Drivers, Refetch(d) \/ ReadPosition(d)
       PROVE  SettlementTyped'
  <2>1. UNCHANGED <<books, draft, position, waiting, posts>>
    BY <1>10 DEF Refetch, ReadPosition, server, settlementDialog, wire
  <2>2. fetch' \in {fetch, Asked(d), [fetch EXCEPT ![d] = Snapshot(d)]}
    BY <1>10 DEF Refetch, ReadPosition
  <2>3. PositionsTyped'
    BY <1>1, <2>1, <2>2, AskedTyped, SnapshotTyped DEF PositionsTyped
  <2> QED BY <1>1, <2>1, <2>3 DEF SettlementTyped, WaitingTyped, PostsTyped
<1>11. ASSUME NEW d \in Drivers, FetchFails(d)
       PROVE  SettlementTyped'
  <2>1. /\ UNCHANGED <<books, draft, position, posts>>
        /\ fetch' = [fetch EXCEPT ![d] = NoCall] /\ waiting' = [waiting EXCEPT ![d] = <<>>]
    BY <1>11 DEF FetchFails, server, wire
  <2>2. \A x \in Drivers : waiting'[x] = IF x = d THEN <<>> ELSE waiting[x]
    BY <2>1 DEF SettlementInductive, Shapes
  <2>3. WaitingTyped'
    BY <1>1, <2>2 DEF WaitingTyped
  <2> QED BY <1>1, <2>1, <2>3 DEF SettlementTyped, PositionsTyped, PostsTyped
<1>12. CASE UNCHANGED settlementVars
    BY <1>1, <1>12
       DEF settlementVars, server, settlementDialog, wire, reads,
           SettlementTyped, PositionsTyped, WaitingTyped, PostsTyped
<1>13. 1..MaxDue \subseteq Int /\ 0..MaxDue \subseteq Int /\ 0..MaxLoose \subseteq Int
    OBVIOUS
<1> QED
    BY <1>2, <1>3, <1>4, <1>5, <1>6, <1>7, <1>8, <1>9, <1>10, <1>11, <1>12, <1>13, ArriveTyped
       DEF SettlementNext

LEMMA SettlementStartsTyped == SettlementInit => SettlementTyped
<1> SUFFICES ASSUME SettlementInit PROVE SettlementTyped
    OBVIOUS
<1>1. books \in Books
    BY DEF SettlementInit, Books
<1>2. draft \in Drafts
    BY EmptyTyped DEF SettlementInit
<1> QED
    BY <1>1, <1>2
       DEF SettlementInit, SettlementTyped, PositionsTyped, WaitingTyped, PostsTyped

\* The dialog's validation of a selection, at the server's present position,
\* leaves nothing that lockAndValidateAllocations would refuse.
THEOREM WhatIsValidIsAccepted == SettlementSpec => []ValidIsAccepted
<1>1. ASSUME SettlementTyped, screen.driver \in Drivers, OnForm, Allocating,
             NEW d, d = screen.driver, draft.driver = d, Known(d),
             position[d] = Snapshot(d), RowsKnown(draft, position[d]), Valid(draft, position[d])
      PROVE  Verdict(BodyOf(draft, "ALLOCATION")).kind = "ok"
  <2> DEFINE body == BodyOf(draft, "ALLOCATION")
  <2>1. /\ body.format = "ALLOCATION" /\ body.driver = d /\ body.loose = draft.loose
        /\ body.alloc = [r \in DOMAIN draft.chosen |-> draft.chosen[r].amount]
    BY <1>1 DEF BodyOf
  <2>2. /\ position[d].items = [r \in {x \in Pending(d) : books.due[x] > 0} |->
                   [due |-> books.due[r], review |-> books.review[r]]]
        /\ position[d].loose = books.loose[d]
    BY <1>1 DEF Snapshot
  <2>3. Total(body) # 0 /\ RowsValid(draft) /\ draft.loose <= position[d].loose
    BY <1>1 DEF Valid, LooseValid
  <2> HIDE DEF body
  <2>4. Bad(body) = {}
    <3> SUFFICES ASSUME NEW r \in DOMAIN body.alloc
                 PROVE  r \in Pending(body.driver) /\ ~(body.alloc[r] > books.due[r])
      BY DEF Bad
    <3>1. r \in DOMAIN draft.chosen /\ body.alloc[r] = draft.chosen[r].amount
      BY <2>1
    <3>2. r \in DOMAIN position[d].items /\ draft.chosen[r].due = position[d].items[r].due
      BY <1>1, <3>1 DEF RowsKnown
    <3>3. r \in Pending(d) /\ draft.chosen[r].due = books.due[r] 
      BY <2>2, <3>2
    <3>4. draft.chosen[r].amount \in 1..draft.chosen[r].due
      BY <2>3, <3>1 DEF RowsValid
    <3>5. books.due[r] \in Int
      BY <1>1, <3>3 DEF SettlementTyped, Books, Pending, Owned
    <3> QED BY <2>1, <3>1, <3>3, <3>4, <3>5
  <2>5. ~(body.loose > books.loose[body.driver])
    <3>1. books.loose[d] \in Int /\ draft.loose \in Int
      BY <1>1 DEF SettlementTyped, Books, Drafts
    <3> QED BY <2>1, <2>2, <2>3, <3>1
  <2>6. Verdict(body) = [kind |-> "ok"]
    BY <2>1, <2>3, <2>4, <2>5 DEF Verdict
  <2> QED BY <2>6 DEF body
<1>2. SettlementInductive /\ SettlementTyped => ValidIsAccepted
    BY <1>1 DEF ValidIsAccepted, SettlementInductive, Shapes, ScreenShape
<1> QED
    BY <1>2, SettlementStarts, SettlementSteps, SettlementStartsTyped, SettlementStaysTyped, PTL
       DEF SettlementSpec

=============================================================================
