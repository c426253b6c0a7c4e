-------------------------- MODULE IdempotentRequests --------------------------
(***************************************************************************)
(* How createPayout, createSettlement and recordSettlementShortfall keep a *)
(* client's Idempotency-Key: a read before the transaction, an advisory    *)
(* lock on the hash of the derived key, a second read under the lock, the  *)
(* conditional debit under the row lock, and the unique row written by the *)
(* commit.  Each database call of a handler is a step of its own.          *)
(*                                                                         *)
(* A derived key names the operation and the actor, so two operations      *)
(* never share a key; two keys may share a lock, whose id is a 32-bit      *)
(* hash.  A fund is the row the operation draws on: a customer's wallet, a *)
(* driver's cash account, or what is left of a settlement that a shortfall *)
(* is recorded against.                                                    *)
(***************************************************************************)
EXTENDS Integers, FiniteSetsExt

CONSTANTS
    Requests,       \* HTTP requests; a client's retry is another request
    Keys,           \* derived keys
    Locks,          \* ids of advisory locks
    Funds,
    LockOf,         \* hashtext of the derived key
    OperationOf,    \* the operation a key was derived for
    OperationOn,    \* the operation that draws on a fund
    MaxAttempts,    \* MAX_IDENTIFIER_ATTEMPTS
    MaxAmount,      \* bound: largest amount asked for
    MaxCredit,      \* bound: what other transactions put in a fund, in all
    Nothing,
    Nobody

Operations == {"payout", "settlement", "settlement-shortfall"}

ASSUME KeysAssumption ==
    /\ LockOf \in [Keys -> Locks]
    /\ OperationOf \in [Keys -> Operations]
    /\ OperationOn \in [Funds -> Operations]

ASSUME BoundsAssumption ==
    /\ MaxAttempts \in Nat \ {0}
    /\ MaxAmount \in Nat
    /\ MaxCredit \in Nat

\* The fields a replay must repeat: the fund and the amount stand for all of
\* them (customer or driver, amount, payment method, notes, allocations).
Inputs == {i \in [key : Keys, fund : Funds, amount : 1..MaxAmount] :
              OperationOf[i.key] = OperationOn[i.fund]}

ASSUME NamesAssumption ==
    /\ Nothing \notin Inputs
    /\ Nobody \notin Requests

VARIABLES
    recorded,   \* the row with the key (UNIQUE): what was asked when it was written
    reversed,   \* keys whose payout or settlement was reversed since
    available,  \* the fund's committed balance
    credited,   \* what other transactions put in it, net
    keyLock,    \* holder of pg_advisory_xact_lock
    rowLock,    \* holder of the fund's row lock
    pc,         \* the call a request makes next
    asked,
    tries,      \* identifier attempts used
    outcome     \* the answer

vars == <<recorded, reversed, available, credited, keyLock, rowLock, pc, asked,
          tries, outcome>>
database == <<recorded, reversed, available, credited>>

Stages == {"idle", "check", "lock", "recheck", "apply", "commit", "answer", "done"}
Locked == {"recheck", "apply", "commit"}
Outcomes == {"NONE", "DONE", "REUSED", "REFUSED", "FAILED"}

KeyOf(r) == asked[r].key
FundOf(r) == asked[r].fund
Amount(r) == asked[r].amount
Operation(r) == OperationOf[KeyOf(r)]

Init ==
    /\ recorded = [k \in Keys |-> Nothing]
    /\ reversed = {}
    /\ available = [f \in Funds |-> 0]
    /\ credited = [f \in Funds |-> 0]
    /\ keyLock = [l \in Locks |-> Nobody]
    /\ rowLock = [f \in Funds |-> Nobody]
    /\ pc = [r \in Requests |-> "idle"]
    /\ asked = [r \in Requests |-> Nothing]
    /\ tries = [r \in Requests |-> 0]
    /\ outcome = [r \in Requests |-> "NONE"]

-----------------------------------------------------------------------------
(* Steps of a transaction *)

\* Mutant: a session-level advisory lock, which a rollback or commit keeps.
EndTransactionOnly(r) ==
    /\ rowLock' = [f \in Funds |-> IF rowLock[f] = r THEN Nobody ELSE rowLock[f]]
    /\ keyLock' = keyLock

\* COMMIT or ROLLBACK frees every lock of the transaction.
EndTransaction(r) ==
    /\ rowLock' = [f \in Funds |-> IF rowLock[f] = r THEN Nobody ELSE rowLock[f]]
    /\ keyLock' = [l \in Locks |-> IF keyLock[l] = r THEN Nobody ELSE keyLock[l]]

Goto(r, stage) == pc' = [pc EXCEPT ![r] = stage]

\* The handler returns or throws, its transaction over.
End(r, answer) ==
    /\ Goto(r, "done")
    /\ outcome' = [outcome EXCEPT ![r] = answer]
    /\ EndTransaction(r)

Receive(r) ==
    /\ pc[r] = "idle"
    /\ \E i \in Inputs : asked' = [asked EXCEPT ![r] = i]
    /\ Goto(r, "check")
    /\ UNCHANGED <<database, keyLock, rowLock, tries, outcome>>

\* The read before the transaction answers a replay whose original committed.
FastPath(r) ==
    /\ pc[r] = "check"
    /\ Goto(r, IF recorded[KeyOf(r)] = Nothing THEN "lock" ELSE "answer")
    /\ UNCHANGED <<database, keyLock, rowLock, asked, tries, outcome>>

\* A new shortfall is refused where the deployment has not approved them.
PolicyRefuses(r) ==
    /\ pc[r] = "check"
    /\ Operation(r) = "settlement-shortfall"
    /\ recorded[KeyOf(r)] = Nothing
    /\ End(r, "REFUSED")
    /\ UNCHANGED <<database, asked, tries>>

Lock(r) ==
    /\ pc[r] = "lock"
    /\ keyLock[LockOf[KeyOf(r)]] = Nobody
    /\ keyLock' = [keyLock EXCEPT ![LockOf[KeyOf(r)]] = r]
    /\ Goto(r, "recheck")
    /\ UNCHANGED <<database, rowLock, asked, tries, outcome>>

\* Mutant: no second read under the lock.
RecheckNothing(r) ==
    /\ pc[r] = "recheck"
    /\ Goto(r, "apply")
    /\ UNCHANGED <<database, keyLock, rowLock, asked, tries, outcome>>

\* The read under the lock: a replay leaves the transaction, its mismatch
\* (409) included, which the payout's catch reads and raises once more.
Recheck(r) ==
    /\ pc[r] = "recheck"
    /\ IF recorded[KeyOf(r)] = Nothing
       THEN Goto(r, "apply") /\ UNCHANGED <<keyLock, rowLock>>
       ELSE Goto(r, "answer") /\ EndTransaction(r)
    /\ UNCHANGED <<database, asked, tries, outcome>>

\* Mutant: the balance is checked without the row lock.
ApplyWithoutRowLock(r) ==
    /\ pc[r] = "apply"
    /\ available[FundOf(r)] >= Amount(r)
    /\ rowLock' = [rowLock EXCEPT ![FundOf(r)] = r]
    /\ Goto(r, "commit")
    /\ UNCHANGED <<database, keyLock, asked, tries, outcome>>

\* The conditional debit, or the check under the account's row lock: both wait
\* for the lock and decide on the committed balance.
Apply(r) ==
    /\ pc[r] = "apply"
    /\ rowLock[FundOf(r)] = Nobody
    /\ available[FundOf(r)] >= Amount(r)
    /\ rowLock' = [rowLock EXCEPT ![FundOf(r)] = r]
    /\ Goto(r, "commit")
    /\ UNCHANGED <<database, keyLock, asked, tries, outcome>>

\* Too little in the fund; a settlement is also refused for its allocations,
\* and a shortfall for a settlement that was reversed.
Refuse(r) ==
    /\ pc[r] = "apply"
    /\ rowLock[FundOf(r)] = Nobody
    /\ \/ available[FundOf(r)] < Amount(r)
       \/ Operation(r) # "payout"
    /\ End(r, "REFUSED")
    /\ UNCHANGED <<database, asked, tries>>

Commit(r) ==
    /\ pc[r] = "commit"
    /\ recorded' = [recorded EXCEPT ![KeyOf(r)] = asked[r]]
    /\ available' = [available EXCEPT ![FundOf(r)] = @ - Amount(r)]
    /\ Goto(r, "answer")
    /\ EndTransaction(r)
    /\ UNCHANGED <<reversed, credited, asked, tries, outcome>>

\* The generated payout or settlement number exists: rollback and another
\* attempt, which starts from the advisory lock again.  The payout's row is
\* inserted before its debit, the settlement's after it.
NumberTaken(r) ==
    /\ \/ pc[r] = "apply" /\ Operation(r) = "payout"
       \/ pc[r] = "commit" /\ Operation(r) = "settlement"
    /\ tries' = [tries EXCEPT ![r] = @ + 1]
    /\ IF tries[r] + 1 < MaxAttempts
       THEN Goto(r, "lock") /\ EndTransaction(r) /\ UNCHANGED outcome
       ELSE End(r, "FAILED")
    /\ UNCHANGED <<database, asked>>

\* The response: the recorded request's, or 409 for another one under its key.
Answer(r) ==
    /\ pc[r] = "answer"
    /\ End(r, IF recorded[KeyOf(r)] = asked[r] THEN "DONE" ELSE "REUSED")
    /\ UNCHANGED <<database, asked, tries>>

\* Transaction timeout, lost connection or server crash: what was not
\* committed is rolled back, and the client is left without an answer.
Abort(r) ==
    /\ pc[r] \notin {"idle", "done"}
    /\ End(r, "FAILED")
    /\ UNCHANGED <<database, asked, tries>>

-----------------------------------------------------------------------------
(* Other transactions *)

\* A reversal puts the amount back; its own unique key and the status claim
\* let it happen once.  The original's row and key stay.
ReverseMovement(k) ==
    /\ recorded[k] # Nothing
    /\ k \notin reversed
    /\ OperationOf[k] # "settlement-shortfall"
    /\ LET f == recorded[k].fund IN
          /\ rowLock[f] = Nobody
          /\ available' = [available EXCEPT ![f] = @ + recorded[k].amount]
    /\ reversed' = reversed \cup {k}
    /\ UNCHANGED <<recorded, credited, keyLock, rowLock, pc, asked, tries, outcome>>

\* An order credit, a collection, a new settlement, a credit adjustment.
Credit(f) ==
    /\ rowLock[f] = Nobody
    /\ credited[f] < MaxCredit
    /\ available' = [available EXCEPT ![f] = @ + 1]
    /\ credited' = [credited EXCEPT ![f] = @ + 1]
    /\ UNCHANGED <<recorded, reversed, keyLock, rowLock, pc, asked, tries, outcome>>

\* A debit adjustment, or the reversal of a credit.
Debit(f) ==
    /\ OperationOn[f] # "settlement-shortfall"
    /\ rowLock[f] = Nobody
    /\ available[f] > 0
    /\ available' = [available EXCEPT ![f] = @ - 1]
    /\ credited' = [credited EXCEPT ![f] = @ - 1]
    /\ UNCHANGED <<recorded, reversed, keyLock, rowLock, pc, asked, tries, outcome>>

-----------------------------------------------------------------------------

\* What a handler does by itself; failures and number conflicts are not its own.
Proceed(r) ==
    FastPath(r) \/ Lock(r) \/ Recheck(r) \/ Apply(r) \/ Refuse(r) \/ Commit(r) \/ Answer(r)

Next ==
    \/ \E r \in Requests : Receive(r) \/ PolicyRefuses(r) \/ Proceed(r)
                            \/ NumberTaken(r) \/ Abort(r)
    \/ \E k \in Keys : ReverseMovement(k)
    \/ \E f \in Funds : Credit(f) \/ Debit(f)

Spec == Init /\ [][Next]_vars

-----------------------------------------------------------------------------
(* Properties *)

\* Every variable has its type; the identifier attempts stay within their limit.
TypeInvariant ==
    /\ recorded \in [Keys -> Inputs \cup {Nothing}]
    /\ reversed \subseteq Keys
    /\ available \in [Funds -> Int]
    /\ credited \in [Funds -> Int]
    /\ keyLock \in [Locks -> Requests \cup {Nobody}]
    /\ rowLock \in [Funds -> Requests \cup {Nobody}]
    /\ pc \in [Requests -> Stages]
    /\ asked \in [Requests -> Inputs \cup {Nothing}]
    /\ tries \in [Requests -> 0..MaxAttempts]
    /\ outcome \in [Requests -> Outcomes]

\* The unique index on the key is never hit: a transaction about to write its
\* row finds no row with its key, which the catch clauses of both creators
\* call structurally impossible and keep only as a defence.
KeysNeverCollide ==
    \A r \in Requests : pc[r] = "commit" => recorded[KeyOf(r)] = Nothing

\* Concurrent requests under different keys, and so under different advisory
\* locks, never take out of a fund more than it holds.
NeverOverdrawn == \A f \in Funds : available[f] >= 0

Promise == INSTANCE OncePerKey WITH effect <- recorded

\* Every interleaving of retries, replays and failures keeps the promise of an
\* Idempotency-Key: one effect, and answers that are true of it; a retry of a
\* payout that emptied the wallet is never refused for want of money.
ImplementsOncePerKey == Promise!Spec

\* Every request ends: no number conflict, crash of a holder or lock shared by
\* two keys leaves a handler waiting for ever.
EveryRequestEnds == \A r \in Requests : (pc[r] = "check") ~> (pc[r] = "done")
=============================================================================
