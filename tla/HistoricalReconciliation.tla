----------------------- MODULE HistoricalReconciliation -----------------------
(***************************************************************************)
(* Ledger rows of a driver's cash account were deleted by hand.  The next  *)
(* surviving row (the anchor) then starts from a balance its predecessor   *)
(* does not end with.  An ADMIN proposes that one surviving audit explains *)
(* the gap, a FINANCE user approves or rejects it, an ADMIN may withdraw a *)
(* proposal or revoke an approval.  Nothing is ever edited: records and    *)
(* decisions only accumulate, and what a record is worth is worked out     *)
(* from the ledger each time it is read.                                   *)
(*                                                                         *)
(* A request locks its key and the account in one step (it waits for both  *)
(* and does nothing while it waits), checks, and then inserts in a second  *)
(* step: meanwhile other accounts' requests and writes by hand go on.      *)
(***************************************************************************)
EXTENDS Integers, FiniteSets, Functions

CONSTANTS
    Procs, Users, RawKeys,
    Accounts,
    Rows,            \* the chain as it was posted: row |-> account, at, before, after
    Losses,          \* sets of rows; one of them is missing at the start
    Audits,          \* audit |-> order, missing row, at, amount
    Roles,           \* the roles a user may start with: user |-> role
    NewRows,         \* the row ids of later postings
    PostTimes,       \* when a later posting may be stamped
    MaxAsks,         \* bound: how many requests are made
    MaxChanges,      \* bound: how many changes of a role, and writes by hand
    None

NoRow == 0

Delta(row) == row.after - row.before

ASSUME RowsAssumption ==
    /\ IsFiniteSet(DOMAIN Rows) /\ DOMAIN Rows \cup NewRows \subseteq Nat \ {NoRow}
    /\ DOMAIN Rows \cap NewRows = {}
    /\ \A t \in DOMAIN Rows :
          Rows[t] \in [account : Accounts, at : Nat, before : Int, after : Int]
    /\ IsFiniteSet(Accounts) /\ PostTimes \subseteq Nat

\* The audit is written with the delivery's one collection row.
ASSUME AuditsAssumption ==
    /\ \A u \in DOMAIN Audits :
          /\ Audits[u].missing \in DOMAIN Rows /\ Audits[u].at \in Nat
          /\ Audits[u].amount = Delta(Rows[Audits[u].missing])
    /\ \A u, v \in DOMAIN Audits :
          Audits[u].order = Audits[v].order => Audits[u].missing = Audits[v].missing

ASSUME PeopleAssumption ==
    /\ Roles \subseteq [Users -> {"ADMIN", "FINANCE"}] /\ MaxAsks \in Nat /\ MaxChanges \in Nat
    /\ \A scope \in {"proposal", "decision"} : None \notin {scope} \X Users \X RawKeys

VARIABLES
    ledger,      \* the rows that are there
    balance,     \* driver_cash_accounts.current_balance
    orders,      \* deleted orders that have come back
    resolved,    \* orders whose difference was resolved after all
    role,        \* users.role
    incidents,   \* how many incidents are recorded
    records,     \* derived key |-> proposal
    decisions,   \* derived key |-> decision
    proc,        \* what each request in flight has come to
    asks, changes

reconVars == <<ledger, balance, orders, resolved, role, incidents, records,
          decisions, proc, asks, changes>>

DecisionRole == [APPROVED |-> "FINANCE", REJECTED |-> "FINANCE",
                 WITHDRAWN |-> "ADMIN", REVOKED |-> "ADMIN"]
Outcomes == {"APPROVED", "REJECTED", "WITHDRAWN"}
LiveStatuses == {"PROPOSED", "APPROVED", "INVALID_HISTORY"}
-----------------------------------------------------------------------------
(* The balance chain.                                                      *)
RowsOf(a) == {t \in DOMAIN ledger : ledger[t].account = a}

Precedes(s, t) ==
    \/ ledger[s].at < ledger[t].at
    \/ ledger[s].at = ledger[t].at /\ s < t

\* LAG(..) OVER (PARTITION BY account_id ORDER BY created_at, id)
Previous(t) ==
    LET earlier == {s \in RowsOf(ledger[t].account) : Precedes(s, t)} IN
    IF earlier = {} THEN NoRow
    ELSE CHOOSE s \in earlier : \A q \in earlier \ {s} : Precedes(q, s)

BalanceAfter(t) == IF t = NoRow THEN 0 ELSE ledger[t].after

StampShared(t, besides) ==
    \E s \in RowsOf(ledger[t].account) \ {t, besides} : ledger[s].at = ledger[t].at

LedgerNet(a) == SumFunctionOnSet([t \in DOMAIN ledger |-> Delta(ledger[t])], RowsOf(a))
-----------------------------------------------------------------------------
(* What a record is worth: status from its decisions, validity from the    *)
(* ledger as it stands.                                                    *)
DecisionsOn(k, decs) == {d \in DOMAIN decs : decs[d].record = k}

Status(k, decs) ==
    LET outcomes == {d \in DecisionsOn(k, decs) : decs[d].kind \in Outcomes}
        revocations == DecisionsOn(k, decs) \ outcomes
        outcome == decs[CHOOSE d \in outcomes : TRUE].kind
        ends(d) == \E o \in outcomes : decs[o].kind = "APPROVED" /\ decs[d].revokes = o
    IN
    CASE Cardinality(outcomes) > 1 \/ Cardinality(revocations) > 1 -> "INVALID_HISTORY"
      [] \E d \in revocations : ~ends(d) -> "INVALID_HISTORY"
      [] revocations # {} -> "REVOKED"
      [] outcomes = {} -> "PROPOSED"
      [] OTHER -> outcome

JumpStands(e) == ledger[e.anchor].before - BalanceAfter(e.predecessor) = e.amount

OrderProvable(e) ==
    /\ ~StampShared(e.anchor, e.predecessor)
    /\ e.predecessor # NoRow =>
          /\ ~StampShared(e.predecessor, e.anchor)
          /\ ledger[e.predecessor].at # ledger[e.anchor].at

\* Mutant: rows stamped inside the gap are not looked for.
NothingBetweenUnlooked(e) ==
    e.predecessor # NoRow => ledger[e.predecessor].at <= ledger[e.anchor].at

NothingBetween(e) ==
    LET earlier == {t \in RowsOf(e.account) : ledger[t].at < ledger[e.anchor].at} IN
    IF e.predecessor = NoRow THEN earlier = {}
    ELSE /\ ledger[e.predecessor].at <= ledger[e.anchor].at
         /\ \A t \in earlier : ledger[t].at <= ledger[e.predecessor].at

EvidenceInside(e) ==
    /\ Audits[e.audit].at <= ledger[e.anchor].at
    /\ e.predecessor # NoRow => ledger[e.predecessor].at <= Audits[e.audit].at

StillUnresolved(e) ==
    /\ e.missing \notin DOMAIN ledger
    /\ e.order \notin orders \cup resolved

ApprovedIndependently(k, recs, decs) ==
    \A d \in DecisionsOn(k, decs) :
       decs[d].kind = "APPROVED" => decs[d].by # recs[k].by

Overlap(e, f) ==
    \/ e.anchor = f.anchor
    \/ e.missing = f.missing
    \/ e.audit = f.audit
    \/ e.order = f.order

OnlyExplanation(k, recs, decs) ==
    LET e == recs[k].evidence IN
    \A l \in DOMAIN recs \ {k} :
       LET f == recs[l].evidence IN
       /\ f.account = e.account
       /\ Status(l, decs) \in LiveStatuses
       => ~Overlap(e, f) /\ f.predecessor # e.predecessor

EvidenceValid(k, recs, decs) ==
    LET e == recs[k].evidence IN
    /\ Status(k, decs) # "INVALID_HISTORY"
    /\ JumpStands(e)
    /\ OrderProvable(e)
    /\ NothingBetween(e)
    /\ EvidenceInside(e)
    /\ StillUnresolved(e)
    /\ ApprovedIndependently(k, recs, decs)
    /\ OnlyExplanation(k, recs, decs)

Contributes(k, recs, decs) ==
    Status(k, decs) = "APPROVED" /\ EvidenceValid(k, recs, decs)

ApprovedAmount(a, recs, decs) ==
    SumFunctionOnSet([k \in DOMAIN recs |-> recs[k].evidence.amount],
                     {k \in DOMAIN recs : recs[k].evidence.account = a /\ Contributes(k, recs, decs)})

\* An approval in force, or a broken history, that explains nothing.
Blocking(k) ==
    /\ Status(k, decisions) \in {"APPROVED", "INVALID_HISTORY"}
    /\ ~EvidenceValid(k, records, decisions)

Residual(a) == balance[a] - LedgerNet(a) - ApprovedAmount(a, records, decisions)

\* The gate of the activation: no account with a residual or a blocking record.
ResidualGatePasses ==
    /\ \A a \in Accounts : Residual(a) = 0
    /\ \A k \in DOMAIN records : ~Blocking(k)
-----------------------------------------------------------------------------
Rested(answer) == [pc |-> "idle", answer |-> answer]

ReconInit ==
    /\ \E lost \in Losses : ledger = Restrict(Rows, DOMAIN Rows \ lost)
    /\ balance = [a \in Accounts |->
          SumFunctionOnSet([t \in DOMAIN Rows |-> Delta(Rows[t])],
                           {t \in DOMAIN Rows : Rows[t].account = a})]
    /\ orders = {} /\ resolved = {}
    /\ role \in Roles
    /\ incidents = 0
    /\ records = << >> /\ decisions = << >>
    /\ proc = [p \in Procs |-> Rested("NONE")]
    /\ asks = 0 /\ changes = 0

RequestKey(ask) == <<IF ask.op = "PROPOSED" THEN "proposal" ELSE "decision", ask.by, ask.raw>>

ProposalAsks(u) ==
    [op : {"PROPOSED"}, by : {u}, raw : RawKeys, anchor : DOMAIN ledger,
     audit : DOMAIN Audits, incident : 0 .. incidents]   \* 0: record a new one

\* The reviewer confirms the fingerprint of some record he has read.
DecisionAsks(u) ==
    [op : {k \in DOMAIN DecisionRole : DecisionRole[k] = role[u]}, by : {u}, raw : RawKeys,
     record : DOMAIN records, digest : {records[k].evidence : k \in DOMAIN records}]

\* assertRole: the role is the one of the moment the request arrives.
Ask(p) ==
    /\ proc[p].pc = "idle" /\ asks < MaxAsks
    /\ \E u \in Users :
       \E ask \in (IF role[u] = "ADMIN" THEN ProposalAsks(u) ELSE {}) \cup DecisionAsks(u) :
          proc' = [proc EXCEPT ![p] = [pc |-> "asked", ask |-> ask]]
    /\ asks' = asks + 1
    /\ UNCHANGED <<ledger, balance, orders, resolved, role, incidents, records, decisions, changes>>

Answer(p, answer) ==
    /\ proc' = [proc EXCEPT ![p] = Rested(answer)]
    /\ UNCHANGED <<ledger, balance, orders, resolved, role, incidents, records, decisions, asks, changes>>

\* reconcileProposalReplay, reconcileDecisionReplay
SameRequest(ask) ==
    LET k == RequestKey(ask) IN
    IF ask.op = "PROPOSED"
      THEN /\ records[k].evidence.anchor = ask.anchor
           /\ records[k].evidence.audit = ask.audit
           /\ ask.incident # 0 => records[k].evidence.incident = ask.incident
           /\ ask.incident = 0 => records[k].recordedIncident
      ELSE /\ decisions[k].record = ask.record
           /\ decisions[k].kind = ask.op
           /\ ask.op = "APPROVED" => records[decisions[k].record].evidence = ask.digest

Stands(ask) == RequestKey(ask) \in DOMAIN records \cup DOMAIN decisions

Replay(p) ==
    /\ Stands(proc[p].ask)
    /\ Answer(p, IF SameRequest(proc[p].ask) THEN "DONE" ELSE "REUSED")

\* The read before the transaction.
FastReplay(p) == proc[p].pc = "asked" /\ Replay(p)

AccountOf(ask) ==
    IF ask.op = "PROPOSED" THEN ledger[ask.anchor].account
    ELSE records[ask.record].evidence.account

\* takeWorkflowLocks: nobody holds the key or the account.
Unlocked(a) == \A p \in Procs : proc[p].pc = "locked" => proc[p].account # a
LocksFree(ask) ==
    /\ Unlocked(AccountOf(ask))
    /\ \A p \in Procs : proc[p].pc = "locked" => RequestKey(proc[p].ask) # RequestKey(ask)

Locked(p, a, plan) ==
    proc' = [proc EXCEPT ![p] = [pc |-> "locked", ask |-> proc[p].ask, account |-> a, plan |-> plan]]
-----------------------------------------------------------------------------
(* Proposing.                                                              *)
\* locateGap
GapLocated(t) ==
    LET s == Previous(t) IN
    /\ ~StampShared(t, t)
    /\ s # NoRow => ~StampShared(s, s)

Derived(ask) ==
    LET audit == Audits[ask.audit] IN
    [incident |-> ask.incident, account |-> ledger[ask.anchor].account,
     anchor |-> ask.anchor, predecessor |-> Previous(ask.anchor),
     missing |-> audit.missing, audit |-> ask.audit, order |-> audit.order,
     amount |-> audit.amount]

Chain(e) == {k \in DOMAIN records : Overlap(records[k].evidence, e)}

SameEvidence(e, f) ==
    /\ e.account = f.account /\ e.anchor = f.anchor
    /\ e.missing = f.missing /\ e.audit = f.audit

Open(k) == Status(k, decisions) \in LiveStatuses

Head(e) ==
    LET superseded == {records[k].supersedes : k \in Chain(e)}
        heads == Chain(e) \ superseded
    IN IF heads = {} THEN None ELSE CHOOSE k \in heads : TRUE

Closed(k) == k # None /\ \E d \in DecisionsOn(k, decisions) : decisions[d].kind # "APPROVED"

\* An audit whose action, amounts or settlement do not fit is no member of Audits.
Refusable(e) ==
    \/ ~GapLocated(e.anchor)
    \/ ledger[e.anchor].before - BalanceAfter(e.predecessor) <= 0
    \/ ledger[e.anchor].before - BalanceAfter(e.predecessor) # e.amount
    \/ \E k \in Chain(e) : ~SameEvidence(records[k].evidence, e)
    \/ \E k \in Chain(e) : Open(k)

CheckProposal(p) ==
    /\ proc[p].pc = "asked" /\ proc[p].ask.op = "PROPOSED"
    /\ LocksFree(proc[p].ask)
    /\ LET e == Derived(proc[p].ask) IN
       \/ Replay(p)
       \/ ~Stands(proc[p].ask) /\ Refusable(e) /\ Answer(p, "CONFLICT")
       \/ /\ ~Stands(proc[p].ask) /\ ~Refusable(e) /\ Chain(e) # {}
          /\ ~Closed(Head(e)) /\ Answer(p, "INTERNAL")
       \/ /\ ~Stands(proc[p].ask) /\ ~Refusable(e)
          /\ Chain(e) = {} \/ Closed(Head(e))
          /\ Locked(p, e.account, [evidence |-> e, supersedes |-> Head(e)])
          /\ UNCHANGED <<ledger, balance, orders, resolved, role, incidents, records, decisions, asks, changes>>

\* Mutant: the unique indexes on the roots of the chains are missing.
RootsUnindexed(r) == TRUE

\* dchr_root_anchor_uq, dchr_root_missing_transaction_uq, dchr_root_source_audit_uq
RootsUnique(r) ==
    r.supersedes = None =>
       \A k \in DOMAIN records :
          LET e == records[k].evidence IN
          records[k].supersedes = None =>
             /\ e.anchor # r.evidence.anchor
             /\ e.missing # r.evidence.missing
             /\ e.audit # r.evidence.audit

\* dchr_supersedes_reconciliation_id_key
SupersededOnce(r) ==
    r.supersedes # None => \A k \in DOMAIN records : records[k].supersedes # r.supersedes

InsertProposal(p) ==
    /\ proc[p].pc = "locked" /\ proc[p].ask.op = "PROPOSED"
    /\ LET ask == proc[p].ask
           new == ask.incident = 0
           r == [evidence |-> [proc[p].plan.evidence EXCEPT
                                  !.incident = IF new THEN incidents + 1 ELSE @],
                 by |-> ask.by, supersedes |-> proc[p].plan.supersedes,
                 recordedIncident |-> new]
           recs == [k \in DOMAIN records \cup {RequestKey(ask)} |->
                       IF k = RequestKey(ask) THEN r ELSE records[k]]
           accepted == /\ RootsUnique(r) /\ SupersededOnce(r)
                       /\ EvidenceValid(RequestKey(ask), recs, decisions)
       IN \/ ~accepted /\ Answer(p, "CONFLICT")
          \/ /\ accepted
             /\ records' = recs
             /\ incidents' = IF new THEN incidents + 1 ELSE incidents
             /\ proc' = [proc EXCEPT ![p] = Rested("DONE")]
             /\ UNCHANGED <<ledger, balance, orders, resolved, role, decisions, asks, changes>>
-----------------------------------------------------------------------------
(* Deciding.                                                               *)
Approval(k) ==
    CHOOSE d \in DecisionsOn(k, decisions) : decisions[d].kind = "APPROVED"

RevocableBy(ask) ==
    /\ Status(ask.record, decisions) = "APPROVED"
    /\ ask.by \notin {records[ask.record].by, decisions[Approval(ask.record)].by}

Reviewable(ask) ==
    /\ Status(ask.record, decisions) = "PROPOSED"
    /\ ask.op \in {"APPROVED", "REJECTED"} => ask.by # records[ask.record].by
    /\ ask.op = "APPROVED" =>
          /\ ask.digest = records[ask.record].evidence
          /\ EvidenceValid(ask.record, records, decisions)

Allowed(ask) == IF ask.op = "REVOKED" THEN RevocableBy(ask) ELSE Reviewable(ask)

CheckDecision(p) ==
    /\ proc[p].pc = "asked" /\ proc[p].ask.op # "PROPOSED"
    /\ LocksFree(proc[p].ask)
    /\ LET ask == proc[p].ask
           a == AccountOf(ask)
       IN \/ Replay(p)
          \/ ~Stands(ask) /\ ~Allowed(ask) /\ Answer(p, "CONFLICT")
          \/ /\ ~Stands(ask) /\ Allowed(ask)
             /\ Locked(p, a, [before |-> ApprovedAmount(a, records, decisions),
                              revokes |-> IF ask.op = "REVOKED" THEN Approval(ask.record) ELSE None])
             /\ UNCHANGED <<ledger, balance, orders, resolved, role, incidents, records, decisions, asks, changes>>

\* dchrd_one_outcome_per_reconciliation_uq, dchrd_revokes_decision_id_key,
\* dchrd_independent_reviewer_chk
DecisionFits(d) ==
    /\ d.kind \in Outcomes =>
          \A l \in DecisionsOn(d.record, decisions) : decisions[l].kind \notin Outcomes
    /\ d.kind = "REVOKED" => \A l \in DOMAIN decisions : decisions[l].revokes # d.revokes
    /\ d.kind \in {"APPROVED", "REJECTED"} => d.by # records[d.record].by

InsertDecision(p) ==
    /\ proc[p].pc = "locked" /\ proc[p].ask.op # "PROPOSED"
    /\ LET ask == proc[p].ask
           d == [record |-> ask.record, kind |-> ask.op, by |-> ask.by,
                 revokes |-> proc[p].plan.revokes]
           decs == [k \in DOMAIN decisions \cup {RequestKey(ask)} |->
                       IF k = RequestKey(ask) THEN d ELSE decisions[k]]
           counts == /\ Contributes(ask.record, records, decs)
                     /\ ApprovedAmount(proc[p].account, records, decs)
                          = proc[p].plan.before + records[ask.record].evidence.amount
           accepted == DecisionFits(d) /\ (ask.op = "APPROVED" => counts)
       IN \/ ~accepted /\ Answer(p, "CONFLICT")
          \/ /\ accepted
             /\ decisions' = decs
             /\ proc' = [proc EXCEPT ![p] = Rested("DONE")]
             /\ UNCHANGED <<ledger, balance, orders, resolved, role, incidents, records, asks, changes>>
-----------------------------------------------------------------------------
(* What goes on around it.  A posting takes the account's lock; writes by  *)
(* hand take none.                                                         *)
Change == changes < MaxChanges /\ changes' = changes + 1

Post(a, t, at) ==
    /\ Change /\ Unlocked(a) /\ t \notin DOMAIN ledger
    /\ ledger' = [s \in DOMAIN ledger \cup {t} |->
          IF s = t THEN [account |-> a, at |-> at, before |-> balance[a], after |-> balance[a] + 1]
          ELSE ledger[s]]
    /\ balance' = [balance EXCEPT ![a] = @ + 1]
    /\ UNCHANGED <<orders, resolved, role, incidents, records, decisions, proc, asks>>

RestoreRow(t) ==
    /\ Change /\ t \notin DOMAIN ledger
    /\ ledger' = [s \in DOMAIN ledger \cup {t} |-> IF s = t THEN Rows[t] ELSE ledger[s]]
    /\ UNCHANGED <<balance, orders, resolved, role, incidents, records, decisions, proc, asks>>

RestoreOrder(o) ==
    /\ Change /\ o \notin orders
    /\ orders' = orders \cup {o}
    /\ UNCHANGED <<ledger, balance, resolved, role, incidents, records, decisions, proc, asks>>

ResolveDifference(o) ==
    /\ Change /\ o \in orders \ resolved
    /\ resolved' = resolved \cup {o}
    /\ UNCHANGED <<ledger, balance, orders, role, incidents, records, decisions, proc, asks>>

ChangeRole(u) ==
    /\ Change
    /\ role' = [role EXCEPT ![u] = IF @ = "ADMIN" THEN "FINANCE" ELSE "ADMIN"]
    /\ UNCHANGED <<ledger, balance, orders, resolved, incidents, records, decisions, proc, asks>>

AuditedOrders == {Audits[u].order : u \in DOMAIN Audits}

Request(p) ==
    Ask(p) \/ FastReplay(p) \/ CheckProposal(p) \/ InsertProposal(p)
           \/ CheckDecision(p) \/ InsertDecision(p)

ReconNext ==
    \/ \E p \in Procs : Request(p)
    \/ \E a \in Accounts, t \in NewRows, at \in PostTimes : Post(a, t, at)
    \/ \E t \in DOMAIN Rows : RestoreRow(t)
    \/ \E o \in AuditedOrders : RestoreOrder(o) \/ ResolveDifference(o)
    \/ \E u \in Users : ChangeRole(u)

ReconSpec == ReconInit /\ [][ReconNext]_reconVars
-----------------------------------------------------------------------------
(* Properties.                                                             *)
Evidences == [incident : Nat, account : Accounts, anchor : DOMAIN Rows \cup NewRows,
              predecessor : DOMAIN Rows \cup NewRows \cup {NoRow}, missing : DOMAIN Rows,
              audit : DOMAIN Audits, order : AuditedOrders, amount : Int]
KeysOf(scope) == {scope} \X Users \X RawKeys

\* Types; no request ever ends in the internal error the code keeps for a
\* broken chain (:349), and what a record supersedes is a record.
ReconTypeOK ==
    /\ DOMAIN ledger \subseteq DOMAIN Rows \cup NewRows
    /\ \A t \in DOMAIN ledger : ledger[t].account \in Accounts
    /\ balance \in [Accounts -> Int]
    /\ orders \subseteq AuditedOrders /\ resolved \subseteq AuditedOrders
    /\ role \in [Users -> {"ADMIN", "FINANCE"}]
    /\ incidents \in Nat
    /\ DOMAIN records \subseteq KeysOf("proposal")
    /\ \A k \in DOMAIN records :
          /\ records[k].evidence \in Evidences
          /\ records[k].by \in Users
          /\ records[k].supersedes \in {None} \cup DOMAIN records
    /\ DOMAIN decisions \subseteq KeysOf("decision")
    /\ \A d \in DOMAIN decisions :
          /\ decisions[d].record \in DOMAIN records
          /\ decisions[d].kind \in DOMAIN DecisionRole
          /\ decisions[d].revokes \in {None} \cup DOMAIN decisions
    /\ \A p \in Procs :
          \/ proc[p].pc = "idle" /\ proc[p].answer \in {"NONE", "DONE", "REUSED", "CONFLICT"}
          \/ proc[p].pc \in {"asked", "locked"}

\* A gap does not say by itself which rows are missing: a collection, or a
\* larger one together with a row that lowered the balance.  This is the first.
OnlyCollectionsLost ==
    \A t \in DOMAIN Rows \ DOMAIN ledger : Delta(Rows[t]) > 0

\* Two live records never explain the same gap, row, audit or order, not even
\* from two accounts, whose requests share no lock (proposeHistoricalReconciliation
\* :302-350 and the unique indexes of the roots); and when the gate of the
\* activation passes, every row that is still lost is explained by exactly one
\* approved record (ACCOUNT_RESIDUAL_FAILS), if no lost row offsets another.
OneLiveExplanation ==
    /\ \A k, l \in DOMAIN records :
          k # l /\ Open(k) /\ Open(l) => ~Overlap(records[k].evidence, records[l].evidence)
    /\ ResidualGatePasses /\ OnlyCollectionsLost =>
          \A t \in DOMAIN Rows \ DOMAIN ledger :
             Cardinality({k \in DOMAIN records :
                records[k].evidence.missing = t /\ Contributes(k, records, decisions)}) = 1

Break(t) == ledger[t].before - BalanceAfter(Previous(t))
Explained(t) ==
    \E k \in DOMAIN records : records[k].evidence.anchor = t /\ Contributes(k, records, decisions)
Last(a) ==
    IF RowsOf(a) = {} THEN NoRow
    ELSE CHOOSE t \in RowsOf(a) : \A s \in RowsOf(a) \ {t} : Precedes(s, t)

\* The two reports agree: what the residual of an account (dc_accounts) leaves
\* unexplained is the sum of the breaks of its chain no record explains
\* (dc_breaks), and what it holds beyond its last row.
ResidualIsTheBreaks ==
    \A a \in Accounts :
       Residual(a) = SumFunctionOnSet([t \in DOMAIN ledger |-> Break(t)],
                                      {t \in RowsOf(a) : ~Explained(t)})
                        + balance[a] - BalanceAfter(Last(a))

=============================================================================
