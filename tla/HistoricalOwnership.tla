-------------------------- MODULE HistoricalOwnership --------------------------
(***************************************************************************)
(* Who owns money that was collected for an order that was then deleted?   *)
(* The company assumes it as a liability: an ADMIN proposes a resolution   *)
(* under an approved policy and an approved ledger reconciliation, a       *)
(* FINANCE user approves it, a third user records the liability, a fourth  *)
(* may revoke.  Policies go through the same decisions.  Records and       *)
(* decisions only accumulate; what a resolution is worth is worked out     *)
(* each time it is read, and only a resolution worth something takes its   *)
(* order off the list that blocks the activation.                          *)
(*                                                                         *)
(* A request takes its locks in one step (it waits for all of them and     *)
(* does nothing while it waits), checks, and inserts in a second step.     *)
(***************************************************************************)
EXTENDS Integers, FiniteSets

CONSTANTS
    Handlers, Staff, ClientKeys,
    Codes,           \* policy codes
    DeletedOrders,   \* deleted orders whose collection difference an audit records
    Recons,          \* ledger reconciliation |-> the order, is its collection in a settlement
    Givens,          \* the registers and roles a behaviour may start from
    MaxRequests,     \* bound: how many requests are made
    MaxMoves,        \* bound: how many changes around them
    NoRecord

VARIABLES
    staff,       \* users.role
    recon,       \* what each ledger reconciliation is worth
    back,        \* deleted orders that have come back
    policies,    \* key |-> a policy version
    resolutions, \* key |-> a resolution
    rulings,     \* key |-> a decision on one of them
    liabilities, \* key |-> a recorded liability
    reviews,     \* key |-> a periodic review
    work,        \* what each request in flight has come to
    made, moved

registers == <<policies, resolutions, rulings, liabilities, reviews>>
ownerVars == <<staff, recon, back, registers, work, made, moved>>

RulingRole == [APPROVED |-> "FINANCE", REJECTED |-> "FINANCE",
                 WITHDRAWN |-> "ADMIN", REVOKED |-> "ADMIN"]
OpenStatuses == {"PROPOSED", "APPROVED", "INVALID_HISTORY"}

With(f, k, v) == [l \in DOMAIN f \cup {k} |-> IF l = k THEN v ELSE f[l]]
-----------------------------------------------------------------------------
(* What the records are worth.                                             *)
RulingsOn(k, decs) == {d \in DOMAIN decs : decs[d].record = k}

StatusOf(k, decs) ==
    LET mine == RulingsOn(k, decs)
        kinds == {decs[d].kind : d \in mine}
    IN
    CASE mine = {} -> "PROPOSED"
      [] Cardinality(mine) = 2 /\ kinds = {"APPROVED", "REVOKED"} -> "REVOKED"
      [] Cardinality(mine) = 1 /\ kinds # {"REVOKED"} -> CHOOSE kind \in kinds : TRUE
      [] OTHER -> "INVALID_HISTORY"

AssertsApproval(k, decs) ==
    /\ \E d \in RulingsOn(k, decs) : decs[d].kind = "APPROVED"
    /\ StatusOf(k, decs) # "REVOKED"

ApprovalOf(k, decs) == CHOOSE d \in RulingsOn(k, decs) : decs[d].kind = "APPROVED"

Live(k, decs) == StatusOf(k, decs) \in OpenStatuses

CollectionVerified(r) == recon[r.recon] = "APPROVED" /\ Recons[r.recon].order = r.order

\* ho_evaluated: a resolution without failures
Valid(k, ress, decs, liabs) ==
    LET r == ress[k] IN
    /\ StatusOf(k, decs) # "INVALID_HISTORY"
    /\ r.order \notin back
    /\ CollectionVerified(r) /\ Recons[r.recon].settled
    /\ StatusOf(r.policy, decs) = "APPROVED"
    /\ \A d \in RulingsOn(k, decs) : decs[d].kind = "APPROVED" => decs[d].by # r.by
    /\ \A l \in DOMAIN ress \ {k} : ress[l].order = r.order => ~Live(l, decs)
    /\ \A l \in DOMAIN liabs : liabs[l].resolution = k => liabs[l].approval = ApprovalOf(k, decs)

Recorded(k) == \E l \in DOMAIN liabilities : liabilities[l].resolution = k

\* Mutant: an approval is enough, the liability need not be recorded.
ReleasedOnApproval(o) ==
    \E k \in DOMAIN resolutions :
       /\ resolutions[k].order = o
       /\ StatusOf(k, rulings) = "APPROVED"
       /\ Valid(k, resolutions, rulings, liabilities)

\* ho_released
Released(o) ==
    /\ \A r \in DOMAIN recon : Recons[r].order = o => recon[r] # "BROKEN"
    /\ \E k \in DOMAIN resolutions :
          /\ resolutions[k].order = o
          /\ StatusOf(k, rulings) = "APPROVED"
          /\ Valid(k, resolutions, rulings, liabilities)
          /\ Recorded(k)

\* unresolvedHistoricalOwnershipSql: what blocks the activation
Unresolved(o) ==
    /\ o \notin back \/ \E r \in DOMAIN recon : Recons[r].order = o /\ recon[r] # "ABSENT"
    /\ ~Released(o)

Outstanding(l) == AssertsApproval(liabilities[l].resolution, rulings)
-----------------------------------------------------------------------------
(* What the constraints of the tables, and the checks of the requests, keep *)
(* true of the registers.                                                  *)
Scopes == {"policy-proposal", "resolution-proposal", "policy-decision", "resolution-decision",
           "liability-record", "liability-review"}

References(pols, ress, decs, liabs) ==
    /\ \A k \in DOMAIN pols : pols[k].code \in Codes /\ pols[k].version \in Nat
    /\ \A k \in DOMAIN ress :
          /\ ress[k].order \in DeletedOrders /\ ress[k].policy \in DOMAIN pols
          /\ ress[k].recon \in DOMAIN Recons
    /\ \A d \in DOMAIN decs : decs[d].record \in DOMAIN pols \cup DOMAIN ress
    /\ \A l \in DOMAIN liabs : liabs[l].resolution \in DOMAIN ress

\* One outcome, and one revocation of an approval.
Histories(decs) ==
    /\ \A d \in DOMAIN decs :
          /\ decs[d].kind \in DOMAIN RulingRole
          /\ IF decs[d].kind # "REVOKED" THEN decs[d].revokes = NoRecord
             ELSE LET a == decs[d].revokes
                  IN  a \in RulingsOn(decs[d].record, decs) /\ decs[a].kind = "APPROVED"
    /\ \A d, e \in DOMAIN decs :
          decs[d].record = decs[e].record /\ (decs[d].kind = "REVOKED" <=> decs[e].kind = "REVOKED")
          => d = e

\* The resolutions of an order supersede each other in one chain.
Superseding(ress) ==
    /\ \A k \in DOMAIN ress : ress[k].supersedes # NoRecord =>
          /\ ress[k].supersedes \in DOMAIN ress
          /\ ress[ress[k].supersedes].order = ress[k].order
    /\ \A k, l \in DOMAIN ress :
          ress[k].order = ress[l].order /\ ress[k].supersedes = ress[l].supersedes => k = l
    /\ \A k \in DOMAIN ress : \E l \in DOMAIN ress :
          ress[l].order = ress[k].order /\ ress[l].supersedes = NoRecord

\* At most one resolution of an order is live.
OneLive(ress, decs) ==
    \A k, l \in DOMAIN ress :
       ress[k].order = ress[l].order /\ Live(k, decs) /\ Live(l, decs) => k = l

OneLiability(liabs) ==
    \A l, m \in DOMAIN liabs : liabs[l].resolution = liabs[m].resolution => l = m

Consistent(pols, ress, decs, liabs) ==
    /\ References(pols, ress, decs, liabs)
    /\ Histories(decs) /\ Superseding(ress)
    /\ OneLive(ress, decs) /\ OneLiability(liabs)

\* The keys of a register begin with its own scope, and are tuples.
Keyed(pols, ress) ==
    /\ IsFiniteSet(DOMAIN pols) /\ IsFiniteSet(DOMAIN ress)
    /\ NoRecord \notin DOMAIN ress
    /\ \A k \in DOMAIN pols : k[1] = "policy-proposal"
    /\ \A k \in DOMAIN ress : k[1] = "resolution-proposal"

ASSUME ReconsAssumption ==
    \A r \in DOMAIN Recons : Recons[r].order \in DeletedOrders /\ Recons[r].settled \in BOOLEAN

ASSUME GivensAssumption ==
    \A g \in Givens :
       /\ g.roles \in [Staff -> {"ADMIN", "FINANCE"}]
       /\ g.recon \in [DOMAIN Recons -> {"ABSENT", "APPROVED", "BROKEN", "REVOKED"}]
       /\ Consistent(g.policies, g.resolutions, g.decisions, g.liabilities)
       /\ Keyed(g.policies, g.resolutions) /\ IsFiniteSet(DOMAIN g.decisions)

ASSUME NoRecordAssumption ==
    \A scope \in Scopes, u \in Staff, raw \in ClientKeys : NoRecord # <<scope, u, raw>>
-----------------------------------------------------------------------------
Resting(answer) == [pc |-> "idle", answer |-> answer]

OwnerInit ==
    /\ \E given \in Givens :
          /\ staff = given.roles /\ recon = given.recon
          /\ policies = given.policies /\ resolutions = given.resolutions
          /\ rulings = given.decisions /\ liabilities = given.liabilities
    /\ back = {} /\ reviews = << >>
    /\ work = [p \in Handlers |-> Resting("NONE")]
    /\ made = 0 /\ moved = 0

Deciding(ask) == ask.op \in DOMAIN RulingRole

Scope(ask) ==
    CASE ask.op = "POLICY" -> "policy-proposal"
      [] ask.op = "RESOLUTION" -> "resolution-proposal"
      [] ask.op = "RECORD" -> "liability-record"
      [] ask.op = "REVIEW" -> "liability-review"
      [] Deciding(ask) /\ ask.record \in DOMAIN policies -> "policy-decision"
      [] OTHER -> "resolution-decision"
KeyOf(ask) == <<Scope(ask), ask.by, ask.raw>>

\* What an ADMIN or a FINANCE user may send.  A fingerprint holds the id of
\* its record, so a reviewer who confirms another one has read another record.
Requests(u) ==
    LET admin == staff[u] = "ADMIN"
        Of(reader) == {k \in DOMAIN RulingRole : RulingRole[k] = reader}
    IN
    (IF admin THEN [op : {"POLICY"}, by : {u}, raw : ClientKeys, code : Codes]
                   \cup [op : {"RESOLUTION"}, by : {u}, raw : ClientKeys, order : DeletedOrders,
                         policy : DOMAIN policies, recon : DOMAIN Recons]
     ELSE [op : {"RECORD"}, by : {u}, raw : ClientKeys, record : DOMAIN resolutions,
           digest : DOMAIN resolutions]
          \cup [op : {"REVIEW"}, by : {u}, raw : ClientKeys, record : DOMAIN liabilities])
    \cup [op : Of(staff[u]), by : {u}, raw : ClientKeys, record : DOMAIN resolutions,
          digest : DOMAIN resolutions]
    \cup [op : Of(staff[u]), by : {u}, raw : ClientKeys, record : DOMAIN policies,
          digest : DOMAIN policies]

\* assertRole: the role is the one of the moment the request arrives.
MakeRequest(p) ==
    /\ work[p].pc = "idle" /\ made < MaxRequests
    /\ \E u \in Staff : \E ask \in Requests(u) :
          work' = [work EXCEPT ![p] = [pc |-> "asked", ask |-> ask]]
    /\ made' = made + 1
    /\ UNCHANGED <<staff, recon, back, registers, moved>>

Reply(p, answer) ==
    /\ work' = [work EXCEPT ![p] = Resting(answer)]
    /\ UNCHANGED <<staff, recon, back, registers, made, moved>>

Proceed(p, plan) ==
    /\ work' = [work EXCEPT ![p] = [pc |-> "locked", ask |-> work[p].ask, plan |-> plan]]
    /\ UNCHANGED <<staff, recon, back, registers, made, moved>>

\* reconcilePolicyReplay, reconcileResolutionReplay and the three reconcile
SameBody(ask) ==
    LET k == KeyOf(ask) IN
    CASE ask.op = "POLICY" -> policies[k].code = ask.code
      [] ask.op = "RESOLUTION" ->
            /\ resolutions[k].order = ask.order /\ resolutions[k].policy = ask.policy
            /\ resolutions[k].recon = ask.recon
      [] ask.op = "RECORD" ->
            liabilities[k].resolution = ask.record /\ ask.digest = ask.record
      [] ask.op = "REVIEW" -> reviews[k].liability = ask.record
      [] OTHER -> /\ rulings[k].record = ask.record /\ rulings[k].kind = ask.op
                  /\ ask.op = "APPROVED" => ask.digest = ask.record

Stored(ask) ==
    KeyOf(ask) \in DOMAIN policies \cup DOMAIN resolutions \cup DOMAIN rulings
                    \cup DOMAIN liabilities \cup DOMAIN reviews

ReplayRequest(p) ==
    /\ Stored(work[p].ask)
    /\ Reply(p, IF SameBody(work[p].ask) THEN "DONE" ELSE "REUSED")

\* The read before the transaction.
ReplayEarly(p) == work[p].pc = "asked" /\ ReplayRequest(p)

Alone(what, which) == [what |-> what, which |-> which, mode |-> "EXCLUSIVE"]
Shared(what, which) == [what |-> what, which |-> which, mode |-> "SHARE"]
OfResolution(o, policy) == {Alone("order", o), Shared("policy row", policy)}

\* The activation row (FOR SHARE) conflicts with none of these requests.
Locks(ask) ==
    {Alone("key", KeyOf(ask))} \cup
    CASE ask.op = "POLICY" -> {Alone("code", ask.code)}
      [] ask.op = "RESOLUTION" -> OfResolution(ask.order, ask.policy)
      [] ask.op = "REVIEW" -> {}
      [] Deciding(ask) /\ ask.record \in DOMAIN policies ->
            {Alone("code", policies[ask.record].code), Alone("policy row", ask.record)}
      [] OTHER -> {Alone("resolution row", ask.record)} \cup
                  OfResolution(resolutions[ask.record].order, resolutions[ask.record].policy)

NoConflict(ask) ==
    \A q \in Handlers : work[q].pc = "locked" =>
       \A l \in Locks(ask), m \in Locks(work[q].ask) :
          l.what = m.what /\ l.which = m.which => l.mode = "SHARE" /\ m.mode = "SHARE"
-----------------------------------------------------------------------------
(* Proposing.                                                              *)
Versions(code) == {policies[k].version : k \in {k \in DOMAIN policies : policies[k].code = code}}
Latest(code) ==
    IF Versions(code) = {} THEN 0
    ELSE CHOOSE v \in Versions(code) : \A w \in Versions(code) : w <= v

CheckPolicy(p) ==
    Proceed(p, [version |-> Latest(work[p].ask.code) + 1])

\* hlp_policy_code_version_key
InsertPolicy(p) ==
    LET ask == work[p].ask
        version == work[p].plan.version
    IN \/ version \in Versions(ask.code) /\ Reply(p, "CONFLICT")
       \/ /\ version \notin Versions(ask.code)
          /\ policies' = With(policies, KeyOf(ask),
                              [code |-> ask.code, version |-> version, by |-> ask.by])
          /\ work' = [work EXCEPT ![p] = Resting("DONE")]
          /\ UNCHANGED <<staff, recon, back, resolutions, rulings, liabilities, reviews, made, moved>>

ResolutionsOf(o) == {k \in DOMAIN resolutions : resolutions[k].order = o}

LastOf(o) ==
    LET heads == ResolutionsOf(o) \ {resolutions[k].supersedes : k \in ResolutionsOf(o)}
    IN IF heads = {} THEN NoRecord ELSE CHOOSE k \in heads : TRUE

WasEnded(k) == k # NoRecord /\ \E d \in RulingsOn(k, rulings) : rulings[d].kind # "APPROVED"

Unacceptable(ask) ==
    \/ ask.order \in back
    \/ StatusOf(ask.policy, rulings) # "APPROVED"
    \/ recon[ask.recon] = "ABSENT"
    \/ Recons[ask.recon].order # ask.order
    \/ \E k \in ResolutionsOf(ask.order) : Live(k, rulings)

CheckResolution(p) ==
    LET ask == work[p].ask IN
    \/ Unacceptable(ask) /\ Reply(p, "CONFLICT")
    \/ ~Unacceptable(ask) /\ ResolutionsOf(ask.order) # {} /\ ~WasEnded(LastOf(ask.order)) /\ Reply(p, "INTERNAL")
    \/ /\ ~Unacceptable(ask)
       /\ ResolutionsOf(ask.order) = {} \/ WasEnded(LastOf(ask.order))
       /\ Proceed(p, [supersedes |-> LastOf(ask.order)])

\* hor_root_deleted_order_uq, hor_supersedes_resolution_id_key
PlaceFree(r) == \A k \in ResolutionsOf(r.order) : resolutions[k].supersedes # r.supersedes

InsertResolution(p) ==
    LET ask == work[p].ask
        r == [order |-> ask.order, policy |-> ask.policy, recon |-> ask.recon, by |-> ask.by,
              supersedes |-> work[p].plan.supersedes]
        ress == With(resolutions, KeyOf(ask), r)
        accepted == PlaceFree(r) /\ Valid(KeyOf(ask), ress, rulings, liabilities)
    IN \/ ~accepted /\ Reply(p, "CONFLICT")
       \/ /\ accepted
          /\ resolutions' = ress
          /\ work' = [work EXCEPT ![p] = Resting("DONE")]
          /\ UNCHANGED <<staff, recon, back, policies, rulings, liabilities, reviews, made, moved>>
-----------------------------------------------------------------------------
(* Deciding, on a policy or on a resolution.                               *)
ProposerOf(k) == IF k \in DOMAIN policies THEN policies[k].by ELSE resolutions[k].by
Recorders(k) ==
    {liabilities[l].by : l \in {l \in DOMAIN liabilities : liabilities[l].resolution = k}}

\* The proposer, the approver and the recorder
Hands(k) == {ProposerOf(k), rulings[ApprovalOf(k, rulings)].by} \cup Recorders(k)

WorthApproving(k, decs) ==
    k \in DOMAIN resolutions => Valid(k, resolutions, decs, liabilities)

Permitted(ask) ==
    IF ask.op = "REVOKED"
    THEN StatusOf(ask.record, rulings) = "APPROVED" /\ ask.by \notin Hands(ask.record)
    ELSE /\ StatusOf(ask.record, rulings) = "PROPOSED"
         /\ ask.op \in {"APPROVED", "REJECTED"} => ask.by # ProposerOf(ask.record)
         /\ ask.op = "APPROVED" =>
               ask.digest = ask.record /\ WorthApproving(ask.record, rulings)

CheckRuling(p) ==
    LET ask == work[p].ask IN
    \/ ~Permitted(ask) /\ Reply(p, "CONFLICT")
    \/ /\ Permitted(ask)
       /\ Proceed(p, [revokes |-> IF ask.op = "REVOKED" THEN ApprovalOf(ask.record, rulings)
                                  ELSE NoRecord])

\* hord_one_outcome_per_resolution_uq, hord_revokes_decision_id_key, and of policies
RulingFits(d) ==
    IF d.kind = "REVOKED" THEN \A l \in DOMAIN rulings : rulings[l].revokes # d.revokes
    ELSE \A l \in RulingsOn(d.record, rulings) : rulings[l].kind = "REVOKED"

InsertRuling(p) ==
    LET ask == work[p].ask
        d == [record |-> ask.record, kind |-> ask.op, by |-> ask.by,
              revokes |-> work[p].plan.revokes]
        decs == With(rulings, KeyOf(ask), d)
        accepted == /\ RulingFits(d)
                    /\ ask.op = "APPROVED" =>
                          /\ StatusOf(ask.record, decs) = "APPROVED"
                          /\ WorthApproving(ask.record, decs)
    IN \/ ~accepted /\ Reply(p, "CONFLICT")
       \/ /\ accepted
          /\ rulings' = decs
          /\ work' = [work EXCEPT ![p] = Resting("DONE")]
          /\ UNCHANGED <<staff, recon, back, policies, resolutions, liabilities, reviews, made, moved>>
-----------------------------------------------------------------------------
(* The register of liabilities.                                            *)
Recordable(ask) ==
    /\ ~Recorded(ask.record) /\ StatusOf(ask.record, rulings) = "APPROVED"
    /\ ask.digest = ask.record
    /\ Valid(ask.record, resolutions, rulings, liabilities)
    /\ ask.by \notin Hands(ask.record)

CheckRecord(p) ==
    LET ask == work[p].ask IN
    \/ ~Recordable(ask) /\ Reply(p, "CONFLICT")
    \/ Recordable(ask) /\ Proceed(p, [approval |-> ApprovalOf(ask.record, rulings)])

\* hl_resolution_id_key, and the check of the recorded liability
InsertRecord(p) ==
    LET ask == work[p].ask
        liabs == With(liabilities, KeyOf(ask),
                      [resolution |-> ask.record, approval |-> work[p].plan.approval, by |-> ask.by])
        accepted == /\ ~Recorded(ask.record)
                    /\ StatusOf(ask.record, rulings) = "APPROVED"
                    /\ Valid(ask.record, resolutions, rulings, liabs)
    IN \/ ~accepted /\ Reply(p, "CONFLICT")
       \/ /\ accepted
          /\ liabilities' = liabs
          /\ work' = [work EXCEPT ![p] = Resting("DONE")]
          /\ UNCHANGED <<staff, recon, back, policies, resolutions, rulings, reviews, made, moved>>

CheckReview(p) ==
    LET ask == work[p].ask IN
    \/ ~Outstanding(ask.record) /\ Reply(p, "CONFLICT")
    \/ Outstanding(ask.record) /\ Proceed(p, [outstanding |-> TRUE])

InsertReview(p) ==
    /\ reviews' = With(reviews, KeyOf(work[p].ask),
                       [liability |-> work[p].ask.record, by |-> work[p].ask.by])
    /\ work' = [work EXCEPT ![p] = Resting("DONE")]
    /\ UNCHANGED <<staff, recon, back, policies, resolutions, rulings, liabilities, made, moved>>
-----------------------------------------------------------------------------
(* A request, and what goes on around it.  The reconciliation workflow     *)
(* shares no lock with these requests.                                     *)
Check(p) ==
    /\ work[p].pc = "asked" /\ NoConflict(work[p].ask)
    /\ \/ ReplayRequest(p)
       \/ /\ ~Stored(work[p].ask)
          /\ CASE work[p].ask.op = "POLICY" -> CheckPolicy(p)
               [] work[p].ask.op = "RESOLUTION" -> CheckResolution(p)
               [] work[p].ask.op = "RECORD" -> CheckRecord(p)
               [] work[p].ask.op = "REVIEW" -> CheckReview(p)
               [] OTHER -> CheckRuling(p)

Insert(p) ==
    /\ work[p].pc = "locked"
    /\ CASE work[p].ask.op = "POLICY" -> InsertPolicy(p)
         [] work[p].ask.op = "RESOLUTION" -> InsertResolution(p)
         [] work[p].ask.op = "RECORD" -> InsertRecord(p)
         [] work[p].ask.op = "REVIEW" -> InsertReview(p)
         [] OTHER -> InsertRuling(p)

\* Evidence breaks and mends by hand; the reconciliation of an order is
\* approved when no other one of it is live.
ReconSteps == {<<"ABSENT", "APPROVED">>, <<"APPROVED", "BROKEN">>, <<"BROKEN", "APPROVED">>,
               <<"APPROVED", "REVOKED">>, <<"BROKEN", "REVOKED">>}

ReconMoves(r) ==
    /\ moved < MaxMoves /\ moved' = moved + 1
    /\ \E step \in ReconSteps :
          /\ recon[r] = step[1]
          /\ step[1] = "ABSENT" =>
                \A q \in DOMAIN Recons \ {r} :
                   Recons[q].order = Recons[r].order => recon[q] \in {"ABSENT", "REVOKED"}
          /\ recon' = [recon EXCEPT ![r] = step[2]]
    /\ UNCHANGED <<staff, back, registers, work, made>>

OrderComesBack(o) ==
    /\ moved < MaxMoves /\ moved' = moved + 1
    /\ o \notin back /\ back' = back \cup {o}
    /\ UNCHANGED <<staff, recon, registers, work, made>>

ChangeStaff(u) ==
    /\ moved < MaxMoves /\ moved' = moved + 1
    /\ staff' = [staff EXCEPT ![u] = IF @ = "ADMIN" THEN "FINANCE" ELSE "ADMIN"]
    /\ UNCHANGED <<recon, back, registers, work, made>>

OwnerNext ==
    \/ \E p \in Handlers : MakeRequest(p) \/ ReplayEarly(p) \/ Check(p) \/ Insert(p)
    \/ \E r \in DOMAIN Recons : ReconMoves(r)
    \/ \E o \in DeletedOrders : OrderComesBack(o)
    \/ \E u \in Staff : ChangeStaff(u)

OwnerSpec == OwnerInit /\ [][OwnerNext]_ownerVars
-----------------------------------------------------------------------------
(* Properties.                                                             *)
\* Types; no request ends in the internal error kept for a broken chain (proposeOwnershipResolution :540).
OwnerTypeOK ==
    /\ staff \in [Staff -> {"ADMIN", "FINANCE"}]
    /\ recon \in [DOMAIN Recons -> {"ABSENT", "APPROVED", "BROKEN", "REVOKED"}]
    /\ back \subseteq DeletedOrders
    /\ \A k \in DOMAIN policies : policies[k].code \in Codes /\ policies[k].version \in Nat
    /\ \A k \in DOMAIN resolutions :
          /\ resolutions[k].order \in DeletedOrders /\ resolutions[k].policy \in DOMAIN policies
          /\ resolutions[k].supersedes \in {NoRecord} \cup ResolutionsOf(resolutions[k].order)
    /\ \A d \in DOMAIN rulings :
          /\ rulings[d].record \in DOMAIN policies \cup DOMAIN resolutions
          /\ rulings[d].kind \in DOMAIN RulingRole
          /\ rulings[d].revokes \in {NoRecord} \cup DOMAIN rulings
    /\ \A l \in DOMAIN liabilities : liabilities[l].resolution \in DOMAIN resolutions
    /\ \A k \in DOMAIN reviews : reviews[k].liability \in DOMAIN liabilities
    /\ \A p \in Handlers :
          \/ work[p].pc = "idle" /\ work[p].answer \in {"NONE", "DONE", "REUSED", "CONFLICT"}
          \/ work[p].pc \in {"asked", "locked"}

\* An order leaves the list that blocks the activation by coming back, or with
\* exactly one liability outstanding (unresolvedHistoricalOwnershipSql).
GateMeansLiability ==
    \A o \in DeletedOrders : ~Unresolved(o) =>
       \/ o \in back
       \/ Cardinality({l \in DOMAIN liabilities :
                         Outstanding(l) /\ resolutions[liabilities[l].resolution].order = o}) = 1

\* The registers are append-only, and no status moves back.
After(status) ==
    CASE status = "PROPOSED" -> {"PROPOSED", "APPROVED", "REJECTED", "WITHDRAWN"}
      [] status = "APPROVED" -> {"APPROVED", "REVOKED"}
      [] OTHER -> {status}
Kept(f, g) == \A k \in DOMAIN f : k \in DOMAIN g /\ g[k] = f[k]
OnlyAdvances ==
    /\ Kept(policies, policies') /\ Kept(resolutions, resolutions')
    /\ Kept(rulings, rulings') /\ Kept(liabilities, liabilities')
    /\ \A k \in DOMAIN policies \cup DOMAIN resolutions :
          StatusOf(k, rulings)' \in After(StatusOf(k, rulings))

=============================================================================
