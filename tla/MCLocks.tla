------------------------------- MODULE MCLocks -------------------------------
(***************************************************************************)
(* What an activation waits for: the locks of the transactions that are    *)
(* still open (LockOrder), and the two registers of its gates, the         *)
(* explanations of deleted ledger rows (HistoricalReconciliation) and the  *)
(* owners of deleted collections (HistoricalOwnership).                    *)
(*                                                                         *)
(* The three share no row.  A behaviour is one of one part, which part     *)
(* says; the others stay as they begin, so the states of the parts add up  *)
(* instead of multiplying.                                                 *)
(***************************************************************************)
EXTENDS LockOrder, HistoricalReconciliation, HistoricalOwnership, TLC

CONSTANTS p1, p2, u1, u2, u3, u4, k0, k1, k2, k3, a1, a2, o1, o2, c1, r1, r2

VARIABLE part

-----------------------------------------------------------------------------
\* Two accounts of the same driver's orders, and two orders of crossed customers.
OneDriver == (1 :> 1) @@ (2 :> 1)
CustomersCrossed == (1 :> 2) @@ (2 :> 1)

Row(a, at, before, after) == [account |-> a, at |-> at, before |-> before, after |-> after]
Audit(o, t, at, amount) == [order |-> o, missing |-> t, at |-> at, amount |-> amount]

\* The second of an account's three rows is gone, and perhaps the first of
\* another account's, posted at the same time with the same amount: then either
\* audit fits either gap.
Chains == 1 :> Row(a1, 1, 0, 2) @@ 2 :> Row(a1, 3, 2, 5) @@ 3 :> Row(a1, 5, 5, 6)
          @@ 4 :> Row(a2, 3, 0, 3) @@ 5 :> Row(a2, 5, 3, 4)
OneGap == {2}
TwoGaps == {2, 4}
LostRows == {OneGap, TwoGaps}
AuditsLeft == o1 :> Audit(o1, 2, 3, 3) @@ o2 :> Audit(o2, 4, 3, 3)
ThreePeople == {u1 :> "ADMIN" @@ u2 :> "FINANCE" @@ u3 :> "ADMIN"}

-----------------------------------------------------------------------------
TwoRecons == r1 :> [order |-> o1, settled |-> TRUE] @@ r2 :> [order |-> o1, settled |-> TRUE]

Policy == <<"policy-proposal", u1, k0>>
Resolution == <<"resolution-proposal", u1, k0>>
OnPolicy == <<"policy-decision", u2, k0>>
OnResolution == <<"resolution-decision", u2, k0>>
Liability == <<"liability-record", u3, k0>>
Approve(k) == [record |-> k, kind |-> "APPROVED", by |-> u2, revokes |-> NoRecord]

\* A policy is approved and a resolution proposed.
Proposed == [roles |-> u1 :> "ADMIN" @@ u2 :> "FINANCE" @@ u3 :> "FINANCE" @@ u4 :> "ADMIN",
    recon |-> r1 :> "APPROVED" @@ r2 :> "ABSENT",
    policies |-> Policy :> [code |-> c1, version |-> 1, by |-> u1],
    resolutions |-> Resolution :> [order |-> o1, policy |-> Policy, recon |-> r1, by |-> u1,
                                   supersedes |-> NoRecord],
    decisions |-> OnPolicy :> Approve(Policy), liabilities |-> << >>]

\* The resolution is approved and its liability recorded.
Registered == [Proposed EXCEPT
    !.decisions = @ @@ OnResolution :> Approve(Resolution),
    !.liabilities = Liability :> [resolution |-> Resolution, approval |-> OnResolution, by |-> u3]]
Registers == {Proposed, Registered}

Symmetric == Permutations(Transactions) \union Permutations({p1, p2}) \union Permutations({k1, k2})

-----------------------------------------------------------------------------
(* What the parts are about.                                               *)
Proposal(p) == proc'[p].pc = "asked" /\ proc'[p].ask.op = "PROPOSED"

\* Requests on one account, while roles, rows and orders change.
AroundOneGap ==
    /\ \A p \in Procs : Proposal(p) =>
          proc'[p].ask.audit = o1 /\ ledger[proc'[p].ask.anchor].account = a1
    /\ \A p \in Procs : proc'[p].pc = "asked" => proc'[p].ask.raw = k1
    /\ \A t \in DOMAIN ledger' \ DOMAIN Rows : ledger'[t].account = a1
    /\ orders' \subseteq {o1}

\* Requests on two accounts, with retries.
AroundTwoGaps ==
    /\ \A p \in Procs : Proposal(p) => proc'[p].ask.anchor \in {3, 5}
    /\ \A p \in Procs : proc'[p].pc = "asked" => proc'[p].ask.by # u3
    /\ changes' = 0

\* Requests on a proposed resolution at the same time, with retries.
Races ==
    /\ \A p \in Handlers : work'[p].pc = "asked" =>
          (work'[p].ask.op = "RESOLUTION" => work'[p].ask.recon = r1)
    /\ made' <= 3 /\ moved' <= 1

\* A recorded liability revoked and its order resolved again, one request at a
\* time, while roles and evidence change.
Anew ==
    /\ work'[p1].pc = "asked" =>
          work'[p1].ask.op \in {"RESOLUTION", "APPROVED", "REVOKED", "RECORD"}
    /\ work'[p2] = work[p2]

PartsInit ==
    /\ Init /\ ReconInit /\ OwnerInit
    /\ part \in {"locks", "gap", "gaps", "races", "anew"}
    /\ part # "locks" => account = {} /\ flag = "off"
    /\ DOMAIN ledger = DOMAIN Rows \ (IF part = "gaps" THEN TwoGaps ELSE OneGap)
    /\ part = "anew" <=> liabilities # << >>

PartsNext ==
    /\ UNCHANGED part
    /\ \/ /\ part = "locks" /\ Next
          /\ UNCHANGED <<reconVars, ownerVars>>
       \/ /\ part = "gap" /\ ReconNext /\ AroundOneGap
          /\ UNCHANGED <<vars, ownerVars>>
       \/ /\ part = "gaps" /\ ReconNext /\ AroundTwoGaps
          /\ UNCHANGED <<vars, ownerVars>>
       \/ /\ part = "races" /\ OwnerNext /\ Races
          /\ UNCHANGED <<vars, reconVars>>
       \/ /\ part = "anew" /\ OwnerNext /\ Anew
          /\ UNCHANGED <<vars, reconVars>>

PartsSpec == PartsInit /\ [][PartsNext]_<<part, vars, reconVars, ownerVars>>
=============================================================================
