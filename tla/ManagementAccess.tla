--------------------------- MODULE ManagementAccess ---------------------------
(***************************************************************************)
(* Who may manage what: the management accounts (createEmployee and        *)
(* updateEmployee, with the rule that an active administrator always       *)
(* remains) and the permissions of the roles (updateRolePermissions).      *)
(* Both decide inside SERIALIZABLE transactions; they write different      *)
(* tables and share no row, so each half has a specification of its own.   *)
(***************************************************************************)
EXTENDS FiniteSets

CONSTANTS
    ManagementRoles,
    Accounts,       \* users that are or may become employees
    Updates,        \* bound: the updates of employees ever requested
    Changes,        \* what an update may ask for: a role and an is_active, or Absent
    Catalog,        \* the permissions there are
    SelfService,    \* those of the driver and customer portals
    Replacements,   \* bound: the replacements of permissions ever requested
    Absent

ADMIN == "ADMIN"

ASSUME RolesAssumption == ADMIN \in ManagementRoles /\ Absent \notin ManagementRoles \union {"on", "off"}
ASSUME ChangesAssumption ==
    Changes \subseteq [role : ManagementRoles \union {Absent}, active : {"on", "off", Absent}]

VARIABLES
    employee,   \* users with an employee: role and is_active
    update      \* updateEmployee requests in progress

VARIABLES
    granted,    \* role_permissions
    audited,    \* the last ROLE_PERMISSIONS_UPDATED entry that adds or removes
    replacement \* updateRolePermissions requests in progress

-----------------------------------------------------------------------------
(* What a SERIALIZABLE transaction of PostgreSQL may not do, as operators  *)
(* over the transactions committed since its snapshot.  A transaction is   *)
(* what it reads, what it writes and those beside it that have committed:  *)
(* pairs of which the first committed no later than the second.            *)

With(beside, c) == beside \union {<<c, c>>} \union {<<pair[1], c>> : pair \in beside}

\* t did not see what c wrote, though it reads there; t overwrites what c read.
Missed(t, c) == c.writes \cap t.reads # {}
MissedBy(t, c) == c.reads \cap t.writes # {}

\* First updater wins, also under plain snapshot isolation.
FirstToWrite(t) == \A pair \in t.beside : pair[1].writes \cap t.writes = {}

\* Two antidependencies in a row, of which the last transaction committed
\* first, may close a cycle: the one that would complete them is aborted.
Dangerous(t) ==
    \E pair \in t.beside :
        \/ Missed(t, pair[1]) /\ MissedBy(t, pair[2])
        \/ Missed(t, pair[1]) /\ pair[1].missed

MayCommit(t) == FirstToWrite(t) /\ ~Dangerous(t)

\* What the transactions still open must remember of t.
Committed(t) == [reads |-> t.reads, writes |-> t.writes,
                 missed |-> \E pair \in t.beside : Missed(t, pair[1])]

-----------------------------------------------------------------------------
(* The management accounts.  updateEmployee reads the employee before its   *)
(* SERIALIZABLE transaction and decides from that read; only the count of   *)
(* the other administrators is inside.                                      *)

accountsVars == <<employee, update>>

NoEmployee == [role |-> Absent, active |-> FALSE]
Employee == [role : ManagementRoles, active : BOOLEAN] \union {NoEmployee}

\* Absent in an input is a field the update leaves out.
Change == [id : Accounts, role : ManagementRoles \union {Absent}, active : {"on", "off", Absent}]
AskedChanges == {input \in Change : \E c \in Changes : input.role = c.role /\ input.active = c.active}
NoChange == [id |-> Absent, role |-> Absent, active |-> Absent]
DoneUpdate == [reads : SUBSET Accounts, writes : SUBSET Accounts, missed : BOOLEAN]
Update == [stage : {"new", "read", "open", "ended"}, input : Change \union {NoChange},
            existing : Employee,
            tx : [reads : SUBSET Accounts, writes : SUBSET Accounts, beside : SUBSET (DoneUpdate \X DoneUpdate)]]
NotBegun == [reads |-> {}, writes |-> {}, beside |-> {}]
NewUpdate == [stage |-> "new", input |-> NoChange, existing |-> NoEmployee, tx |-> NotBegun]
EndedUpdate == [NewUpdate EXCEPT !.stage = "ended"]

Employed == {u \in Accounts : employee[u] # NoEmployee}
Administrators == {u \in Accounts : employee[u].role = ADMIN /\ employee[u].active}

\* The first administrator is created by the bootstrap script.
AccountsInit ==
    /\ employee \in [Accounts -> {NoEmployee, [role |-> ADMIN, active |-> TRUE]}]
    /\ Administrators # {}
    /\ update = [q \in Updates |-> NewUpdate]

\* createEmployee: an active account with a role of the caller's choice.
createEmployee(u, role) ==
    /\ employee[u] = NoEmployee
    /\ employee' = [employee EXCEPT ![u] = [role |-> role, active |-> TRUE]]
    /\ UNCHANGED update

-----------------------------------------------------------------------------
(* What updateEmployee derives from its input and the row it has read.      *)
WantsDeactivate(q) == q.input.active = "off" /\ q.existing.active
RoleChange(q) == q.input.role # Absent /\ q.input.role # q.existing.role

LosingAdminAccess(q) ==
    /\ q.existing.role = ADMIN /\ q.existing.active
    /\ WantsDeactivate(q) \/ (RoleChange(q) /\ q.input.role # ADMIN)

OtherActiveAdmins(q) == Administrators \ {q.input.id}

\* The columns the update names; the role only when it differs from the read.
Set(q) == IF RoleChange(q) THEN q.input ELSE [q.input EXCEPT !.role = Absent]

Written(row, set) ==
    [role |-> IF set.role = Absent THEN row.role ELSE set.role,
     active |-> IF set.active = Absent THEN row.active ELSE set.active = "on"]

-----------------------------------------------------------------------------
\* The read before the transaction; one's own account is not deactivated.
ReadEmployee(q, input, actor) ==
    LET r == [NewUpdate EXCEPT !.stage = "read", !.input = input, !.existing = employee[input.id]] IN
    /\ update[q].stage = "new"
    /\ input.id \in Employed
    /\ ~(WantsDeactivate(r) /\ actor = input.id)
    /\ update' = [update EXCEPT ![q] = r]
    /\ UNCHANGED employee

\* The snapshot; if access is lost, the count of the other administrators in it.
BeginUpdate(q) ==
    LET r == update[q] IN
    /\ r.stage = "read"
    /\ LosingAdminAccess(r) => OtherActiveAdmins(r) # {}
    /\ update' = [update EXCEPT ![q] =
          [stage |-> "open", input |-> Set(r), existing |-> NoEmployee,
           tx |-> [reads |-> IF LosingAdminAccess(r) THEN Accounts ELSE {r.input.id},
                   writes |-> {r.input.id}, beside |-> {}]]]
    /\ UNCHANGED employee

\* Mutant: REPEATABLE READ instead of SERIALIZABLE.
MayUpdateInSnapshot(t) == FirstToWrite(t)
MayUpdate(t) == MayCommit(t)

CommitUpdate(q) ==
    LET r == update[q] IN
    /\ r.stage = "open"
    /\ MayUpdate(r.tx)
    /\ employee' = [employee EXCEPT ![r.input.id] = Written(@, r.input)]
    /\ update' = [p \in Updates |->
          IF p = q THEN EndedUpdate
          ELSE IF update[p].stage = "open"
          THEN [update[p] EXCEPT !.tx.beside = With(@, Committed(r.tx))]
          ELSE update[p]]

\* The last administrator (409), a serialization failure, or any other error.
AbortUpdate(q) ==
    /\ update[q].stage \in {"read", "open"}
    /\ update' = [update EXCEPT ![q] = EndedUpdate]
    /\ UNCHANGED employee

AccountsNext ==
    \/ \E u \in Accounts, role \in ManagementRoles : createEmployee(u, role)
    \/ \E q \in Updates :
          \/ \E input \in AskedChanges, actor \in Employed : ReadEmployee(q, input, actor)
          \/ BeginUpdate(q) \/ CommitUpdate(q) \/ AbortUpdate(q)

AccountsSpec == AccountsInit /\ [][AccountsNext]_accountsVars

-----------------------------------------------------------------------------
\* Every variable keeps its type; an employee's account is never left without a role.
AccountsTypeOK ==
    /\ employee \in [Accounts -> Employee]
    /\ update \in [Updates -> Update]

\* The comment on updateEmployee: an active administrator remains, whichever
\* requests demote or deactivate administrators at the same time.
AdministratorRemains == Administrators # {}

-----------------------------------------------------------------------------
(* The permissions of a role are replaced by a set the editor sends, in a   *)
(* SERIALIZABLE transaction that deletes the rows it sees, inserts the new  *)
(* ones and audits the replacement.                                         *)

\* The permissions a management role may be given.
Permissions == Catalog \ SelfService

rolesVars == <<granted, audited, replacement>>

Entry == [previous : SUBSET Permissions, next : SUBSET Permissions]
Rows == ManagementRoles \X Permissions
DoneReplacement == [reads : SUBSET Rows, writes : SUBSET Rows, missed : BOOLEAN]
Replacement == [stage : {"new", "open", "ended"},
            role : ManagementRoles \union {Absent}, next : SUBSET Permissions, previous : SUBSET Permissions,
            tx : [reads : SUBSET Rows, writes : SUBSET Rows, beside : SUBSET (DoneReplacement \X DoneReplacement)]]
NewReplacement == [stage |-> "new", role |-> Absent, next |-> {}, previous |-> {}, tx |-> NotBegun]
EndedReplacement == [NewReplacement EXCEPT !.stage = "ended"]

RolesInit ==
    /\ granted \in [ManagementRoles -> SUBSET Permissions]
    /\ audited = [r \in ManagementRoles |-> [previous |-> granted[r], next |-> granted[r]]]
    /\ replacement = [q \in Replacements |-> NewReplacement]

Assignable(next) == next \subseteq Permissions

\* The administrator's role is locked.  The rows are written one by one: a row
\* deleted or inserted twice is a conflict, the read covers the whole role.
BeginReplacement(q, role, next) ==
    /\ replacement[q].stage = "new"
    /\ role # ADMIN
    /\ Assignable(next)
    /\ replacement' = [replacement EXCEPT ![q] =
          [stage |-> "open", role |-> role, next |-> next, previous |-> granted[role],
           tx |-> [reads |-> {role} \X Permissions,
                   writes |-> {role} \X (granted[role] \union next), beside |-> {}]]]
    /\ UNCHANGED <<granted, audited>>

MayReplace(t) == MayCommit(t)

\* Mutant: only the additions are written.
Added(r) == granted[r.role] \union r.next

Replaced(r) == (granted[r.role] \ r.previous) \union r.next

CommitReplacement(q) ==
    LET r == replacement[q] IN
    /\ r.stage = "open"
    /\ MayReplace(r.tx)
    /\ granted' = [granted EXCEPT ![r.role] = Replaced(r)]
    /\ audited' = IF r.previous = r.next THEN audited
                  ELSE [audited EXCEPT ![r.role] = [previous |-> r.previous, next |-> r.next]]
    /\ replacement' = [p \in Replacements |->
          IF p = q THEN EndedReplacement
          ELSE IF replacement[p].stage = "open"
          THEN [replacement[p] EXCEPT !.tx.beside = With(@, Committed(r.tx))]
          ELSE replacement[p]]

\* A serialization failure or a duplicate row is answered 409.
AbortReplacement(q) ==
    /\ replacement[q].stage = "open"
    /\ replacement' = [replacement EXCEPT ![q] = EndedReplacement]
    /\ UNCHANGED <<granted, audited>>

RolesNext ==
    \E q \in Replacements :
        \/ \E role \in ManagementRoles, next \in SUBSET Catalog : BeginReplacement(q, role, next)
        \/ CommitReplacement(q) \/ AbortReplacement(q)

RolesSpec == RolesInit /\ [][RolesNext]_rolesVars

-----------------------------------------------------------------------------
\* Every variable keeps its type: no management role is given a
\* permission of the portals.
RolesTypeOK ==
    /\ granted \in [ManagementRoles -> SUBSET Permissions]
    /\ audited \in [ManagementRoles -> Entry]
    /\ replacement \in [Replacements -> Replacement]

\* No two replacements are merged: a role has exactly the permissions the last
\* audited replacement asked for.
NeverMerged == \A r \in ManagementRoles : granted[r] = audited[r].next

\* The audit log is a chain: every entry's previous set is the one it replaced.
AuditIsAChain == [][\A r \in ManagementRoles : audited'[r] # audited[r] => audited'[r].previous = granted[r]]_rolesVars
=============================================================================
