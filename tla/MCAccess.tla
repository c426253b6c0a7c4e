------------------------------ MODULE MCAccess ------------------------------
(***************************************************************************)
(* Who is let in: the sessions of the browsers (Sessions), the management  *)
(* accounts and the permissions of the roles (ManagementAccess), and the   *)
(* logins of the customers (PortalAccounts).                               *)
(*                                                                         *)
(* The four share no row.  A behaviour is one of one part, which part      *)
(* says; the others stay as they begin, so the states of the parts add up  *)
(* instead of multiplying.  They also share their model values, so that    *)
(* one permutation of these permutes every part.                           *)
(***************************************************************************)
EXTENDS Sessions, ManagementAccess, PortalAccounts, TLC

CONSTANTS t1, t2, c1

VARIABLE part

OneCall == c1 :> t1
Losses == {[role |-> "FINANCE", active |-> Absent], [role |-> Absent, active |-> "off"]}

\* An update may also promote.
AlsoPromotions == Losses \union {[role |-> ADMIN, active |-> Absent]}

AnyOrder == Permutations(Accounts) \union Permutations(Updates)

-----------------------------------------------------------------------------
\* An employee that is one administrator, and a role without permissions,
\* where they do not matter.
AnyAccounts == AccountsInit
SomeAccounts == AccountsInit /\ Administrators = Accounts
NoPermissions == RolesInit /\ granted = [r \in ManagementRoles |-> {}]

PartsInit ==
    /\ Init /\ PortalInit
    /\ \/ part \in {"sessions", "portal"} /\ SomeAccounts /\ NoPermissions
       \/ part = "accounts" /\ AnyAccounts /\ NoPermissions
       \/ part = "roles" /\ SomeAccounts /\ RolesInit

PartsNext ==
    /\ UNCHANGED part
    /\ \/ /\ part = "sessions" /\ Next
          /\ UNCHANGED <<accountsVars, rolesVars, portalVars>>
       \/ /\ part = "accounts" /\ AccountsNext
          /\ UNCHANGED <<vars, rolesVars, portalVars>>
       \/ /\ part = "roles" /\ RolesNext
          /\ UNCHANGED <<vars, accountsVars, portalVars>>
       \/ /\ part = "portal" /\ PortalNext
          /\ UNCHANGED <<vars, accountsVars, rolesVars>>

PartsSpec == PartsInit /\ [][PartsNext]_<<part, vars, accountsVars, rolesVars, portalVars>>

\* The management accounts alone.
AccountsPart == part = "accounts" /\ PartsSpec

=============================================================================
