-------------------------- MODULE MCOrderLifecycle --------------------------
(***************************************************************************)
(* Instances of OrderLifecycle: the whole life of one order, and the bulk  *)
(* assignment of two orders, to drivers who may be deactivated meanwhile.  *)
(* The two orders are alike, so what is said of o1 is said of both.        *)
(***************************************************************************)
EXTENDS OrderLifecycle, TLC

CONSTANTS o1, o2

AtCompany == {"ALREADY_AT_COMPANY"}
Fetched == {"DRIVER_COLLECTION"}

SymmetricRequests == Permutations(Requests)
Symmetric == Permutations(Drivers) \cup SymmetricRequests

Bulk == INSTANCE OrderLifecycle WITH
    Orders <- {o1, o2}, Amounts <- {1}, IntakeMethods <- AtCompany,
    Deactivatable <- Drivers, MaxHistory <- 2, MaxAssignments <- 1

\* A behaviour is of one order, or of the two, which the tables tell apart.
OneOrTwo ==
    /\ Init \/ Bulk!Init
    /\ [][IF DOMAIN orders = Orders THEN Next ELSE Bulk!Next]_vars
=============================================================================
