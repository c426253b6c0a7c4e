---------------------------- MODULE PortalAccounts ----------------------------
(***************************************************************************)
(* Customers and their portal logins: createCustomer and updateCustomer.   *)
(* The update reads the customer, validates and decides from that read,    *)
(* hashes the password, and only then runs its READ COMMITTED transaction, *)
(* whose one conditional statement is the link of a new login.             *)
(***************************************************************************)
EXTENDS Integers, FiniteSets

CONSTANTS
    Customers,
    Logins,          \* bound: the logins ever created
    Emails,
    Requests,       \* bound: the updates ever requested
    AtOnce,         \* how many of them may be between their read and their commit
    Null

ASSUME AtOnceAssumption == AtOnce \in Nat
ASSUME NullAssumption == Null \notin Logins \union Emails \union Customers

VARIABLES
    customer,   \* is_active, email and portal_user_id
    login,      \* users with the role CUSTOMER: their email (UNIQUE)
    request     \* updateCustomer requests in progress

portalVars == <<customer, login, request>>

Email == Emails \union {Null}
Customer == [exists : BOOLEAN, active : BOOLEAN, email : Email, portal : Logins \union {Null}]
NoCustomer == [exists |-> FALSE, active |-> FALSE, email |-> Null, portal |-> Null]

\* An omitted field is "keep"; Null clears the email.
Input == [id : Customers, email : Email \union {"keep"}, active : {"on", "off", "keep"},
          password : BOOLEAN]
New == [stage |-> "new"]
Ended == [stage |-> "ended"]

UnusedLogins == {u \in Logins : login[u] = Null}

Taken(email) == \E u \in Logins : login[u] = email

PortalInit ==
    /\ customer = [c \in Customers |-> NoCustomer]
    /\ login = [u \in Logins |-> Null]
    /\ request = [q \in Requests |-> New]

-----------------------------------------------------------------------------
\* A new customer, with a login if a password is given: all of it or nothing.
createCustomer(c, email, password) ==
    /\ ~customer[c].exists
    /\ \/ /\ ~password
          /\ customer' = [customer EXCEPT ![c] =
                [exists |-> TRUE, active |-> TRUE, email |-> email, portal |-> Null]]
          /\ UNCHANGED login
       \/ /\ password /\ email # Null /\ ~Taken(email)
          /\ \E u \in UnusedLogins :
                /\ login' = [login EXCEPT ![u] = email]
                /\ customer' = [customer EXCEPT ![c] =
                      [exists |-> TRUE, active |-> TRUE, email |-> email, portal |-> u]]
    /\ UNCHANGED request

-----------------------------------------------------------------------------
(* updateCustomer.                                                          *)
Grants(r) == r.input.password /\ r.existing.portal = Null
ResultingEmail(r) == IF r.input.email = "keep" THEN r.existing.email ELSE r.input.email

\* The email of a login stays; a login needs an email and an active customer.
Accepted(r) ==
    /\ ~(r.existing.portal # Null /\ r.input.email = Null)
    /\ Grants(r) => /\ ResultingEmail(r) # Null
                    /\ r.input.active = "on" \/ (r.input.active = "keep" /\ r.existing.active)

Read(q, input) ==
    LET r == [stage |-> "read", input |-> input, existing |-> customer[input.id]] IN
    /\ request[q] = New
    /\ Cardinality({p \in Requests : request[p].stage = "read"}) < AtOnce
    /\ customer[input.id].exists
    /\ Accepted(r)
    /\ request' = [request EXCEPT ![q] = r]
    /\ UNCHANGED <<customer, login>>

Updated(row, input) ==
    [row EXCEPT !.email = IF input.email = "keep" THEN @ ELSE input.email,
                !.active = IF input.active = "keep" THEN @ ELSE input.active = "on"]

\* Mutant: the link is not conditional.
AlwaysUnlinked(c) == TRUE
StillUnlinked(c) == customer[c].portal = Null

\* A grant creates the login and links it, or rolls both back.
Grant(q) ==
    LET r == request[q]
        c == r.input.id IN
    /\ r.stage = "read" /\ Grants(r)
    /\ ~Taken(ResultingEmail(r))
    /\ StillUnlinked(c)
    /\ \E u \in UnusedLogins :
          /\ login' = [login EXCEPT ![u] = ResultingEmail(r)]
          /\ customer' = [customer EXCEPT ![c] = Updated([@ EXCEPT !.portal = u], r.input)]
    /\ request' = [request EXCEPT ![q] = Ended]

Renames(r) == r.existing.portal # Null /\ r.input.email \notin {"keep", r.existing.email}

\* Otherwise the login the read showed, if any, follows the email.
UpdateFields(q) ==
    LET r == request[q]
        u == r.existing.portal IN
    /\ r.stage = "read" /\ ~Grants(r)
    /\ IF Renames(r)
          THEN /\ \A other \in Logins \ {u} : login[other] # r.input.email
               /\ login' = [login EXCEPT ![u] = r.input.email]
          ELSE UNCHANGED login
    /\ customer' = [customer EXCEPT ![r.input.id] = Updated(@, r.input)]
    /\ request' = [request EXCEPT ![q] = Ended]

\* A 409, or any other failure: rolled back.
Fail(q) ==
    /\ request[q].stage = "read"
    /\ request' = [request EXCEPT ![q] = Ended]
    /\ UNCHANGED <<customer, login>>

PortalNext ==
    \/ \E c \in Customers, email \in Email, password \in BOOLEAN : createCustomer(c, email, password)
    \/ \E q \in Requests :
          \/ \E input \in Input : Read(q, input)
          \/ Grant(q) \/ UpdateFields(q) \/ Fail(q)

PortalSpec == PortalInit /\ [][PortalNext]_portalVars

-----------------------------------------------------------------------------
\* Types; an email is the login of one user only.
PortalTypeOK ==
    /\ customer \in [Customers -> Customer]
    /\ login \in [Logins -> Email]
    /\ \A u1, u2 \in Logins \ UnusedLogins : login[u1] = login[u2] => u1 = u2

\* However grants race, a login belongs to exactly one customer, and no
\* customer points to a login that was rolled back.
LoginsAreOwned ==
    /\ \A c \in Customers : customer[c].portal # Null => customer[c].portal \notin UnusedLogins
    /\ \A u \in Logins \ UnusedLogins : \E c \in Customers :
          customer[c].portal = u /\ \A d \in Customers \ {c} : customer[d].portal # u

=============================================================================
