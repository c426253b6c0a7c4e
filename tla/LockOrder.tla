------------------------------ MODULE LockOrder ------------------------------
(***************************************************************************)
(* The row and advisory locks of the transactions that move money or       *)
(* orders, in the order each path takes them, and the activation that has  *)
(* to see them all stand still. What the transactions do to the money is   *)
(* FinancialRelease's subject; here a path is the locks it asks for, and   *)
(* of its effects only what decides a later lock or a gate of activation.  *)
(*                                                                         *)
(* PostgreSQL's modes FOR NO KEY UPDATE and FOR UPDATE are both "update":  *)
(* they differ only against FOR KEY SHARE, which no path asks of these     *)
(* rows before its last statements.                                        *)
(***************************************************************************)
EXTENDS Integers, FiniteSets

CONSTANTS
    MaxId,          \* ids are 1..MaxId; rows of one statement are locked by id
    Orders, Drivers, Customers, Keys,
    DriverOf, CustomerOf,
    Transactions,   \* bound: the transactions ever begun
    Paths,          \* the paths they may take
    MaxCash         \* bound: the unattributed cash of a driver

ASSUME IdsAssumption ==
    /\ MaxId \in Nat \ {0}
    /\ Orders \subseteq 1..MaxId /\ Drivers \subseteq 1..MaxId
    /\ Customers \subseteq 1..MaxId /\ Keys \subseteq 1..MaxId
ASSUME OwnersAssumption == DriverOf \in [Orders -> Drivers] /\ CustomerOf \in [Orders -> Customers]
ASSUME TransactionsAssumption == IsFiniteSet(Transactions) /\ MaxCash \in Nat

VARIABLES
    order,          \* how far each order is
    flag,           \* the activation setting: "on" or "off"
    account,        \* drivers with a cash account
    unattributed,   \* U of each account
    tx              \* the transactions

vars == <<order, flag, account, unattributed, tx>>

\* "out": OUT_FOR_DELIVERY; "held": delivered, with a release; "closed":
\* delivered the legacy way, without one.
OrderStates == {"unassigned", "out", "held", "closed"}
Delivered == {"held", "closed"}

Kinds == {"key", "setting", "account", "release", "order", "wallet", "incident"}
Lock == [statement : 1..6, kind : Kinds, id : 1..MaxId, mode : {"share", "update"}]
AllPaths == {"deliver", "settle", "resolve", "resolve_legacy", "void", "reverse_release",
             "reverse_settlement", "cash", "shortfall", "payout", "propose", "decide",
             "activate", "deactivate", "bulk"}

Asks(n, kind, ids, mode) ==
    {[statement |-> n, kind |-> kind, id |-> i, mode |-> mode] : i \in ids}

\* The single row of system_settings, and the incident counter's advisory lock.
Setting(mode) == Asks(2, "setting", {1}, mode)
Incident == Asks(4, "incident", {1}, "update")

Key(k) == Asks(1, "key", {k}, "update")
Account(d) == Asks(3, "account", {d}, "update")
Releases(R) == Asks(4, "release", R, "update")
OrderRows(R) == Asks(5, "order", R, "update")
Wallets(C) == Asks(6, "wallet", C, "update")

Transaction ==
    [stage : {"new", "open", "ended"}, path : AllPaths \union {"none"},
     asks : SUBSET Lock, holds : SUBSET Lock, orders : SUBSET Orders,
     driver : Drivers \union {0}, cash : -1..1,
     sees : {"unread", "on", "off", "passed"}, known : SUBSET Drivers]

-----------------------------------------------------------------------------
(* The paths. A transaction's record carries its locks still to ask for,    *)
(* the ones it holds, and what its commit changes: its orders, the cash     *)
(* that becomes unattributed, and the flag value it was decided by.         *)
Idle == [stage |-> "new", path |-> "none", asks |-> {}, holds |-> {}, orders |-> {},
         driver |-> 0, cash |-> 0, sees |-> "unread", known |-> {}]
Program(path, asks, orders, driver, cash, sees) ==
    [stage |-> "open", path |-> path, asks |-> asks, holds |-> {}, orders |-> orders,
     driver |-> driver, cash |-> cash, sees |-> sees, known |-> {}]
Locking(path, asks, orders) == Program(path, asks, orders, 0, 0, "unread")

\* Delivery claims its order before the account: driver cash waits for a
\* settlement when the flag is on, else it may credit the wallet at once.
DeliveryAsks(o, cash, C) ==
    Setting("share") \union Asks(3, "order", {o}, "update")
        \union Asks(4, "account", {d \in {DriverOf[o]} : cash = 1}, "update")
        \union Wallets({CustomerOf[o]} \cap C)
Delivery(o, cash, C, sees) ==
    Program("deliver", DeliveryAsks(o, cash, C), {o}, DriverOf[o], cash, sees)

Deliveries ==
    {Delivery(o, 1, {}, "on") : o \in Orders}
        \union {Delivery(o, 1, C, "off") : o \in Orders, C \in SUBSET Customers}
        \union {Delivery(o, 0, C, sees) :
                    o \in Orders, C \in SUBSET Customers, sees \in {"on", "off"}}

WithRelease == {o \in Orders : order[o] = "held"}
Legacy == {o \in Orders : order[o] = "closed"}
HeldBy(d) == {o \in WithRelease : DriverOf[o] = d}

\* A settlement locks the releases R it allocates to, then the orders, and
\* the customers' wallets, of those it fully covers.
SettlementAsks(k, d, R, F) ==
    Key(k) \union Setting("share") \union Account(d) \union Releases(R)
        \union OrderRows(F) \union Wallets({CustomerOf[o] : o \in F})

Settlements ==
    UNION {UNION {{Program("settle", SettlementAsks(k, d, R, F), R, d, cash, sees) :
                    k \in Keys, F \in SUBSET R, cash \in {0, -1}, sees \in {"on", "off"}} :
                R \in SUBSET HeldBy(d)} : d \in account}

\* Resolution and the reversal of a release ask alike: the wallet only if
\* something is, or was, credited.
ResolutionAsks(o, C) ==
    Releases({o}) \union OrderRows({o}) \union Wallets({CustomerOf[o]} \cap C)
ReleaseFirst(path) ==
    {Locking(path, ResolutionAsks(o, C), {o}) :
        o \in WithRelease, C \in SUBSET Customers}

LegacyAsks(o, C) == OrderRows({o}) \union Wallets({CustomerOf[o]} \cap C)
LegacyResolutions ==
    {Locking("resolve_legacy", LegacyAsks(o, C), {o}) :
        o \in Legacy, C \in SUBSET Customers}

VoidAsks(o) == Account(DriverOf[o]) \union Releases({o}) \union OrderRows({o})

Voids == {Locking("void", VoidAsks(o), {o}) : o \in WithRelease}

\* A reversal or a shortfall gives the driver back what was received of the
\* unattributed cash.
SettlementReversals ==
    UNION {{Program("reverse_settlement", Account(d) \union Releases(R), R, d, cash, "unread") :
                R \in SUBSET HeldBy(d), cash \in {0, 1}} : d \in account}

CashCorrections ==
    {Program("cash", Account(d), {}, d, cash, "unread") : d \in account, cash \in {-1, 1}}

Shortfalls == {Program("shortfall", Key(k) \union Account(d), {}, d, 1, "unread") :
                  k \in Keys, d \in account}
PayoutAsks(k, c) == Key(k) \union Wallets({c})
Payouts == {Locking("payout", PayoutAsks(k, c), {}) : k \in Keys, c \in Customers}

\* The historical reconciliation: only a proposal takes a number.
ReconciliationAsks(k, d) == Key(k) \union Setting("share") \union Account(d)
Proposals == {Locking("propose", ReconciliationAsks(k, d) \union Incident, {}) :
                 k \in Keys, d \in account}
Decisions == {Locking("decide", ReconciliationAsks(k, d), {}) : k \in Keys, d \in account}

ExclusiveSetting == Setting("update")

\* A batch is claimed in whatever order findMany returned it.
Batches ==
    {Locking("bulk", Asks(1, "order", {b[1]}, "update") \union Asks(2, "order", {b[2]}, "update"),
             {b[1], b[2]}) :
        b \in {c \in Orders \X Orders : c[1] # c[2]}}

Programs(path) ==
    CASE path = "deliver" -> Deliveries
      [] path = "settle" -> Settlements
      [] path \in {"resolve", "reverse_release"} -> ReleaseFirst(path)
      [] path = "resolve_legacy" -> LegacyResolutions
      [] path = "void" -> Voids
      [] path = "reverse_settlement" -> SettlementReversals
      [] path = "cash" -> CashCorrections
      [] path = "shortfall" -> Shortfalls
      [] path = "payout" -> Payouts
      [] path = "propose" -> Proposals
      [] path = "decide" -> Decisions
      [] path \in {"activate", "deactivate"} -> {Locking(path, ExclusiveSetting, {})}
      [] path = "bulk" -> Batches

-----------------------------------------------------------------------------
(* Locks.                                                                   *)
Waiting(t) == tx[t].stage = "open" /\ tx[t].asks # {}

Before(a, b) == a.statement < b.statement \/ (a.statement = b.statement /\ a.id <= b.id)
First(t) == CHOOSE a \in tx[t].asks : \A b \in tx[t].asks : Before(a, b)

Conflict(a, b) == a.kind = b.kind /\ a.id = b.id /\ "update" \in {a.mode, b.mode}

\* Mutant: the order is locked whatever its status.
QualifiesAnyStatus(t, a) == TRUE

\* A conditional claim waits only for a row whose committed version matches.
Qualifies(t, a) ==
    a.kind = "order" =>
        /\ tx[t].path = "deliver" => order[a.id] = "out"
        /\ tx[t].path = "bulk" => order[a.id] = "unassigned"

Blocks(u, t) ==
    /\ u # t /\ Waiting(t)
    /\ Qualifies(t, First(t))
    /\ \E h \in tx[u].holds : Conflict(First(t), h)

Init ==
    /\ order \in [Orders -> OrderStates]
    /\ flag \in {"on", "off"}
    /\ account \in SUBSET Drivers
    /\ \A o \in Orders : order[o] # "unassigned" => DriverOf[o] \in account
    /\ unattributed = [d \in Drivers |-> 0]
    /\ tx = [t \in Transactions |-> Idle]

Start(t) ==
    /\ tx[t] = Idle
    /\ \E path \in Paths : \E program \in Programs(path) : tx' = [tx EXCEPT ![t] = program]
    /\ UNCHANGED <<order, flag, account, unattributed>>

\* The next lock is granted. Reading the setting decides by what it says.
Acquire(t) ==
    LET a == First(t) IN
    /\ Waiting(t)
    /\ Qualifies(t, a)
    /\ \A u \in Transactions \ {t} : \A h \in tx[u].holds : ~Conflict(a, h)
    /\ a.kind = "setting" /\ tx[t].sees # "unread" => tx[t].sees = flag
    /\ tx' = [tx EXCEPT ![t].asks = @ \ {a}, ![t].holds = @ \union {a}]
    /\ UNCHANGED <<order, flag, account, unattributed>>

\* Mutant: the scan takes no locks.
ScanLocksNothing == {}
\* The accounts there are when the statement starts.
ScanLocks == Asks(3, "account", account, "share")

\* activateFinancialRelease, holding the setting: nothing to do when it is on.
ScanAccounts(t) ==
    /\ tx[t].stage = "open" /\ tx[t].path = "activate"
    /\ tx[t].asks = {} /\ tx[t].sees = "unread" /\ flag = "off"
    /\ tx' = [tx EXCEPT ![t].asks = ScanLocks, ![t].known = account, ![t].sees = "off"]
    /\ UNCHANGED <<order, flag, account, unattributed>>

\* The gates are read in several statements; G2 is that no account holds
\* unattributed cash. A failed gate ends the transaction.
EvaluateGates(t) ==
    /\ tx[t].stage = "open" /\ tx[t].path = "activate"
    /\ tx[t].asks = {} /\ tx[t].sees = "off"
    /\ \A d \in tx[t].known : unattributed[d] = 0
    /\ tx' = [tx EXCEPT ![t].sees = "passed"]
    /\ UNCHANGED <<order, flag, account, unattributed>>

\* A commit writes and lets go of every lock.
Ended(t) == tx' = [tx EXCEPT ![t] = [Idle EXCEPT !.stage = "ended"]]

\* No debit takes more than there is (and the bound).
Covered(cash) == \A d \in Drivers : cash[d] \in 0..MaxCash

Activated(t) == tx[t].path = "activate" /\ tx[t].sees = "passed"

Commit(t) ==
    LET x == tx[t] IN
    /\ x.stage = "open" /\ x.asks = {}
    /\ x.path = "activate" => x.sees = "passed" \/ (x.sees = "unread" /\ flag = "on")
    /\ flag' = IF Activated(t) THEN "on" ELSE IF x.path = "deactivate" THEN "off" ELSE flag
    /\ order' = [o \in Orders |->
                    CASE o \in x.orders /\ x.path = "bulk" -> "out"
                      [] o \in x.orders /\ x.path = "deliver" ->
                            IF x.sees = "on" /\ x.cash = 1 THEN "held" ELSE "closed"
                      [] OTHER -> order[o]]
    /\ LET moved == IF x.path = "deliver" /\ x.sees = "on" THEN 0 ELSE x.cash IN
       unattributed' = [d \in Drivers |->
                           IF d = x.driver THEN unattributed[d] + moved ELSE unattributed[d]]
    /\ Covered(unattributed')
    /\ Ended(t)
    /\ UNCHANGED account

\* A refused claim, a failed check or gate, a 409 or a timeout: rolled back.
Fail(t) ==
    /\ tx[t].stage = "open"
    /\ Ended(t)
    /\ UNCHANGED <<order, flag, account, unattributed>>

\* createDriver inserts the account with the driver; it waits for no lock.
createDriver(d) ==
    /\ d \notin account
    /\ account' = account \union {d}
    /\ UNCHANGED <<order, flag, unattributed, tx>>

Next ==
    \/ \E t \in Transactions :
          \/ Start(t) \/ Acquire(t) \/ ScanAccounts(t) \/ EvaluateGates(t)
          \/ Commit(t) \/ Fail(t)
    \/ \E d \in Drivers : createDriver(d)

Spec == Init /\ [][Next]_vars

-----------------------------------------------------------------------------
\* Types; an account never owes.
TypeOK ==
    /\ order \in [Orders -> OrderStates]
    /\ flag \in {"on", "off"}
    /\ account \in SUBSET Drivers
    /\ unattributed \in [Drivers -> 0..MaxCash]
    /\ tx \in [Transactions -> Transaction]

\* No set of transactions waits in a circle: in every set of them some member
\* is blocked by no other, so PostgreSQL never has to abort one of them.
DeadlockFree ==
    \A S \in (SUBSET Transactions) \ {{}} : \E t \in S : \A u \in S : ~Blocks(u, t)

\* The contract's global acquisition order, with the exception it argues
\* for: an order that is still undelivered lies below the accounts.
Class(kind, id) ==
    CASE kind = "key" -> 0
      [] kind = "setting" -> 1
      [] kind = "order" /\ order[id] \notin Delivered -> 2
      [] kind = "account" -> 3
      [] kind = "release" -> 4
      [] kind = "order" /\ order[id] \in Delivered -> 5
      [] kind = "wallet" -> 6
      [] kind = "incident" -> 7
Rank(a) == Class(a.kind, a.id) * (MaxId + 1) + a.id

\* A transaction that waits holds only rows before the one it waits for.
WaitsUpwards ==
    \A t \in Transactions :
        Waiting(t) /\ Qualifies(t, First(t)) =>
            \A h \in tx[t].holds : Rank(h) < Rank(First(t))

\* A delivery or settlement ends under the flag it was decided by: nobody
\* turns the feature on or off between its read of the setting and its commit.
DecidedByTheFlag ==
    \A t \in Transactions :
        /\ tx[t].stage = "open" /\ tx[t].path \in {"deliver", "settle"}
        /\ \E h \in tx[t].holds : h.kind = "setting"
        => tx[t].sees = flag

\* When the feature goes on, gate G2 still holds of every account there was
\* at the scan, though the gates were read some statements before.
ActivatedClean ==
    [][\A t \in Transactions :
          Activated(t) /\ tx'[t].stage = "ended" /\ flag = "off" /\ flag' = "on" =>
              \A d \in tx[t].known : unattributed[d] = 0]_vars
=============================================================================
