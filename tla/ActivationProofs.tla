-------------------------- MODULE ActivationProofs --------------------------
(***************************************************************************)
(* What an activation waits for, proved for every instance.                *)
(*                                                                         *)
(* Locks: nobody waits in a circle, as long as no batch is assigned: every *)
(* other path asks for its locks in the order of their ranks.              *)
(* Ownership: the registers of historical ownership stay consistent, and an *)
(* order leaves the list that blocks the activation with one liability.    *)
(* Reconciliation: two live records never explain the same gap, and a gate *)
(* that passes has every lost row explained by exactly one record.         *)
(***************************************************************************)
EXTENDS LockOrder, HistoricalReconciliation, HistoricalOwnership, SumTheorems, TLAPS

-----------------------------------------------------------------------------
(* Part 1: the locks of open transactions (LockOrder).                     *)
AllLocks(x) == x.asks \union x.holds

ComesBefore(a, b) == a.statement < b.statement \/ (a.statement = b.statement /\ a.id < b.id)

\* The class a path takes a row for: a delivery, its order before it delivers.
Claimed(x, a) ==
    CASE a.kind = "key" -> 0
      [] a.kind = "setting" -> 1
      [] a.kind = "order" /\ x.path = "deliver" -> 2
      [] a.kind = "account" -> 3
      [] a.kind = "release" -> 4
      [] a.kind = "order" /\ x.path # "deliver" -> 5
      [] a.kind = "wallet" -> 6
      [] a.kind = "incident" -> 7

\* The shape of every program but a batch.
Ascending(x) ==
    \A a, b \in AllLocks(x) :
        /\ a.statement < b.statement => Claimed(x, a) < Claimed(x, b)
        /\ a.statement = b.statement => a.kind = b.kind /\ a.mode = b.mode

\* An activation holds the setting, and then the accounts it scanned.
Activating(x) ==
    /\ \A a \in AllLocks(x) :
          \/ a.statement = 2 /\ a.kind = "setting" /\ a.mode = "update"
          \/ a.statement = 3 /\ a.kind = "account" /\ a.mode = "share"
    /\ x.sees = "unread" => \A a \in AllLocks(x) : a.kind = "setting"

Claims(x, kind, id) == \E a \in AllLocks(x) : a.kind = kind /\ a.id = id /\ a.mode = "update"

Shape(x) ==
    /\ x \in Transaction
    /\ x.path \in AllPaths \ {"bulk"}
    /\ Ascending(x)
    /\ \A a \in AllLocks(x) :
          /\ a.kind = "setting" => a.id = 1
          /\ a.kind = "order" => a.id \in Orders
    /\ x.path = "deliver" => \A o \in x.orders : Claims(x, "order", o)
    /\ x.cash # 0 => Claims(x, "account", x.driver)
    /\ x.path \in {"activate", "deactivate"} => Claims(x, "setting", 1)
    /\ x.path = "activate" => Activating(x)
    /\ x.path \in {"deliver", "settle"} => x.sees \in {"on", "off"}

\* What holds of a running transaction.
Running(t) ==
    LET x == tx[t] IN
    x.stage = "open" =>
        /\ Shape(x)
        /\ \A h \in x.holds, a \in x.asks : ComesBefore(h, a)
        /\ \A a \in AllLocks(x) : a.kind = "order" /\ x.path # "deliver" => order[a.id] \in Delivered
        /\ \A h \in x.holds : h.kind = "order" /\ x.path = "deliver" => order[h.id] = "out"
        /\ x.path \in {"deliver", "settle"} =>
              \A h \in x.holds : h.kind = "setting" => x.sees = flag
        /\ x.path = "activate" =>
              \A d \in x.known : \E a \in AllLocks(x) : a.kind = "account" /\ a.id = d
        /\ x.path = "activate" /\ x.sees = "passed" =>
              /\ x.asks = {}
              /\ \A d \in x.known : unattributed[d] = 0

Exclusive ==
    \A t, u \in Transactions : t # u =>
        \A a \in tx[t].holds, b \in tx[u].holds : ~Conflict(a, b)

IInv ==
    /\ TypeOK
    /\ \A t \in Transactions :
          tx[t].stage # "open" => tx[t].holds = {} /\ tx[t].path = "none"
    /\ \A t \in Transactions : Running(t)
    /\ Exclusive

NoBatches == Paths \subseteq AllPaths \ {"bulk"}

-----------------------------------------------------------------------------
(* AllLocks.                                                                   *)

\* The next lock of a transaction is one it asks for, and the first of them.
LEMMA FirstIsFirst ==
    ASSUME NEW t \in Transactions, tx[t].asks \subseteq Lock, tx[t].asks # {}
    PROVE  /\ First(t) \in tx[t].asks
           /\ \A b \in tx[t].asks : Before(First(t), b)
<1> DEFINE Place(a) == a.statement * (MaxId + 1) + a.id
           T == {Place(a) : a \in tx[t].asks}
<1>1. T \subseteq Nat /\ T # {}
  BY IdsAssumption DEF Lock
<1>2. PICK m \in T : \A n \in T : m <= n
  <2> HIDE DEF T
  <2> QED BY <1>1, NatMin
<1>3. PICK a \in tx[t].asks : m = Place(a)
  OBVIOUS
<1>4. ASSUME NEW b \in tx[t].asks PROVE Before(a, b)
  <2>1. Place(a) <= Place(b)
    BY <1>2, <1>3
  <2>2. /\ a.statement \in 1..6 /\ b.statement \in 1..6
        /\ a.id \in 1..MaxId /\ b.id \in 1..MaxId
    BY DEF Lock
  <2>3. CASE a.statement <= b.statement
    BY <2>1, <2>2, <2>3, IdsAssumption DEF Before
  <2>4. CASE a.statement >= b.statement + 1
    <3>1. a.statement * (MaxId + 1) >= b.statement * (MaxId + 1) + (MaxId + 1)
      <4> SUFFICES ASSUME NEW i \in 1..6, NEW j \in 1..6, i >= j + 1
                   PROVE  i * (MaxId + 1) >= j * (MaxId + 1) + (MaxId + 1)
        BY <2>2, <2>4
      <4>1. CASE i = 1 BY <4>1, IdsAssumption
      <4>2. CASE i = 2 BY <4>2, IdsAssumption
      <4>3. CASE i = 3
        <5>1. j = 1 \/ j = 2 BY <4>3
        <5> QED BY <4>3, <5>1, IdsAssumption
      <4>4. CASE i = 4
        <5>1. j = 1 \/ j = 2 \/ j = 3 BY <4>4
        <5> QED BY <4>4, <5>1, IdsAssumption
      <4>5. CASE i = 5
        <5>1. j = 1 \/ j = 2 \/ j = 3 \/ j = 4 BY <4>5
        <5> QED BY <4>5, <5>1, IdsAssumption
      <4>6. CASE i = 6
        <5>1. j = 1 \/ j = 2 \/ j = 3 \/ j = 4 \/ j = 5 BY <4>6
        <5> QED BY <4>6, <5>1, IdsAssumption
      <4> QED BY <4>1, <4>2, <4>3, <4>4, <4>5, <4>6
    <3>2. a.statement * (MaxId + 1) \in Nat /\ b.statement * (MaxId + 1) \in Nat
      BY <2>2, IdsAssumption
    <3> QED BY <2>1, <2>2, <3>1, <3>2, IdsAssumption
  <2> QED BY <2>2, <2>3, <2>4
<1>5. \E c \in tx[t].asks : \A b \in tx[t].asks : Before(c, b)
  BY <1>4
<1> QED BY <1>5 DEF First

-----------------------------------------------------------------------------
(* The programs.                                                            *)
\* What a new program must satisfy.
Fits(x) ==
    /\ Shape(x)
    /\ x.stage = "open" /\ x.holds = {} /\ x.known = {} /\ x.sees # "passed"
    /\ \A a \in x.asks : a.kind = "order" /\ x.path # "deliver" => order[a.id] \in Delivered

LEMMA Ids ==
    /\ Orders \subseteq 1..MaxId /\ Drivers \subseteq 1..MaxId
    /\ Customers \subseteq 1..MaxId /\ Keys \subseteq 1..MaxId
    /\ 1 \in 1..MaxId
<1>1. MaxId \in Nat /\ MaxId # 0
  BY IdsAssumption
<1>2. 1 \in 1..MaxId
  BY <1>1
<1> QED BY <1>2, IdsAssumption

LEMMA AskOfOne ==
    ASSUME NEW x, NEW n, NEW kind, NEW i, Asks(n, kind, {i}, "update") \subseteq AllLocks(x)
    PROVE  Claims(x, kind, i)
<1> DEFINE a == [statement |-> n, kind |-> kind, id |-> i, mode |-> "update"]
<1>1. a \in Asks(n, kind, {i}, "update")
  BY DEF Asks
<1>2. a.kind = kind /\ a.id = i /\ a.mode = "update"
  OBVIOUS
<1> QED BY <1>1, <1>2 DEF Claims

LEMMA DeliveriesFit ==
    ASSUME NEW o \in Orders, NEW cash \in {0, 1}, NEW C \in SUBSET Customers,
           NEW sees \in {"on", "off"}
    PROVE  Fits(Delivery(o, cash, C, sees))
<1> DEFINE A == DeliveryAsks(o, cash, C)
           x == Delivery(o, cash, C, sees)
<1>1. DriverOf[o] \in Drivers /\ CustomerOf[o] \in Customers
  BY OwnersAssumption
<1>2. /\ o \in 1..MaxId /\ DriverOf[o] \in 1..MaxId /\ CustomerOf[o] \in 1..MaxId
      /\ 1 \in 1..MaxId
  BY <1>1, Ids
<1>3. \A a \in A : a \in Lock
  BY <1>2 DEF DeliveryAsks, Setting, Asks, Wallets, Lock, Kinds
<1>4. /\ Asks(3, "order", {o}, "update") \subseteq A
      /\ cash = 1 => Asks(4, "account", {DriverOf[o]}, "update") \subseteq A
      /\ \A a \in A :
            /\ a.kind = "setting" => a.id = 1
            /\ a.kind = "order" => a.id \in Orders
  BY DEF DeliveryAsks, Setting, Asks, Wallets
<1>5. /\ \A a \in A : <<a.statement, a.kind>> \in
                          {<<2, "setting">>, <<3, "order">>, <<4, "account">>, <<6, "wallet">>}
      /\ \A a, b \in A : a.statement = b.statement => a.mode = b.mode
  BY DEF DeliveryAsks, Setting, Asks, Wallets
<1> HIDE DEF A
<1>6. x = Program("deliver", A, {o}, DriverOf[o], cash, sees)
  BY DEF Delivery, A
<1> HIDE DEF x
<1>7. x \in Transaction
  BY <1>1, <1>3, <1>6 DEF Program, Transaction, AllPaths
<1>8. x.path = "deliver" /\ AllLocks(x) = A
  BY <1>6 DEF Program, AllLocks
<1>9. Ascending(x)
  BY <1>5, <1>8 DEF Ascending, Claimed
<1>10. Claims(x, "order", o) /\ (cash = 1 => Claims(x, "account", DriverOf[o]))
  <2>1. Asks(3, "order", {o}, "update") \subseteq AllLocks(x)
    BY <1>4, <1>8
  <2>2. cash = 1 => Asks(4, "account", {DriverOf[o]}, "update") \subseteq AllLocks(x)
    BY <1>4, <1>8
  <2> QED BY <2>1, <2>2, AskOfOne
<1>11. Fits(x)
  BY <1>4, <1>6, <1>7, <1>8, <1>9, <1>10 DEF Fits, Shape, AllPaths, Program
<1> QED BY <1>11 DEF x

\* Every other program takes its rows in the order of the contract.
Standard == {<<1, "key">>, <<2, "setting">>, <<3, "account">>, <<4, "release">>,
             <<5, "order">>, <<6, "wallet">>}
Numbered == {<<1, "key">>, <<2, "setting">>, <<3, "account">>, <<4, "incident">>}

Plain(x) ==
    /\ x.stage = "open" /\ x.holds = {} /\ x.known = {} /\ x.sees # "passed"
    /\ x.path \in AllPaths \ {"deliver", "bulk"}
    /\ \/ \A a \in x.asks : <<a.statement, a.kind>> \in Standard
       \/ \A a \in x.asks : <<a.statement, a.kind>> \in Numbered
    /\ \A a \in x.asks : a.kind = "setting" => a.id = 1
    /\ \A a, b \in x.asks : a.statement = b.statement => a.mode = b.mode
    /\ \A a \in x.asks : a.kind = "order" => a.id \in Orders /\ order[a.id] \in Delivered
    /\ x.path = "settle" => x.sees \in {"on", "off"}
    /\ x.path = "activate" => \A a \in x.asks : a.kind = "setting" /\ a.mode = "update"
    /\ x.cash # 0 => Account(x.driver) \subseteq x.asks
    /\ x.path \in {"activate", "deactivate"} => Setting("update") \subseteq x.asks

LEMMA PlainFits ==
    ASSUME NEW x \in Transaction, Plain(x)
    PROVE  Fits(x)
<1>1. AllLocks(x) = x.asks
  BY DEF Plain, AllLocks
<1>2. Ascending(x)
  BY <1>1 DEF Plain, Ascending, Claimed, Standard, Numbered
<1>3. x.cash # 0 => Claims(x, "account", x.driver)
  <2>1. x.cash # 0 => Asks(3, "account", {x.driver}, "update") \subseteq AllLocks(x)
    BY <1>1 DEF Plain, Account
  <2> QED BY <2>1, AskOfOne
<1>4. x.path \in {"activate", "deactivate"} => Claims(x, "setting", 1)
  <2>1. x.path \in {"activate", "deactivate"} =>
            Asks(2, "setting", {1}, "update") \subseteq AllLocks(x)
    BY <1>1 DEF Plain, Setting
  <2> QED BY <2>1, AskOfOne
<1>5. x.path = "activate" => Activating(x)
  BY <1>1 DEF Plain, Activating, Standard, Numbered
<1> QED BY <1>1, <1>2, <1>3, <1>4, <1>5 DEF Plain, Fits, Shape

LEMMA AsksAreLocks ==
    ASSUME NEW n \in 1..6, NEW kind \in Kinds, NEW ids \in SUBSET (1..MaxId),
           NEW mode \in {"share", "update"}
    PROVE  \A a \in Asks(n, kind, ids, mode) :
              /\ a \in Lock /\ <<a.statement, a.kind>> = <<n, kind>>
              /\ a.id \in ids /\ a.mode = mode
BY DEF Asks, Lock

LEMMA ProgramTyped ==
    ASSUME NEW path \in AllPaths, NEW A \in SUBSET Lock, NEW R \in SUBSET Orders,
           NEW d \in Drivers \union {0}, NEW cash \in -1..1,
           NEW sees \in {"unread", "on", "off"}
    PROVE  Program(path, A, R, d, cash, sees) \in Transaction
BY DEF Program, Transaction

LEMMA RowsAreLocks ==
    /\ \A k \in Keys : \A a \in Key(k) :
          a \in Lock /\ <<a.statement, a.kind>> = <<1, "key">> /\ a.mode = "update"
    /\ \A mode \in {"share", "update"} : \A a \in Setting(mode) :
          a \in Lock /\ <<a.statement, a.kind>> = <<2, "setting">> /\ a.id = 1 /\ a.mode = mode
    /\ \A d \in Drivers : \A a \in Account(d) :
          a \in Lock /\ <<a.statement, a.kind>> = <<3, "account">> /\ a.mode = "update"
    /\ \A R \in SUBSET Orders : \A a \in Releases(R) :
          a \in Lock /\ <<a.statement, a.kind>> = <<4, "release">> /\ a.mode = "update"
    /\ \A R \in SUBSET Orders : \A a \in OrderRows(R) :
          a \in Lock /\ <<a.statement, a.kind>> = <<5, "order">> /\ a.id \in R /\ a.mode = "update"
    /\ \A C \in SUBSET Customers : \A a \in Wallets(C) :
          a \in Lock /\ <<a.statement, a.kind>> = <<6, "wallet">> /\ a.mode = "update"
    /\ \A a \in Incident :
          a \in Lock /\ <<a.statement, a.kind>> = <<4, "incident">> /\ a.mode = "update"
<1> USE Ids, AsksAreLocks DEF Kinds
<1>1. \A k \in Keys : \A a \in Key(k) :
          a \in Lock /\ <<a.statement, a.kind>> = <<1, "key">> /\ a.mode = "update"
  BY DEF Key
<1>2. \A mode \in {"share", "update"} : \A a \in Setting(mode) :
          a \in Lock /\ <<a.statement, a.kind>> = <<2, "setting">> /\ a.id = 1 /\ a.mode = mode
  BY DEF Setting
<1>3. \A d \in Drivers : \A a \in Account(d) :
          a \in Lock /\ <<a.statement, a.kind>> = <<3, "account">> /\ a.mode = "update"
  BY DEF Account
<1>4. \A R \in SUBSET Orders : \A a \in Releases(R) :
          a \in Lock /\ <<a.statement, a.kind>> = <<4, "release">> /\ a.mode = "update"
  BY DEF Releases
<1>5. \A R \in SUBSET Orders : \A a \in OrderRows(R) :
          a \in Lock /\ <<a.statement, a.kind>> = <<5, "order">> /\ a.id \in R /\ a.mode = "update"
  BY DEF OrderRows
<1>6. \A C \in SUBSET Customers : \A a \in Wallets(C) :
          a \in Lock /\ <<a.statement, a.kind>> = <<6, "wallet">> /\ a.mode = "update"
  BY DEF Wallets
<1>7. \A a \in Incident :
          a \in Lock /\ <<a.statement, a.kind>> = <<4, "incident">> /\ a.mode = "update"
  BY DEF Incident
<1> QED BY <1>1, <1>2, <1>3, <1>4, <1>5, <1>6, <1>7

\* A transaction that begins fits.
LEMMA ProgramsFit ==
    ASSUME account \subseteq Drivers,
           NEW path \in AllPaths \ {"bulk"}, NEW x \in Programs(path)
    PROVE  Fits(x)
<1>1. CASE path = "deliver"
  <2>1. x \in Deliveries
    BY <1>1 DEF Programs
  <2>2. \E o \in Orders, cash \in {0, 1}, C \in SUBSET Customers, sees \in {"on", "off"} :
            x = Delivery(o, cash, C, sees)
    <3>1. CASE x \in {Delivery(o, 1, {}, "on") : o \in Orders}
      BY <3>1
    <3>2. CASE x \in {Delivery(o, 1, C, "off") : o \in Orders, C \in SUBSET Customers}
      BY <3>2
    <3>3. CASE x \in {Delivery(o, 0, C, sees) :
                          o \in Orders, C \in SUBSET Customers, sees \in {"on", "off"}}
      BY <3>3
    <3> QED BY <2>1, <3>1, <3>2, <3>3 DEF Deliveries
  <2> QED BY <2>2, DeliveriesFit
<1>2. CASE path = "settle"
  <2>1. PICK d \in account, R \in SUBSET WithRelease, F \in SUBSET WithRelease, k \in Keys,
             cash \in {0, -1}, sees \in {"on", "off"} :
          x = Program("settle", SettlementAsks(k, d, R, F), R, d, cash, sees)
    BY <1>2 DEF Programs, Settlements, HeldBy
  <2> DEFINE A == SettlementAsks(k, d, R, F)
  <2>2. /\ R \in SUBSET Orders /\ F \in SUBSET Orders
        /\ \A o \in F : order[o] \in Delivered
        /\ {CustomerOf[o] : o \in F} \in SUBSET Customers
    BY OwnersAssumption DEF WithRelease, Legacy, Delivered
  <2>3. /\ A \in SUBSET Lock
        /\ \A a \in A : <<a.statement, a.kind>> \in Standard
        /\ \A a \in A : a.kind = "setting" => a.id = 1
        /\ \A a, b \in A : a.statement = b.statement => a.mode = b.mode
        /\ \A a \in A : a.kind = "order" => a.id \in Orders /\ order[a.id] \in Delivered
        /\ Account(d) \subseteq A
    BY <2>2, RowsAreLocks DEF Standard, SettlementAsks
  <2> HIDE DEF A
  <2>4. x = Program("settle", A, R, d, cash, sees)
    BY <2>1 DEF A
  <2>5. x \in Transaction
    BY <1>2, <2>2, <2>3, <2>4, ProgramTyped
  <2>6. Plain(x)
    BY <2>3, <2>4 DEF Program, Plain, AllPaths
  <2> QED BY <2>5, <2>6, PlainFits
<1>3. CASE path = "resolve"
  <2>1. PICK o \in WithRelease, C \in SUBSET Customers :
          x = Program("resolve", ResolutionAsks(o, C), {o}, 0, 0, "unread")
    BY <1>3 DEF Programs, ReleaseFirst, Locking
  <2> DEFINE A == ResolutionAsks(o, C)
  <2>2. /\ {o} \in SUBSET Orders
        /\ order[o] \in Delivered
        /\ ({CustomerOf[o]} \cap C) \in SUBSET Customers
    BY OwnersAssumption DEF WithRelease, Legacy, Delivered
  <2>3. /\ A \in SUBSET Lock
        /\ \A a \in A : <<a.statement, a.kind>> \in Standard
        /\ \A a \in A : a.kind = "setting" => a.id = 1
        /\ \A a, b \in A : a.statement = b.statement => a.mode = b.mode
        /\ \A a \in A : a.kind = "order" => a.id \in Orders /\ order[a.id] \in Delivered
    BY <2>2, RowsAreLocks DEF Standard, ResolutionAsks
  <2> HIDE DEF A
  <2>4. x = Program("resolve", A, {o}, 0, 0, "unread")
    BY <2>1 DEF A
  <2>5. x \in Transaction
    BY <1>3, <2>2, <2>3, <2>4, ProgramTyped
  <2>6. Plain(x)
    BY <2>3, <2>4 DEF Program, Plain, AllPaths
  <2> QED BY <2>5, <2>6, PlainFits
<1>4. CASE path = "reverse_release"
  <2>1. PICK o \in WithRelease, C \in SUBSET Customers :
          x = Program("reverse_release", ResolutionAsks(o, C), {o}, 0, 0, "unread")
    BY <1>4 DEF Programs, ReleaseFirst, Locking
  <2> DEFINE A == ResolutionAsks(o, C)
  <2>2. /\ {o} \in SUBSET Orders
        /\ order[o] \in Delivered
        /\ ({CustomerOf[o]} \cap C) \in SUBSET Customers
    BY OwnersAssumption DEF WithRelease, Legacy, Delivered
  <2>3. /\ A \in SUBSET Lock
        /\ \A a \in A : <<a.statement, a.kind>> \in Standard
        /\ \A a \in A : a.kind = "setting" => a.id = 1
        /\ \A a, b \in A : a.statement = b.statement => a.mode = b.mode
        /\ \A a \in A : a.kind = "order" => a.id \in Orders /\ order[a.id] \in Delivered
    BY <2>2, RowsAreLocks DEF Standard, ResolutionAsks
  <2> HIDE DEF A
  <2>4. x = Program("reverse_release", A, {o}, 0, 0, "unread")
    BY <2>1 DEF A
  <2>5. x \in Transaction
    <3>1. Program("reverse_release", A, {o}, 0, 0, "unread") \in Transaction
      BY <1>4, <2>2, <2>3, ProgramTyped
    <3> QED BY <2>4, <3>1
  <2>6. Plain(x)
    BY <2>3, <2>4 DEF Program, Plain, AllPaths
  <2> QED BY <2>5, <2>6, PlainFits
<1>5. CASE path = "resolve_legacy"
  <2>1. PICK o \in Legacy, C \in SUBSET Customers :
          x = Program("resolve_legacy", LegacyAsks(o, C), {o}, 0, 0, "unread")
    BY <1>5 DEF Programs, LegacyResolutions, Locking
  <2> DEFINE A == LegacyAsks(o, C)
  <2>2. /\ {o} \in SUBSET Orders
        /\ order[o] \in Delivered
        /\ ({CustomerOf[o]} \cap C) \in SUBSET Customers
    BY OwnersAssumption DEF WithRelease, Legacy, Delivered
  <2>3. /\ A \in SUBSET Lock
        /\ \A a \in A : <<a.statement, a.kind>> \in Standard
        /\ \A a \in A : a.kind = "setting" => a.id = 1
        /\ \A a, b \in A : a.statement = b.statement => a.mode = b.mode
        /\ \A a \in A : a.kind = "order" => a.id \in Orders /\ order[a.id] \in Delivered
    BY <2>2, RowsAreLocks DEF Standard, LegacyAsks
  <2> HIDE DEF A
  <2>4. x = Program("resolve_legacy", A, {o}, 0, 0, "unread")
    BY <2>1 DEF A
  <2>5. x \in Transaction
    <3>1. Program("resolve_legacy", A, {o}, 0, 0, "unread") \in Transaction
      BY <1>5, <2>2, <2>3, ProgramTyped
    <3> QED BY <2>4, <3>1
  <2>6. Plain(x)
    BY <2>3, <2>4 DEF Program, Plain, AllPaths
  <2> QED BY <2>5, <2>6, PlainFits
<1>6. CASE path = "void"
  <2>1. PICK o \in WithRelease :
          x = Program("void", VoidAsks(o), {o}, 0, 0, "unread")
    BY <1>6 DEF Programs, Voids, Locking
  <2> DEFINE A == VoidAsks(o)
  <2>2. /\ {o} \in SUBSET Orders
        /\ order[o] \in Delivered
        /\ DriverOf[o] \in Drivers
    BY OwnersAssumption DEF WithRelease, Legacy, Delivered
  <2>3. /\ A \in SUBSET Lock
        /\ \A a \in A : <<a.statement, a.kind>> \in Standard
        /\ \A a \in A : a.kind = "setting" => a.id = 1
        /\ \A a, b \in A : a.statement = b.statement => a.mode = b.mode
        /\ \A a \in A : a.kind = "order" => a.id \in Orders /\ order[a.id] \in Delivered
    BY <2>2, RowsAreLocks DEF Standard, VoidAsks
  <2> HIDE DEF A
  <2>4. x = Program("void", A, {o}, 0, 0, "unread")
    BY <2>1 DEF A
  <2>5. x \in Transaction
    BY <1>6, <2>2, <2>3, <2>4, ProgramTyped
  <2>6. Plain(x)
    BY <2>3, <2>4 DEF Program, Plain, AllPaths
  <2> QED BY <2>5, <2>6, PlainFits
<1>7. CASE path = "reverse_settlement"
  <2>1. PICK d \in account, R \in SUBSET WithRelease, cash \in {0, 1} :
          x = Program("reverse_settlement", Account(d) \union Releases(R), R, d, cash, "unread")
    BY <1>7 DEF Programs, SettlementReversals, HeldBy
  <2> DEFINE A == Account(d) \union Releases(R)
  <2>2. /\ R \in SUBSET Orders
    BY OwnersAssumption DEF WithRelease, Legacy, Delivered
  <2>3. /\ A \in SUBSET Lock
        /\ \A a \in A : <<a.statement, a.kind>> \in Standard
        /\ \A a \in A : a.kind = "setting" => a.id = 1
        /\ \A a, b \in A : a.statement = b.statement => a.mode = b.mode
        /\ \A a \in A : a.kind = "order" => a.id \in Orders /\ order[a.id] \in Delivered
        /\ Account(d) \subseteq A
    BY <2>2, RowsAreLocks DEF Standard
  <2> HIDE DEF A
  <2>4. x = Program("reverse_settlement", A, R, d, cash, "unread")
    BY <2>1 DEF A
  <2>5. x \in Transaction
    <3>1. Program("reverse_settlement", A, R, d, cash, "unread") \in Transaction
      BY <1>7, <2>2, <2>3, ProgramTyped
    <3> QED BY <2>4, <3>1
  <2>6. Plain(x)
    BY <2>3, <2>4 DEF Program, Plain, AllPaths
  <2> QED BY <2>5, <2>6, PlainFits
<1>8. CASE path = "cash"
  <2>1. PICK d \in account, cash \in {-1, 1} :
          x = Program("cash", Account(d), {}, d, cash, "unread")
    BY <1>8 DEF Programs, CashCorrections
  <2> DEFINE A == Account(d)
  <2>3. /\ A \in SUBSET Lock
        /\ \A a \in A : <<a.statement, a.kind>> \in Standard
        /\ \A a \in A : a.kind = "setting" => a.id = 1
        /\ \A a, b \in A : a.statement = b.statement => a.mode = b.mode
        /\ \A a \in A : a.kind = "order" => a.id \in Orders /\ order[a.id] \in Delivered
        /\ Account(d) \subseteq A
    BY RowsAreLocks DEF Standard
  <2> HIDE DEF A
  <2>4. x = Program("cash", A, {}, d, cash, "unread")
    BY <2>1 DEF A
  <2>5. x \in Transaction
    BY <1>8, <2>3, <2>4, ProgramTyped
  <2>6. Plain(x)
    BY <2>3, <2>4 DEF Program, Plain, AllPaths
  <2> QED BY <2>5, <2>6, PlainFits
<1>9. CASE path = "shortfall"
  <2>1. PICK k \in Keys, d \in account :
          x = Program("shortfall", Key(k) \union Account(d), {}, d, 1, "unread")
    BY <1>9 DEF Programs, Shortfalls
  <2> DEFINE A == Key(k) \union Account(d)
  <2>3. /\ A \in SUBSET Lock
        /\ \A a \in A : <<a.statement, a.kind>> \in Standard
        /\ \A a \in A : a.kind = "setting" => a.id = 1
        /\ \A a, b \in A : a.statement = b.statement => a.mode = b.mode
        /\ \A a \in A : a.kind = "order" => a.id \in Orders /\ order[a.id] \in Delivered
        /\ Account(d) \subseteq A
    BY RowsAreLocks DEF Standard
  <2> HIDE DEF A
  <2>4. x = Program("shortfall", A, {}, d, 1, "unread")
    BY <2>1 DEF A
  <2>5. x \in Transaction
    BY <1>9, <2>3, <2>4, ProgramTyped
  <2>6. Plain(x)
    BY <2>3, <2>4 DEF Program, Plain, AllPaths
  <2> QED BY <2>5, <2>6, PlainFits
<1>10. CASE path = "payout"
  <2>1. PICK k \in Keys, c \in Customers :
          x = Program("payout", PayoutAsks(k, c), {}, 0, 0, "unread")
    BY <1>10 DEF Programs, Payouts, Locking
  <2> DEFINE A == PayoutAsks(k, c)
  <2>2. /\ {c} \in SUBSET Customers
    BY OwnersAssumption DEF WithRelease, Legacy, Delivered
  <2>3. /\ A \in SUBSET Lock
        /\ \A a \in A : <<a.statement, a.kind>> \in Standard
        /\ \A a \in A : a.kind = "setting" => a.id = 1
        /\ \A a, b \in A : a.statement = b.statement => a.mode = b.mode
        /\ \A a \in A : a.kind = "order" => a.id \in Orders /\ order[a.id] \in Delivered
    BY <2>2, RowsAreLocks DEF Standard, PayoutAsks
  <2> HIDE DEF A
  <2>4. x = Program("payout", A, {}, 0, 0, "unread")
    BY <2>1 DEF A
  <2>5. x \in Transaction
    BY <1>10, <2>2, <2>3, <2>4, ProgramTyped
  <2>6. Plain(x)
    BY <2>3, <2>4 DEF Program, Plain, AllPaths
  <2> QED BY <2>5, <2>6, PlainFits
<1>11. CASE path = "propose"
  <2>1. PICK k \in Keys, d \in account :
          x = Program("propose", ReconciliationAsks(k, d) \union Incident, {}, 0, 0, "unread")
    BY <1>11 DEF Programs, Proposals, Locking
  <2> DEFINE A == ReconciliationAsks(k, d) \union Incident
  <2>3. /\ A \in SUBSET Lock
        /\ \A a \in A : <<a.statement, a.kind>> \in Numbered
        /\ \A a \in A : a.kind = "setting" => a.id = 1
        /\ \A a, b \in A : a.statement = b.statement => a.mode = b.mode
        /\ \A a \in A : a.kind = "order" => a.id \in Orders /\ order[a.id] \in Delivered
    BY RowsAreLocks DEF Numbered, ReconciliationAsks
  <2> HIDE DEF A
  <2>4. x = Program("propose", A, {}, 0, 0, "unread")
    BY <2>1 DEF A
  <2>5. x \in Transaction
    BY <1>11, <2>3, <2>4, ProgramTyped
  <2>6. Plain(x)
    BY <2>3, <2>4 DEF Program, Plain, AllPaths
  <2> QED BY <2>5, <2>6, PlainFits
<1>12. CASE path = "decide"
  <2>1. PICK k \in Keys, d \in account :
          x = Program("decide", ReconciliationAsks(k, d), {}, 0, 0, "unread")
    BY <1>12 DEF Programs, Decisions, Locking
  <2> DEFINE A == ReconciliationAsks(k, d)
  <2>3. /\ A \in SUBSET Lock
        /\ \A a \in A : <<a.statement, a.kind>> \in Standard
        /\ \A a \in A : a.kind = "setting" => a.id = 1
        /\ \A a, b \in A : a.statement = b.statement => a.mode = b.mode
        /\ \A a \in A : a.kind = "order" => a.id \in Orders /\ order[a.id] \in Delivered
    BY RowsAreLocks DEF Standard, ReconciliationAsks
  <2> HIDE DEF A
  <2>4. x = Program("decide", A, {}, 0, 0, "unread")
    BY <2>1 DEF A
  <2>5. x \in Transaction
    BY <1>12, <2>3, <2>4, ProgramTyped
  <2>6. Plain(x)
    BY <2>3, <2>4 DEF Program, Plain, AllPaths
  <2> QED BY <2>5, <2>6, PlainFits
<1>13. CASE path = "activate"
  <2>1. x = Program("activate", ExclusiveSetting, {}, 0, 0, "unread")
    BY <1>13 DEF Programs, Locking
  <2> DEFINE A == ExclusiveSetting
  <2>3. /\ A \in SUBSET Lock
        /\ \A a \in A : <<a.statement, a.kind>> \in Standard
        /\ \A a \in A : a.kind = "setting" => a.id = 1
        /\ \A a, b \in A : a.statement = b.statement => a.mode = b.mode
        /\ \A a \in A : a.kind = "order" => a.id \in Orders /\ order[a.id] \in Delivered
        /\ Setting("update") \subseteq A
        /\ \A a \in A : a.kind = "setting" /\ a.mode = "update"
    BY RowsAreLocks DEF Standard, ExclusiveSetting
  <2> HIDE DEF A
  <2>4. x = Program("activate", A, {}, 0, 0, "unread")
    BY <2>1 DEF A
  <2>5. x \in Transaction
    BY <1>13, <2>3, <2>4, ProgramTyped
  <2>6. Plain(x)
    BY <2>3, <2>4 DEF Program, Plain, AllPaths
  <2> QED BY <2>5, <2>6, PlainFits
<1>14. CASE path = "deactivate"
  <2>1. x = Program("deactivate", ExclusiveSetting, {}, 0, 0, "unread")
    BY <1>14 DEF Programs, Locking
  <2> DEFINE A == ExclusiveSetting
  <2>3. /\ A \in SUBSET Lock
        /\ \A a \in A : <<a.statement, a.kind>> \in Standard
        /\ \A a \in A : a.kind = "setting" => a.id = 1
        /\ \A a, b \in A : a.statement = b.statement => a.mode = b.mode
        /\ \A a \in A : a.kind = "order" => a.id \in Orders /\ order[a.id] \in Delivered
        /\ Setting("update") \subseteq A
        /\ \A a \in A : a.kind = "setting" /\ a.mode = "update"
    BY RowsAreLocks DEF Standard, ExclusiveSetting
  <2> HIDE DEF A
  <2>4. x = Program("deactivate", A, {}, 0, 0, "unread")
    BY <2>1 DEF A
  <2>5. x \in Transaction
    BY <1>14, <2>3, <2>4, ProgramTyped
  <2>6. Plain(x)
    BY <2>3, <2>4 DEF Program, Plain, AllPaths
  <2> QED BY <2>5, <2>6, PlainFits
<1> QED BY <1>1, <1>2, <1>3, <1>4, <1>5, <1>6, <1>7, <1>8, <1>9, <1>10, <1>11, <1>12, <1>13, <1>14 DEF AllPaths

-----------------------------------------------------------------------------
(* The invariant.                                                           *)
LEMMA InitInv == Init => IInv
<1> SUFFICES ASSUME Init PROVE IInv
  OBVIOUS
<1>1. /\ Idle \in Transaction /\ Idle.stage # "open"
      /\ Idle.holds = {} /\ Idle.path = "none"
  BY DEF Idle, Transaction
<1>2. TypeOK
  BY <1>1, TransactionsAssumption DEF Init, TypeOK
<1> QED BY <1>1, <1>2 DEF Init, IInv, Running, Exclusive

\* A transaction that the step leaves alone runs on, if the step respects it.
LEMMA OthersRun ==
    ASSUME NEW u \in Transactions, Running(u), tx'[u] = tx[u],
           \A o \in Orders : order[o] \in Delivered => order'[o] \in Delivered,
           \A h \in tx[u].holds :
              tx[u].stage = "open" /\ h.kind = "order" /\ tx[u].path = "deliver" =>
                  order'[h.id] = order[h.id],
           \A h \in tx[u].holds : tx[u].stage = "open" /\ h.kind = "setting" => flag' = flag,
           tx[u].stage = "open" /\ tx[u].path = "activate" /\ tx[u].sees = "passed" =>
              \A d \in tx[u].known : unattributed'[d] = unattributed[d]
    PROVE  Running(u)'
<1> SUFFICES ASSUME tx[u].stage = "open" PROVE Running(u)'
  BY DEF Running
<1>1. \A a \in AllLocks(tx[u]) : a.kind = "order" /\ tx[u].path # "deliver" =>
          order'[a.id] \in Delivered
  <2>1. \A a \in AllLocks(tx[u]) : a.kind = "order" => a.id \in Orders
    BY DEF Running, Shape
  <2> QED BY <2>1 DEF Running
<1> QED BY <1>1 DEF Running

\* AllLocks taken beside no conflicting lock are held beside none.
LEMMA ExclusiveKept ==
    ASSUME NEW t \in Transactions, Exclusive,
           \A u \in Transactions \ {t} : tx'[u] = tx[u],
           \A h \in tx'[t].holds :
              \/ h \in tx[t].holds
              \/ \A u \in Transactions \ {t} : \A b \in tx[u].holds :
                    ~Conflict(h, b) /\ ~Conflict(b, h)
    PROVE  Exclusive'
<1> SUFFICES ASSUME NEW u \in Transactions, NEW v \in Transactions, u # v,
                    NEW a \in tx'[u].holds, NEW b \in tx'[v].holds
             PROVE  ~Conflict(a, b)
  BY DEF Exclusive, Conflict
<1>1. CASE u = t
  BY <1>1 DEF Exclusive
<1>2. CASE v = t
  BY <1>2 DEF Exclusive
<1>3. CASE u # t /\ v # t
  BY <1>3 DEF Exclusive
<1> QED BY <1>1, <1>2, <1>3

LEMMA StartInv ==
    ASSUME IInv, NoBatches, NEW t \in Transactions, Start(t)
    PROVE  IInv'
<1>1. PICK path \in Paths : \E program \in Programs(path) : tx' = [tx EXCEPT ![t] = program]
  BY DEF Start
<1>2. PICK x \in Programs(path) : tx' = [tx EXCEPT ![t] = x]
  BY <1>1
<1>3. Fits(x)
  BY ProgramsFit DEF NoBatches, IInv, TypeOK
<1>4. /\ tx \in [Transactions -> Transaction]
      /\ tx'[t] = x /\ \A u \in Transactions \ {t} : tx'[u] = tx[u]
      /\ UNCHANGED <<order, flag, account, unattributed>>
  BY <1>2 DEF Start, IInv, TypeOK
<1>5. x \in Transaction
  BY <1>3 DEF Fits, Shape
<1>6. TypeOK'
  BY <1>2, <1>4, <1>5 DEF IInv, TypeOK
<1>7. Running(t)'
  BY <1>3, <1>4 DEF Fits, Running, AllLocks, Delivered
<1>8. \A u \in Transactions \ {t} : Running(u)'
  BY <1>4, OthersRun DEF IInv
<1>9. Exclusive'
  BY <1>3, <1>4 DEF IInv, Exclusive, Fits, Conflict
<1> QED BY <1>3, <1>4, <1>6, <1>7, <1>8, <1>9 DEF IInv, Fits

LEMMA AcquireInv ==
    ASSUME IInv, NEW t \in Transactions, Acquire(t)
    PROVE  IInv'
<1> DEFINE x == tx[t]
           y == tx'[t]
           a == First(t)
<1>1. /\ x.stage = "open" /\ x.asks # {} /\ Running(t) /\ Shape(x) /\ x \in Transaction
      /\ tx \in [Transactions -> Transaction]
  BY DEF Acquire, Waiting, IInv, TypeOK, Running
<1>2. a \in x.asks /\ \A b \in x.asks : Before(a, b)
  BY <1>1, FirstIsFirst DEF Transaction
<1>3. /\ y = [x EXCEPT !.asks = @ \ {a}, !.holds = @ \union {a}]
      /\ \A u \in Transactions \ {t} : tx'[u] = tx[u]
      /\ UNCHANGED <<order, flag, account, unattributed>>
  BY <1>1 DEF Acquire
<1>4. /\ y.asks = x.asks \ {a} /\ y.holds = x.holds \union {a}
      /\ y.stage = x.stage /\ y.path = x.path /\ y.orders = x.orders /\ y.driver = x.driver
      /\ y.cash = x.cash /\ y.sees = x.sees /\ y.known = x.known
  BY <1>1, <1>3 DEF Transaction
<1>5. AllLocks(y) = AllLocks(x)
  BY <1>2, <1>4 DEF AllLocks
<1>6. y \in Transaction
  <2>1. x.asks \ {a} \in SUBSET Lock /\ x.holds \union {a} \in SUBSET Lock
    BY <1>1, <1>2 DEF Transaction
  <2> HIDE DEF a
  <2> QED BY <1>1, <1>3, <2>1 DEF Transaction
<1>7. TypeOK'
  BY <1>1, <1>3, <1>6 DEF IInv, TypeOK, Acquire
<1>8. Shape(y)
  <2>1. Ascending(y)
    <3>1. \A b : Claimed(y, b) = Claimed(x, b)
      BY <1>4 DEF Claimed
    <3> QED BY <1>1, <1>5, <3>1 DEF Shape, Ascending
  <2>2. x.path = "activate" => Activating(y)
    BY <1>1, <1>4, <1>5 DEF Shape, Activating
  <2>3. \A kind, id : Claims(x, kind, id) => Claims(y, kind, id)
    BY <1>5 DEF Claims
  <2> QED BY <1>1, <1>4, <1>5, <1>6, <2>1, <2>2, <2>3 DEF Shape
<1>9. Running(t)'
  <2>1. \A h \in y.holds, b \in y.asks : ComesBefore(h, b)
    <3> SUFFICES ASSUME NEW b \in y.asks PROVE ComesBefore(a, b)
      BY <1>1, <1>4 DEF Running
    <3>1. Before(a, b) /\ a # b /\ b \in x.asks
      BY <1>2, <1>4
    <3>2. a \in Lock /\ b \in Lock
      BY <1>1, <1>2, <3>1 DEF Transaction
    <3>3. ~(a.statement = b.statement /\ a.id = b.id)
      <4>1. a.statement = b.statement => a.kind = b.kind /\ a.mode = b.mode
        BY <1>1, <1>2, <3>1 DEF Shape, Ascending, AllLocks
      <4> QED BY <3>1, <3>2, <4>1 DEF Lock
    <3> QED BY <3>1, <3>2, <3>3 DEF Before, ComesBefore, Lock
  <2>2. \A h \in y.holds : h.kind = "order" /\ y.path = "deliver" => order'[h.id] = "out"
    BY <1>1, <1>3, <1>4 DEF Running, Acquire, Qualifies
  <2>3. y.path \in {"deliver", "settle"} =>
            \A h \in y.holds : h.kind = "setting" => y.sees = flag'
    BY <1>1, <1>3, <1>4 DEF Running, Acquire, Shape
  <2>4. ~(y.path = "activate" /\ y.sees = "passed")
    BY <1>1, <1>4 DEF Running
  <2>5. \A b \in AllLocks(y) : b.kind = "order" /\ y.path # "deliver" => order'[b.id] \in Delivered
    BY <1>1, <1>3, <1>4, <1>5 DEF Running
  <2>6. y.path = "activate" =>
            \A d \in y.known : \E b \in AllLocks(y) : b.kind = "account" /\ b.id = d
    BY <1>1, <1>4, <1>5 DEF Running
  <2> QED BY <1>8, <2>1, <2>2, <2>3, <2>4, <2>5, <2>6 DEF Running, Delivered
<1>10. \A u \in Transactions \ {t} : Running(u)'
  BY <1>3, OthersRun DEF IInv
<1>11. Exclusive'
  <2>1. \A u \in Transactions \ {t} : \A h \in tx[u].holds : ~Conflict(a, h) /\ ~Conflict(h, a)
    BY DEF Acquire, Conflict
  <2>2. \A h \in tx'[t].holds : h \in tx[t].holds \/ h = a
    BY <1>4
  <2> HIDE DEF a
  <2>3. \A h \in tx'[t].holds :
            \/ h \in tx[t].holds
            \/ \A u \in Transactions \ {t} : \A b \in tx[u].holds :
                  ~Conflict(h, b) /\ ~Conflict(b, h)
    BY <2>1, <2>2
  <2>4. Exclusive /\ \A u \in Transactions \ {t} : tx'[u] = tx[u]
    BY <1>3 DEF IInv
  <2> QED BY <2>3, <2>4, ExclusiveKept
<1> QED BY <1>1, <1>3, <1>4, <1>7, <1>9, <1>10, <1>11 DEF IInv

LEMMA ScanInv ==
    ASSUME IInv, NEW t \in Transactions, ScanAccounts(t)
    PROVE  IInv'
<1> DEFINE x == tx[t]
           y == tx'[t]
<1>1. /\ x.stage = "open" /\ x.path = "activate" /\ x.asks = {} /\ x.sees = "unread"
      /\ Running(t) /\ Shape(x) /\ Activating(x) /\ x \in Transaction
      /\ tx \in [Transactions -> Transaction] /\ account \subseteq Drivers
  BY DEF ScanAccounts, IInv, TypeOK, Running, Shape
<1>2. /\ y = [x EXCEPT !.asks = ScanLocks, !.known = account, !.sees = "off"]
      /\ \A u \in Transactions \ {t} : tx'[u] = tx[u]
      /\ UNCHANGED <<order, flag, account, unattributed>>
  BY <1>1 DEF ScanAccounts
<1>3. \A a \in ScanLocks : /\ a \in Lock /\ a.statement = 3 /\ a.kind = "account"
                           /\ a.mode = "share"
  BY <1>1, Ids, AsksAreLocks DEF ScanLocks, Kinds
<1>4. \A d \in account : \E a \in ScanLocks : a.kind = "account" /\ a.id = d
  <2> TAKE d \in account
  <2> DEFINE a == [statement |-> 3, kind |-> "account", id |-> d, mode |-> "share"]
  <2>1. a \in ScanLocks
    BY DEF ScanLocks, Asks
  <2> QED BY <2>1
<1>5. /\ y.asks = ScanLocks /\ y.holds = x.holds /\ y.known = account /\ y.sees = "off"
      /\ y.stage = x.stage /\ y.path = x.path /\ y.orders = x.orders
      /\ y.driver = x.driver /\ y.cash = x.cash
  BY <1>1, <1>2 DEF Transaction
<1>6. AllLocks(y) = x.holds \union ScanLocks /\ AllLocks(x) = x.holds
  BY <1>1, <1>5 DEF AllLocks
<1> HIDE DEF x, y
<1>7. y \in Transaction
  <2>1. ScanLocks \in SUBSET Lock
    BY <1>3
  <2> QED BY <1>1, <1>2, <2>1 DEF Transaction
<1>8. TypeOK'
  BY <1>1, <1>2, <1>7 DEF IInv, TypeOK, ScanAccounts, x, y
<1>9. \A h \in x.holds : h.statement = 2 /\ h.kind = "setting" /\ h.mode = "update"
  BY <1>1, <1>6 DEF Activating
<1>10. Shape(y)
  <2>1. Ascending(y)
    BY <1>1, <1>3, <1>5, <1>6, <1>9 DEF Ascending, Claimed
  <2>2. Activating(y)
    BY <1>3, <1>5, <1>6, <1>9 DEF Activating
  <2>3. \A kind, id : Claims(x, kind, id) => Claims(y, kind, id)
    BY <1>6 DEF Claims
  <2>4. \A a \in AllLocks(y) : /\ a.kind = "setting" => a.id = 1
                            /\ a.kind # "order"
    BY <1>1, <1>3, <1>6, <1>9 DEF Shape
  <2> QED BY <1>1, <1>5, <1>7, <2>1, <2>2, <2>3, <2>4 DEF Shape
<1>11. Running(t)'
  <2>1. \A h \in y.holds, a \in y.asks : ComesBefore(h, a)
    BY <1>3, <1>5, <1>9 DEF ComesBefore
  <2>2. \A a \in AllLocks(y) : a.kind # "order"
    BY <1>3, <1>6, <1>9
  <2>3. \A d \in y.known : \E a \in AllLocks(y) : a.kind = "account" /\ a.id = d
    BY <1>4, <1>5, <1>6
  <2> QED BY <1>1, <1>5, <1>10, <2>1, <2>2, <2>3 DEF Running, AllLocks, x, y
<1>12. \A u \in Transactions \ {t} : Running(u)'
  BY <1>2, OthersRun DEF IInv
<1>13. Exclusive'
  BY <1>2, <1>5, ExclusiveKept DEF IInv, x, y
<1> QED BY <1>1, <1>2, <1>5, <1>8, <1>11, <1>12, <1>13 DEF IInv, x, y

LEMMA EvaluateInv ==
    ASSUME IInv, NEW t \in Transactions, EvaluateGates(t)
    PROVE  IInv'
<1> DEFINE x == tx[t]
           y == tx'[t]
<1>1. /\ x.stage = "open" /\ x.path = "activate" /\ x.asks = {} /\ x.sees = "off"
      /\ \A d \in x.known : unattributed[d] = 0
      /\ Running(t) /\ Shape(x) /\ Activating(x) /\ x \in Transaction
      /\ tx \in [Transactions -> Transaction]
  BY DEF EvaluateGates, IInv, TypeOK, Running, Shape
<1>2. /\ y = [x EXCEPT !.sees = "passed"]
      /\ \A u \in Transactions \ {t} : tx'[u] = tx[u]
      /\ UNCHANGED <<order, flag, account, unattributed>>
  BY <1>1 DEF EvaluateGates
<1>3. /\ y.asks = {} /\ y.holds = x.holds /\ y.known = x.known /\ y.sees = "passed"
      /\ y.stage = x.stage /\ y.path = x.path /\ y.orders = x.orders
      /\ y.driver = x.driver /\ y.cash = x.cash
  BY <1>1, <1>2 DEF Transaction
<1>4. AllLocks(y) = AllLocks(x)
  BY <1>1, <1>3 DEF AllLocks
<1>5. y \in Transaction
  BY <1>1, <1>2 DEF Transaction
<1>6. TypeOK'
  BY <1>1, <1>2, <1>5 DEF IInv, TypeOK, EvaluateGates
<1>7. Shape(y)
  <2>1. Ascending(y)
    <3>1. \A b : Claimed(y, b) = Claimed(x, b)
      BY <1>3 DEF Claimed
    <3> QED BY <1>1, <1>4, <3>1 DEF Shape, Ascending
  <2>2. Activating(y)
    BY <1>1, <1>3, <1>4 DEF Activating
  <2>3. \A kind, id : Claims(x, kind, id) => Claims(y, kind, id)
    BY <1>4 DEF Claims
  <2> QED BY <1>1, <1>3, <1>4, <1>5, <2>1, <2>2, <2>3 DEF Shape
<1>8. Running(t)'
  BY <1>1, <1>2, <1>3, <1>4, <1>7 DEF Running, Delivered
<1>9. \A u \in Transactions \ {t} : Running(u)'
  BY <1>2, OthersRun DEF IInv
<1>10. Exclusive'
  BY <1>2, <1>3, ExclusiveKept DEF IInv
<1> QED BY <1>1, <1>2, <1>3, <1>6, <1>8, <1>9, <1>10 DEF IInv

LEMMA EndedInv ==
    ASSUME IInv, NEW t \in Transactions, Ended(t)
    PROVE  /\ tx' \in [Transactions -> Transaction]
           /\ \A u \in Transactions \ {t} : tx'[u] = tx[u]
           /\ tx'[t].stage # "open" /\ tx'[t].holds = {} /\ tx'[t].path = "none"
           /\ Running(t)' /\ Exclusive'
<1>1. [Idle EXCEPT !.stage = "ended"] \in Transaction
  BY DEF Idle, Transaction
<1>2. /\ tx' \in [Transactions -> Transaction]
      /\ \A u \in Transactions \ {t} : tx'[u] = tx[u]
      /\ tx'[t] = [Idle EXCEPT !.stage = "ended"]
  BY <1>1 DEF Ended, IInv, TypeOK
<1>3. tx'[t].stage # "open" /\ tx'[t].holds = {} /\ tx'[t].path = "none"
  BY <1>2 DEF Idle
<1>4. Running(t)'
  BY <1>3 DEF Running
<1>5. Exclusive'
  BY <1>2, <1>3, ExclusiveKept DEF IInv
<1> QED BY <1>2, <1>3, <1>4, <1>5

LEMMA CommitInv ==
    ASSUME IInv, NEW t \in Transactions, Commit(t)
    PROVE  IInv'
<1> DEFINE x == tx[t]
<1>1. /\ x.stage = "open" /\ x.asks = {} /\ Running(t) /\ Shape(x) /\ x \in Transaction
      /\ AllLocks(x) = x.holds
  BY DEF Commit, IInv, TypeOK, Running, AllLocks
<1>2. Ended(t) /\ account' = account
  BY DEF Commit
<1>3. \A u \in Transactions \ {t} : tx'[u] = tx[u]
  BY <1>2, EndedInv
\* A lock of another transaction excludes what the commit changes.
<1>4. \A u \in Transactions \ {t} : \A kind, id :
          Claims(x, kind, id) => \A h \in tx[u].holds : ~(h.kind = kind /\ h.id = id)
  BY <1>1 DEF Claims, IInv, Exclusive, Conflict
<1>5. \A o \in Orders : order'[o] # order[o] =>
          x.path = "deliver" /\ o \in x.orders /\ order'[o] \in Delivered
  BY <1>1 DEF Commit, Delivered, Shape
<1>6. flag' # flag => x.path \in {"activate", "deactivate"}
  BY DEF Commit, Activated
<1>7. \A d \in Drivers : unattributed'[d] # unattributed[d] => x.cash # 0 /\ d = x.driver
  <2> TAKE d \in Drivers
  <2>1. CASE d # x.driver
    BY <2>1 DEF Commit
  <2>2. CASE x.cash = 0
    <3>1. unattributed[d] \in 0..MaxCash
      BY DEF IInv, TypeOK
    <3> QED BY <2>2, <3>1, TransactionsAssumption DEF Commit
  <2> QED BY <2>1, <2>2
<1>8. TypeOK'
  <2>1. order' \in [Orders -> OrderStates]
    <3>1. order' = [o \in Orders |-> order'[o]]
      BY DEF Commit
    <3>2. \A o \in Orders : order'[o] \in OrderStates
      BY <1>5 DEF IInv, TypeOK, Delivered, OrderStates
    <3> QED BY <3>1, <3>2
  <2>2. flag' \in {"on", "off"}
    BY DEF Commit, IInv, TypeOK
  <2>3. unattributed' \in [Drivers -> 0..MaxCash]
    BY DEF Commit, Covered
  <2> QED BY <1>2, <2>1, <2>2, <2>3, EndedInv DEF IInv, TypeOK
<1>9. ASSUME NEW u \in Transactions \ {t} PROVE Running(u)'
  <2> HIDE DEF x
  <2> SUFFICES ASSUME tx[u].stage = "open" PROVE Running(u)'
    BY <1>3 DEF Running
  <2>1. Running(u) /\ Shape(tx[u]) /\ tx[u] \in Transaction
    BY DEF IInv, Running, Shape
  <2>2. \A h \in tx[u].holds : h.kind = "order" => order'[h.id] = order[h.id]
    <3> SUFFICES ASSUME NEW h \in tx[u].holds, h.kind = "order" PROVE order'[h.id] = order[h.id]
      OBVIOUS
    <3>1. h.id \in Orders
      BY <2>1 DEF Shape, AllLocks
    <3>2. x.path = "deliver" /\ h.id \in x.orders => Claims(x, "order", h.id)
      BY <1>1 DEF Shape
    <3> QED BY <1>4, <1>5, <3>1, <3>2
  <2>3. \A h \in tx[u].holds : h.kind = "setting" => flag' = flag
    <3> SUFFICES ASSUME NEW h \in tx[u].holds, h.kind = "setting" PROVE flag' = flag
      OBVIOUS
    <3>1. h.id = 1
      BY <2>1 DEF Shape, AllLocks
    <3>2. x.path \in {"activate", "deactivate"} => Claims(x, "setting", 1)
      BY <1>1 DEF Shape
    <3> QED BY <1>4, <1>6, <3>1, <3>2
  <2>4. tx[u].path = "activate" /\ tx[u].sees = "passed" =>
            \A d \in tx[u].known : unattributed'[d] = unattributed[d]
    <3> SUFFICES ASSUME tx[u].path = "activate", tx[u].sees = "passed",
                        NEW d \in tx[u].known
                 PROVE  unattributed'[d] = unattributed[d]
      OBVIOUS
    <3>1. d \in Drivers
      BY <2>1 DEF Transaction
    <3>2. \E h \in tx[u].holds : h.kind = "account" /\ h.id = d
      BY <2>1 DEF Running, AllLocks
    <3>3. x.cash # 0 => Claims(x, "account", x.driver)
      BY <1>1 DEF Shape
    <3> QED BY <1>4, <1>7, <3>1, <3>2, <3>3
  <2>5. \A o \in Orders : order[o] \in Delivered => order'[o] \in Delivered
    BY <1>5
  <2> QED BY <1>3, <2>1, <2>2, <2>3, <2>4, <2>5, OthersRun
<1>10. \A u \in Transactions :
           tx'[u].stage # "open" => tx'[u].holds = {} /\ tx'[u].path = "none"
  BY <1>2, <1>3, EndedInv DEF IInv
<1> QED BY <1>2, <1>8, <1>9, <1>10, EndedInv DEF IInv

\* A step that moves nothing but an ended transaction or a new account.
LEMMA FailInv ==
    ASSUME IInv, NEW t \in Transactions, Fail(t)
    PROVE  IInv'
<1>1. Ended(t) /\ UNCHANGED <<order, flag, account, unattributed>>
  BY DEF Fail
<1>2. \A u \in Transactions \ {t} : Running(u)'
  BY <1>1, EndedInv, OthersRun DEF IInv
<1>3. TypeOK'
  BY <1>1, EndedInv DEF IInv, TypeOK
<1> QED BY <1>1, <1>2, <1>3, EndedInv DEF IInv

LEMMA CreateInv ==
    ASSUME IInv, NEW d \in Drivers, createDriver(d)
    PROVE  IInv'
<1>1. UNCHANGED <<order, flag, unattributed, tx>> /\ account' \subseteq Drivers
  BY DEF createDriver, IInv, TypeOK
<1>2. \A u \in Transactions : Running(u)'
  BY <1>1, OthersRun DEF IInv
<1> QED BY <1>1, <1>2 DEF IInv, TypeOK, Exclusive, Conflict

LEMMA Invariance ==
    ASSUME NoBatches
    PROVE  Spec => []IInv
<1>1. ASSUME IInv, [Next]_vars PROVE IInv'
  <2>1. CASE UNCHANGED vars
    BY <1>1, <2>1 DEF vars, IInv, TypeOK, Running, Exclusive, Conflict, Delivered
  <2>2. CASE \E d \in Drivers : createDriver(d)
    BY <1>1, <2>2, CreateInv
  <2>3. CASE \E t \in Transactions :
               \/ Start(t) \/ Acquire(t) \/ ScanAccounts(t) \/ EvaluateGates(t)
               \/ Commit(t) \/ Fail(t)
    BY <1>1, <2>3, StartInv, AcquireInv, ScanInv, EvaluateInv, CommitInv, FailInv
  <2> QED BY <1>1, <2>1, <2>2, <2>3 DEF Next
<1> QED BY InitInv, <1>1, PTL DEF Spec

-----------------------------------------------------------------------------
\* A waiting transaction waits for a row above those it holds.
LEMMA Upwards ==
    ASSUME IInv, NEW t \in Transactions, Waiting(t), Qualifies(t, First(t)),
           NEW h \in tx[t].holds
    PROVE  Rank(h) < Rank(First(t))
<1> DEFINE a == First(t)
           x == tx[t]
<1>1. /\ Running(t) /\ Shape(x) /\ x \in Transaction /\ x.asks # {} /\ x.stage = "open"
  BY DEF Waiting, IInv, Running, Shape
<1>2. a \in x.asks
  BY <1>1, FirstIsFirst DEF Transaction
<1>3. ComesBefore(h, a) /\ a \in Lock /\ h \in Lock /\ a \in AllLocks(x) /\ h \in AllLocks(x)
  BY <1>1, <1>2 DEF Running, Transaction, AllLocks
<1>4. Class(h.kind, h.id) = Claimed(x, h) /\ Class(a.kind, a.id) = Claimed(x, a)
  <2>1. h.kind = "order" => (order[h.id] \in Delivered <=> x.path # "deliver")
    BY <1>1, <1>3 DEF Running, Delivered
  <2>2. a.kind = "order" => (order[a.id] \in Delivered <=> x.path # "deliver")
    BY <1>1, <1>3 DEF Running, Delivered, Qualifies
  <2> QED BY <1>3, <2>1, <2>2 DEF Class, Claimed, Lock, Kinds
<1>5. Claimed(x, h) \in 0..7 /\ Claimed(x, a) \in 0..7
  BY <1>3 DEF Claimed, Lock, Kinds
<1>6. h.id \in 1..MaxId /\ a.id \in 1..MaxId /\ MaxId \in Nat
  BY <1>3, IdsAssumption DEF Lock
<1>7. CASE h.statement < a.statement
  <2>1. Claimed(x, h) < Claimed(x, a)
    BY <1>1, <1>3, <1>7 DEF Shape, Ascending
  <2>2. ASSUME NEW i \in 0..7, NEW j \in 0..7, i < j
        PROVE  i * (MaxId + 1) + MaxId < j * (MaxId + 1) + 1
    <3>1. CASE i = 0
      <4>1. j \in {1, 2, 3, 4, 5, 6, 7} BY <2>2, <3>1
      <4> QED BY <3>1, <4>1, <1>6
    <3>2. CASE i = 1
      <4>1. j \in {2, 3, 4, 5, 6, 7} BY <2>2, <3>2
      <4> QED BY <3>2, <4>1, <1>6
    <3>3. CASE i = 2
      <4>1. j \in {3, 4, 5, 6, 7} BY <2>2, <3>3
      <4> QED BY <3>3, <4>1, <1>6
    <3>4. CASE i = 3
      <4>1. j \in {4, 5, 6, 7} BY <2>2, <3>4
      <4> QED BY <3>4, <4>1, <1>6
    <3>5. CASE i = 4
      <4>1. j \in {5, 6, 7} BY <2>2, <3>5
      <4> QED BY <3>5, <4>1, <1>6
    <3>6. CASE i = 5
      <4>1. j \in {6, 7} BY <2>2, <3>6
      <4> QED BY <3>6, <4>1, <1>6
    <3>7. CASE i = 6
      <4>1. j = 7 BY <2>2, <3>7
      <4> QED BY <3>7, <4>1, <1>6
    <3> QED BY <2>2, <3>1, <3>2, <3>3, <3>4, <3>5, <3>6, <3>7
  <2>3. Claimed(x, h) * (MaxId + 1) + MaxId < Claimed(x, a) * (MaxId + 1) + 1
    BY <1>5, <2>1, <2>2
  <2>4. Claimed(x, h) * (MaxId + 1) \in Nat /\ Claimed(x, a) * (MaxId + 1) \in Nat
    BY <1>5, <1>6
  <2> QED BY <1>4, <1>6, <2>3, <2>4 DEF Rank
<1>8. CASE h.statement = a.statement
  <2>1. h.kind = a.kind /\ h.id < a.id
    BY <1>1, <1>3, <1>8 DEF Shape, Ascending, ComesBefore, Lock
  <2>2. Claimed(x, h) = Claimed(x, a)
    BY <2>1 DEF Claimed
  <2>3. Claimed(x, a) * (MaxId + 1) \in Nat
    BY <1>5, <1>6
  <2> QED BY <1>4, <1>6, <2>1, <2>2, <2>3 DEF Rank
<1> QED BY <1>3, <1>7, <1>8 DEF ComesBefore

LEMMA RankBound ==
    ASSUME NEW a \in Lock
    PROVE  Rank(a) \in Nat /\ Rank(a) <= 8 * (MaxId + 1)
<1>1. Class(a.kind, a.id) \in {0, 1, 2, 3, 4, 5, 6, 7}
  BY DEF Class, Lock, Kinds
<1>2. a.id \in 1..MaxId /\ MaxId \in Nat
  BY IdsAssumption DEF Lock
<1> QED BY <1>1, <1>2 DEF Rank

\* A circle would have no transaction that waits for the row of the highest rank.
LEMMA NoCircle == IInv => DeadlockFree
<1> SUFFICES ASSUME IInv, NEW S \in (SUBSET Transactions) \ {{}}
             PROVE  \E t \in S : \A u \in S : ~Blocks(u, t)
  BY DEF DeadlockFree
<1> SUFFICES ASSUME \A t \in S : \E u \in S : Blocks(u, t)
             PROVE  FALSE
  OBVIOUS
<1> DEFINE Left(t) == 8 * (MaxId + 1) - Rank(First(t))
           T == {Left(t) : t \in S}
<1>1. \A t \in S : Waiting(t) /\ Qualifies(t, First(t))
  BY DEF Blocks
<1>2. \A t \in S : First(t) \in Lock /\ tx[t] \in Transaction
  BY <1>1, FirstIsFirst DEF Waiting, IInv, TypeOK, Transaction
<1>3. \A t \in S : Rank(First(t)) \in Nat /\ Left(t) \in Nat
  BY <1>2, RankBound, IdsAssumption
<1>4. T \subseteq Nat /\ T # {}
  <2>1. S # {}
    OBVIOUS
  <2> HIDE DEF Left
  <2> QED BY <1>3, <2>1
<1>5. PICK m \in T : \A n \in T : m <= n
  <2> HIDE DEF T
  <2> QED BY <1>4, NatMin
<1>6. PICK t \in S : m = Left(t)
  OBVIOUS
<1>7. PICK u \in S : Blocks(u, t)
  OBVIOUS
\* u waits for a row above the one it holds and t waits for.
<1>8. PICK h \in tx[u].holds : Conflict(First(t), h)
  BY <1>7 DEF Blocks
<1>9. Rank(h) = Rank(First(t))
  BY <1>8 DEF Conflict, Rank
<1>10. Rank(h) < Rank(First(u))
  BY <1>1, Upwards
<1>11. Left(u) < Left(t)
  BY <1>3, <1>9, <1>10, IdsAssumption
<1> HIDE DEF Left
<1>12. m <= Left(u) /\ m = Left(t) /\ m \in Nat /\ Left(u) \in Nat
  BY <1>3, <1>4, <1>5, <1>6
<1> QED BY <1>11, <1>12

\* Types hold of every instance that assigns no batches.
THEOREM LockTypes ==
    ASSUME NoBatches
    PROVE  Spec => []TypeOK
<1>1. IInv => TypeOK
  BY DEF IInv
<1> QED BY <1>1, Invariance, PTL

\* Every path of the contract, and the historical ones, for any number of
\* rows and transactions: nobody waits in a circle.
THEOREM NeverDeadlocks ==
    ASSUME NoBatches
    PROVE  Spec => []DeadlockFree
<1> QED BY NoCircle, Invariance, PTL

\* The rule that makes it so: locks are asked for in the global order.
THEOREM LocksAscend ==
    ASSUME NoBatches
    PROVE  Spec => []WaitsUpwards
<1>1. IInv => WaitsUpwards
  BY Upwards DEF WaitsUpwards
<1> QED BY <1>1, Invariance, PTL

\* What a delivery or a settlement read of the activation is true as long
\* as it runs.
THEOREM FlagStands ==
    ASSUME NoBatches
    PROVE  Spec => []DecidedByTheFlag
<1>1. IInv => DecidedByTheFlag
  BY DEF IInv, Running, DecidedByTheFlag
<1> QED BY <1>1, Invariance, PTL

\* The gate that was read is still true at the commit it allows.
THEOREM GateStands ==
    ASSUME NoBatches
    PROVE  Spec => ActivatedClean
<1>1. IInv /\ [Next]_vars =>
        [\A t \in Transactions :
            Activated(t) /\ tx'[t].stage = "ended" /\ flag = "off" /\ flag' = "on" =>
                \A d \in tx[t].known : unattributed[d] = 0]_vars
  <2> SUFFICES ASSUME IInv, NEW t \in Transactions, Activated(t), tx'[t].stage = "ended",
                      flag # flag'
               PROVE  \A d \in tx[t].known : unattributed[d] = 0
    OBVIOUS
  <2>1. Running(t) /\ tx[t].path = "activate" /\ tx[t].sees = "passed"
    BY DEF IInv, Activated
  <2>2. tx[t].stage = "open"
    BY <2>1 DEF IInv
  <2> QED BY <2>1, <2>2 DEF Running
<1> QED BY <1>1, Invariance, PTL DEF Spec, ActivatedClean

-----------------------------------------------------------------------------
(* Part 2: the registers of historical ownership (HistoricalOwnership).    *)
-----------------------------------------------------------------------------
(* What a consistent history makes of a record.                            *)
Approves(d, decs) == decs[d].kind = "APPROVED"

LEMMA StatusIs ==
    ASSUME NEW decs, IsFiniteSet(DOMAIN decs), Histories(decs), NEW k
    PROVE  /\ StatusOf(k, decs) # "INVALID_HISTORY"
           /\ StatusOf(k, decs) = "PROPOSED" <=> RulingsOn(k, decs) = {}
           /\ StatusOf(k, decs) = "REVOKED" <=>
                 \E d \in RulingsOn(k, decs) : decs[d].kind = "REVOKED"
           /\ StatusOf(k, decs) \in {"APPROVED", "REJECTED", "WITHDRAWN"} =>
                 /\ RulingsOn(k, decs) # {}
                 /\ \A d \in RulingsOn(k, decs) : decs[d].kind = StatusOf(k, decs)
           /\ StatusOf(k, decs) \in {"PROPOSED", "APPROVED", "REJECTED", "WITHDRAWN", "REVOKED"}
           /\ \A d \in RulingsOn(k, decs) : decs[d].kind \in {"APPROVED", "REJECTED", "WITHDRAWN", "REVOKED"}
<1> DEFINE mine == RulingsOn(k, decs)
           kinds == {decs[d].kind : d \in mine}
<1>1. /\ mine \subseteq DOMAIN decs /\ IsFiniteSet(mine)
      /\ \A d \in mine : decs[d].record = k
  BY FS_Subset DEF RulingsOn
<1>2. \A d \in mine : decs[d].kind \in {"APPROVED", "REJECTED", "WITHDRAWN", "REVOKED"}
  BY <1>1 DEF Histories, RulingRole
<1>3. \A d, e \in mine : (decs[d].kind = "REVOKED" <=> decs[e].kind = "REVOKED") => d = e
  BY <1>1 DEF Histories
<1>4. CASE mine = {}
  <2>1. StatusOf(k, decs) = "PROPOSED"
    BY <1>4, FS_EmptySet DEF StatusOf
  <2> QED BY <1>4, <2>1
<1>5. CASE \E d \in mine : decs[d].kind = "REVOKED"
  <2>1. PICK r \in mine : decs[r].kind = "REVOKED"
    BY <1>5
  <2>2. PICK a \in mine : decs[a].kind = "APPROVED"
    BY <1>1, <2>1 DEF Histories
  <2>3. mine = {a, r}
    BY <1>2, <1>3, <2>1, <2>2
  <2>4. a # r
    BY <2>1, <2>2
  <2>5. Cardinality(mine) = 2
    <3>1. IsFiniteSet({a}) /\ Cardinality({a}) = 1
      BY FS_Singleton
    <3>2. mine = {a} \cup {r} /\ r \notin {a}
      BY <2>3, <2>4
    <3> QED BY <3>1, <3>2, FS_AddElement
  <2>6. kinds = {"APPROVED", "REVOKED"}
    BY <2>1, <2>2, <2>3
  <2>7. StatusOf(k, decs) = "REVOKED"
    <3>1. mine # {}
      BY <2>1
    <3> HIDE DEF mine
    <3> QED BY <2>5, <2>6, <3>1 DEF StatusOf, mine
  <2> QED BY <1>2, <2>1, <2>7
<1>6. CASE mine # {} /\ ~ \E d \in mine : decs[d].kind = "REVOKED"
  <2>1. PICK a \in mine : TRUE
    BY <1>6
  <2>2. mine = {a} /\ decs[a].kind # "REVOKED"
    BY <1>3, <1>6, <2>1
  <2>3. Cardinality(mine) = 1 /\ kinds = {decs[a].kind}
    BY <2>2, FS_Singleton
  <2>4. (CHOOSE kind \in kinds : TRUE) = decs[a].kind
    BY <2>3
  <2>5. StatusOf(k, decs) = decs[a].kind
    <3> HIDE DEF mine
    <3> QED BY <1>6, <2>2, <2>3, <2>4 DEF StatusOf, mine
  <2> QED BY <1>2, <2>1, <2>2, <2>5
<1> QED BY <1>4, <1>5, <1>6

LEMMA LiveIs ==
    ASSUME NEW decs, IsFiniteSet(DOMAIN decs), Histories(decs), NEW k
    PROVE  Live(k, decs) <=> \A d \in RulingsOn(k, decs) : Approves(d, decs)
<1>1. Live(k, decs) <=> StatusOf(k, decs) \in {"PROPOSED", "APPROVED"}
  BY StatusIs DEF Live, OpenStatuses
<1>2. CASE StatusOf(k, decs) = "PROPOSED"
  BY <1>1, <1>2, StatusIs DEF Approves
<1>3. CASE StatusOf(k, decs) \in {"APPROVED", "REJECTED", "WITHDRAWN"}
  BY <1>1, <1>3, StatusIs DEF Approves
<1>4. CASE StatusOf(k, decs) = "REVOKED"
  BY <1>1, <1>4, StatusIs DEF Approves
<1> QED BY <1>2, <1>3, <1>4, StatusIs

\* A new decision on a record: what the indexes of the decisions leave possible.
LEMMA RulingKeepsHistories ==
    ASSUME NEW decs, IsFiniteSet(DOMAIN decs), Histories(decs), NEW key, key \notin DOMAIN decs,
           NEW d, d.kind \in DOMAIN RulingRole,
           IF d.kind = "REVOKED"
           THEN /\ d.revokes \in RulingsOn(d.record, decs) /\ Approves(d.revokes, decs)
                /\ \A l \in DOMAIN decs : decs[l].revokes # d.revokes
           ELSE /\ d.revokes = NoRecord
                /\ \A l \in RulingsOn(d.record, decs) : decs[l].kind = "REVOKED"
    PROVE  /\ Histories(With(decs, key, d)) /\ IsFiniteSet(DOMAIN With(decs, key, d))
           /\ \A k : RulingsOn(k, With(decs, key, d)) =
                        IF k = d.record THEN RulingsOn(k, decs) \cup {key} ELSE RulingsOn(k, decs)
<1> DEFINE new == With(decs, key, d)
<1>1. /\ DOMAIN new = DOMAIN decs \cup {key} /\ new[key] = d
      /\ \A l \in DOMAIN decs : new[l] = decs[l]
  BY DEF With
<1>2. IsFiniteSet(DOMAIN new)
  BY <1>1, FS_AddElement
<1> HIDE DEF new
<1>3. \A k : RulingsOn(k, new) = IF k = d.record THEN RulingsOn(k, decs) \cup {key} ELSE RulingsOn(k, decs)
  BY <1>1 DEF RulingsOn
<1>4. ASSUME NEW l \in DOMAIN new
      PROVE  /\ new[l].kind \in DOMAIN RulingRole
             /\ IF new[l].kind # "REVOKED" THEN new[l].revokes = NoRecord
                ELSE /\ new[l].revokes \in RulingsOn(new[l].record, new)
                     /\ new[new[l].revokes].kind = "APPROVED"
  <2>1. CASE l = key
    BY <1>1, <1>3, <2>1 DEF Approves, RulingsOn
  <2>2. CASE l \in DOMAIN decs
    BY <1>1, <1>3, <2>2 DEF Histories, RulingsOn
  <2> QED BY <1>1, <2>1, <2>2
<1>5. ASSUME NEW l \in DOMAIN decs, decs[l].record = d.record,
             decs[l].kind = "REVOKED" <=> d.kind = "REVOKED"
      PROVE  FALSE
  <2>1. CASE d.kind # "REVOKED"
    BY <1>5, <2>1 DEF RulingsOn
  <2>2. CASE d.kind = "REVOKED"
    <3>1. /\ decs[l].revokes \in RulingsOn(d.record, decs)
          /\ decs[decs[l].revokes].kind = "APPROVED"
      BY <1>5, <2>2 DEF Histories
    <3>2. decs[l].revokes = d.revokes
      BY <2>2, <3>1 DEF Histories, RulingsOn, Approves
    <3> QED BY <2>2, <3>2
  <2> QED BY <2>1, <2>2
<1>6. ASSUME NEW l \in DOMAIN new, NEW m \in DOMAIN new, new[l].record = new[m].record,
             new[l].kind = "REVOKED" <=> new[m].kind = "REVOKED"
      PROVE  l = m
  <2>1. CASE l \in DOMAIN decs /\ m \in DOMAIN decs
    BY <1>1, <1>6, <2>1 DEF Histories
  <2>2. CASE l = key /\ m \in DOMAIN decs
    BY <1>1, <1>5, <1>6, <2>2
  <2>3. CASE m = key /\ l \in DOMAIN decs
    BY <1>1, <1>5, <1>6, <2>3
  <2> QED BY <1>1, <2>1, <2>2, <2>3
<1>7. Histories(new)
  BY <1>4, <1>6 DEF Histories
<1> QED BY <1>2, <1>3, <1>7 DEF new

\* A resolution that is no longer live stays so.
LEMMA StaysClosed ==
    ASSUME NEW decs, IsFiniteSet(DOMAIN decs), Histories(decs), NEW key, key \notin DOMAIN decs,
           NEW d, IsFiniteSet(DOMAIN With(decs, key, d)), Histories(With(decs, key, d)),
           NEW k, Live(k, With(decs, key, d))
    PROVE  Live(k, decs)
<1>1. \A l \in RulingsOn(k, decs) : l \in RulingsOn(k, With(decs, key, d)) /\ With(decs, key, d)[l] = decs[l]
  BY DEF RulingsOn, With
<1> QED BY <1>1, LiveIs DEF Approves

-----------------------------------------------------------------------------
(* The gate, from the registers' consistency alone.                        *)
LEMMA ConsistentGate ==
    ASSUME Consistent(policies, resolutions, rulings, liabilities), IsFiniteSet(DOMAIN rulings)
    PROVE  GateMeansLiability
<1> SUFFICES ASSUME NEW o \in DeletedOrders, ~Unresolved(o), o \notin back
             PROVE  Cardinality({l \in DOMAIN liabilities :
                       Outstanding(l) /\ resolutions[liabilities[l].resolution].order = o}) = 1
  BY DEF GateMeansLiability
<1>h. Histories(rulings)
  BY DEF Consistent
<1>1. Released(o)
  BY DEF Unresolved
<1>2. PICK k \in DOMAIN resolutions :
         /\ resolutions[k].order = o /\ StatusOf(k, rulings) = "APPROVED"
         /\ Valid(k, resolutions, rulings, liabilities) /\ Recorded(k)
  BY <1>1 DEF Released
<1>3. PICK m \in DOMAIN liabilities : liabilities[m].resolution = k
  BY <1>2 DEF Recorded
<1>4. Outstanding(m)
  <2>1. \E d \in RulingsOn(k, rulings) : rulings[d].kind = "APPROVED"
    BY <1>h, <1>2, StatusIs
  <2> QED BY <1>2, <1>3, <2>1 DEF Outstanding, AssertsApproval
<1>5. ASSUME NEW l \in DOMAIN liabilities, Outstanding(l),
             resolutions[liabilities[l].resolution].order = o
      PROVE  l = m
  <2> DEFINE j == liabilities[l].resolution
  <2>1. j \in DOMAIN resolutions
    BY DEF Consistent, References
  <2>2. Live(j, rulings)
    <3>1. PICK d \in RulingsOn(j, rulings) : rulings[d].kind = "APPROVED"
      BY <1>5 DEF Outstanding, AssertsApproval
    <3>2. StatusOf(j, rulings) # "REVOKED"
      BY <1>5 DEF Outstanding, AssertsApproval
    <3>3. \A e \in RulingsOn(j, rulings) : rulings[e].kind # "REVOKED"
      BY <1>h, <3>2, StatusIs
    <3>4. \A e \in RulingsOn(j, rulings) : e = d
      BY <1>h, <3>1, <3>3 DEF Histories, RulingsOn
    <3> QED BY <1>h, <3>1, <3>4, LiveIs DEF Approves
  <2>3. j = k
    BY <1>2, <1>5, <2>1, <2>2 DEF Valid
  <2> QED BY <1>3, <2>3 DEF Consistent, OneLiability
<1> DEFINE S == {l \in DOMAIN liabilities :
                    Outstanding(l) /\ resolutions[liabilities[l].resolution].order = o}
<1>6. S = {m}
  BY <1>2, <1>3, <1>4, <1>5
<1> QED BY <1>6, FS_Singleton

-----------------------------------------------------------------------------
(* The invariant: the registers are consistent, and a request that holds   *)
(* its locks has a plan that still fits them.                              *)
Formed(ask) ==
    /\ ask.by \in Staff /\ ask.raw \in ClientKeys
    /\ ask.op \in {"POLICY", "RESOLUTION", "RECORD", "REVIEW"} \cup DOMAIN RulingRole
    /\ ask.op = "POLICY" => ask.code \in Codes
    /\ ask.op = "RESOLUTION" => /\ ask.order \in DeletedOrders /\ ask.policy \in DOMAIN policies
                                /\ ask.recon \in DOMAIN Recons
    /\ ask.op = "RECORD" => ask.record \in DOMAIN resolutions
    /\ ask.op = "REVIEW" => ask.record \in DOMAIN liabilities
    /\ Deciding(ask) => ask.record \in DOMAIN policies \cup DOMAIN resolutions

Planned(ask, plan) ==
    /\ ask.op = "POLICY" => plan.version \in Nat
    /\ ask.op = "RESOLUTION" /\ plan.supersedes # NoRecord =>
          /\ plan.supersedes \in DOMAIN resolutions
          /\ resolutions[plan.supersedes].order = ask.order
    /\ ask.op = "REVOKED" =>
          plan.revokes \in RulingsOn(ask.record, rulings) /\ Approves(plan.revokes, rulings)
    /\ Deciding(ask) /\ ask.op # "REVOKED" => plan.revokes = NoRecord

HoldsLocks(p) == work[p].pc = "locked"

InHand(p) ==
    \/ work[p].pc = "idle" /\ work[p].answer \in {"NONE", "DONE", "REUSED", "CONFLICT"}
    \/ work[p].pc = "asked" /\ Formed(work[p].ask)
    \/ /\ HoldsLocks(p) /\ Formed(work[p].ask)
       /\ ~Stored(work[p].ask) /\ Planned(work[p].ask, work[p].plan)

Surroundings ==
    /\ staff \in [Staff -> {"ADMIN", "FINANCE"}]
    /\ recon \in [DOMAIN Recons -> {"ABSENT", "APPROVED", "BROKEN", "REVOKED"}]
    /\ back \subseteq DeletedOrders
    /\ \A k \in DOMAIN reviews : reviews[k].liability \in DOMAIN liabilities

Requested ==
    /\ DOMAIN work = Handlers
    /\ \A p \in Handlers : InHand(p)
    /\ \A p, q \in Handlers :
          p # q /\ HoldsLocks(p) /\ HoldsLocks(q) => KeyOf(work[p].ask) # KeyOf(work[q].ask)

OwnerInv ==
    /\ Consistent(policies, resolutions, rulings, liabilities)
    /\ Keyed(policies, resolutions) /\ IsFiniteSet(DOMAIN rulings)
    /\ Surroundings /\ Requested

LEMMA OwnerInitInv == OwnerInit => OwnerInv
<1> SUFFICES ASSUME OwnerInit PROVE OwnerInv
  OBVIOUS
<1>1. PICK g \in Givens :
          /\ staff = g.roles /\ recon = g.recon
          /\ policies = g.policies /\ resolutions = g.resolutions
          /\ rulings = g.decisions /\ liabilities = g.liabilities
  BY DEF OwnerInit
<1>2. Requested
  BY DEF OwnerInit, Requested, InHand, Resting, HoldsLocks
<1>3. Surroundings
  <2>1. back = {} /\ DOMAIN reviews = {}
    BY DEF OwnerInit
  <2> QED BY <1>1, <2>1, GivensAssumption DEF Surroundings
<1> QED BY <1>1, <1>2, <1>3, GivensAssumption DEF OwnerInv

-----------------------------------------------------------------------------
(* Keys.                                                                   *)
LEMMA ScopeIs ==
    ASSUME NEW pols, NEW ask,
           ask.op \in {"POLICY", "RESOLUTION", "RECORD", "REVIEW"} \cup DOMAIN RulingRole
    PROVE  (CASE ask.op = "POLICY" -> "policy-proposal"
              [] ask.op = "RESOLUTION" -> "resolution-proposal"
              [] ask.op = "RECORD" -> "liability-record"
              [] ask.op = "REVIEW" -> "liability-review"
              [] Deciding(ask) /\ ask.record \in DOMAIN pols -> "policy-decision"
              [] OTHER -> "resolution-decision")
           = IF ask.op = "POLICY" THEN "policy-proposal"
             ELSE IF ask.op = "RESOLUTION" THEN "resolution-proposal"
             ELSE IF ask.op = "RECORD" THEN "liability-record"
             ELSE IF ask.op = "REVIEW" THEN "liability-review"
             ELSE IF ask.record \in DOMAIN pols THEN "policy-decision"
             ELSE "resolution-decision"
<1>1. DOMAIN RulingRole = {"APPROVED", "REJECTED", "WITHDRAWN", "REVOKED"}
  BY DEF RulingRole
<1>2. CASE ask.op = "POLICY"
  BY <1>1, <1>2 DEF Deciding
<1>3. CASE ask.op = "RESOLUTION"
  BY <1>1, <1>3 DEF Deciding
<1>4. CASE ask.op = "RECORD"
  BY <1>1, <1>4 DEF Deciding
<1>5. CASE ask.op = "REVIEW"
  BY <1>1, <1>5 DEF Deciding
<1>6. CASE ask.op \in DOMAIN RulingRole
  BY <1>1, <1>6 DEF Deciding
<1> QED BY <1>2, <1>3, <1>4, <1>5, <1>6

\* A key does not change while its request is in flight.
LEMMA KeyStays ==
    ASSUME NEW ask, Formed(ask), Keyed(policies, resolutions), Keyed(policies', resolutions'),
           DOMAIN policies \subseteq DOMAIN policies', DOMAIN resolutions \subseteq DOMAIN resolutions'
    PROVE  KeyOf(ask)' = KeyOf(ask)
<1>1. ask.record \in DOMAIN policies' <=> ask.record \in DOMAIN policies \/
         (ask.record \in DOMAIN policies' \ DOMAIN policies)
  OBVIOUS
<1>2. ask.op \in {"POLICY", "RESOLUTION", "RECORD", "REVIEW"} \cup DOMAIN RulingRole
  BY DEF Formed
<1>3. Deciding(ask) => (ask.record \in DOMAIN policies <=> ask.record \in DOMAIN policies')
  BY DEF Formed, Keyed
<1>4. Deciding(ask) <=> ask.op \in DOMAIN RulingRole
  BY DEF Deciding
<1>5. Scope(ask)' = Scope(ask)
  BY <1>2, <1>3, <1>4, ScopeIs DEF Scope
<1> QED BY <1>5 DEF KeyOf

LEMMA KeyIs ==
    ASSUME NEW ask, Formed(ask)
    PROVE  /\ KeyOf(ask) # NoRecord
           /\ ask.op = "POLICY" => KeyOf(ask)[1] = "policy-proposal"
           /\ ask.op = "RESOLUTION" => KeyOf(ask)[1] = "resolution-proposal"
<1>1. ask.op \in {"POLICY", "RESOLUTION", "RECORD", "REVIEW"} \cup DOMAIN RulingRole
  BY DEF Formed
<1>2. Scope(ask) \in Scopes
  BY <1>1, ScopeIs DEF Scope, Scopes
<1>3. KeyOf(ask) # NoRecord
  BY <1>2, NoRecordAssumption DEF KeyOf, Formed
<1>4. KeyOf(ask)[1] = Scope(ask)
  BY DEF KeyOf
<1>5. ask.op = "POLICY" => Scope(ask) = "policy-proposal"
  BY <1>1, ScopeIs DEF Scope
<1>6. ask.op = "RESOLUTION" => Scope(ask) = "resolution-proposal"
  BY <1>1, ScopeIs DEF Scope
<1> QED BY <1>3, <1>4, <1>5, <1>6

-----------------------------------------------------------------------------
(* What a step leaves of the other requests.                               *)
Entries ==
    DOMAIN policies \cup DOMAIN resolutions \cup DOMAIN rulings
       \cup DOMAIN liabilities \cup DOMAIN reviews

\* Nothing is lost, and only a request that holds its locks adds its own entry.
Adds(p) ==
    /\ Kept(policies, policies') /\ Kept(resolutions, resolutions')
    /\ Kept(rulings, rulings') /\ Kept(liabilities, liabilities')
    /\ Keyed(policies', resolutions')
    /\ Entries' \subseteq Entries \cup {KeyOf(work[p].ask)}
    /\ Entries' = Entries \/ HoldsLocks(p)

LEMMA OthersStand ==
    ASSUME OwnerInv, NEW p \in Handlers, Adds(p), NEW w, work' = [work EXCEPT ![p] = w],
           NEW q \in Handlers, q # p
    PROVE  /\ work'[q] = work[q] /\ InHand(q)'
           /\ work[q].pc # "idle" => KeyOf(work[q].ask)' = KeyOf(work[q].ask)
<1>1. work'[q] = work[q]
  BY DEF OwnerInv, Requested
<1>2. InHand(q)
  BY DEF OwnerInv, Requested
<1>3. CASE work[q].pc = "idle"
  BY <1>1, <1>2, <1>3 DEF InHand, HoldsLocks
<1>4. CASE work[q].pc # "idle"
  <2> DEFINE ask == work[q].ask
  <2>1. Formed(ask)
    BY <1>2, <1>4 DEF InHand
  <2>2. /\ DOMAIN policies \subseteq DOMAIN policies' /\ DOMAIN resolutions \subseteq DOMAIN resolutions'
        /\ DOMAIN liabilities \subseteq DOMAIN liabilities'
    BY DEF Adds, Kept
  <2>3. Formed(ask)'
    BY <1>1, <2>1, <2>2 DEF Formed, Deciding
  <2>4. /\ Keyed(policies, resolutions) /\ Keyed(policies', resolutions')
    BY DEF OwnerInv, Adds
  <2>5. KeyOf(ask)' = KeyOf(work[q].ask)
    <3> DEFINE a == work[q].ask
    <3>1. Formed(a)
      BY <2>1
    <3> HIDE DEF a
    <3>2. \A b : b = a => KeyOf(b)' = KeyOf(b)
      BY <2>2, <2>4, <3>1, KeyStays
    <3>3. work'[q].ask = a
      BY <1>1 DEF a
    <3> QED BY <3>2, <3>3 DEF a, KeyOf, Scope, Deciding
  <2>6. CASE HoldsLocks(q)
    <3>1. ~Stored(ask) /\ Planned(ask, work[q].plan)
      BY <1>2, <1>4, <2>6 DEF InHand, HoldsLocks
    <3>2. KeyOf(ask) \notin Entries'
      <4>1. KeyOf(ask) \notin Entries
        BY <3>1 DEF Stored, Entries
      <4>2. CASE Entries' = Entries
        BY <4>1, <4>2
      <4>3. CASE HoldsLocks(p)
        <5>1. KeyOf(ask) # KeyOf(work[p].ask)
          BY <2>6, <4>3 DEF OwnerInv, Requested
        <5> QED BY <4>1, <5>1 DEF Adds
      <4> QED BY <4>2, <4>3 DEF Adds
    <3>3. ~Stored(ask)'
      BY <2>5, <3>2 DEF Stored, Entries
    <3>4. Planned(ask, work[q].plan)'
      <4>1. /\ \A k \in DOMAIN resolutions : k \in DOMAIN resolutions' /\ resolutions'[k] = resolutions[k]
            /\ \A k \in DOMAIN rulings : k \in DOMAIN rulings' /\ rulings'[k] = rulings[k]
        BY DEF Adds, Kept
      <4> QED BY <1>1, <3>1, <4>1 DEF Planned, RulingsOn, Approves, Deciding
    <3> QED BY <1>1, <2>3, <2>5, <2>6, <3>3, <3>4 DEF InHand, HoldsLocks
  <2>7. CASE ~HoldsLocks(q)
    BY <1>1, <1>2, <1>4, <2>3, <2>5, <2>7 DEF InHand, HoldsLocks
  <2> QED BY <2>6, <2>7
<1> QED BY <1>1, <1>3, <1>4

\* So a step keeps the requests in order if it keeps its own.
LEMMA RequestStep ==
    ASSUME OwnerInv, NEW p \in Handlers, Adds(p), NEW w, work' = [work EXCEPT ![p] = w], InHand(p)',
           HoldsLocks(p)' => \A q \in Handlers : q # p /\ HoldsLocks(q) => KeyOf(work[p].ask)' # KeyOf(work[q].ask)
    PROVE  Requested'
<1>1. DOMAIN work' = Handlers
  BY DEF OwnerInv, Requested
<1>2. \A q \in Handlers : InHand(q)'
  BY OthersStand
<1>3. ASSUME NEW q \in Handlers, NEW r \in Handlers, q # r, HoldsLocks(q)', HoldsLocks(r)'
      PROVE  KeyOf(work[q].ask)' # KeyOf(work[r].ask)'
  <2>1. \A s \in Handlers : s # p => /\ work'[s] = work[s]
                                     /\ HoldsLocks(s)' => HoldsLocks(s) /\ KeyOf(work[s].ask)' = KeyOf(work[s].ask)
    BY OthersStand DEF HoldsLocks
  <2>2. CASE q # p /\ r # p
    BY <1>3, <2>1, <2>2 DEF OwnerInv, Requested
  <2>3. CASE q = p
    BY <1>3, <2>1, <2>3
  <2>4. CASE r = p
    BY <1>3, <2>1, <2>4
  <2> QED BY <2>2, <2>3, <2>4
<1> QED BY <1>1, <1>2, <1>3 DEF Requested

\* Steps of a request that write nothing.
LEMMA Unwritten ==
    ASSUME OwnerInv, UNCHANGED registers, NEW p \in Handlers
    PROVE  /\ Adds(p)
           /\ Consistent(policies, resolutions, rulings, liabilities)'
           /\ Keyed(policies, resolutions)' /\ IsFiniteSet(DOMAIN rulings)'
<1>1. /\ policies' = policies /\ resolutions' = resolutions /\ rulings' = rulings
      /\ liabilities' = liabilities /\ reviews' = reviews
  BY DEF registers
<1> QED BY <1>1 DEF Adds, OwnerInv, Kept, Entries

-----------------------------------------------------------------------------
(* Requests arrive, are answered, and take their locks.                    *)
LEMMA RequestsFormed ==
    ASSUME OwnerInv, NEW u \in Staff, NEW ask \in Requests(u)
    PROVE  Formed(ask)
<1> DEFINE Of(reader) == {k \in DOMAIN RulingRole : RulingRole[k] = reader}
<1>1. DOMAIN RulingRole = {"APPROVED", "REJECTED", "WITHDRAWN", "REVOKED"}
  BY DEF RulingRole
<1>2. \A reader : Of(reader) \subseteq DOMAIN RulingRole
  OBVIOUS
<1> HIDE DEF Of
<1>3. CASE ask \in [op : {"POLICY"}, by : {u}, raw : ClientKeys, code : Codes]
  BY <1>1, <1>3 DEF Formed, Deciding
<1>4. CASE ask \in [op : {"RESOLUTION"}, by : {u}, raw : ClientKeys, order : DeletedOrders,
                    policy : DOMAIN policies, recon : DOMAIN Recons]
  BY <1>1, <1>4 DEF Formed, Deciding
<1>5. CASE ask \in [op : {"RECORD"}, by : {u}, raw : ClientKeys, record : DOMAIN resolutions,
                    digest : DOMAIN resolutions]
  BY <1>1, <1>5 DEF Formed, Deciding
<1>6. CASE ask \in [op : {"REVIEW"}, by : {u}, raw : ClientKeys, record : DOMAIN liabilities]
  BY <1>1, <1>6 DEF Formed, Deciding
<1>7. CASE ask \in [op : Of(staff[u]), by : {u}, raw : ClientKeys, record : DOMAIN resolutions,
                    digest : DOMAIN resolutions]
  <2>1. ask.op \in DOMAIN RulingRole
    BY <1>2, <1>7
  <2> QED BY <1>1, <1>7, <2>1 DEF Formed, Deciding
<1>8. CASE ask \in [op : Of(staff[u]), by : {u}, raw : ClientKeys, record : DOMAIN policies,
                    digest : DOMAIN policies]
  <2>1. ask.op \in DOMAIN RulingRole
    BY <1>2, <1>8
  <2> QED BY <1>1, <1>8, <2>1 DEF Formed, Deciding
<1> QED BY <1>3, <1>4, <1>5, <1>6, <1>7, <1>8 DEF Requests, Of

LEMMA MakeRequestInv ==
    ASSUME OwnerInv, NEW p \in Handlers, MakeRequest(p)
    PROVE  OwnerInv' /\ Adds(p)
<1>1. UNCHANGED registers /\ UNCHANGED <<staff, recon, back>>
  BY DEF MakeRequest
<1>u. PICK u \in Staff :
         \E ask \in Requests(u) : work' = [work EXCEPT ![p] = [pc |-> "asked", ask |-> ask]]
  BY DEF MakeRequest
<1>2. PICK ask \in Requests(u) : work' = [work EXCEPT ![p] = [pc |-> "asked", ask |-> ask]]
  BY <1>u
<1>3. work'[p] = [pc |-> "asked", ask |-> ask]
  BY <1>2 DEF OwnerInv, Requested
<1>4. Formed(ask)
  BY RequestsFormed
<1>5. Formed(ask)'
  BY <1>1, <1>4 DEF Formed, registers, Deciding
<1>6. InHand(p)' /\ ~HoldsLocks(p)'
  <2>1. work'[p].pc = "asked" /\ work'[p].ask = ask
    BY <1>3
  <2> QED BY <1>5, <2>1 DEF InHand, HoldsLocks
<1>7. Requested'
  BY <1>1, <1>2, <1>6, Unwritten, RequestStep
<1>8. Surroundings'
  BY <1>1 DEF OwnerInv, Surroundings, registers
<1> QED BY <1>1, <1>7, <1>8, Unwritten DEF OwnerInv

LEMMA ReplyInv ==
    ASSUME OwnerInv, NEW p \in Handlers, NEW answer \in {"NONE", "DONE", "REUSED", "CONFLICT"},
           Reply(p, answer)
    PROVE  OwnerInv' /\ Adds(p)
<1>1. UNCHANGED registers /\ UNCHANGED <<staff, recon, back>>
  BY DEF Reply
<1>2. work' = [work EXCEPT ![p] = Resting(answer)]
  BY DEF Reply
<1>3. work'[p] = Resting(answer)
  BY <1>2 DEF OwnerInv, Requested
<1>4. InHand(p)' /\ ~HoldsLocks(p)'
  BY <1>3 DEF InHand, HoldsLocks, Resting
<1>5. Requested'
  BY <1>1, <1>2, <1>4, Unwritten, RequestStep
<1>6. Surroundings'
  BY <1>1 DEF OwnerInv, Surroundings, registers
<1> QED BY <1>1, <1>5, <1>6, Unwritten DEF OwnerInv

LEMMA ReplayInv ==
    ASSUME OwnerInv, NEW p \in Handlers, ReplayRequest(p)
    PROVE  OwnerInv' /\ Adds(p)
<1>1. PICK answer \in {"DONE", "REUSED"} : Reply(p, answer)
  BY DEF ReplayRequest
<1> QED BY <1>1, ReplyInv

LEMMA ProceedInv ==
    ASSUME OwnerInv, NEW p \in Handlers, work[p].pc = "asked", NoConflict(work[p].ask),
           ~Stored(work[p].ask), NEW plan, Planned(work[p].ask, plan), Proceed(p, plan)
    PROVE  OwnerInv' /\ Adds(p)
<1> DEFINE ask == work[p].ask
<1>1. UNCHANGED registers /\ UNCHANGED <<staff, recon, back>>
  BY DEF Proceed
<1>2. work' = [work EXCEPT ![p] = [pc |-> "locked", ask |-> ask, plan |-> plan]]
  BY DEF Proceed
<1>3. work'[p].pc = "locked" /\ work'[p].ask = ask /\ work'[p].plan = plan
  BY <1>2 DEF OwnerInv, Requested
<1>4. Formed(ask)
  BY DEF OwnerInv, Requested, InHand, HoldsLocks
<1>5. /\ policies' = policies /\ resolutions' = resolutions /\ rulings' = rulings
      /\ liabilities' = liabilities /\ reviews' = reviews
  BY <1>1 DEF registers
<1>6. KeyOf(work[p].ask)' = KeyOf(ask)
  BY <1>3, <1>5 DEF KeyOf, Scope, Deciding
<1>7. InHand(p)'
  <2>1. Formed(work[p].ask)'
    BY <1>3, <1>4, <1>5 DEF Formed, Deciding
  <2>2. ~Stored(work[p].ask)'
    BY <1>3, <1>5, <1>6 DEF Stored
  <2>3. Planned(work[p].ask, work[p].plan)'
    BY <1>3, <1>5 DEF Planned, RulingsOn, Approves, Deciding
  <2> QED BY <1>3, <2>1, <2>2, <2>3 DEF InHand, HoldsLocks
<1>8. ASSUME NEW q \in Handlers, q # p, HoldsLocks(q)
      PROVE  KeyOf(work[p].ask)' # KeyOf(work[q].ask)
  <2>1. /\ Alone("key", KeyOf(ask)) \in Locks(ask)
        /\ Alone("key", KeyOf(work[q].ask)) \in Locks(work[q].ask)
    BY DEF Locks
  <2>2. ASSUME KeyOf(ask) = KeyOf(work[q].ask)
        PROVE  FALSE
    <3>1. /\ Alone("key", KeyOf(ask)).what = Alone("key", KeyOf(work[q].ask)).what
          /\ Alone("key", KeyOf(ask)).which = Alone("key", KeyOf(work[q].ask)).which
          /\ Alone("key", KeyOf(ask)).mode = "EXCLUSIVE"
      BY <2>2 DEF Alone
    <3> QED BY <1>8, <2>1, <3>1 DEF NoConflict, HoldsLocks
  <2> QED BY <1>6, <2>2
<1>9. Requested'
  BY <1>1, <1>2, <1>7, <1>8, Unwritten, RequestStep
<1>10. Surroundings'
  BY <1>1 DEF OwnerInv, Surroundings, registers
<1> QED BY <1>1, <1>9, <1>10, Unwritten DEF OwnerInv

-----------------------------------------------------------------------------
(* What a check of a request plans.                                        *)
LEMMA VersionsBounded ==
    ASSUME OwnerInv, NEW code
    PROVE  Latest(code) \in Nat
<1>1. Versions(code) \subseteq Nat /\ IsFiniteSet(Versions(code))
  <2> DEFINE T == {k \in DOMAIN policies : policies[k].code = code}
             f == [k \in T |-> policies[k].version]
  <2>1. IsFiniteSet(T)
    BY FS_Subset DEF OwnerInv, Keyed
  <2>2. Versions(code) = {f[k] : k \in T}
    BY DEF Versions
  <2>3. IsFiniteSet({f[k] : k \in DOMAIN f})
    <3> DEFINE U == {f[k] : k \in DOMAIN f}
    <3>1. f \in Surjection(T, U)
      BY DEF Surjection
    <3> HIDE DEF f, T, U
    <3>2. IsFiniteSet(U)
      BY <2>1, <3>1, FS_Surjection
    <3> QED BY <3>2 DEF U
  <2>4. \A k \in T : policies[k].version \in Nat
    BY DEF OwnerInv, Consistent, References
  <2> QED BY <2>2, <2>3, <2>4
<1> DEFINE V == Versions(code)
           R == {pair \in Nat \X Nat : pair[1] <= pair[2]}
<1>2. CASE V # {}
  <2>1. PICK m \in V : \A v \in V : <<v, m>> \in R
    <3>1. \A v, w \in V : <<v, w>> \in R \/ <<w, v>> \in R
      BY <1>1
    <3>2. \A u, v, w \in V : <<u, v>> \in R /\ <<v, w>> \in R => <<u, w>> \in R
      BY <1>1
    <3> HIDE DEF R, V
    <3> QED BY <1>1, <1>2, <3>1, <3>2, Greatest DEF V
  <2>2. \E v \in V : \A w \in V : w <= v
    BY <2>1
  <2> QED BY <1>1, <1>2, <2>2 DEF Latest
<1>3. CASE V = {}
  BY <1>3 DEF Latest
<1> QED BY <1>2, <1>3

\* A chain of resolutions has a last one.
LEMMA ChainHasLast ==
    ASSUME OwnerInv, NEW o, ResolutionsOf(o) # {}
    PROVE  LastOf(o) \in ResolutionsOf(o)
<1> DEFINE S == ResolutionsOf(o)
           heads == S \ {resolutions[k].supersedes : k \in S}
<1>1. /\ S \subseteq DOMAIN resolutions /\ IsFiniteSet(S) /\ NoRecord \notin S
      /\ \A k \in S : resolutions[k].order = o
  BY FS_Subset DEF OwnerInv, Keyed, ResolutionsOf
<1>s. Superseding(resolutions)
  BY DEF OwnerInv, Consistent
<1>2. PICK root \in S : resolutions[root].supersedes = NoRecord
  <2>1. PICK k \in S : TRUE
    OBVIOUS
  <2>2. PICK l \in DOMAIN resolutions :
           resolutions[l].order = resolutions[k].order /\ resolutions[l].supersedes = NoRecord
    BY <1>1, <1>s, <2>1 DEF Superseding
  <2> QED BY <1>1, <2>1, <2>2 DEF ResolutionsOf
<1>3. heads # {}
  <2> DEFINE T == S \ {root}
             f == [k \in T |-> resolutions[k].supersedes]
  <2>1. SUFFICES ASSUME heads = {} PROVE FALSE
    OBVIOUS
  <2>2. \A k \in T : resolutions[k].supersedes \in S
    <3>1. \A k \in T : resolutions[k].supersedes # NoRecord
      BY <1>1, <1>2, <1>s DEF Superseding
    <3> QED BY <1>1, <1>s, <3>1 DEF Superseding, ResolutionsOf
  <2>3. \A l \in S : \E k \in T : resolutions[k].supersedes = l
    <3> TAKE l \in S
    <3>1. PICK k \in S : resolutions[k].supersedes = l
      BY <2>1
    <3> QED BY <1>1, <1>2, <3>1
  <2>4. f \in Surjection(T, S)
    BY <2>2, <2>3 DEF Surjection
  <2>5. IsFiniteSet(T) /\ Cardinality(T) = Cardinality(S) - 1
    BY <1>1, FS_RemoveElement
  <2>6. Cardinality(S) \in Nat
    BY <1>1, FS_CardinalityType
  <2>7. Cardinality(S) <= Cardinality(T)
    <3> HIDE DEF f, T, S
    <3> QED BY <2>4, <2>5, FS_Surjection
  <2> HIDE DEF T, S
  <2> QED BY <2>5, <2>6, <2>7
<1>4. LastOf(o) = CHOOSE k \in heads : TRUE
  BY <1>3 DEF LastOf
<1> QED BY <1>3, <1>4

LEMMA CheckPolicyInv ==
    ASSUME OwnerInv, NEW p \in Handlers, work[p].pc = "asked", NoConflict(work[p].ask),
           ~Stored(work[p].ask), work[p].ask.op = "POLICY", CheckPolicy(p)
    PROVE  OwnerInv' /\ Adds(p)
<1> DEFINE plan == [version |-> Latest(work[p].ask.code) + 1]
<1>1. plan.version \in Nat
  BY VersionsBounded
<1>2. ~Deciding(work[p].ask) /\ work[p].ask.op \notin {"RESOLUTION", "REVOKED"}
  BY DEF Deciding, RulingRole
<1>3. Planned(work[p].ask, plan)
  <2> HIDE DEF plan
  <2> QED BY <1>1, <1>2 DEF Planned
<1> QED BY <1>3, ProceedInv DEF CheckPolicy

LEMMA CheckResolutionInv ==
    ASSUME OwnerInv, NEW p \in Handlers, work[p].pc = "asked", NoConflict(work[p].ask),
           ~Stored(work[p].ask), work[p].ask.op = "RESOLUTION", CheckResolution(p)
    PROVE  OwnerInv' /\ Adds(p)
<1> DEFINE ask == work[p].ask
           plan == [supersedes |-> LastOf(ask.order)]
<1>1. ~Deciding(ask) /\ ask.op \notin {"POLICY", "REVOKED"}
  BY DEF Deciding, RulingRole
<1>2. CASE Unacceptable(ask) /\ Reply(p, "CONFLICT")
  BY <1>2, ReplyInv
<1>3. CASE ~Unacceptable(ask) /\ ResolutionsOf(ask.order) # {} /\ ~WasEnded(LastOf(ask.order))
  <2>1. LastOf(ask.order) \in ResolutionsOf(ask.order)
    BY <1>3, ChainHasLast
  <2>2. ~Live(LastOf(ask.order), rulings)
    BY <1>3, <2>1 DEF Unacceptable
  <2>3. \E d \in RulingsOn(LastOf(ask.order), rulings) : rulings[d].kind # "APPROVED"
    BY <2>2, LiveIs DEF OwnerInv, Consistent, Approves
  <2>4. LastOf(ask.order) # NoRecord
    BY <2>1 DEF ResolutionsOf, OwnerInv, Keyed
  <2> QED BY <1>3, <2>3, <2>4 DEF WasEnded
<1>4. CASE Proceed(p, plan)
  <2>1. plan.supersedes # NoRecord =>
           plan.supersedes \in DOMAIN resolutions /\ resolutions[plan.supersedes].order = ask.order
    <3>1. CASE ResolutionsOf(ask.order) = {}
      BY <3>1 DEF LastOf
    <3>2. CASE ResolutionsOf(ask.order) # {}
      BY <3>2, ChainHasLast DEF ResolutionsOf
    <3> QED BY <3>1, <3>2
  <2>2. Planned(ask, plan)
    <3> HIDE DEF plan
    <3> QED BY <1>1, <2>1 DEF Planned
  <2> QED BY <1>4, <2>2, ProceedInv
<1> QED BY <1>2, <1>3, <1>4 DEF CheckResolution

LEMMA CheckRulingInv ==
    ASSUME OwnerInv, NEW p \in Handlers, work[p].pc = "asked", NoConflict(work[p].ask),
           ~Stored(work[p].ask), Deciding(work[p].ask), CheckRuling(p)
    PROVE  OwnerInv' /\ Adds(p)
<1> DEFINE ask == work[p].ask
           plan == [revokes |-> IF ask.op = "REVOKED" THEN ApprovalOf(ask.record, rulings)
                                ELSE NoRecord]
<1>1. ask.op \notin {"POLICY", "RESOLUTION"}
  BY DEF Deciding, RulingRole
<1>2. CASE Reply(p, "CONFLICT")
  BY <1>2, ReplyInv
<1>3. CASE Permitted(ask) /\ Proceed(p, plan)
  <2>1. ASSUME ask.op = "REVOKED"
        PROVE  /\ ApprovalOf(ask.record, rulings) \in RulingsOn(ask.record, rulings)
               /\ Approves(ApprovalOf(ask.record, rulings), rulings)
    <3>1. StatusOf(ask.record, rulings) = "APPROVED"
      BY <1>3, <2>1 DEF Permitted
    <3>2. \E d \in RulingsOn(ask.record, rulings) : rulings[d].kind = "APPROVED"
      BY <3>1, StatusIs DEF OwnerInv, Consistent
    <3> QED BY <3>2 DEF ApprovalOf, Approves
  <2>2. plan.revokes = IF ask.op = "REVOKED" THEN ApprovalOf(ask.record, rulings) ELSE NoRecord
    OBVIOUS
  <2>3. Planned(ask, plan)
    <3> HIDE DEF plan
    <3> QED BY <1>1, <2>1, <2>2 DEF Planned
  <2> QED BY <1>3, <2>3, ProceedInv
<1> QED BY <1>2, <1>3 DEF CheckRuling

LEMMA CheckLiabilityInv ==
    ASSUME OwnerInv, NEW p \in Handlers, work[p].pc = "asked", NoConflict(work[p].ask),
           ~Stored(work[p].ask), work[p].ask.op \in {"RECORD", "REVIEW"},
           CheckRecord(p) \/ CheckReview(p)
    PROVE  OwnerInv' /\ Adds(p)
<1>1. \A plan : Planned(work[p].ask, plan)
  BY DEF Planned, Deciding, RulingRole
<1>2. CASE Reply(p, "CONFLICT")
  BY <1>2, ReplyInv
<1>3. ASSUME NEW plan, Proceed(p, plan)
      PROVE  OwnerInv' /\ Adds(p)
  BY <1>1, <1>3, ProceedInv
<1> QED BY <1>2, <1>3 DEF CheckRecord, CheckReview

LEMMA CheckInv ==
    ASSUME OwnerInv, NEW p \in Handlers, Check(p)
    PROVE  OwnerInv' /\ Adds(p)
<1> DEFINE ask == work[p].ask
<1>1. work[p].pc = "asked" /\ NoConflict(ask)
  BY DEF Check
<1>2. Formed(ask)
  BY <1>1 DEF OwnerInv, Requested, InHand, HoldsLocks
<1>3. CASE ReplayRequest(p)
  BY <1>3, ReplayInv
<1>4. CASE ~Stored(ask) /\ ask.op = "POLICY" /\ CheckPolicy(p)
  BY <1>1, <1>4, CheckPolicyInv
<1>5. CASE ~Stored(ask) /\ ask.op = "RESOLUTION" /\ CheckResolution(p)
  BY <1>1, <1>5, CheckResolutionInv
<1>6. CASE ~Stored(ask) /\ ask.op \in {"RECORD", "REVIEW"} /\ (CheckRecord(p) \/ CheckReview(p))
  BY <1>1, <1>6, CheckLiabilityInv
<1>7. CASE ~Stored(ask) /\ Deciding(ask) /\ CheckRuling(p)
  BY <1>1, <1>7, CheckRulingInv
<1>8. /\ ask.op \in {"POLICY", "RESOLUTION", "RECORD", "REVIEW"} \cup DOMAIN RulingRole
      /\ Deciding(ask) <=> ask.op \in DOMAIN RulingRole
  BY <1>2 DEF Formed, Deciding
<1> QED BY <1>3, <1>4, <1>5, <1>6, <1>7, <1>8 DEF Check

-----------------------------------------------------------------------------
(* What a request that holds its locks adds.                               *)
LEMMA InHandLocked ==
    ASSUME OwnerInv, NEW p \in Handlers, HoldsLocks(p)
    PROVE  /\ Formed(work[p].ask) /\ ~Stored(work[p].ask) /\ Planned(work[p].ask, work[p].plan)
           /\ KeyOf(work[p].ask) \notin Entries
<1>1. InHand(p)
  BY DEF OwnerInv, Requested
<1> QED BY <1>1 DEF InHand, HoldsLocks, Stored, Entries

\* A request that has written is done.
LEMMA WrittenInv ==
    ASSUME OwnerInv, NEW p \in Handlers, Adds(p), work' = [work EXCEPT ![p] = Resting("DONE")],
           Consistent(policies, resolutions, rulings, liabilities)', IsFiniteSet(DOMAIN rulings)',
           Surroundings'
    PROVE  OwnerInv' /\ Adds(p)
<1>1. work'[p] = Resting("DONE")
  BY DEF OwnerInv, Requested
<1>2. InHand(p)' /\ ~HoldsLocks(p)'
  BY <1>1 DEF InHand, HoldsLocks, Resting
<1>3. Requested'
  BY <1>2, RequestStep
<1>4. Keyed(policies, resolutions)'
  BY DEF Adds
<1> QED BY <1>3, <1>4 DEF OwnerInv

LEMMA InsertPolicyInv ==
    ASSUME OwnerInv, NEW p \in Handlers, HoldsLocks(p), work[p].ask.op = "POLICY", InsertPolicy(p)
    PROVE  OwnerInv' /\ Adds(p)
<1> DEFINE ask == work[p].ask
           key == KeyOf(ask)
           new == [code |-> ask.code, version |-> work[p].plan.version, by |-> ask.by]
<1>1. CASE Reply(p, "CONFLICT")
  BY <1>1, ReplyInv
<1>2. CASE /\ policies' = With(policies, key, new)
           /\ work' = [work EXCEPT ![p] = Resting("DONE")]
           /\ UNCHANGED <<staff, recon, back, resolutions, rulings, liabilities, reviews, made, moved>>
  <2>1. Formed(ask) /\ Planned(ask, work[p].plan) /\ key \notin Entries /\ key[1] = "policy-proposal"
    BY InHandLocked, KeyIs
  <2>2. new.code \in Codes /\ new.version \in Nat
    BY <2>1 DEF Formed, Planned
  <2> HIDE DEF key, new
  <2>3. /\ DOMAIN policies' = DOMAIN policies \cup {key} /\ policies'[key] = new
        /\ \A k \in DOMAIN policies : policies'[k] = policies[k]
    BY <1>2, <2>1 DEF With, Entries
  <2>4. Keyed(policies', resolutions')
    BY <1>2, <2>1, <2>3, FS_AddElement DEF OwnerInv, Keyed
  <2>5. Adds(p)
    <3>1. Entries' \subseteq Entries \cup {KeyOf(work[p].ask)}
      BY <1>2, <2>3 DEF Entries, key
    <3> QED BY <1>2, <2>3, <2>4, <3>1 DEF Adds, Kept
  <2>6. References(policies', resolutions', rulings', liabilities')
    BY <1>2, <2>2, <2>3 DEF OwnerInv, Consistent, References
  <2>7. Consistent(policies, resolutions, rulings, liabilities)'
    BY <1>2, <2>6 DEF OwnerInv, Consistent
  <2>8. Surroundings' /\ IsFiniteSet(DOMAIN rulings)'
    BY <1>2 DEF OwnerInv, Surroundings
  <2> QED BY <1>2, <2>5, <2>7, <2>8, WrittenInv
<1> QED BY <1>1, <1>2 DEF InsertPolicy

LEMMA InsertResolutionInv ==
    ASSUME OwnerInv, NEW p \in Handlers, HoldsLocks(p), work[p].ask.op = "RESOLUTION", InsertResolution(p)
    PROVE  OwnerInv' /\ Adds(p)
<1> DEFINE ask == work[p].ask
           key == KeyOf(ask)
           new == [order |-> ask.order, policy |-> ask.policy, recon |-> ask.recon, by |-> ask.by,
                   supersedes |-> work[p].plan.supersedes]
           ress == With(resolutions, key, new)
<1>1. CASE Reply(p, "CONFLICT")
  BY <1>1, ReplyInv
<1>2. CASE /\ PlaceFree(new) /\ Valid(key, ress, rulings, liabilities)
           /\ resolutions' = ress
           /\ work' = [work EXCEPT ![p] = Resting("DONE")]
           /\ UNCHANGED <<staff, recon, back, policies, rulings, liabilities, reviews, made, moved>>
  <2>1. /\ Formed(ask) /\ Planned(ask, work[p].plan) /\ key \notin Entries
        /\ key[1] = "resolution-proposal" /\ key # NoRecord
    BY InHandLocked, KeyIs
  <2>2. /\ new.order \in DeletedOrders /\ new.policy \in DOMAIN policies /\ new.recon \in DOMAIN Recons
        /\ new.supersedes # NoRecord =>
              new.supersedes \in DOMAIN resolutions /\ resolutions[new.supersedes].order = new.order
    BY <2>1 DEF Formed, Planned
  <2> HIDE DEF key, new
  <2>3. /\ DOMAIN ress = DOMAIN resolutions \cup {key} /\ ress[key] = new
        /\ \A k \in DOMAIN resolutions : ress[k] = resolutions[k] /\ k # key
    BY <2>1 DEF With, Entries
  <2> HIDE DEF ress
  <2>4. Keyed(policies', resolutions')
    BY <1>2, <2>1, <2>3, FS_AddElement DEF OwnerInv, Keyed
  <2>5. Adds(p)
    <3>1. Entries' \subseteq Entries \cup {KeyOf(work[p].ask)}
      BY <1>2, <2>3 DEF Entries, key
    <3> QED BY <1>2, <2>3, <2>4, <3>1 DEF Adds, Kept
  <2>6. References(policies', resolutions', rulings', liabilities')
    BY <1>2, <2>2, <2>3 DEF OwnerInv, Consistent, References
  <2>7. Superseding(resolutions')
    <3>0. Superseding(resolutions)
      BY DEF OwnerInv, Consistent
    <3>1. \A k \in DOMAIN ress : ress[k].supersedes # NoRecord =>
             ress[k].supersedes \in DOMAIN ress /\ ress[ress[k].supersedes].order = ress[k].order
      BY <2>2, <2>3, <3>0 DEF Superseding
    <3>2. ASSUME NEW k \in DOMAIN ress, NEW l \in DOMAIN ress, ress[k].order = ress[l].order,
                 ress[k].supersedes = ress[l].supersedes
          PROVE  k = l
      <4>1. \A m \in DOMAIN resolutions :
               resolutions[m].order = new.order => resolutions[m].supersedes # new.supersedes
        BY <1>2 DEF PlaceFree, ResolutionsOf
      <4> QED BY <2>3, <3>0, <3>2, <4>1 DEF Superseding
    <3>3. ASSUME NEW k \in DOMAIN ress
          PROVE  \E l \in DOMAIN ress : ress[l].order = ress[k].order /\ ress[l].supersedes = NoRecord
      <4>1. CASE k \in DOMAIN resolutions
        BY <2>3, <3>0, <4>1 DEF Superseding
      <4>2. CASE k = key /\ new.supersedes = NoRecord
        BY <2>3, <4>2
      <4>3. CASE k = key /\ new.supersedes # NoRecord
        BY <2>2, <2>3, <3>0, <4>3 DEF Superseding
      <4> QED BY <2>3, <4>1, <4>2, <4>3
    <3> QED BY <1>2, <3>1, <3>2, <3>3 DEF Superseding
  <2>8. OneLive(resolutions', rulings')
    <3>1. \A l \in DOMAIN ress \ {key} : ress[l].order = new.order => ~Live(l, rulings)
      BY <1>2, <2>3 DEF Valid
    <3>2. OneLive(ress, rulings)
      BY <2>3, <3>1 DEF OwnerInv, Consistent, OneLive
    <3> QED BY <1>2, <3>2
  <2>9. Consistent(policies, resolutions, rulings, liabilities)'
    BY <1>2, <2>6, <2>7, <2>8 DEF OwnerInv, Consistent
  <2>10. Surroundings' /\ IsFiniteSet(DOMAIN rulings)'
    BY <1>2 DEF OwnerInv, Surroundings
  <2> QED BY <1>2, <2>5, <2>9, <2>10, WrittenInv
<1> QED BY <1>1, <1>2 DEF InsertResolution

LEMMA InsertRulingInv ==
    ASSUME OwnerInv, NEW p \in Handlers, HoldsLocks(p), Deciding(work[p].ask), InsertRuling(p)
    PROVE  OwnerInv' /\ Adds(p)
<1> DEFINE ask == work[p].ask
           key == KeyOf(ask)
           new == [record |-> ask.record, kind |-> ask.op, by |-> ask.by,
                   revokes |-> work[p].plan.revokes]
           decs == With(rulings, key, new)
<1>1. CASE Reply(p, "CONFLICT")
  BY <1>1, ReplyInv
<1>2. CASE /\ RulingFits(new)
           /\ rulings' = decs
           /\ work' = [work EXCEPT ![p] = Resting("DONE")]
           /\ UNCHANGED <<staff, recon, back, policies, resolutions, liabilities, reviews, made, moved>>
  <2>1. Formed(ask) /\ Planned(ask, work[p].plan) /\ key \notin Entries
    BY InHandLocked
  <2>2. /\ new.kind \in DOMAIN RulingRole /\ new.record \in DOMAIN policies \cup DOMAIN resolutions
        /\ IF new.kind = "REVOKED"
           THEN new.revokes \in RulingsOn(new.record, rulings) /\ Approves(new.revokes, rulings)
           ELSE new.revokes = NoRecord
    BY <2>1 DEF Formed, Planned, Deciding
  <2> HIDE DEF key, new
  <2>3. key \notin DOMAIN rulings
    BY <2>1 DEF Entries
  <2>4. /\ Histories(decs) /\ IsFiniteSet(DOMAIN decs)
    <3>1. Histories(rulings) /\ IsFiniteSet(DOMAIN rulings)
      BY DEF OwnerInv, Consistent
    <3>2. IF new.kind = "REVOKED" THEN \A l \in DOMAIN rulings : rulings[l].revokes # new.revokes
          ELSE \A l \in RulingsOn(new.record, rulings) : rulings[l].kind = "REVOKED"
      BY <1>2 DEF RulingFits
    <3> QED BY <2>2, <2>3, <3>1, <3>2, RulingKeepsHistories
  <2>5. /\ DOMAIN decs = DOMAIN rulings \cup {key} /\ decs[key] = new
        /\ \A k \in DOMAIN rulings : decs[k] = rulings[k]
    BY <2>3 DEF With
  <2>6. OneLive(resolutions, decs)
    <3>1. \A k : Live(k, decs) => Live(k, rulings)
      BY <2>3, <2>4, StaysClosed DEF OwnerInv, Consistent
    <3> QED BY <3>1 DEF OwnerInv, Consistent, OneLive
  <2> HIDE DEF decs
  <2>7. Adds(p)
    <3>1. Entries' \subseteq Entries \cup {KeyOf(work[p].ask)}
      BY <1>2, <2>5 DEF Entries, key
    <3> QED BY <1>2, <2>5, <3>1 DEF Adds, Kept, OwnerInv
  <2>8. References(policies', resolutions', rulings', liabilities')
    BY <1>2, <2>2, <2>5 DEF OwnerInv, Consistent, References
  <2>9. Consistent(policies, resolutions, rulings, liabilities)'
    BY <1>2, <2>4, <2>6, <2>8 DEF OwnerInv, Consistent
  <2>10. Surroundings' /\ IsFiniteSet(DOMAIN rulings)'
    BY <1>2, <2>4 DEF OwnerInv, Surroundings
  <2> QED BY <1>2, <2>7, <2>9, <2>10, WrittenInv
<1> QED BY <1>1, <1>2 DEF InsertRuling

LEMMA InsertRecordInv ==
    ASSUME OwnerInv, NEW p \in Handlers, HoldsLocks(p), work[p].ask.op = "RECORD", InsertRecord(p)
    PROVE  OwnerInv' /\ Adds(p)
<1> DEFINE ask == work[p].ask
           key == KeyOf(ask)
           new == [resolution |-> ask.record, approval |-> work[p].plan.approval, by |-> ask.by]
<1>1. CASE Reply(p, "CONFLICT")
  BY <1>1, ReplyInv
<1>2. CASE /\ ~Recorded(ask.record)
           /\ liabilities' = With(liabilities, key, new)
           /\ work' = [work EXCEPT ![p] = Resting("DONE")]
           /\ UNCHANGED <<staff, recon, back, policies, resolutions, rulings, reviews, made, moved>>
  <2>1. Formed(ask) /\ key \notin Entries
    BY InHandLocked
  <2>2. new.resolution = ask.record /\ ask.record \in DOMAIN resolutions
    BY <2>1 DEF Formed
  <2> HIDE DEF key, new
  <2>3. /\ DOMAIN liabilities' = DOMAIN liabilities \cup {key} /\ liabilities'[key] = new
        /\ \A k \in DOMAIN liabilities : liabilities'[k] = liabilities[k]
    BY <1>2, <2>1 DEF With, Entries
  <2>4. Adds(p)
    <3>1. Entries' \subseteq Entries \cup {KeyOf(work[p].ask)}
      BY <1>2, <2>3 DEF Entries, key
    <3> QED BY <1>2, <2>3, <3>1 DEF Adds, Kept, OwnerInv
  <2>5. References(policies', resolutions', rulings', liabilities')
    BY <1>2, <2>2, <2>3 DEF OwnerInv, Consistent, References
  <2>6. OneLiability(liabilities')
    BY <1>2, <2>2, <2>3 DEF OwnerInv, Consistent, OneLiability, Recorded
  <2>7. Consistent(policies, resolutions, rulings, liabilities)'
    BY <1>2, <2>5, <2>6 DEF OwnerInv, Consistent
  <2>8. Surroundings' /\ IsFiniteSet(DOMAIN rulings)'
    BY <1>2, <2>3 DEF OwnerInv, Surroundings
  <2> QED BY <1>2, <2>4, <2>7, <2>8, WrittenInv
<1> QED BY <1>1, <1>2 DEF InsertRecord

LEMMA InsertReviewInv ==
    ASSUME OwnerInv, NEW p \in Handlers, HoldsLocks(p), work[p].ask.op = "REVIEW", InsertReview(p)
    PROVE  OwnerInv' /\ Adds(p)
<1> DEFINE ask == work[p].ask
           key == KeyOf(ask)
           new == [liability |-> ask.record, by |-> ask.by]
<1>1. Formed(ask) /\ key \notin Entries
  BY InHandLocked
<1>2. new.liability \in DOMAIN liabilities
  BY <1>1 DEF Formed
<1> HIDE DEF key, new
<1>3. /\ DOMAIN reviews' = DOMAIN reviews \cup {key} /\ reviews'[key] = new
      /\ \A k \in DOMAIN reviews : reviews'[k] = reviews[k]
  BY <1>1 DEF InsertReview, With, Entries, key, new
<1>4. UNCHANGED <<staff, recon, back, policies, resolutions, rulings, liabilities>>
  BY DEF InsertReview
<1>5. Adds(p)
  <2>1. Entries' \subseteq Entries \cup {KeyOf(work[p].ask)}
    BY <1>3, <1>4 DEF Entries, key
  <2> QED BY <1>3, <1>4, <2>1 DEF Adds, Kept, OwnerInv
<1>6. Surroundings' /\ IsFiniteSet(DOMAIN rulings)'
  BY <1>2, <1>3, <1>4 DEF OwnerInv, Surroundings
<1>7. Consistent(policies, resolutions, rulings, liabilities)'
  BY <1>4 DEF OwnerInv
<1> QED BY <1>5, <1>6, <1>7, WrittenInv DEF InsertReview

LEMMA InsertInv ==
    ASSUME OwnerInv, NEW p \in Handlers, Insert(p)
    PROVE  OwnerInv' /\ Adds(p)
<1> DEFINE ask == work[p].ask
<1>1. HoldsLocks(p)
  BY DEF Insert, HoldsLocks
<1>2. /\ ask.op \in {"POLICY", "RESOLUTION", "RECORD", "REVIEW"} \cup DOMAIN RulingRole
      /\ Deciding(ask) <=> ask.op \in DOMAIN RulingRole
  BY <1>1, InHandLocked DEF Formed, Deciding
<1>3. \/ ask.op = "POLICY" /\ InsertPolicy(p)
      \/ ask.op = "RESOLUTION" /\ InsertResolution(p)
      \/ ask.op = "RECORD" /\ InsertRecord(p)
      \/ ask.op = "REVIEW" /\ InsertReview(p)
      \/ Deciding(ask) /\ InsertRuling(p)
  BY <1>2 DEF Insert
<1> QED BY <1>1, <1>3, InsertPolicyInv, InsertResolutionInv, InsertRecordInv, InsertReviewInv,
           InsertRulingInv

-----------------------------------------------------------------------------
(* What goes on around the requests, and the invariant of the behaviours.  *)
LEMMA AroundInv ==
    ASSUME OwnerInv, UNCHANGED <<registers, work>>, Surroundings'
    PROVE  OwnerInv'
<1>1. /\ policies' = policies /\ resolutions' = resolutions /\ rulings' = rulings
      /\ liabilities' = liabilities /\ reviews' = reviews /\ work' = work
  BY DEF registers
<1>2. \A p \in Handlers : work[p].pc # "idle" => KeyOf(work[p].ask)' = KeyOf(work[p].ask)
  BY <1>1 DEF KeyOf, Scope, Deciding
<1>3. ASSUME NEW p \in Handlers
      PROVE  InHand(p)'
  <2>1. InHand(p)
    BY DEF OwnerInv, Requested
  <2>2. CASE work[p].pc = "idle"
    BY <1>1, <2>1, <2>2 DEF InHand, HoldsLocks
  <2>3. CASE work[p].pc # "idle"
    <3>1. Formed(work[p].ask)'
      BY <1>1, <2>1, <2>3 DEF InHand, HoldsLocks, Formed, Deciding
    <3>2. HoldsLocks(p) => ~Stored(work[p].ask)' /\ Planned(work[p].ask, work[p].plan)'
      BY <1>1, <1>2, <2>1, <2>3 DEF InHand, HoldsLocks, Stored, Planned, RulingsOn, Approves, Deciding
    <3> QED BY <1>1, <2>1, <2>3, <3>1, <3>2 DEF InHand, HoldsLocks
  <2> QED BY <2>2, <2>3
<1>4. ASSUME NEW p \in Handlers, NEW q \in Handlers, p # q, HoldsLocks(p)', HoldsLocks(q)'
      PROVE  KeyOf(work[p].ask)' # KeyOf(work[q].ask)'
  BY <1>1, <1>2, <1>4 DEF OwnerInv, Requested, HoldsLocks
<1> QED BY <1>1, <1>3, <1>4 DEF OwnerInv, Requested

LEMMA OwnerNextInv == OwnerInv /\ [OwnerNext]_ownerVars => OwnerInv'
<1> SUFFICES ASSUME OwnerInv, [OwnerNext]_ownerVars PROVE OwnerInv'
  OBVIOUS
<1>1. CASE UNCHANGED ownerVars
  BY <1>1, AroundInv DEF ownerVars, registers, OwnerInv, Surroundings
<1>2. ASSUME NEW p \in Handlers, MakeRequest(p)
      PROVE  OwnerInv'
  BY <1>2, MakeRequestInv
<1>3. ASSUME NEW p \in Handlers, ReplayEarly(p)
      PROVE  OwnerInv'
  BY <1>3, ReplayInv DEF ReplayEarly
<1>4. ASSUME NEW p \in Handlers, Check(p)
      PROVE  OwnerInv'
  BY <1>4, CheckInv
<1>5. ASSUME NEW p \in Handlers, Insert(p)
      PROVE  OwnerInv'
  BY <1>5, InsertInv
<1>6. ASSUME NEW r \in DOMAIN Recons, ReconMoves(r)
      PROVE  OwnerInv'
  <2>1. PICK step \in ReconSteps : recon' = [recon EXCEPT ![r] = step[2]]
    BY <1>6 DEF ReconMoves
  <2>2. step[2] \in {"ABSENT", "APPROVED", "BROKEN", "REVOKED"}
    BY <2>1 DEF ReconSteps
  <2>3. Surroundings'
    BY <1>6, <2>1, <2>2 DEF ReconMoves, OwnerInv, Surroundings, registers
  <2> QED BY <1>6, <2>3, AroundInv DEF ReconMoves
<1>7. ASSUME NEW o \in DeletedOrders, OrderComesBack(o)
      PROVE  OwnerInv'
  <2>1. Surroundings'
    BY <1>7 DEF OrderComesBack, OwnerInv, Surroundings, registers
  <2> QED BY <1>7, <2>1, AroundInv DEF OrderComesBack
<1>8. ASSUME NEW u \in Staff, ChangeStaff(u)
      PROVE  OwnerInv'
  <2>1. Surroundings'
    BY <1>8 DEF ChangeStaff, OwnerInv, Surroundings, registers
  <2> QED BY <1>8, <2>1, AroundInv DEF ChangeStaff
<1> QED BY <1>1, <1>2, <1>3, <1>4, <1>5, <1>6, <1>7, <1>8 DEF OwnerNext

\* The four registers stay consistent, whatever requests race: one outcome and
\* one revocation of a record, one chain of resolutions and at most one live
\* resolution of an order, one liability of a resolution (the unique indexes of
\* the tables and the checks of historical-ownership-workflow.service.ts).
THEOREM RegistersConsistent == OwnerSpec => []Consistent(policies, resolutions, rulings, liabilities)
<1>1. OwnerInv => Consistent(policies, resolutions, rulings, liabilities)
  BY DEF OwnerInv
<1> QED BY <1>1, OwnerInitInv, OwnerNextInv, PTL DEF OwnerSpec

\* An order only leaves the list that blocks the activation by coming back, or
\* with exactly one liability outstanding (unresolvedHistoricalOwnershipSql):
\* for any number of users, orders, requests at once and changes around them.
THEOREM GateMeansOneLiability == OwnerSpec => []GateMeansLiability
<1>1. OwnerInv => GateMeansLiability
  BY ConsistentGate DEF OwnerInv
<1> QED BY <1>1, OwnerInitInv, OwnerNextInv, PTL DEF OwnerSpec

-----------------------------------------------------------------------------
(* Nothing is taken back.                                                  *)
LEMMA StepKeeps ==
    ASSUME OwnerInv, [OwnerNext]_ownerVars
    PROVE  /\ Kept(policies, policies') /\ Kept(resolutions, resolutions')
           /\ Kept(rulings, rulings') /\ Kept(liabilities, liabilities')
           /\ \E key : DOMAIN rulings' \subseteq DOMAIN rulings \cup {key}
<1>1. CASE UNCHANGED <<policies, resolutions, rulings, liabilities>>
  BY <1>1 DEF Kept
<1>2. ASSUME NEW p \in Handlers, MakeRequest(p) \/ ReplayEarly(p) \/ Check(p)
      PROVE  UNCHANGED <<policies, resolutions, rulings, liabilities>>
  BY <1>2 DEF MakeRequest, ReplayEarly, ReplayRequest, Check, CheckPolicy, CheckResolution,
              CheckRecord, CheckReview, CheckRuling, Reply, Proceed, registers
<1>3. ASSUME NEW p \in Handlers, Insert(p)
      PROVE  /\ Adds(p) /\ \E key : DOMAIN rulings' \subseteq DOMAIN rulings \cup {key}
  <2>1. Adds(p)
    BY <1>3, InsertInv
  <2>2. CASE InsertRuling(p)
    <3>1. \/ rulings' = rulings
          \/ DOMAIN rulings' = DOMAIN rulings \cup {KeyOf(work[p].ask)}
      BY <2>2 DEF InsertRuling, Reply, registers, With
    <3> QED BY <2>1, <3>1
  <2>3. CASE InsertPolicy(p) \/ InsertResolution(p) \/ InsertRecord(p) \/ InsertReview(p)
    <3>1. rulings' = rulings
      BY <2>3 DEF InsertPolicy, InsertResolution, InsertRecord, InsertReview, Reply, registers
    <3> QED BY <2>1, <3>1
  <2>4. InsertPolicy(p) \/ InsertResolution(p) \/ InsertRecord(p) \/ InsertReview(p) \/ InsertRuling(p)
    <3>1. Formed(work[p].ask)
      BY <1>3, InHandLocked DEF Insert, HoldsLocks
    <3> QED BY <1>3, <3>1 DEF Insert, Formed
  <2> QED BY <2>2, <2>3, <2>4, <2>1
<1>4. CASE UNCHANGED ownerVars
  BY <1>1, <1>4 DEF ownerVars, registers
<1>5. CASE (\E r \in DOMAIN Recons : ReconMoves(r)) \/ (\E o \in DeletedOrders : OrderComesBack(o))
           \/ (\E u \in Staff : ChangeStaff(u))
  BY <1>1, <1>5 DEF ReconMoves, OrderComesBack, ChangeStaff, registers
<1> QED BY <1>1, <1>2, <1>3, <1>4, <1>5 DEF OwnerNext, Adds

LEMMA StatusAdvances ==
    ASSUME NEW decs, IsFiniteSet(DOMAIN decs), Histories(decs),
           NEW more, IsFiniteSet(DOMAIN more), Histories(more), Kept(decs, more),
           NEW key, DOMAIN more \subseteq DOMAIN decs \cup {key}, NEW k
    PROVE  StatusOf(k, more) \in After(StatusOf(k, decs))
<1>1. /\ \A d \in RulingsOn(k, decs) : d \in RulingsOn(k, more) /\ more[d] = decs[d]
      /\ RulingsOn(k, more) \subseteq RulingsOn(k, decs) \cup {key}
  BY DEF Kept, RulingsOn
<1>2. ASSUME StatusOf(k, more) = "REVOKED"
      PROVE  /\ \E a \in RulingsOn(k, more) : more[a].kind = "APPROVED"
             /\ \E d \in RulingsOn(k, more) : more[d].kind = "REVOKED"
             /\ \A e \in RulingsOn(k, more) : more[e].kind \in {"APPROVED", "REVOKED"}
  <2>1. PICK d \in RulingsOn(k, more) : more[d].kind = "REVOKED"
    BY <1>2, StatusIs
  <2>2. PICK a \in RulingsOn(k, more) : more[a].kind = "APPROVED"
    BY <2>1 DEF Histories, RulingsOn
  <2>3. ASSUME NEW e \in RulingsOn(k, more), more[e].kind # "REVOKED"
        PROVE  more[e].kind = "APPROVED"
    <3>1. e = a
      BY <2>2, <2>3 DEF Histories, RulingsOn
    <3> QED BY <2>2, <3>1
  <2> QED BY <2>1, <2>2, <2>3
<1>3. CASE StatusOf(k, decs) = "PROPOSED"
  <2>1. RulingsOn(k, more) \subseteq {key}
    BY <1>1, <1>3, StatusIs
  <2>2. StatusOf(k, more) # "REVOKED"
    BY <1>2, <2>1
  <2> QED BY <1>3, <2>2, StatusIs DEF After
<1>4. CASE StatusOf(k, decs) = "APPROVED"
  <2>1. \E d \in RulingsOn(k, more) : more[d].kind = "APPROVED"
    BY <1>1, <1>4, StatusIs
  <2>2. StatusOf(k, more) \in {"APPROVED", "REVOKED"}
    BY <2>1, StatusIs
  <2> QED BY <1>4, <2>2 DEF After
<1>5. CASE StatusOf(k, decs) \in {"REJECTED", "WITHDRAWN"}
  <2>1. \E d \in RulingsOn(k, more) : more[d].kind = StatusOf(k, decs)
    BY <1>1, <1>5, StatusIs
  <2>2. StatusOf(k, more) = StatusOf(k, decs)
    BY <1>2, <1>5, <2>1, StatusIs
  <2> QED BY <1>5, <2>2 DEF After
<1>6. CASE StatusOf(k, decs) = "REVOKED"
  <2>1. \E d \in RulingsOn(k, more) : more[d].kind = "REVOKED"
    BY <1>1, <1>6, StatusIs
  <2>2. StatusOf(k, more) = "REVOKED"
    BY <2>1, StatusIs
  <2> QED BY <1>6, <2>2 DEF After
<1> QED BY <1>3, <1>4, <1>5, <1>6, StatusIs

\* No step edits or loses a record, a decision or a liability, and no status goes
\* back: what was rejected, withdrawn or revoked stays so.
THEOREM NothingIsTakenBack == OwnerSpec => [][OnlyAdvances]_ownerVars
<1>1. ASSUME OwnerInv, OwnerInv', [OwnerNext]_ownerVars
      PROVE  OnlyAdvances
  <2>1. /\ Kept(policies, policies') /\ Kept(resolutions, resolutions')
        /\ Kept(rulings, rulings') /\ Kept(liabilities, liabilities')
    BY <1>1, StepKeeps
  <2>2. PICK key : DOMAIN rulings' \subseteq DOMAIN rulings \cup {key}
    BY <1>1, StepKeeps
  <2>3. /\ IsFiniteSet(DOMAIN rulings) /\ Histories(rulings)
        /\ IsFiniteSet(DOMAIN rulings') /\ Histories(rulings')
    BY <1>1 DEF OwnerInv, Consistent
  <2>4. \A k : StatusOf(k, rulings') \in After(StatusOf(k, rulings))
    BY <2>1, <2>2, <2>3, StatusAdvances
  <2>5. ASSUME NEW k \in DOMAIN policies \cup DOMAIN resolutions
        PROVE  StatusOf(k, rulings)' = StatusOf(k, rulings')
    BY DEF StatusOf, RulingsOn
  <2> QED BY <2>1, <2>4, <2>5 DEF OnlyAdvances
<1> QED BY <1>1, OwnerInitInv, OwnerNextInv, PTL DEF OwnerSpec

\* The types of the registers; and no request ends in the internal error kept for
\* a broken chain of resolutions (proposeOwnershipResolution :540).
THEOREM OwnerTyped == OwnerSpec => []OwnerTypeOK
<1>1. ASSUME OwnerInv PROVE OwnerTypeOK
  <2>1. \A k \in DOMAIN resolutions :
           resolutions[k].supersedes \in {NoRecord} \cup ResolutionsOf(resolutions[k].order)
    BY <1>1 DEF OwnerInv, Consistent, Superseding, ResolutionsOf
  <2>2. \A d \in DOMAIN rulings : rulings[d].kind \in DOMAIN RulingRole
                                  /\ rulings[d].revokes \in {NoRecord} \cup DOMAIN rulings
    BY <1>1 DEF OwnerInv, Consistent, Histories, RulingsOn
  <2>3. \A p \in Handlers :
           \/ work[p].pc = "idle" /\ work[p].answer \in {"NONE", "DONE", "REUSED", "CONFLICT"}
           \/ work[p].pc \in {"asked", "locked"}
    BY <1>1 DEF OwnerInv, Requested, InHand, HoldsLocks
  <2> QED BY <1>1, <2>1, <2>2, <2>3 DEF OwnerTypeOK, OwnerInv, Surroundings, Consistent, References
<1> QED BY <1>1, OwnerInitInv, OwnerNextInv, PTL DEF OwnerSpec

-----------------------------------------------------------------------------
(* Part 3: the explanations of deleted rows (HistoricalReconciliation).    *)
-----------------------------------------------------------------------------
(* What an orderly history makes of a record: one outcome, and one         *)
(* revocation of an approval.                                              *)
Orderly(decs) ==
    /\ \A d \in DOMAIN decs :
          /\ decs[d].kind \in DOMAIN DecisionRole
          /\ decs[d].kind = "REVOKED" =>
                /\ decs[d].revokes \in DecisionsOn(decs[d].record, decs)
                /\ decs[decs[d].revokes].kind = "APPROVED"
    /\ \A d, e \in DOMAIN decs :
          decs[d].record = decs[e].record /\ (decs[d].kind = "REVOKED" <=> decs[e].kind = "REVOKED")
          => d = e

LEMMA StandingIs ==
    ASSUME NEW decs, Orderly(decs), NEW k
    PROVE  /\ Status(k, decs) # "INVALID_HISTORY"
           /\ Status(k, decs) \in LiveStatuses <=>
                 \A d \in DecisionsOn(k, decs) : decs[d].kind = "APPROVED"
           /\ Status(k, decs) = "PROPOSED" <=> DecisionsOn(k, decs) = {}
           /\ Status(k, decs) = "APPROVED" => \E d \in DecisionsOn(k, decs) : decs[d].kind = "APPROVED"
<1> DEFINE mine == DecisionsOn(k, decs)
           outcomes == {d \in mine : decs[d].kind \in Outcomes}
           revocations == mine \ outcomes
<1>1. \A d \in mine : /\ d \in DOMAIN decs /\ decs[d].record = k
                      /\ decs[d].kind \in {"APPROVED", "REJECTED", "WITHDRAWN", "REVOKED"}
  BY DEF DecisionsOn, Orderly, DecisionRole
<1>2. /\ \A d \in outcomes : d \in mine /\ decs[d].kind \in Outcomes /\ decs[d].kind # "REVOKED"
      /\ \A d \in revocations : d \in mine /\ decs[d].kind = "REVOKED"
  BY <1>1 DEF Outcomes
<1>3. /\ \A d, e \in outcomes : d = e
      /\ \A d, e \in revocations : d = e
  BY <1>1, <1>2 DEF Orderly
<1>4. \A d \in revocations : decs[d].revokes \in outcomes /\ decs[decs[d].revokes].kind = "APPROVED"
  BY <1>1, <1>2 DEF Orderly, Outcomes
<1>5. ASSUME NEW S, \A d, e \in S : d = e
      PROVE  ~(Cardinality(S) > 1)
  <2>1. CASE S = {}
    BY <2>1, FS_EmptySet
  <2>2. CASE S # {}
    <3>1. PICK x \in S : TRUE
      BY <2>2
    <3>2. S = {x}
      BY <1>5, <3>1
    <3> QED BY <3>2, FS_Singleton
  <2> QED BY <2>1, <2>2
<1>6. ~(Cardinality(outcomes) > 1) /\ ~(Cardinality(revocations) > 1)
  BY <1>3, <1>5
<1>7. ~ \E d \in revocations : ~ \E o \in outcomes : decs[o].kind = "APPROVED" /\ decs[d].revokes = o
  BY <1>4
<1>8. mine = outcomes \cup revocations
  OBVIOUS
<1>9. revocations # {} => Status(k, decs) = "REVOKED"
  BY <1>6, <1>7 DEF Status
<1>10. revocations = {} /\ outcomes = {} => Status(k, decs) = "PROPOSED"
  BY <1>6, <1>7 DEF Status
<1>11. revocations = {} /\ outcomes # {} => Status(k, decs) = decs[CHOOSE d \in outcomes : TRUE].kind
  BY <1>6, <1>7 DEF Status
<1> HIDE DEF outcomes, revocations, mine
<1>12. outcomes # {} => (CHOOSE d \in outcomes : TRUE) \in outcomes
  OBVIOUS
<1>13. CASE revocations # {}
  <2>1. Status(k, decs) = "REVOKED" /\ mine # {}
    BY <1>8, <1>9, <1>13
  <2>2. \E d \in mine : decs[d].kind # "APPROVED"
    BY <1>2, <1>8, <1>13
  <2> QED BY <2>1, <2>2 DEF LiveStatuses, mine
<1>14. CASE revocations = {} /\ outcomes = {}
  BY <1>8, <1>10, <1>14 DEF LiveStatuses, mine
<1>15. CASE revocations = {} /\ outcomes # {}
  <2>1. PICK o \in outcomes : o = CHOOSE d \in outcomes : TRUE
    BY <1>12, <1>15
  <2>2. Status(k, decs) = decs[o].kind /\ decs[o].kind \in Outcomes
    BY <1>2, <1>11, <1>15, <2>1
  <2>3. \A d \in mine : d = o
    BY <1>3, <1>8, <1>15, <2>1
  <2>4. o \in mine
    BY <1>8
  <2> QED BY <2>2, <2>3, <2>4 DEF LiveStatuses, Outcomes, mine
<1> QED BY <1>13, <1>14, <1>15

\* A new decision that the indexes accept.
LEMMA DecisionKeepsOrder ==
    ASSUME NEW decs, Orderly(decs), NEW key, key \notin DOMAIN decs,
           NEW d, d.kind \in DOMAIN DecisionRole,
           d.kind \in Outcomes => \A l \in DecisionsOn(d.record, decs) : decs[l].kind \notin Outcomes,
           d.kind = "REVOKED" =>
              /\ d.revokes \in DecisionsOn(d.record, decs) /\ decs[d.revokes].kind = "APPROVED"
              /\ \A l \in DOMAIN decs : decs[l].revokes # d.revokes,
           NEW more, DOMAIN more = DOMAIN decs \cup {key}, more[key] = d,
           \A l \in DOMAIN decs : more[l] = decs[l]
    PROVE  /\ Orderly(more)
           /\ \A k : Status(k, more) \in LiveStatuses => Status(k, decs) \in LiveStatuses
<1>0. DOMAIN DecisionRole = {"APPROVED", "REJECTED", "WITHDRAWN", "REVOKED"}
  BY DEF DecisionRole
<1>1. \A k : \A l \in DecisionsOn(k, decs) : l \in DecisionsOn(k, more) /\ more[l] = decs[l]
  BY DEF DecisionsOn
<1>2. ASSUME NEW l \in DOMAIN more
      PROVE  /\ more[l].kind \in DOMAIN DecisionRole
             /\ more[l].kind = "REVOKED" =>
                   /\ more[l].revokes \in DecisionsOn(more[l].record, more)
                   /\ more[more[l].revokes].kind = "APPROVED"
  <2>1. CASE l = key
    BY <1>1, <2>1
  <2>2. CASE l \in DOMAIN decs
    BY <1>1, <2>2 DEF Orderly
  <2> QED BY <2>1, <2>2
<1>3. ASSUME NEW l \in DOMAIN decs, decs[l].record = d.record,
             decs[l].kind = "REVOKED" <=> d.kind = "REVOKED"
      PROVE  FALSE
  <2>1. CASE d.kind # "REVOKED"
    <3>1. d.kind \in Outcomes /\ decs[l].kind \in Outcomes
      BY <1>0, <1>3, <2>1 DEF Outcomes, Orderly
    <3> QED BY <1>3, <3>1 DEF DecisionsOn
  <2>2. CASE d.kind = "REVOKED"
    <3>1. /\ decs[l].revokes \in DecisionsOn(d.record, decs)
          /\ decs[decs[l].revokes].kind = "APPROVED"
      BY <1>3, <2>2 DEF Orderly
    <3>2. decs[l].revokes = d.revokes
      BY <2>2, <3>1 DEF Orderly, DecisionsOn
    <3> QED BY <2>2, <3>2
  <2> QED BY <2>1, <2>2
<1>4. ASSUME NEW l \in DOMAIN more, NEW m \in DOMAIN more, more[l].record = more[m].record,
             more[l].kind = "REVOKED" <=> more[m].kind = "REVOKED"
      PROVE  l = m
  <2>1. CASE l \in DOMAIN decs /\ m \in DOMAIN decs
    BY <1>4, <2>1 DEF Orderly
  <2>2. CASE l = key /\ m \in DOMAIN decs
    BY <1>3, <1>4, <2>2
  <2>3. CASE m = key /\ l \in DOMAIN decs
    BY <1>3, <1>4, <2>3
  <2> QED BY <2>1, <2>2, <2>3
<1>5. Orderly(more)
  BY <1>2, <1>4 DEF Orderly
<1>6. ASSUME NEW k, Status(k, more) \in LiveStatuses
      PROVE  Status(k, decs) \in LiveStatuses
  BY <1>1, <1>5, <1>6, StandingIs
<1> QED BY <1>5, <1>6

-----------------------------------------------------------------------------
(* The chain of an account's rows.                                         *)
Filed(rows) ==
    /\ IsFiniteSet(DOMAIN rows) /\ DOMAIN rows \subseteq DOMAIN Rows \cup NewRows
    /\ \A t \in DOMAIN rows :
          rows[t] \in [account : Accounts, at : Nat, before : Int, after : Int]
    /\ \A t \in DOMAIN rows \cap DOMAIN Rows : rows[t] = Rows[t]

LEMMA ChainIsOrdered ==
    ASSUME Filed(ledger)
    PROVE  /\ NoRow \notin DOMAIN ledger
           /\ \A s, t \in DOMAIN ledger : s = t \/ Precedes(s, t) \/ Precedes(t, s)
           /\ \A s, t \in DOMAIN ledger : Precedes(s, t) => ~Precedes(t, s) /\ s # t
           /\ \A s, t, q \in DOMAIN ledger : Precedes(s, t) /\ Precedes(t, q) => Precedes(s, q)
<1>1. \A t \in DOMAIN ledger : t \in Nat /\ ledger[t].at \in Nat /\ t # NoRow
  BY RowsAssumption DEF Filed
<1> QED BY <1>1 DEF Precedes

LEMMA LatestRow ==
    ASSUME Filed(ledger), NEW S, S \subseteq DOMAIN ledger, S # {}
    PROVE  \E m \in S : \A q \in S \ {m} : Precedes(q, m)
<1> DEFINE R == {pair \in S \X S : Precedes(pair[1], pair[2]) \/ pair[1] = pair[2]}
<1>1. \A s, t \in S : <<s, t>> \in R <=> Precedes(s, t) \/ s = t
  OBVIOUS
<1> HIDE DEF R
<1>2. \A s, t \in S : <<s, t>> \in R \/ <<t, s>> \in R
  BY <1>1, ChainIsOrdered
<1>3. \A s, t, q \in S : <<s, t>> \in R /\ <<t, q>> \in R => <<s, q>> \in R
  BY <1>1, ChainIsOrdered
<1>4. IsFiniteSet(S)
  BY FS_Subset DEF Filed
<1>5. \E m \in S : \A q \in S : <<q, m>> \in R
  BY <1>2, <1>3, <1>4, Greatest
<1> QED BY <1>1, <1>5

Earlier(t) == {s \in RowsOf(ledger[t].account) : Precedes(s, t)}

LEMMA PreviousIs ==
    ASSUME Filed(ledger), NEW t \in DOMAIN ledger
    PROVE  /\ Earlier(t) = {} => Previous(t) = NoRow
           /\ Earlier(t) # {} => /\ Previous(t) \in Earlier(t)
                                 /\ \A q \in Earlier(t) \ {Previous(t)} : Precedes(q, Previous(t))
<1>1. Previous(t) = IF Earlier(t) = {} THEN NoRow
                    ELSE CHOOSE s \in Earlier(t) : \A q \in Earlier(t) \ {s} : Precedes(q, s)
  BY DEF Previous, Earlier
<1>2. ASSUME Earlier(t) # {}
      PROVE  \E s \in Earlier(t) : \A q \in Earlier(t) \ {s} : Precedes(q, s)
  <2>1. Earlier(t) \subseteq DOMAIN ledger
    BY DEF Earlier, RowsOf
  <2> QED BY <1>2, <2>1, LatestRow
<1> HIDE DEF Earlier
<1> QED BY <1>1, <1>2

\* The row that precedes the other earlier ones is the previous one.
LEMMA PreviousUnique ==
    ASSUME Filed(ledger), NEW t \in DOMAIN ledger, NEW s \in Earlier(t),
           \A q \in Earlier(t) \ {s} : Precedes(q, s)
    PROVE  Previous(t) = s
<1>1. Earlier(t) \subseteq DOMAIN ledger
  BY DEF Earlier, RowsOf
<1>2. /\ Previous(t) \in Earlier(t)
      /\ \A q \in Earlier(t) \ {Previous(t)} : Precedes(q, Previous(t))
  BY PreviousIs
<1> QED BY <1>1, <1>2, ChainIsOrdered
-----------------------------------------------------------------------------
(* The invariant.                                                          *)
\* What a record says of the ledger it was derived from.
Sound(e, rows) ==
    /\ e \in Evidences
    /\ e.anchor \in DOMAIN rows /\ e.account = rows[e.anchor].account
    /\ e.predecessor # NoRow =>
          e.predecessor \in DOMAIN rows /\ rows[e.predecessor].account = e.account
    /\ e.missing = Audits[e.audit].missing /\ e.order = Audits[e.audit].order
    /\ e.amount = Audits[e.audit].amount

\* The records that explain one gap supersede each other in one chain, whose
\* root is the only one of its gap, its row and its audit.
Chained(recs) ==
    /\ \A k \in DOMAIN recs : recs[k].supersedes # None =>
          /\ recs[k].supersedes \in DOMAIN recs
          /\ SameEvidence(recs[recs[k].supersedes].evidence, recs[k].evidence)
    /\ \A k, l \in DOMAIN recs :
          recs[k].supersedes # None /\ recs[k].supersedes = recs[l].supersedes => k = l
    /\ \A k \in DOMAIN recs : \E l \in DOMAIN recs :
          recs[l].supersedes = None /\ SameEvidence(recs[l].evidence, recs[k].evidence)
    /\ \A k, l \in DOMAIN recs :
          k # l /\ recs[k].supersedes = None /\ recs[l].supersedes = None =>
             /\ recs[k].evidence.anchor # recs[l].evidence.anchor
             /\ recs[k].evidence.missing # recs[l].evidence.missing
             /\ recs[k].evidence.audit # recs[l].evidence.audit

RecordsSound(recs, rows) ==
    /\ IsFiniteSet(DOMAIN recs) /\ DOMAIN recs \subseteq KeysOf("proposal")
    /\ \A k \in DOMAIN recs : Sound(recs[k].evidence, rows) /\ recs[k].by \in Users
    /\ Chained(recs)

\* Two live records explain nothing in common.
Disjoint(recs, decs) ==
    \A k, l \in DOMAIN recs :
       k # l /\ Status(k, decs) \in LiveStatuses /\ Status(l, decs) \in LiveStatuses =>
          ~Overlap(recs[k].evidence, recs[l].evidence)

DecisionsSound(decs, recs) ==
    /\ Orderly(decs) /\ DOMAIN decs \subseteq KeysOf("decision")
    /\ \A d \in DOMAIN decs :
          /\ decs[d].record \in DOMAIN recs
          /\ decs[d].kind # "REVOKED" => decs[d].revokes = None

-----------------------------------------------------------------------------
(* The two reports agree.                                                  *)
LEMMA BreaksAreInts ==
    ASSUME Filed(ledger), NEW t \in DOMAIN ledger
    PROVE  /\ BalanceAfter(Previous(t)) \in Int /\ Break(t) \in Int
           /\ Delta(ledger[t]) \in Int /\ BalanceAfter(t) = ledger[t].after
<1>1. \A s \in DOMAIN ledger : ledger[s].before \in Int /\ ledger[s].after \in Int
  BY DEF Filed
<1>2. Previous(t) = NoRow \/ Previous(t) \in DOMAIN ledger
  BY PreviousIs DEF Earlier, RowsOf
<1>3. BalanceAfter(Previous(t)) \in Int
  BY <1>1, <1>2 DEF BalanceAfter
<1>4. BalanceAfter(t) = ledger[t].after
  BY ChainIsOrdered DEF BalanceAfter
<1> QED BY <1>1, <1>3, <1>4 DEF Break, Delta

LEMMA EndIs ==
    ASSUME Filed(ledger), NEW S, S \subseteq DOMAIN ledger, S # {}
    PROVE  LET m == CHOOSE t \in S : \A s \in S \ {t} : Precedes(s, t)
           IN  m \in S /\ \A s \in S \ {m} : Precedes(s, m)
BY LatestRow

LEMMA BreaksTelescope ==
    ASSUME Filed(ledger), NEW a
    PROVE  SumFunctionOnSet([t \in DOMAIN ledger |-> Break(t) + Delta(ledger[t])], RowsOf(a))
              = BalanceAfter(Last(a))
<1> DEFINE f == [t \in DOMAIN ledger |-> Break(t) + Delta(ledger[t])]
           Initial(s) == \A t \in s : Earlier(t) \subseteq s
           End(s) == IF s = {} THEN NoRow ELSE CHOOSE t \in s : \A q \in s \ {t} : Precedes(q, t)
           Good == {s \in SUBSET RowsOf(a) :
                       Initial(s) => SumFunctionOnSet(f, s) = BalanceAfter(End(s))}
<1>0. RowsOf(a) \subseteq DOMAIN ledger /\ IsFiniteSet(RowsOf(a))
  BY FS_Subset DEF RowsOf, Filed
<1>1. ASSUME NEW s \in SUBSET RowsOf(a), \A x \in s : s \ {x} \in Good
      PROVE  s \in Good
  <2>1. SUFFICES ASSUME Initial(s) PROVE SumFunctionOnSet(f, s) = BalanceAfter(End(s))
    OBVIOUS
  <2>2. CASE s = {}
    BY <2>2, SumOfNone DEF BalanceAfter
  <2>3. CASE s # {}
    <3> DEFINE m == End(s)
               rest == s \ {m}
    <3>1. m \in s /\ \A q \in rest : Precedes(q, m)
      BY <1>0, <2>3, EndIs
    <3> HIDE DEF m
    <3>2. m \in DOMAIN ledger /\ rest \subseteq DOMAIN ledger /\ ledger[m].account = a
      BY <1>0, <3>1 DEF RowsOf
    <3>3. Earlier(m) = rest
      <4>1. Earlier(m) \subseteq rest
        BY <2>1, <3>1, <3>2, ChainIsOrdered DEF Earlier, RowsOf
      <4>2. rest \subseteq Earlier(m)
        BY <3>1, <3>2 DEF Earlier
      <4> QED BY <4>1, <4>2
    <3>4. Initial(rest)
      <4> SUFFICES ASSUME NEW t \in rest PROVE Earlier(t) \subseteq rest
        OBVIOUS
      <4>1. Earlier(t) \subseteq s
        BY <2>1
      <4>2. m \notin Earlier(t)
        BY <3>1, <3>2, ChainIsOrdered DEF Earlier
      <4> QED BY <4>1, <4>2
    <3>5. Previous(m) = End(rest)
      <4>1. Previous(m) = IF Earlier(m) = {} THEN NoRow
                          ELSE CHOOSE t \in Earlier(m) : \A q \in Earlier(m) \ {t} : Precedes(q, t)
        BY DEF Previous, Earlier
      <4> HIDE DEF rest
      <4> QED BY <3>3, <4>1
    <3>6. SumFunctionOnSet(f, rest) = BalanceAfter(Previous(m))
      BY <1>1, <3>1, <3>4, <3>5
    <3>7. Summable(f, s)
      <4>1. \A t \in s : f[t] \in Int
        BY <1>0, BreaksAreInts
      <4> QED BY <1>0, <4>1, FS_Subset DEF Summable
    <3>8. SumFunctionOnSet(f, s) = f[m] + SumFunctionOnSet(f, rest)
      <4> HIDE DEF f
      <4> QED BY <3>1, <3>7, SumTakes
    <3>9. f[m] = ledger[m].before - BalanceAfter(Previous(m)) + ledger[m].after - ledger[m].before
      <4>1. f[m] = Break(m) + Delta(ledger[m])
        BY <3>2
      <4>2. ledger[m].before \in Int /\ ledger[m].after \in Int /\ BalanceAfter(Previous(m)) \in Int
        BY <3>2, BreaksAreInts DEF Filed
      <4> QED BY <4>1, <4>2 DEF Break, Delta
    <3>10. ledger[m].before \in Int /\ ledger[m].after \in Int /\ BalanceAfter(Previous(m)) \in Int
      BY <3>2, BreaksAreInts DEF Filed
    <3>11. BalanceAfter(m) = ledger[m].after
      BY <3>2, BreaksAreInts
    <3>12. SumFunctionOnSet(f, s) = BalanceAfter(m)
      BY <3>6, <3>8, <3>9, <3>10, <3>11
    <3> QED BY <3>12 DEF m
  <2> QED BY <2>2, <2>3
<1>2. \A s \in SUBSET RowsOf(a) : (\A x \in s : s \ {x} \in Good) => s \in Good
  BY <1>1
<1>3. RowsOf(a) \in Good
  <2> HIDE DEF Good
  <2>1. \A s \in SUBSET RowsOf(a) : s \in Good
    BY <1>0, <1>2, SetInduction
  <2> QED BY <2>1
<1>4. Initial(RowsOf(a))
  BY DEF Earlier, RowsOf
<1>5. End(RowsOf(a)) = Last(a)
  BY DEF Last
<1> QED BY <1>3, <1>4, <1>5

\* A record that counts explains exactly the break before its anchor.
LEMMA EvidenceExplains ==
    ASSUME Filed(ledger), NEW e, Sound(e, ledger), JumpStands(e), OrderProvable(e), NothingBetween(e)
    PROVE  Previous(e.anchor) = e.predecessor /\ Break(e.anchor) = e.amount
<1> DEFINE t == e.anchor
           s == e.predecessor
<1>0. /\ t \in DOMAIN ledger /\ ledger[t].account = e.account
      /\ \A q \in RowsOf(e.account) : q \in DOMAIN ledger /\ ledger[q].at \in Nat
      /\ ledger[t].at \in Nat /\ NoRow \notin RowsOf(e.account)
  BY ChainIsOrdered DEF Sound, RowsOf, Filed
<1>1. \A q \in RowsOf(e.account) : q # t /\ q # s => ledger[q].at # ledger[t].at
  BY <1>0 DEF OrderProvable, StampShared
<1>2. \A q \in Earlier(t) : q \in RowsOf(e.account) /\ q # t /\ (q # s => ledger[q].at < ledger[t].at)
  BY <1>0, <1>1, ChainIsOrdered DEF Earlier, Precedes
<1>3. CASE s = NoRow
  <2>1. \A q \in RowsOf(e.account) : ~(ledger[q].at < ledger[t].at)
    BY <1>3 DEF NothingBetween
  <2>2. Earlier(t) = {}
    BY <1>0, <1>2, <1>3, <2>1
  <2> QED BY <1>0, <1>3, <2>2, PreviousIs DEF JumpStands, Break
<1>4. CASE s # NoRow
  <2>1. s \in RowsOf(e.account) /\ ledger[s].account = e.account
    BY <1>4 DEF Sound, RowsOf
  <2>2. ledger[s].at < ledger[t].at
    BY <1>0, <1>4, <2>1 DEF NothingBetween, OrderProvable
  <2>3. s \in Earlier(t)
    BY <1>0, <2>1, <2>2 DEF Earlier, Precedes
  <2>4. \A q \in RowsOf(e.account) : q # s /\ q # t => ledger[q].at # ledger[s].at
    BY <1>4, <2>1 DEF OrderProvable, StampShared
  <2>5. \A q \in RowsOf(e.account) : ledger[q].at < ledger[t].at => ledger[q].at <= ledger[s].at
    BY <1>4 DEF NothingBetween
  <2>6. \A q \in Earlier(t) \ {s} : Precedes(q, s)
    BY <1>0, <1>2, <2>1, <2>4, <2>5 DEF Precedes
  <2>7. Previous(t) = s
    BY <1>0, <2>3, <2>6, PreviousUnique
  <2> QED BY <2>7 DEF JumpStands, Break
<1> QED BY <1>3, <1>4

Counting == {k \in DOMAIN records : Contributes(k, records, decisions)}

LEMMA CountingIs ==
    ASSUME Filed(ledger), RecordsSound(records, ledger), DecisionsSound(decisions, records),
           Disjoint(records, decisions)
    PROVE  /\ IsFiniteSet(Counting) /\ Counting \subseteq DOMAIN records
           /\ \A k \in Counting :
                 /\ EvidenceValid(k, records, decisions) /\ Open(k)
                 /\ Break(records[k].evidence.anchor) = records[k].evidence.amount
                 /\ records[k].evidence.amount \in Int
           /\ \A k, l \in Counting : k # l => ~Overlap(records[k].evidence, records[l].evidence)
<1>1. IsFiniteSet(Counting) /\ Counting \subseteq DOMAIN records
  BY FS_Subset DEF Counting, RecordsSound
<1>2. \A k \in Counting : EvidenceValid(k, records, decisions) /\ Open(k)
  BY DEF Counting, Contributes, Open, LiveStatuses
<1>3. ASSUME NEW k \in Counting
      PROVE  Break(records[k].evidence.anchor) = records[k].evidence.amount
  <2>1. Sound(records[k].evidence, ledger)
    BY <1>1 DEF RecordsSound
  <2> QED BY <1>2, <2>1, EvidenceExplains DEF EvidenceValid
<1>4. \A k \in Counting : records[k].evidence.amount \in Int
  BY <1>1 DEF RecordsSound, Sound, Evidences
<1> QED BY <1>1, <1>2, <1>3, <1>4 DEF Disjoint, Open

LEMMA ResidualAgrees ==
    ASSUME Filed(ledger), RecordsSound(records, ledger), DecisionsSound(decisions, records),
           Disjoint(records, decisions), balance \in [Accounts -> Int]
    PROVE  ResidualIsTheBreaks
<1> SUFFICES ASSUME NEW a \in Accounts
             PROVE  Residual(a) = SumFunctionOnSet([t \in DOMAIN ledger |-> Break(t)],
                                      {t \in RowsOf(a) : ~Explained(t)})
                                     + balance[a] - BalanceAfter(Last(a))
  BY DEF ResidualIsTheBreaks
<1> DEFINE breaks == [t \in DOMAIN ledger |-> Break(t)]
           deltas == [t \in DOMAIN ledger |-> Delta(ledger[t])]
           both == [t \in DOMAIN ledger |-> Break(t) + Delta(ledger[t])]
           amounts == [k \in DOMAIN records |-> records[k].evidence.amount]
           anchors == [k \in DOMAIN records |-> records[k].evidence.anchor]
           mine == {k \in DOMAIN records : records[k].evidence.account = a
                                             /\ Contributes(k, records, decisions)}
           explained == {t \in RowsOf(a) : Explained(t)}
           rows == RowsOf(a)
<1>1. rows \subseteq DOMAIN ledger /\ IsFiniteSet(rows)
  BY FS_Subset DEF RowsOf, Filed
<1>2. /\ \A t \in rows : breaks[t] \in Int /\ deltas[t] \in Int /\ both[t] = breaks[t] + deltas[t]
      /\ \A t \in DOMAIN ledger : breaks[t] = Break(t)
  BY <1>1, BreaksAreInts
<1>3. /\ mine \subseteq Counting /\ IsFiniteSet(mine)
      /\ \A k \in mine : k \in DOMAIN records /\ amounts[k] \in Int /\ anchors[k] \in DOMAIN ledger
                         /\ breaks[anchors[k]] = amounts[k]
  <2>1. mine \subseteq Counting
    BY DEF Counting
  <2>2. \A k \in DOMAIN records : records[k].evidence.anchor \in DOMAIN ledger
    BY DEF RecordsSound, Sound
  <2> QED BY <2>1, <2>2, CountingIs, FS_Subset
<1>4. \A k, l \in mine : anchors[k] = anchors[l] => k = l
  BY <1>3, CountingIs DEF Overlap
<1>5. {anchors[k] : k \in mine} = explained
  <2>1. \A k \in DOMAIN records : records[k].evidence.anchor \in DOMAIN ledger
           /\ ledger[records[k].evidence.anchor].account = records[k].evidence.account
    BY DEF RecordsSound, Sound
  <2>2. \A k \in mine : anchors[k] \in explained
    BY <2>1 DEF RowsOf, Explained
  <2>3. \A t \in explained : \E k \in mine : anchors[k] = t
    BY <2>1 DEF RowsOf, Explained
  <2> QED BY <2>2, <2>3
<1>6. /\ Residual(a) = balance[a] - SumFunctionOnSet(deltas, rows) - SumFunctionOnSet(amounts, mine)
      /\ SumFunctionOnSet(both, rows) = BalanceAfter(Last(a))
      /\ balance[a] \in Int
  BY BreaksTelescope DEF Residual, LedgerNet, ApprovedAmount
<1>7. {t \in RowsOf(a) : ~Explained(t)} = rows \ explained
  OBVIOUS
<1>8. explained \in SUBSET rows
  OBVIOUS
<1> HIDE DEF breaks, deltas, both, amounts, anchors, mine, explained, rows
<1>9. Summable(breaks, rows) /\ Summable(deltas, rows) /\ Summable(amounts, mine)
  BY <1>1, <1>2, <1>3 DEF Summable
<1>10. SumFunctionOnSet(amounts, mine) = SumFunctionOnSet(breaks, explained)
  BY <1>3, <1>4, <1>5, <1>9, SumRenamed
<1>11. SumFunctionOnSet(breaks, rows)
          = SumFunctionOnSet(breaks, explained) + SumFunctionOnSet(breaks, rows \ explained)
  BY <1>8, <1>9, SumSplits
<1>12. SumFunctionOnSet(both, rows) = SumFunctionOnSet(breaks, rows) + SumFunctionOnSet(deltas, rows)
  BY <1>2, <1>9, SumsAdd
<1>13. /\ SumFunctionOnSet(breaks, explained) \in Int /\ SumFunctionOnSet(breaks, rows \ explained) \in Int
       /\ SumFunctionOnSet(deltas, rows) \in Int
  <2>1. Summable(breaks, explained) /\ Summable(breaks, rows \ explained)
    BY <1>8, <1>9, FS_Subset DEF Summable
  <2> QED BY <1>9, <2>1, SumIsInt
<1>14. Residual(a) = SumFunctionOnSet(breaks, rows \ explained) + balance[a] - BalanceAfter(Last(a))
  BY <1>6, <1>10, <1>11, <1>12, <1>13
<1> QED BY <1>7, <1>14 DEF breaks

-----------------------------------------------------------------------------
(* What a passing gate says of the lost rows.                              *)
\* The rows that were ever posted; the balance of an account counts them all.
Posted(rows) == DOMAIN rows \cup DOMAIN Rows
Full(rows) == [t \in Posted(rows) |-> IF t \in DOMAIN rows THEN rows[t] ELSE Rows[t]]
BooksBalance(rows, held) ==
    \A a \in Accounts :
       held[a] = SumFunctionOnSet([t \in Posted(rows) |-> Delta(Full(rows)[t])],
                                  {t \in Posted(rows) : Full(rows)[t].account = a})

LEMMA PostedIs ==
    ASSUME Filed(ledger)
    PROVE  /\ IsFiniteSet(Posted(ledger))
           /\ \A t \in Posted(ledger) : /\ Full(ledger)[t] \in [account : Accounts, at : Nat, before : Int, after : Int]
                                /\ Delta(Full(ledger)[t]) \in Int
           /\ \A t \in DOMAIN Rows : Full(ledger)[t] = Rows[t]
           /\ \A t \in DOMAIN ledger : Full(ledger)[t] = ledger[t]
<1>1. IsFiniteSet(Posted(ledger))
  BY RowsAssumption, FS_Union DEF Filed, Posted
<1>2. /\ \A t \in DOMAIN Rows : Full(ledger)[t] = Rows[t]
      /\ \A t \in DOMAIN ledger : Full(ledger)[t] = ledger[t]
  BY DEF Filed, Full, Posted
<1>3. \A t \in Posted(ledger) : Full(ledger)[t] \in [account : Accounts, at : Nat, before : Int, after : Int]
  BY <1>2, RowsAssumption DEF Filed, Posted
<1>4. \A t \in Posted(ledger) : Delta(Full(ledger)[t]) \in Int
  BY <1>3 DEF Delta
<1> QED BY <1>1, <1>2, <1>3, <1>4

LEMMA GateExplainsLosses ==
    ASSUME Filed(ledger), RecordsSound(records, ledger), DecisionsSound(decisions, records),
           Disjoint(records, decisions), balance \in [Accounts -> Int],
           BooksBalance(ledger, balance), ResidualGatePasses, OnlyCollectionsLost, NEW t \in DOMAIN Rows \ DOMAIN ledger
    PROVE  Cardinality({k \in DOMAIN records :
              records[k].evidence.missing = t /\ Contributes(k, records, decisions)}) = 1
<1> DEFINE lost == DOMAIN Rows \ DOMAIN ledger
           f == [q \in Posted(ledger) |-> Delta(Full(ledger)[q])]
           deltas == [q \in DOMAIN ledger |-> Delta(ledger[q])]
           amounts == [k \in DOMAIN records |-> records[k].evidence.amount]
           owner == [q \in Posted(ledger) |-> Full(ledger)[q].account]
           charged == [k \in DOMAIN records |-> records[k].evidence.account]
           missing == [k \in DOMAIN records |-> records[k].evidence.missing]
           found == {missing[k] : k \in Counting}
<1>1. /\ lost \subseteq Posted(ledger) /\ IsFiniteSet(lost) /\ IsFiniteSet(Posted(ledger))
      /\ \A q \in Posted(ledger) : f[q] \in Int /\ owner[q] \in Accounts
      /\ \A q \in lost : f[q] > 0
  <2>1. \A q \in lost : f[q] = Delta(Rows[q])
    BY PostedIs DEF Posted
  <2>2. \A q \in Posted(ledger) : Full(ledger)[q].account \in Accounts
    BY PostedIs
  <2> QED BY <2>1, <2>2, PostedIs, FS_Subset DEF OnlyCollectionsLost, Posted
<1>2. /\ IsFiniteSet(Counting) /\ Counting \subseteq DOMAIN records
      /\ \A k \in Counting : amounts[k] \in Int /\ charged[k] \in Accounts
  <2>1. \A k \in DOMAIN records : records[k].evidence.account \in Accounts
    BY DEF RecordsSound, Sound, Evidences
  <2> QED BY <2>1, CountingIs
<1>3. \A k \in Counting : missing[k] \in lost /\ f[missing[k]] = amounts[k]
  <2>1. \A k \in Counting : missing[k] \notin DOMAIN ledger
    BY CountingIs DEF EvidenceValid, StillUnresolved
  <2>2. ASSUME NEW k \in Counting
        PROVE  missing[k] \in DOMAIN Rows /\ Delta(Rows[missing[k]]) = amounts[k]
    <3>1. Sound(records[k].evidence, ledger) /\ records[k].evidence.audit \in DOMAIN Audits
      BY <1>2 DEF RecordsSound, Sound, Evidences
    <3> QED BY <1>2, <3>1, AuditsAssumption DEF Sound
  <2> QED BY <2>1, <2>2, PostedIs DEF Posted
<1>4. \A k, l \in Counting : missing[k] = missing[l] => k = l
  BY CountingIs DEF Overlap
<1>5. ASSUME NEW a \in Accounts
      PROVE  SumFunctionOnSet(f, {q \in lost : owner[q] = a})
                = SumFunctionOnSet(amounts, {k \in Counting : charged[k] = a})
  <2> DEFINE all == {q \in Posted(ledger) : Full(ledger)[q].account = a}
             there == RowsOf(a)
  <2>1. /\ there \in SUBSET all /\ all \ there = {q \in lost : owner[q] = a}
        /\ \A q \in there : q \in DOMAIN ledger /\ f[q] = deltas[q]
    BY PostedIs DEF RowsOf, Posted
  <2>2. {k \in Counting : charged[k] = a}
           = {k \in DOMAIN records : records[k].evidence.account = a
                                       /\ Contributes(k, records, decisions)}
    BY DEF Counting
  <2>3. balance[a] = SumFunctionOnSet(f, all) /\ balance[a] \in Int
    BY DEF BooksBalance
  <2>4. balance[a] - SumFunctionOnSet(deltas, there)
           - SumFunctionOnSet(amounts, {k \in Counting : charged[k] = a}) = 0
    BY <2>2 DEF ResidualGatePasses, Residual, LedgerNet, ApprovedAmount
  <2>5. Summable(f, all) /\ Summable(f, there) /\ Summable(f, all \ there)
    <3>1. all \subseteq Posted(ledger)
      OBVIOUS
    <3> QED BY <1>1, <2>1, <3>1, FS_Subset DEF Summable
  <2>6. Summable(amounts, {k \in Counting : charged[k] = a})
    BY <1>2, FS_Subset DEF Summable
  <2> HIDE DEF f, deltas, amounts, all, there, owner, charged, lost
  <2>7. SumFunctionOnSet(f, there) = SumFunctionOnSet(deltas, there)
    BY <2>1, <2>5, SumsAgree
  <2>8. SumFunctionOnSet(f, all) = SumFunctionOnSet(f, there) + SumFunctionOnSet(f, all \ there)
    BY <2>1, <2>5, SumSplits
  <2>9. /\ SumFunctionOnSet(f, there) \in Int /\ SumFunctionOnSet(f, all \ there) \in Int
        /\ SumFunctionOnSet(amounts, {k \in Counting : charged[k] = a}) \in Int
    BY <2>5, <2>6, SumIsInt
  <2>10. SumFunctionOnSet(f, all \ there)
            = SumFunctionOnSet(amounts, {k \in Counting : charged[k] = a})
    BY <2>3, <2>4, <2>7, <2>8, <2>9
  <2> QED BY <2>1, <2>10
<1>6. IsFiniteSet(Accounts)
  BY RowsAssumption
<1>7. \A k \in Counting : k \in DOMAIN records /\ missing[k] = records[k].evidence.missing
  BY <1>2
<1>8. t \in lost
  OBVIOUS
<1> HIDE DEF lost, f, deltas, amounts, owner, charged, missing
<1>9. Summable(f, lost) /\ Summable(amounts, Counting)
  BY <1>1, <1>2 DEF Summable
<1>10. SumFunctionOnSet(f, lost) = SumFunctionOnSet(amounts, Counting)
  BY <1>1, <1>2, <1>5, <1>6, <1>9, SumByClass
<1>11. SumFunctionOnSet(amounts, Counting) = SumFunctionOnSet(f, found)
  BY <1>3, <1>4, <1>9, SumRenamed
<1>12. lost \ found = {}
  <2>1. found \in SUBSET lost
    BY <1>3
  <2> HIDE DEF found
  <2>2. SumFunctionOnSet(f, lost) = SumFunctionOnSet(f, found) + SumFunctionOnSet(f, lost \ found)
    BY <1>9, <2>1, SumSplits
  <2>3. Summable(f, found) /\ Summable(f, lost \ found)
    BY <1>9, <2>1, FS_Subset DEF Summable
  <2>4. SumFunctionOnSet(f, found) \in Int /\ SumFunctionOnSet(f, lost \ found) \in Int
    BY <2>3, SumIsInt
  <2>5. SumFunctionOnSet(f, lost \ found) = 0
    BY <1>10, <1>11, <2>2, <2>4
  <2>6. \A q \in lost \ found : f[q] > 0
    BY <1>1
  <2> QED BY <2>3, <2>5, <2>6, SumOfPositives
<1>13. PICK k \in Counting : missing[k] = t
  BY <1>8, <1>12
<1> DEFINE S == {l \in DOMAIN records :
                    records[l].evidence.missing = t /\ Contributes(l, records, decisions)}
<1>14. S = {k}
  <2>1. \A l \in S : l \in Counting /\ missing[l] = t
    <3>1. \A l \in S : l \in Counting
      BY DEF Counting
    <3> QED BY <1>7, <3>1
  <2>2. k \in S
    BY <1>7, <1>13 DEF Counting
  <2> QED BY <1>4, <1>13, <2>1, <2>2
<1> QED BY <1>14, FS_Singleton

-----------------------------------------------------------------------------
(* Requests in flight.                                                     *)
AskSound(ask, rows, recs) ==
    /\ ask.by \in Users /\ ask.raw \in RawKeys
    /\ ask.op \in {"PROPOSED"} \cup DOMAIN DecisionRole
    /\ ask.op = "PROPOSED" =>
          ask.anchor \in DOMAIN rows /\ ask.audit \in DOMAIN Audits /\ ask.incident \in Nat
    /\ ask.op # "PROPOSED" => ask.record \in DOMAIN recs

PlanSound(ask, plan, rows, recs, decs) ==
    /\ ask.op = "PROPOSED" =>
          /\ Sound(plan.evidence, rows)
          /\ plan.supersedes # None =>
                /\ plan.supersedes \in DOMAIN recs
                /\ SameEvidence(recs[plan.supersedes].evidence, plan.evidence)
    /\ ask.op = "REVOKED" =>
          /\ plan.revokes \in DecisionsOn(ask.record, decs)
          /\ decs[plan.revokes].kind = "APPROVED"
    /\ ask.op \in Outcomes => plan.revokes = None

RequestSound(w, rows, recs, decs) ==
    \/ w.pc = "idle" /\ w.answer \in {"NONE", "DONE", "REUSED", "CONFLICT"}
    \/ w.pc = "asked" /\ AskSound(w.ask, rows, recs)
    \/ /\ w.pc = "locked" /\ AskSound(w.ask, rows, recs)
       /\ RequestKey(w.ask) \notin DOMAIN recs \cup DOMAIN decs
       /\ PlanSound(w.ask, w.plan, rows, recs, decs)

Serving(served, rows, recs, decs) ==
    /\ DOMAIN served = Procs
    /\ \A p \in Procs : RequestSound(served[p], rows, recs, decs)
    /\ \A p, q \in Procs :
          p # q /\ served[p].pc = "locked" /\ served[q].pc = "locked" =>
             RequestKey(served[p].ask) # RequestKey(served[q].ask)

Elsewhere ==
    /\ balance \in [Accounts -> Int]
    /\ orders \subseteq AuditedOrders /\ resolved \subseteq AuditedOrders
    /\ role \in [Users -> {"ADMIN", "FINANCE"}]
    /\ incidents \in Nat

ReconInv ==
    /\ Filed(ledger) /\ BooksBalance(ledger, balance) /\ Elsewhere
    /\ RecordsSound(records, ledger) /\ DecisionsSound(decisions, records)
    /\ Disjoint(records, decisions) /\ Serving(proc, ledger, records, decisions)

LEMMA SoundStays ==
    ASSUME NEW rows, NEW more, Kept(rows, more), NEW e, Sound(e, rows)
    PROVE  Sound(e, more)
BY DEF Kept, Sound

LEMMA RequestStays ==
    ASSUME NEW rows, NEW recs, NEW decs, NEW rows2, NEW recs2, NEW decs2,
           Kept(rows, rows2), Kept(recs, recs2), Kept(decs, decs2),
           NEW w, RequestSound(w, rows, recs, decs),
           w.pc = "locked" => RequestKey(w.ask) \notin DOMAIN recs2 \cup DOMAIN decs2
    PROVE  RequestSound(w, rows2, recs2, decs2)
<1>1. AskSound(w.ask, rows, recs) => AskSound(w.ask, rows2, recs2)
  BY DEF AskSound, Kept
<1>2. PlanSound(w.ask, w.plan, rows, recs, decs) => PlanSound(w.ask, w.plan, rows2, recs2, decs2)
  <2> SUFFICES ASSUME PlanSound(w.ask, w.plan, rows, recs, decs)
               PROVE  PlanSound(w.ask, w.plan, rows2, recs2, decs2)
    OBVIOUS
  <2>1. w.ask.op = "PROPOSED" => Sound(w.plan.evidence, rows2)
    BY SoundStays DEF PlanSound
  <2>2. \A k \in DOMAIN recs : k \in DOMAIN recs2 /\ recs2[k] = recs[k]
    BY DEF Kept
  <2>3. \A d \in DOMAIN decs : d \in DOMAIN decs2 /\ decs2[d] = decs[d]
    BY DEF Kept
  <2> QED BY <2>1, <2>2, <2>3 DEF PlanSound, DecisionsOn
<1> QED BY <1>1, <1>2 DEF RequestSound

\* A step keeps the other requests in order if it only adds what its own
\* locked request stood for.
LEMMA ServiceStep ==
    ASSUME Serving(proc, ledger, records, decisions), NEW p \in Procs,
           NEW w, proc' = [proc EXCEPT ![p] = w],
           Kept(ledger, ledger'), Kept(records, records'), Kept(decisions, decisions'),
           \/ /\ proc[p].pc = "locked"
              /\ DOMAIN records' \cup DOMAIN decisions'
                    \subseteq DOMAIN records \cup DOMAIN decisions \cup {RequestKey(proc[p].ask)}
           \/ DOMAIN records' \cup DOMAIN decisions' \subseteq DOMAIN records \cup DOMAIN decisions,
           RequestSound(w, ledger', records', decisions'),
           w.pc = "locked" =>
              \A q \in Procs : proc[q].pc = "locked" => RequestKey(proc[q].ask) # RequestKey(w.ask)
    PROVE  Serving(proc', ledger', records', decisions')
<1>1. DOMAIN proc' = Procs /\ proc'[p] = w /\ \A q \in Procs \ {p} : proc'[q] = proc[q]
  BY DEF Serving
<1>2. ASSUME NEW q \in Procs
      PROVE  RequestSound(proc'[q], ledger', records', decisions')
  <2>1. CASE q = p
    BY <1>1, <2>1
  <2>2. CASE q # p
    <3>1. RequestSound(proc[q], ledger, records, decisions)
      BY DEF Serving
    <3>2. proc[q].pc = "locked" =>
             RequestKey(proc[q].ask) \notin DOMAIN records' \cup DOMAIN decisions'
      <4>1. proc[q].pc = "locked" =>
               RequestKey(proc[q].ask) \notin DOMAIN records \cup DOMAIN decisions
        BY <3>1 DEF RequestSound
      <4>2. proc[q].pc = "locked" /\ proc[p].pc = "locked" =>
               RequestKey(proc[q].ask) # RequestKey(proc[p].ask)
        BY <2>2 DEF Serving
      <4> QED BY <4>1, <4>2
    <3> QED BY <1>1, <2>2, <3>1, <3>2, RequestStays
  <2> QED BY <2>1, <2>2
<1>3. ASSUME NEW q \in Procs, NEW r \in Procs, q # r, proc'[q].pc = "locked", proc'[r].pc = "locked"
      PROVE  RequestKey(proc'[q].ask) # RequestKey(proc'[r].ask)
  <2>1. CASE q # p /\ r # p
    BY <1>1, <1>3, <2>1 DEF Serving
  <2>2. CASE q = p \/ r = p
    BY <1>1, <1>3, <2>2
  <2> QED BY <2>1, <2>2
<1> QED BY <1>1, <1>2, <1>3 DEF Serving

\* The registers stand while rows are added to the ledger.
LEMMA RowsAdded ==
    ASSUME RecordsSound(records, ledger), Serving(proc, ledger, records, decisions),
           Kept(ledger, ledger'), UNCHANGED <<records, decisions, proc>>
    PROVE  RecordsSound(records', ledger') /\ Serving(proc', ledger', records', decisions')
<1>1. RecordsSound(records, ledger')
  BY SoundStays DEF RecordsSound
<1>2. Kept(records, records) /\ Kept(decisions, decisions)
  BY DEF Kept
<1>3. ASSUME NEW p \in Procs
      PROVE  RequestSound(proc[p], ledger', records, decisions)
  <2>1. RequestSound(proc[p], ledger, records, decisions)
    BY DEF Serving
  <2>2. proc[p].pc = "locked" => RequestKey(proc[p].ask) \notin DOMAIN records \cup DOMAIN decisions
    BY <2>1 DEF RequestSound
  <2> QED BY <1>2, <2>1, <2>2, RequestStays
<1> QED BY <1>1, <1>3 DEF Serving

-----------------------------------------------------------------------------
(* Steps that write nothing but the request itself.                        *)
Registers == <<ledger, balance, orders, resolved, role, incidents, records, decisions>>

LEMMA SameRegisters ==
    ASSUME ReconInv, UNCHANGED Registers, NEW p \in Procs, NEW w, proc' = [proc EXCEPT ![p] = w],
           RequestSound(w, ledger, records, decisions),
           w.pc = "locked" =>
              \A q \in Procs : proc[q].pc = "locked" => RequestKey(proc[q].ask) # RequestKey(w.ask)
    PROVE  ReconInv'
<1>1. /\ ledger' = ledger /\ balance' = balance /\ orders' = orders /\ resolved' = resolved
      /\ role' = role /\ incidents' = incidents /\ records' = records /\ decisions' = decisions
  BY DEF Registers
<1>2. Kept(ledger, ledger') /\ Kept(records, records') /\ Kept(decisions, decisions')
  BY <1>1 DEF Kept
<1>3. Serving(proc', ledger', records', decisions')
  BY <1>1, <1>2, ServiceStep DEF ReconInv
<1> QED BY <1>1, <1>3 DEF ReconInv, Elsewhere

LEMMA AskInv ==
    ASSUME ReconInv, NEW p \in Procs, Ask(p)
    PROVE  ReconInv'
<1>1. UNCHANGED Registers
  BY DEF Ask, Registers
<1>2. PICK u \in Users :
         \E ask \in (IF role[u] = "ADMIN" THEN ProposalAsks(u) ELSE {}) \cup DecisionAsks(u) :
            proc' = [proc EXCEPT ![p] = [pc |-> "asked", ask |-> ask]]
  BY DEF Ask
<1>3. PICK ask \in ProposalAsks(u) \cup DecisionAsks(u) :
         proc' = [proc EXCEPT ![p] = [pc |-> "asked", ask |-> ask]]
  BY <1>2
<1>4. AskSound(ask, ledger, records)
  <2>1. CASE ask \in ProposalAsks(u)
    <3>1. incidents \in Nat
      BY DEF ReconInv, Elsewhere
    <3> QED BY <2>1, <3>1 DEF ProposalAsks, AskSound
  <2>2. CASE ask \in DecisionAsks(u)
    <3>1. ask.op \in DOMAIN DecisionRole /\ ask.by \in Users /\ ask.raw \in RawKeys
          /\ ask.record \in DOMAIN records
      BY <2>2 DEF DecisionAsks
    <3>2. ask.op # "PROPOSED"
      BY <3>1 DEF DecisionRole
    <3> QED BY <3>1, <3>2 DEF AskSound
  <2> QED BY <2>1, <2>2
<1> DEFINE w == [pc |-> "asked", ask |-> ask]
<1>5. RequestSound(w, ledger, records, decisions) /\ w.pc # "locked"
  <2>1. w.pc = "asked" /\ w.ask = ask
    OBVIOUS
  <2> HIDE DEF w
  <2> QED BY <1>4, <2>1 DEF RequestSound
<1> HIDE DEF w
<1>6. proc' = [proc EXCEPT ![p] = w]
  BY <1>3 DEF w
<1> QED BY <1>1, <1>5, <1>6, SameRegisters

LEMMA AnswerInv ==
    ASSUME ReconInv, NEW p \in Procs, NEW answer \in {"NONE", "DONE", "REUSED", "CONFLICT"},
           Answer(p, answer)
    PROVE  ReconInv'
<1>1. UNCHANGED Registers /\ proc' = [proc EXCEPT ![p] = Rested(answer)]
  BY DEF Answer, Registers
<1>2. RequestSound(Rested(answer), ledger, records, decisions) /\ Rested(answer).pc # "locked"
  BY DEF RequestSound, Rested
<1> QED BY <1>1, <1>2, SameRegisters

LEMMA ReplayedInv ==
    ASSUME ReconInv, NEW p \in Procs, Replay(p)
    PROVE  ReconInv'
<1>1. PICK answer \in {"DONE", "REUSED"} : Answer(p, answer)
  BY DEF Replay
<1> QED BY <1>1, AnswerInv

LEMMA LockedInv ==
    ASSUME ReconInv, NEW p \in Procs, proc[p].pc = "asked", LocksFree(proc[p].ask),
           ~Stands(proc[p].ask), NEW a, NEW plan,
           PlanSound(proc[p].ask, plan, ledger, records, decisions),
           Locked(p, a, plan), UNCHANGED Registers
    PROVE  ReconInv'
<1> DEFINE w == [pc |-> "locked", ask |-> proc[p].ask, account |-> a, plan |-> plan]
<1>1. proc' = [proc EXCEPT ![p] = w]
  BY DEF Locked
<1>2. AskSound(proc[p].ask, ledger, records)
  BY DEF ReconInv, Serving, RequestSound
<1>3. w.pc = "locked" /\ w.ask = proc[p].ask /\ w.plan = plan
  OBVIOUS
<1> HIDE DEF w
<1>4. RequestSound(w, ledger, records, decisions)
  BY <1>2, <1>3 DEF RequestSound, Stands
<1>5. \A q \in Procs : proc[q].pc = "locked" => RequestKey(proc[q].ask) # RequestKey(w.ask)
  BY <1>3 DEF LocksFree
<1> QED BY <1>1, <1>4, <1>5, SameRegisters

-----------------------------------------------------------------------------
(* Proposing.                                                              *)
LEMMA DerivedSound ==
    ASSUME ReconInv, NEW ask, AskSound(ask, ledger, records), ask.op = "PROPOSED"
    PROVE  Sound(Derived(ask), ledger)
<1> DEFINE e == Derived(ask)
           audit == Audits[ask.audit]
<1>1. /\ ask.anchor \in DOMAIN ledger /\ ask.audit \in DOMAIN Audits /\ ask.incident \in Nat
      /\ Filed(ledger)
  BY DEF AskSound, ReconInv
<1>2. Previous(ask.anchor) # NoRow =>
         Previous(ask.anchor) \in DOMAIN ledger
         /\ ledger[Previous(ask.anchor)].account = ledger[ask.anchor].account
  BY <1>1, PreviousIs DEF Earlier, RowsOf
<1>3. /\ ledger[ask.anchor].account \in Accounts
      /\ ask.anchor \in DOMAIN Rows \cup NewRows
      /\ Previous(ask.anchor) \in DOMAIN Rows \cup NewRows \cup {NoRow}
  BY <1>1, <1>2 DEF Filed
<1>4. audit.missing \in DOMAIN Rows /\ audit.order \in AuditedOrders /\ audit.amount \in Int
  BY <1>1, AuditsAssumption, RowsAssumption DEF AuditedOrders, Delta
<1>5. e = [incident |-> ask.incident, account |-> ledger[ask.anchor].account,
           anchor |-> ask.anchor, predecessor |-> Previous(ask.anchor),
           missing |-> audit.missing, audit |-> ask.audit, order |-> audit.order,
           amount |-> audit.amount]
  BY DEF Derived
<1> HIDE DEF e
<1>6. e \in Evidences
  BY <1>1, <1>3, <1>4, <1>5 DEF Evidences
<1>7. /\ e.anchor = ask.anchor /\ e.account = ledger[ask.anchor].account
      /\ e.predecessor = Previous(ask.anchor) /\ e.missing = audit.missing
      /\ e.audit = ask.audit /\ e.order = audit.order /\ e.amount = audit.amount
  BY <1>5
<1>8. Sound(e, ledger)
  BY <1>1, <1>2, <1>6, <1>7 DEF Sound
<1> QED BY <1>8 DEF e

\* The chain of a gap has a head.
LEMMA ChainHasHead ==
    ASSUME RecordsSound(records, ledger), NEW e, Chain(e) # {},
           \A k \in Chain(e) : SameEvidence(records[k].evidence, e)
    PROVE  Head(e) \in Chain(e)
<1> DEFINE S == Chain(e)
           heads == S \ {records[k].supersedes : k \in S}
<1>1. /\ S \subseteq DOMAIN records /\ IsFiniteSet(S) /\ None \notin S
      /\ \A k \in S : SameEvidence(records[k].evidence, e)
      /\ \A k \in DOMAIN records : SameEvidence(records[k].evidence, e) => k \in S
  <2>1. None \notin DOMAIN records
    BY PeopleAssumption DEF RecordsSound, KeysOf
  <2>2. \A k \in DOMAIN records : SameEvidence(records[k].evidence, e) => k \in S
    BY DEF Chain, SameEvidence, Overlap
  <2> QED BY <2>1, <2>2, FS_Subset DEF RecordsSound, Chain
<1>s. Chained(records)
  BY DEF RecordsSound
<1>2. PICK root \in S : records[root].supersedes = None
  <2>1. PICK k \in S : TRUE
    OBVIOUS
  <2>2. PICK l \in DOMAIN records :
           records[l].supersedes = None /\ SameEvidence(records[l].evidence, records[k].evidence)
    BY <1>1, <1>s, <2>1 DEF Chained
  <2>3. SameEvidence(records[l].evidence, e)
    BY <1>1, <2>1, <2>2 DEF SameEvidence
  <2> QED BY <1>1, <2>2, <2>3
<1>3. heads # {}
  <2> DEFINE T == S \ {root}
             f == [k \in T |-> records[k].supersedes]
  <2>1. SUFFICES ASSUME heads = {} PROVE FALSE
    OBVIOUS
  <2>2. \A k \in T : records[k].supersedes \in S
    <3>1. \A k \in T : records[k].supersedes # None
      BY <1>1, <1>2, <1>s DEF Chained, SameEvidence
    <3>2. \A k \in T : /\ records[k].supersedes \in DOMAIN records
                       /\ SameEvidence(records[records[k].supersedes].evidence, e)
      BY <1>1, <1>s, <3>1 DEF Chained, SameEvidence
    <3> QED BY <1>1, <3>2
  <2>3. \A l \in S : \E k \in T : records[k].supersedes = l
    <3> TAKE l \in S
    <3>1. PICK k \in S : records[k].supersedes = l
      BY <2>1
    <3> QED BY <1>1, <1>2, <3>1
  <2>4. f \in Surjection(T, S)
    BY <2>2, <2>3 DEF Surjection
  <2>5. IsFiniteSet(T) /\ Cardinality(T) = Cardinality(S) - 1
    BY <1>1, FS_RemoveElement
  <2>6. Cardinality(S) \in Nat
    BY <1>1, FS_CardinalityType
  <2>7. Cardinality(S) <= Cardinality(T)
    <3> HIDE DEF f, T, S
    <3> QED BY <2>4, <2>5, FS_Surjection
  <2> HIDE DEF T, S
  <2> QED BY <2>5, <2>6, <2>7
<1>4. Head(e) = CHOOSE k \in heads : TRUE
  BY <1>3 DEF Head
<1> QED BY <1>3, <1>4

LEMMA CheckProposalInv ==
    ASSUME ReconInv, NEW p \in Procs, CheckProposal(p)
    PROVE  ReconInv'
<1> DEFINE ask == proc[p].ask
           e == Derived(ask)
           plan == [evidence |-> e, supersedes |-> Head(e)]
<1>0. proc[p].pc = "asked" /\ ask.op = "PROPOSED" /\ LocksFree(ask)
  BY DEF CheckProposal
<1>1. AskSound(ask, ledger, records)
  BY <1>0 DEF ReconInv, Serving, RequestSound
<1>2. Sound(e, ledger)
  BY <1>0, <1>1, DerivedSound
<1>3. ASSUME ~Refusable(e), Chain(e) # {}
      PROVE  /\ Head(e) \in Chain(e) /\ Closed(Head(e))
             /\ SameEvidence(records[Head(e)].evidence, e)
  <2>1. \A k \in Chain(e) : SameEvidence(records[k].evidence, e) /\ ~Open(k)
    BY <1>3 DEF Refusable
  <2>2. Head(e) \in Chain(e)
    BY <1>3, <2>1, ChainHasHead DEF ReconInv
  <2>3. Status(Head(e), decisions) \notin LiveStatuses
    BY <2>1, <2>2 DEF Open
  <2>4. \E d \in DecisionsOn(Head(e), decisions) : decisions[d].kind # "APPROVED"
    BY <2>3, StandingIs DEF ReconInv, DecisionsSound
  <2>5. Head(e) # None
    BY <2>2, PeopleAssumption DEF Chain, ReconInv, RecordsSound, KeysOf
  <2> QED BY <2>1, <2>2, <2>4, <2>5 DEF Closed
<1>4. CASE Replay(p)
  BY <1>4, ReplayedInv
<1>5. CASE Answer(p, "CONFLICT")
  BY <1>5, AnswerInv
<1>6. CASE /\ ~Stands(ask) /\ ~Refusable(e) /\ Locked(p, e.account, plan)
           /\ UNCHANGED <<ledger, balance, orders, resolved, role, incidents, records, decisions, asks, changes>>
  <2>1. Head(e) # None => Head(e) \in DOMAIN records /\ SameEvidence(records[Head(e)].evidence, e)
    <3>1. CASE Chain(e) = {}
      BY <3>1 DEF Head
    <3>2. CASE Chain(e) # {}
      BY <1>3, <1>6, <3>2 DEF Chain
    <3> QED BY <3>1, <3>2
  <2>2. plan.evidence = e /\ plan.supersedes = Head(e)
    OBVIOUS
  <2>3. PlanSound(ask, plan, ledger, records, decisions)
    <3> HIDE DEF plan, e
    <3> QED BY <1>0, <1>2, <2>1, <2>2 DEF PlanSound, Outcomes
  <2>4. UNCHANGED Registers
    BY <1>6 DEF Registers
  <2> QED BY <1>0, <1>6, <2>3, <2>4, LockedInv
<1> QED BY <1>3, <1>4, <1>5, <1>6 DEF CheckProposal

LEMMA RequestLocked ==
    ASSUME ReconInv, NEW p \in Procs, proc[p].pc = "locked"
    PROVE  /\ AskSound(proc[p].ask, ledger, records)
           /\ RequestKey(proc[p].ask) \notin DOMAIN records \cup DOMAIN decisions
           /\ PlanSound(proc[p].ask, proc[p].plan, ledger, records, decisions)
BY DEF ReconInv, Serving, RequestSound

\* What the unique indexes and the check of the stored record leave possible.
LEMMA RecordAdded ==
    ASSUME RecordsSound(records, ledger), DecisionsSound(decisions, records),
           Disjoint(records, decisions), NEW key, key \notin DOMAIN records,
           NEW r, Sound(r.evidence, ledger),
           r.supersedes # None =>
              /\ r.supersedes \in DOMAIN records
              /\ SameEvidence(records[r.supersedes].evidence, r.evidence),
           RootsUnique(r), SupersededOnce(r),
           NEW recs, DOMAIN recs = DOMAIN records \cup {key}, recs[key] = r,
           \A k \in DOMAIN records : recs[k] = records[k],
           OnlyExplanation(key, recs, decisions)
    PROVE  Chained(recs) /\ Disjoint(recs, decisions)
<1> DEFINE e == r.evidence
<1>c. Chained(records)
  BY DEF RecordsSound
<1>1. \A k \in DOMAIN records : k # key /\ k \in DOMAIN recs /\ recs[k] = records[k]
  OBVIOUS
<1>2. \A k \in DOMAIN recs : recs[k].supersedes # None =>
         /\ recs[k].supersedes \in DOMAIN recs
         /\ SameEvidence(recs[recs[k].supersedes].evidence, recs[k].evidence)
  <2> SUFFICES ASSUME NEW k \in DOMAIN recs, recs[k].supersedes # None
               PROVE  /\ recs[k].supersedes \in DOMAIN recs
                      /\ SameEvidence(recs[recs[k].supersedes].evidence, recs[k].evidence)
    OBVIOUS
  <2>1. CASE k = key
    BY <1>1, <2>1
  <2>2. CASE k \in DOMAIN records
    BY <1>1, <1>c, <2>2 DEF Chained
  <2> QED BY <2>1, <2>2
<1>3. ASSUME NEW k \in DOMAIN recs, NEW l \in DOMAIN recs, recs[k].supersedes # None,
             recs[k].supersedes = recs[l].supersedes
      PROVE  k = l
  <2>1. \A m \in DOMAIN records : r.supersedes # None => records[m].supersedes # r.supersedes
    BY DEF SupersededOnce
  <2> QED BY <1>1, <1>3, <1>c, <2>1 DEF Chained
<1>4. ASSUME NEW k \in DOMAIN recs
      PROVE  \E l \in DOMAIN recs :
                recs[l].supersedes = None /\ SameEvidence(recs[l].evidence, recs[k].evidence)
  <2>1. CASE k \in DOMAIN records
    BY <1>1, <1>c, <2>1 DEF Chained
  <2>2. CASE k = key /\ r.supersedes = None
    BY <2>2 DEF SameEvidence
  <2>3. CASE k = key /\ r.supersedes # None
    <3>1. PICK l \in DOMAIN records : /\ records[l].supersedes = None
             /\ SameEvidence(records[l].evidence, records[r.supersedes].evidence)
      BY <1>c, <2>3 DEF Chained
    <3>2. SameEvidence(records[l].evidence, r.evidence)
      BY <2>3, <3>1 DEF SameEvidence
    <3> QED BY <1>1, <2>3, <3>1, <3>2
  <2> QED BY <2>1, <2>2, <2>3
<1>5. ASSUME NEW k \in DOMAIN recs, NEW l \in DOMAIN recs, k # l, recs[k].supersedes = None,
             recs[l].supersedes = None
      PROVE  /\ recs[k].evidence.anchor # recs[l].evidence.anchor
             /\ recs[k].evidence.missing # recs[l].evidence.missing
             /\ recs[k].evidence.audit # recs[l].evidence.audit
  <2>1. CASE k # key /\ l # key
    BY <1>1, <1>5, <1>c, <2>1 DEF Chained
  <2>2. CASE k = key \/ l = key
    BY <1>1, <1>5, <2>2 DEF RootsUnique
  <2> QED BY <2>1, <2>2
<1>6. Chained(recs)
  BY <1>2, <1>3, <1>4, <1>5 DEF Chained
<1>7. \A k \in DOMAIN recs : Sound(recs[k].evidence, ledger)
  BY <1>1 DEF RecordsSound
<1>8. ASSUME NEW k \in DOMAIN recs, NEW l \in DOMAIN recs, Overlap(recs[k].evidence, recs[l].evidence)
      PROVE  recs[k].evidence.account = recs[l].evidence.account
  <2>1. PICK m \in DOMAIN recs :
           recs[m].supersedes = None /\ SameEvidence(recs[m].evidence, recs[k].evidence)
    BY <1>6 DEF Chained
  <2>2. PICK n \in DOMAIN recs :
           recs[n].supersedes = None /\ SameEvidence(recs[n].evidence, recs[l].evidence)
    BY <1>6 DEF Chained
  <2>3. recs[k].evidence.order = recs[l].evidence.order
           => recs[k].evidence.missing = recs[l].evidence.missing
    BY <1>7, AuditsAssumption DEF Sound, Evidences
  <2>4. m = n
    BY <1>6, <1>8, <2>1, <2>2, <2>3 DEF Chained, SameEvidence, Overlap
  <2> QED BY <2>1, <2>2, <2>4 DEF SameEvidence
<1>9. ASSUME NEW k \in DOMAIN recs \ {key}, Status(k, decisions) \in LiveStatuses
      PROVE  ~Overlap(recs[key].evidence, recs[k].evidence)
  BY <1>8, <1>9 DEF OnlyExplanation
<1>10. Disjoint(recs, decisions)
  <2> SUFFICES ASSUME NEW k \in DOMAIN recs, NEW l \in DOMAIN recs, k # l,
                      Status(k, decisions) \in LiveStatuses, Status(l, decisions) \in LiveStatuses
               PROVE  ~Overlap(recs[k].evidence, recs[l].evidence)
    BY DEF Disjoint
  <2>1. CASE k # key /\ l # key
    BY <1>1, <2>1 DEF Disjoint
  <2>2. CASE k = key
    BY <1>9, <2>2
  <2>3. CASE l = key
    <3>1. ~Overlap(recs[l].evidence, recs[k].evidence)
      BY <1>9, <2>3
    <3> QED BY <3>1 DEF Overlap
  <2> QED BY <2>1, <2>2, <2>3
<1> QED BY <1>6, <1>10

LEMMA InsertProposalInv ==
    ASSUME ReconInv, NEW p \in Procs, InsertProposal(p)
    PROVE  ReconInv'
<1> DEFINE ask == proc[p].ask
           e == proc[p].plan.evidence
           new == ask.incident = 0
           key == RequestKey(ask)
           r == [evidence |-> [e EXCEPT !.incident = IF new THEN incidents + 1 ELSE @],
                 by |-> ask.by, supersedes |-> proc[p].plan.supersedes, recordedIncident |-> new]
           recs == [k \in DOMAIN records \cup {key} |-> IF k = key THEN r ELSE records[k]]
<1>0. proc[p].pc = "locked" /\ ask.op = "PROPOSED"
  BY DEF InsertProposal
<1>1. CASE Answer(p, "CONFLICT")
  BY <1>1, AnswerInv
<1>2. CASE /\ RootsUnique(r) /\ SupersededOnce(r) /\ EvidenceValid(key, recs, decisions)
           /\ records' = recs /\ incidents' = IF new THEN incidents + 1 ELSE incidents
           /\ proc' = [proc EXCEPT ![p] = Rested("DONE")]
           /\ UNCHANGED <<ledger, balance, orders, resolved, role, decisions, asks, changes>>
  <2>1. /\ AskSound(ask, ledger, records) /\ key \notin DOMAIN records \cup DOMAIN decisions
        /\ Sound(e, ledger)
        /\ proc[p].plan.supersedes # None =>
              /\ proc[p].plan.supersedes \in DOMAIN records
              /\ SameEvidence(records[proc[p].plan.supersedes].evidence, e)
    BY <1>0, RequestLocked DEF PlanSound
  <2>2. incidents \in Nat
    BY DEF ReconInv, Elsewhere
  <2>3. /\ r.evidence \in Evidences /\ r.by = ask.by /\ r.supersedes = proc[p].plan.supersedes
        /\ r.evidence.account = e.account /\ r.evidence.anchor = e.anchor
        /\ r.evidence.predecessor = e.predecessor /\ r.evidence.missing = e.missing
        /\ r.evidence.audit = e.audit /\ r.evidence.order = e.order /\ r.evidence.amount = e.amount
    <3>1. e \in Evidences
      BY <2>1 DEF Sound
    <3> QED BY <2>2, <3>1 DEF Evidences
  <2>4. key = <<"proposal", ask.by, ask.raw>> /\ ask.by \in Users /\ ask.raw \in RawKeys
    BY <1>0, <2>1 DEF RequestKey, AskSound
  <2>5. /\ DOMAIN recs = DOMAIN records \cup {key} /\ recs[key] = r
        /\ \A k \in DOMAIN records : recs[k] = records[k]
    BY <2>1
  <2> HIDE DEF r, recs
  <2>6. Sound(r.evidence, ledger)
    BY <2>1, <2>3 DEF Sound
  <2>7. r.supersedes # None => /\ r.supersedes \in DOMAIN records
                               /\ SameEvidence(records[r.supersedes].evidence, r.evidence)
    BY <2>1, <2>3 DEF SameEvidence
  <2>8. Chained(recs) /\ Disjoint(recs, decisions)
    <3>1. OnlyExplanation(key, recs, decisions)
      BY <1>2 DEF EvidenceValid
    <3> HIDE DEF key
    <3> QED BY <1>2, <2>1, <2>5, <2>6, <2>7, <3>1, RecordAdded DEF ReconInv
  <2>9. RecordsSound(recs, ledger)
    <3>1. IsFiniteSet(DOMAIN recs)
      <4> HIDE DEF key
      <4> QED BY <2>5, FS_AddElement DEF ReconInv, RecordsSound
    <3>2. DOMAIN recs \subseteq KeysOf("proposal")
      BY <2>4, <2>5 DEF ReconInv, RecordsSound, KeysOf
    <3>3. \A k \in DOMAIN recs : Sound(recs[k].evidence, ledger) /\ recs[k].by \in Users
      BY <2>3, <2>4, <2>5, <2>6 DEF ReconInv, RecordsSound
    <3> QED BY <2>8, <3>1, <3>2, <3>3 DEF RecordsSound
  <2>10. DecisionsSound(decisions, recs)
    BY <2>5 DEF ReconInv, DecisionsSound
  <2>11. Serving(proc', ledger', records', decisions')
    <3>1. Kept(ledger, ledger') /\ Kept(records, records') /\ Kept(decisions, decisions')
      BY <1>2, <2>5 DEF Kept
    <3>2. DOMAIN records' \cup DOMAIN decisions'
             \subseteq DOMAIN records \cup DOMAIN decisions \cup {RequestKey(proc[p].ask)}
      BY <1>2, <2>5
    <3>3. RequestSound(Rested("DONE"), ledger', records', decisions') /\ Rested("DONE").pc # "locked"
      BY DEF RequestSound, Rested
    <3> QED BY <1>0, <1>2, <3>1, <3>2, <3>3, ServiceStep DEF ReconInv
  <2>12. Elsewhere'
    BY <1>2, <2>2 DEF ReconInv, Elsewhere
  <2>13. Filed(ledger') /\ BooksBalance(ledger', balance')
    BY <1>2 DEF ReconInv
  <2> QED BY <1>2, <2>8, <2>9, <2>10, <2>11, <2>12, <2>13 DEF ReconInv
<1> QED BY <1>1, <1>2 DEF InsertProposal

-----------------------------------------------------------------------------
(* Deciding.                                                               *)
LEMMA CheckDecisionInv ==
    ASSUME ReconInv, NEW p \in Procs, CheckDecision(p)
    PROVE  ReconInv'
<1> DEFINE ask == proc[p].ask
           a == AccountOf(ask)
           plan == [before |-> ApprovedAmount(a, records, decisions),
                    revokes |-> IF ask.op = "REVOKED" THEN Approval(ask.record) ELSE None]
<1>0. proc[p].pc = "asked" /\ ask.op # "PROPOSED" /\ LocksFree(ask)
  BY DEF CheckDecision
<1>1. CASE Replay(p)
  BY <1>1, ReplayedInv
<1>2. CASE Answer(p, "CONFLICT")
  BY <1>2, AnswerInv
<1>3. CASE /\ ~Stands(ask) /\ Allowed(ask) /\ Locked(p, a, plan)
           /\ UNCHANGED <<ledger, balance, orders, resolved, role, incidents, records, decisions, asks, changes>>
  <2>1. ASSUME ask.op = "REVOKED"
        PROVE  /\ Approval(ask.record) \in DecisionsOn(ask.record, decisions)
               /\ decisions[Approval(ask.record)].kind = "APPROVED"
    <3>1. Status(ask.record, decisions) = "APPROVED"
      BY <1>3, <2>1 DEF Allowed, RevocableBy
    <3>2. \E d \in DecisionsOn(ask.record, decisions) : decisions[d].kind = "APPROVED"
      BY <3>1, StandingIs DEF ReconInv, DecisionsSound
    <3> QED BY <3>2 DEF Approval
  <2>2. plan.revokes = IF ask.op = "REVOKED" THEN Approval(ask.record) ELSE None
    OBVIOUS
  <2>3. PlanSound(ask, plan, ledger, records, decisions)
    <3> HIDE DEF plan
    <3> QED BY <1>0, <2>1, <2>2 DEF PlanSound, Outcomes
  <2>4. UNCHANGED Registers
    BY <1>3 DEF Registers
  <2> HIDE DEF plan, a
  <2> QED BY <1>0, <1>3, <2>3, <2>4, LockedInv
<1> QED BY <1>1, <1>2, <1>3 DEF CheckDecision

LEMMA InsertDecisionInv ==
    ASSUME ReconInv, NEW p \in Procs, InsertDecision(p)
    PROVE  ReconInv'
<1> DEFINE ask == proc[p].ask
           key == RequestKey(ask)
           d == [record |-> ask.record, kind |-> ask.op, by |-> ask.by,
                 revokes |-> proc[p].plan.revokes]
           decs == [k \in DOMAIN decisions \cup {key} |-> IF k = key THEN d ELSE decisions[k]]
<1>0. proc[p].pc = "locked" /\ ask.op # "PROPOSED"
  BY DEF InsertDecision
<1>1. CASE Answer(p, "CONFLICT")
  BY <1>1, AnswerInv
<1>2. CASE /\ DecisionFits(d) /\ decisions' = decs
           /\ proc' = [proc EXCEPT ![p] = Rested("DONE")]
           /\ UNCHANGED <<ledger, balance, orders, resolved, role, incidents, records, asks, changes>>
  <2>1. /\ AskSound(ask, ledger, records) /\ key \notin DOMAIN records \cup DOMAIN decisions
        /\ PlanSound(ask, proc[p].plan, ledger, records, decisions)
    BY <1>0, RequestLocked
  <2>2. /\ d.kind \in DOMAIN DecisionRole /\ d.record \in DOMAIN records
        /\ d.kind = "REVOKED" => /\ d.revokes \in DecisionsOn(d.record, decisions)
                                 /\ decisions[d.revokes].kind = "APPROVED"
        /\ d.kind # "REVOKED" => d.revokes = None
    BY <1>0, <2>1 DEF AskSound, PlanSound, Outcomes, DecisionRole
  <2>3. key = <<"decision", ask.by, ask.raw>> /\ ask.by \in Users /\ ask.raw \in RawKeys
    BY <1>0, <2>1 DEF RequestKey, AskSound
  <2>4. /\ DOMAIN decs = DOMAIN decisions \cup {key} /\ decs[key] = d
        /\ \A k \in DOMAIN decisions : decs[k] = decisions[k]
    BY <2>1
  <2> HIDE DEF d, decs
  <2>5. /\ Orderly(decs)
        /\ \A k : Status(k, decs) \in LiveStatuses => Status(k, decisions) \in LiveStatuses
    <3>1. /\ d.kind \in Outcomes =>
                \A l \in DecisionsOn(d.record, decisions) : decisions[l].kind \notin Outcomes
          /\ d.kind = "REVOKED" => \A l \in DOMAIN decisions : decisions[l].revokes # d.revokes
      BY <1>2 DEF DecisionFits
    <3>2. Orderly(decisions) /\ key \notin DOMAIN decisions
      BY <2>1 DEF ReconInv, DecisionsSound
    <3> HIDE DEF key
    <3> QED BY <2>2, <2>4, <3>1, <3>2, DecisionKeepsOrder
  <2>6. DecisionsSound(decs, records)
    <3>1. DOMAIN decs \subseteq KeysOf("decision")
      BY <2>3, <2>4 DEF ReconInv, DecisionsSound, KeysOf
    <3>2. \A l \in DOMAIN decs : /\ decs[l].record \in DOMAIN records
                                 /\ decs[l].kind # "REVOKED" => decs[l].revokes = None
      BY <2>2, <2>4 DEF ReconInv, DecisionsSound
    <3> QED BY <2>5, <3>1, <3>2 DEF DecisionsSound
  <2>7. Disjoint(records, decs)
    BY <2>5 DEF ReconInv, Disjoint
  <2>8. Serving(proc', ledger', records', decisions')
    <3>1. Kept(ledger, ledger') /\ Kept(records, records') /\ Kept(decisions, decisions')
      BY <1>2, <2>4 DEF Kept
    <3>2. DOMAIN records' \cup DOMAIN decisions'
             \subseteq DOMAIN records \cup DOMAIN decisions \cup {RequestKey(proc[p].ask)}
      BY <1>2, <2>4
    <3>3. RequestSound(Rested("DONE"), ledger', records', decisions') /\ Rested("DONE").pc # "locked"
      BY DEF RequestSound, Rested
    <3> QED BY <1>0, <1>2, <3>1, <3>2, <3>3, ServiceStep DEF ReconInv
  <2>9. Elsewhere'
    BY <1>2 DEF ReconInv, Elsewhere
  <2> QED BY <1>2, <2>6, <2>7, <2>8, <2>9 DEF ReconInv
<1> QED BY <1>1, <1>2 DEF InsertDecision

-----------------------------------------------------------------------------
(* What goes on around the requests.                                       *)
LEMMA PostInv ==
    ASSUME ReconInv, NEW a \in Accounts, NEW t \in NewRows, NEW at \in PostTimes, Post(a, t, at)
    PROVE  ReconInv'
<1> DEFINE row == [account |-> a, at |-> at, before |-> balance[a], after |-> balance[a] + 1]
<1>1. t \notin DOMAIN ledger /\ t \notin DOMAIN Rows /\ at \in Nat /\ balance[a] \in Int
      /\ Filed(ledger) /\ balance \in [Accounts -> Int]
  BY RowsAssumption DEF Post, ReconInv, Elsewhere
<1>2. row \in [account : Accounts, at : Nat, before : Int, after : Int]
      /\ row.account = a /\ Delta(row) = 1
  BY <1>1 DEF Delta
<1> HIDE DEF row
<1>3. /\ DOMAIN ledger' = DOMAIN ledger \cup {t} /\ ledger'[t] = row
      /\ \A s \in DOMAIN ledger : ledger'[s] = ledger[s]
  BY <1>1 DEF Post, row
<1>4. Filed(ledger')
  <2>1. IsFiniteSet(DOMAIN ledger')
    BY <1>1, <1>3, FS_AddElement DEF Filed
  <2> QED BY <1>1, <1>2, <1>3, <2>1 DEF Filed
<1>5. balance' \in [Accounts -> Int] /\ \A b \in Accounts : balance'[b] = balance[b] + IF b = a THEN 1 ELSE 0
  BY <1>1 DEF Post
<1>6. BooksBalance(ledger', balance')
  <2> SUFFICES ASSUME NEW b \in Accounts
               PROVE  balance'[b] = SumFunctionOnSet([q \in Posted(ledger') |-> Delta(Full(ledger')[q])],
                                       {q \in Posted(ledger') : Full(ledger')[q].account = b})
    BY DEF BooksBalance
  <2> DEFINE f == [q \in Posted(ledger) |-> Delta(Full(ledger)[q])]
             g == [q \in Posted(ledger') |-> Delta(Full(ledger')[q])]
             S == {q \in Posted(ledger) : Full(ledger)[q].account = b}
             T == {q \in Posted(ledger') : Full(ledger')[q].account = b}
  <2>1. /\ Posted(ledger') = Posted(ledger) \cup {t} /\ t \notin Posted(ledger)
        /\ Full(ledger')[t] = row
        /\ \A q \in Posted(ledger) : Full(ledger')[q] = Full(ledger)[q]
    BY <1>1, <1>3 DEF Posted, Full
  <2>2. Summable(f, S) /\ \A q \in S : g[q] = f[q]
    <3>1. IsFiniteSet(S) /\ \A q \in Posted(ledger) : Delta(Full(ledger)[q]) \in Int
      BY <1>1, PostedIs, FS_Subset
    <3> QED BY <2>1, <3>1 DEF Summable
  <2>3. balance[b] = SumFunctionOnSet(f, S)
    BY DEF ReconInv, BooksBalance
  <2>4. /\ b = a => T = S \cup {t} /\ t \notin S /\ g[t] = 1
        /\ b # a => T = S
    BY <1>2, <2>1
  <2> HIDE DEF f, g, S, T
  <2>5. SumFunctionOnSet(g, S) = SumFunctionOnSet(f, S) /\ SumFunctionOnSet(f, S) \in Int
    BY <2>2, SumsAgree, SumIsInt
  <2>6. CASE b # a
    <3>1. balance'[b] = SumFunctionOnSet(g, T)
      BY <1>5, <2>3, <2>4, <2>5, <2>6
    <3> QED BY <3>1 DEF g, T
  <2>7. CASE b = a
    <3>1. Summable(g, T) /\ t \in T /\ T \ {t} = S
      <4>1. IsFiniteSet(T) /\ \A q \in T : g[q] \in Int
        BY <2>2, <2>4, <2>7, FS_AddElement DEF Summable
      <4> QED BY <2>4, <2>7, <4>1 DEF Summable
    <3>2. SumFunctionOnSet(g, T) = g[t] + SumFunctionOnSet(g, T \ {t})
      BY <3>1, SumTakes
    <3>3. balance'[b] = SumFunctionOnSet(g, T)
      BY <1>5, <2>3, <2>4, <2>5, <2>7, <3>1, <3>2
    <3> QED BY <3>3 DEF g, T
  <2> QED BY <2>6, <2>7
<1>7. Kept(ledger, ledger') /\ UNCHANGED <<orders, resolved, role, incidents, records, decisions, proc>>
  BY <1>3 DEF Kept, Post
<1>8. RecordsSound(records', ledger') /\ Serving(proc', ledger', records', decisions')
  BY <1>7, RowsAdded DEF ReconInv
<1> QED BY <1>4, <1>5, <1>6, <1>7, <1>8 DEF ReconInv, Elsewhere

LEMMA RestoreRowInv ==
    ASSUME ReconInv, NEW t \in DOMAIN Rows, RestoreRow(t)
    PROVE  ReconInv'
<1>1. t \notin DOMAIN ledger /\ Filed(ledger)
  BY DEF RestoreRow, ReconInv
<1>2. /\ DOMAIN ledger' = DOMAIN ledger \cup {t} /\ ledger'[t] = Rows[t]
      /\ \A s \in DOMAIN ledger : ledger'[s] = ledger[s]
  BY <1>1 DEF RestoreRow
<1>3. Filed(ledger')
  <2>1. IsFiniteSet(DOMAIN ledger')
    BY <1>1, <1>2, FS_AddElement DEF Filed
  <2> QED BY <1>1, <1>2, <2>1, RowsAssumption DEF Filed
<1>4. Posted(ledger') = Posted(ledger) /\ Full(ledger') = Full(ledger)
  BY <1>1, <1>2 DEF Posted, Full
<1>5. UNCHANGED <<balance, orders, resolved, role, incidents, records, decisions, proc>>
  BY DEF RestoreRow
<1>6. BooksBalance(ledger', balance')
  BY <1>4, <1>5 DEF ReconInv, BooksBalance
<1>7. Kept(ledger, ledger')
  BY <1>2 DEF Kept
<1>8. RecordsSound(records', ledger') /\ Serving(proc', ledger', records', decisions')
  BY <1>5, <1>7, RowsAdded DEF ReconInv
<1> QED BY <1>3, <1>5, <1>6, <1>8 DEF ReconInv, Elsewhere

LEMMA AsideInv ==
    ASSUME ReconInv, UNCHANGED <<ledger, balance, records, decisions, proc>>, Elsewhere'
    PROVE  ReconInv'
BY DEF ReconInv

LEMMA ReconInitInv == ReconInit => ReconInv
<1> SUFFICES ASSUME ReconInit PROVE ReconInv
  OBVIOUS
<1>1. PICK lost \in Losses : ledger = Restrict(Rows, DOMAIN Rows \ lost)
  BY DEF ReconInit
<1>2. /\ DOMAIN ledger \subseteq DOMAIN Rows /\ \A t \in DOMAIN ledger : ledger[t] = Rows[t]
  BY <1>1 DEF Restrict
<1>3. Filed(ledger)
  BY <1>2, RowsAssumption, FS_Subset DEF Filed
<1>4. Posted(ledger) = DOMAIN Rows /\ \A t \in DOMAIN Rows : Full(ledger)[t] = Rows[t]
  BY <1>2 DEF Posted, Full
<1> DEFINE f == [t \in DOMAIN Rows |-> Delta(Rows[t])]
           Of(a) == {t \in DOMAIN Rows : Rows[t].account = a}
<1>5. balance = [a \in Accounts |-> SumFunctionOnSet(f, Of(a))]
  BY DEF ReconInit
<1>6. \A a \in Accounts : SumFunctionOnSet(f, Of(a)) \in Int
  <2>1. \A a \in Accounts : Summable(f, Of(a))
    BY RowsAssumption, FS_Subset DEF Summable, Delta
  <2> HIDE DEF f, Of
  <2> QED BY <2>1, SumIsInt
<1>7. BooksBalance(ledger, balance)
  <2> SUFFICES ASSUME NEW a \in Accounts
               PROVE  balance[a] = SumFunctionOnSet([t \in Posted(ledger) |-> Delta(Full(ledger)[t])],
                                                {t \in Posted(ledger) : Full(ledger)[t].account = a})
    BY DEF BooksBalance
  <2>1. [t \in Posted(ledger) |-> Delta(Full(ledger)[t])] = f
    BY <1>4
  <2>2. {t \in Posted(ledger) : Full(ledger)[t].account = a} = Of(a)
    BY <1>4
  <2> QED BY <1>5, <2>1, <2>2
<1>8. Elsewhere
  <2>1. balance \in [Accounts -> Int]
    <3> HIDE DEF f, Of
    <3> QED BY <1>5, <1>6
  <2> QED BY <2>1, PeopleAssumption DEF ReconInit, Elsewhere
<1>9. DOMAIN records = {} /\ DOMAIN decisions = {}
  BY DEF ReconInit
<1>10. RecordsSound(records, ledger) /\ DecisionsSound(decisions, records) /\ Disjoint(records, decisions)
  BY <1>9, FS_EmptySet DEF RecordsSound, Chained, DecisionsSound, Orderly, Disjoint
<1>11. Serving(proc, ledger, records, decisions)
  BY DEF ReconInit, Serving, RequestSound, Rested
<1> QED BY <1>3, <1>7, <1>8, <1>10, <1>11 DEF ReconInv

LEMMA ReconNextInv == ReconInv /\ [ReconNext]_reconVars => ReconInv'
<1> SUFFICES ASSUME ReconInv, [ReconNext]_reconVars PROVE ReconInv'
  OBVIOUS
<1>1. CASE UNCHANGED reconVars
  BY <1>1, AsideInv DEF reconVars, ReconInv, Elsewhere
<1>2. ASSUME NEW p \in Procs, Request(p)
      PROVE  ReconInv'
  BY <1>2, AskInv, ReplayedInv, CheckProposalInv, InsertProposalInv, CheckDecisionInv,
     InsertDecisionInv DEF Request, FastReplay
<1>3. ASSUME NEW a \in Accounts, NEW t \in NewRows, NEW at \in PostTimes, Post(a, t, at)
      PROVE  ReconInv'
  BY <1>3, PostInv
<1>4. ASSUME NEW t \in DOMAIN Rows, RestoreRow(t)
      PROVE  ReconInv'
  BY <1>4, RestoreRowInv
<1>5. ASSUME NEW o \in AuditedOrders, RestoreOrder(o) \/ ResolveDifference(o)
      PROVE  ReconInv'
  <2>1. UNCHANGED <<ledger, balance, records, decisions, proc>>
    BY <1>5 DEF RestoreOrder, ResolveDifference
  <2>2. Elsewhere'
    BY <1>5 DEF RestoreOrder, ResolveDifference, ReconInv, Elsewhere
  <2> QED BY <2>1, <2>2, AsideInv
<1>6. ASSUME NEW u \in Users, ChangeRole(u)
      PROVE  ReconInv'
  <2>1. UNCHANGED <<ledger, balance, records, decisions, proc>>
    BY <1>6 DEF ChangeRole
  <2>2. Elsewhere'
    BY <1>6 DEF ChangeRole, ReconInv, Elsewhere
  <2> QED BY <2>1, <2>2, AsideInv
<1> QED BY <1>1, <1>2, <1>3, <1>4, <1>5, <1>6 DEF ReconNext

-----------------------------------------------------------------------------
(* What holds of every behaviour.                                          *)
\* The types of the registers; and no request ends in the internal error kept for
\* a chain of explanations without a head (proposeHistoricalReconciliation :349).
THEOREM ReconTyped == ReconSpec => []ReconTypeOK
<1>1. ASSUME ReconInv PROVE ReconTypeOK
  <2>1. /\ DOMAIN ledger \subseteq DOMAIN Rows \cup NewRows
        /\ \A t \in DOMAIN ledger : ledger[t].account \in Accounts
    BY <1>1 DEF ReconInv, Filed
  <2>2. \A k \in DOMAIN records : /\ records[k].evidence \in Evidences
           /\ records[k].by \in Users /\ records[k].supersedes \in {None} \cup DOMAIN records
    BY <1>1 DEF ReconInv, RecordsSound, Chained, Sound
  <2>3. \A d \in DOMAIN decisions :
           /\ decisions[d].record \in DOMAIN records
           /\ decisions[d].kind \in DOMAIN DecisionRole
           /\ decisions[d].revokes \in {None} \cup DOMAIN decisions
    BY <1>1 DEF ReconInv, DecisionsSound, Orderly, DecisionsOn
  <2>4. \A p \in Procs :
           \/ proc[p].pc = "idle" /\ proc[p].answer \in {"NONE", "DONE", "REUSED", "CONFLICT"}
           \/ proc[p].pc \in {"asked", "locked"}
    BY <1>1 DEF ReconInv, Serving, RequestSound
  <2>5. DOMAIN records \subseteq KeysOf("proposal") /\ DOMAIN decisions \subseteq KeysOf("decision")
    BY <1>1 DEF ReconInv, RecordsSound, DecisionsSound
  <2>6. Elsewhere
    BY <1>1 DEF ReconInv
  <2> QED BY <2>1, <2>2, <2>3, <2>4, <2>5, <2>6 DEF ReconTypeOK, Elsewhere
<1> QED BY <1>1, ReconInitInv, ReconNextInv, PTL DEF ReconSpec

\* Two live records never explain the same gap, row, audit or order, and when the
\* gate of the activation passes, every row still lost is explained by exactly
\* one approved record, for any number of accounts, rows, users and requests.
THEOREM ExplainedOnce == ReconSpec => []OneLiveExplanation
<1>1. ASSUME ReconInv PROVE OneLiveExplanation
  <2>1. \A k, l \in DOMAIN records :
           k # l /\ Open(k) /\ Open(l) => ~Overlap(records[k].evidence, records[l].evidence)
    BY <1>1 DEF ReconInv, Disjoint, Open
  <2>2. ASSUME ResidualGatePasses, OnlyCollectionsLost, NEW t \in DOMAIN Rows \ DOMAIN ledger
        PROVE  Cardinality({k \in DOMAIN records :
                  records[k].evidence.missing = t /\ Contributes(k, records, decisions)}) = 1
    BY <1>1, <2>2, GateExplainsLosses DEF ReconInv, Elsewhere
  <2> QED BY <2>1, <2>2 DEF OneLiveExplanation
<1> QED BY <1>1, ReconInitInv, ReconNextInv, PTL DEF ReconSpec

\* What the residual of an account leaves unexplained is what the breaks of its
\* chain leave unexplained: the two reports of the activation cannot disagree.
THEOREM ReportsAgree == ReconSpec => []ResidualIsTheBreaks
<1>1. ReconInv => ResidualIsTheBreaks
  BY ResidualAgrees DEF ReconInv, Elsewhere
<1> QED BY <1>1, ReconInitInv, ReconNextInv, PTL DEF ReconSpec

=============================================================================
