SPECIFICATION PartsSpec
CONSTANTS
    OrderIds = {"o1", "o2", "o3"}
    CustomerIds = {"c1", "c2", "c3"}
    DriverIds = {"d1", "d2", "d3"}
    SettlementIds = {"s1", "s2", "s3", "s4"}
    Catalogues = {"AREAS", "PAYMENT_METHODS"}
    ALL = "ALL"
    None = None
    Asked = Asked
    CustomerOf <- OwnCustomer
    DriverOf <- OwnDriver
    Allocated <- OwnSettlement
    SettledBy <- OwnCash
    QueryRows <- Reads
    MutationRows <- Writes
    QueryTags <- Provides
    MutationTags <- Invalidates
    Cases <- OverlookedCases
    Elsewhere = {}
    LateCommits = FALSE
    d1 = d1
    d2 = d2
    j1 = j1
    r1 = r1
    r2 = r2
    l1 = l1
    l2 = l2
    JobTypes = {"COLLECTION", "DELIVERY"}
    Amounts = {0, 1}
    JobMethods = {m1}
    NoJobMethod = NoJobMethod
    Reasons = {r1, r2}
    NoReason = NoReason
    NotesReasons = {r2}
    JobSlots = {j1}
    MaxJobSteps = 2
    DetailDrivers = {d1, d2}
    NoDetailDriver = NoDetailDriver
    DetailSlots = {l1, l2}
    MaxOtherSteps = 1
    c1 = c1  c2 = c2  a1 = a1  a2 = a2  p1 = p1  p2 = p2  old = old
    k1 = k1  k2 = k2  i1 = i1  i2 = i2  i3 = i3  x1 = x1  t1 = t1  t2 = t2
    m1 = m1  m2 = m2  b1 = b1  api = api  s1 = s1  s2 = s2
    n1 = n1  n2 = n2  n3 = n3  e1 = e1  alt1 = alt1
    Managers = {b1}
    Callers = {}
    Slots = {s1}
    Customers = {c1, c2}
    Areas = {a1, a2}
    Methods = {m1, m2}
    Phones = {p1, p2, old}
    PhoneKeys = {k1, k2}
    LegacyPhones = {old}
    NormalizedPhone <- KeyOfPhone
    NoKey = NoKey  NoReceiver = NoReceiver  NoExtra = NoExtra
    NoMemory = NoMemory  NoMethod = NoMethod  Nobody = Nobody
    NoRequest = NoRequest  NoSeed = NoSeed  NoSlot = NoSlot  NoData = NoData
    NoText = NoExtra  NoCustomer = NoCustomer
    NoDriver = NoDriver  NoOrder = NoOrder
    MoneyMax = 2
    Statuses = {"OUT_FOR_DELIVERY", "DELIVERED", "FAILED_DELIVERY"}
    Moves <- DeliveredOrNot
    StoredOrders <- ThreeRows
    Edits <- FormEdits
    Bodies <- PartialBodies
    Deactivatable = {c2}
    MaxRequests = 2
    Drivers = {}
    Profile <- Profiles
    InitReceivers <- NothingSaved
    FreshPayments <- OneUnpaid
    PaymentEdits = {}
    Typed <- CollectionTyped
    Retirable = {}
    Posts = {t1}
    MaxPages = 1
    MaxAttempts = 2
INVARIANT
    WritesReachTheScreen
CHECK_DEADLOCK FALSE
