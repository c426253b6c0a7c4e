SPECIFICATION PartsSpec
CONSTANTS
    p1 = p1 p2 = p2 u1 = u1 u2 = u2 u3 = u3 u4 = u4
    k0 = k0 k1 = k1 k2 = k2 k3 = k3 a1 = a1 a2 = a2
    o1 = o1 o2 = o2 c1 = c1 r1 = r1 r2 = r2
    None = None NoRecord = NoRecord
    MaxId = 2
    Orders = {1, 2}
    Drivers = {1, 2}
    Customers = {1, 2}
    Keys = {1}
    DriverOf <- OneDriver
    CustomerOf <- CustomersCrossed
    Transactions = {p1, p2}
    MaxCash = 1
    Paths = {"deliver", "settle", "resolve", "resolve_legacy", "void", "reverse_release", "reverse_settlement", "cash", "shortfall", "payout", "propose", "decide", "activate", "deactivate"}
    Procs = {p1, p2}
    Users = {u1, u2, u3}
    RawKeys = {k1, k2}
    Accounts = {a1, a2}
    Rows <- Chains
    Losses <- LostRows
    Audits <- AuditsLeft
    Roles <- ThreePeople
    NewRows = {6}
    PostTimes = {0, 4, 5, 6}
    MaxAsks = 4
    MaxChanges = 1
    Handlers = {p1, p2}
    Staff = {u1, u2, u3, u4}
    ClientKeys = {k3}
    Codes = {c1}
    DeletedOrders = {o1}
    Recons <- TwoRecons
    Givens <- Registers
    MaxRequests = 5
    MaxMoves = 2
SYMMETRY Symmetric
INVARIANTS
    DeadlockFree
    OneLiveExplanation
    ResidualIsTheBreaks
    GateMeansLiability
PROPERTY
    ActivatedClean
CHECK_DEADLOCK FALSE
