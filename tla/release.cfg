SPECIFICATION PartsSpec
CONSTANTS
    o1 = o1
    o2 = o2
    d1 = d1
    c1 = c1
    Orders = {o1, o2}
    Drivers = {d1}
    Customers = {c1}
    Settlements = {s1, s2}
    Adjustments = {a1, a2}
    Payouts = {p1}
    DriverOf <- SharedDriver
    CustomerOf <- SharedCustomer
    OrderType <- BothTypes
    RemainingOrderAmount <- OrderAmounts
    RemainingDeliveryFee <- Fees
    BalanceLimit = 4
    MaxActual = 2
    MaxManual = 2
SYMMETRY Symmetric
INVARIANTS
    BalancesEqualLedgers
    ReservedCashIsHeld
    AllocationsAgree
    OrderAndReleaseAgree
    NothingLeftPending
PROPERTIES
    ReleasedSettlementsStand
    ImplementsCustody
CHECK_DEADLOCK FALSE
