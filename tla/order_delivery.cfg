SPECIFICATION OneOrTwo
CONSTANTS
    o1 = o1
    o2 = o2
    Orders = {o1}
    Drivers = {d1, d2}
    NoDriver = NoDriver
    Requests = {r1, r2}
    Amounts = {1, 2}
    IntakeMethods <- AtCompany
    Deactivatable = {}
    MaxHistory = 8
    MaxAssignments = 3
SYMMETRY Symmetric
INVARIANTS
    HistoryIsAChain
    AttemptsMatchHistory
    DeliveredAmountStands
PROPERTY
    DriverKeepsPossession
CHECK_DEADLOCK FALSE
