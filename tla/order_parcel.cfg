SPECIFICATION OneOrTwo
CONSTANTS
    o1 = o1
    o2 = o2
    Orders = {o1}
    Drivers = {d1, d2}
    NoDriver = NoDriver
    Requests = {r1, r2}
    Amounts = {1}
    IntakeMethods <- Fetched
    Deactivatable = {}
    MaxHistory = 4
    MaxAssignments = 3
SYMMETRY Symmetric
INVARIANTS
    AssignmentsConsistent
    CollectedOnce
PROPERTIES
    CancelNeverStrandsParcel
    ImplementsJourney
CHECK_DEADLOCK FALSE
