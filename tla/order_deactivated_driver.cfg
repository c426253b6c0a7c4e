SPECIFICATION Spec
CONSTANTS
    o1 = o1
    o2 = o2
    Orders = {o1}
    Drivers = {d1}
    NoDriver = NoDriver
    Requests = {r1}
    Amounts = {1}
    IntakeMethods <- AtCompany
    Deactivatable = {d1}
    MaxHistory = 2
    MaxAssignments = 1
PROPERTY
    AssignsOnlyEligible
CHECK_DEADLOCK FALSE
