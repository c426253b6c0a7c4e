SPECIFICATION FairParts
CONSTANTS
    t1 = t1
    c1 = c1
    c2 = c2
    r1 = r1
    r2 = r2
    r3 = r3
    settle1 = settle1
    short1 = short1
    cash = cash
    remaining = remaining
    lock1 = lock1
    Nothing = Nothing
    Nobody = Nobody
    d1 = d1
    NoRates = NoRates
    NoExpense = NoExpense
    NoVehicle = NoVehicle
    NoDistance = NoDistance
    None = None
    Users = {u1}
    Sessions = {s1, s2}
    Tabs = {t1}
    Calls = {c1, c2}
    PageOf <- BothOfOne
    MaxChanges = 0
    NetworkFails = FALSE
PROPERTIES
    EveryRequestEnds
    EveryTransactionEnds
CHECK_DEADLOCK FALSE
