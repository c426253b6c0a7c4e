SPECIFICATION PartsSpec
CONSTANTS
    t1 = t1
    t2 = t2
    c1 = c1
    None = None
    Users = {u1}
    Sessions = {v1, v2, v3}
    Tabs = {t1, t2}
    Calls = {c1}
    PageOf <- OneCall
    MaxChanges = 1
    NetworkFails = TRUE
    ManagementRoles = {"ADMIN", "FINANCE"}
    Accounts = {v1, v2, v3}
    Updates = {q1, q2, q3}
    Changes <- Losses
    Catalog = {v1, v2, v3, own}
    SelfService = {own}
    Replacements = {q1, q2, q3}
    Absent = Absent
    Customers = {k1, k2}
    Emails = {e1, e2}
    Logins = {v1, v2, v3}
    Requests = {1, 2}
    AtOnce = 2
    Null = Null
SYMMETRY AnyOrder
INVARIANTS
    OneLivePerSignIn
    AdministratorRemains
    NeverMerged
    LoginsAreOwned
CHECK_DEADLOCK FALSE
