SPECIFICATION AccountsPart
CONSTANTS
    t1 = t1
    t2 = t2
    c1 = c1
    None = None
    Users = {u1}
    Sessions = {v1, v2}
    Tabs = {t1, t2}
    Calls = {c1}
    PageOf <- OneCall
    MaxChanges = 1
    NetworkFails = FALSE
    ManagementRoles = {"ADMIN", "FINANCE"}
    Accounts = {v1, v2}
    Updates = {q1, q2, q3}
    Changes <- AlsoPromotions
    Catalog = {own}
    SelfService = {own}
    Replacements = {}
    Absent = Absent
    Customers = {k1}
    Emails = {e1}
    Logins = {v1}
    Requests = {}
    AtOnce = 2
    Null = Null
INVARIANTS
    AdministratorRemains
CHECK_DEADLOCK FALSE
