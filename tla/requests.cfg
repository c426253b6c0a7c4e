SPECIFICATION PartsSpec
CONSTANTS
    pay1 = pay1
    pay2 = pay2
    wallet = wallet
    lock1 = lock1
    lock2 = lock2
    code1 = code1
    Requests = {r1, r2, r3}
    Keys = {pay1, pay2}
    Locks = {lock1, lock2}
    Funds = {wallet}
    LockOf <- OwnLocks
    OperationOf <- TwoPayouts
    OperationOn <- OneWallet
    MaxAttempts = 2
    MaxAmount = 2
    MaxCredit = 2
    Nothing = Nothing
    Nobody = Nobody
    Kinds = {"proposal", "correction", "reversal"}
    Bodies = {"b1", "b2"}
    Failures = {"refused", "invalid", "server"}
    MaxOpenings = 2
    MaxRequests = 2
    Drivers = {"d1"}
    Releases <- OneCollection
    OwnerOf <- OneOwner
    Differences <- OneCollection
    MaxDue = 2
    MaxLoose = 1
    MaxVisits = 1
    MaxPosts = 2
    Codes = {code1}
    NoCode = NoCode
    MaxSessions = 1
    MaxRuns = 2
    MaxScans = 2
    MaxMoves = 2
SYMMETRY Symmetric
INVARIANTS
    NeverOverdrawn
    OneEffectPerOpening
    OneSettlementPerOpening
    ValidIsAccepted
    PickedUpOncePerAssignment
PROPERTY
    ImplementsOncePerKey
CHECK_DEADLOCK FALSE
