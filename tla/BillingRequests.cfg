\* Two concurrent requests and two adjustments on one tenant's invoice; a
\* statement fails or a request is broken off.
SPECIFICATION RequestsSpec
CONSTANTS
    t1 = t1
    s1 = s1
    m1 = m1
    Tenants = {t1}
    Sessions = {s1}
    Terms = {m1}
    Invoices = {i1}
    Adjustments = {a1, a2}
    Workers = {w1, w2}
    TenantOf <- OneTenantOf
    SessionOf <- OneSessionOf
    ActiveSessions = {s1}
    ActiveTerms = {m1}
    Price = 1
    DueDays = 0
    GraceDays = 1
    SuspendDays = 2
    JobLimit = 100
    Amounts <- SmallAmounts
    FallbackNumbers = {}
    MaxStudents = 1
    MaxDay = 0
    MaxFaults = 1
SYMMETRY Interchangeable
INVARIANTS
    TypeOK
    StampsMatchStatus
    AmountsMatchLedger
    PaidOnce
PROPERTIES
    SettledAmountsFrozen
