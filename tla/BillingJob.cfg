\* The job beside one request at a time, with more overdue invoices than its
\* page holds; the session and the term are DRAFT, so they can be deleted.
SPECIFICATION FairSpec
CONSTANTS
    t1 = t1
    s1 = s1
    m1 = m1
    Tenants = {t1}
    Sessions = {s1}
    Terms = {m1}
    Invoices = {i1, i2}
    Adjustments = {}
    Workers = {w1}
    TenantOf <- OneTenantOf
    SessionOf <- OneSessionOf
    ActiveSessions = {}
    ActiveTerms = {}
    Price = 1
    DueDays = 0
    GraceDays = 2
    SuspendDays = 3
    JobLimit = 1
    Amounts <- SmallAmounts
    FallbackNumbers = {1}
    MaxStudents = 0
    MaxDay = 3
    MaxFaults = 1
PROPERTIES
    SanctionsHaveCause
    LateTenantsFlagged
