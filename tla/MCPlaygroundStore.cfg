CONSTANTS
    m1 = m1
    m2 = m2
    m3 = m3
    r1 = r1
    r2 = r2
    r3 = r3
    secret = secret
    Threads = {t1, t2}
    Ids = {m1, m2, m3}
    Routes = {r1, r2, r3, secret}
    Reserved <- MCReserved
    Requests <- MCRequests
    MaxMocks = 2
    HistoryLimit = 2
    MaxRequests = 4
    MaxMishaps = 2
    None = None
    Keep = Keep
    Unknown = Unknown
SPECIFICATION Spec
INVARIANTS
    TypeOK
    RoutesUnique
    AckedKept
    RecentKept
CHECK_DEADLOCK FALSE
SYMMETRY ThreadSymmetry
