CONSTANTS
    s1 = s1
    s2 = s2
    s3 = s3
    g1 = g1
    g2 = g2
    MaxSteps = 2
    MaxAssertions = 2
    Draws <- MCDraws
    Threads = {t1, t2}
    Ids = {s1, s2, s3}
    Targets = {g1, g2}
    Files <- MCFiles
    Requests <- MCRequests
    MaxScenarios = 2
    MaxTargets = 2
    MaxDepth = 2
    MaxRequests = 3
    MaxMishaps = 1
    None = None
SPECIFICATION FairSpec
INVARIANTS
    TypeOK
    ReportFits
    AffectedBounded
PROPERTIES
    RequestsEnd
CHECK_DEADLOCK FALSE
