SPECIFICATION FairSpec
CONSTANTS
    p = p
    q = q
    a = a
    b = b
    k = k
    Points = {p, q}
    Contents = {a, b}
    CallerKeys = {k}
    Metrics = {m1, m2}
    NoMetric = NoMetric
    NoKey = NoKey
    Threads = {"loop", "mqtt"}
    Submissions <- MappedSubmissions
    MaxCalls = 2
    MaxMappings = 2
    MaxCrashes = 1
CHECK_DEADLOCK FALSE
INVARIANTS
    StampsFromMappings
PROPERTIES
    StampPermanent
    ImplementsLedger
    CallsEnd
