SPECIFICATION Spec
CONSTANTS
    p = p
    q = q
    a = a
    b = b
    k = k
    Points = {p}
    Contents = {a, b}
    CallerKeys = {k}
    Metrics = {m1}
    NoMetric = NoMetric
    NoKey = NoKey
    Threads = {"loop", "mqtt"}
    Submissions <- RacingSubmissions
    MaxCalls = 3
    MaxMappings = 0
    MaxCrashes = 1
CHECK_DEADLOCK FALSE
INVARIANTS
    TypeOK
    UniqueKeys
    AnsweredMeansStored
    AllOrNothing
    CountsHonest
