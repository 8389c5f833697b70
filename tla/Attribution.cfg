SPECIFICATION FairSpec
CONSTANTS
    r = r
    s = s
    t = t
    a = a
    b = b
    d = d
    u = u
    Requests = {r, s, t}
    Models = {a, b, d, u}
    Kind <- Asked
    Names <- AskedNames
    Saved = {a, b, d}
    Complete = {a, b, d}
    Classifiers = {a, b}
    Certain = 2
    EvenOdds = 0
    None = None
    Retrained = {a}
    MaxRetrains = 1
    MaxRestarts = 1
CHECK_DEADLOCK FALSE
INVARIANTS
    TypeOK
    LoadedOnce
    BufferFitsModel
    VerdictIsRecorded
PROPERTIES
    RequestsEnd
