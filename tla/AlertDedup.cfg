SPECIFICATION Spec
CONSTANTS
    x = x
    y = y
    m = m
    n = n
    Assets = {x, y}
    Metrics = {m, n}
    Gap = Gap
    Monitored <- OneAsset
    Lateness = FALSE
    MaxFits = 2
    MaxChanges = 2
    MaxFailures = 1
    MaxTouches = 2
CHECK_DEADLOCK FALSE
INVARIANTS
    OneBaselinePerSeries
    OneOpenAlert
PROPERTIES
    NeverReopened
