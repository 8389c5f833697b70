SPECIFICATION FairSpec
CONSTANTS
    x = x
    y = y
    m = m
    n = n
    Assets = {x, y}
    Metrics = {m, n}
    Gap = Gap
    Monitored <- TwoAssets
    Lateness = TRUE
    MaxFits = 2
    MaxChanges = 2
    MaxFailures = 1
    MaxTouches = 1
CHECK_DEADLOCK FALSE
INVARIANTS
    DuplicatesAreRare
PROPERTIES
    DeviationIsAlarmed
