CONSTANTS
    Metrics = {"pressure", "weather", "stage"}
    Stage = "stage"
    Times = {1, 2, 3}
    Possible <- MCPossible
    Wanted <- MCWanted
    Limit = 2
SPECIFICATION SeriesSpec
INVARIANTS StableMomentsAreJoined ScoredIsNewest
CHECK_DEADLOCK FALSE
