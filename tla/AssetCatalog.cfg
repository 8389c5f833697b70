CONSTANTS
    Users = {"ann"}
    Organizations = {"plant", "annex"}
    Role = {"admin"}
    Names = {"temp"}
    Payloads <- MCPayloads
    MaxJobs = 3
    Connections = 1
SPECIFICATION FairSpec
INVARIANTS MadeByMembers AddedNamesDiffer TypesAreWhole
PROPERTIES JobsEnd
CHECK_DEADLOCK FALSE
