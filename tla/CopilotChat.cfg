CONSTANTS
    ann = ann
    bob = bob
    rooftop = rooftop
    panel = panel
    script = script
    Users <- MCUsers
    Assets = {rooftop}
    Clients = {panel, script}
    Scripts = {script}
    UserOf <- MCUserOf
    AssetOf <- MCAssetOf
    MaxTurns = 3
    QuestionSizes = {1}
    AnswerSizes = {1, 3}
    HistoryTokenBudget = 2
    MaxToolIterations = 2
    MaxToolCalls = 1
SPECIFICATION FairSpec
INVARIANTS StoredInPairs ShownIsContinued
PROPERTIES HistoryIsWindow TurnsEnd
CHECK_DEADLOCK FALSE
