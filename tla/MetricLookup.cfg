CONSTANTS
    ann = ann
    bob = bob
    rooftop = rooftop
    panel = panel
    script = script
    Users <- MCUsers
    Assets = {rooftop}
    Clients = {panel, script}
    Scripts = {script}
    UserOf <- MCUserOf
    AssetOf <- MCAssetOf
    MaxTurns = 1
    QuestionSizes = {1}
    AnswerSizes = {1}
    HistoryTokenBudget = 2
    MaxToolIterations = 2
    MaxToolCalls = 1
SPECIFICATION Spec
INVARIANT MetricsAreFound
CHECK_DEADLOCK FALSE
