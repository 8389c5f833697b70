CONSTANTS
    ann = ann
    bob = bob
    home = home
    annex = annex
    plant = plant
    Users <- MCUsers
    Orgs <- MCOrgs
    Tabs = {t1, t2}
    MaxCalls = 3
    FirstMembers <- MCFirstMembers
    MaxClock = 1
    None = None
SPECIFICATION FairSpec
INVARIANTS QuietTabsAgree
PROPERTIES AnswersForTheCaller EveryCallEnds
CHECK_DEADLOCK FALSE
