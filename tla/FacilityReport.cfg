CONSTANTS
    Dates <- MCDates
    Assets = {"ahu", "rtu"}
    FirstAssets = {"ahu"}
    MaxAlerts = 2
    MaxReadings = 1
SPECIFICATION FairSpec
INVARIANTS ClosedPeriodsAreFinal VolumeIsHonest
PROPERTIES ReportEnds
CHECK_DEADLOCK FALSE
