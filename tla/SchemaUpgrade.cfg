SPECIFICATION MCSpec
CONSTANTS
    Events = {1}
    Upgraders = {1, 2}
    Heads = {1, 2, 6}
    Dialects = {TRUE, FALSE}
    Null = Null
    MaxCrashes = 2
INVARIANTS TablesMatchVersion UpgradesApart NothingForgotten BackfillReaches
PROPERTIES RequeuedOnce UpgradeEnds
CHECK_DEADLOCK FALSE
