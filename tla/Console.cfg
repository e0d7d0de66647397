SPECIFICATION MCSpec
CONSTANTS
    Incidents = {i1}
    Selections = {s1, s2}
    Refreshes = {r1, r2}
    Clicks = {c1}
    MaxRevision = 3
    MaxFaults = 1
    Null = Null
    Refused = Refused
PROPERTIES DecidedAsShown ChartFollowsSelection ScreenCatchesUp
CHECK_DEADLOCK FALSE
