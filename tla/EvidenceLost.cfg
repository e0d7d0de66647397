SPECIFICATION MCSpec
CONSTANTS
    Events = {1, 2, 3}
    Payloads <- MCPayloads
    Scorable <- MCScorable
    Forecastable <- MCForecastable
    Threshold <- MCThreshold
    Floor <- MCFloor
    Workers = {w1}
    Null = Null
    Week = 7
    BaselineLimit = 1
    ForecastLimit = 3
    MaxAttempts = 2
    MinBaseline = 1
    MinPoints = 2
    MinSpan = 1
    Hour = 1
    MaxClaims = 4
INVARIANTS FindingsReachIncidents
CHECK_DEADLOCK FALSE
