SPECIFICATION MCSpec
CONSTANTS
    Events = {1, 2, 3}
    Payloads <- MCPayloads
    Scorable <- MCScorable
    Forecastable <- MCForecastable
    Threshold <- MCThreshold
    Floor <- MCFloor
    Workers = {w1, w2}
    Null = Null
    Week = 7
    BaselineLimit = 1
    ForecastLimit = 3
    MaxAttempts = 2
    MinBaseline = 1
    MinPoints = 2
    MinSpan = 1
    Hour = 1
    MaxClaims = 4
SYMMETRY Symmetry
INVARIANTS SignalsBacked RetriesIdempotent
PROPERTIES EvidenceStands
CHECK_DEADLOCK FALSE
