SPECIFICATION MCFairSpec
CONSTANTS
    Keys <- OneKey
    Signals <- OneKeySignals
    Calls <- OneKeyCalls
    Workers = {w1}
    Operators = {o1, o2}
    Null = Null
    RowLocks = FALSE
    ClockLag = 0
    MaxClock = 4
PROPERTIES DecisionsInformed
CHECK_DEADLOCK FALSE
