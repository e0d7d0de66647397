SPECIFICATION MCSpec
CONSTANTS
    Keys <- OneKey
    Signals <- OneKeySignals
    Calls <- OneKeyCalls
    Workers = {w1, w2}
    Operators = {o1, o2}
    Null = Null
    RowLocks = TRUE
    ClockLag = 1
    MaxClock = 4
SYMMETRY Symmetry
INVARIANTS TypeOK TimelineTold
PROPERTIES DecisionsInformed
CHECK_DEADLOCK FALSE
