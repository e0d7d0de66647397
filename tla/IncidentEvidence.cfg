SPECIFICATION MCFairSpec
CONSTANTS
    Keys <- TwoKeys
    Signals <- TwoKeysSignals
    Calls <- TwoKeysCalls
    Workers = {w1, w2}
    Operators = {o1}
    Null = Null
    RowLocks = TRUE
    ClockLag = 0
    MaxClock = 3
INVARIANTS EvidenceShown CallsCommittedWhole
PROPERTIES EverythingAnswered Serializable
CHECK_DEADLOCK FALSE
