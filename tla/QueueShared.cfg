SPECIFICATION MCFairSpec
CONSTANTS
    Events = {1, 2}
    Workers = {1, 2}
    Null = Null
    BatchSize = 2
    LeaseSeconds = 2
    MaxAttempts = 2
    RetryBase = 1
    MaxDelay = 2
    ClockLag = 0
    Solo = FALSE
    MaxFaults = 1
INVARIANTS TypeOK LeasesFenced SettledAsEarned ExtraAttemptsAreReclaims
PROPERTIES OnlyHolderCompletes OnlyLateFailUnsettles EventuallySettled
CHECK_DEADLOCK FALSE
