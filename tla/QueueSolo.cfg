SPECIFICATION MCFairSpec
CONSTANTS
    Events = {1, 2}
    Workers = {1, 2, 3, 4}
    Null = Null
    BatchSize = 2
    LeaseSeconds = 2
    MaxAttempts = 3
    RetryBase = 1
    MaxDelay = 1
    ClockLag = 1
    Solo = TRUE
    MaxFaults = 1
PROPERTIES PromiseKept
CHECK_DEADLOCK FALSE
