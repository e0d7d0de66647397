SPECIFICATION MCSpec
CONSTANTS
    Events = {1, 2, 3}
    At <- MCAt
    Metrics = {"mem"}
    Requests <- MCRequests
    Cutoffs = {2, 3}
    Readers = {r1}
    Runs = {p1, p2}
    Limit = 1
    BatchSize = 2
    MaxBatches = 2
    Null = Null
PROPERTIES PagesInOrder ScanComplete NothingOldLeft OldestGoFirst ScansEnd
CHECK_DEADLOCK FALSE
