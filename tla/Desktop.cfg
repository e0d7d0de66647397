SPECIFICATION MCSpec
CONSTANTS
    Events = {1, 2}
    Attempts = {1, 2}
    Servers = {1, 2}
    Ports = {80, 81}
    Null = Null
    MaxFaults = 1
INVARIANTS AnswersTell CountsCoverAcknowledged
CHECK_DEADLOCK FALSE
PROPERTIES OneWorkerStays ActiveIsSettled
