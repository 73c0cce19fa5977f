SPECIFICATION FairProcessorSpec
CONSTANTS
    e1 = e1
    e2 = e2
    e3 = e3
    Events = {e1, e2, e3}
    Workers = {w1, w2}
    MaxRetries = 1
    PriorityOf <- Priorities
    FingerprintOf <- OwnFingerprints
    MaxFaults = 1
    Absent = Absent
    Torn = Torn
    None = None
    Monitoring = {e1}
    Wanted = {e1, e2}
    Limit = 1
    MaxOutages = 2
INVARIANTS
    PostsBounded
    DeadAfterAllAttempts
    CompletedSucceeded
PROPERTIES
    EveryErrorReported
CHECK_DEADLOCK FALSE
