SPECIFICATION Spec
CONSTANTS
    e1 = e1
    e2 = e2
    e3 = e3
    Events = {e1, e2, e3}
    Workers = {w1, w2}
    MaxRetries = 1
    PriorityOf <- Priorities
    FingerprintOf <- Fingerprints
    MaxFaults = 2
    Absent = Absent
    Torn = Torn
    None = None
INVARIANTS
    OneLivePerFingerprint
    HeldExclusively
    LossBounded
PROPERTIES
    KeepsPromise
SYMMETRY Symmetric
CHECK_DEADLOCK FALSE
