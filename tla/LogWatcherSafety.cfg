SPECIFICATION WatcherSpec
CONSTANTS
    Fingerprints = {f1, f2}
    DedupWindow = 2
    MaxLines = 3
    MaxClock = 3
    MaxDay = 1
    MaxFaults = 2
    MaxRotations = 1
    Unset = Unset
SYMMETRY Symmetric
INVARIANTS
    
    MutedByAlert
    NoEarlyRepeat
CHECK_DEADLOCK FALSE
