SPECIFICATION Spec
CONSTANTS
    Members = {m1}
    Retros = {x1, x2}
    Requests = {r1, r2, r3}
    MonthlyLimit = 1
    PoolCells = 1
    MaxRefills = 1
    MaxMonth = 1
    None = None
SYMMETRY Symmetric
INVARIANTS
    ChargedIffCommitted
    LimitHeldApart
    RemainingHonest
    PoolConserved
CHECK_DEADLOCK FALSE
