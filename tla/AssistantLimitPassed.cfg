SPECIFICATION Spec
CONSTANTS
    Members = {m1}
    Retros = {x1, x2}
    Requests = {r1, r2, r3}
    MonthlyLimit = 1
    PoolCells = 2
    MaxRefills = 1
    MaxMonth = 1
    None = None
SYMMETRY Symmetric
INVARIANTS
    AssistantLimitKept
CHECK_DEADLOCK FALSE
