SPECIFICATION Spec
CONSTANTS
    Members = {m1}
    Requests = {r1, r2, r3}
    PaidPlans = {pro, team}
    Free = free
    None = None
SYMMETRY Symmetric
INVARIANTS
    ActiveIsPaid

    
CHECK_DEADLOCK FALSE
