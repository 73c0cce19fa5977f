SPECIFICATION FilterSpec
CONSTANTS
    u1 = u1
    u2 = u2
    Users = {u1, u2}
    None = None
    Actions = {"api_call", "branch_creation", "pr_creation"}
    Limit <- Limits
    Window <- Windows
    Callers = {c1, c2}
    MaxDelay = 1
    MaxTime = 6
    Environments <- Settings
SYMMETRY Symmetric
INVARIANTS
    LimitHeld
    RefusedOnlyWhenBusy
    TablesAgree
    NothingUrgentHidden
CHECK_DEADLOCK FALSE
