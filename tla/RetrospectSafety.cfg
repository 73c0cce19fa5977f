SPECIFICATION Spec
CONSTANTS
    Members = {m1, m2}
    Retros = {t1}
    Requests = {r1, r2, r3, r4, r5}
    Questions = {q1}
    MinAnswers = 1
    FreeMembers = {m1, m2}
    FreeLimit = 1
    None = None
SYMMETRY Symmetric
INVARIANTS
    SubmittedIffTimestamped
    AnalysedTogether
    AcknowledgedSubmitDurable
    RowsIsolated
PROPERTIES
    StatusForward
CHECK_DEADLOCK FALSE
