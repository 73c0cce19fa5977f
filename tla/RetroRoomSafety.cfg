SPECIFICATION Spec
CONSTANTS
    Members = {m1, m2}
    Titles = {t1, t2}
    Requests = {r1, r2, r3, r4}
    None = None
SYMMETRY Symmetric
INVARIANTS
    ReferencesHold
    SearchAlwaysNamed
PROPERTIES
    OthersSurvive
CHECK_DEADLOCK FALSE
