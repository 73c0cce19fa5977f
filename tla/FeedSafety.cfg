SPECIFICATION Spec
CONSTANTS
    Members = {m1, m2}
    Requests = {r1, r2, r3}
    Readers = {p1}
    MaxAnswers = 2
    MaxEdits = 2
    PageSize = 1
    SchemaUpdate = TRUE
    OldDuplicates = TRUE
    None = None
SYMMETRY Symmetric
INVARIANTS
    LikesAddUp
    PagesDisjoint
    PagesComplete
PROPERTIES
    TotalHonest
CHECK_DEADLOCK FALSE
