SPECIFICATION FairReaderSpec
CONSTANTS
    Members = {m1, m2}
    Retros = {t1}
    Requests = {r1, r2, r3}
    Questions = {q1}
    MinAnswers = 1
    FreeMembers = {m1}
    FreeLimit = 0
    None = None
INVARIANTS
    StorageDated
    PrintedUnderAuthor
    AnalysedListed
PROPERTIES
    RequestsFinish
CHECK_DEADLOCK FALSE
