SPECIFICATION Spec
CONSTANTS
    Accounts = {a1, a2}
    Nicknames = {n1, n2}
    Requests = {r1, r2, r3, r4, r5}
    NicknameIndexed = FALSE
    None = None
SYMMETRY Symmetric
INVARIANTS
    TokensOfMembers
PROPERTIES
    SpentTokensRefused
CHECK_DEADLOCK FALSE
