SPECIFICATION Spec
CONSTANTS
    Sessions = {s1}
    Tokens = {t1, t2}
    Requests = {p1, p2}
    MaxPassword = 2
    None = None
SYMMETRY Symmetry
INVARIANTS
    LiveSessionsUsePassword
