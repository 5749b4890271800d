SPECIFICATION Spec
CONSTANTS
    Sessions = {s1, s2}
    Tokens = {t1, t2, t3, t4}
    Requests = {p1, p2}
    MaxPassword = 2
    None = None
SYMMETRY Symmetry
INVARIANTS
    SingleChain
    EndedIsOver
PROPERTIES
    ChainSpec
