CONSTANTS
    u1 = u1
    u2 = u2
    r1 = r1
    r2 = r2
    c1 = c1
    c2 = c2
    Users = {u1, u2}
    Roles = {r1, r2}
    Clients = {c1, c2}
    Ids = {1, 2, 3}
    Answers = {"PENDING", "ACCEPTED"}
    Ops = {"update", "add"}
SPECIFICATION Spec
SYMMETRY Symmetry
PROPERTIES
    UnprivilegedKeepsMembers
