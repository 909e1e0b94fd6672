CONSTANTS
    Workers = {w1}
    Apps = {a1, a2}
    Clients = {c1, c2}
    Sids = {s1, s2}
    Updates = {u1}
    None = None
SPECIFICATION Spec
SYMMETRY Interchangeable
CHECK_DEADLOCK FALSE
INVARIANTS ApplicationIsolated
