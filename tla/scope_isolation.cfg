CONSTANTS
    Workers = {w1, w2}
    Apps = {a1}
    Clients = {c1, c2}
    Sids = {s1, s2}
    Updates = {u1}
    None = None
SPECIFICATION Spec
SYMMETRY Interchangeable
CHECK_DEADLOCK FALSE
INVARIANTS SessionIsolated ApplicationShared SessionShared
