CONSTANTS
    Workers = {w1, w2}
    Clients = {u1, u2}
    Apps = {a}
    Tokens = {t1}
    None = None
    Idles = {1}
    MaxTime = 2
    MaxDepth = 2
    MaxRequests = 3
SYMMETRY Interchangeable
SPECIFICATION Spec
CHECK_DEADLOCK FALSE
INVARIANTS TypeOK OwnLogin LoggedOutStaysOut WholeLogin
