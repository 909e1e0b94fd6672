CONSTANTS
    ds = ds
    DS = DS
    log = log
    Names = {DS, log}
    Upper <- Uppercase
    Conns = {c1, c2}
    Writes = {x}
    Savepoints = {p}
    None = None
    Backend = "mysql"
    MaxDepth = 2
    MaxSaves = 1
    MaxBlocks = 2
    MaxRequests = 1
SPECIFICATION Spec
SYMMETRY Interchangeable
CHECK_DEADLOCK FALSE
INVARIANT ThrownIsUndone
