CONSTANTS
    ds = ds
    DS = DS
    log = log
    Names = {ds, DS}
    Upper <- Uppercase
    Conns = {c1, c2}
    Writes = {x}
    Savepoints = {p}
    None = None
    Backend = "sqlite"
    MaxDepth = 2
    MaxSaves = 1
    MaxBlocks = 2
    MaxRequests = 2
SPECIFICATION Spec
SYMMETRY Interchangeable
CHECK_DEADLOCK FALSE
INVARIANTS TypeOK FrameAtomic OutsideIsDurable NothingPending
