CONSTANTS
    Workers = {w1, w2}
    Admins = {w1, w2}
    Users = {}
    Keys = {k1, k2}
    Inodes = {i1, i2, i3}
    None = None
    MaxSets = 2
    MaxEdits = 0
    MaxMtime = 4
    MaxTime = 0
    MaxWrites = 1
SPECIFICATION Spec
SYMMETRY Interchangeable
CHECK_DEADLOCK FALSE
INVARIANT FileWhole
