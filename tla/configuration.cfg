CONSTANTS
    Workers = {w1, w2}
    Admins = {w1}
    Users = {w2}
    Keys = {k1}
    Inodes = {i1, i2}
    None = None
    MaxSets = 2
    MaxEdits = 1
    MaxMtime = 2
    MaxTime = 1
    MaxWrites = 2
SPECIFICATION Spec
SYMMETRY Interchangeable
CHECK_DEADLOCK FALSE
INVARIANTS TypeOK FileWhole SettingsCurrent OnlyOwnChangesLinger TemplateCurrent ComponentCurrent
PROPERTY SettingsAdvance
