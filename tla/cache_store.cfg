CONSTANTS
    Workers = {w1, w2}
    Renderers = {w1}
    Ids = {a, b}
    None = None
    Limits <- OneLimit
    MaxTime = 1
    MaxDepth = 2
    MaxLength = 2
    MaxCaptures = 2
SPECIFICATION Spec
SYMMETRY Interchangeable
INVARIANTS TypeOK OwnFragment RegionOfEntry
PROPERTY PurgeSparesFresh
