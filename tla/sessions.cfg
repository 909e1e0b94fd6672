CONSTANTS
    Workers = {w1, w2}
    Sids = {s1, s2}
    App = App
    Absent = Absent
    NoSid = NoSid
    AppTimeout = 0
    SessionTimeout = 3000
    StartOutcomes = {"ok"}
    MaxRequestTime = 1
    MaxTime = 5
SYMMETRY Interchangeable
SPECIFICATION Spec
CHECK_DEADLOCK FALSE
INVARIANTS TypeOK SessionsAccountedFor ReapedStaysGone StoredWasBegun
PROPERTIES LongExpiredIsNeverExtended KeepsSessionFate
