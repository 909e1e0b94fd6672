CONSTANTS
    Workers = {w1, w2}
    Sids = {s1}
    App = App
    Absent = Absent
    NoSid = NoSid
    AppTimeout = 1000
    SessionTimeout = 0
    StartOutcomes = {"ok", "false"}
    MaxRequestTime = 2
    MaxTime = 4
SYMMETRY Interchangeable
SPECIFICATION Spec
CHECK_DEADLOCK FALSE
INVARIANT PageHasApplication
