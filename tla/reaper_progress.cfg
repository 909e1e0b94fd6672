CONSTANTS
    Scopes = {s1, s2}
    Absent = Absent
    Heartbeat = 3
    Timeouts = {2, 4}
    ShortestTimeout = 2
    LongestTimeout = 4
    MaxBusy = 1
    MaxDelay = 1
    MaxCrashes = 1
    MaxTime = 8
SPECIFICATION FairSpec
CHECK_DEADLOCK FALSE
INVARIANT OversleepBounded
PROPERTIES DueIsClaimed SignalObeyed
