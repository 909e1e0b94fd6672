CONSTANTS
    Pids = {p1, p2, p3, p4}
    NoPid = NoPid
    WorkerNum = 2
    MaxDeaths = 2
    MaxFailures = 1
SPECIFICATION FairSpec
CHECK_DEADLOCK FALSE
INVARIANTS TypeOK OneReaper NoLostWakeup SignalsTheReaper
PROPERTIES Terminates ReaperIsReplaced
