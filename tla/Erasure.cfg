SPECIFICATION Spec
CONSTANTS
    p1 = p1
    w1 = w1
    req = req
    sweep = sweep
    Elsewhere = Elsewhere
    Sweeper = Sweeper
    Procs <- MCProcs
    Works <- MCWorks
    Requests <- MCRequests
    Sweeps <- MCSweeps
    Home <- MCHome
    Offset <- MCOffset
    MaxNow = 3
    MaxFaults = 1
    Fence = 2
    Refresh = 1
    Gap = 0
    SweepGrace = 0
    LastRequest = 0
    Grace = 2
    Backoff = 2
    UploadMax = 1
    PassMax = 1
INVARIANTS TypeOK NothingOldSurvives NoOrphanObject NothingStaysBehind KeptFiles
CHECK_DEADLOCK FALSE
