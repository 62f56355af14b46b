SPECIFICATION FairSpec
CONSTANTS
    simulation = simulation
    rerun = rerun
    w1 = w1
    w2 = w2
    Jobs <- MCJobs
    RerunRow <- MCRerunRow
    Workers <- MCWorkers
    NoWorker = NoWorker
    MaxAttempts = 2
    Retained = 1
    MaxFaults = 1
PROPERTY ExpiredLocksAreReclaimed
CHECK_DEADLOCK FALSE
