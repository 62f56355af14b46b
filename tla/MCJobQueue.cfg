SPECIFICATION FairSpec
CONSTANTS
    simulation = simulation
    rerun = rerun
    w1 = w1
    w2 = w2
    Jobs <- MCJobs
    RerunRow <- MCRerunRow
    Workers <- MCWorkers
    NoWorker = NoWorker
    MaxAttempts = 2
    Retained = 1
    MaxFaults = 2
INVARIANTS
    TypeOK
    AttemptsAreCounted
PROPERTIES
    CancellationSticks
    OutcomesComeFromTheHolder
    JobsEnd
CHECK_DEADLOCK FALSE
