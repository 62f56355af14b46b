SPECIFICATION SimulationSpec
CONSTANTS
    simulation = simulation
    rerun = rerun
    run = run
    w1 = w1
    w2 = w2
    Jobs <- MCJobs
    RerunRow <- MCRerunRow
    Workers <- MCWorkers
    NoWorker = NoWorker
    MaxAttempts = 2
    Retained = 2
    MaxFaults = 1
    Runs <- MCRuns
    RunOf <- MCRunOf
    Web = Web
    MaxCalls = 1
SYMMETRY MCSymmetry
INVARIANTS
    SimulationTypeOK
    CompletedJobsHaveResults
    CancelledJobsStopTheirRuns
PROPERTIES
    FirstTerminalResultWins
CHECK_DEADLOCK FALSE
