SPECIFICATION PromotionSpec
CONSTANTS
    j1 = j1
    r1 = r1
    r2 = r2
    r3 = r3
    w1 = w1
    w2 = w2
    w3 = w3
    NoJob = NoJob
    NoWorker = NoWorker
    NoRun = NoRun
    Jobs <- MCJobs
    Uploads <- MCJobs
    Workers <- MCWorkers
    Runs <- TwoRuns
    Owner <- SharedOwner
    FileCount = 2
    MaxAttempts = 2
    MaxClaims = 2
    SweepBatch = 1
INVARIANT
    PublishedComplete
CHECK_DEADLOCK FALSE
