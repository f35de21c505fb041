SPECIFICATION DeliverySpec
SYMMETRY MCSymmetry
CONSTANTS
    j1 = j1
    w1 = w1
    w2 = w2
    NoJob = NoJob
    NoWorker = NoWorker
    Jobs <- MCJobs
    Uploads <- MCJobs
    Workers <- MCWorkers
    MaxAttempts = 2
    MaxClaims = 2
    SweepBatch = 1
    MaxFaults = 1
INVARIANT
    NeverStranded
