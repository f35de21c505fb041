SPECIFICATION Spec
SYMMETRY MCSymmetry
CONSTANTS
    j1 = j1
    j2 = j2
    w1 = w1
    w2 = w2
    NoJob = NoJob
    NoWorker = NoWorker
    Jobs <- MCJobs
    Uploads <- MCUploads
    Workers <- MCWorkers
    MaxAttempts = 2
    MaxClaims = 1
    SweepBatch = 1
INVARIANTS
    TypeOK
    CancelWins
    PublishedIffSucceeded
    OneBundlePerDocument
    OutboxKeysFree
    DeadHasEvidence
PROPERTIES
    AttemptsPaidByRetries
    LiveLeaseKept
    KeepsPromise
CHECK_DEADLOCK FALSE
