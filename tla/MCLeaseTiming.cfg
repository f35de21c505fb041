SPECIFICATION TimingSpec
CONSTANTS
    Timings <- MCTimings
    Second = 1
    MaxLatency = 1
    MaxLate = 4
    MaxAge = 20
INVARIANTS
    LeaseOutlivesTheJob
    PublicationHasAThird
CHECK_DEADLOCK FALSE
