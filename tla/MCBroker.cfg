SPECIFICATION BrokerSpec
CONSTANTS
    c1 = c1  c2 = c2  r1 = r1  r2 = r2
    Copies = {c1, c2}
    Replicas = {r1, r2}
    NoReplica = noReplica
    MaxFaults = 2
    Prefetch = 2
    Concurrency = 1
INVARIANTS
    LostOnlyByARepair
    HandledXorReturned
PROPERTY
    EverythingIsDispatched
CHECK_DEADLOCK FALSE
