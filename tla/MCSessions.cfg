SPECIFICATION SessionsSpec
CONSTANTS
    s1 = s1  s2 = s2  s3 = s3  u1 = u1  c1 = c1  c2 = c2
    d1 = d1  d2 = d2  d3 = d3  sweeper = sweeper  w1 = w1  w2 = w2
    Nobody = nobody
    NoWorker = noWorker
    Workers = {w1, w2}
    Slots = {s1, s2, s3}
    Owner <- MCOwner
    MaxAttempts = 2
    Cancels = {u1}
    Clicks = {c1, c2}
    Downloads = {d1, d2, d3}
    MaxUses = 2
    Sweepers = {sweeper}
    Casts <- MCCasts
INVARIANTS
    SessionsTypeOK
    DeadlocksNeedOneIdentity
    PublishedIsSucceeded
    AnswersAreTrue
CHECK_DEADLOCK FALSE
