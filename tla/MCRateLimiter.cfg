SPECIFICATION TFairSpec
CONSTANTS
    v = v  w = w
    Waiters <- MCWaiters
    Need <- MCNeed
    Cancellable <- MCCancellable
    StartRate = 0
    Rates = {0, 3, 12}
    MayStop = TRUE
    MaxInt = 63
    MaxTicks = 4
    MaxSets = 2
INVARIANTS BucketBounded TokensConserved
PROPERTIES WaitersReturn StopEndsRefill
CHECK_DEADLOCK FALSE
