\* One process submits and sweeps; workers, crashes, redelivery and cleanup.
SPECIFICATION FairSpec
CONSTANTS
    None = None
    Horizon = 3
    Attempts = {a1}
    Workers = {w1, w2}
    Dispatchers = {d1}
    Sweeping = {d1}
    Ids = {m1, m2}
    MaxAttemptLimit = 2
    RetryDelays <- Delay1
    DelaySteps = 1
    StaleTimeout = 1
    CleanupAge = 2
    Redelivers = TRUE
    MayStall <- Nobody
INVARIANTS TypeOK FailedIsDecided
PROPERTIES SuccessIsFinal TriesAreKept Settles
