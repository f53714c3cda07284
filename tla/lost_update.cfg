\* The scheduler and a backfill dispatch the same block.
SPECIFICATION Spec
CONSTANTS
    None = None
    Horizon = 3
    Attempts = {a1}
    Workers = {w1, w2}
    Dispatchers = {d1, d2}
    Sweeping = {d1}
    Ids = {m1, m2}
    MaxAttemptLimit = 2
    RetryDelays <- Delay1
    DelaySteps = 1
    StaleTimeout = 1
    CleanupAge = None
    Redelivers = FALSE
    MayStall <- Nobody
SYMMETRY Symmetry
PROPERTIES SuccessIsFinal
