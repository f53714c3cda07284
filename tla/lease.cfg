\* Hard time limit, redelivery, every process may stall anywhere.
SPECIFICATION Spec
CONSTANTS
    live = live
    backfill = backfill
    None = None
    Queues <- OneQueue
    DefaultQueue = live
    Tokens = {m1, m2, m3}
    MaxAttempts <- Always2
    MaxAttemptLimit = 2
    RetryDelays <- Delay1
    DelaySteps = 1
    GiveUpAfterBlocks <- Never
    BlockTime = 1
    HardLimit <- Always1
    MessageTtl <- Never
    Margin = 1
    StaleTimeout = None
    Horizon = 1
    Attempts = {a1}
    Workers = {w1, w2}
    Submitters = {b1}
    Sweepers = {s1}
    Skew <- NoSkew
    KillDelay = 1
    Lags <- HeadUnknown
    Redelivers = TRUE
    MayStall <- Procs
SYMMETRY Symmetry
INVARIANTS TypeOK OneRunner OutcomeIsRecorded FailedIsDecided
PROPERTIES SuccessIsFinal ImplementsLifecycle
