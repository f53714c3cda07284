\* No hard time limit and a message delivered twice.
SPECIFICATION Spec
CONSTANTS
    live = live
    backfill = backfill
    None = None
    Queues <- OneQueue
    DefaultQueue = live
    Tokens = {m1, m2, m3}
    MaxAttempts <- Always2
    MaxAttemptLimit = 2
    RetryDelays <- Delay1
    DelaySteps = 1
    GiveUpAfterBlocks <- Never
    BlockTime = 1
    HardLimit <- Never
    MessageTtl <- Never
    Margin = 1
    StaleTimeout = 1
    Horizon = 2
    Attempts = {a1}
    Workers = {w1, w2}
    Submitters = {b1}
    Sweepers = {s1}
    Skew <- NoSkew
    KillDelay = 1
    Lags <- HeadUnknown
    Redelivers = TRUE
    MayStall <- Nobody
SYMMETRY Symmetry
INVARIANTS FenceIsExact
