\* No hard time limit: a sweep takes over attempts whose worker still runs. Messages
\* expire, and the clocks of the processes differ by the margin.
SPECIFICATION Spec
CONSTANTS
    live = live
    backfill = backfill
    None = None
    Queues <- OneQueue
    DefaultQueue = live
    Tokens = {m1, m2, m3}
    MaxAttempts <- Always2
    MaxAttemptLimit = 2
    RetryDelays <- Delay1
    DelaySteps = 1
    GiveUpAfterBlocks <- Never
    BlockTime = 1
    HardLimit <- Never
    MessageTtl <- Always1
    Margin = 1
    StaleTimeout = 2
    Horizon = 4
    Attempts = {a1}
    Workers = {w1, w2}
    Submitters = {b1}
    Sweepers = {s1, s2}
    Skew <- WorkersBehind
    KillDelay = 1
    Lags <- HeadUnknown
    Redelivers = FALSE
    MayStall <- Nobody
SYMMETRY Symmetry
INVARIANTS FenceIsExact TriesLeft ExpiredMessageIsGone
