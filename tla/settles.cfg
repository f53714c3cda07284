\* A queue whose messages expire and whose tries are limited, and one where only the
\* age of the block ends an attempt.
SPECIFICATION FairSpec
CONSTANTS
    live = live
    backfill = backfill
    None = None
    Queues <- TwoQueues
    DefaultQueue = live
    Tokens = {m1, m2}
    MaxAttempts <- OnLive2
    MaxAttemptLimit = 2
    RetryDelays <- Delay1
    DelaySteps = 1
    GiveUpAfterBlocks <- OnBackfill2
    BlockTime = 1
    HardLimit <- Always1
    MessageTtl <- OnLive1
    Margin = 1
    StaleTimeout = 1
    Horizon = 3
    Attempts = {a1}
    Workers = {w1}
    Submitters = {b1}
    Sweepers = {s1}
    Skew <- NoSkew
    KillDelay = 1
    Lags = {1}
    Redelivers = FALSE
    MayStall <- Nobody
INVARIANTS FailedIsDecided
PROPERTIES GivenUpIsFinal Settles
