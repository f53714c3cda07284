\* Two heads that move by more than the lookback between polls, restarts at any point.
SPECIFICATION Spec
CONSTANTS
    None = None
    latest = latest
    finalized = finalized
    t1 = t1
    t2 = t2
    Tasks <- TwoTasks
    Sources <- Both
    Latest = latest
    SourceOf <- TheirSources
    MaxBlock = 3
    Matches <- NotBlock1
    BackfillQueue = "backfill"
    Throttle = None
    Fragile <- Nowhere
    Raising <- Nowhere
    Runs = TRUE
    StartFrom = None
    Current = Current
    Lookback <- Lookback1
    LookbackEnabled = TRUE
    Unreliable <- Nowhere
    Ranges <- Nowhere
    GapDetection = TRUE
INVARIANTS TypeOK StartsAtItsHead
PROPERTIES WindowIsFilled
