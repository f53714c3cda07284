\* A backfill reaches blocks that are not finalized yet.
SPECIFICATION Spec
CONSTANTS
    None = None
    latest = latest
    finalized = finalized
    t1 = t1
    t2 = t2
    Tasks <- TwoTasks
    Sources <- Both
    Latest = latest
    SourceOf <- TheirSources
    MaxBlock = 2
    Matches <- EveryBlock
    BackfillQueue = "backfill"
    Throttle = None
    Fragile <- Nowhere
    Raising <- Nowhere
    Runs = TRUE
    StartFrom = None
    Current = Current
    Lookback <- Lookback1
    LookbackEnabled = TRUE
    Unreliable <- Nowhere
    Ranges <- LastBlock
    GapDetection = TRUE
INVARIANTS StartsAtItsHead
