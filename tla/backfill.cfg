\* One backfill command at a time, through a throttled queue; an error on the way.
SPECIFICATION FairSpec
CONSTANTS
    None = None
    latest = latest
    finalized = finalized
    t1 = t1
    t2 = t2
    Tasks <- TwoTasks
    Sources = {latest}
    Latest = latest
    SourceOf <- TheirSources
    MaxBlock = 2
    Matches <- T2LastBlock
    BackfillQueue = "backfill"
    Throttle = 1
    Fragile <- FirstTwoOfT1
    Raising <- SecondOfT1
    Runs = FALSE
    StartFrom = None
    Current = Current
    Lookback <- Lookback1
    LookbackEnabled = TRUE
    Unreliable <- Nowhere
    Ranges <- AllRanges
    GapDetection = TRUE
INVARIANTS WithinThrottle BackfillCovers
PROPERTIES BackfillEnds
