\* Liveness of the polls next to a head that cannot be read.
SPECIFICATION FairSpec
CONSTANTS
    None = None
    latest = latest
    finalized = finalized
    t1 = t1
    t2 = t2
    Tasks <- TwoTasks
    Sources <- Both
    Latest = latest
    SourceOf <- TheirSources
    MaxBlock = 2
    Matches <- OnlyT1
    BackfillQueue = "backfill"
    Throttle = 1
    Fragile <- FirstOfT1
    Raising <- FirstOfT1
    Runs = TRUE
    StartFrom = None
    Current = Current
    Lookback <- LatestLookback2
    LookbackEnabled = TRUE
    Unreliable = {finalized}
    Ranges <- Nowhere
    GapDetection = TRUE
PROPERTIES HealthyHeadsCatchUp
