SPECIFICATION Spec
CONSTANTS
    None = None
    Horizon = 3
    BaseLimits <- NoLimits
    ConfigLimits <- NoLimits
    Margin = 1
    StaleTimeout = 1
    FloatMax = 600
    Policies <- ManyPolicies
    DeepestTry = 9
    Attempts = {1, 2}
    Fragile = {1, 2}
    Names = {"back", "live", "head"}
    Slots = {1, 2}
    Versions = {"old", "new", "refused", "busy"}
    Code <- AllCode
    Upgrades <- AllUpgrades
    Settings <- AtOnce
    MaxAttemptLimit = 2
    DelaySteps = 1
    BatchSize = 1
    KillDelay = 1
INVARIANTS TypeOK DeclaredRunKeepsClaim
PROPERTIES QueueIsKept Settles
