SPECIFICATION ShipSpec
CONSTANTS
    RelJobs = {j1, j2}
    RelCommits = 2
    RelMaxFaults = 1
    PrImages = 2
    PrMaxFaults = 2
    PrMaxTries = 2
    MiCommits = 2
    MiPasses = 2
    MiEvents = 2
PROPERTIES ReleaseKeeps PromotionKeeps RetryConverges MirrorKeeps MirrorConverges
CHECK_DEADLOCK FALSE
