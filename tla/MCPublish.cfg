SPECIFICATION PublishSpec
CONSTANTS
    TgClones = {a, b}
    TgVersions <- TgVersionsMC
    TgConfigs <- TgConfigsMC
    TgRequests <- TgRequestsMC
    TgMaxWalk = 2
    TgRuns = 2
    TgEvents = 1
    DsCommits = 2
    DsTries = 2
    DsFiles <- DsFilesMC
    DsSetOf <- DsSetOfMC
    DsPages <- DsPagesMC
    DsStable = {"logo"}
    DsWeight <- DsWeightMC
    DsMaxAsset = 3
    DsMaxBucket = 4
    DsMaxCount = 2
    DsFaults = 1
    DsConfigs <- DsConfigsMC
PROPERTIES TaggingKeeps DistributeKeeps
SYMMETRY PublishSymmetry
CHECK_DEADLOCK FALSE
