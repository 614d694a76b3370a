SPECIFICATION EstateSpec
CONSTANTS
    GvRepos = {"a", "b"}
    GvVersions = 2
    GvRuns = 2
    GvEvents = 2
    GrEvents = 2
    Versions = {1, 2}
    CrEvents = 3
    Today = 20
    DpEvents = 1
    RtConfigs <- RtConfigsMC
    RtValues <- RtValuesMC
    RtTagOrder <- RtTagOrderMC
    RtMatch <- RtMatchMC
    RtBadText = {"("}
    RtPlain = {"stable", "pre", "main", "feat", "mian", "v1", "gone"}
    RtSemver = {"v1", "v2"}
    RtEnvs <- RtEnvsMC
    RtEdits = 1
    RtRuns = 1
    RtPushes = 2
    KiClusters <- MCKiClusters
    KiConfigs <- MCKiConfigs
    KiLetters <- MCKiLetters
    KiShort = {"j"}
    KiServing = {"exporter"}
    KiBackingImages = {"redis", "pg"}
    KiBackingPaths = {"redis", "pg"}
    KiBackingNames <- MCKiBackingNames
    KiSidecars = {"mesh"}
    KiGrace = 2
    KiTimes = 4
    KiEvents = 2
INVARIANT GitopsSafe
PROPERTIES GovernanceKeeps ComposeKeeps EstateSettled PruneKeeps  InventoryKeeps
CHECK_DEADLOCK FALSE
