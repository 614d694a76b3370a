SPECIFICATION ProduceSpec
CONSTANTS
    BdRuns = 2
    BdEvents = 2
    ScBuilds = 2
    ScEvents = 2
    LiFiles = {"f", "g"}
    LiSlots = 2
    LiRuns = 2
    LiEvents = 2
    LiCap = 2
    DuTop = 3
    DuRuns = 2
    DuEvents = 1
    FrConfigs <- MCFrConfigs
    FrTimes = 2
    FrEvents = 3
    SbConfigs <- MCSbConfigs
    SbIds <- MCSbIds
    SbFiles = {"r", "s"}
    SbBadges = {"a", "b"}
    SbEvents = 2
    SbShas = 6
    SdIds <- SdIdsMC
    SdCrons = {"c1", "c2"}
    SdHash <- SdHashMC
    SdDecls <- SdDeclsMC
    SdJobs = {"p1", "p2"}
    SdSlots = {1, 2, 3, 4, 5}
    SdRuns <- SdRunsMC
    SdFaults = 1
    SdEdits = 1
INVARIANT SecuritySafe
PROPERTIES BuildKeeps LintKeeps UpdatesHold ScribeKeeps SchedulesKeep
CHECK_DEADLOCK FALSE
