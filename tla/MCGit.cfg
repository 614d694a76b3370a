SPECIFICATION GitSpec
CONSTANTS
    CbFiles <- CbFilesMC
    CbPlanted = "ign"
    CbNames <- CbNamesMC
    CbBelow <- CbBelowMC
    CbConfigs <- CbConfigsMC
    CbRequests <- CbRequestsMC
    CbStarts <- CbStartsMC
    CbMax = 2
    CbRuns = 2
    CbEdits = 2
    CbPushes = 1
    pa = pa
    pb = pb
    Paths = {pa, pb}
    Commands = {"push", "explicit", "pull", "commit", "refspec"}
    MidOps = {FALSE, TRUE}
    MaxLocal = 2
    MaxOthers <- MCMaxOthers
    MaxMeanwhile = 2
    MaxRuns = 2
    MaxFaults = 1
SYMMETRY GitSymmetry
PROPERTIES CommitKeeps PushKeeps
CHECK_DEADLOCK FALSE
