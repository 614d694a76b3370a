SPECIFICATION ConfigSpec
CONSTANTS
    UtVersions = {10, 11, 20}
    UtConfigs <- MCUtConfigs
    UtOld = 1
    UtEvents = 3
    PrNames = {"a", "b"}
    PrShapes <- MCPrShapes
    PrConfigs <- MCPrConfigs
    PrMaxAge = 1
    PrEvents = 3
PROPERTIES TrackKeeps AdoptsNewest PresetsKeep EventuallyCarried
CHECK_DEADLOCK FALSE
