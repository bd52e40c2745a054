SPECIFICATION Spec
CONSTANTS
    Configs <- ToleranceConfigs
    MaxRuns = 2
    RunAvgLen = 2
    StopThreshold = 1
    Errors <- TwoErrors
    Sizes <- TwoSizes
    LowError = 1
    MaxCur = 6
PROPERTIES
    StopsAtTolerance
CHECK_DEADLOCK FALSE
