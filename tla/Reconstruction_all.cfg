SPECIFICATION FairSpec
CONSTANTS
    Configs <- AllConfigs
    MaxRuns = 2
    RunAvgLen = 2
    StopThreshold = 1
    Errors <- TwoErrors
    Sizes <- TwoSizes
    LowError = 1
    MaxCur = 8
INVARIANTS
    TypeOK
    OutputOnTime
    BoundedOverrun
    RunningAverageExact
    AverageWindow
    SwitchIsBlind
PROPERTIES
    StopsAtTolerance
    StopEndsReconstruction
CHECK_DEADLOCK FALSE
