SPECIFICATION Spec
CONSTANTS
    Dirs = {1, 2}
    Addresses = {1, 2}
    MaxRuns = 2
    MaxLines = 2
    MaxRounds = 2
    MaxWire = 0
    Settings <- AllSettings
INVARIANTS
    PlotIsOfTheRun
    ImagesInWorkDir
    RemoteViewerFollows
PROPERTIES
    LogShown
CHECK_DEADLOCK FALSE
