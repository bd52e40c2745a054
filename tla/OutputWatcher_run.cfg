SPECIFICATION FairSpec
CONSTANTS
    MaxImages = 2
    Views <- BothViews
    NoFile = NoFile
    Settings <- SafeSettings
INVARIANTS
    ReportedInOrder
    NothingStale
PROPERTIES
    ViewersFollow
    LastImageShownUnlocked
    SameIteration
CHECK_DEADLOCK FALSE
