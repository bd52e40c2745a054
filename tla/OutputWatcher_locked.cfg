SPECIFICATION FairSpec
CONSTANTS
    MaxImages = 2
    Views <- BothViews
    NoFile = NoFile
    Settings <- LockedSettings
PROPERTIES
    LastImageShown
CHECK_DEADLOCK FALSE
