SPECIFICATION Spec
CONSTANTS
    Scopes <- BothScopes
    OldFiles <- OldVersions
    OldNumbers = {16, 100, 12345678}
    Typed <- TypedNumbers
    SixDigits <- OfSixDigits
    SevenDigits <- OfSevenDigits
    Chosen <- ChosenFiles
    Absolute <- AbsolutePaths
    LowerCase <- LowerCaseNames
INVARIANTS
    TypeOK
    ItemsTellOptions
    OnlyBadListsAreFatal
    RunsWithWhatIsSet
PROPERTIES
    SavedComesBack
CHECK_DEADLOCK FALSE
