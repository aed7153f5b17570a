SPECIFICATION SpecWithHistory
CHECK_DEADLOCK FALSE
CONSTANTS
    MaxCounter = 2
    MaxPreview = 0
    Limits = {loose}
    DefaultLimits = loose
    MaxStorageId = 3
    Slots = {s1, s2}
    MaxForeign = 0
    Starts = {"fresh", "resumed"}
    RestorableGames <- MCRestorableGames
PROPERTY ImplementsProtocol
