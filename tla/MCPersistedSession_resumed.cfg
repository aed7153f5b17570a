SPECIFICATION Spec
CHECK_DEADLOCK FALSE
CONSTANTS
    MaxCounter = 2
    MaxPreview = 0
    Limits = {loose, tight}
    DefaultLimits = loose
    MaxStorageId = 4
    Slots = {s1, s2}
    MaxForeign = 1
    Starts = {"resumed", "recovered"}
INVARIANTS
    CleanMeansSaved
    RetryHoldsStory
    BoundSaveIsOnDisk
    ExitIsHonest
PROPERTIES
    LandsOnce
