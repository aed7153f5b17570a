SPECIFICATION Spec
CHECK_DEADLOCK FALSE
CONSTANTS
    MaxCounter = 4
    MaxPreview = 0
    Limits = {loose}
    DefaultLimits = loose
    MaxStorageId = 5
    Slots = {s1, s2}
    MaxForeign = 0
    Starts = {"fresh"}
INVARIANTS
    WorkOnSavedStory
    ThreadsAreAwaited
    ReservationsHold
