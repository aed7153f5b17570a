SPECIFICATION Spec
CHECK_DEADLOCK FALSE
CONSTANTS
    MaxCounter = 4
    MaxPreview = 2
    Limits = {loose}
    DefaultLimits = loose
    MaxStorageId = 2
    Slots = {s1}
    Capacity = 1
    MaxText = 2
    Starts = {"fresh"}
INVARIANTS
    SelectionTakesANumber
