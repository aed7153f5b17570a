SPECIFICATION Spec
CHECK_DEADLOCK FALSE
CONSTANTS
    Sessions = {ann, bob}
    MaxStamp = 3
    MaxHelper = 3
    MaxCrashes = 2
    MaxEdits = 1
SYMMETRY Symmetry
INVARIANTS
    ReceiptIsForGood
    BackupAdjacent
    DroppedIsGone
PROPERTIES
    ImplementsSlot
    NothingOverwritten
