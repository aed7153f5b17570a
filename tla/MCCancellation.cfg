SPECIFICATION FairSpec
CHECK_DEADLOCK FALSE
CONSTANTS
    c1 = c1
    c2 = c2
    s1 = s1
    s2 = s2
    s3 = s3
    Cancellers <- MCCancellers
    Subscribers <- MCSubscribers
    NoCallback = NoCallback
INVARIANTS
    CalledAtMostOnce
    NoLostWakeup
PROPERTIES
    EverybodyIsWoken
