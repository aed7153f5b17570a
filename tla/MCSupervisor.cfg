SPECIFICATION FairSpec
CHECK_DEADLOCK FALSE
CONSTANTS
    Input = 1
    MaxStdout = 2
    MaxStderr = 1
    MaxWritten = 3
    ReadChunk = 2
    MaxFaults = 1
INVARIANTS
    RecordsInOrder
    SuccessIsWhole
    FirstCauseIsReported
    NoChildLeftUnsaid
PROPERTIES
    Settles
