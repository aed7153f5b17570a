SPECIFICATION Spec
CONSTANTS
    MaxCounter = 4
    MaxPreview = 1
    MaxChunk = 1
    RestorableGames <- MCRestorableGames
    Limits = {loose}
    DefaultLimits = loose
INVARIANTS
    TypeOK
    PendingIsCurrent
    WorkIsCurrent
    PreviewIsLive
    CommitsInOrder
    NoCommitAfterStop
PROPERTIES
    RevisionNamesStory
    CommitBuildsOnStory
