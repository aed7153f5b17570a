SPECIFICATION Spec
CONSTANTS
    None = None
    Raw <- MCRaw
    Trim <- MCTrim
    Key <- MCKey
    Words <- MCWords
    Slug <- MCSlug
    Worlds <- MCWorlds
    TurnWires <- MCTurnWires
    AllLimits <- MCLimits
    Version = 1
    Spoilt = " Ajax"
INVARIANTS
    StoryCanBeSaved
    LoadLosesNothing
    ContextIsTheStory
PROPERTIES
    MemoryGrows
