CONSTANTS
    j1 = j1
    j2 = j2
    None = None
    Jobs = {j1, j2}
    Saved0 <- TwoVideos
    Typed <- SomeTyped
    Names <- SomeNames
    Norms <- TwoNorms
    Preferred <- OneNorm
    OthersWrite <- OneEdit
    Samples <- Repairs
    UndoLimit = 1
    MaxActs = 5
    MaxOthers = 1
SPECIFICATION Spec
INVARIANTS ScreenIsHonest FixesOnlyHelp
PROPERTIES TypedIsKept
CHECK_DEADLOCK FALSE
