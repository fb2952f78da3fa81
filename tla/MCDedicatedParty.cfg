SPECIFICATION FairSpec
CONSTANTS
    a = a
    b = b
    Match = {a, b}
    Configured <- MCConfigured
    MaxSelections = 3
    None = none
    Garbage = garbage
CHECK_DEADLOCK FALSE
INVARIANTS
    LaunchedIsSelected
    PreviewIsNext
PROPERTIES
    RotationMovesOneSlot
    VotedNotRepeated
    NoStageHangs
