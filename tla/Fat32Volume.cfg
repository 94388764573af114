SPECIFICATION Spec
CONSTANTS
    Names <- MCNames
    Short <- MCShort
    Folded <- MCFolded
    Dotted = {"a.b"}
    Calls <- MCCalls
    Moves <- MCMoves
    Data = {x, Empty}
    Folders <- MCFolders
    x = x
    Empty = Empty
    y = y
    Contents = {x, y}
    LastCluster = 6
    PerCluster = 2
    Images <- MCImages
    NoPath = NoPath
    Directory = Directory
    MaxCalls = 3
VIEW VolView
CONSTRAINT Whole
CHECK_DEADLOCK FALSE
PROPERTIES
    OnlyKnownStepsSpoil
    WritesAreRead
    FilesGoWhereTold
