SPECIFICATION Spec
CONSTANTS
    Names = {nameA, nameB}
    nameA = nameA
    nameB = nameB
    Inos = {2, 3, 4}
    Blocks = {1, 2, 3}
    PerBlock = 1
    MaxSize = 1
    Paths <- MCPaths
    Images <- MCImages
CONSTRAINT OneTrouble
VIEW Ext4View
CHECK_DEADLOCK FALSE
PROPERTIES
    OnlyStreamsDamage
    StaleOnlyKnowingly
    OthersKept
