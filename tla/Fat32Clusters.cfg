CONSTANTS
    f = f
    root = root
    d = d
    Entries = 7
    Files = {f}
    Directories = {root, d}
    Root = root
    MaxBlocks = 2
    Headroom = 1
SPECIFICATION Spec
INVARIANTS
    DirtyCovers
PROPERTIES
    OnlyKnownStepsDamage
    FlushedFilesSurvive
VIEW View
CONSTRAINT Whole
