SPECIFICATION StoresSpec
CONSTANTS
    Users <- Names
    Node <- NodeOf
    Passwords <- Typed
    Roles <- RoleNames
    Operator = "operator"
    KeyIds <- KeyNames
    Stores <- TwoStores
    Kinds <- Backings
    Images <- Found
    Commands <- Asked
    MaxCalls = 3
    MaxFaults = 1
    MaxKeys = 3
    Managers = {m1, m2}
    Data = {d1, d2}
    MaxId = 2
    MaxHeld = 2
    NoManager = NoManager
    Main = "pwd-main"
    Empty = "empty"
    None = None
    NoSecret = NoSecret
    Missing = Missing
    Broken = Broken
    Tokens <- Letters
    Values <- OneValue
    Obj = Obj
    Null = Null
    Processes <- TwoProcesses
    PathsOf <- ThreeNames
    FileOf <- ThreeFiles
    StoredFiles <- FilesAtFirst
    Places <- FourPlaces
    StoredDocuments <- FileAtFirst
    p1 = p1
    p2 = p2
    s1 = s1
    s2 = s2
    x = x
    y = y
    one = one
    root = root
    dir = dir
    alias = alias
    below = below
    Top = Top
    Mid = Mid
    Low = Low
VIEW StoresView
SYMMETRY Interchangeable
CHECK_DEADLOCK FALSE
INVARIANTS
    RefsAreUnique
    RestartFindsMemory
    DiskFollowsMemory
PROPERTIES
    PasswordsChangeKnowingly
    AnswersChangeKnowingly
    WatchersFollow
