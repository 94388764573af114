SPECIFICATION MediaSpec
CONSTANTS
    a = a
    NoName = NoName
    d1 = d1
    d2 = d2
    c1 = c1
    c2 = c2
    Devices <- TwoDevices
    Windows <- FiveWindows
    Volumes <- TwoVolumes
    Marks <- OneMark
    Blank = "blank"
    Stored <- BlankFiles
    MaxPlaces = 3
    NoDevice = NoDevice
    NoInfo = NoInfo
    Fail = Fail
    Throws = Throws
    Nothing = Nothing
    ProcessEnds = ProcessEnds
    Archives <- FiveArchives
    Values <- Held
    Paths <- FourPaths
    ReadOffsets <- ThreeOffsets
    Lengths <- ThreeLengths
    SizeMax = 7
    RealmTypes <- OneType
    RealmUuids <- TwoUuids
    RealmNames <- TwoNames
    IdentityNames <- AllNames
    Specificities <- UpTo50
    Nodes <- ThreePaths
    Texts <- SixTexts
    Permissions <- OnTheseTexts
    Layouts <- TwoLayouts
    Media <- TwoMedia
    Uuids <- SecondUuid
    Locals <- OneLocal
    Autos <- OneAuto
    Users <- TwoUsers
    Lendable <- OneSubject
    Endings <- TextEndings
    Policies <- OnePolicy
    Empty = ""
    VolumeType = "volume"
CONSTRAINT Explored
VIEW MediaView
SYMMETRY Interchangeable
CHECK_DEADLOCK FALSE
INVARIANTS
    FlushedIsKept
PROPERTIES
    OnlyKnownStepsDamage
    ShowsWhatItHolds
    StaysInPlace
    MountsAreTold
    OnlyAllowedCalls
