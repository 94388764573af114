CONSTANTS
    RealmTypes = {Device}
    RealmUuids = {}
    RealmNames = {A, B}
    Empty = Empty
    Device = Device
    A = A
    B = B
    operator = operator
    drive = drive
    crew = crew
    StoreRealms <- MCStoreRealms
    Refs <- MCRefs
    AclIds = {crew}
    Entries = {drive}
    MaxRows = 1
    InitFiles <- MCInitFiles
SPECIFICATION Spec
INVARIANTS
    AclIdsAreUnique
    OnlyUpdatesAreLost
PROPERTIES
    Isolation
    RevocationsHold
VIEW View
