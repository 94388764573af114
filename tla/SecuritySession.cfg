SPECIFICATION Spec
CONSTANTS
    Empty = Empty
    device = device
    global = global
    tankA = tankA
    tankB = tankB
    alice = alice
    bob = bob
    operator = operator
    gunner = gunner
    default = default
    pw = pw
    anon = anon
    storeA = storeA
    storeB = storeB
    idAnon = idAnon
    idStore = idStore
    view = view
    fire = fire
    NoAccount = NoAccount
    NoService = NoService
    NoPermission = NoPermission
    RealmTypes = {device, global}
    RealmUuids = {}
    RealmNames = {tankA, tankB}
    Permissions = {view, fire}
    IdentityNames = {alice, bob, operator, gunner, default}
    Specificities = {0}
    Services = {anon, storeA, storeB}
    ServiceIds = {idAnon, idStore}
    Users = {alice, bob}
    Roles = {operator, gunner}
    DefaultRole = operator
    DefaultName = default
    Secrets = {pw}
    DeviceType = device
    GlobalType = global
    Anonymous = anon
    ServiceId <- MCServiceId
    Slots <- MCSlots
    Rank <- MCRank
    Bindings <- MCBindings
    Unbound <- MCUnbound
    Grants <- MCGrants
    Requests <- MCSwitchRequests
    Logins <- MCLogins
    MaxCached = 2
    TypedRealms <- MCBlank
    AppCredentials <- MCAppCredentials
    AccountChanges = {}
    InitAccounts <- MCInitAccounts
INVARIANTS
    SessionsDoNotMix
PROPERTIES
    AutoSurvivesLogin
    LiftedByLogin
