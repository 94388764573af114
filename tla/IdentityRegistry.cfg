SPECIFICATION Spec
CONSTANTS
    Empty = Empty
    device = device
    app = app
    tankA = tankA
    tankB = tankB
    storeA = storeA
    storeB = storeB
    ldap = ldap
    idStore = idStore
    idLdap = idLdap
    RealmTypes = {device, app}
    RealmUuids = {}
    RealmNames = {tankA, tankB}
    Services = {storeA, storeB, ldap}
    ServiceIds = {idStore, idLdap}
    NoService = NoService
    ServiceId <- MCServiceId
    Slots <- MCSlots
INVARIANTS
    SlotsApart
    LoadFindsBound
    AnswersHold
