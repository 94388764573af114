SPECIFICATION Spec
CONSTANTS
    Devices = {"tank-a", "tank-b"}
    FirstDevice = "tank-a"
    Users <- MCUsers
    Secrets = {"right", "wrong"}
    Accounts <- MCAccounts
    Permits <- MCPermits
    FirstMet = {"tank-a"}
    Keys = {"start", "fire", "forward", "left"}
    Typed <- MCTyped
    NoUser = "(none)"
    Terms <- MCTerms
    MaxLogins = 1
    MaxBatch = 2
    MaxBullets = 1
    MaxOps = 1
INVARIANTS
    WindowsTile
PROPERTIES
    TanksObey
    SessionsChangeByLogin
CHECK_DEADLOCK FALSE
