SPECIFICATION FairSpec
CONSTANTS
    Admins = {a1}
    Slots = {s1, s2}
    a1 = a1
    s1 = s1
    s2 = s2
    HubBuffer = 1
    GraceAttempts = 2
    Faults = {"break", "outage", "keyset"}
    MaxOrders = 1
    MaxRenewals = 1
    MaxFaults = 1
PROPERTIES
    IdentityKeptOnline
    RenewsOnline
    RevocationCutsOff
    GraceDrains
CHECK_DEADLOCK FALSE
