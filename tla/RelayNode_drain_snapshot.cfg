\* What a reconnect does to the drain state of a node, with one administrator.
SPECIFICATION Spec
CONSTANTS
    a1 = a1
    s1 = s1
    Admins = {a1}
    Slots = {s1}
    HubBuffer = 2
    GraceAttempts = 2
    Faults = {"break"}
    MaxOrders = 1
    MaxRenewals = 0
    MaxFaults = 1
PROPERTIES
    SnapshotRestoresDrain
CHECK_DEADLOCK FALSE
