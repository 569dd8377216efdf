SPECIFICATION Spec
CONSTANTS
    Admins = {a1, a2}
    Slots = {s1, s2}
    a1 = a1
    a2 = a2
    s1 = s1
    s2 = s2
    HubBuffer = 2
    GraceAttempts = 2
    Faults = {"break", "crash", "restart", "lost", "disk"}
    MaxOrders = 2
    MaxRenewals = 1
    MaxFaults = 1
SYMMETRY Interchangeable
INVARIANTS
    LostRenewalStaysDue
PROPERTIES
    RevokedUnlessRacing
    KeepsLifecycle
CHECK_DEADLOCK FALSE
