SPECIFICATION Spec
CONSTANTS
    Nodes = {n1, n2, n3}
    Conns = {c1}
    n1 = n1
    n2 = n2
    n3 = n3
    c1 = c1
    MaxAllocations = 2
    CapacityThreshold = 80
    MaxAttempts = 2
    RowsMaySkip = FALSE
    RoomAnswers = {TRUE}
    Reports = {0}
    MaxAllocs = 4
    MaxNodeEvents = 2
    MaxManual = 0
    MaxInterrupts = 0
SYMMETRY Interchangeable
INVARIANTS
    OneCurrent
    CompletedSupersedes
    EndedReleasesMigrations
CHECK_DEADLOCK FALSE
