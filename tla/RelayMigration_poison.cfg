SPECIFICATION FairSpec
CONSTANTS
    Nodes = {n1, n2}
    Conns = {c1}
    n1 = n1
    n2 = n2
    c1 = c1
    MaxAllocations = 2
    CapacityThreshold = 80
    MaxAttempts = 2
    RowsMaySkip = FALSE
    RoomAnswers = {TRUE}
    Reports = {0}
    MaxAllocs = 3
    MaxNodeEvents = 1
    MaxManual = 0
    MaxInterrupts = 0
PROPERTIES
    MigratingSettles
CHECK_DEADLOCK FALSE
