SPECIFICATION FairSpec
CONSTANTS
    Nodes = {n1, n2}
    Conns = {c1}
    n1 = n1
    n2 = n2
    c1 = c1
    MaxAllocations = 2
    CapacityThreshold = 80
    MaxAttempts = 2
    RowsMaySkip = TRUE
    RoomAnswers = {TRUE, FALSE}
    Reports = {0}
    MaxAllocs = 3
    MaxNodeEvents = 0
    MaxManual = 1
    MaxInterrupts = 0
PROPERTIES
    BindingResolves
    MigrationSettles
CHECK_DEADLOCK FALSE
