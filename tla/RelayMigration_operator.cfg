SPECIFICATION Spec
CONSTANTS
    Nodes = {n1, n2, n3}
    n3 = n3
    Conns = {c1}
    n1 = n1
    n2 = n2
    c1 = c1
    MaxAllocations = 2
    CapacityThreshold = 80
    MaxAttempts = 1
    RowsMaySkip = TRUE
    RoomAnswers = {TRUE, FALSE}
    Reports = {0}
    MaxAllocs = 3
    MaxNodeEvents = 1
    MaxManual = 1
    MaxInterrupts = 1
SYMMETRY Interchangeable
INVARIANTS
    TypeOK
    OneBinding
PROPERTIES
    EndedStaysEnded
    DeadStaysDead
    Accounted
CHECK_DEADLOCK FALSE
