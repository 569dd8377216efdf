SPECIFICATION Spec
CONSTANTS
    Owners = {o1, o2}
    Listeners = {l1, l2}
    Pipes = {p1, p2}
    o1 = o1
    o2 = o2
    l1 = l1
    l2 = l2
    p1 = p1
    p2 = p2
    None = None
    MaxFrames = 1
    MaxProtocolErrors = 2
    MaxCalls = 3
INVARIANTS
    PipeOutlivesUse
    EventOutlivesWaits
    FaultIsOwn
    ListenerOwned
    StopNeverStuck
PROPERTIES
    StopFinishes
    StopReturns
    FaultEnds
CHECK_DEADLOCK FALSE
