SPECIFICATION FairSpec
CONSTANTS
    p1 = p1
    p2 = p2
    Players = {p1, p2}
    Host = p1
    TeamOne = {p1}
    HostingKinds = {"P2P", "DEDICATED"}
    MaxRoute = 3
    MaxGrants = 3
INVARIANTS
    SeatTruth
    ReadyMeansInstalled
    ValidGrantAdmitted
    ConnectedWasAdmitted
    SpentByAdmission
PROPERTIES
    EndIsFinal
    KeepsSeats
    RefreshEnds
CHECK_DEADLOCK FALSE
