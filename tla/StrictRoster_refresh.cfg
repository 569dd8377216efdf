SPECIFICATION FairSpec
CONSTANTS
    p1 = p1
    p2 = p2
    Players = {p1, p2}
    Host = p1
    TeamOne = {p1}
    HostingKinds = {"P2P"}
    MaxRoute = 3
    MaxGrants = 1
PROPERTIES
    AlwaysRefreshed
CHECK_DEADLOCK FALSE
