SPECIFICATION Spec
CONSTANTS
    Players = {p1, p2}
    p1 = p1
    p2 = p2
    m1 = m1
    m2 = m2
    m3 = m3
    Playlist <- ThreeMaps
    CandidateCount = 2
    VoteDuration = 2
    TravelTimeout = 3
    NativeDedicated = FALSE
    NoMap = NoMap
    MaxWorlds = 5
    MaxLate = 0
PROPERTIES
    BrowseFailsForCause
CHECK_DEADLOCK FALSE
