SPECIFICATION UnixSpec
CONSTANTS
    Sock = {s1, s2, s3, s4}
    Task = {p1, p2}
    MaxFds = 1
    MaxQueue = 2
    MaxPass = 2
    MaxTotal = 2
    Nothing = Nothing
SYMMETRY SockSymmetry
CHECK_DEADLOCK FALSE
INVARIANTS
    CountsRight
    MarkInvariant
    OrphansExact
