SPECIFICATION Spec
CONSTANTS
    p1 = p1
    p2 = p2
    g1 = g1
    noProc = noProc
    Procs = {p1, p2}
    Grants = {g1}
    NoProc = noProc
    NoGrant = noGrant
    NoFence = noFence
    Torn = torn1
    noGrant = noGrant
    noFence = noFence
    torn1 = torn1
    UnixTime = 10
    MaxMoves = 3
    MaxSeq = 1
    MaxAsked = 3
    MaxFaults = 1
SYMMETRY Workers
CHECK_DEADLOCK FALSE
INVARIANTS
    DurableParked
    NoneResumedTwice
    
    
PROPERTIES
    FencesAscend
