CONSTANTS
    Procs = {p1, p2}
    Grants = {g1}
    Names = {s1}
    Anon = Anon
    NoProc = NoProc
    NoFiber = NoFiber
    FiberMax = 1
    Ops = {"clone", "park", "yield", "discard"}
    AnyReadmit = TRUE
    RuntimeFails = FALSE
    MaxSeq = 2
    MaxEpoch = 1
    MaxInc = 2
SPECIFICATION FairSpec
PROPERTIES
    CallsReturn
    RevokedGo
    ImplementsService
