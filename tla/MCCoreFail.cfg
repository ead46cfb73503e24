CONSTANTS
    Procs = {p1, p2}
    Grants = {g1}
    Names = {s1}
    Anon = Anon
    NoProc = NoProc
    NoFiber = NoFiber
    FiberMax = 2
    Ops = {"clone", "park", "release", "yield", "discard"}
    AnyReadmit = TRUE
    RuntimeFails = TRUE
    MaxSeq = 2
    MaxEpoch = 1
    MaxInc = 2
SPECIFICATION Spec
SYMMETRY MCSymmetry
INVARIANTS
    
    
    DeadAreNoticed
    
