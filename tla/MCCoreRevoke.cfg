CONSTANTS
    Procs = {p1, p2}
    Grants = {g1}
    Names = {s1}
    Anon = Anon
    NoProc = NoProc
    NoFiber = NoFiber
    FiberMax = 2
    Ops = {"clone", "park", "yield", "bump", "drain"}
    AnyReadmit = TRUE
    RuntimeFails = FALSE
    MaxSeq = 2
    MaxEpoch = 2
    MaxInc = 2
SPECIFICATION Spec
SYMMETRY MCSymmetry
INVARIANTS
    SessionRunsOnce
    FenceOnce
    NoneEscapes
    DrainCoversAll
