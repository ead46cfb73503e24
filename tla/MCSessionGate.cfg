CONSTANTS
    Procs = {p1, p2, p3}
    Keys = {k1, k2}
    Gates = {g1, g2, g3}
    NoKey = NoKey
    NoGate = NoGate
    NoProc = NoProc
SPECIFICATION FairSpec
INVARIANTS
    MutualExclusion
PROPERTIES
    ImplementsKeyedLock
    WaiterServed
