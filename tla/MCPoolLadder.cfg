SPECIFICATION Spec
CONSTANTS
    Grants = {1, 2}
    Moving = {1}
    Clones = {c1}
    FiberWarm = 1
    FiberMax = 2
    YieldAfter = 2
CHECK_DEADLOCK FALSE
INVARIANTS
    Accounted
PROPERTIES
    TakesTurns
    PressureEmptiesPool
