SPECIFICATION Spec
CONSTANTS
    Procs = {g1, g2}
    Parents = {p1}
    Warms = {w1}
    Deltas = {d1, d2}
    NoParent = NoParent
    MaxSections = 2
    MaxUnread = 1
    PruneScans = 2
CHECK_DEADLOCK FALSE
INVARIANTS
    NamedThere
    InUse
    

    
