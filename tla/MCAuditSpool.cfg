CONSTANTS
    Procs = {p1, p2}
    Every = 2
    Faults = {"clean", "torn"}
    MaxLines = 6
SPECIFICATION FairSpec
INVARIANTS
    
    AckedSurvive
    LostAreNamed
PROPERTIES
    AppendReturns
CHECK_DEADLOCK FALSE
