SPECIFICATION Spec
CONSTANTS
    h1 = h1
    h2 = h2
    Homes = {h1, h2}
    MaxVers = 3
    MaxPushes = 4
SYMMETRY Machines
CONSTRAINT Unbroken
CHECK_DEADLOCK FALSE
INVARIANTS
    
    NotLost
PROPERTIES
    CarriesOn
