SPECIFICATION GrantsSpec
CONSTANTS
    Paths = {a, b}
    MaxGrants = 2
    MaxStream = 1
    MaxCalls = 3
    MaxDialogs = 2
    MaxReloads = 1
    MaxFaults = 1
SYMMETRY MCSymmetry
INVARIANTS KeptUnlessOvertaken 
PROPERTIES WrittenIsWhole
CHECK_DEADLOCK FALSE
