SPECIFICATION Spec
CONSTANTS
    Jobs = {j1, j2, j3}
    Peers = {p1}
    MaxDiskFaults = 1
    MaxCrashes = 1
CHECK_DEADLOCK FALSE
SYMMETRY Symmetry
INVARIANTS
    FederationTypeOK
    SpendCoversMoney
    
    PursuitNotForgotten
