SPECIFICATION ClocksSpec
CONSTANTS
    n1 = n1
    n2 = n2
    Node <- MCNode
    MaxStamps <- MCMaxStamps
    MaxLogical = 8
    MaxDrift = 1
    HeaderDrift = 3
    HeaderLogical = 1
    Randoms = 3
    MaxTime = 2
INVARIANTS
    NeverFarAhead
PROPERTIES
    StampsIncrease
    ArrivesAfterHeader
    IdsFollowStamps
