SPECIFICATION ProbeSpec
CONSTANTS
    Route = {"a", "b"}
    Rates = {0, 1}
    FullRate = 1
    Configs <- MCConfigs
    MaxTrackedPaths = 2
    Window = 1
    PruneEvery = 2
    EnoughRequests = 1
    ThresholdPercent = 50
    OverrideFor = 1
    MaxNow = 1
    MaxForces = 1
    MaxEvents = 2
    Marker = "marker"
    Request = {r1, r2}
    Features = {"fs_interceptor", "database_interceptor"}
    Drivers = {"pg"}
    MaxNotes = 1
    MaxEnds = 3
INVARIANTS
    ErrorsNeverMissed
    NewPathOnce
    Framed
    ErrorsAreRequests
SYMMETRY Symmetry
