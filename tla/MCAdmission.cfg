SPECIFICATION FairAdmissionSpec
CONSTANTS
    Key = {k1, k2, k3}
    Cost = 3
    MaxTokens = 3
    RefillRate = 2
    MaxBuckets = 2
    StaleAfter = 2
    CleanupAfter = 4
    MaxElapsed = 4
    MaxStep = 2
    MaxForgotten = 1
    Connection = {c1}
    MaxBodyBytes = 3
    ChunkSizes = {2}
    Lengths = {0, 4}
INVARIANTS
    WithinRate
    TimerOnlyWhileReading
PROPERTIES
    BodiesEnd
CHECK_DEADLOCK FALSE
