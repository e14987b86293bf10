SPECIFICATION ReplaySpec
CONSTANTS
    MaxEvents = 20
    Marker <- MCMarker
    Kinds = {"date", "fetch", "empty_fetch", "pg"}
    Incidents = {"timer_set"}
    MaxOps = 2
    MaxTicks = 1
    Engine = {e1, e2}
    Seeks = {0}
INVARIANTS
    MocksGone
    FlagIsHeld
    FollowedHandlersReplay
SYMMETRY Symmetry
