SPECIFICATION FairSpec
CONSTANTS
    s1 = s1
    s2 = s2
    Session = {s1, s2}
    Reader = {r1}
    TraceOf <- OneTrace
    MaxPerTrace = 1
    Legacy = {}
    DiskFails = TRUE
    DirRefuses = TRUE
    LogFails = TRUE
    PowerFails = TRUE
    MaxRot = 1
    MaxRestarts = 1
INVARIANTS
    AckedReadable
    AckedFindable
    AckedFileKept
PROPERTIES
    StoreEnds
CHECK_DEADLOCK FALSE
