SPECIFICATION Spec
CONSTANTS
    s1 = s1
    s2 = s2
    Session = {s1, s2}
    Reader = {r1, r2}
    TraceOf <- OneTrace
    MaxPerTrace = 2
    Legacy = {}
    DiskFails = FALSE
    DirRefuses = FALSE
    LogFails = FALSE
    PowerFails = FALSE
    MaxRot = 1
    MaxRestarts = 0
PROPERTIES
    QuarantineSparesGood
CHECK_DEADLOCK FALSE
