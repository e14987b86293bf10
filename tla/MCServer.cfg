SPECIFICATION FairServerSpec
CONSTANTS
    s1 = s1
    s2 = s2
    s3 = s3
    s4 = s4
    Session = {s1, s2, s3, s4}
    Request = {a, b}
    MaxBatch = 2
    Malformed = {s4}
    Refuses = TRUE
    MaxCompleted = 3
    MaxTimeouts = 1
    Reader = {}
    TraceOf <- Traces
    MaxPerTrace = 1
    Legacy = {}
    DiskFails = TRUE
    DirRefuses = FALSE
    LogFails = FALSE
    PowerFails = FALSE
    MaxRot = 0
    MaxRestarts = 1
INVARIANTS
    DeliveredIsServed
    OneHandlerPerSession
PROPERTIES
    RequestsEnd
CHECK_DEADLOCK FALSE
