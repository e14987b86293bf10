SPECIFICATION FairSpec
CONSTANTS
    Session = {1, 2, 3}
    MaxBufferSize = 2
    CircuitBreakerThreshold = 2
    MaxSpillFiles = 1
    MaxLinesPerFile = 2
    AppendFaults = {"torn", "unsynced"}
    FileFaults = {"unread", "kept"}
    Modes = {"graceful", "strict"}
    MaxRestarts = 1
INVARIANTS NoSilentDrop AtMostOneCopy BreakerMatchesFailures
PROPERTIES PendingOrderStable KeepsCustody LeavesMemory AckedAppendReadable
CHECK_DEADLOCK FALSE
