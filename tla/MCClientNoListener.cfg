SPECIFICATION Spec
CONSTANTS
    Session = {1, 2}
    MaxBufferSize = 1
    CircuitBreakerThreshold = 2
    MaxSpillFiles = 2
    MaxLinesPerFile = 2
    AppendFaults = {"none"}
    FileFaults = {}
    Modes = {"unheard"}
    MaxRestarts = 0
INVARIANTS
    NoSilentDrop
CHECK_DEADLOCK FALSE
