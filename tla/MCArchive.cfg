SPECIFICATION Spec
CONSTANTS
    IndexNames <- MCIndices
    Heaps <- MCHeaps
    MaxRedactDepth = 2
    FieldNames = {"password"}
    Secret = {"secret"}
    MaxDiffDepth = 6
    IgnoreFields = {"l"}
INVARIANTS NoSecretKept RedactsNothingElse ReadsWhatWasWritten DifferencesAreReal DifferencesAreFound
CHECK_DEADLOCK FALSE
