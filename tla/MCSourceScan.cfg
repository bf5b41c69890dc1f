CONSTANTS
    SortedNames <- MCSortedNames
    MaxDepth = 3
    TmpNames = {"t"}
    IgnoreFileName = "i"
    StartsWith <- MCStartsWith
    Sources <- MCSources
    MaxInt64 = 7
    MaxChanges = 1
    MaxRuns = 2
SPECIFICATION Spec
INVARIANTS NothingOmitted ExcludedStaysOut TreeIsWhole ReportedHasChanged
CHECK_DEADLOCK FALSE
