SPECIFICATION Spec
CONSTANTS
    Units <- MCUnits
    CutUnits <- MCCutUnits
    InitFile <- MCInit
    MaxLen = 3
    MaxWrites = 1
    MaxRuns = 1
    ChunkUnits = 2
    RetainUnits = 2
    Setups <- MCTruncated
    Faults = {}
INVARIANT ChunksUploaded
CHECK_DEADLOCK FALSE
