SPECIFICATION Spec
CONSTANTS
    Units <- MCUnits
    CutUnits <- MCCutUnits
    InitFile <- MCInit
    MaxLen = 4
    MaxWrites = 2
    MaxRuns = 3
    ChunkUnits = 2
    RetainUnits = 3
    Setups <- MCSetups
    Faults = {"open", "exists", "permission", "put", "loss"}
INVARIANTS BlobsHonest NoDangling EntryFresh EntryAccepted
CHECK_DEADLOCK FALSE
