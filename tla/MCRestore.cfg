SPECIFICATION FairSpec
CONSTANTS
    c = c  s = s  g = g  x = x
    b1 = b1  b2 = b2  b3 = b3
    None = None  Foreign = Foreign  Garbage = Garbage
    Files <- MCFiles
    Blobs <- MCBlobs
    Kind <- MCKind
    Chunks <- MCChunks
    Shrinks = {b1, b2}
    Framed = {b2}
    MaxRuns = 2
    Setups <- MCSetups
INVARIANTS NeverPartial ReturnedComplete RestoredStays CleanStaging
PROPERTIES KeepsExisting RunReturns
CHECK_DEADLOCK FALSE
