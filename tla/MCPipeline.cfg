SPECIFICATION FairSpec
CONSTANTS
    f1 = f1  f2 = f2  f3 = f3
    w1 = w1  w2 = w2  Main = Main
    Files <- MCFiles
    PrevFiles <- MCPrevFiles
    Workers <- MCWorkers
    Threads <- MCThreads
    Cap = 1
    AllowScanErrors = TRUE
    Faults = {"prepare", "scan", "error", "locked", "denied", "save"}
INVARIANTS SavedIsWhole CompleteIsComplete CompleteIsLast
PROPERTY RunReturns
