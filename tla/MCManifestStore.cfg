SPECIFICATION ManifestFairSpec
CONSTANTS
    a = a  b = b  c = c  l = l  p = p  q = q
    None = None  Partial = Partial  MaxDamaged = 1
    Saves <- MCSaves
    Legacy = {l}
    Second <- MCSecond
    Procs <- MCProcs
    ProcOf <- MCProcOf
    RemoverProc = q
    HexSuffixes = {1}
    MaxAttempts = 2
    Setups <- MCSetups
INVARIANTS AckedKept LoadFinds LoadedIsLatest
PROPERTY SavesReturn
CHECK_DEADLOCK FALSE
