SPECIFICATION Spec
CONSTANTS
    src = src  other = other  e = e
    None = None
    Sources <- MCSources
    Runs <- MCRuns
    Edits = {e}
    SourceOf <- MCSourceOf
    InitFiles <- MCInit
    Setups <- MCSetups
INVARIANTS  NothingLost ListAccountsForAll
CHECK_DEADLOCK FALSE
