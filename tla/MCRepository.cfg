SPECIFICATION Spec
CONSTANTS
    Procs = {p1, p2}
    Passwords = {w1, w2}
    NoFile = NoFile
    MaxCalls = 4
    MaxFaults = 2
INVARIANTS KeyKept EncryptedHasKey GrantedUnlocks
PROPERTIES PolynomialSettles
CHECK_DEADLOCK FALSE
