SPECIFICATION Spec
CONSTANTS
    h1 = h1  h2 = h2  bad = bad
    t1 = t1  t2 = t2  t3 = t3
    i1 = i1  i2 = i2
    Hashes <- MCHashes1
    Malformed <- MCNone
    Threads <- MCThreads3
    Instances <- MCTwoInstances
    InstanceOf <- MCApart
    DeleteMode = "quiet"
    OldShards <- MCHashes1
    Faults = {"stat", "sync", "kill"}
INVARIANTS StoreInv
PROPERTY ImplementsBlobStore
