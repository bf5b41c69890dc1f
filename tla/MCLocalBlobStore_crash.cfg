SPECIFICATION FairSpec
CONSTANTS
    h1 = h1  h2 = h2  bad = bad
    t1 = t1  t2 = t2  t3 = t3
    i1 = i1  i2 = i2
    Hashes <- MCHashes2
    Malformed <- MCMalformed
    Threads <- MCThreads2
    Instances <- MCOneInstance
    InstanceOf <- MCTogether
    DeleteMode = "quiet"
    OldShards <- MCHashes2
    Faults = {"write", "rename", "remove", "power"}
INVARIANT AckedStored
PROPERTY CallsReturn
