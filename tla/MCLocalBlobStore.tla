-------------------------- MODULE MCLocalBlobStore --------------------------
(* Small instances of LocalBlobStore.                                      *)
EXTENDS LocalBlobStore

CONSTANTS h1, h2, bad, t1, t2, t3, i1, i2

MCHashes1 == {h1}
MCHashes2 == {h1, h2}
MCMalformed == {bad}
MCNone == {}
MCThreads2 == {t1, t2}
MCThreads3 == {t1, t2, t3}
MCOneInstance == {i1}
MCTwoInstances == {i1, i2}
MCTogether == [t \in Threads |-> i1]
MCApart == [t \in Threads |-> IF t = t1 THEN i2 ELSE i1]
=============================================================================
