----------------------------- MODULE MCRestore -----------------------------
(* Small instances of Restore: a file of two chunks, a small one that      *)
(* shares a chunk with it, a large single blob, and one that was locked.   *)
EXTENDS Restore

CONSTANTS c, s, g, x, b1, b2, b3

MCFiles == {c, s, g, x}
MCBlobs == {b1, b2, b3}
MCKind == [f \in MCFiles |-> CASE f = c -> "chunked" [] f = s -> "small"
                               [] f = g -> "large" [] f = x -> "failed"]
MCChunks == [f \in MCFiles |-> CASE f = c -> <<b1, b2>> [] f = s -> <<b2>>
                                 [] f = g -> <<b3>> [] f = x -> <<>>]

MCSetup(over, fresh, faults) ==
    [overwrite |-> over, fresh |-> fresh, faults |-> faults]

MCQuiet == {MCSetup(over, fresh, {}) : over, fresh \in BOOLEAN}
MCSetups ==
    MCQuiet \cup
    UNION {{ \* a call fails, or a blob is damaged
             MCSetup(over, FALSE, {"load", "mkdir", "stat", "create", "stream", "get",
                                   "write", "sync", "rename", "fsync", "cancel"}),
             MCSetup(over, TRUE, {"stream", "damage", "mkdir"}),
             MCSetup(over, TRUE, {"write", "sync", "unlink"}),
             \* the run is cut short
             MCSetup(over, FALSE, {"kill", "power", "fsync"}),
             MCSetup(over, TRUE, {"power"}),
             \* another program writes the files
             MCSetup(over, FALSE, {"foreign", "kill"})} : over \in BOOLEAN}
=============================================================================
