----------------------------- MODULE MCPipeline -----------------------------
(* A small instance of Pipeline: more files than the channel holds.        *)
EXTENDS Pipeline

CONSTANTS f1, f2, f3, w1, w2

MCFiles == {f1, f2, f3}
MCPrevFiles == {f1}
MCWorkers == {w1, w2}
MCThreads == MCWorkers \cup {Main}
=============================================================================
