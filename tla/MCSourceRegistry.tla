-------------------------- MODULE MCSourceRegistry --------------------------
(* Small instances of SourceRegistry: two runs and an edit on one source,  *)
(* and the registry of another.                                            *)
EXTENDS SourceRegistry

CONSTANTS src, other, e

MCSources == {src, other}
MCRuns == {1, 2}
MCSourceOf == [x \in {1, 2, e} |-> src]

(* The other source: a good registry, a damaged one, one copied from src.  *)
MCInit == {[x \in MCSources |-> IF x = other THEN r ELSE None] :
             r \in {Fresh(other), [Fresh(other) EXCEPT !.intact = FALSE], Fresh(src)}}

(* Writers that take turns; overlapping writers, any of whose calls may    *)
(* fail or be cut short; a listing while the files change.                 *)
MCSerial == [serial |-> TRUE, deletes |-> FALSE, lists |-> FALSE,
             faults |-> {"manifest"}]
MCCrash == [serial |-> FALSE, deletes |-> TRUE, lists |-> FALSE,
            faults |-> {"manifest", "read", "write", "rename", "sync", "kill",
                        "power"}]
MCList == [serial |-> FALSE, deletes |-> TRUE, lists |-> TRUE,
           faults |-> {"read", "rot"}]
MCSetups == {MCSerial, MCCrash, MCList}
=============================================================================
