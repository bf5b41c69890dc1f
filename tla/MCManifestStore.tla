--------------------------- MODULE MCManifestStore ---------------------------
(* A small instance of ManifestStore: manifests a, b and c of one second,  *)
(* saved by two processes, and a legacy manifest l of the second before.   *)
EXTENDS ManifestStore

CONSTANTS a, b, c, l, p, q

MCSaves == {a, b, c}
MCSecond == [m \in {a, b, c, l} |-> IF m = l THEN 1 ELSE 2]
MCProcs == {p, q}
MCProcOf == [s \in {a, b, c} |-> IF s = a THEN p ELSE q]

MCSetup(saves, old, reads, removals, faults) ==
    [saves |-> saves, legacy |-> old, reads |-> reads, removals |-> removals,
     faults |-> faults]

MCSetups ==
    { \* more saves than free names
      MCSetup({a, b, c}, {}, {}, {}, {"kill"}),
      \* every failure of two saves and a removal, in a new directory
      MCSetup({a, b}, {}, {}, {"delete"},
              {"invalid", "stage", "link", "unlink", "sync", "remove", "kill", "power"}),
      \* readers while manifests are saved, and damaged or deleted
      MCSetup({a, b}, {l}, {"latest", "byTimestamp", "list"}, {}, {"rot"}),
      MCSetup({a, b}, {}, {"latest"}, {}, {"coarse"}),
      MCSetup({a, b}, {l}, {"latest"}, {"delete"}, {}),
      MCSetup({a, b}, {l}, {"list"}, {"delete"}, {}),
      \* every kind of removal
      MCSetup({a}, {l}, {}, {"trash", "delete", "trashAll", "deleteAll", "clean"}, {}),
      MCSetup({a}, {l}, {}, {"trash", "deleteAll"}, {"rename", "remove"}),
      \* a trash on another device
      MCSetup({a}, {l}, {}, {"trash", "trashAll", "clean"},
              {"exdev", "copy", "remove", "kill", "power"}),
      \* power losses in a directory that has been there, and that comes anew
      MCSetup({a, b}, {l}, {}, {"deleteAll"}, {"power"}) }
==============================================================================
