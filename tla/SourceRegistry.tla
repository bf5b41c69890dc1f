--------------------------- MODULE SourceRegistry ---------------------------
(***************************************************************************)
(* The source registries (simple/manifest.go), one file per source, and    *)
(* updateSourceRegistry (simple/pipeline.go), which every backup run calls *)
(* after its manifest is saved: load, change, write atomically, with no    *)
(* lock.  The application edits the same file, other calls list or delete  *)
(* it.  Of the fields the model keeps the identity, the schema version,    *)
(* the snapshot count, the last snapshot and the pins the application sets.*)
(***************************************************************************)
EXTENDS Naturals, FiniteSets

CONSTANTS Sources,    \* cloud IDs
          Runs,       \* backup runs; a run's number is its timestamp
          Edits,      \* edits of the application, one pin each
          SourceOf,   \* the source of a run or an edit
          InitFiles,  \* the registry files at the start
          Setups,     \* the deployments considered
          None        \* no file

CurrentVersion == 1
Writers == Runs \cup Edits
FaultKinds == {"manifest", "read", "write", "rename", "sync", "rot", "kill", "power"}

(* A deployment: whether its callers run one writer per source at a time,  *)
(* which other calls they make, and what may go wrong.                     *)
Setup == [serial : BOOLEAN, deletes : BOOLEAN, lists : BOOLEAN,
          faults : SUBSET FaultKinds]

(* A registry file; one that is not intact fails its checksum.             *)
Registries == [id : Sources, version : Nat, count : Nat, last : Nat,
               pins : SUBSET Edits, intact : BOOLEAN]

(* The files at the start count no snapshot, since there is none.          *)
ASSUME RegistryAssumption ==
    /\ Runs \subseteq Nat /\ IsFiniteSet(Runs) /\ Runs \cap Edits = {}
    /\ SourceOf \in [Writers -> Sources]
    /\ Setups \subseteq Setup
    /\ None \notin Registries
    /\ InitFiles \subseteq [Sources -> {None} \cup
                              {r \in Registries : r.count = 0 /\ r.last = 0 /\ r.pins = {}}]

VARIABLES setup,    \* the deployment, fixed at the start
          reg,      \* the registry file of each source
          synced,   \* the same, as of the last fsync of its directory
          writer,   \* per run or edit: its step and the registry it holds
          saved,    \* the runs whose manifest was saved
          list      \* the listing under way

vars == <<setup, reg, synced, writer, saved, list>>

Registry(s, version, count, last, pins) ==
    [id |-> s, version |-> version, count |-> count, last |-> last,
     pins |-> pins, intact |-> TRUE]

(* What updateSourceRegistry starts from when nothing can be loaded.       *)
Fresh(s) == Registry(s, CurrentVersion, 0, 0, {})

NoWriter == [step |-> "idle", reg |-> None]
NoList == [step |-> "idle", todo |-> {}, ok |-> {}, failed |-> {}, stay |-> {}]

Init ==
    /\ setup \in Setups
    /\ reg \in InitFiles
    /\ synced = reg
    /\ writer = [x \in Writers |-> NoWriter]
    /\ saved = {}
    /\ list = NoList

-----------------------------------------------------------------------------
To(x, step) == writer' = [writer EXCEPT ![x].step = step]

(* Callers that serialise the writers of a source.                         *)
MayStart(x) ==
    setup.serial => \A y \in Writers : SourceOf[y] = SourceOf[x] =>
                                   writer[y].step \in {"idle", "done", "dead"}

(* Mutant: the registry is updated although the manifest was not saved.    *)
BackupAnyway(x) ==
    /\ writer[x].step = "idle" /\ x \in Runs /\ MayStart(x)
    /\ \/ saved' = saved \cup {x}
       \/ "manifest" \in setup.faults /\ UNCHANGED saved
    /\ To(x, "load")
    /\ UNCHANGED <<setup, reg, synced, list>>

(* A run up to the save of its manifest; a failed save ends the run.       *)
Backup(x) ==
    /\ writer[x].step = "idle" /\ x \in Runs /\ MayStart(x)
    /\ \/ To(x, "load") /\ saved' = saved \cup {x}
       \/ "manifest" \in setup.faults /\ To(x, "done") /\ UNCHANGED saved
    /\ UNCHANGED <<setup, reg, synced, list>>

(* The application starts an edit.                                         *)
StartEdit(x) ==
    /\ writer[x].step = "idle" /\ x \in Edits /\ MayStart(x)
    /\ To(x, "load")
    /\ UNCHANGED <<setup, reg, synced, saved, list>>

(* LoadSourceRegistry and DecodeSourceRegistry: the checksum, the version  *)
(* and the identity.                                                       *)
Loads(s) == /\ reg[s] # None
            /\ reg[s].intact
            /\ reg[s].version <= CurrentVersion
            /\ reg[s].id = s

(* The version is stamped by EncodeSourceRegistry.                         *)
Changed(x, r) ==
    IF x \in Runs
    THEN [r EXCEPT !.last = x, !.count = @ + 1, !.version = CurrentVersion]
    ELSE [r EXCEPT !.pins = @ \cup {x}, !.version = CurrentVersion]

(* Mutant: the registry is built anew at every run.                        *)
LoadFresh(x) ==
    LET s == SourceOf[x] IN
    /\ writer[x].step = "load"
    /\ writer' = [writer EXCEPT ![x] =
                    [step |-> "write", reg |-> Changed(x, Fresh(s))]]
    /\ UNCHANGED <<setup, reg, synced, saved, list>>

(* Load and change.  Any error of the load makes a fresh registry; an edit *)
(* gives up on one, unless there is no file.                               *)
Load(x) ==
    LET s == SourceOf[x] IN
    /\ writer[x].step = "load"
    /\ \/ /\ Loads(s)
          /\ writer' = [writer EXCEPT ![x] =
                          [step |-> "write", reg |-> Changed(x, reg[s])]]
       \/ /\ ~Loads(s) \/ "read" \in setup.faults
          /\ IF x \in Runs \/ reg[s] = None
             THEN writer' = [writer EXCEPT ![x] =
                               [step |-> "write", reg |-> Changed(x, Fresh(s))]]
             ELSE To(x, "done")
    /\ UNCHANGED <<setup, reg, synced, saved, list>>

(* SaveSourceRegistry: MkdirAll, then WriteFileAtomic.  An error is logged.*)
Write(x) ==
    /\ writer[x].step = "write"
    /\ \/ To(x, "rename")
       \/ "write" \in setup.faults /\ To(x, "done")
    /\ UNCHANGED <<setup, reg, synced, saved, list>>

Rename(x) ==
    LET s == SourceOf[x] IN
    /\ writer[x].step = "rename"
    /\ \/ To(x, "sync") /\ reg' = [reg EXCEPT ![s] = writer[x].reg]
       \/ "rename" \in setup.faults /\ To(x, "done") /\ UNCHANGED reg
    /\ UNCHANGED <<setup, synced, saved, list>>

Sync(x) ==
    LET s == SourceOf[x] IN
    /\ writer[x].step = "sync"
    /\ \/ synced' = [synced EXCEPT ![s] = reg[s]]
       \/ "sync" \in setup.faults /\ UNCHANGED synced
    /\ To(x, "done")
    /\ UNCHANGED <<setup, reg, saved, list>>

WriterStep(x) == Backup(x) \/ StartEdit(x) \/ Load(x) \/ Write(x) \/ Rename(x) \/ Sync(x)

(* DeleteSourceRegistry.                                                   *)
Delete(s) ==
    /\ setup.deletes /\ reg[s] # None
    /\ reg' = [reg EXCEPT ![s] = None]
    /\ list' = [list EXCEPT !.stay = @ \ {s}]
    /\ UNCHANGED <<setup, synced, writer, saved>>

-----------------------------------------------------------------------------
(* ListSourceRegistries: walk the tree, load each file it meets.  The walk *)
(* is in the order of names, which may be any.                             *)
ListBegin ==
    LET files == {s \in Sources : reg[s] # None} IN
    /\ setup.lists /\ list.step = "idle"
    /\ list' = [step |-> "walk", todo |-> files, ok |-> {}, failed |-> {}, stay |-> files]
    /\ UNCHANGED <<setup, reg, synced, writer, saved>>

(* Mutant: a registry that does not load is skipped.                       *)
ListNextSkips(s) ==
    /\ list.step = "walk" /\ s \in list.todo
    /\ list' = [list EXCEPT !.todo = @ \ {s},
                            !.ok = IF Loads(s) THEN @ \cup {s} ELSE @]
    /\ UNCHANGED <<setup, reg, synced, writer, saved>>

(* A failure to load is reported with the registries that did load; a file *)
(* that is gone may be passed over.                                        *)
ListNext(s) ==
    /\ list.step = "walk" /\ s \in list.todo
    /\ \/ /\ Loads(s)
          /\ list' = [list EXCEPT !.todo = @ \ {s}, !.ok = @ \cup {s}]
       \/ /\ ~Loads(s) \/ "read" \in setup.faults
          /\ list' = [list EXCEPT !.todo = @ \ {s}, !.failed = @ \cup {s}]
       \/ reg[s] = None /\ list' = [list EXCEPT !.todo = @ \ {s}]
    /\ UNCHANGED <<setup, reg, synced, writer, saved>>

(* The tree cannot be read: the listing returns an error and nothing else. *)
ListFail ==
    /\ list.step = "walk" /\ "read" \in setup.faults
    /\ list' = NoList
    /\ UNCHANGED <<setup, reg, synced, writer, saved>>

ListEnd ==
    /\ list.step = "walk" /\ list.todo = {}
    /\ list' = [list EXCEPT !.step = "done"]
    /\ UNCHANGED <<setup, reg, synced, writer, saved>>

-----------------------------------------------------------------------------
(* A registry file is damaged.                                             *)
Rot(s) ==
    /\ "rot" \in setup.faults /\ reg[s] # None
    /\ reg' = [reg EXCEPT ![s].intact = FALSE]
    /\ UNCHANGED <<setup, synced, writer, saved, list>>

Die(xs) == writer' = [x \in Writers |->
                        IF x \in xs /\ writer[x].step \notin {"idle", "done"}
                        THEN [writer[x] EXCEPT !.step = "dead"] ELSE writer[x]]

Kill(x) ==
    /\ "kill" \in setup.faults
    /\ Die({x})
    /\ UNCHANGED <<setup, reg, synced, saved, list>>

(* An entry is as it was fsynced last or as it was seen last.              *)
PowerLoss ==
    /\ "power" \in setup.faults
    /\ Die(Writers)
    /\ list' = NoList
    /\ \E back \in SUBSET Sources :
         /\ reg' = [s \in Sources |-> IF s \in back THEN synced[s] ELSE reg[s]]
         /\ synced' = reg'
    /\ UNCHANGED <<setup, saved>>

Next ==
    \/ \E x \in Writers : WriterStep(x) \/ Kill(x)
    \/ \E s \in Sources : Delete(s) \/ Rot(s) \/ ListNext(s)
    \/ ListBegin \/ ListFail \/ ListEnd
    \/ PowerLoss

Spec == Init /\ [][Next]_vars

-----------------------------------------------------------------------------
RunsOf(s) == {x \in saved : SourceOf[x] = s}

(* The registry never runs ahead of the manifests: the snapshot it names   *)
(* as the last one exists, and it counts no more snapshots than there are, *)
(* whatever crashes, failing calls and overlapping runs do.                *)
RegistryNotAhead ==
    \A s \in Sources : reg[s] # None /\ reg[s].id = s =>
        /\ reg[s].last \in RunsOf(s) \cup {0}
        /\ reg[s].count <= Cardinality(RunsOf(s))

(* Where writers of a source take turns, no call fails and no registry is  *)
(* deleted, the registry counts every snapshot and keeps every pin.        *)
NothingLost ==
    setup.serial /\ ~setup.deletes /\ setup.faults \subseteq {"manifest"} =>
    \A s \in Sources :
        (\A x \in Writers : SourceOf[x] = s => writer[x].step \in {"idle", "done"}) =>
            LET pins == {x \in Edits : SourceOf[x] = s /\ writer[x].step = "done"}
                r == IF reg[s] = None THEN Fresh(s) ELSE reg[s] IN
            r.count = Cardinality(RunsOf(s)) /\ r.pins = pins

(* "a corrupt registry must never be silently mistaken for a source that   *)
(* does not exist": a listing accounts for every registry that was there   *)
(* all the while, among those that loaded or among the failures.           *)
ListAccountsForAll ==
    list.step = "done" => list.stay \subseteq list.ok \cup list.failed

=============================================================================
