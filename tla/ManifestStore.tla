--------------------------- MODULE ManifestStore ---------------------------
(***************************************************************************)
(* The manifest directory of one source (simple/manifest.go): saves by     *)
(* several processes through CommitFileNoReplace, the readers that list    *)
(* the directory and load the files one by one, removal into the trash or  *)
(* for good, and what a crash or a failing system call leaves behind.      *)
(*                                                                         *)
(* A manifest is a model value; its file is complete when it is linked     *)
(* under its name, so what a reader can tell apart is whether the file is  *)
(* there, is intact, and, for a legacy manifest, has its .sha256 sidecar.  *)
(***************************************************************************)
EXTENDS Naturals, FiniteSets

CONSTANTS Saves,        \* the manifests saved, one SaveManifestWithKey each
          Legacy,       \* manifests of an older version: body and sidecar
          Second,       \* the second of a manifest's timestamp
          Procs,        \* processes sharing the repository
          ProcOf,       \* the process of a save
          RemoverProc,  \* the process that removes manifests
          HexSuffixes,  \* the random suffixes, in name order
          MaxAttempts,  \* commit attempts of a save (8 in the code)
          MaxDamaged,   \* bound on the damaged manifests
          Partial,      \* a file that is being written
          Setups,       \* the situations considered
          None          \* no file

Manifests == Saves \cup Legacy
Seconds == {Second[m] : m \in Manifests}
ManifestFaults == {"invalid", "stage", "coarse", "link", "unlink", "sync", "rename",
                   "exdev", "copy", "remove", "rot", "kill", "power"}

(* A situation: the saves that are called, the legacy manifests there are, *)
(* the readers and the removals that are called, and what may go wrong.    *)
Setup == [saves : SUBSET Saves, legacy : SUBSET Legacy,
          reads : SUBSET {"latest", "byTimestamp", "list"},
          removals : SUBSET {"trash", "delete", "trashAll", "deleteAll", "clean"},
          faults : SUBSET ManifestFaults]

ASSUME ManifestAssumption ==
    /\ Saves \cap Legacy = {} /\ {None, Partial} \cap Manifests = {}
    /\ Second \in [Manifests -> Nat]
    /\ \A l, m \in Legacy : Second[l] = Second[m] => l = m
    /\ ProcOf \in [Saves -> Procs] /\ RemoverProc \in Procs
    /\ HexSuffixes \subseteq Nat \ {0} /\ IsFiniteSet(HexSuffixes)
    /\ MaxAttempts \in Nat \ {0} /\ MaxDamaged \in Nat
    /\ Setups \subseteq Setup

(* {unix}_{deviceID}.json.zst, suffix 0, or {unix}_{deviceID}_{6hex}.      *)
Names == [sec : Seconds, suf : HexSuffixes \cup {0}]
Primary(m) == [sec |-> Second[m], suf |-> 0]

VARIABLES setup,      \* the situation, fixed at the start
          dir,        \* the manifest at each name of the directory
          synced,     \* the directory as it was last fsynced
          exists,     \* whether the directory exists
          rooted,     \* whether its name, in its parent, is on the disk
          former,     \* where it is not: what the directory held, as fsynced,
                      \* whose name is there instead
          side,       \* names with a .sha256 sidecar next to them
          staging,    \* saves whose staging file is in the directory
          trash,      \* the source's trash directory
          trashSide,  \* sidecars in it
          mtime,      \* the modification time of each manifest's file
          clock,      \* the last modification time given
          bad,        \* manifests whose file no longer verifies
          save,       \* the calls of SaveManifestWithKey
          rm,         \* the removal under way
          load,       \* the reader under way
          gone,       \* manifests a removal has taken apart, or a power loss
                      \* with a directory whose name had not reached the disk
          trashed     \* manifests that were moved to the trash, until they are
                      \* cleaned or replaced by one of the same name

manifestVars == <<setup, dir, synced, exists, rooted, former, side, staging, trash,
                  trashSide, mtime, clock, bad, save, rm, load, gone, trashed>>
files == <<setup, dir, exists, rooted, former, side, staging, trash, trashSide,
           trashed>>

NoFiles == [n \in Names |-> None]
NoSave == [step |-> "idle", attempt |-> 0, path |-> None]
NoRemoval == [step |-> "idle", op |-> "trash", sec |-> 0, todo |-> {}]
NoLoad == [step |-> "idle", op |-> "latest", todo |-> {}, listed |-> {},
           expect |-> {}, got |-> {}]

(* The steps at which a save holds manifestSaveMu.                         *)
Holding == {"mkdir", "stage", "commit", "unlink", "sync"}

ManifestInit ==
    /\ setup \in Setups
    /\ dir = [n \in Names |->
                IF \E m \in setup.legacy : n = Primary(m)
                THEN CHOOSE m \in setup.legacy : n = Primary(m) ELSE None]
    /\ synced = dir
    /\ exists = (setup.legacy # {}) /\ rooted = exists /\ former = NoFiles
    /\ side = {Primary(m) : m \in setup.legacy}
    /\ staging = {} /\ trashSide = {}
    /\ trash = NoFiles
    /\ mtime = [m \in Manifests |-> 0] /\ clock = 0
    /\ bad = {} /\ gone = {} /\ trashed = {}
    /\ save = [s \in Saves |-> NoSave]
    /\ rm = NoRemoval /\ load = NoLoad

-----------------------------------------------------------------------------
(* SaveManifestWithKey                                                     *)

SaveTo(s, step) == save' = [save EXCEPT ![s].step = step]
SaveFrame == UNCHANGED <<setup, rooted, former, trash, trashSide, side, bad, rm, load,
                         gone, trashed>>

SaveLock(s) ==
    /\ s \in setup.saves /\ save[s].step = "idle"
    /\ \A t \in Saves : ProcOf[t] = ProcOf[s] => save[t].step \notin Holding
    /\ SaveTo(s, "mkdir")
    /\ SaveFrame /\ UNCHANGED <<dir, synced, exists, staging, mtime, clock>>

(* ValidateStructure may refuse the manifest; then MkdirAll, which fsyncs  *)
(* nothing: a directory it makes is not rooted.                            *)
SaveMkdir(s) ==
    /\ save[s].step = "mkdir"
    /\ \/ SaveTo(s, "stage") /\ exists' = TRUE
       \/ "invalid" \in setup.faults /\ SaveTo(s, "error") /\ UNCHANGED exists
    /\ SaveFrame /\ UNCHANGED <<dir, synced, staging, mtime, clock>>

(* The staging file gets its mtime, which two files share where the file   *)
(* system's clock is coarse.  The write fails when the directory has been  *)
(* removed since, and leaves no file then.                                 *)
WriteStagingFile(s) ==
    /\ exists
    /\ clock' \in {clock + 1} \cup (IF "coarse" \in setup.faults THEN {clock} ELSE {})
    /\ mtime' = [mtime EXCEPT ![s] = clock']
    /\ staging' = staging \cup {s}

SaveStage(s) ==
    /\ save[s].step = "stage"
    /\ \/ WriteStagingFile(s) /\ SaveTo(s, "commit")
       \/ /\ ~exists \/ "stage" \in setup.faults
          /\ SaveTo(s, "error") /\ UNCHANGED <<staging, mtime, clock>>
    /\ SaveFrame /\ UNCHANGED <<dir, synced, exists>>

(* The name of an attempt: the plain one, then one with a random suffix.   *)
Candidates(s) ==
    IF save[s].attempt = 0 THEN {Primary(s)}
    ELSE [sec : {Second[s]}, suf : HexSuffixes]

(* Mutant: a commit by rename, which replaces.                             *)
LinkReplaces(s, n) ==
    /\ dir' = [dir EXCEPT ![n] = s]
    /\ save' = [save EXCEPT ![s].step = "unlink", ![s].path = n]
    /\ UNCHANGED staging

(* link(2): refuses a name that is taken.                                  *)
Link(s, n) ==
    \/ /\ dir[n] = None
       /\ dir' = [dir EXCEPT ![n] = s]
       /\ save' = [save EXCEPT ![s].step = "unlink", ![s].path = n]
       /\ UNCHANGED staging
    \/ /\ dir[n] # None
       /\ save' = [save EXCEPT ![s].attempt = @ + 1]
       /\ UNCHANGED <<dir, staging>>
    \/ /\ "link" \in setup.faults
       /\ SaveTo(s, "error") /\ staging' = staging \ {s} /\ UNCHANGED dir

SaveCommit(s) ==
    /\ save[s].step = "commit" /\ save[s].attempt < MaxAttempts
    /\ \E n \in Candidates(s) : Link(s, n)
    /\ SaveFrame /\ UNCHANGED <<synced, exists, mtime, clock>>

(* Mutant: no bound on the attempts.                                       *)
SaveGiveUpNever(s) ==
    /\ save[s].step = "commit" /\ save[s].attempt = MaxAttempts
    /\ save' = [save EXCEPT ![s].attempt = 0]
    /\ SaveFrame /\ UNCHANGED <<dir, synced, exists, staging, mtime, clock>>

(* No free name.                                                           *)
SaveGiveUp(s) ==
    /\ save[s].step = "commit" /\ save[s].attempt = MaxAttempts
    /\ SaveTo(s, "error") /\ staging' = staging \ {s}
    /\ SaveFrame /\ UNCHANGED <<dir, synced, exists, mtime, clock>>

(* The rest of CommitFileNoReplace: the staging name goes, the directory is*)
(* fsynced.  A failure of either is an error of the save.                  *)
SaveUnlink(s) ==
    /\ save[s].step = "unlink"
    /\ \/ SaveTo(s, "sync") /\ staging' = staging \ {s}
       \/ "unlink" \in setup.faults /\ SaveTo(s, "error") /\ UNCHANGED staging
    /\ SaveFrame /\ UNCHANGED <<dir, synced, exists, mtime, clock>>

(* The fsync fails too when the directory has been removed meanwhile.      *)
SaveSync(s) ==
    /\ save[s].step = "sync"
    /\ \/ exists /\ SaveTo(s, "ok") /\ synced' = dir
       \/ /\ ~exists \/ "sync" \in setup.faults
          /\ SaveTo(s, "error") /\ UNCHANGED synced
    /\ SaveFrame /\ UNCHANGED <<dir, exists, staging, mtime, clock>>

SaveStep(s) ==
    \/ SaveLock(s)   \/ SaveMkdir(s)  \/ SaveStage(s) \/ SaveCommit(s)
    \/ SaveGiveUp(s) \/ SaveUnlink(s) \/ SaveSync(s)

-----------------------------------------------------------------------------
(* Reading the directory                                                   *)

Present == {n \in Names : dir[n] # None}

(* ReadDir sorts by name; '.' sorts before '_', the plain name first.      *)
ByName(m, n) == m.sec < n.sec \/ (m.sec = n.sec /\ m.suf < n.suf)

(* n is the first of the names ns that ReadDir has returned.               *)
First(n, ns) == n \in ns /\ \A k \in ns \ {n} : ByName(n, k)

(* Mutant: no tie-break on the modification time.                          *)
NewestFirstByName(a, b) == ByName(b.name, a.name)

(* The order in which LoadLatestManifest tries the candidates, each with   *)
(* the modification time it had in the listing.                            *)
NewestFirst(a, b) ==
    \/ a.name.sec > b.name.sec
    \/ a.name.sec = b.name.sec /\ a.mod > b.mod
    \/ a.name.sec = b.name.sec /\ a.mod = b.mod /\ a.name.suf > b.name.suf

(* LoadManifest: the envelope verifies, or the sidecar is there and does.  *)
Loadable(n) ==
    /\ dir[n] # None /\ dir[n] \notin bad
    /\ dir[n] \in Legacy => n \in side

(* LoadLatestManifest, LoadManifestByTimestamp, and ListManifests, which   *)
(* loads as CollectAliveHashesStreaming does: list the directory first.    *)
(* Only the first of them looks at the modification times.                 *)
Listing(op, sec) ==
    {[name |-> n, mod |-> IF op = "latest" THEN mtime[dir[n]] ELSE 0] :
        n \in {k \in Present : op = "byTimestamp" => k.sec = sec}}

(* c is the candidate that is tried before the other ones.                 *)
Foremost(op, c, cs) ==
    /\ c \in cs
    /\ \A d \in cs \ {c} : IF op = "latest" THEN NewestFirst(c, d)
                                            ELSE ByName(c.name, d.name)

(* The manifests whose save has returned nil.                              *)
Acked == {s \in Saves : save[s].step = "ok"}

LoadBegin(op, sec) ==
    /\ load.step = "idle" /\ op \in setup.reads
    /\ load' = [step |-> "try", op |-> op, todo |-> Listing(op, sec),
                listed |-> {dir[n] : n \in {k \in Present : op = "latest"}},
                expect |-> {m \in setup.legacy \cup Acked :
                              /\ m \notin gone
                              /\ op = "byTimestamp" => Second[m] = sec},
                got |-> {}]
    /\ UNCHANGED <<files, synced, mtime, clock, bad, save, rm, gone>>

(* Mutant: the first failure ends the search.                              *)
LoadTryFirst ==
    /\ load.step = "try"
    /\ \E c \in load.todo :
         /\ Foremost(load.op, c, load.todo)
         /\ load' = [load EXCEPT !.todo = IF load.op = "list" THEN @ \ {c} ELSE {},
                                 !.got = IF Loadable(c.name)
                                         THEN @ \cup {dir[c.name]} ELSE @]
    /\ UNCHANGED <<files, synced, mtime, clock, bad, save, rm, gone>>

(* What a load of c leaves to do: a file that does not load is skipped,    *)
(* and all but a list stop at the first that does.                         *)
Taken(c) == [load EXCEPT !.todo = {d \in @ : d # c /\ load.op = "list"},
                         !.got = @ \cup {dir[c.name]}]
Skipped(c) == [load EXCEPT !.todo = @ \ {c}]

LoadTry ==
    /\ load.step = "try"
    /\ \E c \in load.todo :
         /\ Foremost(load.op, c, load.todo)
         /\ \/ /\ Loadable(c.name)
               /\ load' = Taken(c)
            \/ /\ ~Loadable(c.name)
               /\ load' = Skipped(c)
    /\ UNCHANGED <<files, synced, mtime, clock, bad, save, rm, gone>>

LoadEnd ==
    /\ load.step = "try" /\ load.todo = {}
    /\ load' = [load EXCEPT !.step = "done"]
    /\ UNCHANGED <<files, synced, mtime, clock, bad, save, rm, gone>>

LoadReturn ==
    /\ load.step = "done" /\ load' = NoLoad
    /\ UNCHANGED <<files, synced, mtime, clock, bad, save, rm, gone>>

-----------------------------------------------------------------------------
(* Removal: deleteOrTrashManifest and deleteOrTrashAllManifests            *)

RmFrame == UNCHANGED <<setup, synced, rooted, former, mtime, clock, bad, save, load, staging>>
RmAll == rm.op \in {"trashAll", "deleteAll"}
RmTrash == rm.op \in {"trash", "trashAll"}

(* Where a removal goes for its next file: the body first into the trash,  *)
(* the sidecar first when deleting.                                        *)
FirstMove(op) == IF op \in {"trash", "trashAll"} THEN "body" ELSE "side"

RmBegin(op, sec) ==
    /\ rm.step = "idle" /\ op \in setup.removals
    /\ rm' = [step |-> IF op \in {"trash", "delete"} THEN "match" ELSE FirstMove(op),
              op |-> op, sec |-> sec, todo |-> Present]
    /\ RmFrame /\ UNCHANGED <<dir, exists, side, trash, trashSide, gone, trashed>>

(* Load in name order up to the first manifest with the timestamp.         *)
Matched(n) == [rm EXCEPT !.step = FirstMove(rm.op), !.todo = {n}]
Passed(n) == [rm EXCEPT !.todo = @ \ {n}]

RmMatch ==
    /\ rm.step = "match"
    /\ \/ /\ rm.todo = {} /\ rm' = NoRemoval
       \/ \E n \in rm.todo :
            /\ First(n, rm.todo)
            /\ \/ /\ Loadable(n) /\ n.sec = rm.sec
                  /\ rm' = Matched(n)
               \/ /\ ~(Loadable(n) /\ n.sec = rm.sec)
                  /\ rm' = Passed(n)
    /\ RmFrame /\ UNCHANGED <<dir, exists, side, trash, trashSide, gone, trashed>>

RmNext(n) == rm' = [rm EXCEPT !.step = FirstMove(rm.op), !.todo = @ \ {n}]

(* Moved(n): the manifest at n is now in the trash only.                   *)
Moved(n) ==
    /\ dir' = [dir EXCEPT ![n] = None]
    /\ gone' = gone \cup {dir[n]}
    /\ trashed' = (trashed \ {trash[n]}) \cup {dir[n]}
    /\ rm' = [rm EXCEPT !.step = "side"]

(* Rename the body into the trash, or remove it after its sidecar.  A      *)
(* failure, or a body that is gone, ends the work on this file.  A trash   *)
(* on another device is copied to: the file there is created first.        *)
RmBody(n) ==
    /\ rm.step = "body" /\ First(n, rm.todo)
    /\ \/ /\ dir[n] # None /\ RmTrash /\ "exdev" \notin setup.faults
          /\ Moved(n)
          /\ trash' = [trash EXCEPT ![n] = dir[n]]
       \/ /\ dir[n] # None /\ RmTrash /\ "exdev" \in setup.faults
          /\ trash' = [trash EXCEPT ![n] = Partial]
          /\ trashed' = trashed \ {trash[n]}
          /\ rm' = [rm EXCEPT !.step = "copy"]
          /\ UNCHANGED <<dir, gone>>
       \/ /\ dir[n] # None /\ ~RmTrash
          /\ dir' = [dir EXCEPT ![n] = None]
          /\ gone' = gone \cup {dir[n]}
          /\ RmNext(n) /\ UNCHANGED <<trash, trashed>>
       \/ /\ \/ dir[n] = None
             \/ RmTrash /\ "rename" \in setup.faults
             \/ ~RmTrash /\ "remove" \in setup.faults
          /\ RmNext(n) /\ UNCHANGED <<dir, gone, trash, trashed>>
    /\ RmFrame /\ UNCHANGED <<exists, side, trashSide>>

(* renameWithFallback: the copy, which goes when it fails, ...             *)
RmCopy(n) ==
    /\ rm.step = "copy" /\ First(n, rm.todo)
    /\ \/ /\ trash' = [trash EXCEPT ![n] = dir[n]]
          /\ rm' = [rm EXCEPT !.step = "unlink"]
       \/ /\ "copy" \in setup.faults
          /\ trash' = [trash EXCEPT ![n] = None]
          /\ RmNext(n)
    /\ RmFrame /\ UNCHANGED <<dir, exists, side, trashSide, gone, trashed>>

(* ... then the source; that it stays is only logged.                      *)
RmUnlink(n) ==
    /\ rm.step = "unlink" /\ First(n, rm.todo)
    /\ \/ Moved(n)
       \/ /\ "remove" \in setup.faults
          /\ rm' = [rm EXCEPT !.step = "side"]
          /\ UNCHANGED <<dir, gone, trashed>>
    /\ RmFrame /\ UNCHANGED <<exists, side, trash, trashSide>>

(* The sidecar, if there is one; a failure is ignored.                     *)
RmSide(n) ==
    /\ rm.step = "side" /\ First(n, rm.todo)
    /\ \/ /\ side' = side \ {n}
          /\ trashSide' = IF RmTrash THEN trashSide \cup (side \cap {n}) ELSE trashSide
          /\ gone' = IF dir[n] \in Legacy THEN gone \cup {dir[n]} ELSE gone
       \/ /\ (IF RmTrash THEN "rename" ELSE "remove") \in setup.faults
          /\ UNCHANGED <<side, trashSide, gone>>
    /\ IF RmTrash THEN RmNext(n) ELSE rm' = [rm EXCEPT !.step = "body"]
    /\ RmFrame /\ UNCHANGED <<dir, exists, trash, trashed>>

Vacant == exists /\ Present = {} /\ staging = {} /\ side = {}

(* The removal returns; after a whole source, the directory goes if it is  *)
(* empty, of staging files too.  Its parent is not fsynced.                *)
RmEnd ==
    /\ rm.step \in {"body", "side"} /\ rm.todo = {}
    /\ \/ /\ RmAll /\ Vacant
          /\ exists' = FALSE /\ rooted' = FALSE /\ synced' = NoFiles
          /\ former' = IF rooted THEN synced ELSE former
       \/ /\ ~(RmAll /\ Vacant)
          /\ UNCHANGED <<exists, rooted, synced, former>>
    /\ rm' = NoRemoval
    /\ UNCHANGED <<setup, dir, side, staging, trash, trashSide, mtime, clock, bad, save,
                   load, gone, trashed>>

(* CleanTrashManifests: a file that has aged is removed, whatever it is; a *)
(* copy that is being made is young.                                       *)
CleanTrash ==
    \E n \in Names :
      /\ "clean" \in setup.removals
      /\ \/ /\ trash[n] # None
            /\ rm.step \in {"copy", "unlink"} => ~First(n, rm.todo)
            /\ trash' = [trash EXCEPT ![n] = None] /\ UNCHANGED trashSide
            /\ trashed' = trashed \ {trash[n]}
         \/ /\ n \in trashSide
            /\ trashSide' = trashSide \ {n} /\ UNCHANGED <<trash, trashed>>
      /\ UNCHANGED <<setup, dir, exists, rooted, former, side, staging, synced, mtime,
                     clock, bad, save, rm, load, gone>>

-----------------------------------------------------------------------------
(* A manifest file stops verifying: bit rot, or a partial sync.            *)
Rot ==
    /\ "rot" \in setup.faults /\ Cardinality(bad) < MaxDamaged
    /\ \E n \in Present : bad' = bad \cup {dir[n]}
    /\ UNCHANGED <<files, synced, mtime, clock, save, rm, load, gone>>

Die(ps) ==
    /\ save' = [s \in Saves |-> IF ProcOf[s] \in ps /\ save[s].step \in Holding
                                THEN [save[s] EXCEPT !.step = "dead"] ELSE save[s]]
    /\ rm' = IF RemoverProc \in ps THEN NoRemoval ELSE rm

(* A process is killed; the kernel keeps what it had done.                 *)
Kill(p) ==
    /\ "kill" \in setup.faults
    /\ Die({p})
    /\ UNCHANGED <<files, synced, mtime, clock, bad, load, gone>>

(* What a power loss may leave of a directory: every name is as it was     *)
(* last seen or as it was last fsynced.                                    *)
Survivors(seen, fsynced) ==
    {[n \in Names |-> IF n \in back THEN fsynced[n] ELSE seen[n]] : back \in SUBSET Names}

(* Power fails.  The directory is there afterwards, or, when its name had  *)
(* not reached the disk, it is gone with all it held, and what had its     *)
(* name before may be back.  A name that was unlinked and not fsynced may  *)
(* be back too.  Of the trash nothing was fsynced: a rename into it or a   *)
(* copy may be lost, or be there in part.                                  *)
PowerLoss ==
    /\ "power" \in setup.faults
    /\ Die(Procs) /\ load' = NoLoad
    /\ side' \in SUBSET {Primary(m) : m \in setup.legacy}
    /\ \/ /\ exists
          /\ dir' \in Survivors(dir, synced) /\ exists' = TRUE
          /\ side \subseteq side'
          /\ staging' \in SUBSET (staging \cup {s \in Saves \ Acked : mtime[s] > 0})
          /\ UNCHANGED gone
       \/ /\ ~rooted
          /\ dir' \in Survivors(NoFiles, former) /\ exists' = (dir' # NoFiles)
          /\ staging' = {}
          /\ gone' = gone \cup Acked \cup setup.legacy
    /\ synced' = dir' /\ rooted' = exists' /\ former' = NoFiles
    /\ \E lost, torn \in SUBSET {n \in Names : trash[n] # None} :
          trash' = [n \in Names |-> IF n \in lost THEN None
                                   ELSE IF n \in torn THEN Partial ELSE trash[n]]
    /\ trashSide' \in SUBSET trashSide /\ trashed' = {}
    /\ UNCHANGED <<setup, mtime, clock, bad>>

Reader ==
    \/ \E sec \in Seconds : LoadBegin("byTimestamp", sec)
    \/ LoadBegin("latest", 0) \/ LoadBegin("list", 0)
    \/ LoadTry \/ LoadEnd \/ LoadReturn

Remover ==
    \/ \E op \in {"trash", "delete"}, sec \in Seconds : RmBegin(op, sec)
    \/ \E op \in {"trashAll", "deleteAll"} : RmBegin(op, 0)
    \/ \E n \in Names : RmBody(n) \/ RmCopy(n) \/ RmUnlink(n) \/ RmSide(n)
    \/ RmMatch \/ RmEnd

ManifestNext ==
    \/ \E s \in Saves : SaveStep(s)
    \/ Reader \/ Remover \/ CleanTrash \/ Rot
    \/ \E p \in Procs : Kill(p)
    \/ PowerLoss

ManifestSpec == ManifestInit /\ [][ManifestNext]_manifestVars

(* The goroutine of a save is scheduled and its system calls return.       *)
ManifestFairSpec == ManifestSpec /\ \A s \in Saves : WF_manifestVars(SaveStep(s))

-----------------------------------------------------------------------------
(* A manifest whose save returned nil stays under the returned path, with  *)
(* its own content, until it is removed: no save of the same second, in    *)
(* this process or another, overwrites it, and no crash loses it           *)
(* (SaveManifestWithKey, CommitFileNoReplace).  A power loss loses it only *)
(* with its directory: where MkdirAll has just made that, nothing fsyncs   *)
(* the name of the directory itself.  A manifest that was moved to the     *)
(* trash is there, whole, until it is cleaned or one of the same name      *)
(* follows it, also where the move was a copy, and while no power is lost: *)
(* renameWithFallback fsyncs neither (simple/manifest.go:1257-1291).       *)
AckedKept ==
    /\ \A s \in Acked \ gone : dir[save[s].path] = s
    /\ \A m \in trashed : \E n \in Names : trash[n] = m

(* A reader fails, or misses a snapshot, only when every manifest it was   *)
(* to find is gone or is damaged: saves, removals and failed loads of      *)
(* other manifests never hide one.                                         *)
Findable == {m \in load.expect : m \notin gone \cup bad}

LoadFinds ==
    load.step = "done" /\ Findable # {} =>
        /\ load.got # {}
        /\ load.op = "list" => Findable \subseteq load.got

(* What LoadLatestManifest returns is no older than any manifest whose     *)
(* save had returned when it was called; among those of one second the one *)
(* written last wins, whatever the random suffixes.  Only a manifest that  *)
(* took, after the listing, the name of one removed since is not ordered   *)
(* by its own modification time.                                           *)
LoadedIsLatest ==
    load.step = "done" /\ load.op = "latest" =>
        \A m \in Findable, g \in load.got :
            \/ Second[g] > Second[m]
            \/ /\ Second[g] = Second[m]
               /\ g \in load.listed => mtime[g] >= mtime[m]

(* Every save returns: the retries under random suffixes are bounded.      *)
SavesReturn ==
    \A s \in Saves :
        <>(s \in setup.saves => save[s].step \in {"ok", "error", "dead"})
=============================================================================
