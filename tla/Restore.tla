------------------------------ MODULE Restore ------------------------------
(***************************************************************************)
(* A restore (simple/restore.go) into one directory: SimpleRestore.Run,    *)
(* which takes the files of a manifest one by one, fetches and verifies    *)
(* their blobs, writes a staging file and renames it over the target name  *)
(* (simple/restore_secure_posix.go), while calls fail, blobs are damaged,  *)
(* other programs write the same files, and the run is cancelled, killed,  *)
(* cut off by a power loss, and started again.                             *)
(*                                                                         *)
(* A blob is named by its plaintext; a content is a sequence of plaintexts.*)
(***************************************************************************)
EXTENDS Naturals, Sequences, FiniteSets

CONSTANTS Files,     \* the entries of the manifest
          Blobs,     \* the plaintexts stored
          Kind,      \* how an entry is stored
          Chunks,    \* the plaintexts an entry consists of
          Shrinks,   \* plaintexts the backup compressed before encrypting
          Framed,    \* plaintexts that begin with the zstd magic themselves
          MaxRuns,   \* bound on the runs
          Setups,    \* the situations considered
          None,      \* no file
          Foreign,   \* a content the restore has nothing to do with
          Garbage    \* a piece that is no plaintext of the manifest

FaultKinds == {"load", "mkdir", "stat", "create", "stream", "get", "write",
               "sync", "rename", "fsync", "cancel", "damage", "foreign",
               "unlink", "kill", "power"}

(* A situation: the Overwrite option, whether the target directory is yet  *)
(* to be made, and what may go wrong.                                      *)
Setup == [overwrite : BOOLEAN, fresh : BOOLEAN, faults : SUBSET FaultKinds]

ASSUME RestoreAssumption ==
    /\ Kind \in [Files -> {"small", "large", "chunked", "failed"}]
    /\ Chunks \in [Files -> Seq(Blobs)]
    /\ \A f \in Files : Kind[f] \in {"small", "large"} => Len(Chunks[f]) = 1
    /\ Shrinks \subseteq Blobs /\ Framed \subseteq Blobs
    /\ Garbage \notin Blobs /\ None # Foreign
    /\ None \notin Files /\ \A f \in Files : Chunks[f] \notin {None, Foreign}
    /\ MaxRuns \in Nat /\ Setups \subseteq Setup

VARIABLES setup,   \* the situation, fixed at the start
          dir,     \* the target directory: none, new (its own entry not yet
                   \* durable) or old
          tgt,     \* the content at each target name
          disk,    \* the same as of the last fsync of the directory
          loose,   \* targets whose data was never fsynced
          staged,  \* files with a staging file of the run under way, or of the
                   \* last one
          blobs,   \* the blobs that are in the store, intact
          run,     \* the run under way, or the last one
          runs,    \* the runs started
          acked    \* files some run has counted as restored

vars == <<setup, dir, tgt, disk, loose, staged, blobs, run, runs, acked>>
files == <<dir, tgt, disk, loose, staged>>

(* IsRestorable: a file that was locked or failed has no blob.             *)
Restorable == {f \in Files : Kind[f] # "failed"}

NoRun == [step |-> "idle", todo |-> {}, file |-> None, temp |-> <<>>,
          flushed |-> FALSE, restored |-> {}, skipped |-> {}, cancelled |-> FALSE]
Stopped == {"idle", "ok", "error"}

Init ==
    /\ setup \in Setups
    /\ dir = IF setup.fresh THEN "none" ELSE "old"
    /\ \E old \in SUBSET Restorable :
         /\ setup.fresh => old = {}
         /\ tgt = [f \in Files |-> IF f \in old THEN Foreign ELSE None]
    /\ disk = tgt
    /\ loose = {} /\ staged = {} /\ acked = {}
    /\ blobs = Blobs
    /\ run = NoRun /\ runs = 0

-----------------------------------------------------------------------------
(* What the store's blobs decode to                                        *)

(* What is left after decryption of a blob that holds one piece: the bytes *)
(* the backup encrypted.  The pieces of a large single blob carry a flag   *)
(* of their own and are decompressed by it.                                *)
Payload(f, b) == [zip |-> b \in Shrinks /\ Kind[f] # "large", of |-> b]

(* ZstdCompressor.IsCompressed: the magic is all that tells.               *)
IsCompressed(p) == p.zip \/ p.of \in Framed

(* DownloadBlob and decryptChunkBlobStream, up to the hash.  Decompressing *)
(* what was a frame before it was stored yields other bytes, or fails.     *)
Decoded(f, b) ==
    LET p == Payload(f, b) IN
    IF b \notin blobs \/ (IsCompressed(p) /\ ~p.zip) THEN Garbage ELSE b

(* decryptStreamToFile on a large single blob.                             *)
DecodedByFlag(b) == IF b \in blobs THEN b ELSE Garbage

-----------------------------------------------------------------------------
Fault(k) == k \in setup.faults

(* Mutant: a file that fails is passed over.                               *)
FailContinues ==
    /\ run' = [run EXCEPT !.step = IF run.file = None \/ run.cancelled
                                  THEN "error" ELSE "next",
                          !.todo = @ \ {run.file}]
    /\ staged' = staged \ {run.file}

(* Mutant: no deferred Cleanup.                                            *)
FailLeavesStaging ==
    /\ run' = [run EXCEPT !.step = "error"]
    /\ UNCHANGED staged

(* Run returns an error; the deferred Cleanup unlinks the staging file, and*)
(* ignores the error if it cannot.                                         *)
Fail ==
    /\ run' = [run EXCEPT !.step = "error"]
    /\ \/ staged' = staged \ {run.file}
       \/ Fault("unlink") /\ UNCHANGED staged

At(step) == run.step = step
To(step) == run' = [run EXCEPT !.step = step]
Frame == UNCHANGED <<setup, blobs, runs>>
NoWrite == UNCHANGED <<dir, tgt, disk, loose, acked>>

(* Run is called, with a new context.  What an earlier run left in staging *)
(* files stays: their names are random, and no run looks for them.         *)
Begin ==
    /\ run.step \in Stopped /\ runs < MaxRuns
    /\ run' = [NoRun EXCEPT !.step = "load"]
    /\ runs' = runs + 1 /\ staged' = {}
    /\ UNCHANGED <<setup, dir, tgt, disk, loose, blobs, acked>>

(* LoadManifestByTimestamp or LoadLatestManifest.                          *)
LoadManifest ==
    /\ At("load")
    /\ \/ To("dirs") /\ UNCHANGED staged
       \/ Fault("load") /\ Fail
    /\ Frame /\ NoWrite

(* openSecureDir and Child make what is missing; the entry of a directory  *)
(* they make is never fsynced.                                             *)
Made == IF dir = "none" THEN "new" ELSE dir

MakeDirs ==
    /\ At("dirs")
    /\ \/ /\ dir' = Made
          /\ run' = [run EXCEPT !.step = "next", !.todo = Files]
          /\ UNCHANGED staged
       \/ Fault("mkdir") /\ Fail /\ dir' \in {dir, Made}
    /\ Frame /\ UNCHANGED <<tgt, disk, loose, acked>>

(* The loop over AllFiles, whose order is that of a map: pass over a file  *)
(* that cannot be restored, open the directory of one that can.            *)
NextFile ==
    /\ At("next") /\ ~run.cancelled
    /\ \E f \in run.todo :
         \/ /\ f \notin Restorable
            /\ run' = [run EXCEPT !.todo = @ \ {f}, !.skipped = @ \cup {f}]
            /\ UNCHANGED staged
         \/ /\ f \in Restorable
            /\ run' = [run EXCEPT !.step = IF setup.overwrite THEN "open" ELSE "exists",
                                  !.file = f, !.temp = <<>>, !.flushed = FALSE]
            /\ UNCHANGED staged
         \/ f \in Restorable /\ Fault("mkdir") /\ Fail
    /\ Frame /\ NoWrite

NextCancelled ==
    /\ At("next") /\ run.cancelled /\ run.todo # {}
    /\ Fail /\ Frame /\ NoWrite

Finish ==
    /\ At("next") /\ run.todo = {}
    /\ To("ok") /\ Frame /\ NoWrite /\ UNCHANGED staged

SkipFile == run' = [run EXCEPT !.step = "next", !.todo = @ \ {run.file},
                               !.skipped = @ \cup {run.file}]

(* Mutant: a failing stat is taken for a free name.                        *)
ExistsCheckLax ==
    /\ At("exists")
    /\ \/ tgt[run.file] # None /\ SkipFile
       \/ (tgt[run.file] = None \/ Fault("stat")) /\ To("open")
    /\ Frame /\ NoWrite /\ UNCHANGED staged

(* Without Overwrite, a name that is taken is skipped.                     *)
ExistsCheck ==
    /\ At("exists")
    /\ \/ tgt[run.file] # None /\ SkipFile /\ UNCHANGED staged
       \/ tgt[run.file] = None /\ To("open") /\ UNCHANGED staged
       \/ Fault("stat") /\ Fail
    /\ Frame /\ NoWrite

(* A small file is downloaded whole; a large one too when the store does   *)
(* not stream it; the others begin with their staging file.                *)
Open ==
    LET f == run.file IN
    /\ At("open")
    /\ \/ /\ \/ Kind[f] = "small"
             \/ Kind[f] = "large" /\ (Fault("stream") \/ Chunks[f][1] \notin blobs)
          /\ To("buffer") /\ UNCHANGED staged
       \/ /\ Kind[f] # "small"
          /\ To("fetch") /\ staged' = staged \cup {f}
       \/ Kind[f] # "small" /\ Fault("create") /\ Fail
    /\ Frame /\ NoWrite

(* DownloadBlob, its hash verified, then the first half of WriteAtomic.    *)
Buffer ==
    LET f == run.file  b == Chunks[f][1] IN
    /\ At("buffer")
    /\ \/ /\ Decoded(f, b) = b
          /\ run' = [run EXCEPT !.step = "flush", !.temp = <<b>>]
          /\ staged' = staged \cup {f}
       \/ /\ \/ Decoded(f, b) # b
             \/ Fault("get") \/ Fault("create") \/ Fault("write")
          /\ Fail
       \/ /\ Fault("write") /\ Fault("unlink")
          /\ To("error") /\ staged' = staged \cup {f}
    /\ Frame /\ NoWrite

Appended(piece) == run' = [run EXCEPT !.temp = Append(@, piece)]

(* Mutant: a failing download is retried without end.                      *)
FetchChunkRetries ==
    LET f == run.file  b == Chunks[f][Len(run.temp) + 1] IN
    /\ At("fetch") /\ Kind[f] = "chunked" /\ Len(run.temp) < Len(Chunks[f])
    /\ Decoded(f, b) = b
    /\ Appended(b) /\ UNCHANGED staged
    /\ Frame /\ NoWrite

(* restoreChunkStream: a piece is written once its hash is verified.  A    *)
(* store that does not stream it is asked with Get, to the same effect.    *)
FetchChunk ==
    LET f == run.file  b == Chunks[f][Len(run.temp) + 1] IN
    /\ At("fetch") /\ Kind[f] = "chunked" /\ Len(run.temp) < Len(Chunks[f])
    /\ \/ /\ ~run.cancelled /\ Decoded(f, b) = b
          /\ Appended(b) /\ UNCHANGED staged
       \/ /\ \/ run.cancelled \/ Decoded(f, b) # b
             \/ Fault("get") \/ Fault("write")
          /\ Fail
    /\ Frame /\ NoWrite

(* downloadBlobToSecureDir: the blob is written as it is decrypted.        *)
FetchLarge ==
    LET f == run.file IN
    /\ At("fetch") /\ Kind[f] = "large" /\ run.temp = <<>>
    /\ \/ Appended(DecodedByFlag(Chunks[f][1])) /\ UNCHANGED staged
       \/ (Fault("get") \/ Fault("write") \/ Chunks[f][1] \notin blobs) /\ Fail
    /\ Frame /\ NoWrite

(* Mutant: AEAD success is taken for the right content.                    *)
FetchDoneUnverified ==
    /\ At("fetch") /\ Len(run.temp) = Len(Chunks[run.file])
    /\ To("flush") /\ UNCHANGED staged
    /\ Frame /\ NoWrite

(* The last piece is in; the hash and the size of a large one are verified.*)
FetchDone ==
    LET f == run.file IN
    /\ At("fetch") /\ Len(run.temp) = Len(Chunks[f])
    /\ \/ /\ Kind[f] = "large" => run.temp = Chunks[f]
          /\ To("flush") /\ UNCHANGED staged
       \/ Kind[f] = "large" /\ run.temp # Chunks[f] /\ Fail
    /\ Frame /\ NoWrite

(* Chmod, Sync and Close of the staging file.                              *)
Flush ==
    /\ At("flush")
    /\ \/ run' = [run EXCEPT !.step = "rename", !.flushed = TRUE] /\ UNCHANGED staged
       \/ Fault("sync") /\ Fail
    /\ Frame /\ NoWrite

(* Commit: renameat, which replaces whatever has the name by now.          *)
Rename ==
    LET f == run.file IN
    /\ At("rename")
    /\ \/ /\ tgt' = [tgt EXCEPT ![f] = run.temp]
          /\ loose' = IF run.flushed THEN loose \ {f} ELSE loose \cup {f}
          /\ staged' = staged \ {f}
          /\ To("fsync")
       \/ Fault("rename") /\ Fail /\ UNCHANGED <<tgt, loose>>
    /\ Frame /\ UNCHANGED <<dir, disk, acked>>

Restored ==
    /\ run' = [run EXCEPT !.step = "next", !.todo = @ \ {run.file},
                          !.restored = @ \cup {run.file}]
    /\ acked' = acked \cup {run.file}

(* Mutant: no fsync of the directory.                                      *)
FsyncDirSkipped ==
    /\ At("fsync")
    /\ Restored /\ Frame /\ UNCHANGED files

(* ... and fsync of the directory, whose failure comes after the fact; then*)
(* Chtimes, at best effort, and the file counts as restored.               *)
FsyncDir ==
    /\ At("fsync")
    /\ \/ Restored /\ disk' = tgt /\ UNCHANGED staged
       \/ Fault("fsync") /\ Fail /\ UNCHANGED <<disk, acked>>
    /\ Frame /\ UNCHANGED <<dir, tgt, loose>>

RunStep ==
    \/ LoadManifest \/ MakeDirs \/ NextFile \/ NextCancelled \/ Finish
    \/ ExistsCheck \/ Open \/ Buffer \/ FetchChunk \/ FetchLarge \/ FetchDone
    \/ Flush \/ Rename \/ FsyncDir

-----------------------------------------------------------------------------
(* The rest of the world                                                   *)

Cancel ==
    /\ Fault("cancel") /\ run.step \notin Stopped
    /\ run' = [run EXCEPT !.cancelled = TRUE]
    /\ UNCHANGED <<setup, files, blobs, runs, acked>>

(* A blob is lost, damaged, or holds something else.                       *)
Damage(b) ==
    /\ Fault("damage")
    /\ blobs' = blobs \ {b}
    /\ UNCHANGED <<setup, files, run, runs, acked>>

(* Another program writes a target file.                                   *)
WriteForeign(f) ==
    /\ Fault("foreign") /\ dir # "none"
    /\ tgt' = [tgt EXCEPT ![f] = Foreign] /\ loose' = loose \ {f}
    /\ acked' = acked \ {f}
    /\ UNCHANGED <<setup, dir, disk, staged, blobs, run, runs>>

Kill ==
    /\ Fault("kill") /\ run.step \notin Stopped
    /\ run' = NoRun
    /\ UNCHANGED <<setup, files, blobs, runs, acked>>

(* A name is as it was last fsynced or as it was last seen, data that was  *)
(* never fsynced is gone, and so may a directory be whose entry was not.   *)
PowerLoss ==
    /\ Fault("power")
    /\ run' = NoRun
    /\ \/ /\ dir # "none" /\ dir' = "old"
          /\ \E back \in SUBSET Files :
               tgt' = [f \in Files |-> IF f \in back THEN disk[f]
                                       ELSE IF f \in loose THEN <<Garbage>> ELSE tgt[f]]
          /\ UNCHANGED staged
       \/ /\ dir # "old" /\ dir' = "none" /\ staged' = {}
          /\ tgt' = [f \in Files |-> None]
    /\ disk' = tgt' /\ loose' = {}
    /\ UNCHANGED <<setup, blobs, runs, acked>>

Next ==
    \/ Begin \/ RunStep \/ Cancel \/ Kill \/ PowerLoss
    \/ \E b \in Blobs : Damage(b)
    \/ \E f \in Restorable : WriteForeign(f)

Spec == Init /\ [][Next]_vars

(* The goroutine of the run is scheduled and its calls return.             *)
FairSpec == Spec /\ WF_vars(RunStep)

-----------------------------------------------------------------------------
Whole(f) == tgt[f] \in {Foreign, Chunks[f]}

(* No target name ever shows a part of a file or another file's bytes,     *)
(* whatever fails, is damaged or is cut short at whatever moment.          *)
NeverPartial == \A f \in Files : tgt[f] # None => Whole(f)

(* A run that returns a result has put every restorable file in place, or  *)
(* found its name taken; with Overwrite it has written every one of them.  *)
ReturnedComplete ==
    run.step = "ok" =>
        \A f \in Restorable : /\ tgt[f] # None
                              /\ setup.overwrite => f \in run.restored

(* A file counted as restored is there after a power loss, if the target   *)
(* directory was there before the restore.                                 *)
RestoredStays == ~setup.fresh => \A f \in acked : Whole(f)

(* A run that returns leaves no staging file of its own behind, also after *)
(* runs that were cut off: errors and cancellation pass through Cleanup.   *)
(* Only an unlink that fails there, an error Cleanup drops, leaves one     *)
(* (simple/restore_secure_posix.go:155-161).                               *)
CleanStaging ==
    run.step \in {"ok", "error"} /\ ~Fault("unlink") => staged = {}

(* Without Overwrite a file that was there before the run is never touched,*)
(* even when the stat of its name fails.  A file that another program      *)
(* makes between the stat and the rename is replaced.                      *)
KeepsExisting ==
    [][~setup.overwrite /\ ~Fault("foreign") =>
         \A f \in Files : tgt[f] = Foreign => tgt'[f] = Foreign]_vars

(* A restore that was started returns, or is killed.                       *)
RunReturns == run.step \notin Stopped ~> run.step \in Stopped
=============================================================================
