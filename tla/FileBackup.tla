----------------------------- MODULE FileBackup -----------------------------
(***************************************************************************)
(* One source file through a series of backup runs: the scan, processFile  *)
(* and everything it calls (simple/pipeline.go, simple/chunk_cdc.go), and  *)
(* the validation the manifest goes through when it is saved.  A program   *)
(* writes to the file at any time, in particular between two reads.        *)
(*                                                                         *)
(* File contents are sequences of units; a unit stands for half a          *)
(* fixed-size chunk.  SHA-256 is collision-free: the hash of a content is  *)
(* the content.  The blob store is the abstract one: a set of pairs of a   *)
(* key and the content stored under it.                                    *)
(***************************************************************************)
EXTENDS Naturals, Sequences, Functions

CONSTANTS Units,        \* what a unit of a file may hold
          CutUnits,     \* units after which the CDC rolling hash cuts
          InitFile,     \* contents of the file at the start
          MaxLen,       \* bound: units in a file
          MaxWrites,    \* bound: writes to the file
          MaxRuns,      \* bound: backup runs
          ChunkUnits,   \* enc.chunkSize
          RetainUnits,  \* inMemoryChunkThreshold
          Setups,       \* repositories and writers to consider, see Setup
          Faults        \* "open", "exists", "permission", "put", "loss"

(* cdc: cdcEnabled(); encrypted: the repository has a key; writes: how the *)
(* file is written; sameSecond: whether two writes may share a second.     *)
Setup == [cdc : BOOLEAN, encrypted : BOOLEAN,
          writes : SUBSET {"overwrite", "append", "truncate"},
          sameSecond : BOOLEAN]

ASSUME FileAssumption ==
    /\ CutUnits \subseteq Units /\ InitFile \subseteq Seq(Units)
    /\ MaxLen \in Nat /\ MaxWrites \in Nat /\ MaxRuns \in Nat
    /\ ChunkUnits \in Nat \ {0} /\ RetainUnits \in Nat
    /\ Setups \subseteq Setup
    /\ Faults \subseteq {"open", "exists", "permission", "put", "loss"}

VARIABLES setup,   \* fixed at the start
          file,    \* the file: its content and its mtime in seconds
          stored,  \* the blob store: pairs <<key, content>>
          prev,    \* the file's entry in the latest manifest
          runs,    \* runs started
          writes,  \* writes done
          pc,      \* what the worker does next
          w,       \* the worker's local state
          seen     \* contents the file has had since the scan

vars == <<setup, file, stored, prev, runs, writes, pc, w, seen>>

Keys == {b[1] : b \in stored}

(* FileEntry.  Status "none": the manifest has no entry for the file; an   *)
(* entry with status "error" has no content hash.                          *)
Entry(status, hash, size, mtime, chunks) ==
    [status |-> status, hash |-> hash, size |-> size, mtime |-> mtime,
     chunks |-> chunks]
NoEntry == Entry("none", <<>>, 0, 0, <<>>)

IsRestorable(e) == e.status \notin {"none", "error"}

(* The blobs a restore of the entry reads.                                 *)
Refs(e) == IF e.chunks = <<>> THEN {e.hash} ELSE Range(e.chunks)

(* The running sums of the chunk sizes, when they come to the total: the   *)
(* offset at which each chunk ends.                                        *)
Offsets(chunks, total) ==
    {f \in [0 .. Len(chunks) -> 0 .. total] :
        /\ f[0] = 0 /\ f[Len(chunks)] = total
        /\ \A i \in 1 .. Len(chunks) : f[i] = f[i - 1] + Len(chunks[i])}

(* ValidateStructure, where it depends on the file: the chunk sizes of an  *)
(* entry add up to its size.                                               *)
Valid(e) ==
    IsRestorable(e) /\ e.chunks # <<>> => Offsets(e.chunks, e.size) # {}

(* size, mtime: the scan entry; missing: the fast path found a blob gone;  *)
(* read: chunks of the hash pass; hash: what was hashed so far, the content*)
(* hash in the end; retained: the bytes of the chunks are kept; blob: the  *)
(* bytes to store for a small file; present: previous chunks that are in   *)
(* the store; next: the chunk to upload next; pos: the offset of the second*)
(* read of the file; entry: the result.                                    *)
NoWork == [size |-> 0, mtime |-> 0, missing |-> FALSE, read |-> <<>>,
           hash |-> <<>>, retained |-> FALSE, blob |-> <<>>, present |-> {},
           next |-> 1, pos |-> 0, entry |-> NoEntry]

Init ==
    /\ setup \in Setups
    /\ file \in [content : InitFile, mtime : {0}]
    /\ stored = {}
    /\ prev = NoEntry
    /\ runs = 0 /\ writes = 0
    /\ pc = "idle" /\ w = NoWork
    /\ seen = {}

-----------------------------------------------------------------------------
(* The program that owns the file.  A write sets the mtime; the model keeps*)
(* it in seconds, like the RFC 3339 string the scan formats it to.         *)
WriteFile(content) ==
    /\ writes < MaxWrites
    /\ writes' = writes + 1
    /\ \E m \in {file.mtime, file.mtime + 1} :
         /\ m = file.mtime => setup.sameSecond
         /\ file' = [content |-> content, mtime |-> m]
    /\ seen' = seen \cup {content}
    /\ UNCHANGED <<setup, stored, prev, runs, pc, w>>

Overwrite == /\ "overwrite" \in setup.writes
             /\ \E i \in DOMAIN file.content : \E u \in Units \ {file.content[i]} :
                  WriteFile([file.content EXCEPT ![i] = u])

Extend == /\ "append" \in setup.writes
          /\ Len(file.content) < MaxLen
          /\ \E u \in Units : WriteFile(Append(file.content, u))

Truncate == /\ "truncate" \in setup.writes
            /\ \E n \in 0 .. Len(file.content) - 1 :
                 WriteFile(SubSeq(file.content, 1, n))

(* Between two runs a garbage collection or an operator removes a blob.    *)
LoseBlob ==
    /\ "loss" \in Faults /\ pc = "idle"
    /\ \E b \in stored : stored' = stored \ {b}
    /\ UNCHANGED <<setup, file, prev, runs, writes, pc, w, seen>>

-----------------------------------------------------------------------------
(* Steps of the worker.  They leave the file, and all but Save the previous*)
(* manifest, alone.                                                        *)
Work(next, state) ==
    /\ pc' = next
    /\ w' = state
    /\ UNCHANGED <<setup, file, prev, runs, writes, seen>>

(* The file's result, in the manifest once its worker has added it.        *)
Finish(hash, status, chunks) ==
    Work("done", [w EXCEPT !.entry = Entry(status, hash, w.size, w.mtime, chunks)])

(* A worker records an error as an entry without a hash.                   *)
Fail == /\ Work("done", [w EXCEPT !.entry = Entry("error", <<>>, w.size, w.mtime, <<>>)])
        /\ UNCHANGED stored

HasPrev == prev.status # "none"
PrevHashIs(hash) == IsRestorable(prev) /\ prev.hash = hash

(* resolveFileStatus.                                                      *)
Status(hash) == IF ~HasPrev THEN "new"
                ELSE IF PrevHashIs(hash) THEN "unchanged" ELSE "changed"

(* blobsExist: which of the keys are in the store.  A key whose lookup     *)
(* fails counts as missing, ErrPermissionDenied is the caller's error.     *)
Exists(keys, answer) ==
    /\ answer \subseteq keys \cap Keys
    /\ "exists" \notin Faults => answer = keys \cap Keys
Denied == "permission" \in Faults

(* Store a blob unless the key is taken, or fail.                          *)
Put(key, content) == stored' = IF key \in Keys THEN stored
                               ELSE stored \cup {<<key, content>>}
PutFails == "put" \in Faults /\ Fail

(* tryUnchangedEntry: all blobs of the previous entry are there.           *)
TryUnchanged(hash, otherwise) ==
    \/ \E answer \in SUBSET Refs(prev) :
         /\ Exists(Refs(prev), answer)
         /\ \/ answer = Refs(prev) /\ Finish(hash, "unchanged", prev.chunks)
            \/ answer # Refs(prev) /\ otherwise
         /\ UNCHANGED stored
    \/ Denied /\ Fail

-----------------------------------------------------------------------------
(* scanSourceTree finds the file.                                          *)
Scan ==
    /\ pc = "idle" /\ runs < MaxRuns
    /\ runs' = runs + 1
    /\ pc' = "fast"
    /\ w' = [NoWork EXCEPT !.size = Len(file.content), !.mtime = file.mtime]
    /\ seen' = {file.content}
    /\ UNCHANGED <<setup, file, stored, prev, writes>>

(* Where processFile goes when the fast path does not apply.               *)
AfterFastPath == IF w.size >= ChunkUnits THEN "hash" ELSE "read"

StartStream(state) ==
    [state EXCEPT !.retained = w.size <= RetainUnits]

(* Mutant: the fast path compares sizes only.                              *)
FastPathSizeOnly ==
    /\ pc = "fast"
    /\ IF IsRestorable(prev) /\ prev.size = w.size
       THEN TryUnchanged(prev.hash,
                Work(AfterFastPath, StartStream([w EXCEPT !.missing = TRUE])))
       ELSE Work(AfterFastPath, StartStream(w)) /\ UNCHANGED stored

SameStat == IsRestorable(prev) /\ prev.mtime = w.mtime /\ prev.size = w.size

(* processFile: same mtime and size as in the previous manifest.           *)
FastPath ==
    /\ pc = "fast"
    /\ \/ /\ SameStat
          /\ TryUnchanged(prev.hash,
                Work(AfterFastPath, StartStream([w EXCEPT !.missing = TRUE])))
       \/ ~SameStat /\ Work(AfterFastPath, StartStream(w)) /\ UNCHANGED stored

(* openFileWithRetry gives up.                                             *)
OpenFails ==
    /\ "open" \in Faults
    /\ \/ pc = "read"
       \/ pc = "hash" /\ w.read = <<>>
       \/ pc = "upload" /\ ~w.retained /\ w.next = 1
    /\ Fail

(* hashAndEncryptFile reads a small file once and encrypts what it hashed; *)
(* without a key, hashOnlyFile hashes it and then reads it again.          *)
ReadSmall ==
    /\ pc = "read"
    /\ Work(IF setup.encrypted THEN "check" ELSE "reread",
            [w EXCEPT !.hash = file.content, !.blob = file.content])
    /\ UNCHANGED stored

RereadSmall ==
    /\ pc = "reread"
    /\ Work("check", [w EXCEPT !.blob = file.content])
    /\ UNCHANGED stored

(* checkAndUploadBlob, up to the decision to upload.  An unchanged file    *)
(* keeps the chunk list of the previous entry, unless the first of the two *)
(* Exists calls fails.                                                     *)
CheckBlob ==
    /\ pc = "check"
    /\ \/ \E answer \in SUBSET {w.hash} :
            /\ Exists({w.hash}, answer)
            /\ \/ answer = {} /\ Work("put", w)
               \/ /\ answer # {} /\ PrevHashIs(w.hash)
                  /\ Finish(w.hash, "unchanged", prev.chunks)
               \/ /\ answer # {}
                  /\ PrevHashIs(w.hash) => "exists" \in Faults
                  /\ Finish(w.hash, Status(w.hash), <<>>)
            /\ UNCHANGED stored
       \/ Denied /\ Fail

PutSmall ==
    /\ pc = "put"
    /\ \/ /\ Put(w.hash, w.blob)
          /\ Finish(w.hash, Status(w.hash), <<>>)
       \/ PutFails

-----------------------------------------------------------------------------
(* What a read of n units at offset pos returns: fewer at the end.         *)
ReadAt(content, pos, n) ==
    [i \in 1 .. (IF pos + n <= Len(content) THEN n
                 ELSE IF pos <= Len(content) THEN Len(content) - pos ELSE 0)
        |-> content[pos + i]]

(* The next chunk of a file of the scanned size, read up to offset pos.    *)
FixedChunk(content, pos) ==
    ReadAt(content, pos, IF w.size - pos < ChunkUnits THEN w.size - pos ELSE ChunkUnits)

(* Content-defined: up to and including the first cut unit, at most two    *)
(* fixed-size chunks.                                                      *)
CDCChunk(content, pos) ==
    LET rest == ReadAt(content, pos, 2 * ChunkUnits)
        cuts == {i \in DOMAIN rest : rest[i] \in CutUnits} IN
    IF cuts = {} THEN rest
    ELSE SubSeq(rest, 1, CHOOSE i \in cuts : \A j \in cuts : i <= j)

(* Mutant: fixed-size chunking reads to the end of the file too.           *)
NextChunkToEnd ==
    IF setup.cdc THEN CDCChunk(file.content, Len(w.hash))
    ELSE ReadAt(file.content, Len(w.hash), ChunkUnits)

(* hashFileWithChunks stops at the scanned size, hashFileWithCDC at the end*)
(* of the file.                                                            *)
NextChunk ==
    IF setup.cdc THEN CDCChunk(file.content, Len(w.hash))
    ELSE FixedChunk(file.content, Len(w.hash))

(* hashFileWithCDC stops retaining the bytes when the file has outgrown the*)
(* threshold since the scan.                                               *)
Hashed(chunk) ==
    [w EXCEPT !.read = Append(@, chunk), !.hash = @ \o chunk,
              !.retained = @ /\ (setup.cdc => Len(w.hash \o chunk) <= RetainUnits)]

(* One chunk of the hash pass.                                             *)
HashChunk ==
    /\ pc = "hash"
    /\ \/ NextChunk = <<>> /\ Work("same", w)
       \/ NextChunk # <<>> /\ Work("hash", Hashed(NextChunk))
    /\ UNCHANGED stored

(* processFileStreaming: the content hash is the previous one.             *)
SameHash ==
    /\ pc = "same"
    /\ \/ PrevHashIs(w.hash) /\ ~w.missing /\ TryUnchanged(w.hash, Work("probe", w))
       \/ ~(PrevHashIs(w.hash) /\ ~w.missing) /\ Work("probe", w) /\ UNCHANGED stored

(* Mutant: the previous chunks are taken to be in the store.               *)
ProbeChunksTrusting ==
    /\ pc = "probe"
    /\ IF Range(w.read) \subseteq Range(prev.chunks)
       THEN Finish(w.hash, Status(w.hash), w.read)
       ELSE Work("upload", [w EXCEPT !.present = Range(prev.chunks)])
    /\ UNCHANGED stored

(* uploadChangedChunks asks for the previous chunks first.                 *)
ProbeChunks ==
    /\ pc = "probe"
    /\ \/ \E answer \in SUBSET Range(prev.chunks) :
            /\ Exists(Range(prev.chunks), answer)
            /\ \/ /\ Range(w.read) \subseteq answer
                  /\ Finish(w.hash, Status(w.hash), w.read)
               \/ /\ ~(Range(w.read) \subseteq answer)
                  /\ Work("upload", [w EXCEPT !.present = answer])
            /\ UNCHANGED stored
       \/ Denied /\ prev.chunks # <<>> /\ Fail

(* The bytes of the chunk to upload next, read again from the file.        *)
Reread == ReadAt(file.content, w.pos, Len(w.read[w.next]))

(* The file is read on also past a chunk that is skipped.                  *)
Past == [w EXCEPT !.next = @ + 1, !.pos = @ + Len(w.read[w.next])]

UploadDone == Finish(w.hash, Status(w.hash), w.read) /\ UNCHANGED stored

Skip == Work("upload", Past) /\ UNCHANGED stored

Store(chunk) == \/ /\ Put(w.read[w.next], chunk)
                   /\ Work("upload", Past)
                \/ PutFails

(* One chunk from the bytes kept by the hash pass.                         *)
UploadRetained ==
    LET chunk == w.read[w.next] IN
    /\ pc = "upload" /\ w.retained /\ w.next <= Len(w.read)
    /\ \/ chunk \in w.present /\ Skip
       \/ chunk \notin w.present /\ Store(chunk)

(* Mutant: the bytes read again are stored without checking their hash.    *)
UploadRereadUnverified ==
    LET chunk == w.read[w.next] IN
    /\ pc = "upload" /\ ~w.retained /\ w.next <= Len(w.read)
    /\ \/ Reread = <<>> /\ UploadDone
       \/ Len(Reread) \in 1 .. Len(chunk) - 1 /\ Fail
       \/ /\ Len(Reread) = Len(chunk)
          /\ IF chunk \in w.present THEN Skip ELSE Store(Reread)

(* One chunk read again: a short read is an error, no bytes at all end the *)
(* loop, and the bytes must still have the chunk's hash.                   *)
UploadReread ==
    LET chunk == w.read[w.next] IN
    /\ pc = "upload" /\ ~w.retained /\ w.next <= Len(w.read)
    /\ \/ Reread = <<>> /\ UploadDone
       \/ Len(Reread) \in 1 .. Len(chunk) - 1 /\ Fail
       \/ Len(Reread) = Len(chunk) /\ chunk \in w.present /\ Skip
       \/ chunk \notin w.present /\ Reread = chunk /\ Store(chunk)
       \/ /\ Len(Reread) = Len(chunk)
          /\ chunk \notin w.present /\ Reread # chunk /\ Fail

UploadEnd ==
    /\ pc = "upload" /\ w.next > Len(w.read)
    /\ UploadDone

(* SaveManifestWithKey refuses the whole manifest if the entry is invalid. *)
Save ==
    /\ pc = "done"
    /\ prev' = IF Valid(w.entry) THEN w.entry ELSE prev
    /\ pc' = "idle" /\ w' = NoWork /\ seen' = {}
    /\ UNCHANGED <<setup, file, stored, runs, writes>>

Next == \/ Overwrite \/ Extend \/ Truncate \/ LoseBlob
        \/ Scan \/ FastPath \/ OpenFails
        \/ ReadSmall \/ RereadSmall \/ CheckBlob \/ PutSmall
        \/ HashChunk \/ SameHash \/ ProbeChunks
        \/ UploadRetained \/ UploadReread \/ UploadEnd \/ Save

Spec == Init /\ [][Next]_vars

-----------------------------------------------------------------------------
(* A blob's content has the hash it is stored under: the content-addressed *)
(* store stays uncorrupted although the file changes between the hash pass *)
(* and the read that supplies the bytes.  A repository without a key reads *)
(* a small file twice and checks nothing.                                  *)
BlobsHonest == setup.encrypted => \A b \in stored : b[1] = b[2]

(* A file that was backed up can be restored: every blob its entry refers  *)
(* to is in the store when the manifest is about to be saved, as long as   *)
(* nothing cuts the file short.                                            *)
NoDangling ==
    pc = "done" /\ IsRestorable(w.entry) /\ "truncate" \notin setup.writes => Refs(w.entry) \subseteq Keys

(* uploadChangedChunks succeeds only when every chunk of the list it was   *)
(* given is stored; a file that was truncated since the hash pass is an    *)
(* error of that file.                                                     *)
ChunksUploaded ==
    pc = "done" /\ IsRestorable(w.entry) => Range(w.entry.chunks) \subseteq Keys

(* An entry records nothing stale: every unit of its content was in the    *)
(* file, at that offset, at some moment since the scan of this run, also   *)
(* when the file was skipped as unchanged; writes that leave the second of *)
(* the mtime alone go unnoticed.                                           *)
EntryFresh ==
    pc = "done" /\ IsRestorable(w.entry) /\ ~setup.sameSecond =>
        \A i \in DOMAIN w.entry.hash :
            \E c \in seen : i \in DOMAIN c /\ c[i] = w.entry.hash[i]

(* What a file does while it is backed up does not make the save of the    *)
(* whole manifest fail: the chunks of its entry add up to the scanned size,*)
(* unless it is truncated, or grows while it is cut by content.            *)
EntryAccepted ==
    /\ pc = "done"
    /\ "truncate" \notin setup.writes
    /\ setup.cdc => "append" \notin setup.writes
    => Valid(w.entry)
=============================================================================
