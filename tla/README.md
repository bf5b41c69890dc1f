# A verification of gbf-core in TLA+

gbf-core is the engine of a deduplicating backup program: it walks a source
directory, stores the contents of its files as content-addressed blobs, writes a
manifest per run, and restores from a manifest. This directory holds TLA+
modules of its stateful parts, the TLC configurations that check them, and
proofs for TLAPS. Paths are relative to the repository's root; models follow the
POSIX build.

## The system's parts

| Part | Source | Module |
|---|---|---|
| Blob store contract | `simple/blobstore.go`, `simple/store_conformance.go` | `BlobStore` |
| Local blob store | `simple/local_store.go` | `LocalBlobStore` |
| Blob containers and uploads | `simple/crypto.go`, `simple/stream.go`, `simple/hash.go` | `BlobFormat`, `BlobUpload` |
| Source scan, exclude patterns, manifest tree | `fsutil/ignore.go`, `simple/pipeline.go` (scanSourceTree), `simple/manifest.go` | `SourceScan` |
| Backup of one file | `simple/pipeline.go` (processFile and below), `simple/chunk_cdc.go` | `FileBackup` |
| Backup run | `simple/pipeline.go` (Run, worker pool) | `Pipeline` |
| Progress tracker | `simple/progress.go` | `ProgressTracker` |
| Manifest store | `simple/manifest.go`, `fsutil/fileio*.go`, `fsutil/commit_noreplace_other.go` | `ManifestStore` |
| Source registry | `simple/manifest.go`, `simple/pipeline.go` (updateSourceRegistry) | `SourceRegistry` |
| Keys, initialisation, configuration | `simple/keys.go`, `simple/init.go`, `simple/config.go`, `simple/chunk_cdc.go` | `Repository` |
| Restore | `simple/restore.go`, `simple/restore_secure*.go`, `simple/hash.go` | `Restore` |
| Rate limiter | `ratelimit/ratelimit.go` | `RateLimiter`, `RateLimiterTokens` |
| Everything else | | see *Not modelled* |

How they interact: the application initialises a repository and unlocks it
(Repository). `Run` (Pipeline) scans the source (SourceScan) and hands each file
to a worker, which runs processFile (FileBackup). That asks the blob store
(LocalBlobStore, through the contract BlobStore) which blobs it has, and encodes
and puts the missing ones (BlobUpload), throttled by the rate limiter; the
workers report to the progress tracker. When the pool is done, Run saves the
manifest (ManifestStore) and then updates the source's registry (SourceRegistry).
A restore reads a manifest and the blobs it names. Several processes may share a
repository; nothing but the file system is shared between them. Garbage
collection belongs to the application: this repository gives it
`CollectAliveHashesStreaming` and `Delete`.

## The modules

**BlobStore** is what a store promises: one set of blobs, on which every call
takes effect, and from which it answers, between its invocation and its return.
A call may fail before or after its effect.

**LocalBlobStore** splits the methods where another goroutine, a crash or an
error can come between: the put mutex of a hash (`lockPut`), the exists cache
under `existsMu`, stat, staging write, rename, directory sync, cache fill;
Delete removes the file and then the cache entry. `blobs` is the directory as
seen, `synced` as it would be after a power loss, `acked` the hashes whose last
Put returned nil. Instances are processes, threads their goroutines. With
`blobs` for `stored` it implements BlobStore.

**BlobFormat** has the containers as sequences of words: GB1, whose small and
large forms are told apart by whether the first number is a plausible chunk count,
GB2 with a size and a compression flag per chunk, GB3 with a header that describes
itself, the sealed manifest; the encoders, and the two decoders, the buffered one
(`Decrypt`) and the streaming one (`DecryptStreamToFile`). Numbers keep their
limits (`MaxChunkCount`, `MaxGB3ChunkSize`). AES-GCM is ideal: a ciphertext opens
under its own key and IV, whole and unchanged, or not at all. **BlobUpload** puts
the encoders to work: UploadBlobFromPath reads the file chunk by chunk while another
program rewrites it, chooses the format from size and extension, hashes what it
read, compares with the hash it was told to expect, and skips what is stored;
UploadBlob stores bytes from memory.

**SourceScan** is the walk of `scanSourceTree`: entry by entry, in the order of
the names, while another program creates and removes files and directories. The
patterns are read anew by every run: `src` is the directory that is backed up, with
the settings (`configs`) and the ignore files (`ignoreFiles`) it may have from one
run to the next, and an ignore file that cannot be read counts as none
(`LoadIgnoreFile`). A manifest remembers the patterns of its run.
`ShouldSkipDir`, `IsExcluded` and `MatchPattern` over paths as sequences of names;
size filters and the overflow check of their multiplication; then the tree
(`AddFile`, `AddEmptyDir`, `ensureParentDirs`) built in whatever order the workers
finish, its file map, and the comparison of the next run against it.
`MatchPattern` and `matchGlobstar` call each other with what is left of a path and
of a pattern: `MatchCall` is one such call, and `Matches` tabulates, for each number
of last names of the pattern, the positions from which on the path matches them.

**FileBackup** follows one file through several runs while a program overwrites,
extends or truncates it between any two reads: fast path, small and streamed
files, fixed and content-defined chunks, retained bytes or a second read, chunk
probes, the entry, and the check of the manifest that is saved. A content is a
sequence of units and its own hash (SHA-256 has no collisions); `w.hash` is what
the running hash has been fed, `w.pos` the offset of the second read. The store is
a set of pairs of key and content, so that a wrong blob can be told from a right
one. Openings retried by `openFileWithRetry` are one step.

**Pipeline** is Run: preparation, scan, producer and workers around a bounded
channel, cancellation at any step, counters, completeness, save. What processFile
and the scan do are outcomes here. It is composed with **ProgressTracker**, the
two mutexes of the tracker: each report changes the state and takes a snapshot
under `mu`, and hands it to the callback under `cbMu`; Run and its workers are the
threads that report, and go on only when their callback has returned.

**ManifestStore** is the manifest directory of one source: saves under
`manifestSaveMu` with link(2) as the no-replace commit and random suffixes when
the second is taken, readers that list first and load file by file, removal to
the trash or for good, of one manifest or all, and trash expiry. Legacy manifests
are two files, body and `.sha256`. `mtime` is the modification time of a
manifest's file, taken from a clock that advances at least once a save unless the
file system's is coarse; readers order by the second in the name and then by it
(`Foremost`). A trash on another device is filled by copying and unlinking
(`renameWithFallback`). Of the directory itself, `rooted` says whether its name in
its parent is on the disk, `synced` what it holds there, and `former` what is there
under its name while it is not: after all manifests of a source were removed and a
save has made the directory again. Nothing in the code syncs that name, or anything
in the trash. `gone` has the manifests that were removed, or that a power loss took
with an unrooted directory.

**SourceRegistry** is the unlocked read-modify-write of a registry by backup
runs and by the application, deletion, and the listing of all registries.

**Repository** is `config.json` and `repo.key`: initialisation with a password,
with a plaintext key file or without a key, the migration of a plaintext key file
to a password, unlocking, and the chunking polynomial that a backup reads or adds
to the configuration. Every write is the rename of an atomic write and the sync of
the directory, two steps, and what was not synced may or may not survive a power
loss. `IsGBRepo` takes a configuration, or a directory of manifests, that it cannot
read for one that is not there; `missed` has the signs of a repository that an
initialisation failed to see that way. `data` and `granted` remember the keys that manifests were sealed under and
the passwords that were accepted.

**Restore** takes the entries of a manifest one by one: small files downloaded
whole, large single blobs and chunk lists streamed into a staging file, verified,
flushed, renamed over the target, the directory synced; on an error Cleanup unlinks
the staging file and ignores it when it cannot. `staged` has the staging files of the
last run; those of runs before it, that were killed, stay for good. The codec is reduced to
the one question of what a stored piece decodes to, which BlobUpload answers. Path
checks, modes and directory trees are left out: there is one target directory.

**RateLimiter** has the refill loop in two steps (the rate is loaded before the
mutex is taken), WaitN, SetRate and Stop, with int64 additions that wrap at
`MaxInt`. **RateLimiterTokens** adds a ledger of what was granted and taken.

In several modules a variable `setup` or `cfg`, fixed in the initial state, says
which options, calls and faults a behaviour has, so that one run covers several
situations; properties that need an assumption name it. Definitions marked
*Mutant* are faulty variants of the definition that follows them. No
specification uses them; they show which mistake a property would catch.


## The runs

Distinct states and times are from a machine with two workers.

| Configuration | Shows | States |
|---|---|---|
| `MCLocalBlobStore` | 3 callers in 2 processes on 1 hash, failing stat and sync, kills: StoreInv (the proofs' invariant, with the type invariant, CacheSound and AckedStored), refinement of BlobStore | 181,000, 70 s |
| `MCLocalBlobStore_crash` | 2 callers in 1 process, 2 hashes and a malformed one, failing write, rename and remove, power loss: AckedStored, CallsReturn | 95,000, 90 s |
| `MCBlobUpload` | 2 uploads, from a file that is rewritten twice or from memory, sizes around the chunk size and the largest chunk count: AckedDecodes, LossRejected, OldFormsDecode | 77,826, 51 s |
| `MCSourceScan` | 2 source trees, every form of pattern, negations, size filters at and past the overflow, settings and an ignore file that change or cannot be read between the runs, 2 runs, one change at any moment of them: NothingOmitted, ExcludedStaysOut, TreeIsWhole, ReportedHasChanged | 708,368, 145 s |
| `MCFileBackup` | one file, up to 3 runs and 2 writes, blobs lost between runs, failing calls: BlobsHonest, NoDangling, EntryFresh, EntryAccepted | 522,000, 15 s |
| `MCPipeline` | 3 files, 2 workers, a channel of 1, every failure, cancellation, progress reports: SavedIsWhole, CompleteIsComplete, CompleteIsLast, RunReturns | 119,029, 30 s |
| `MCManifestStore` | up to 3 saves of one second by 2 processes, a legacy manifest, readers, removals, a trash on another device, damage, kills, power loss in directories old and new: AckedKept, LoadFinds, LoadedIsLatest, SavesReturn | 575,110, 179 s |
| `MCSourceRegistry` | 2 runs and an edit on one source, another registry good, damaged or misplaced: RegistryNotAhead, NothingLost, ListAccountsForAll | 1,140,000, 35 s |
| `MCRepository` | 2 processes, 2 passwords, 4 calls, 2 faults, failing reads of IsGBRepo, on a new repository and two of older versions: KeyKept, EncryptedHasKey, GrantedUnlocks, PolynomialSettles | 656,396, 148 s |
| `MCRestore` | a chunked, a small, a large and a failed entry, 2 runs, every failure, damage, cancellation, kill, power loss, another writer: NeverPartial, ReturnedComplete, RestoredStays, CleanStaging, KeepsExisting, RunReturns | 203,852, 30 s |
| `MCRateLimiter` | 2 waiters, rates 0, 3 and 12, SetRate twice, Stop: BucketBounded, TokensConserved, WaitersReturn, StopEndsRefill | 299,000, 85 s |

One run ends in a counterexample, where the code and a comment disagree:
`MCFileBackup_truncated` (ChunksUploaded). A file cut exactly at a chunk boundary
after the hash pass ends the upload loop without an error
(`simple/pipeline.go:1290`); its entry names chunks that were never stored.

### Bounds

The bounds keep every case of the code reachable. Two processes and a third
caller are what it takes for one call to observe the middle of another's and for
a third to act on it; two hashes make a batch answer partly from the cache. A
file of up to four units with chunks of two has a small, a streamed, a retained
and a re-read form, and three runs let an entry be created, reused and reused
after a loss. Blobs of 0, 2, 3, 5 and 7 words with chunks of 3 and at most two
chunks in GB1 and GB2 are empty, small, exactly one chunk, the largest count and
past it, which is GB3; an IV of two words, the first a number, collides with
every chunk count. Three levels of directories are the least in which a "**"
skips one, and "ab" is a name that another name begins. One change is enough to
come before, between or after any two visits of a walk. Two runs with two settings
and two ignore files, readable or not, let a path be kept out by either run, by both
and by none. Four calls let a
repository be initialised, migrated by two processes at once and backed up; two
faults let a power loss follow a damaged configuration. One random suffix and two
attempts make saves run out of names with three manifests. The rates 3 and 12 are
worth less and more than one token per tick; `MaxInt = 63` satisfies the
assumption on rates (3 * 12 < 63), under which the proof shows that no sum wraps,
as it does for every rate below a third of the largest int64. The ledger covers
four ticks, the limiter runs on. `MaxInt64 = 7` is exceeded by the size filter
2 * 4.

### Fairness

Goroutines are scheduled and system calls return, so steps of calls, saves, runs
and workers are weakly fair. A step of a LocalBlobStore call is strongly fair
because a waiter for a `sync.Mutex` may see it free and taken again, and Go's
mutex hands itself to a waiter that starves; so is taking `cbMu` in Pipeline,
whose callbacks are assumed to return. Nothing is assumed of callers: no call,
write, cancellation, fault or change of the rate has to happen. Deadlock is
checked in LocalBlobStore, which always accepts another call, and in Pipeline,
where only a run that has returned may stay as it is; the other systems stop when
their bounded inputs are used up, and where everyone could wait for everyone a
liveness property rules it out (SavesReturn, WaitersReturn, Restore's RunReturns).

### Assumptions the properties name, and what happens without them

These are cases outside the conditions of a property. They are facts about the
code a maintainer should know.

- CacheSound: callers keep a Delete apart from other calls on its blob, and no
  other process has it cached (`DeleteMode = "quiet"`). With `"any"`, a Delete
  between the stat and the cache fill of Exists leaves a stale entry
  (`simple/local_store.go:264`).
- AckedStored under power loss: one process that is not killed, directory syncs
  that do not fail, shard directories that are durable. A Put that finds the file
  returns without a sync (`simple/local_store.go:119`), also when the Put that
  renamed it belongs to another process, was killed or failed in its sync; and a
  new shard directory is never synced into `gb/` (line 83).
- AckedDecodes: the file is not cut and does not grow past a chunk while it is
  read, and does not begin with a zstd frame. A file cut while it is streamed is
  stored, under the hash of what was read, in a container that announces more
  chunks (`simple/stream.go:35`). A file that grows past the chunk size after the
  first Stat, and whose compressed form is a chunk or longer, fails the hash check
  of the streaming restore (`simple/stream.go:74`). A file that begins with the zstd magic and is stored
  uncompressed is decompressed on restore; its hash does not match and the restore
  fails (`simple/hash.go:74`, `simple/restore.go:508`), while
  `simple/stream.go:105` calls compression "a storage-layer detail only".
- LossRejected: what follows the first number. A one-chunk GB1 blob without its
  count is a valid small blob of the same content.
- NothingOmitted: no scan errors, and a source path that is itself a directory.
  `filepath.Walk` does not follow a symbolic link that it is given: it visits the
  link once, as the root (`simple/pipeline.go:407`), and Run saves an empty manifest
  without a scan error. An unreadable directory is an error even when
  it is excluded, and ends the run unless AllowScanErrors. The pattern `a/**/x`
  also excludes `b/ab/x`, since what precedes "**" is looked for as a substring
  (`fsutil/ignore.go:274`; Loose).
- ExcludedStaysOut: a "*" in front of "**", and a second "**", are taken
  literally (Literal). A "!" pattern below an excluded directory has no effect,
  although ShouldSkipDir would let it be walked (`fsutil/ignore_test.go:241`): the
  walk never gets there. A directory whose name ends like a staging
  file and that is negated explicitly is walked.
- ReportedHasChanged: no scan errors in the run. A run that is allowed them counts
  what it could not read as deleted. The report also depends on the patterns: Run
  reads them anew (`simple/pipeline.go:220`) and compares with a manifest made under
  others. Where the settings or the ignore file have changed, a file that nobody
  touched is reported as new or deleted; and an ignore file that cannot be read is
  taken for an empty one, without an error (`fsutil/ignore.go:36`), so that what it
  excludes is backed up and reported as new, and by the next run as deleted. The
  property allows a report of an untouched file exactly when the patterns of one of
  the two runs keep it out and those of the other do not.
- BlobsHonest: an encrypted repository. Without a key a small file is hashed in
  one read and stored from another (`simple/pipeline.go:1097`).
- NoDangling: no truncation. A streamed file that became empty has an entry
  without a blob (`simple/pipeline.go:1211`); see also `MCFileBackup_truncated`.
- EntryFresh: no two writes within a second of the mtime, which the fast path
  compares in whole seconds (`simple/pipeline.go:903`; `README.md:75` lists
  sub-microsecond precision).
- EntryAccepted: a file cut by content does not grow. If it does, its chunks add
  up to more than the scanned size and the save of the whole manifest is refused
  (`simple/chunk_cdc.go:144`, `simple/manifest_validate.go:180`).
- CompleteIsComplete says what a manifest with failed files may claim. That a
  denied store aborts the run, as `simple/pipeline.go:811` demands, is not so:
  the workers record it per file (line 535).
- CompleteIsLast: callbacks return. A slow one holds up the other workers
  (`simple/progress.go:74`, against the comment at line 48). The tracker counts
  changed files as new ones (`simple/pipeline.go:580`) and failed ones as
  unchanged.
- AckedKept: over a power loss, the name of the manifest directory is on the disk.
  A save syncs the directory (`fsutil/commit_noreplace_other.go:35`), but not the
  parent of one that MkdirAll has just made (`simple/manifest.go:688`): until the
  file system writes that name by itself, a power loss takes the directory with every
  manifest acknowledged in it. The property leaves out exactly what goes that way
  (`gone`); without that TLC finds the first manifest of a source lost. A directory
  that was there at the last boot loses nothing.
- AckedKept, of the trash: no power loss. Neither the rename into the trash nor the
  copy to another device is synced (`simple/manifest.go:1281`), and the source is
  gone by then, so nothing is promised of a trashed manifest once power was lost
  (PowerLoss empties `trashed`, and may lose or tear the file). While power lasts it
  is whole in the trash until another of its name is trashed, or it expires; a rename
  keeps the mtime, so the retention counts from the manifest's age. When the source
  of a copy cannot be removed the call reports success all the same.
- AckedKept says nothing of a save that returned an error: its manifest may be
  visible all the same (`simple/manifest.go:761`).
- A legacy manifest and its checksum may get separated: the error of the
  sidecar's move is dropped (`simple/manifest.go:1196`; line 1184 says they never
  are). Readers skip what does not verify (LoadFinds).
- NothingLost: writers of a source take turns. Overlapping ones lose updates. A
  run of an older build replaces a registry of a newer schema, which the loader
  had rejected, by a fresh one (`simple/pipeline.go:661`; `simple/manifest.go:1784`
  refuses to touch it).
- EncryptedHasKey, KeyKept: an initialisation runs alone, and the directories'
  own entries survive a power loss. A crash between the configuration and the key
  leaves a repository that has no key and cannot be initialised again
  (`simple/keys.go:95`); of two overlapping initialisations one loses its key
  (`simple/init.go:17`).
- KeyKept: no initialisation fails to read the directory of the manifests that are
  there. IsGBRepo drops the errors of LoadConfig and of ReadDir
  (`simple/config.go:104`, `simple/config.go:109`). A configuration that is damaged
  or cannot be read does no harm, because the manifests are a second sign of a
  repository in use. When reading their directory fails too, the repository looks
  uninitialised, and the initialisation replaces `repo.key`: what was backed up can
  no longer be decrypted. The property exempts that case (`"manifests" \in missed`);
  without the exemption TLC finds it.
- GrantedUnlocks: no other migration is about to write when this one syncs its key
  file, and the configuration is neither damaged nor unreadable to an
  initialisation, which would take a repository without manifests for a new one
  (PolynomialSettles needs this too). Of two overlapping
  migrations with different passwords both may succeed, and one password opens.
- PolynomialSettles speaks of a repository at rest. Overlapping first backups of
  a repository of an older version draw different polynomials
  (`simple/chunk_cdc.go:52`), which costs deduplication only.
- WaitersReturn: the limiter is not stopped. After Stop a waiter whose context
  never ends waits forever.
- KeepsExisting: no other program creates the target between the lookup and the
  rename. RestoredStays: the target directory was there before; directories a
  restore makes are not synced into their parents. CleanStaging: the unlink of
  Cleanup, whose error is dropped (`simple/restore_secure_posix.go:160`), succeeds.

## The proofs

Most leaves are first-order, so most modules say `USE Zenon`; a leaf that needs
arithmetic, or a function built from one, names SMT.

`LocalBlobStoreProofs`, for any sets of hashes, threads and instances:

- `TypeCorrect`: type correctness, under every fault and every use of Delete.
  TypeOK alone is not inductive: that only well-formed hashes reach the directory
  depends on the check many steps earlier. `CallsWellFormed` records which steps
  each operation goes through and on which keys.
- `StoreInvariant`, and from it `CacheIsSound` and `AckedBlobsStay`, from
  `DeleteMode = "quiet"` and no power loss. The invariant `StoreInv` adds what
  calls in flight rely on (`InFlight`: the blob of a Put past its rename, and
  whatever a reader found, is still there) and `DeleteAlone`. Without InFlight a
  cache fill could not be justified; without DeleteAlone nothing would keep
  InFlight. The argument classifies each step by its effect (`StepEffect`: it
  grows the directory, fills a cache, removes a file or forgets an entry) and
  shows the conjuncts for the four effects rather than the fourteen steps.
- `LocalIsBlobStore`, under the same assumptions: the local store implements
  BlobStore. The mapping takes the
  directory for the store and the calls as they are; `RefinementInv` adds to
  StoreInv what a call has done at each of its steps (`CallState`: a Put has its
  whole key to do until the rename or the stat that finds the file, a Delete until
  the remove, a reader the keys it has not looked at). Answers from the cache are
  the delicate case: a hit counts as an effect on the directory only because no
  Delete that has yet to forget it can overlap the call (`CacheHits`). Locking,
  staging, syncs and cache fills are stutters or the return.

The same module begins with the limiter that `putBlob` waits on, for any waiters
and any rates r with 3r < MaxInt:

- `LimiterTypeCorrect`, `BucketStaysBounded`, `OneRefillLoop`, by `LimiterInv`:
  the rate in use, the rate a tick has loaded and the cap all come from rates
  that were set, so no sum overflows before it is cut to the cap.
- `NoTokenTwice`: TokensConserved for any number of ticks, by `TokensInv`, which
  needs LimiterInv because a wrapped sum would create or destroy tokens.

`RepositoryProofs`, for any processes, passwords, calls and faults, when
initialisations run alone:

- `KeyIsKept`, `MarkedHasKey` and `PasswordKeepsOpening`, by `RepositoryInv`. The
  three properties are not inductive: a power loss takes each file as it is seen
  or as it was last synced, so a configuration marked encrypted, in either form,
  must come with a key that is already durable (`FilesInv`); an initialisation
  replaces whatever key there is, which loses nothing because no manifest exists
  and no password was accepted (`InitialisingInv`); a migration writes back the key
  it has read, which is still the one on disk (`MigratingInv`); and a password is
  accepted only when no migration can write after it (`GrantedInv`, from what
  `alone` records at the sync). What an initialisation failed to see (`missed`) is
  part of the statements: nothing is claimed of a key once a directory of manifests
  that was there was taken for an empty one, nor of passwords once that happened to
  the configuration.

`BackupRunProofs`, of Pipeline, for any files, workers, channel capacity and faults, and a
context cancelled at any step:

- `SavedWhole` and `CompleteMeansComplete`, by `PipelineInv`. A scanned file is in
  one place at most: to be sent, in the channel, with a worker, or recorded
  (`OnePlace`), so no file is recorded twice. While the context lives it is in
  exactly one (`LiveRun`), so that after `wg.Wait`, with every worker gone and the
  channel closed and drained, all of them are recorded; a cancelled run loses
  files, but the last check of the context comes before the save. The counters
  equal the number of recorded files at every step (`Counted`).
- `LastReportIsTrue`, by `ReportInv`. A thread goes on only when its callback has
  returned (`ReportersWait`), so no worker's snapshot is left when Run takes the
  last one, under `mu`, after `wg.Wait`; until then no snapshot, delivered or on its
  way, announces the end (`NotAnnounced`), and from then on the tracker does not
  change (`Announced`). That the totals are those of the run is `Tracked`.

The same module, of ManifestStore, for any saves, processes, suffixes, commit
attempts, removals, kills and power losses:

- `SavedManifestsStay`: link(2) takes a free name and the directory is synced
  before the save returns, so the name is the save's, as seen and as synced, until
  a removal unlinks it; into the trash of another device only after a whole copy. A
  power loss brings back one of the two, or, where the directory's own name was never
  written, what had it before (`former`), and then the acknowledged manifests are
  `gone`. Nothing is claimed of the trash after a power loss.
- `ReadersFind`: what a reader has yet to load, has loaded or may skip accounts for
  every manifest it is asked for, at each of its steps.
- `LatestIsReturned`: the order of the names' seconds and of the mtimes is the
  order in which the reader tries them. A manifest may take, after the listing, the
  name of one that was removed since; it is then read in that one's place, and the
  property says nothing of its own mtime against the others of its second.

`FileBackupProofs`, for any units, chunk size, retention threshold, cut rule,
number of runs and writes, and any failing calls and lost blobs:

- `StoreStaysHonest`, by `HonestInv`: what a small file's upload holds is what was
  hashed; the bytes of a chunk are kept since the hash pass or compared with it.
- `EntriesAreFresh`, by `FreshInv`. The fast path trusts an mtime, so the invariant
  says what an mtime means when no two writes share a second: a file that has the
  mtime of the scan was not written since, and one that has the mtime of the
  previous entry holds what that entry records, however often the entry was reused
  (`PrevFresh`).
- `NothingDangles` and `EntriesAreAccepted`, by `EntryInv`. The chunks read add up
  to what was hashed, and the second read stands where the next chunk begins
  (`ChunkList`); a file nothing cuts short is at least as long as what was hashed
  (`LengthInv`), so the second read never ends early, which is what
  `MCFileBackup_truncated` shows without that assumption. A small file that hashes
  to the previous content keeps that entry's chunk list without a look at the
  chunks (`checkAndUploadBlob`); nothing dangles because a file that had chunks is
  never small again (`PrevInv`). That a list of chunks adds up to one total only
  (`OneTotal`) is an induction over the list, by the least offset that differs.

`SourceScanProofs`, for any names, source tree, patterns, size filters and
configuration, any number of backups, and changes by others at any step of a walk:

- `TreesAreWhole`, `ReportsAreTrue`, `NothingIsOmitted` and `ExcludedIsOut`, by
  `ScanInv`. The properties speak of saved manifests only. Until then `WalkInv` says
  of everything that was there throughout (of what comes and goes nothing is known)
  that it is recorded, filtered out, or at or below something the walk has yet to
  visit (`NothingMissed`). What is there is in a directory (`Rooted`), the
  directories on the way to what was met were recorded (`Reached`), the walk meets a
  path once, whatever others do (`MetOnce`), nothing recorded is excluded, itself or
  above it (`Allowed`), and what was recorded and not touched since is still what it
  was (`Lasting`). `ManifestInv` is the tree as it grows: it holds exactly the files
  that no worker is still to add, the empty directories, and all directories above
  them. `BaselineInv` carries over to the next backup that a manifest saved without
  errors has all that it should (`Complete`) under the patterns of its own run, which
  is what makes a difference from it a change, of the source or of the patterns.
- `MatchIsSound` and `MatchIsComplete` relate `MatchPattern` to what a pattern says
  (`Says`, `SaysOf`): a placing of the pattern's names along the path. Every call
  leaves the rest to a shorter pattern, so both are inductions over `Matches`.
  Complete it is for all patterns but those that it takes literally in part
  (`Literal`: `*` before a `**`, a second `**`, or `*` among several names that
  follow a `**` in the middle, as in `a/**/b/*`), and sound but for those
  whose name before a `**` begins a longer name (`Loose`: `a/**/b` also matches
  `x/ab/b`). `EnsureDef`, `AddFileDef` and `AddEmptyDirsDef` say what the loops over
  a path and over the directories return.
- `ScanInvariant` is `Spec => []ScanInv`; TLC has checked ScanInv on the instance
  of `MCSourceScan`.

`BlobUploadProofs`, for any contents, chunk size, sizes of IV and tag, largest
chunk count, limits on compression and on stored chunks, and any writes to the file
while it is read:

- `AckedIsDecodable`, by `UploadInv`. The property speaks of what both decoders
  return, which no step of an upload says anything about, so the invariant says
  instead how every stored blob was made (`WellMade`): it is a small blob, or a
  header and frames such that the header announces as many chunks as there are, of
  GB1 all but the last are full, and each frame seals a chunk or its zstd frame and
  says which. Of the upload at hand, `Written` says that the temporary file is the
  header of the size that Stat returned and one frame for each chunk read. That the
  file may have been rewritten between Stat and any two reads does not matter: the
  chunks read are what is hashed, sealed and counted.
- `WellMadeDecodes` is the other half, by induction over the frames (`Decoded`):
  after k rounds a decoder has the first k chunks and what is left begins where
  frame k + 1 does (`AtPiece`), GB1 because full chunks tell where a frame ends. For
  small blobs the delicate case is one whose IV begins like a chunk count: as a
  large one it fails in the first round, because no sealed word that begins a
  ciphertext stands where the first chunk's would (`NoChunk`), and both decoders
  then try it as a small one.
- `OldFormsAreRead` is the same for small blobs with any number at the beginning of
  their IV, and for manifests: one sealed under the master key itself does not open
  under the derived key, which is another.
- Assumed of constants: a word that is no number reads as a number no smaller than
  the size of a file (`Len(c) <= Noise`). What a ciphertext reads as when it is taken
  for a number is arbitrary; the model fixes one value, and this says that it is not
  a small one by accident.

`RestoreProofs`, for any manifest, any number of runs, and any failing calls,
damaged blobs, kills and power losses:

- `AlwaysWhole`, `OkMeansComplete`, `RestoredDurable`, `NothingStaged` and
  `ExistingKept`, by `RestoreInv`. What a target name shows says nothing of what a
  rename is about to put there, so `FileInv` follows the staging file: it holds
  verified pieces in the file's order, all of them from the flush on, and is
  flushed before the rename, so that no name ever stands for data a power loss
  takes away (`WholeInv`, of the names as seen and as synced). A file behind the
  loop is in place (`LoopInv`), a counted one durably (`AckedInv`), and only the
  file at hand is staged by this run (`StagingInv`). A file that was there is there durably
  (`ForeignInv`); without Overwrite the name at hand was found free.

`SourceRegistryProofs`, for any sources and finitely many runs and edits:

- `NeverAhead`, for overlapping writers and every fault, by `RegistryInv`. A
  registry that was read may be written much later, over one that counts more, so
  the bound is stated of every registry there is, seen, synced or held: it counts
  only saved runs that have done their reading (`Counted`), a set that never
  shrinks and that each run enters once, as it adds itself to what it read.
- `NoUpdateLost`, when writers take turns and the registries of the sources they
  write load at the start, by `LosslessInv`: the file tells exactly of the writers
  whose rename is done, and what the one writer at work holds, of itself besides.
- `ListingComplete`, by `ListInv`: a registry that stays is on the list or
  accounted for; a writer never replaces a file by none.

The assumptions on constants are named, stand in the modules that declare the
constants, and are evaluated by TLC in every run.

Where a theorem is about a recursive definition (the matching of patterns, the
loops over a path, the loops over the chunks of a blob), the definition is a recursive function, and the induction is
over the set of numbers for which the claim holds (`Induction`,
`StrongInduction`): the library's own induction theorems take a predicate as a
parameter, which the provers cannot instantiate.

Only model-checked: liveness, which needs fairness and ENABLED; PolynomialSettles,
a property of a repository at rest; and LossRejected of BlobUpload.

## Not modelled

- `crypto/`, `compress/`, `vault/`: wrappers around library ciphers and codecs,
  ideal in BlobFormat; their pools and the AES key cache are the only state.
- `simple/format_detect.go`, `simple/incompressible.go`: tables of extensions and
  of leading bytes; BlobUpload takes their answer as a choice.
- Windows: `*_windows.go`. The POSIX build is followed throughout.
- Within names: wildcards and character classes of `path.Match`. The lines of an
  ignore file (its scanner stops silently at an overlong line) and the text of a
  size filter (one whose number overflows becomes a pattern).
- In manifests: the JSON codec, the v1 migration, FindFile and its tolerant form,
  reading the trash, the trashed registry.
- A source path that is a symbolic link (see NothingOmitted).
- In a restore: path sanitising and link checks, modes and times, directories
  other than one.
- Byte counts, rates and remaining time of the progress; the statistics of a run
  other than those its manifest keeps.
- A garbage collector: the application owns it. LocalBlobStore's Delete is what
  this repository contributes, and its properties name when it is safe.
- `cmd/demo`, `tools`, package documentation.

## What comes next

Proofs: AckedStored under power loss for one process; LossRejected, for which the
positions of sealed words in a blob, shown to be unique, have to be followed
through a blob that lost or repeats a stretch.
