--------------------------- MODULE LocalBlobStore ---------------------------
(***************************************************************************)
(* simple/local_store.go: the blob store on a local file system.  Several  *)
(* goroutines (Threads) share one LocalBlobStore value (Instances); several*)
(* values, one per process, share the directory tree.  Each value has its  *)
(* own exists cache and its own per-hash put mutex.                        *)
(*                                                                         *)
(* The variables call and blobs are the abstract ones of BlobStore; a step *)
(* of a call is one file system operation or one critical section of       *)
(* existsMu.  Blob contents are left out: a key determines its content.    *)
(* Every hash has its own shard directory gb/xx.  Staging files are left   *)
(* out as well: their names are unique per call and no operation reads     *)
(* them (List and WarmExistsCache skip names that do not end in ".gb").    *)
(* dirCache is left out: a shard directory only disappears in a power loss,*)
(* which ends every process that cached it.                                *)
(***************************************************************************)
EXTENDS FiniteSets

CONSTANTS Hashes,      \* well-formed blob keys
          Malformed,   \* keys validateHash rejects
          Threads,     \* goroutines that call the store
          Instances,   \* LocalBlobStore values
          InstanceOf,  \* the value each thread calls
          DeleteMode,  \* what callers of Delete guarantee, see MayStart
          OldShards,   \* hashes whose shard directory is durable initially
          Faults       \* what may go wrong: see FaultKinds

(* "stat", "write", "rename", "sync", "remove": that system call fails;    *)
(* "kill": a process dies; "power": all of them, and unsynced entries.     *)
FaultKinds == {"stat", "write", "rename", "sync", "remove", "kill", "power"}

ASSUME StoreAssumption ==
    /\ Hashes \cap Malformed = {}
    /\ InstanceOf \in [Threads -> Instances]
    /\ DeleteMode \in {"quiet", "any"}
    /\ OldShards \subseteq Hashes
    /\ Faults \subseteq FaultKinds

VARIABLES blobs,      \* hashes whose blob file exists
          synced,     \* hashes with a durable directory entry
          shards,     \* hashes whose shard directory exists
          oldShards,  \* those whose shard directory is durable
          existsSet,  \* the exists cache of every instance
          call,       \* the call of every thread, as in BlobStore
          pc,         \* what its call does next
          found,      \* what its directory reads found so far
          acked       \* hashes whose last Put returned nil, Deletes excepted

vars == <<blobs, synced, shards, oldShards, existsSet, call, pc, found, acked>>
disk == <<blobs, synced, shards, oldShards>>

Abstract == INSTANCE BlobStore WITH stored <- blobs

Steps == {"idle", "lock", "cache", "read", "stat", "write", "rename", "sync",
          "fill", "remove", "forget"}

TypeOK ==
    /\ blobs \in SUBSET Hashes
    /\ synced \in SUBSET Hashes
    /\ shards \in SUBSET Hashes
    /\ oldShards \in SUBSET Hashes
    /\ existsSet \in [Instances -> SUBSET Hashes]
    /\ call \in [Threads -> Abstract!Calls]
    /\ pc \in [Threads -> Steps]
    /\ found \in [Threads -> SUBSET Hashes]
    /\ acked \in SUBSET Hashes

(* A new LocalBlobStore over a directory that earlier runs may have filled.*)
Init ==
    /\ shards = OldShards
    /\ oldShards = OldShards
    /\ blobs \in SUBSET OldShards
    /\ synced = blobs
    /\ existsSet = [i \in Instances |-> {}]
    /\ call = [t \in Threads |-> Abstract!NoCall]
    /\ pc = [t \in Threads |-> "idle"]
    /\ found = [t \in Threads |-> {}]
    /\ acked = {}

-----------------------------------------------------------------------------
(* The call of t has todo left to look at or do, and yes for an answer.    *)
SetCall(t, todo, yes, out) ==
    call' = [call EXCEPT ![t] = Abstract!With(call[t], todo, yes, out)]

Progress(t, todo, yes) == SetCall(t, todo, yes, call[t].out)

(* The two ways a call ends.                                               *)
Return(t, todo, yes) ==
    /\ SetCall(t, todo, yes, "ok")
    /\ pc' = [pc EXCEPT ![t] = "idle"]
    /\ found' = [found EXCEPT ![t] = {}]

Error(t) ==
    /\ SetCall(t, call[t].todo, call[t].yes, "err")
    /\ pc' = [pc EXCEPT ![t] = "idle"]
    /\ found' = [found EXCEPT ![t] = {}]
    /\ UNCHANGED <<disk, existsSet, acked>>

Goto(t, step) == pc' = [pc EXCEPT ![t] = step]

Busy(t, hs) == pc[t] # "idle" /\ call[t].hs \cap hs # {}

(* In mode "quiet" the callers guarantee what garbage collection needs: no *)
(* other call on a blob overlaps its Delete, and no other instance deletes *)
(* a blob this one has cached.  In mode "any" they guarantee nothing.      *)
MayStart(t, op, hs) ==
    DeleteMode = "quiet" =>
      /\ \A u \in Threads \ {t} :
           Busy(u, hs) => op # "delete" /\ call[u].op # "delete"
      /\ op = "delete" =>
           \A i \in Instances \ {InstanceOf[t]} : existsSet[i] \cap hs = {}

FirstStep(op) == CASE op = "put" -> "lock"
                   [] op = "exists" -> "cache"
                   [] op = "delete" -> "remove"
                   [] OTHER -> "read"

(* A thread calls one of the store's methods.                              *)
Invoke(t) ==
    /\ pc[t] = "idle"
    /\ \E op \in Abstract!Ops : \E hs \in Abstract!Args(op) :
         /\ MayStart(t, op, hs)
         /\ call' = [call EXCEPT ![t] = Abstract!NewCall(op, hs)]
         /\ Goto(t, FirstStep(op))
    /\ UNCHANGED <<disk, existsSet, found, acked>>

(* ErrInvalidHash, before anything else happens.                           *)
Reject(t) ==
    /\ pc[t] \in {"lock", "cache", "read", "remove"}
    /\ call[t].hs \cap Malformed # {}
    /\ Error(t)

-----------------------------------------------------------------------------
(* putBlob, the body of Put and PutStream.                                 *)

(* Mutant: an error return that forgets to unlock.                         *)
PutHoldsAfterError(t) ==
    /\ call[t].op = "put"
    /\ \/ pc[t] \in {"stat", "write", "rename", "sync", "fill"}
       \/ pc[t] = "idle" /\ call[t].out = "err"

PutHolds(t) == /\ call[t].op = "put"
               /\ pc[t] \in {"stat", "write", "rename", "sync", "fill"}

(* lockPut: the mutex of a hash is free in t's instance.                   *)
LockFree(t, hs) ==
    \A u \in Threads \ {t} :
        InstanceOf[u] = InstanceOf[t] /\ PutHolds(u) => call[u].hs # hs

(* Take the mutex and look the hash up in the exists cache.                *)
PutLock(t) ==
    LET hs == call[t].hs IN
    /\ pc[t] = "lock" /\ hs \subseteq Hashes
    /\ LockFree(t, hs)
    /\ \/ /\ hs \subseteq existsSet[InstanceOf[t]]
          /\ Return(t, {}, {})
          /\ acked' = acked \cup hs
       \/ /\ ~ hs \subseteq existsSet[InstanceOf[t]]
          /\ Goto(t, "stat")
          /\ UNCHANGED <<call, found, acked>>
    /\ UNCHANGED <<disk, existsSet>>

(* The file is in place: only the cache is left to fill.                   *)
InPlace(t) ==
    /\ Progress(t, {}, call[t].yes)
    /\ Goto(t, "fill")
    /\ UNCHANGED <<disk, existsSet, found, acked>>

(* Stat the final name; any error is taken for "not there".                *)
PutStat(t) ==
    /\ pc[t] = "stat" /\ call[t].op = "put"
    /\ \/ call[t].hs \subseteq blobs /\ InPlace(t)
       \/ /\ ~ call[t].hs \subseteq blobs \/ "stat" \in Faults
          /\ Goto(t, "write")
          /\ UNCHANGED <<disk, existsSet, call, found, acked>>

(* ensureDir, then create, write, fsync and close the staging file.        *)
PutWrite(t) ==
    /\ pc[t] = "write"
    /\ \/ /\ shards' = shards \cup call[t].hs
          /\ Goto(t, "rename")
          /\ UNCHANGED <<blobs, synced, oldShards, existsSet, call, found, acked>>
       \/ "write" \in Faults /\ Error(t)

(* Rename it over the final name.  When that fails the call succeeds all   *)
(* the same if the final name exists.                                      *)
PutRename(t) ==
    /\ pc[t] = "rename"
    /\ \/ /\ blobs' = blobs \cup call[t].hs
          /\ Progress(t, {}, call[t].yes)
          /\ Goto(t, "sync")
          /\ UNCHANGED <<synced, shards, oldShards, existsSet, found, acked>>
       \/ /\ "rename" \in Faults
          /\ \/ call[t].hs \subseteq blobs /\ InPlace(t)
             \/ ~ call[t].hs \subseteq blobs /\ Error(t)

(* Mutant: no fsync of the directory.                                      *)
PutSyncSkipped(t) ==
    /\ pc[t] = "sync"
    /\ Goto(t, "fill")
    /\ UNCHANGED <<disk, existsSet, call, found, acked>>

(* SyncParent: fsync the shard directory.  It makes the entries of the     *)
(* shard durable, not the shard's own entry in gb/.                        *)
PutSync(t) ==
    /\ pc[t] = "sync"
    /\ \/ /\ synced' = (synced \ call[t].hs) \cup (call[t].hs \cap blobs)
          /\ Goto(t, "fill")
          /\ UNCHANGED <<blobs, shards, oldShards, existsSet, call, found, acked>>
       \/ "sync" \in Faults /\ Error(t)

-----------------------------------------------------------------------------
(* Add hs to the exists cache of t's instance, under existsMu.             *)
FillCache(t, hs) ==
    existsSet' = [existsSet EXCEPT ![InstanceOf[t]] = @ \cup hs]

PutFill(t) ==
    /\ pc[t] = "fill" /\ call[t].op = "put"
    /\ FillCache(t, call[t].hs)
    /\ Return(t, {}, {})
    /\ acked' = acked \cup call[t].hs
    /\ UNCHANGED disk

(* Mutant: a cache hit answers for the whole batch.                        *)
CachePassFirstHit(t) ==
    LET hits == call[t].hs \cap existsSet[InstanceOf[t]] IN
    /\ pc[t] = "cache" /\ call[t].hs \subseteq Hashes
    /\ \/ hits # {} /\ Return(t, {}, call[t].hs)
       \/ /\ hits = {} /\ Return(t, {}, {})
    /\ UNCHANGED <<disk, existsSet, acked>>

(* Exists and ExistsBatch: one pass over the cache under the read lock.    *)
CachePass(t) ==
    LET hits == call[t].hs \cap existsSet[InstanceOf[t]]
        misses == call[t].hs \ hits IN
    /\ pc[t] = "cache" /\ call[t].hs \subseteq Hashes
    /\ \/ /\ misses = {}
          /\ Return(t, {}, hits)
       \/ /\ misses # {}
          /\ Progress(t, misses, hits)
          /\ Goto(t, "stat")
          /\ UNCHANGED found
    /\ UNCHANGED <<disk, existsSet, acked>>

(* What follows the last stat: Exists and ExistsBatch merge what they found*)
(* into the cache, WarmExistsCache too, List does not.                     *)
ReadOn(t, h, seen) ==
    LET todo == call[t].todo \ {h}
        yes == call[t].yes \cup seen IN
    /\ IF todo = {} /\ (call[t].op = "list" \/ found[t] \cup seen = {})
       THEN Return(t, todo, yes)
       ELSE /\ Progress(t, todo, yes)
            /\ found' = [found EXCEPT ![t] = @ \cup seen]
            /\ Goto(t, IF todo = {} THEN "fill" ELSE pc[t])
    /\ UNCHANGED <<disk, existsSet, acked>>

(* Exists and ExistsBatch stat one miss, without a lock.                   *)
ExistsStat(t) ==
    /\ pc[t] = "stat" /\ call[t].op = "exists"
    /\ \/ \E h \in call[t].todo : ReadOn(t, h, {h} \cap blobs)
       \/ "stat" \in Faults /\ Error(t)

(* List, ListWithModTime and WarmExistsCache read one shard directory; one *)
(* that cannot be read is skipped without an error.                        *)
ReadShard(t) ==
    /\ pc[t] = "read" /\ call[t].op \in {"list", "warm"}
    /\ \E h \in call[t].todo :
         \/ ReadOn(t, h, {h} \cap blobs)
         \/ "stat" \in Faults /\ ReadOn(t, h, {})

ReadFill(t) ==
    /\ pc[t] = "fill" /\ call[t].op \in {"exists", "warm"}
    /\ FillCache(t, found[t])
    /\ Return(t, {}, call[t].yes)
    /\ UNCHANGED <<disk, acked>>

(* Get and GetStream open the blob file; the cache plays no part.          *)
Get(t) ==
    /\ pc[t] = "read" /\ call[t].op = "get" /\ call[t].hs \subseteq Hashes
    /\ \/ /\ call[t].hs \subseteq blobs
          /\ Return(t, {}, call[t].hs)
          /\ UNCHANGED <<disk, existsSet, acked>>
       \/ ~ call[t].hs \subseteq blobs /\ Error(t)

-----------------------------------------------------------------------------
(* Delete takes no put mutex: it removes the file ...                      *)
DeleteRemove(t) ==
    /\ pc[t] = "remove" /\ call[t].hs \subseteq Hashes
    /\ \/ /\ blobs' = blobs \ call[t].hs
          /\ acked' = acked \ call[t].hs
          /\ Progress(t, {}, call[t].yes)
          /\ Goto(t, "forget")
          /\ UNCHANGED <<synced, shards, oldShards, existsSet, found>>
       \/ "remove" \in Faults /\ Error(t)

(* Mutant: the cache entry survives the file.                              *)
DeleteKeepsEntry(t) ==
    /\ pc[t] = "forget"
    /\ Return(t, {}, {})
    /\ UNCHANGED <<disk, existsSet, acked>>

(* ... and then forgets the hash.                                          *)
DeleteForget(t) ==
    /\ pc[t] = "forget"
    /\ existsSet' = [existsSet EXCEPT ![InstanceOf[t]] = @ \ call[t].hs]
    /\ Return(t, {}, {})
    /\ UNCHANGED <<disk, acked>>

-----------------------------------------------------------------------------
(* The threads of the instances is end where they are, with their caches.  *)
Die(is) ==
    LET dead == {t \in Threads : InstanceOf[t] \in is} IN
    /\ existsSet' = [i \in Instances |-> IF i \in is THEN {} ELSE existsSet[i]]
    /\ call' = [t \in Threads |-> IF t \in dead THEN Abstract!NoCall ELSE call[t]]
    /\ pc' = [t \in Threads |-> IF t \in dead THEN "idle" ELSE pc[t]]
    /\ found' = [t \in Threads |-> IF t \in dead THEN {} ELSE found[t]]

(* A process is killed and started again; the file system is unharmed.     *)
Kill(i) ==
    /\ "kill" \in Faults
    /\ Die({i})
    /\ UNCHANGED <<disk, acked>>

(* Power loss: a directory entry that was made or removed since the last   *)
(* fsync may or may not be there afterwards, and nothing is in a shard that*)
(* is not.                                                                 *)
PowerLoss ==
    /\ "power" \in Faults
    /\ Die(Instances)
    /\ \E lost \in SUBSET (shards \ oldShards) :
       \E unsure \in SUBSET (blobs \cup synced) :
         /\ shards' = shards \ lost
         /\ oldShards' = shards \ lost
         /\ blobs' = ((blobs \cap synced) \cup unsure) \ lost
         /\ synced' = ((blobs \cap synced) \cup unsure) \ lost
    /\ UNCHANGED acked

Step(t) == \/ Reject(t)
           \/ PutLock(t) \/ PutStat(t) \/ PutWrite(t)
           \/ PutRename(t) \/ PutSync(t) \/ PutFill(t)
           \/ CachePass(t) \/ ExistsStat(t)
           \/ ReadShard(t) \/ ReadFill(t) \/ Get(t)
           \/ DeleteRemove(t) \/ DeleteForget(t)

Next == \/ \E t \in Threads : Invoke(t) \/ Step(t)
        \/ \E i \in Instances : Kill(i)
        \/ PowerLoss

Spec == Init /\ [][Next]_vars

(* Goroutines are scheduled, system calls return, and a sync.Mutex serves  *)
(* a waiter that has waited too long first: only a thread that waits for   *)
(* the mutex has its next step enabled and disabled again.                 *)
FairSpec == Spec /\ \A t \in Threads : SF_vars(Step(t))

-----------------------------------------------------------------------------
(* The inductive invariant of the proofs in LocalBlobStoreProofs.          *)

(* Which steps each operation goes through, on which keys.                 *)
StepsOf(op) ==
    CASE op = "put" -> {"lock", "stat", "write", "rename", "sync", "fill"}
      [] op = "exists" -> {"cache", "stat", "fill"}
      [] op \in {"list", "warm"} -> {"read", "fill"}
      [] op = "get" -> {"read"}
      [] op = "delete" -> {"remove", "forget"}

CallOK(t) ==
    LET c == call[t] IN
    /\ c.todo \subseteq c.hs
    /\ pc[t] \in StepsOf(c.op)
    /\ c.op \in {"list", "warm"} => c.hs = Hashes
    /\ c.op \in {"put", "delete"} => \E h \in Hashes \cup Malformed : c.hs = {h}
    /\ pc[t] \notin {"lock", "cache", "read", "remove"} => c.hs \subseteq Hashes

CallsWellFormed == \A t \in Threads : pc[t] # "idle" => CallOK(t)

(* What a call in flight relies on is true of the directory: the blob of a *)
(* Put that has it in place, what a reader found, and, for a Delete, that  *)
(* no other instance has cached the blob.                                  *)
InFlightOK(t) ==
    /\ found[t] \subseteq blobs
    /\ pc[t] = "idle" => found[t] = {}
    /\ pc[t] # "idle" =>
         /\ found[t] \subseteq call[t].hs
         /\ call[t].op = "put" /\ pc[t] \in {"sync", "fill"} => call[t].hs \subseteq blobs
         /\ call[t].op = "delete" =>
              /\ found[t] = {}
              /\ \A i \in Instances \ {InstanceOf[t]} : existsSet[i] \cap call[t].hs = {}

InFlight == \A t \in Threads : InFlightOK(t)

(* Deleting and other calls exclude each other while the Delete runs.      *)
DeleteAlone ==
    \A t, u \in Threads :
        t # u /\ pc[t] # "idle" /\ call[t].op = "delete" => ~Busy(u, call[t].hs)

(* The exists cache never vouches for a blob that is not there, except     *)
(* between the two steps of a Delete: putBlob and Exists answer from it    *)
(* without looking at the disk.                                            *)
CacheSound ==
    \A i \in Instances : \A h \in existsSet[i] \ blobs :
        \E t \in Threads :
            InstanceOf[t] = i /\ pc[t] = "forget" /\ call[t].hs = {h}

(* A blob whose Put returned nil is in the store until it is deleted: the  *)
(* pipeline writes its hash into a manifest on the strength of that nil.   *)
(* Killed processes do not change that.  Nor does a power loss, where one  *)
(* process uses the store and is not killed, SyncParent does not fail and  *)
(* the shard directory is durable: a Put that finds the file of another    *)
(* process, or of a Put cut short, returns without a sync of its own.      *)
AckedStored == acked \subseteq blobs

(* Together they are inductive when Deletes are quiet and the power holds. *)
StoreInv == TypeOK /\ CallsWellFormed /\ DeleteAlone /\ InFlight /\ CacheSound
            /\ AckedStored

(* The store implements the abstract one: every call takes effect, and     *)
(* answers, at moments between its invocation and its return.              *)
ImplementsBlobStore == Abstract!Spec

(* Every call returns: the put mutex is always released.                   *)
CallsReturn == \A t \in Threads : pc[t] # "idle" ~> pc[t] = "idle"
=============================================================================
