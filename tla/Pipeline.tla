------------------------------ MODULE Pipeline ------------------------------
(***************************************************************************)
(* SimplePipeline.Run (simple/pipeline.go): the scan, the pool of upload   *)
(* workers fed through a bounded channel, cancellation of the context at   *)
(* any moment, the progress they report, and the decision to save a        *)
(* manifest.  What processFile does to one file is the module FileBackup;  *)
(* here it is an outcome.  A goroutine in a report does nothing else.      *)
(***************************************************************************)
EXTENDS Naturals, FiniteSets, Sequences, ProgressTracker

CONSTANTS Files,            \* paths under the source directory
          PrevFiles,        \* paths in the previous manifest
          Workers,          \* the goroutines of the pool
          Main,             \* the goroutine of Run
          Cap,              \* capacity of the channel, workerCount*4
          AllowScanErrors,  \* PipelineConfig.AllowScanErrors
          Faults            \* what processFile, the scan and the save run into

FaultKinds == {"prepare", "scan", "error", "locked", "denied", "save"}

ASSUME PipelineAssumption ==
    /\ IsFiniteSet(Files) /\ IsFiniteSet(Workers) /\ Workers # {}
    /\ Main \notin Workers /\ Threads = Workers \cup {Main}
    /\ Cap \in Nat \ {0}
    /\ AllowScanErrors \in BOOLEAN
    /\ Faults \subseteq FaultKinds

VARIABLES ctx,         \* the context: "live" or "cancelled"
          phase,       \* where Run is
          scanned,     \* files the scan found
          scanErrors,  \* whether it met unreadable paths
          todo,        \* scanned files not yet sent
          ch,          \* the channel
          closed,      \* whether it is closed
          worker,      \* per worker: its step, its file and the outcome
          manifest,    \* outcomes recorded per file
          stats,       \* the counters of uploadStats
          saved        \* the manifest that was saved, if any

run == <<ctx, phase, scanned, scanErrors, todo, ch, closed, worker, manifest,
         stats, saved>>
vars == <<run, tracker>>

(* What processFile returns: an entry, or an error of one of four kinds.   *)
EntryKinds == {"new", "changed", "unchanged"}
ErrorKinds == {"error", "locked", "denied", "interrupted"}
(* The counter an outcome is counted in; every error that is not a lock,   *)
(* ErrPermissionDenied and context.Canceled included, is a failed file.    *)
Counter(o) == IF o \in EntryKinds \cup {"locked"} THEN o ELSE "failed"
Counters == EntryKinds \cup {"locked", "failed"}

NotSaved == [files |-> {}, complete |-> FALSE, stats |-> [c \in Counters |-> 0]]
Idle == [step |-> "recv"]

Init ==
    /\ ctx = "live" /\ phase = "start"
    /\ scanned = {} /\ scanErrors = FALSE /\ todo = {}
    /\ ch = <<>> /\ closed = FALSE
    /\ worker = [k \in Workers |-> Idle]
    /\ manifest = [f \in Files |-> {}]
    /\ stats = [c \in Counters |-> 0]
    /\ saved = NotSaved
    /\ InitTracker

(* The caller cancels the context.                                         *)
Cancel ==
    /\ ctx = "live" /\ phase \notin {"complete", "failed"}
    /\ ctx' = "cancelled"
    /\ UNCHANGED <<phase, scanned, scanErrors, todo, ch, closed, worker,
                   manifest, stats, saved, tracker>>

-----------------------------------------------------------------------------
(* The CDC polynomial is loaded and the scan announced; then the previous  *)
(* manifest is loaded and the upload announced.  An error of either, unless*)
(* there is no manifest yet, ends the run.                                 *)
Prepare ==
    /\ Ready(Main)
    /\ \/ /\ phase = "start" /\ phase' = "load"
          /\ SetPhase(Main, "scanning")
       \/ /\ phase = "load" /\ phase' = "scan"
          /\ SetPhase(Main, "uploading")
       \/ /\ phase \in {"start", "load"} /\ "prepare" \in Faults
          /\ phase' = "failed"
          /\ UNCHANGED tracker
    /\ UNCHANGED <<ctx, scanned, scanErrors, todo, ch, closed, worker, manifest,
                   stats, saved>>

(* scanSourceTree: unreadable paths are counted and skipped.  A run that   *)
(* met any fails unless AllowScanErrors; so does a cancelled scan.         *)
Scan ==
    /\ phase = "scan" /\ Ready(Main)
    /\ \E missed \in SUBSET Files :
         /\ missed # {} => "scan" \in Faults
         /\ scanned' = Files \ missed
         /\ todo' = Files \ missed
         /\ scanErrors' = (missed # {})
         /\ \/ /\ ctx = "cancelled" \/ (missed # {} /\ ~AllowScanErrors)
               /\ phase' = "failed"
               /\ UNCHANGED tracker
            \/ /\ ctx = "live" /\ (missed = {} \/ AllowScanErrors)
               /\ phase' = "feed"
               /\ SetTotal(Main, Cardinality(Files \ missed))
    /\ UNCHANGED <<ctx, ch, closed, worker, manifest, stats, saved>>

Producer(next) ==
    /\ Ready(Main)
    /\ phase' = next
    /\ UNCHANGED <<ctx, scanned, scanErrors, worker, manifest, stats, saved, tracker>>

(* Mutant: a cancelled producer leaves without closing the channel.        *)
FeedLeavesOpen ==
    /\ phase = "feed"
    /\ IF todo = {} \/ ctx = "cancelled"
       THEN Producer("wait") /\ closed' = (ctx = "live")
       ELSE Producer("select") /\ UNCHANGED closed
    /\ UNCHANGED <<todo, ch>>

(* The checks of the context around the select, and the end of the loop,   *)
(* after which the channel is closed.                                      *)
Feed ==
    /\ phase = "feed"
    /\ IF todo = {} \/ ctx = "cancelled"
       THEN Producer("wait") /\ closed' = TRUE
       ELSE Producer("select") /\ UNCHANGED closed
    /\ UNCHANGED <<todo, ch>>

(* The select: send the next file, or pass it over once the context is     *)
(* done.                                                                   *)
Send ==
    /\ phase = "select"
    /\ Len(ch) < Cap
    /\ \E f \in todo : todo' = todo \ {f} /\ ch' = Append(ch, f)
    /\ Producer("feed") /\ UNCHANGED closed

SendCancelled ==
    /\ phase = "select" /\ ctx = "cancelled"
    /\ \E f \in todo : todo' = todo \ {f}
    /\ Producer("feed")
    /\ UNCHANGED <<ch, closed>>

(* Mutant: the pool is not waited for.                                     *)
PoolDoneEarly == ch = <<>> /\ \A k \in Workers : worker[k].step \in {"recv", "exited"}

PoolDone == \A k \in Workers : worker[k].step = "exited"

(* wg.Wait.                                                                *)
Join ==
    /\ phase = "wait"
    /\ PoolDone
    /\ Producer("check")
    /\ UNCHANGED <<todo, ch, closed>>

-----------------------------------------------------------------------------
WorkerStep(k, state) ==
    /\ worker' = [worker EXCEPT ![k] = state]
    /\ UNCHANGED <<ctx, phase, scanned, scanErrors, todo, closed, saved>>

(* The pool is started when the total has been reported.                   *)
Running(k) ==
    /\ Ready(k)
    /\ phase \in {"select", "wait"} \/ (phase = "feed" /\ Ready(Main))

(* Take a file from the channel; a worker that finds the context done drops*)
(* the file and leaves.                                                    *)
Receive(k) ==
    /\ Running(k) /\ worker[k].step = "recv" /\ ch # <<>>
    /\ ch' = Tail(ch)
    /\ WorkerStep(k, IF ctx = "cancelled" THEN [step |-> "exited"]
                     ELSE [step |-> "work", file |-> Head(ch)])
    /\ UNCHANGED <<manifest, stats, tracker>>

(* The channel is closed and drained.                                      *)
Leave(k) ==
    /\ Running(k) /\ worker[k].step = "recv" /\ closed /\ ch = <<>>
    /\ WorkerStep(k, [step |-> "exited"])
    /\ UNCHANGED <<ch, manifest, stats, tracker>>

(* processFile: an entry, or an error.                                     *)
Possible(f) ==
    (IF f \in PrevFiles THEN {"changed", "unchanged"} ELSE {"new"})
    \cup (Faults \cap ErrorKinds)
    \cup (IF ctx = "cancelled" THEN {"interrupted"} ELSE {})

Process(k) ==
    /\ worker[k].step = "work"
    /\ \E o \in Possible(worker[k].file) :
         WorkerStep(k, [step |-> "record", file |-> worker[k].file, outcome |-> o])
    /\ UNCHANGED <<ch, manifest, stats, tracker>>

(* Add the entry to the manifest and count it, under manifestMu, then      *)
(* report the file: as new when it is new or changed, as unchanged when it *)
(* failed.                                                                 *)
Record(k) ==
    LET f == worker[k].file
        o == worker[k].outcome IN
    /\ worker[k].step = "record"
    /\ manifest' = [manifest EXCEPT ![f] = @ \cup {o}]
    /\ stats' = [stats EXCEPT ![Counter(o)] = @ + 1]
    /\ WorkerStep(k, Idle)
    /\ FileProcessed(k, o \in {"new", "changed"}, o = "changed")
    /\ UNCHANGED ch

-----------------------------------------------------------------------------
(* Mutant: no check of the context after the pool has finished.            *)
CheckContextIgnored ==
    /\ phase = "check"
    /\ phase' = "save"
    /\ UNCHANGED <<ctx, scanned, scanErrors, todo, ch, closed, worker, manifest,
                   stats, saved, tracker>>

(* The check of the context after the pool has finished.                   *)
CheckContext ==
    /\ phase = "check"
    /\ phase' = IF ctx = "cancelled" THEN "failed" ELSE "save"
    /\ UNCHANGED <<ctx, scanned, scanErrors, todo, ch, closed, worker, manifest,
                   stats, saved, tracker>>

(* Mutant: completeness derived from the entries alone.                    *)
DeriveCompletenessFiles ==
    \A f \in Files : manifest[f] \cap ErrorKinds = {}

(* DeriveCompleteness: no scan errors and no locked or failed entry.       *)
DeriveCompleteness ==
    ~scanErrors /\ \A f \in Files : manifest[f] \cap ErrorKinds = {}

(* SaveManifestWithKey, which may fail, then updateSourceRegistry, whose   *)
(* failure is only logged, and the last report.                            *)
Save ==
    /\ phase = "save"
    /\ \/ /\ saved' = [files |-> {f \in Files : manifest[f] # {}},
                       complete |-> DeriveCompleteness, stats |-> stats]
          /\ phase' = "complete"
          /\ SetPhase(Main, "complete")
       \/ /\ "save" \in Faults
          /\ phase' = "failed" /\ UNCHANGED <<saved, tracker>>
    /\ UNCHANGED <<ctx, scanned, scanErrors, todo, ch, closed, worker, manifest,
                   stats>>

(* Run has returned.                                                       *)
Returned == phase \in {"complete", "failed"} /\ Ready(Main)
Stay == Returned /\ UNCHANGED vars

RunStep == \/ Prepare \/ Scan \/ Feed \/ Send \/ SendCancelled \/ Join
           \/ CheckContext \/ Save
Work(k) == Receive(k) \/ Leave(k) \/ Process(k) \/ Record(k)

Report(t) == (BeginCallback(t) \/ EndCallback(t)) /\ UNCHANGED run

Next == \/ Cancel \/ RunStep \/ (\E k \in Workers : Work(k))
        \/ (\E t \in Threads : Report(t)) \/ Stay

Spec == Init /\ [][Next]_vars

(* Goroutines are scheduled, the calls they make and the callback return,  *)
(* and cbMu goes to every waiter in turn.                                  *)
FairSpec ==
    /\ Spec /\ WF_vars(RunStep)
    /\ \A k \in Workers : WF_vars(Work(k))
    /\ \A t \in Threads : SF_vars(Report(t))

-----------------------------------------------------------------------------
SumStats(s) ==
    s["new"] + s["changed"] + s["unchanged"] + s["locked"] + s["failed"]

(* A saved manifest has one entry for every scanned file, no more and no   *)
(* fewer, and its counters add up to that: a file dropped by a cancelled   *)
(* pool never disappears from a snapshot silently, and no entry is the     *)
(* trace of a cancellation.                                                *)
SavedIsWhole ==
    phase = "complete" =>
        /\ saved.files = scanned
        /\ \A f \in scanned : /\ Cardinality(manifest[f]) = 1
                               /\ "interrupted" \notin manifest[f]
        /\ SumStats(saved.stats) = Cardinality(scanned)

(* A snapshot that calls itself complete has every file of the source, and *)
(* each of them restorable.                                                *)
CompleteIsComplete ==
    phase = "complete" /\ saved.complete =>
        \A f \in Files : f \in saved.files /\ manifest[f] \subseteq EntryKinds

(* What the callback sees last is what the run did: "complete" if and only *)
(* if it saved a manifest, and then with every scanned file counted.  No   *)
(* late snapshot of a worker overtakes it, although snapshots are handed   *)
(* over in any order (update, wg.Wait).                                    *)
CompleteIsLast ==
    Returned =>
        /\ delivered.phase = "complete" <=> phase = "complete"
        /\ phase = "complete" =>
             /\ delivered = progress
             /\ delivered.total = Cardinality(scanned)
             /\ delivered.processed = delivered.total
             /\ delivered.new = stats["new"] + stats["changed"]
             /\ delivered.unchanged = stats["unchanged"] + stats["locked"] + stats["failed"]

(* Run always returns, whenever the context is cancelled: the producer is  *)
(* never left blocked on a channel nobody reads, a worker on one nobody    *)
(* closes, nor a report on cbMu.                                           *)
RunReturns == <>Returned
=============================================================================
