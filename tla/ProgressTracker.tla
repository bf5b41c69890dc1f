-------------------------- MODULE ProgressTracker --------------------------
(***************************************************************************)
(* simple/progress.go: goroutines report the phases, the total and the     *)
(* files of a run; each report changes the tracked state and takes a       *)
(* snapshot of it under mu, and hands the snapshot to the callback, which  *)
(* runs under cbMu.  Byte counts and rates are left out.                   *)
(***************************************************************************)
EXTENDS Naturals, FiniteSets

CONSTANT Threads  \* the goroutines that report

VARIABLES progress,   \* the tracked state
          cbMu,       \* the threads that hold cbMu
          thread,     \* per thread: its step and its snapshot
          delivered   \* the snapshot the callback saw last

tracker == <<progress, cbMu, thread, delivered>>

(* NewProgressTracker.                                                     *)
NewProgress == [phase |-> "scanning", total |-> 0, processed |-> 0,
                new |-> 0, changed |-> 0, unchanged |-> 0]

InitTracker ==
    /\ progress = NewProgress
    /\ cbMu = {}
    /\ thread = [t \in Threads |-> [step |-> "ready"]]
    /\ delivered = NewProgress

(* A thread that is not in a report.                                       *)
Ready(t) == thread[t].step = "ready"

-----------------------------------------------------------------------------
(* update: change the state and take the snapshot in one critical section. *)
Update(t, p) ==
    /\ progress' = p
    /\ thread' = [thread EXCEPT ![t] = [step |-> "deliver", snapshot |-> p]]
    /\ UNCHANGED <<cbMu, delivered>>

SetPhase(t, phase) == Update(t, [progress EXCEPT !.phase = phase])

SetTotal(t, files) == Update(t, [progress EXCEPT !.total = files])

FileProcessed(t, isNew, isChanged) ==
    Update(t, [progress EXCEPT
        !.processed = @ + 1,
        !.new = IF isNew THEN @ + 1 ELSE @,
        !.changed = IF ~isNew /\ isChanged THEN @ + 1 ELSE @,
        !.unchanged = IF ~isNew /\ ~isChanged THEN @ + 1 ELSE @])

(* Lock cbMu and call the callback.                                        *)
BeginCallback(t) ==
    /\ thread[t].step = "deliver" /\ cbMu = {}
    /\ cbMu' = {t}
    /\ delivered' = thread[t].snapshot
    /\ thread' = [thread EXCEPT ![t] = [step |-> "callback"]]
    /\ UNCHANGED progress

(* The callback returns; it may have called GetProgress, which takes mu,   *)
(* and mu is free between two steps.                                       *)
EndCallback(t) ==
    /\ thread[t].step = "callback"
    /\ cbMu' = cbMu \ {t}
    /\ thread' = [thread EXCEPT ![t] = [step |-> "ready"]]
    /\ UNCHANGED <<progress, delivered>>
=============================================================================
